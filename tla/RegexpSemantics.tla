-------------------------- MODULE RegexpSemantics --------------------------
\* What a regular expression means: the reference that the compiler and the matcher of
\* the engine are compared with.  Nothing here is taken from the bytecode: a pattern is
\* a tree, and matching it gives the sequence of all its results, the preferred one first.
EXTENDS Utf8, SequencesExt

(* Subjects are sequences of bytes in UTF-8; positions are offsets in bytes. *)
CharBefore(s, p) == CharAt(s, PrevBoundary(s, p))

IsLineEnd(c) == c \in {10, 13, 8232, 8233}
IsWordChar(c) == c \in 48 .. 57 \cup 97 .. 122 \cup 65 .. 90 \cup {95}
IsSpace(c) == c \in 9 .. 13 \cup {32, 160, 5760} \cup 8192 .. 8202 \cup {8232, 8233, 8239, 8287, 12288, 65279}
FoldCase(c) == IF c \in 65 .. 90 THEN c + 32 ELSE c

-----------------------------------------------------------------------------
(* Tokens of a pattern. *)
Tok(t) == [t |-> t]
Char(c) == [t |-> "char", c |-> c]
Back(n) == [t |-> "back", n |-> n]
Quant(min, max, greedy) == [t |-> "quant", min |-> min, max |-> max, greedy |-> greedy]
Item(e, lo, hi, inv) == [e |-> e, lo |-> lo, hi |-> hi, inv |-> inv]
Class(inv, items) == [t |-> "class", inv |-> inv, items |-> items]
Esc(e, inv) == [t |-> "esc", item |-> Item(e, 0, 0, inv)]

Assertions == {"^", "$", "\\b", "\\B"}
Openers == {"(", "(?:", "(?=", "(?!"}

(* The tree of a pattern.  The captures of the body of a group are lo .. hi. *)
Leaf(tok) == [k |-> "leaf", tok |-> tok, lo |-> 1, hi |-> 0]
Frame(open, cap, ncap) == [open |-> open, cap |-> cap, lo |-> ncap, alts |-> <<>>, cur |-> <<>>]
Body(f) == [k |-> "alt", s |-> Append(f.alts, [k |-> "seq", s |-> f.cur])]
Quantifiable(n) == CASE n.k = "leaf" -> n.tok.t \notin Assertions
                     [] n.k = "group" -> n.open \in {"(", "(?:"}
                     [] OTHER -> FALSE

Reader == [frames |-> <<Frame("", 0, 1)>>, ncap |-> 1, bad |-> FALSE]
Read(r, tok) ==
  LET top == Last(r.frames)
      Top(f) == [r EXCEPT !.frames = Append(Front(@), f)]
      Bad == [r EXCEPT !.bad = TRUE]
  IN  CASE r.bad -> r
        [] tok.t \in Openers ->
             LET cap == IF tok.t = "(" THEN r.ncap ELSE 0 IN
             [r EXCEPT !.frames = Append(@, Frame(tok.t, cap, r.ncap)),
                       !.ncap = @ + (IF cap > 0 THEN 1 ELSE 0)]
        [] tok.t = ")" /\ Len(r.frames) = 1 -> Bad
        [] tok.t = ")" ->
             LET below == r.frames[Len(r.frames) - 1]
                 group == [k |-> "group", open |-> top.open, cap |-> top.cap, body |-> Body(top),
                           lo |-> top.lo, hi |-> r.ncap - 1]
             IN  [r EXCEPT !.frames = Append(SubSeq(@, 1, Len(@) - 2),
                                             [below EXCEPT !.cur = Append(@, group)])]
        [] tok.t = "|" -> Top([top EXCEPT !.alts = Append(@, [k |-> "seq", s |-> top.cur]), !.cur = <<>>])
        [] tok.t = "quant" ->
             IF top.cur = <<>> \/ tok.min > tok.max THEN Bad
             ELSE IF ~Quantifiable(Last(top.cur)) THEN Bad
             ELSE Top([top EXCEPT !.cur = Append(Front(@),
                    [k |-> "q", min |-> tok.min, max |-> tok.max, greedy |-> tok.greedy, body |-> Last(@),
                     lo |-> Last(@).lo, hi |-> Last(@).hi])])
        [] tok.t = "class" /\ \E i \in DOMAIN tok.items : tok.items[i].lo > tok.items[i].hi -> Bad
        [] OTHER -> Top([top EXCEPT !.cur = Append(@, Leaf(tok))])

RECURSIVE ReadFrom(_, _)
ReadFrom(r, toks) == IF toks = <<>> THEN r ELSE ReadFrom(Read(r, Head(toks)), Tail(toks))
ReadAll(toks) == ReadFrom(Reader, toks)
IsLegal(toks, r, maxcap) ==
  /\ ~r.bad /\ Len(r.frames) = 1 /\ r.ncap <= maxcap
  /\ \A i \in DOMAIN toks : toks[i].t = "back" => toks[i].n < r.ncap
Tree(r) == Body(Last(r.frames))

-----------------------------------------------------------------------------
(* Matching.  x is a position and the captures; e the subject and the flags. *)
Holds(item, c) ==
  CASE item.e = "range" -> c \in item.lo .. item.hi
    [] item.e = "d" -> (c \in 48 .. 57) # item.inv
    [] item.e = "w" -> IsWordChar(c) # item.inv
    [] item.e = "s" -> IsSpace(c) # item.inv
SameCase(c) == IF c \in 65 .. 90 THEN {c, c + 32} ELSE IF c \in 97 .. 122 THEN {c, c - 32} ELSE {c}
Variants(c, e) == IF e.fl.i THEN SameCase(c) ELSE {c}

Consumes(tok, c, e) ==
  CASE tok.t = "char" -> tok.c \in Variants(c, e)
    [] tok.t = "." -> e.fl.s \/ ~IsLineEnd(c)
    [] tok.t = "esc" -> Holds(tok.item, c)
    [] tok.t = "class" ->
         (\E i \in DOMAIN tok.items : LET it == tok.items[i] IN
            \E d \in IF it.e = "range" THEN Variants(c, e) ELSE {c} : Holds(it, d)) # tok.inv

AtWord(s, p) == p < Len(s) /\ IsWordChar(CharAt(s, p))
AfterWord(s, p) == p > 0 /\ IsWordChar(CharBefore(s, p))
Asserted(t, p, e) ==
  CASE t = "^" -> p = 0 \/ (e.fl.m /\ IsLineEnd(CharBefore(e.s, p)))
    [] t = "$" -> p = Len(e.s) \/ (e.fl.m /\ IsLineEnd(CharAt(e.s, p)))
    [] t = "\\b" -> AtWord(e.s, p) # AfterWord(e.s, p)
    [] t = "\\B" -> AtWord(e.s, p) = AfterWord(e.s, p)

Bytes(s, p, q) == SubSeq(s, p + 1, q)
Folded(b, e) == IF e.fl.i THEN [i \in DOMAIN b |-> FoldCase(b[i])] ELSE b
LeafResults(tok, x, e) ==
  CASE tok.t \in Assertions -> IF Asserted(tok.t, x.p, e) THEN <<x>> ELSE <<>>
    [] tok.t = "back" ->
         LET b == IF x.c[2 * tok.n] = -1 \/ x.c[2 * tok.n + 1] = -1 THEN <<>>
                  ELSE Bytes(e.s, x.c[2 * tok.n], x.c[2 * tok.n + 1])
         IN  IF x.p + Len(b) > Len(e.s) THEN <<>>
             ELSE IF Folded(Bytes(e.s, x.p, x.p + Len(b)), e) = Folded(b, e)
                  THEN <<[x EXCEPT !.p = @ + Len(b)]>> ELSE <<>>
    [] OTHER -> IF x.p < Len(e.s) /\ Consumes(tok, CharAt(e.s, x.p), e)
                THEN <<[x EXCEPT !.p = @ + CharLen(e.s, x.p)]>> ELSE <<>>

Undefined(x, lo, hi) == [x EXCEPT !.c = [i \in DOMAIN @ |-> IF i \div 2 \in lo .. hi THEN -1 ELSE @[i]]]

(* The results of n from each of the states xs, in order. *)
RECURSIVE Results(_, _, _)
Results(n, xs, e) ==
  IF xs = <<>> THEN <<>>
  ELSE IF Len(xs) > 1 THEN Results(n, <<Head(xs)>>, e) \o Results(n, Tail(xs), e)
  ELSE LET x == Head(xs) IN
  CASE n.k = "leaf" -> LeafResults(n.tok, x, e)
    [] n.k = "seq" /\ n.s = <<>> -> xs
    [] n.k = "seq" /\ n.s # <<>> -> Results([n EXCEPT !.s = Tail(@)], Results(Head(n.s), xs, e), e)
    [] n.k = "alt" /\ n.s = <<>> -> <<>>
    [] n.k = "alt" /\ n.s # <<>> -> Results(Head(n.s), xs, e) \o Results([n EXCEPT !.s = Tail(@)], xs, e)
    [] n.k = "group" ->
         LET rs == Results(n.body, xs, e) IN
        (CASE n.open = "(?:" -> rs
           [] n.open = "(" -> [i \in DOMAIN rs |-> [rs[i] EXCEPT !.c[2 * n.cap] = x.p, !.c[2 * n.cap + 1] = rs[i].p]]
           [] n.open = "(?=" -> IF rs = <<>> THEN <<>> ELSE <<[Head(rs) EXCEPT !.p = x.p]>>
           [] n.open = "(?!" -> IF rs = <<>> THEN <<x>> ELSE <<>>)
    [] n.k = "q" ->
         LET once == Results(n.body, <<Undefined(x, n.lo, n.hi)>>, e)
             useful == SelectSeq(once, LAMBDA r : n.min > 0 \/ r.p # x.p)
             less == [n EXCEPT !.min = IF @ = 0 THEN 0 ELSE @ - 1, !.max = @ - 1]
             more == IF n.max = 0 THEN <<>> ELSE Results(less, useful, e)
         IN  IF n.min > 0 THEN more
             ELSE IF n.greedy THEN more \o <<x>> ELSE <<x>> \o more

(* The match of a pattern from a position on, sought at each character unless *)
(* the pattern is sticky; <<>>, or its captures.                              *)
ResultsAt(tree, p, ncap, e) == Results(tree, <<[p |-> p, c |-> [i \in 0 .. 2 * ncap - 1 |-> -1]]>>, e)
Hit(p, x) == <<[x.c EXCEPT ![0] = p, ![1] = x.p]>>
The(S) == CHOOSE v \in S : TRUE
RECURSIVE MatchFrom(_, _, _, _)
MatchFrom(tree, p, ncap, e) ==
  The({IF rs # <<>> THEN Hit(p, Head(rs))
       ELSE IF e.fl.y \/ p = Len(e.s) THEN <<>>
       ELSE MatchFrom(tree, p + CharLen(e.s, p), ncap, e) : rs \in {ResultsAt(tree, p, ncap, e)}})
=============================================================================
