---------------------------- MODULE RegexpMethods ----------------------------
\* The methods that match again and again: exec with lastIndex, match, search, replace and
\* split with a regular expression.  lre_exec is what Regexp shows it to be, the matching
\* of RegexpSemantics; a capture buffer keeps what a match did not set.
\*
\* Strings are in UTF-8 for the matcher and seen in UTF-16 by the program: an index of the
\* program counts a character of 4 bytes twice.
EXTENDS RegexpSemantics

CONSTANTS
  Calls,        \* the calls: [m, toks, fl, g, str, li, rep, lim]
  MaxOut        \* how much of an endless result is kept

MethodsAssumption == MaxOut \in Nat

VARIABLES
  in,           \* the call
  re,           \* the pattern: its tree, its number of captures, last_index
  k,            \* the locals of the loop: last_index, endOfLastMatch, p, q, and its turns
  capture,      \* capture_buf of js_string_replace
  out,          \* what was found: the new string, or the items of the array
  done

vars == <<in, re, k, capture, out, done>>

None == 0 - 1
Unset(n) == [i \in 0 .. 2 * n - 1 |-> None]
BiggerOf(a, b) == IF a > b THEN a ELSE b

Init ==
  /\ in \in Calls
  /\ re = [tree |-> Tree(ReadAll(in.toks)), ncap |-> ReadAll(in.toks).ncap, last_index |-> in.li]
  /\ k = [last_index |-> IF in.g THEN 0 ELSE IF in.fl.y THEN in.li ELSE 0, end |-> 0, p |-> 0, q |-> 0, n |-> 0]
  /\ capture = Unset(ReadAll(in.toks).ncap)
  /\ out = <<>>
  /\ done = FALSE

Env == [s |-> in.str, fl |-> in.fl]
Units(s, p) == IF CharLen(s, p) = 4 THEN 2 ELSE 1
RECURSIVE Utf16Pos(_, _)
Utf16Pos(s, p) == IF p = 0 THEN 0
                  ELSE LET q == PrevBoundary(s, p) IN Utf16Pos(s, q) + Units(s, q)
Utf16Len == Utf16Pos(in.str, Len(in.str))
(* js_string_utf16_to_utf8_pos / 2: the character that an index is in. *)
RECURSIVE Utf8PosFrom(_, _, _)
Utf8PosFrom(s, p, i) ==
  IF p = Len(s) THEN p ELSE IF i < Units(s, p) THEN p ELSE Utf8PosFrom(s, p + CharLen(s, p), i - Units(s, p))
Utf8Pos(s, i) == Utf8PosFrom(s, 0, i)
Piece(from, to) == Bytes(in.str, Utf8Pos(in.str, from), Utf8Pos(in.str, to))

(* lre_exec: <<>>, or the capture buffer after the match. *)
Over(m, buf) == [i \in DOMAIN buf |-> IF m[i] = None THEN buf[i] ELSE m[i]]
lre_exec(index, buf) ==
  The({IF m = <<>> THEN <<>> ELSE <<Over(m[1], buf)>> : m \in {MatchFrom(re.tree, Utf8Pos(in.str, index), re.ncap, Env)}})
From(buf) == Utf16Pos(in.str, buf[0])
To_bytes(buf) == buf[1]
To(buf) == Utf16Pos(in.str, buf[1])

(* The text of a group, <<None>> for undefined. *)
Group(buf, g) == IF buf[2 * g] # None /\ buf[2 * g + 1] # None
                 THEN Bytes(in.str, buf[2 * g], buf[2 * g + 1]) ELSE <<None>>
Groups(buf) == [g \in 1 .. re.ncap |-> Group(buf, g - 1)]

(* js_regexp_exec: magic is "exec", "search" or "global".  The result and   *)
(* last_index after it.                                                     *)
Remembers(magic) == in.g \/ in.fl.y \/ magic = "global"
js_regexp_exec(magic, last_index) ==
  lre_exec(IF Remembers(magic) /\ magic # "search" THEN BiggerOf(last_index, 0) ELSE 0, Unset(re.ncap))
LastIndexAfter(magic, last_index, m) ==
  CASE m = <<>> -> IF Remembers(magic) THEN 0 ELSE last_index
    [] m # <<>> /\ (magic = "search" \/ ~Remembers(magic)) -> last_index
    [] m # <<>> /\ magic # "search" /\ Remembers(magic) -> To(m[1])

Count(n) == IF n > MaxOut THEN n ELSE n + 1
Keep(o, v) == IF Len(o) >= MaxOut THEN o ELSE Append(o, v)

-----------------------------------------------------------------------------
(* The parts of a text that replaces a match, and how a program writes them. *)
Text(c) == [part |-> "text", n |-> c]
Part(p) == [part |-> p, n |-> 0]
GroupPart(n) == [part |-> "group", n |-> n]
Spelling(p) == CASE p.part = "text" -> <<p.n>>
                 [] p.part = "$" -> <<36, 36>>
                 [] p.part = "match" -> <<36, 38>>
                 [] p.part = "before" -> <<36, 96>>
                 [] p.part = "after" -> <<36, 39>>
                 [] p.part = "group" /\ p.n < 10 -> <<36, 48 + p.n>>
                 [] p.part = "group" /\ p.n >= 10 -> <<36, 48 + (p.n \div 10), 48 + (p.n % 10)>>
RECURSIVE Spelled(_)
Spelled(rep) == IF rep = <<>> THEN <<>> ELSE Spelling(Head(rep)) \o Spelled(Tail(rep))

ExecStep(m) ==
  /\ out' = IF m = <<>> THEN <<>> ELSE <<From(m[1])>> \o Groups(m[1])
  /\ re' = [re EXCEPT !.last_index = LastIndexAfter("exec", @, m)]
  /\ done' = TRUE
  /\ UNCHANGED <<in, k, capture>>
Exec == ~done /\ in.m = "exec" /\ \E m \in {js_regexp_exec("exec", re.last_index)} : ExecStep(m)

SearchStep(m) ==
  /\ out' = IF m = <<>> THEN <<>> ELSE <<From(m[1])>>
  /\ re' = [re EXCEPT !.last_index = LastIndexAfter("search", @, m)]
  /\ done' = TRUE
  /\ UNCHANGED <<in, k, capture>>
js_string_search == ~done /\ in.m = "search" /\ \E m \in {js_regexp_exec("search", re.last_index)} : SearchStep(m)

(* js_string_match of a global pattern; another one is exec. *)
MatchStep(m) ==
  /\ out' = IF m = <<>> THEN out ELSE Keep(out, Group(m[1], 0))
  /\ re' = [re EXCEPT !.last_index = LastIndexAfter("exec", @, m)]
  /\ done' = (m = <<>>)
  /\ k' = [k EXCEPT !.n = Count(@)]
  /\ UNCHANGED <<in, capture>>
js_string_match ==
  /\ ~done /\ in.m = "match" /\ in.g
  /\ \E m \in {js_regexp_exec("exec", IF k.n = 0 THEN 0 ELSE re.last_index)} : MatchStep(m)

(* js_string_concat_subst, of a string rep.  What stands for the character   *)
(* after a `$`, at i, and where it ends.                                     *)
Digit(rep, i) == i <= Len(rep) /\ rep[i] \in 48 .. 57
GroupNumber(rep, i) == IF Digit(rep, i + 1) THEN 10 * (rep[i] - 48) + rep[i + 1] - 48 ELSE rep[i] - 48
AfterSpecial(rep, i) == IF Digit(rep, i) /\ Digit(rep, i + 1) THEN i + 2 ELSE i + 1
CapturedText(buf, g) == IF Group(buf, g) = <<None>> THEN <<>> ELSE Group(buf, g)
Special(rep, i, buf) ==
  CASE rep[i] = 36 -> <<36>>
    [] rep[i] = 38 -> Piece(From(buf), To(buf))
    [] rep[i] = 96 -> Piece(0, From(buf))
    [] rep[i] = 39 -> Piece(To(buf), Utf16Len)
    [] Digit(rep, i) /\ GroupNumber(rep, i) \in 1 .. re.ncap - 1 -> CapturedText(buf, GroupNumber(rep, i))
    [] OTHER -> SubSeq(rep, i - 1, AfterSpecial(rep, i) - 1)
RECURSIVE js_string_concat_subst(_, _, _)
js_string_concat_subst(rep, i, buf) ==
  IF i > Len(rep) THEN <<>>
  ELSE IF rep[i] # 36 \/ i = Len(rep) THEN <<rep[i]>> \o js_string_concat_subst(rep, i + 1, buf)
  ELSE Special(rep, i + 1, buf) \o js_string_concat_subst(rep, AfterSpecial(rep, i + 1), buf)

(* js_string_replace with a pattern: one turn of its loop.                   *)
NextIndex(i) == i + Units(in.str, Utf8Pos(in.str, i))
After_stuck(from, to) == to
After(from, to) == IF from # to THEN to ELSE IF to >= Utf16Len THEN to + 1 ELSE NextIndex(to)
ReplaceStep(m) ==
  IF m = <<>>
  THEN /\ out' = out \o Piece(k.end, Utf16Len)
       /\ re' = IF Remembers("exec") THEN [re EXCEPT !.last_index = 0] ELSE re
       /\ done' = TRUE
       /\ UNCHANGED <<in, k, capture>>
  ELSE /\ capture' = m[1]
       /\ out' = out \o Piece(k.end, From(m[1])) \o js_string_concat_subst(Spelled(in.rep), 1, m[1])
                     \o (IF in.g THEN <<>> ELSE Piece(To(m[1]), Utf16Len))
       /\ re' = IF in.fl.y /\ ~in.g THEN [re EXCEPT !.last_index = To(m[1])] ELSE re
       /\ k' = [k EXCEPT !.end = To(m[1]), !.n = @ + 1, !.last_index = After(From(m[1]), To(m[1]))]
       /\ done' = ~in.g
       /\ UNCHANGED in
js_string_replace ==
  /\ ~done /\ in.m = "replace"
  /\ \E m \in {IF k.last_index > Utf16Len THEN <<>> ELSE lre_exec(k.last_index, capture)} : ReplaceStep(m)

(* js_string_split: one turn of its loop.  The captures of a match are       *)
(* appended too, without a look at the limit.                                *)
Finish(o) == out' = o /\ done' = TRUE /\ UNCHANGED <<in, k, capture>>
WithTail == Append(out, Piece(k.p, Utf16Len))
Go(q) == k' = [k EXCEPT !.q = q, !.n = @ + 1] /\ UNCHANGED <<in, capture, out, done>>
SplitAt(q, e, buf) ==
  IF e = k.p THEN Go(IF q >= Utf16Len THEN q + 1 ELSE NextIndex(q))
  ELSE IF Len(out) + 1 = in.lim THEN Finish(Append(out, Piece(k.p, q)))
  ELSE /\ out' = Append(out, Piece(k.p, q)) \o Tail(Groups(buf))
       /\ k' = [k EXCEPT !.q = e, !.p = e, !.n = @ + 1]
       /\ UNCHANGED <<in, capture, done>>
SplitStep(m) ==
  /\ re' = [re EXCEPT !.last_index = LastIndexAfter("global", k.q, m)]
  /\ IF m = <<>> THEN IF in.fl.y THEN Go(NextIndex(k.q)) ELSE Finish(WithTail)
     ELSE SplitAt(IF in.fl.y THEN k.q ELSE From(m[1]), To(m[1]), m[1])
js_string_split ==
  /\ ~done /\ in.m = "split"
  /\ IF in.lim = 0 THEN Finish(<<>>) /\ UNCHANGED re
     ELSE IF Utf16Len = 0
     THEN /\ Finish(IF js_regexp_exec("global", 0) = <<>> THEN WithTail ELSE <<>>)
          /\ re' = [re EXCEPT !.last_index = 0]
     ELSE IF k.q >= Utf16Len THEN Finish(WithTail) /\ UNCHANGED re
     ELSE \E m \in {js_regexp_exec("global", k.q)} : SplitStep(m)

Returned == done /\ UNCHANGED vars
Turn == Exec \/ js_string_search \/ js_string_match \/ js_string_replace \/ js_string_split
Next == Turn \/ Returned
Spec == Init /\ [][Next]_vars

-----------------------------------------------------------------------------
(* What the methods should do.  All the matches, each sought where the one   *)
(* before ended, one character further when it was empty.                    *)
RECURSIVE AllMatches(_)
AllMatches(p) ==
  The({IF m = <<>> THEN <<>>
       ELSE IF m[1][1] > m[1][0] THEN m \o AllMatches(m[1][1])
       ELSE IF m[1][1] = Len(in.str) THEN m
       ELSE m \o AllMatches(m[1][1] + CharLen(in.str, m[1][1])) : m \in {MatchFrom(re.tree, p, re.ncap, Env)}})
FromIndex(i) == IF i > Utf16Len THEN <<>> ELSE MatchFrom(re.tree, Utf8Pos(in.str, i), re.ncap, Env)
FirstIndex == IF (in.m = "exec" /\ (in.g \/ in.fl.y)) \/ (in.m = "replace" /\ in.fl.y) THEN in.li ELSE 0
Wanted == IF in.g /\ in.m \in {"match", "replace"} THEN AllMatches(0) ELSE FromIndex(FirstIndex)

Meaning(p, c) == CASE p.part = "text" -> <<p.n>>
                   [] p.part = "$" -> <<36>>
                   [] p.part = "match" -> Bytes(in.str, c[0], c[1])
                   [] p.part = "before" -> Bytes(in.str, 0, c[0])
                   [] p.part = "after" -> Bytes(in.str, c[1], Len(in.str))
                   [] p.part = "group" -> IF c[2 * p.n] = None THEN <<>> ELSE Bytes(in.str, c[2 * p.n], c[2 * p.n + 1])
RECURSIVE Substituted(_, _)
Substituted(rep, c) == IF rep = <<>> THEN <<>> ELSE Meaning(Head(rep), c) \o Substituted(Tail(rep), c)
RECURSIVE Replaced(_, _)
Replaced(ms, p) == IF ms = <<>> THEN Bytes(in.str, p, Len(in.str))
                   ELSE Bytes(in.str, p, Head(ms)[0]) \o Substituted(in.rep, Head(ms)) \o Replaced(Tail(ms), Head(ms)[1])

(* A string is cut where the pattern matches, but not at its end. *)
RECURSIVE Cut(_, _)
Cut(p, q) ==
  The({IF q = Len(in.str) THEN <<Bytes(in.str, p, q)>>
       ELSE IF rs = <<>> \/ (rs # <<>> /\ Head(rs).p = p) THEN Cut(p, q + CharLen(in.str, q))
       ELSE <<Bytes(in.str, p, q)>> \o Tail(Groups(rs[1].c)) \o Cut(rs[1].p, rs[1].p) :
       rs \in {ResultsAt(re.tree, q, re.ncap, Env)}})
MatchesAtEnd == ResultsAt(re.tree, Len(in.str), re.ncap, Env) # <<>>
Split == IF in.str # <<>> THEN Cut(0, 0) ELSE IF MatchesAtEnd THEN <<>> ELSE <<<<>>>>

(* What the engine does not keep to: see the README. *)
Sets(ms) == \A i \in DOMAIN ms : \A g \in 1 .. re.ncap - 1 : ms[i][2 * g] # None
NoneEmpty(ms) == \A i \in DOMAIN ms : ms[i][0] # ms[i][1]
CutsAtEnd == in.str # <<>> /\ MatchesAtEnd

(* exec, match, search, replace and split return what their loops over the  *)
(* matcher are written for, and leave last_index where the next call needs  *)
(* it: every match is found once, the parts of the string between matches   *)
(* are kept, the indexes of the program and the offsets of the matcher are  *)
(* converted right.  Left out: groups that a match does not set in replace, *)
(* empty matches in match, an index beyond the end, and the limit of split  *)
(* with groups and its match at the end of the string.                      *)
ExecAsSpecified(m) ==
  in.li <= Utf16Len =>
    /\ out = IF m = <<>> THEN <<>> ELSE <<Utf16Pos(in.str, m[1][0])>> \o Groups(m[1])
    /\ re.last_index = IF ~in.g /\ ~in.fl.y THEN in.li ELSE IF m = <<>> THEN 0 ELSE Utf16Pos(in.str, m[1][1])
SearchAsSpecified(m) == out = IF m = <<>> THEN <<>> ELSE <<Utf16Pos(in.str, m[1][0])>>
MatchAsSpecified(ms) == NoneEmpty(ms) => out = [i \in DOMAIN ms |-> Group(ms[i], 0)] /\ re.last_index = 0
ReplaceAsSpecified(ms) ==
  /\ Sets(ms) => out = Replaced(ms, 0)
  /\ re.last_index = IF in.fl.y /\ ~in.g /\ ms # <<>> THEN Utf16Pos(in.str, ms[1][1])
                     ELSE IF in.g \/ in.fl.y THEN 0 ELSE in.li
SplitAsSpecified(items) ==
  (in.lim = MaxOut \/ re.ncap = 1) /\ ~CutsAtEnd => out = IF in.lim < Len(items) THEN SubSeq(items, 1, in.lim) ELSE items
MethodsAsSpecified == done =>
  IF in.m = "split" THEN \A items \in {Split} : SplitAsSpecified(items)
  ELSE \A ms \in {Wanted} :
         CASE in.m = "exec" -> ExecAsSpecified(ms)
           [] in.m = "search" -> SearchAsSpecified(ms)
           [] in.m = "match" -> MatchAsSpecified(ms)
           [] in.m = "replace" -> ReplaceAsSpecified(ms)

(* The loops of replace and split go forward, over characters of one and of *)
(* two units: after two turns for each place of the string they have ended. *)
TurnsBounded == in.m \in {"replace", "split"} => k.n <= 2 * Utf16Len + 1
=============================================================================
