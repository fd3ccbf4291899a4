------------------------------ MODULE MCRegexp ------------------------------
(* Patterns for Regexp: short ones with any tokens, and bodies of groups    *)
(* under each quantifier.                                                   *)
EXTENDS Regexp

Inf == JS_SHORTINT_MAX
a == Char(97)
b == Char(98)
Or == Tok("|")
Plain == [i |-> FALSE, m |-> FALSE, s |-> FALSE, y |-> FALSE]
Sticky == [Plain EXCEPT !.y = TRUE]
A == 97
B == 98

Input(toks, fl, subjects, starts, disturbed) ==
  [toks |-> toks, fl |-> fl, subjects |-> subjects, starts |-> starts, disturbed |-> disturbed]

(* Any tokens, the errors of the parser among them. *)
Alphabet == {a, b, Tok("."), Or, Tok("("), Tok("(?:"), Tok("(?!"), Tok(")"), Tok("^"), Back(1),
             Quant(0, Inf, TRUE), Quant(2, 2, TRUE)}
Short == UNION {[1 .. n -> Alphabet] : n \in 1 .. 3}
ShortInputs == {Input(t, Plain, {<<B, A, A>>}, {0}, FALSE) : t \in Short}

(* Groups under quantifiers, within a pattern that can fail after them. *)
Quants == {Quant(0, Inf, TRUE), Quant(0, Inf, FALSE), Quant(1, Inf, TRUE), Quant(1, Inf, FALSE),
           Quant(0, 1, TRUE), Quant(0, 1, FALSE), Quant(0, 0, TRUE), Quant(0, 2, TRUE), Quant(0, 3, FALSE),
           Quant(1, 2, FALSE), Quant(2, 2, TRUE), Quant(1, 3, TRUE), Quant(2, Inf, TRUE)}
SomeQuants == {Quant(0, Inf, TRUE), Quant(0, Inf, FALSE), Quant(1, Inf, TRUE), Quant(0, 2, TRUE), Quant(1, 3, FALSE)}
Group(open, s) == <<Tok(open)>> \o s \o <<Tok(")")>>
Star == Quant(0, Inf, TRUE)
Bodies == {<<a>>, <<a, b>>, <<>>, Group("(", <<a>>) \o <<Or, b>>, <<Or, a>>, <<a, Or>>,
           Group("(?=", Group("(", <<a>>)), Group("(?!", <<b>>) \o <<Tok(".")>>,
           Group("(", <<a>>) \o <<Back(1)>>, Group("(", <<a>>) \o Group("(", <<b>>),
           Group("(", <<a, Star>>) \o <<b, Quant(0, 1, TRUE)>>}
Tails == {<<>>, <<b>>, <<Back(1), b>>}
Repeated1 == {Group(o, s) \o <<q>> \o t : o \in {"(", "(?:"}, s \in Bodies, q \in Quants, t \in Tails}
Nested == {Group("(?:", Group("(", s) \o <<q>>) \o <<p>> \o t :
             s \in {<<a>>, <<Or, a>>, <<a, Or, b>>, Group("(", <<a>>) \o <<Or, b>>}, q \in SomeQuants, p \in SomeQuants, t \in {<<>>, <<b>>}}
QuantInputs ==
  {Input(t, Plain, {<<A, B, A>>, <<A, A, B>>}, {0}, FALSE) : t \in Repeated1}
  \cup {Input(t, Plain, {<<A, A, B>>}, {0}, FALSE) : t \in Nested}

(* Flags, classes, characters of several bytes, assertions, lookaheads. *)
eacute == 233
cat == 128049
CatBytes == <<240, 159, 144, 177>>
Rng(lo, hi) == Item("range", lo, hi, FALSE)
Special ==
  {Input(<<c>>, [Plain EXCEPT !.i = i, !.s = s], {<<66>>, <<122>>, <<32>>, <<10>>, <<195, 169>>, CatBytes}, {0}, FALSE) :
     i \in BOOLEAN, s \in {FALSE},
     c \in {Class(v, r) : v \in BOOLEAN,
              r \in {<<>>, <<Rng(A, 122)>>, <<Rng(65, B), Rng(80, 250)>>, <<Rng(B, B), Rng(A, A)>>,
                     <<Rng(66, 66), Rng(200, 128000), Item("d", 0, 0, TRUE)>>, <<Item("w", 0, 0, FALSE)>>,
                     <<Item("s", 0, 0, FALSE)>>, <<Rng(100, 97)>>, <<Rng(1, 1), Rng(3, 253)>>}}
           \cup {Esc(e, v) : e \in {"d", "s", "w"}, v \in BOOLEAN} \cup {Tok("."), Char(B), Char(eacute)}}
  \cup {Input(t, [Plain EXCEPT !.m = m, !.s = TRUE], {<<A, 10, B>>, <<A, 32, B>>, <<10>>}, {0, 1}, FALSE) :
          m \in BOOLEAN,
          t \in {<<Tok("^"), b>>, <<a, Tok("$")>>, <<Tok("\\b"), b>>, <<a, Tok("\\B")>>, <<Tok("."), Tok("\\b"), Tok(".")>>}}
  \cup {Input(t, [Sticky EXCEPT !.i = i], {<<A, 66, A, B>>, <<A, A, A>>}, {0, 1, 2}, FALSE) : i \in BOOLEAN,
          t \in {<<a, b>>, Group("(", <<a, Quant(0, 1, TRUE)>>) \o <<Back(1)>>, Group("(?=", Group("(", <<Tok("."), b>>)) \o <<a>>,
                 <<a, b, a, b, a>>, Group("(?:", Group("(", <<a, Or, b>>) \o <<Back(1)>>) \o <<Star>>}}
  \cup {Input(<<Char(eacute), Char(cat), a>>, Plain, {<<195, 169>> \o CatBytes \o <<A>>, CatBytes \o <<195, 169>> \o CatBytes \o <<A>>}, {0, 4, 6}, FALSE),
        Input(<<a, b, a, b, a, Star>>, Plain, {<<A, B, A, B, A>>, <<A, B, A>>}, {0}, FALSE)}

(* Lookaheads with captures and choices inside, in patterns that are polled *)
(* and whose stack grows.                                                   *)
Look(o) == {Group(o, Group("(", s) \o t) : s \in {<<a, Star>>, <<a, Or, Tok(".")>>}, t \in {<<>>, <<b>>}}
DeepInputs ==
  {Input(g \o <<q>> \o t, Plain, {<<A, A, B>>, <<B, A, B>>}, {0}, TRUE) :
     g \in {Group("(?:", l \o <<Tok(".")>>) : l \in Look("(?=") \cup Look("(?!")},
     q \in {Star, Quant(1, 2, FALSE)}, t \in {<<>>, <<Back(1), b>>}}
  \cup {Input(Group("(?=", l \o <<Tok("."), a, Quant(0, 1, TRUE)>>) \o <<Tok("."), Back(1), b>>, Plain, {<<A, A, B>>, <<A, A, A, B>>}, {0}, TRUE) :
          l \in Look("(?=") \cup Look("(?!")}

MCInputs == ShortInputs \cup QuantInputs \cup Special \cup DeepInputs
=============================================================================
