------------------------------ MODULE MCInterp -----------------------------
\* Programs for Interp: every statement inside of every statement, with every way to
\* leave it in the middle.
EXTENDS Interp

G(i) == [t |-> "get", id |-> i]
X(i) == [t |-> "expr", es |-> <<G(i)>>]
Block(ss) == [t |-> "block", ss |-> ss]
Labelled(name, st) == [t |-> "label", name |-> name, body |-> st]
TryStmt(body, id, catch, finally) ==
  [t |-> "try", body |-> body, id |-> id, hascatch |-> catch # <<>>,
   catch |-> catch, finally |-> finally]

\* The statements with x somewhere inside.  b makes the ids unique, l is a label.
Around(b, l, x) == <<
  Labelled(l, [t |-> "while", e |-> G(b + 1), body |-> Block(<<x, X(b + 2)>>)]),
  Labelled(l, [t |-> "do", e |-> G(b + 1), body |-> Block(<<x, X(b + 2)>>)]),
  Labelled(l, [t |-> "for", init |-> G(b + 1), e |-> G(b + 2), step |-> G(b + 3), body |-> x]),
  Labelled(l, [t |-> "forof", id |-> b + 1, lv |-> G(b + 2), e |-> G(b + 3), body |-> x]),
  Labelled(l, Block(<<x, X(b + 1)>>)),
  [t |-> "switch", e |-> G(b + 1), clauses |->
     << [t |-> "case", id |-> b + 2, e |-> G(b + 3)], x, [t |-> "default"], X(b + 4) >>],
  [t |-> "switch", e |-> G(b + 1), clauses |->
     << [t |-> "case", id |-> b + 2, e |-> G(b + 3)], [t |-> "default"], x,
        [t |-> "case", id |-> b + 4, e |-> G(b + 5)],
        [t |-> "case", id |-> b + 6, e |-> G(b + 7)], X(b + 8) >>],
  TryStmt(<<x, X(b + 1)>>, b + 2, <<X(b + 3)>>, <<>>),
  TryStmt(<<x>>, b + 1, <<>>, <<X(b + 2)>>),
  TryStmt(<<X(b + 1)>>, b + 2, <<x, X(b + 3)>>, <<X(b + 4)>>),
  TryStmt(<<X(b + 1)>>, b + 2, <<>>, <<x, X(b + 3)>>),
  [t |-> "if", e |-> G(b + 1), a |-> x, haselse |-> TRUE, b |-> X(b + 2)] >>

Leaves1 == <<
  [t |-> "break", name |-> "none"],
  [t |-> "continue", name |-> "none"],
  [t |-> "break", name |-> "outer"],
  [t |-> "continue", name |-> "outer"],
  [t |-> "return", hasval |-> FALSE],
  [t |-> "return", hasval |-> TRUE, e |-> G(901)],
  [t |-> "throw", e |-> G(901)],
  [t |-> "expr", es |-> <<[t |-> "call", id |-> 903, f |-> 1, es |-> <<G(901)>>]>>] >>

Nested == [i \in 1 .. 1152 |->
  LET x == Leaves1[(i % 8) + 1]
      j == ((i \div 8) % 12) + 1
      k == ((i \div 96) % 12) + 1
  IN <<Around(100, "outer", Around(200, "inner", x)[j])[k], X(900)>>]


----------------------------------------------------------------------------
\* Expressions, as statements and as values: every kind of assignment to every kind of
\* target, and the operators that jump.
Targets == << [t |-> "get", id |-> 11], [t |-> "field", id |-> 12, o |-> G(13)],
              [t |-> "elem", id |-> 14, o |-> G(15), p |-> G(16)] >>

Assignments(lv) == <<
  [t |-> "assign", id |-> 21, compound |-> FALSE, lv |-> lv, e |-> G(22)],
  [t |-> "assign", id |-> 21, compound |-> TRUE, lv |-> lv, e |-> G(22)],
  [t |-> "preinc", id |-> 21, lv |-> lv],
  [t |-> "postinc", id |-> 21, lv |-> lv] >>

ReturnOf(e) == [t |-> "return", hasval |-> TRUE, e |-> e]
And(a, b) == [t |-> "and", a |-> a, b |-> b]
Or(a, b) == [t |-> "or", a |-> a, b |-> b]
Cond(c, a, b) == [t |-> "cond", c |-> c, a |-> a, b |-> b]
CallOf(id, es) == [t |-> "call", id |-> id, f |-> 1, es |-> es]
List(id, es) == [t |-> "list", id |-> id, es |-> es]
Add(id, a, b) == [t |-> "add", id |-> id, a |-> a, b |-> b]

Assigned == [i \in 1 .. 24 |->
  LET e == Assignments(Targets[(i % 3) + 1])[((i \div 3) % 4) + 1]
  IN IF i <= 12 THEN <<[t |-> "expr", es |-> <<G(31), e>>]>>
     ELSE <<ReturnOf(Add(41, e, CallOf(42, <<G(43)>>)))>>]

Expressions == <<
  <<ReturnOf(Or(And(G(51), CallOf(52, <<G(53)>>)), Cond(G(54), G(55), G(56))))>>,
  <<[t |-> "expr", es |-> <<Assignments(Targets[1])[4], Cond(G(51), G(52), G(53)),
                            Assignments(Targets[3])[1]>>]>>,
  <<ReturnOf(List(61, <<G(51), And(G(52), G(53)), CallOf(54, <<G(55), G(56)>>)>>))>>,
  <<[t |-> "forof", id |-> 61, lv |-> Targets[3], e |-> List(62, <<G(63)>>),
     body |-> X(64)]>>,
  <<[t |-> "forof", id |-> 61, lv |-> Targets[2], e |-> G(63), body |-> X(64)]>>,
  <<TryStmt(<<X(61)>>, 62, <<X(63), ReturnOf(List(64, <<G(65), G(66), G(67)>>))>>, <<>>)>>,
  <<[t |-> "if", e |-> G(61), a |-> X(62), haselse |-> FALSE], X(63)>> >>

MCPrograms == [i \in 1 .. 7 + 24 + 1152 |->
  IF i <= 7 THEN Expressions[i] ELSE IF i <= 31 THEN Assigned[i - 7] ELSE Nested[i - 31]]
MCFunctions == << <<TryStmt(<<X(951)>>, 952, <<>>, <<X(953)>>),
                    [t |-> "return", hasval |-> TRUE, e |-> G(954)]>> >>
============================================================================
