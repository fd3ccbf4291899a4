----------------------------- MODULE Semantics -----------------------------
\* What a function promises: the effects of its statements in the order that the
\* language prescribes, written over the tree of the program without a stack, labels
\* or jumps.  It says what Codegen and Interp together have to do.
\*
\* The world outside of the function answers: an event [op, id, args, out] is one
\* access, with the values it was given and what came of it.  Run follows a history
\* of events and says how far it agrees with the program and how it ends:
\*   "normal", "break", "continue", "return", "throw"   as in the language
\*   "intr"    an interrupt, which no statement may catch
\*   "stop"    the history ended first
\*   "wrong"   the program does something else than the next event
EXTENDS Integers, Sequences

NoValue == 0

\* What came of an access: 0 or 1, a value that counts as false or as true; 2, it
\* threw.  A value is the id of the node it comes from, negated if false.
Threw == 2
Value(op, id, out) ==
  CASE op \in {"array_from", "for_of_start"} -> id
    [] OTHER -> IF out = 0 THEN -id ELSE id
Converted(id) == 1000 + id
Truthy(v) == v > 0

Interrupt == [op |-> "interrupt", id |-> 0, args |-> <<>>, out |-> 0]

End(k, v, h) == [k |-> k, v |-> v, l |-> "none", h |-> h]
Normal(v, h) == End("normal", v, h)
IsNormal(c) == c.k = "normal"

\* What comes next, if this ended normally.
Then(c, Rest(_)) == IF IsNormal(c) THEN Rest(c) ELSE c

Access(op, id, args, h) ==
  CASE h = <<>>               -> End("stop", NoValue, h)
    [] Head(h) = Interrupt    -> End("intr", NoValue, Tail(h))
    [] <<Head(h).op, Head(h).id, Head(h).args>> # <<op, id, args>> ->
                                 End("wrong", NoValue, h)
    [] Head(h).out = Threw    -> End("throw", id, Tail(h))
    [] OTHER                  -> Normal(Value(op, id, Head(h).out), Tail(h))

----------------------------------------------------------------------------
\* The meaning of a statement or an expression.  F is the bodies of the functions,
\* name the label in front of a statement.
RECURSIVE Run(_, _, _, _)
Eval(F, e, h) == Run(F, e, "none", h)

RECURSIVE RunAll(_, _, _)
RunAll(F, ss, h) ==
  IF ss = <<>> THEN Normal(NoValue, h)
  ELSE Then(Run(F, Head(ss), "none", h), LAMBDA c : RunAll(F, Tail(ss), c.h))

\* The values of several expressions, from left to right.
RECURSIVE EvalAll(_, _, _)
EvalAll(F, es, h) ==
  IF es = <<>> THEN Normal(<<>>, h)
  ELSE Then(Eval(F, Head(es), h), LAMBDA c :
       Then(EvalAll(F, Tail(es), c.h), LAMBDA r : Normal(<<c.v>> \o r.v, r.h)))

Operands(lv) == CASE lv.t = "get" -> <<>> [] lv.t = "field" -> <<lv.o>>
                  [] lv.t = "elem" -> <<lv.o, lv.p>>

Read(lv, vs, h) ==
  Access(CASE lv.t = "get" -> "get_var_ref" [] lv.t = "field" -> "get_field"
           [] lv.t = "elem" -> "get_array_el", lv.id, vs, h)

Write(lv, vs, id, v, h) ==
  Then(Access(CASE lv.t = "get" -> "put_var_ref" [] lv.t = "field" -> "put_field"
                [] lv.t = "elem" -> "put_array_el", id, Append(vs, v), h),
       LAMBDA c : Normal(v, c.h))

\* The operands of the target come before the value, its old value is read between.
Assign(F, e, h) ==
  Then(EvalAll(F, Operands(e.lv), h), LAMBDA o :
  Then(IF e.compound THEN Read(e.lv, o.v, o.h) ELSE o, LAMBDA old :
  Then(Eval(F, e.e, old.h), LAMBDA v :
  Then(IF e.compound THEN Access("add", e.id, <<old.v, v.v>>, v.h) ELSE v, LAMBDA new :
       Write(e.lv, o.v, e.id, new.v, new.h)))))

\* As a value, x++ is the number that x was.  `used` says if it is asked for.
Increment(F, e, h, used) ==
  Then(EvalAll(F, Operands(e.lv), h), LAMBDA o :
  Then(Read(e.lv, o.v, o.h), LAMBDA old :
  Then(Access(IF e.t = "postinc" /\ used THEN "post_inc" ELSE "inc", e.id, <<old.v>>, old.h),
       LAMBDA new :
  Then(Write(e.lv, o.v, e.id, new.v, new.h), LAMBDA w :
       Normal(IF e.t = "postinc" THEN Converted(e.id) ELSE w.v, w.h)))))

\* The end of a function as its caller has it.
Returned(c) == IF c.k \in {"normal", "return"} THEN Normal(c.v, c.h) ELSE c

Call(F, e, h) ==
  Then(EvalAll(F, e.es, h), LAMBDA a :
  Then(Access("call", e.id, a.v, a.h), LAMBDA c : Returned(RunAll(F, F[e.f], c.h))))

AccessTo(F, op, e, es, h) ==
  Then(EvalAll(F, es, h), LAMBDA o : Access(op, e.id, o.v, o.h))

Get(F, e, h) == Then(EvalAll(F, Operands(e), h), LAMBDA o : Read(e, o.v, o.h))

\* The second operand of && or ||, if the first is as it must be.
Logical(F, e, h) ==
  Then(Eval(F, e.a, h), LAMBDA a :
       IF Truthy(a.v) <=> e.t = "and" THEN Eval(F, e.b, a.h) ELSE a)

Conditional(F, e, h) ==
  Then(Eval(F, e.c, h), LAMBDA c : Eval(F, IF Truthy(c.v) THEN e.a ELSE e.b, c.h))

\* An expression whose value is not asked for.
EvalDrop(F, e, h) ==
  IF e.t = "postinc" THEN Increment(F, e, h, FALSE) ELSE Eval(F, e, h)

RECURSIVE EvalComma(_, _, _)
EvalComma(F, es, h) ==
  IF es = <<>> THEN Normal(NoValue, h)
  ELSE Then(EvalDrop(F, Head(es), h), LAMBDA c : EvalComma(F, Tail(es), c.h))

----------------------------------------------------------------------------
Looping == {"while", "do", "for", "forof"}

Again(c, name) == IsNormal(c) \/ (c.k = "continue" /\ c.l \in {"none", name})
Leaves(c, name) == c.k = "break" /\ c.l \in {"none", name}

\* After one pass through the body of a loop: next, or out of it.
AfterBody(c, name, Round(_)) ==
  IF Again(c, name) THEN Round(c)
  ELSE IF Leaves(c, name) THEN Normal(NoValue, c.h) ELSE c

While(F, st, name, h) ==
  Then(Eval(F, st.e, h), LAMBDA c :
       IF Truthy(c.v) THEN AfterBody(Run(F, st.body, "none", c.h), name,
                                     LAMBDA b : Run(F, st, name, b.h))
       ELSE c)

Do(F, st, name, h) ==
  AfterBody(Run(F, st.body, "none", h), name, LAMBDA b :
       Then(Eval(F, st.e, b.h), LAMBDA c :
            IF Truthy(c.v) THEN Run(F, st, name, c.h) ELSE c))

\* The statement goes on as one of a kind of its own: from the test on.
For(F, st, name, h) ==
  Then(EvalDrop(F, st.init, h), LAMBDA c : Run(F, [st EXCEPT !.t = "fortest"], name, c.h))

ForTest(F, st, name, h) ==
  Then(Eval(F, st.e, h), LAMBDA c :
       IF Truthy(c.v)
       THEN AfterBody(Run(F, st.body, "none", c.h), name, LAMBDA b :
                 Then(EvalDrop(F, st.step, b.h), LAMBDA n : Run(F, st, name, n.h)))
       ELSE c)

\* The same, with the iterator e.
ForOf(F, st, name, h) ==
  Then(Eval(F, st.e, h), LAMBDA c :
  Then(Access("for_of_start", st.id, <<c.v>>, c.h), LAMBDA it :
       Run(F, [st EXCEPT !.t = "forofnext", !.e = it.v], name, it.h)))

ForOfNext(F, st, name, h) ==
  Then(Access("for_of_next", st.id, <<st.e>>, h), LAMBDA x :
       IF ~Truthy(x.v) THEN x
       ELSE Then(EvalAll(F, Operands(st.lv), x.h), LAMBDA o :
            Then(Write(st.lv, o.v, st.id, x.v, o.h), LAMBDA w :
                 AfterBody(Run(F, st.body, "none", w.h), name,
                           LAMBDA b : Run(F, st, name, b.h)))))

\* The clauses are <<case e, statement, ..., default, ...>> in one sequence.  The
\* tests are made in order until one succeeds.
Default(clauses) ==
  LET d == {j \in 1 .. Len(clauses) : clauses[j].t = "default"}
  IN IF d = {} THEN Len(clauses) + 1 ELSE CHOOSE j \in d : TRUE

RECURSIVE Select(_, _, _, _, _)
Select(F, clauses, i, v, h) ==
  IF i > Len(clauses) THEN Normal(Default(clauses), h)
  ELSE IF clauses[i].t # "case" THEN Select(F, clauses, i + 1, v, h)
  ELSE Then(Eval(F, clauses[i].e, h), LAMBDA c :
       Then(Access("strict_eq", clauses[i].id, <<v, c.v>>, c.h), LAMBDA x :
            IF Truthy(x.v) THEN Normal(i, x.h) ELSE Select(F, clauses, i + 1, v, x.h)))

StatementsFrom(clauses, i) ==
  SelectSeq(SubSeq(clauses, i, Len(clauses)), LAMBDA cl : cl.t \notin {"case", "default"})

EndOfSwitch(c) == IF Leaves(c, "none") THEN Normal(NoValue, c.h) ELSE c

Switch(F, st, h) ==
  Then(Eval(F, st.e, h), LAMBDA v :
  Then(Select(F, st.clauses, 1, v.v, v.h), LAMBDA i :
       EndOfSwitch(RunAll(F, StatementsFrom(st.clauses, i.v), i.h))))

\* finally runs however the rest ends, except for an interrupt, and its own end, if it
\* is not normal, is that of the statement.
Handled(F, st, b) ==
  IF b.k = "throw" /\ st.hascatch
  THEN Then(Access("put_loc", st.id, <<b.v>>, b.h), LAMBDA p : RunAll(F, st.catch, p.h))
  ELSE b

Finally(F, st, c) ==
  IF c.k \in {"intr", "stop", "wrong"} THEN c
  ELSE Then(RunAll(F, st.finally, c.h), LAMBDA f : [c EXCEPT !.h = f.h])

Try(F, st, h) == Finally(F, st, Handled(F, st, RunAll(F, st.body, h)))

EndOfLabel(c, name) ==
  IF c.k = "break" /\ c.l = name THEN Normal(NoValue, c.h) ELSE c

Label(F, st, h) ==
  EndOfLabel(Run(F, st.body, IF st.body.t \in Looping THEN st.name ELSE "none", h), st.name)

Abrupt(k, F, e, h) == Then(Eval(F, e, h), LAMBDA c : End(k, c.v, c.h))

If(F, st, h) ==
  Then(Eval(F, st.e, h), LAMBDA c :
       IF Truthy(c.v) THEN Run(F, st.a, "none", c.h)
       ELSE IF st.haselse THEN Run(F, st.b, "none", c.h) ELSE c)

Run(F, st, name, h) ==
  CASE st.t \in {"get", "field", "elem"} -> Get(F, st, h)
    [] st.t = "add"       -> AccessTo(F, "add", st, <<st.a, st.b>>, h)
    [] st.t = "list"      -> AccessTo(F, "array_from", st, st.es, h)
    [] st.t \in {"and", "or"} -> Logical(F, st, h)
    [] st.t = "cond"      -> Conditional(F, st, h)
    [] st.t = "call"      -> Call(F, st, h)
    [] st.t = "assign"    -> Assign(F, st, h)
    [] st.t \in {"preinc", "postinc"} -> Increment(F, st, h, TRUE)
    [] st.t = "expr"      -> EvalComma(F, st.es, h)
    [] st.t = "block"     -> RunAll(F, st.ss, h)
    [] st.t = "return"    -> IF st.hasval THEN Abrupt("return", F, st.e, h)
                             ELSE End("return", NoValue, h)
    [] st.t = "throw"     -> Abrupt("throw", F, st.e, h)
    [] st.t \in {"break", "continue"} -> [End(st.t, NoValue, h) EXCEPT !.l = st.name]
    [] st.t = "if"        -> If(F, st, h)
    [] st.t = "while"     -> While(F, st, name, h)
    [] st.t = "do"        -> Do(F, st, name, h)
    [] st.t = "for"       -> For(F, st, name, h)
    [] st.t = "fortest"   -> ForTest(F, st, name, h)
    [] st.t = "forof"     -> ForOf(F, st, name, h)
    [] st.t = "forofnext" -> ForOfNext(F, st, name, h)
    [] st.t = "switch"    -> Switch(F, st, h)
    [] st.t = "try"       -> Try(F, st, h)
    [] st.t = "label"     -> Label(F, st, h)

----------------------------------------------------------------------------
\* Which programs are correct: a break or continue has a statement to refer to.  The
\* statements around are given by the labels that a break and a continue may name;
\* "none" stands for a statement without one.
RECURSIVE Legal(_, _, _, _)
AllLegal(ss, brk, cont) == \A i \in 1 .. Len(ss) : Legal(ss[i], "none", brk, cont)

Legal(st, name, brk, cont) ==
  CASE st.t = "block"    -> AllLegal(st.ss, brk, cont)
    [] st.t = "break"    -> st.name \in brk
    [] st.t = "continue" -> st.name \in cont
    [] st.t = "if"       -> /\ Legal(st.a, "none", brk, cont)
                            /\ st.haselse => Legal(st.b, "none", brk, cont)
    [] st.t \in Looping    -> Legal(st.body, "none", brk \cup {"none", name},
                                  cont \cup {"none", name})
    [] st.t = "switch"   -> AllLegal(SelectSeq(st.clauses,
                                       LAMBDA cl : cl.t \notin {"case", "default"}),
                                     brk \cup {"none"}, cont)
    [] st.t = "try"      -> /\ AllLegal(st.body, brk, cont)
                            /\ AllLegal(st.catch, brk, cont)
                            /\ AllLegal(st.finally, brk, cont)
    [] st.t = "label"    -> /\ st.name \notin brk
                            /\ Legal(st.body, st.name, brk \cup {st.name}, cont)
    [] OTHER             -> TRUE

============================================================================
