----------------------------- MODULE SharedVars -----------------------------
(***************************************************************************)
(* What closures promise: a variable of a call is one cell, shared by the  *)
(* call and by every closure that captured it, directly or through the     *)
(* closures in between, for as long as one of them exists.                 *)
(***************************************************************************)
EXTENDS Integers, Sequences, Functions

CONSTANTS
  Closure,
  Main,       \* the function of the outermost call, which captures nothing
  Act,        \* names of calls
  Var, Val,
  Initial,    \* the value of a variable when the call begins
  Captures    \* the capture lists of function bytecodes: sequences of
              \* [kind, idx], a variable of the creating call or one of those
              \* its function captured

VARIABLES
  stack,      \* the calls under way: [func, act]
  live,       \* the closures that values refer to
  closures,   \* what each closure captured: a sequence of cells
  store       \* the cells

vars == <<stack, live, closures, store>>

Top == stack[Len(stack)]
Funcs(s) == {s[i].func : i \in DOMAIN s}
Acts == {stack[i].act : i \in DOMAIN stack} \cup {c[1] : c \in DOMAIN store}

CellsOf(s, cl) ==
  {<<s[i].act, x>> : i \in DOMAIN s, x \in Var} \cup UNION {Range(cl[c]) : c \in DOMAIN cl}

\* What stays when the calls are s and the values refer to the closures l.
Keep(s, l, cl, st) ==
  /\ closures' = Restrict(cl, l \cup Funcs(s))
  /\ store' = Restrict(st, CellsOf(s, closures'))

Init ==
  /\ stack = <<>> /\ live = {}
  /\ closures = [c \in {} |-> <<>>]
  /\ store = [c \in {} |-> Initial]

Call(f, a) ==
  /\ f \in live \cup {Main} /\ a \notin Acts
  /\ stack' = Append(stack, [func |-> f, act |-> a])
  /\ store' = [c \in DOMAIN store \cup {<<a, x>> : x \in Var} |->
                 IF c \in DOMAIN store THEN store[c] ELSE Initial]
  /\ closures' = IF f = Main THEN [c \in DOMAIN closures \cup {Main} |->
                                     IF c = Main THEN <<>> ELSE closures[c]]
                 ELSE closures
  /\ UNCHANGED live

\* The call on top assigns to its own variable or to one it captured.
Write(c, v) ==
  /\ stack # <<>>
  /\ c \in {<<Top.act, x>> : x \in Var} \cup Range(closures[Top.func])
  /\ store' = [store EXCEPT ![c] = v]
  /\ UNCHANGED <<stack, live, closures>>

Captured(caps) ==
  [i \in DOMAIN caps |-> IF caps[i].kind = "var" THEN <<Top.act, caps[i].idx>>
                         ELSE closures[Top.func][caps[i].idx]]

MakeClosure(c, caps) ==
  /\ stack # <<>> /\ c \notin DOMAIN closures
  /\ \A i \in DOMAIN caps : caps[i].kind = "var_ref" => caps[i].idx \in DOMAIN closures[Top.func]
  /\ live' = live \cup {c}
  /\ closures' = [d \in DOMAIN closures \cup {c} |->
                    IF d = c THEN Captured(caps) ELSE closures[d]]
  /\ UNCHANGED <<stack, store>>

Return ==
  /\ stack # <<>>
  /\ stack' = SubSeq(stack, 1, Len(stack) - 1)
  /\ Keep(stack', live, closures, store)
  /\ UNCHANGED live

Drop(c) ==
  /\ live' = live \ {c}
  /\ Keep(stack, live', closures, store)
  /\ UNCHANGED stack

Next ==
  \/ \E f \in Closure \cup {Main}, a \in Act : Call(f, a)
  \/ \E c \in DOMAIN store, v \in Val : Write(c, v)
  \/ \E c \in Closure, caps \in Captures : MakeClosure(c, caps)
  \/ Return
  \/ \E c \in live : Drop(c)

Spec == Init /\ [][Next]_vars
=============================================================================
