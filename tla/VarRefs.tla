------------------------------ MODULE VarRefs ------------------------------
(***************************************************************************)
(* Closures of mquickjs.c: while a call is under way its variables are on  *)
(* the stack and a closure reaches them through a JSVarRef that points     *)
(* there ("attached"); the call keeps its varrefs on a chain, so that one  *)
(* variable gets one varref.  When the call returns, normally or by an     *)
(* exception, every varref on its chain takes the value ("detached").      *)
(*                                                                         *)
(* js_closure allocates the closure and then each new varref, and each     *)
(* allocation may collect or fail.                                         *)
(***************************************************************************)
EXTENDS Integers, Sequences, FiniteSets, Functions

CONSTANTS
  Closure, VarRef,   \* closure objects and JSVarRef blocks (numbers)
  Main, Act, Var, Val, Initial, Captures,   \* see SharedVars
  MaxDepth           \* bound: calls under way

VarRefsAssumption ==
  /\ Main \notin Closure /\ Initial \notin Val /\ MaxDepth \in Nat
  /\ VarRef \subseteq Nat \ {0} /\ Closure \cup Act \subseteq Nat
  /\ \A caps \in Captures :
       caps \in Seq([kind : {"var"}, idx : Var] \cup [kind : {"var_ref"}, idx : Nat])

VARIABLES
  frames,   \* [func, act, vars, chain]: chain is the list FIRST_VARREF
  pv,       \* VarRef -> [is_detached, level, var, value, cell]
  alloc,    \* the allocated closures and varrefs
  refs,     \* var_refs of each closure, 0 where not yet set
  live,     \* the closures that values refer to
  making    \* js_closure under way: [closure, caps], or NoClosure

refsVars == <<frames, pv, alloc, refs, live, making>>

NoClosure == [closure |-> Main, caps |-> <<>>]
Depth == Len(frames)
Top == frames[Depth]
Unset == [is_detached |-> TRUE, level |-> 0, var |-> 0, value |-> Initial, cell |-> <<>>]

RefsInit ==
  /\ frames = <<>>
  /\ pv = [r \in VarRef |-> Unset]
  /\ alloc = [closures |-> {}, varrefs |-> {}]
  /\ refs = [c \in Closure \cup {Main} |-> <<>>]
  /\ live = {}
  /\ making = NoClosure
-----------------------------------------------------------------------------
FuncsOf(fs) == {fs[i].func : i \in DOMAIN fs}
\* Closures a collection finds: js_closure protects the one it makes.
Reached == live \cup ((FuncsOf(frames) \cup {making.closure}) \ {Main})

\* Varrefs a collection finds: in closures and on the chains of the calls.
Held ==
  ((UNION {Range(refs[c]) : c \in Reached}) \cup UNION {Range(frames[i].chain) : i \in DOMAIN frames}) \ {0}

\* "cell" is for the properties only: the name of the variable it stands for.
NamesInUse ==
  {frames[i].act : i \in DOMAIN frames} \cup {pv[r].cell[1] : r \in Held}

GC ==
  /\ alloc' = [closures |-> alloc.closures \cap Reached, varrefs |-> alloc.varrefs \cap Held]
  /\ pv' = [r \in VarRef |-> IF r \in Held THEN pv[r] ELSE Unset]
  /\ refs' = [c \in Closure \cup {Main} |-> IF c \in Reached THEN refs[c] ELSE <<>>]
  /\ UNCHANGED <<frames, live, making>>

Call(f) ==
  LET fresh == Act \ NamesInUse IN
  /\ making = NoClosure /\ Depth < MaxDepth /\ fresh # {}
  /\ f \in live \cup {Main}
  /\ frames' = Append(frames, [func |-> f, act |-> CHOOSE a \in fresh : \A b \in fresh : a <= b,
                               vars |-> [x \in Var |-> Initial], chain |-> <<>>])
  /\ UNCHANGED <<pv, alloc, refs, live, making>>

\* OP_put_loc, OP_put_arg.
PutLoc(x, v) ==
  /\ making = NoClosure /\ Depth > 0
  /\ frames' = [frames EXCEPT ![Depth].vars[x] = v]
  /\ UNCHANGED <<pv, alloc, refs, live, making>>

\* OP_put_var_ref: through the pointer to the stack, or into the varref.
PutVarRef(i, v) ==
  /\ making = NoClosure /\ Depth > 0 /\ i \in DOMAIN refs[Top.func]
  /\ LET r == refs[Top.func][i] IN
     IF pv[r].is_detached
     THEN pv' = [pv EXCEPT ![r].value = v] /\ UNCHANGED frames
     ELSE frames' = [frames EXCEPT ![pv[r].level].vars[pv[r].var] = v] /\ UNCHANGED pv
  /\ UNCHANGED <<alloc, refs, live, making>>

\* OP_fclosure: the closure object, with var_refs cleared.
js_closure(caps) ==
  LET free == Closure \ alloc.closures
      c    == CHOOSE d \in free : \A e \in free : d <= e IN
  /\ making = NoClosure /\ Depth > 0 /\ free # {}
  /\ \A i \in DOMAIN caps : caps[i].kind = "var_ref" => caps[i].idx \in DOMAIN refs[Top.func]
  /\ alloc' = [alloc EXCEPT !.closures = @ \cup {c}]
  /\ refs' = [refs EXCEPT ![c] = [i \in DOMAIN caps |-> 0]]
  /\ making' = [closure |-> c, caps |-> caps]
  /\ UNCHANGED <<frames, pv, live>>

NextCapture == CHOOSE i \in DOMAIN making.caps :
  /\ refs[making.closure][i] = 0
  /\ \A j \in 1 .. i - 1 : refs[making.closure][j] # 0
Incomplete == making # NoClosure /\ 0 \in Range(refs[making.closure])

\* Mutation: the chain is not searched.
OnChain_never(x) == {r \in Range(Top.chain) : pv[r].var # pv[r].var}

OnChain(x) == {r \in Range(Top.chain) : pv[r].level = Depth /\ pv[r].var = x}

\* get_var_ref finds the varref of the variable, or the variable is one that the
\* creating function captured itself.
CaptureExisting ==
  /\ Incomplete
  /\ LET cap == making.caps[NextCapture] IN
     \E r \in IF cap.kind = "var" THEN OnChain(cap.idx) ELSE {refs[Top.func][cap.idx]} :
       refs' = [refs EXCEPT ![making.closure][NextCapture] = r]
  /\ UNCHANGED <<frames, pv, alloc, live, making>>

\* get_var_ref allocates a varref and puts it first on the chain.
CaptureNew ==
  LET cap  == making.caps[NextCapture]
      free == VarRef \ alloc.varrefs
      r    == CHOOSE s \in free : \A t \in free : s <= t IN
  /\ Incomplete /\ cap.kind = "var" /\ OnChain(cap.idx) = {} /\ free # {}
  /\ alloc' = [alloc EXCEPT !.varrefs = @ \cup {r}]
  /\ pv' = [pv EXCEPT ![r] = [is_detached |-> FALSE, level |-> Depth, var |-> cap.idx,
                              value |-> Initial, cell |-> <<Top.act, cap.idx>>]]
  /\ frames' = [frames EXCEPT ![Depth].chain = <<r>> \o @]
  /\ refs' = [refs EXCEPT ![making.closure][NextCapture] = r]
  /\ UNCHANGED <<live, making>>

\* The allocation fails: the closure is lost, what it captured stays.
CaptureFails ==
  /\ Incomplete
  /\ making.caps[NextCapture].kind = "var" /\ OnChain(making.caps[NextCapture].idx) = {}
  /\ making' = NoClosure
  /\ UNCHANGED <<frames, pv, alloc, refs, live>>

ClosureMade ==
  /\ making # NoClosure /\ ~Incomplete
  /\ live' = live \cup {making.closure}
  /\ making' = NoClosure
  /\ UNCHANGED <<frames, pv, alloc, refs>>

ToDetach == Range(Top.chain)

\* generic_return, also reached by an exception the call does not catch.
Return ==
  /\ making = NoClosure /\ Depth > 0
  /\ pv' = [r \in VarRef |->
              IF r \in ToDetach
              THEN [pv[r] EXCEPT !.is_detached = TRUE, !.level = 0, !.var = 0,
                                 !.value = frames[pv[r].level].vars[pv[r].var]]
              ELSE pv[r]]
  /\ frames' = SubSeq(frames, 1, Depth - 1)
  /\ UNCHANGED <<alloc, refs, live, making>>

Drop(c) ==
  /\ making = NoClosure /\ c \in live
  /\ live' = live \ {c}
  /\ UNCHANGED <<frames, pv, alloc, refs, making>>

RefsNext ==
  \/ GC
  \/ \E f \in Closure \cup {Main} : Call(f)
  \/ \E x \in Var, v \in Val : PutLoc(x, v)
  \/ \E i \in 1 .. Cardinality(VarRef), v \in Val : PutVarRef(i, v)
  \/ \E caps \in Captures : js_closure(caps)
  \/ CaptureExisting
  \/ CaptureNew
  \/ CaptureFails
  \/ ClosureMade
  \/ Return
  \/ \E c \in Closure : Drop(c)

RefsSpec == RefsInit /\ [][RefsNext]_refsVars
-----------------------------------------------------------------------------
(* Properties.                                                             *)

\* Types, and nothing that can be used is free: the collector keeps all that
\* the calls, the closures and js_closure under way can reach.
RefsTypeOK ==
  LET used == (live \cup FuncsOf(frames) \cup {making.closure}) \ {Main} IN
  /\ Depth <= MaxDepth
  /\ used \subseteq alloc.closures
  /\ \A c \in used : Range(refs[c]) \subseteq alloc.varrefs \cup {0}
  /\ \A i \in DOMAIN frames : Range(frames[i].chain) \subseteq alloc.varrefs
  /\ \A r \in VarRef : pv[r].value \in Val \cup {Initial}

\* A varref points to the stack only while it is on the chain of the call whose
\* variable that is, once: "always detached" after the return, and no two
\* varrefs stand for one variable of a call.
AttachedToActiveCall ==
  /\ \A r \in alloc.varrefs : ~pv[r].is_detached =>
       /\ pv[r].level \in 1 .. Depth
       /\ r \in Range(frames[pv[r].level].chain)
  /\ \A n \in 1 .. Depth : \A i, j \in DOMAIN frames[n].chain :
       LET r == frames[n].chain[i]
           s == frames[n].chain[j] IN
       /\ ~pv[r].is_detached /\ pv[r].level = n
       /\ i # j => pv[r].var # pv[s].var

\* What OP_get_var_ref reads.
Read(r) ==
  IF pv[r].is_detached THEN pv[r].value
  ELSE IF pv[r].level \in DOMAIN frames THEN frames[pv[r].level].vars[pv[r].var]
  ELSE "dangling"

InUse == live \cup FuncsOf(frames)
Cells == {<<frames[i].act, x>> : i \in DOMAIN frames, x \in Var}
Captured == UNION {Range(refs[c]) : c \in InUse}
ValueOf(cell) ==
  IF cell \in Cells
  THEN frames[CHOOSE i \in DOMAIN frames : frames[i].act = cell[1]].vars[cell[2]]
  ELSE Read(CHOOSE r \in Captured : pv[r].cell = cell)

\* The calls, what each closure captured, and the cells.
CallStack == [i \in DOMAIN frames |-> [func |-> frames[i].func, act |-> frames[i].act]]
CapturedCells == [c \in InUse |-> [i \in DOMAIN refs[c] |-> pv[refs[c][i]].cell]]
Store == [cell \in Cells \cup {pv[r].cell : r \in Captured} |-> ValueOf(cell)]

Shared == INSTANCE SharedVars WITH
  stack <- CallStack, closures <- CapturedCells, store <- Store

\* Every closure that captured a variable, and the call it belongs to, see the
\* same value.
ReadsAgree == \A r \in Captured : Read(r) = ValueOf(pv[r].cell)

RefsExact == AttachedToActiveCall /\ ReadsAgree

\* Closures share variables as cells, through calls, returns, exceptions,
\* failing allocations and collections.
SharesVariables == Shared!Spec
=============================================================================
