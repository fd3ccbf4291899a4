---------------------------- MODULE VarRefsProofs ----------------------------
(***************************************************************************)
(* Closures share variables, for all programs: every state satisfies an    *)
(* inductive invariant about the chains of the calls, the names of the     *)
(* variables and the closure under way, and with it every step of VarRefs  *)
(* is a step of SharedVars or leaves what SharedVars sees unchanged.       *)
(***************************************************************************)
EXTENDS VarRefs, Minimum, SequenceTheorems

Frame == [func : Closure \cup {Main}, act : Act, vars : [Var -> Val \cup {Initial}], chain : Seq(VarRef)]
Pointer == [is_detached : BOOLEAN, level : Nat, var : Var \cup {0}, value : Val \cup {Initial},
            cell : (Act \X Var) \cup {<<>>}]

Types ==
  /\ frames \in Seq(Frame) /\ Depth <= MaxDepth
  /\ pv \in [VarRef -> Pointer]
  /\ alloc \in [closures : SUBSET Closure, varrefs : SUBSET VarRef]
  /\ refs \in [Closure \cup {Main} -> Seq(VarRef \cup {0})] /\ refs[Main] = <<>>
  /\ live \in SUBSET Closure
  /\ making \in {NoClosure} \cup [closure : Closure, caps : Captures]

\* What is reached is allocated; only the closure under way lacks a varref.
Kept ==
  /\ Reached \subseteq alloc.closures
  /\ Held \subseteq alloc.varrefs
  /\ \A r \in VarRef \ alloc.varrefs : pv[r] = Unset
  /\ \A c \in InUse : 0 \notin Range(refs[c])

\* The chain of a call has the attached varrefs of its variables, one for each.
Chains ==
  /\ \A n \in 1 .. Depth : \A r \in Range(frames[n].chain) :
       /\ ~pv[r].is_detached /\ pv[r].level = n /\ pv[r].var \in Var
       /\ pv[r].cell = <<frames[n].act, pv[r].var>>
  /\ \A n \in 1 .. Depth : \A k, l \in DOMAIN frames[n].chain :
       pv[frames[n].chain[k]].var = pv[frames[n].chain[l]].var => k = l
  /\ \A r \in VarRef : ~pv[r].is_detached =>
       pv[r].level \in 1 .. Depth /\ r \in Range(frames[pv[r].level].chain)

\* A name is one variable: no two varrefs that can be reached have it, and while
\* its call is under way the varref is on the chain.
Names ==
  /\ \A m, n \in 1 .. Depth : frames[m].act = frames[n].act => m = n
  /\ \A r \in Held : pv[r].cell \in Act \X Var
  /\ \A r \in Held : \A n \in 1 .. Depth :
       pv[r].cell[1] = frames[n].act => ~pv[r].is_detached /\ pv[r].level = n
  /\ \A r, s \in Held : pv[r].cell = pv[s].cell => r = s

\* What js_closure has captured so far are the variables it was asked to capture.
CellOf(cap) ==
  IF cap.kind = "var" THEN <<Top.act, cap.idx>> ELSE pv[refs[Top.func][cap.idx]].cell

Making ==
  making # NoClosure =>
    /\ Depth > 0 /\ making.closure \notin InUse
    /\ DOMAIN refs[making.closure] = DOMAIN making.caps
    /\ \A i \in DOMAIN making.caps :
         /\ making.caps[i].kind = "var_ref" => making.caps[i].idx \in DOMAIN refs[Top.func]
         /\ refs[making.closure][i] # 0 => pv[refs[making.closure][i]].cell = CellOf(making.caps[i])

IInv == Types /\ Kept /\ Chains /\ Names /\ Making
-----------------------------------------------------------------------------
LEMMA CallsAre ==
  ASSUME VarRefsAssumption, Types
  PROVE  /\ Depth \in Nat /\ DOMAIN frames = 1 .. Depth
         /\ \A n \in 1 .. Depth :
              /\ frames[n] \in Frame
              /\ Range(frames[n].chain) \subseteq VarRef
              /\ frames[n].func \in InUse
         /\ \A c \in Closure \cup {Main} : Range(refs[c]) \subseteq VarRef \cup {0}
         /\ Main \notin Closure /\ 0 \notin VarRef
<1>1. Depth \in Nat /\ DOMAIN frames = 1 .. Depth /\ \A n \in 1 .. Depth : frames[n] \in Frame
  BY DEF Types, Depth
<1>2. ASSUME NEW S, NEW q \in Seq(S)
      PROVE  Range(q) \subseteq S
  BY DEF Range
<1>3. \A n \in 1 .. Depth : Range(frames[n].chain) \subseteq VarRef
  BY <1>1, <1>2 DEF Frame
<1>4. \A c \in Closure \cup {Main} : Range(refs[c]) \subseteq VarRef \cup {0}
  BY <1>2 DEF Types
<1>5. \A n \in 1 .. Depth : frames[n].func \in InUse
  BY <1>1 DEF InUse, FuncsOf
<1> QED
  BY <1>1, <1>3, <1>4, <1>5 DEF VarRefsAssumption

\* What the closures in use and the chains name is held.
LEMMA HeldBy ==
  ASSUME VarRefsAssumption, IInv
  PROVE  /\ InUse \subseteq Closure \cup {Main}
         /\ Reached \subseteq Closure
         /\ \A c \in InUse : Range(refs[c]) \subseteq Held
         /\ \A n \in 1 .. Depth : Range(frames[n].chain) \subseteq Held
         /\ Held \subseteq VarRef
         /\ Captured \subseteq Held
<1>0. FuncsOf(frames) \subseteq Closure \cup {Main} /\ live \subseteq Closure
      /\ making.closure \in Closure \cup {Main}
  <2>1. DOMAIN frames = 1 .. Depth /\ \A n \in 1 .. Depth : frames[n] \in Frame
    BY CallsAre DEF IInv
  <2> QED
    BY <2>1 DEF IInv, Types, Frame, FuncsOf, NoClosure
<1>1. InUse \subseteq Closure \cup {Main}
  BY <1>0 DEF InUse
<1>2. Reached \subseteq Closure
  BY <1>0 DEF Reached
<1>3. ASSUME NEW c \in InUse
      PROVE  Range(refs[c]) \subseteq Held
  <2>1. CASE c = Main
    BY <2>1 DEF IInv, Types, Range
  <2>2. CASE c # Main
    BY <2>2, <1>3 DEF IInv, Kept, Held, InUse, Reached
  <2> QED
    BY <2>1, <2>2
<1>4. ASSUME NEW n \in 1 .. Depth
      PROVE  Range(frames[n].chain) \subseteq Held
  BY CallsAre DEF IInv, Held
<1>5. Held \subseteq VarRef
  BY DEF IInv, Types, Kept
<1> QED
  BY <1>1, <1>2, <1>3, <1>4, <1>5 DEF Captured

\* The closure that js_closure makes is reached, and what it has captured is held.
LEMMA MakingHolds ==
  ASSUME VarRefsAssumption, IInv, making # NoClosure
  PROVE  /\ making.closure \in Reached /\ making.caps \in Captures
         /\ \A i \in DOMAIN refs[making.closure] :
              refs[making.closure][i] # 0 => refs[making.closure][i] \in Held
         /\ Depth \in DOMAIN frames /\ Depth \in 1 .. Depth
         /\ Top \in Frame /\ Top.func \in InUse
<1>1. making.closure \in Closure /\ making.caps \in Captures
  BY DEF IInv, Types
<1>2. making.closure \in Reached
  BY <1>1 DEF Reached, VarRefsAssumption
<1>3. Depth > 0 /\ Depth \in Nat /\ DOMAIN frames = 1 .. Depth
  BY CallsAre DEF IInv, Making
<1>4. Top \in Frame /\ Top.func \in InUse
  BY <1>3, CallsAre DEF IInv, Top
<1> QED
  BY <1>1, <1>2, <1>3, <1>4 DEF Held, Range

LEMMA InitInv ==
  ASSUME VarRefsAssumption, RefsInit
  PROVE  IInv
<1>1. Depth = 0 /\ DOMAIN frames = {} /\ Len(frames) = 0
  BY DEF RefsInit, Depth
<1>2. Types
  <2>1. refs \in [Closure \cup {Main} -> Seq(VarRef \cup {0})] /\ refs[Main] = <<>>
    BY DEF RefsInit
  <2>2. pv \in [VarRef -> Pointer]
    BY DEF RefsInit, Unset, Pointer
  <2> QED
    BY <1>1, <2>1, <2>2 DEF RefsInit, Types, VarRefsAssumption
<1>3. Reached = {} /\ InUse = {}
  BY <1>1 DEF RefsInit, Reached, InUse, FuncsOf, NoClosure
<1>4. Held = {}
  BY <1>1, <1>3 DEF Held
<1>5. Kept
  BY <1>3, <1>4 DEF Kept, RefsInit
<1>6. Chains /\ Names
  BY <1>1, <1>4 DEF Chains, Names, RefsInit, Unset
<1> QED
  BY <1>2, <1>5, <1>6 DEF IInv, Making, RefsInit
-----------------------------------------------------------------------------
(* Steps.                                                                  *)

LEMMA GCInv ==
  ASSUME VarRefsAssumption, IInv, GC
  PROVE  IInv'
<1>1. UNCHANGED <<frames, live, making, Depth, Top, Reached, InUse>>
  BY DEF GC, Depth, Top, Reached, InUse
<1>2. \A c \in Reached \cup InUse : refs'[c] = refs[c]
  BY HeldBy DEF GC, IInv, Types, InUse, Reached
<1>3. Held' = Held
  BY <1>1, <1>2 DEF Held
<1>4. \A r \in VarRef : pv'[r] = IF r \in Held THEN pv[r] ELSE Unset
  BY DEF GC
<1>5. Types'
  <2>1. pv' \in [VarRef -> Pointer]
    BY DEF GC, IInv, Types, Unset, Pointer
  <2>2. refs' \in [Closure \cup {Main} -> Seq(VarRef \cup {0})] /\ refs'[Main] = <<>>
    BY DEF GC, IInv, Types
  <2>3. alloc' \in [closures : SUBSET Closure, varrefs : SUBSET VarRef]
    BY DEF GC, IInv, Types
  <2> QED
    BY <1>1, <2>1, <2>2, <2>3 DEF IInv, Types
<1>6. Kept'
  BY <1>1, <1>2, <1>3, <1>4 DEF IInv, Types, Kept, GC
<1>7. Chains'
  <2>1. \A n \in 1 .. Depth : \A r \in Range(frames[n].chain) : pv'[r] = pv[r]
    BY <1>4, HeldBy
  <2>2. \A n \in 1 .. Depth : \A k \in DOMAIN frames[n].chain : frames[n].chain[k] \in Range(frames[n].chain)
    BY DEF Range
  <2>3. \A r \in VarRef : ~pv'[r].is_detached => pv'[r] = pv[r]
    BY <1>4 DEF Unset
  <2> QED
    BY <1>1, <2>1, <2>2, <2>3 DEF IInv, Chains
<1>8. Names'
  BY <1>1, <1>3, <1>4, HeldBy DEF IInv, Names
<1>9. Making'
  <2> SUFFICES ASSUME making # NoClosure
               PROVE  Making'
    BY <1>1 DEF Making
  <2> DEFINE m == making.closure
             f == Top.func
  <2>1. m \in Reached /\ f \in InUse /\ Range(refs[f]) \subseteq Held
        /\ \A i \in DOMAIN refs[m] : refs[m][i] # 0 => refs[m][i] \in Held
    BY HeldBy, MakingHolds
  <2>2. refs'[m] = refs[m] /\ refs'[f] = refs[f]
    BY <1>2, <2>1
  <2>3. \A i \in DOMAIN refs[f] : pv'[refs[f][i]] = pv[refs[f][i]]
    BY <1>4, <2>1, HeldBy DEF Range
  <2>4. \A i \in DOMAIN refs[m] : refs[m][i] # 0 => pv'[refs[m][i]] = pv[refs[m][i]]
    BY <1>4, <2>1, HeldBy
  <2>5. \A i \in DOMAIN making.caps : CellOf(making.caps[i])' = CellOf(making.caps[i])
    <3> SUFFICES ASSUME NEW i \in DOMAIN making.caps
                 PROVE  CellOf(making.caps[i])' = CellOf(making.caps[i])
      OBVIOUS
    <3>1. making.caps' = making.caps /\ Top' = Top
      BY <1>1
    <3>2. making.caps[i].kind = "var_ref" => making.caps[i].idx \in DOMAIN refs[f]
      BY DEF IInv, Making
    <3>3. making.caps[i].kind \in {"var", "var_ref"}
      BY MakingHolds DEF VarRefsAssumption
    <3> QED
      BY <3>1, <3>2, <3>3, <2>2, <2>3 DEF CellOf
  <2> QED
    BY <1>1, <2>2, <2>4, <2>5 DEF IInv, Making
<1> QED
  BY <1>5, <1>6, <1>7, <1>8, <1>9 DEF IInv

LEMMA FreshAct ==
  ASSUME VarRefsAssumption, Act \ NamesInUse # {}
  PROVE  LET fresh == Act \ NamesInUse
             a == CHOOSE a \in fresh : \A b \in fresh : a <= b
         IN  a \in Act /\ a \notin NamesInUse
<1>1. Act \ NamesInUse \in SUBSET Nat
  BY DEF VarRefsAssumption
<1> QED
  BY <1>1, LeastExists

LEMMA CallInv ==
  ASSUME VarRefsAssumption, IInv, NEW f \in Closure \cup {Main}, Call(f)
  PROVE  /\ IInv' /\ Depth' = Depth + 1 /\ InUse' = InUse \cup {f} /\ f \in live \cup {Main}
         /\ UNCHANGED <<pv, refs, live>>
         /\ \A n \in 1 .. Depth : frames'[n] = frames[n]
         /\ \E a \in Act : /\ a \notin NamesInUse
                           /\ frames'[Depth + 1].func = f /\ frames'[Depth + 1].act = a
                           /\ frames'[Depth + 1].vars = [x \in Var |-> Initial]
<1>1. PICK a \in Act :
        /\ a \notin NamesInUse
        /\ frames' = Append(frames, [func |-> f, act |-> a, vars |-> [x \in Var |-> Initial], chain |-> <<>>])
  BY FreshAct DEF Call
<1>2. /\ making = NoClosure /\ Depth < MaxDepth /\ f \in live \cup {Main}
      /\ UNCHANGED <<pv, alloc, refs, live, making>>
  BY DEF Call
<1> DEFINE new == [func |-> f, act |-> a, vars |-> [x \in Var |-> Initial], chain |-> <<>>]
<1>3. /\ new \in Frame /\ Range(new.chain) = {} /\ DOMAIN new.chain = {}
      /\ new.func = f /\ new.act = a
  BY DEF Frame, Range
<1> HIDE DEF new
<1>4. /\ frames' \in Seq(Frame) /\ Depth' = Depth + 1 /\ Depth \in Nat
      /\ DOMAIN frames = 1 .. Depth /\ DOMAIN frames' = 1 .. Depth + 1
      /\ \A n \in 1 .. Depth : frames'[n] = frames[n]
      /\ frames'[Depth + 1] = new
  BY <1>1, <1>3 DEF IInv, Types, Depth, new
<1>5. Reached' = Reached /\ InUse' = InUse \cup {f}
  <2>1. FuncsOf(frames)' = FuncsOf(frames) \cup {f}
    <3>1. FuncsOf(frames)' = {frames'[n].func : n \in 1 .. Depth + 1}
      BY <1>4 DEF FuncsOf
    <3>2. 1 .. Depth + 1 = (1 .. Depth) \cup {Depth + 1}
      BY <1>4
    <3>3. {frames'[n].func : n \in (1 .. Depth) \cup {Depth + 1}} = {frames[n].func : n \in 1 .. Depth} \cup {f}
      BY <1>3, <1>4
    <3> QED
      BY <3>1, <3>2, <3>3, <1>4 DEF FuncsOf
  <2> QED
    BY <1>2, <2>1 DEF Reached, InUse
<1>6. Held' = Held
  <2>1. \A r : (\E n \in DOMAIN frames' : r \in Range(frames'[n].chain)) <=> (\E n \in DOMAIN frames : r \in Range(frames[n].chain))
    <3>1. \A n \in 1 .. Depth + 1 : n \in 1 .. Depth \/ n = Depth + 1
      BY <1>4
    <3> QED
      BY <1>3, <1>4, <3>1
  <2> QED
    BY <1>2, <1>5, <2>1 DEF Held
<1>7. Types'
  <2>1. Depth + 1 <= MaxDepth
    BY <1>2, <1>4 DEF VarRefsAssumption
  <2> QED
    BY <1>2, <1>4, <2>1 DEF IInv, Types
<1>8. Kept'
  <2>1. 0 \notin Range(refs[f])
    BY <1>2 DEF IInv, Types, Kept, InUse, Range
  <2> QED
    BY <1>2, <1>5, <1>6, <2>1 DEF IInv, Kept
<1>9. Chains'
  <2>1. \A n \in 1 .. Depth + 1 : n \in 1 .. Depth \/ n = Depth + 1
    BY <1>4
  <2> QED
    BY <1>2, <1>3, <1>4, <2>1 DEF IInv, Chains
<1>10. Names'
  <2>1. \A n \in 1 .. Depth + 1 : n \in 1 .. Depth \/ n = Depth + 1
    BY <1>4
  <2>2. \A n \in 1 .. Depth : frames[n].act # a
    BY <1>1, <1>4 DEF NamesInUse
  <2>3. \A r \in Held : pv[r].cell[1] # a
    BY <1>1 DEF NamesInUse
  <2> QED
    BY <1>2, <1>3, <1>4, <1>6, <2>1, <2>2, <2>3 DEF IInv, Names
<1>11. Making'
  BY <1>2 DEF Making
<1>12. /\ frames'[Depth + 1].func = f /\ frames'[Depth + 1].act = a
       /\ frames'[Depth + 1].vars = [x \in Var |-> Initial]
  BY <1>4 DEF new
<1> QED
  BY <1>1, <1>2, <1>4, <1>5, <1>7, <1>8, <1>9, <1>10, <1>11, <1>12 DEF IInv

\* An assignment changes the value of a variable, on the stack or in a varref.
LEMMA AssignInv ==
  ASSUME VarRefsAssumption, IInv,
         frames' \in Seq(Frame), Depth' = Depth,
         \A n \in 1 .. Depth : /\ frames'[n].func = frames[n].func
                               /\ frames'[n].act = frames[n].act
                               /\ frames'[n].chain = frames[n].chain,
         pv' \in [VarRef -> Pointer],
         \A r \in VarRef : /\ pv'[r].is_detached = pv[r].is_detached
                           /\ pv'[r].level = pv[r].level
                           /\ pv'[r].var = pv[r].var
                           /\ pv'[r].cell = pv[r].cell,
         \A r \in VarRef \ alloc.varrefs : pv'[r] = pv[r],
         UNCHANGED <<alloc, refs, live, making>>, making = NoClosure
  PROVE  IInv' /\ Held' = Held /\ InUse' = InUse /\ Captured' = Captured
<1>1. DOMAIN frames = 1 .. Depth /\ DOMAIN frames' = 1 .. Depth /\ Depth \in Nat
  BY CallsAre DEF IInv, Depth
<1>2. Reached' = Reached /\ InUse' = InUse
  BY <1>1 DEF Reached, InUse, FuncsOf
<1>3. Held' = Held
  BY <1>1, <1>2 DEF Held
<1>4. Captured' = Captured
  BY <1>2 DEF Captured
<1>5. Types'
  BY DEF IInv, Types
<1>6. Kept'
  BY <1>2, <1>3 DEF IInv, Kept
<1>7. Chains'
  <2>1. \A n \in 1 .. Depth : Range(frames[n].chain) \subseteq VarRef
    BY CallsAre DEF IInv
  <2>2. \A n \in 1 .. Depth : \A k \in DOMAIN frames[n].chain : frames[n].chain[k] \in VarRef
    BY <2>1 DEF Range
  <2> QED
    BY <2>1, <2>2 DEF IInv, Chains
<1>8. Names'
  BY <1>3, HeldBy DEF IInv, Names
<1>9. Making'
  BY DEF Making
<1> QED
  BY <1>2, <1>3, <1>4, <1>5, <1>6, <1>7, <1>8, <1>9 DEF IInv

LEMMA PutLocInv ==
  ASSUME VarRefsAssumption, IInv, NEW x \in Var, NEW v \in Val, PutLoc(x, v)
  PROVE  /\ IInv' /\ Held' = Held /\ InUse' = InUse /\ Captured' = Captured
         /\ Depth \in 1 .. Depth /\ Depth' = Depth
         /\ \A n \in 1 .. Depth :
              frames'[n] = IF n = Depth THEN [frames[n] EXCEPT !.vars[x] = v] ELSE frames[n]
<1>1. /\ making = NoClosure /\ Depth > 0
      /\ frames' = [frames EXCEPT ![Depth].vars[x] = v]
      /\ UNCHANGED <<pv, alloc, refs, live, making>>
  BY DEF PutLoc
<1>2. /\ Depth \in 1 .. Depth /\ DOMAIN frames = 1 .. Depth
      /\ \A n \in 1 .. Depth : frames[n] \in Frame
  BY <1>1, CallsAre DEF IInv
<1>3. /\ frames' \in Seq(Frame) /\ Depth' = Depth
      /\ \A n \in 1 .. Depth :
           frames'[n] = IF n = Depth THEN [frames[n] EXCEPT !.vars[x] = v] ELSE frames[n]
  <2>1. [frames[Depth] EXCEPT !.vars[x] = v] \in Frame
    BY <1>2 DEF Frame
  <2>2. frames' = [frames EXCEPT ![Depth] = [frames[Depth] EXCEPT !.vars[x] = v]]
    BY <1>1
  <2>3. frames \in Seq(Frame) /\ Depth \in 1 .. Len(frames)
    BY <1>2 DEF IInv, Types, Depth
  <2> DEFINE e == [frames[Depth] EXCEPT !.vars[x] = v]
             s == [frames EXCEPT ![Depth] = e]
  <2>4. e \in Frame /\ frames' = s /\ Depth = Len(frames) /\ Depth' = Len(frames')
    BY <2>1, <2>2 DEF Depth
  <2>5. s \in Seq(Frame) /\ Len(s) = Len(frames)
        /\ \A n \in 1 .. Len(frames) : s[n] = IF n = Depth THEN e ELSE frames[n]
    <3> HIDE DEF e
    <3> QED
      BY <2>3, <2>4, ExceptSeq
  <2> HIDE DEF s
  <2> QED
    BY ONLY <2>4, <2>5 DEF e
<1>4. \A n \in 1 .. Depth : /\ frames'[n].func = frames[n].func
                            /\ frames'[n].act = frames[n].act
                            /\ frames'[n].chain = frames[n].chain
  BY <1>2, <1>3 DEF Frame
<1>5. pv' \in [VarRef -> Pointer] /\ pv' = pv
  BY <1>1 DEF IInv, Types
<1> QED
  BY <1>1, <1>2, <1>3, <1>4, <1>5, AssignInv

\* An attached varref that is held is the only one of a variable of a call under
\* way, and its cell names it.
LEMMA AttachedCell ==
  ASSUME VarRefsAssumption, IInv, NEW r \in Held, ~pv[r].is_detached
  PROVE  /\ pv[r].level \in 1 .. Depth /\ pv[r].var \in Var
         /\ pv[r].cell = <<frames[pv[r].level].act, pv[r].var>>
<1>1. r \in VarRef
  BY HeldBy
<1>2. pv[r].level \in 1 .. Depth /\ r \in Range(frames[pv[r].level].chain)
  BY <1>1 DEF IInv, Chains
<1> QED
  BY <1>2 DEF IInv, Chains

LEMMA PutVarRefInv ==
  ASSUME VarRefsAssumption, IInv, NEW i, NEW v \in Val, PutVarRef(i, v)
  PROVE  LET r == refs[Top.func][i] IN
         /\ IInv' /\ Held' = Held /\ InUse' = InUse /\ Captured' = Captured
         /\ Depth \in 1 .. Depth /\ Depth' = Depth
         /\ Top.func \in InUse /\ i \in DOMAIN refs[Top.func] /\ r \in Captured /\ r \in VarRef
         /\ IF pv[r].is_detached
            THEN frames' = frames /\ pv' = [pv EXCEPT ![r].value = v]
            ELSE /\ pv' = pv
                 /\ \A n \in 1 .. Depth :
                      frames'[n] = IF n = pv[r].level THEN [frames[n] EXCEPT !.vars[pv[r].var] = v]
                                   ELSE frames[n]
<1> DEFINE f == Top.func
           r == refs[f][i]
<1>1. /\ making = NoClosure /\ Depth > 0 /\ i \in DOMAIN refs[f]
      /\ IF pv[r].is_detached
         THEN pv' = [pv EXCEPT ![r].value = v] /\ UNCHANGED frames
         ELSE frames' = [frames EXCEPT ![pv[r].level].vars[pv[r].var] = v] /\ UNCHANGED pv
      /\ UNCHANGED <<alloc, refs, live, making>>
  BY DEF PutVarRef
<1>2. /\ Depth \in 1 .. Depth /\ DOMAIN frames = 1 .. Depth
      /\ \A n \in 1 .. Depth : frames[n] \in Frame
      /\ f \in InUse
  <2>1. Depth > 0
    BY <1>1
  <2>2. Depth \in 1 .. Depth
    BY <2>1, CallsAre DEF IInv
  <2> QED
    BY <2>2, CallsAre DEF IInv, Top
<1>3. r \in Captured /\ r \in Held /\ r \in VarRef /\ r \in alloc.varrefs
  <2>1. r \in Range(refs[f])
    BY <1>1 DEF Range
  <2>2. r \in Captured
    BY <1>2, <2>1 DEF Captured
  <2> QED
    BY <2>2, HeldBy DEF IInv, Kept
<1> HIDE DEF f, r
<1>4. CASE pv[r].is_detached
  <2>1. frames' = frames /\ Depth' = Depth
    BY <1>1, <1>4 DEF Depth
  <2>2. pv' = [pv EXCEPT ![r].value = v]
    BY <1>1, <1>4
  <2>3. pv' \in [VarRef -> Pointer]
    <3>1. pv \in [VarRef -> Pointer]
      BY DEF IInv, Types
    <3>2. pv[r] \in Pointer /\ pv' = [pv EXCEPT ![r] = [pv[r] EXCEPT !.value = v]]
      BY <1>3, <2>2, <3>1
    <3>3. [pv[r] EXCEPT !.value = v] \in Pointer
      BY <3>2 DEF Pointer
    <3> QED
      BY <1>3, <3>1, <3>2, <3>3
  <2>4. /\ \A s \in VarRef : /\ pv'[s].is_detached = pv[s].is_detached
                             /\ pv'[s].level = pv[s].level
                             /\ pv'[s].var = pv[s].var
                             /\ pv'[s].cell = pv[s].cell
        /\ \A s \in VarRef \ alloc.varrefs : pv'[s] = pv[s]
    BY <1>3, <2>2 DEF IInv, Types, Pointer
  <2>5. frames' \in Seq(Frame)
    BY <2>1 DEF IInv, Types
  <2> QED
    BY <1>1, <1>2, <1>3, <1>4, <2>1, <2>2, <2>3, <2>4, <2>5, AssignInv DEF f, r
<1>5. CASE ~pv[r].is_detached
  <2> DEFINE n == pv[r].level
             x == pv[r].var
  <2>1. n \in 1 .. Depth /\ x \in Var
    BY <1>3, <1>5, AttachedCell
  <2>2. pv' = pv /\ frames' = [frames EXCEPT ![n] = [frames[n] EXCEPT !.vars[x] = v]]
    BY <1>1, <1>5
  <2> HIDE DEF n, x
  <2>3. [frames[n] EXCEPT !.vars[x] = v] \in Frame
    BY <1>2, <2>1 DEF Frame
  <2>4. /\ frames' \in Seq(Frame) /\ Depth' = Depth
        /\ \A m \in 1 .. Depth :
             frames'[m] = IF m = n THEN [frames[m] EXCEPT !.vars[x] = v] ELSE frames[m]
    <3>1. frames \in Seq(Frame) /\ n \in 1 .. Len(frames)
      BY <2>1 DEF IInv, Types, Depth
    <3> QED
      BY <2>2, <2>3, <3>1, ExceptSeq DEF Depth
  <2>5. \A m \in 1 .. Depth : /\ frames'[m].func = frames[m].func
                              /\ frames'[m].act = frames[m].act
                              /\ frames'[m].chain = frames[m].chain
    BY <1>2, <2>4 DEF Frame
  <2>6. pv' \in [VarRef -> Pointer]
    BY <2>2 DEF IInv, Types
  <2> QED
    BY <1>1, <1>2, <1>3, <1>5, <2>2, <2>4, <2>5, <2>6, AssignInv DEF f, r, n, x
<1> QED
  BY <1>4, <1>5

LEMMA CaptureKinds ==
  ASSUME VarRefsAssumption, NEW caps \in Captures
  PROVE  /\ Len(caps) \in Nat /\ DOMAIN caps = 1 .. Len(caps)
         /\ \A i \in DOMAIN caps :
              /\ caps[i].kind \in {"var", "var_ref"}
              /\ caps[i].kind = "var" => caps[i].idx \in Var
<1> DEFINE K == [kind : {"var"}, idx : Var] \cup [kind : {"var_ref"}, idx : Nat]
<1>1. caps \in Seq(K)
  BY DEF VarRefsAssumption
<1>2. \A e \in K : e.kind \in {"var", "var_ref"} /\ (e.kind = "var" => e.idx \in Var)
  OBVIOUS
<1> HIDE DEF K
<1> QED
  BY <1>1, <1>2

LEMMA ClosureInv ==
  ASSUME VarRefsAssumption, IInv, NEW caps \in Captures, js_closure(caps)
  PROVE  IInv' /\ UNCHANGED <<frames, pv, live, InUse, Captured>> /\ \A c \in InUse : refs'[c] = refs[c]
<1> DEFINE free == Closure \ alloc.closures
           c    == CHOOSE d \in free : \A e \in free : d <= e
<1>1. c \in Closure /\ c \notin alloc.closures
  <2>1. free \in SUBSET Nat /\ free # {}
    BY DEF js_closure, VarRefsAssumption
  <2> QED
    BY <2>1, LeastExists
<1>2. /\ making = NoClosure /\ Depth > 0
      /\ \A i \in DOMAIN caps : caps[i].kind = "var_ref" => caps[i].idx \in DOMAIN refs[Top.func]
      /\ alloc' = [alloc EXCEPT !.closures = @ \cup {c}]
      /\ refs' = [refs EXCEPT ![c] = [i \in DOMAIN caps |-> 0]]
      /\ making' = [closure |-> c, caps |-> caps]
      /\ UNCHANGED <<frames, pv, live>>
  BY DEF js_closure
<1> HIDE DEF free, c
<1>3. UNCHANGED <<Depth, Top, InUse>>
  BY <1>2 DEF Depth, Top, InUse
<1>4. c \notin Reached /\ c \notin InUse /\ c # Main /\ Main \notin Closure
  BY <1>1 DEF IInv, Kept, InUse, Reached, VarRefsAssumption
<1>5. Reached' = Reached \cup {c}
  BY <1>2, <1>4 DEF Reached, NoClosure
<1>6. \A d \in Closure \cup {Main} : d # c => refs'[d] = refs[d]
  BY <1>2 DEF IInv, Types
<1>7. refs'[c] = [i \in DOMAIN caps |-> 0] /\ Range(refs'[c]) \subseteq {0}
  BY <1>1, <1>2 DEF IInv, Types, Range
<1>8. Held' = Held
  <2>1. \A d \in Reached : refs'[d] = refs[d]
    BY <1>4, <1>6, HeldBy
  <2>2. (UNION {Range(refs'[d]) : d \in Reached \cup {c}}) \ {0} = (UNION {Range(refs[d]) : d \in Reached}) \ {0}
    BY <1>7, <2>1
  <2>3. Held' = ((UNION {Range(refs'[d]) : d \in Reached \cup {c}}) \cup UNION {Range(frames[i].chain) : i \in DOMAIN frames}) \ {0}
    BY <1>2, <1>5 DEF Held
  <2> QED
    BY <2>2, <2>3 DEF Held
<1>9. Types'
  <2>1. [i \in DOMAIN caps |-> 0] \in Seq(VarRef \cup {0})
    BY CaptureKinds
  <2>2. refs' \in [Closure \cup {Main} -> Seq(VarRef \cup {0})] /\ refs'[Main] = <<>>
    BY <1>1, <1>2, <1>4, <2>1 DEF IInv, Types
  <2>3. alloc' \in [closures : SUBSET Closure, varrefs : SUBSET VarRef]
    BY <1>1, <1>2 DEF IInv, Types
  <2>4. making' \in [closure : Closure, caps : Captures]
    BY <1>1, <1>2
  <2> QED
    BY <1>2, <1>3, <2>2, <2>3, <2>4 DEF IInv, Types
<1>10. \A d \in InUse : refs'[d] = refs[d]
  BY <1>4, <1>6, HeldBy
<1>11. Captured' = Captured
  BY <1>3, <1>10 DEF Captured
<1>12. Kept'
  <2>1. alloc'.closures = alloc.closures \cup {c} /\ alloc'.varrefs = alloc.varrefs
    BY <1>2 DEF IInv, Types
  <2> QED
    BY <1>2, <1>3, <1>5, <1>8, <1>10, <2>1 DEF IInv, Kept
<1>13. Chains' /\ Names'
  BY <1>2, <1>3, <1>8 DEF IInv, Chains, Names
<1>14. Making'
  <2>1. Top.func \in InUse
    BY <1>2, CallsAre DEF IInv, Top
  <2>2. making'.closure = c /\ making'.caps = caps /\ refs'[Top.func] = refs[Top.func]
    BY <1>2, <1>10, <2>1
  <2> QED
    BY <1>2, <1>3, <1>4, <1>7, <2>2 DEF Making
<1> QED
  BY <1>2, <1>3, <1>9, <1>10, <1>11, <1>12, <1>13, <1>14 DEF IInv

\* The capture js_closure is at.
LEMMA NextCaptureIs ==
  ASSUME VarRefsAssumption, IInv, Incomplete
  PROVE  NextCapture \in DOMAIN making.caps /\ refs[making.closure][NextCapture] = 0
<1> DEFINE q == refs[making.closure]
           unset == {i \in DOMAIN q : q[i] = 0}
<1>1. making # NoClosure /\ unset # {}
  BY DEF Incomplete, Range
<1>2. DOMAIN q = DOMAIN making.caps /\ making.caps \in Captures
  BY <1>1, MakingHolds DEF IInv, Making
<1>3. DOMAIN q = 1 .. Len(making.caps) /\ Len(making.caps) \in Nat
  BY <1>2, CaptureKinds
<1>4. unset \in SUBSET Nat
  BY <1>3
<1>5. PICK i \in unset : \A j \in unset : i <= j
  BY <1>1, <1>4, LeastExists
<1> HIDE DEF q
<1>6. \A j \in 1 .. i - 1 : q[j] # 0
  <2> SUFFICES ASSUME NEW j \in 1 .. i - 1, q[j] = 0
               PROVE  FALSE
    OBVIOUS
  <2>1. j \in unset /\ j < i
    BY <1>3
  <2> QED
    BY <1>3, <1>5, <2>1
<1>7. i \in DOMAIN making.caps /\ refs[making.closure][i] = 0
      /\ \A j \in 1 .. i - 1 : refs[making.closure][j] # 0
  BY <1>2, <1>6 DEF q
<1> QED
  BY <1>7 DEF NextCapture

\* Setting one entry of the closure under way.
LEMMA EntrySet ==
  ASSUME VarRefsAssumption, IInv, Incomplete, NEW r \in VarRef,
         refs' = [refs EXCEPT ![making.closure][NextCapture] = r]
  PROVE  LET c == making.closure IN
         /\ refs' \in [Closure \cup {Main} -> Seq(VarRef \cup {0})] /\ refs'[Main] = <<>>
         /\ \A d \in Closure \cup {Main} : d # c => refs'[d] = refs[d]
         /\ DOMAIN refs'[c] = DOMAIN refs[c]
         /\ \A j \in DOMAIN refs[c] : refs'[c][j] = IF j = NextCapture THEN r ELSE refs[c][j]
         /\ Range(refs'[c]) \subseteq Range(refs[c]) \cup {r}
         /\ \A d \in InUse : refs'[d] = refs[d]
<1> DEFINE c == making.closure
           k == NextCapture
<1>1. c \in Closure /\ c # Main /\ c \notin InUse /\ k \in DOMAIN refs[c] /\ making # NoClosure
  <2>1. making # NoClosure
    BY DEF Incomplete
  <2>2. c \in Closure /\ c # Main
    BY <2>1 DEF IInv, Types, VarRefsAssumption
  <2> QED
    BY <2>1, <2>2, NextCaptureIs DEF IInv, Making
<1> HIDE DEF c, k
<1>2. refs' = [refs EXCEPT ![c] = [refs[c] EXCEPT ![k] = r]]
  BY DEF c, k
<1>3. refs[c] \in Seq(VarRef \cup {0}) /\ k \in 1 .. Len(refs[c]) /\ DOMAIN refs[c] = 1 .. Len(refs[c])
  BY <1>1 DEF IInv, Types
<1> DEFINE e == [refs[c] EXCEPT ![k] = r]
<1>4. /\ e \in Seq(VarRef \cup {0}) /\ DOMAIN e = DOMAIN refs[c]
      /\ \A j \in DOMAIN refs[c] : e[j] = IF j = k THEN r ELSE refs[c][j]
  BY <1>3, ExceptSeq
<1> HIDE DEF e
<1>5. refs' = [refs EXCEPT ![c] = e]
  BY <1>2 DEF e
<1>6. /\ refs' \in [Closure \cup {Main} -> Seq(VarRef \cup {0})] /\ refs'[Main] = <<>>
      /\ \A d \in Closure \cup {Main} : d # c => refs'[d] = refs[d]
      /\ refs'[c] = e
  <2>1. refs \in [Closure \cup {Main} -> Seq(VarRef \cup {0})] /\ refs[Main] = <<>>
    BY DEF IInv, Types
  <2>2. refs' \in [Closure \cup {Main} -> Seq(VarRef \cup {0})]
    BY <1>4, <1>5, <2>1
  <2>3. /\ \A d \in Closure \cup {Main} : d # c => refs'[d] = refs[d]
        /\ refs'[c] = e
    BY <1>1, <1>5, <2>1
  <2> QED
    BY <1>1, <2>1, <2>2, <2>3
<1>7. Range(e) \subseteq Range(refs[c]) \cup {r}
  BY <1>4 DEF Range
<1>8. \A d \in InUse : refs'[d] = refs[d]
  BY <1>1, <1>6, HeldBy
<1> QED
  BY <1>4, <1>6, <1>7, <1>8 DEF c, k

LEMMA CaptureExistingInv ==
  ASSUME VarRefsAssumption, IInv, CaptureExisting
  PROVE  IInv' /\ UNCHANGED <<frames, pv, live, InUse, Captured>> /\ \A c \in InUse : refs'[c] = refs[c]
<1> DEFINE c == making.closure
           k == NextCapture
           cap == making.caps[k]
           f == Top.func
<1>1. /\ Incomplete /\ making # NoClosure
      /\ UNCHANGED <<frames, pv, alloc, live, making>>
  BY DEF CaptureExisting, Incomplete
<1>2. /\ k \in DOMAIN making.caps /\ refs[c][k] = 0 /\ making.caps \in Captures
      /\ cap.kind \in {"var", "var_ref"} /\ Depth \in 1 .. Depth /\ f \in InUse
      /\ cap.kind = "var_ref" => cap.idx \in DOMAIN refs[f]
      /\ c \notin InUse /\ DOMAIN refs[c] = DOMAIN making.caps /\ c \in Reached
  BY <1>1, NextCaptureIs, MakingHolds, CaptureKinds DEF IInv, Making
<1>3. PICK r \in IF cap.kind = "var" THEN OnChain(cap.idx) ELSE {refs[f][cap.idx]} :
        refs' = [refs EXCEPT ![c][k] = r]
  BY DEF CaptureExisting
<1>4. r \in Held /\ r \in VarRef /\ r # 0 /\ pv[r].cell = CellOf(cap)
  <2>1. CASE cap.kind = "var"
    <3>1. r \in Range(Top.chain) /\ pv[r].var = cap.idx
      BY <1>3, <2>1 DEF OnChain
    <3>2. r \in Held /\ r \in VarRef /\ pv[r].cell = <<Top.act, pv[r].var>>
      BY <1>2, <3>1, HeldBy DEF Top, IInv, Chains
    <3> QED
      BY <2>1, <3>1, <3>2 DEF CellOf, VarRefsAssumption
  <2>2. CASE cap.kind # "var"
    <3>1. r = refs[f][cap.idx] /\ cap.idx \in DOMAIN refs[f]
      BY <1>2, <1>3, <2>2
    <3>2. r \in Held /\ r \in VarRef
      BY <1>2, <3>1, HeldBy DEF Range
    <3> QED
      BY <2>2, <3>1, <3>2 DEF CellOf, VarRefsAssumption
  <2> QED
    BY <2>1, <2>2
<1> HIDE DEF c, k, cap, f
<1>5. /\ refs' \in [Closure \cup {Main} -> Seq(VarRef \cup {0})] /\ refs'[Main] = <<>>
      /\ \A d \in Closure \cup {Main} : d # c => refs'[d] = refs[d]
      /\ DOMAIN refs'[c] = DOMAIN refs[c]
      /\ \A j \in DOMAIN refs[c] : refs'[c][j] = IF j = k THEN r ELSE refs[c][j]
      /\ Range(refs'[c]) \subseteq Range(refs[c]) \cup {r}
      /\ \A d \in InUse : refs'[d] = refs[d]
  BY <1>1, <1>3, <1>4, EntrySet DEF c, k
<1>6. UNCHANGED <<Depth, Top, Reached, InUse>>
  BY <1>1 DEF Depth, Top, InUse, Reached
<1>7. Captured' = Captured
  BY <1>5, <1>6 DEF Captured
<1>8. Held' \subseteq Held
  <2>1. \A d \in Reached : Range(refs'[d]) \subseteq Range(refs[d]) \cup {r}
    BY <1>5, HeldBy
  <2> QED
    BY <1>1, <1>4, <1>6, <2>1 DEF Held
<1>9. Types'
  BY <1>1, <1>5, <1>6 DEF IInv, Types
<1>10. Kept'
  BY <1>1, <1>5, <1>6, <1>8 DEF IInv, Kept
<1>11. Chains' /\ Names'
  BY <1>1, <1>6, <1>8 DEF IInv, Chains, Names
<1>12. Making'
  <2>1. \A j \in DOMAIN making.caps : CellOf(making.caps[j])' = CellOf(making.caps[j])
    BY <1>1, <1>2, <1>5, <1>6 DEF CellOf, f
  <2> QED
    BY <1>1, <1>2, <1>4, <1>5, <1>6, <2>1 DEF IInv, Making, c, k, cap, f
<1> QED
  BY <1>1, <1>5, <1>6, <1>7, <1>9, <1>10, <1>11, <1>12 DEF IInv

LEMMA CaptureNewInv ==
  ASSUME VarRefsAssumption, IInv, CaptureNew
  PROVE  /\ IInv' /\ UNCHANGED <<Depth, live, InUse, Captured>> /\ \A c \in InUse : refs'[c] = refs[c]
         /\ \A r \in Held : pv'[r] = pv[r]
         /\ \A n \in 1 .. Depth : /\ frames'[n].func = frames[n].func
                                  /\ frames'[n].act = frames[n].act
                                  /\ frames'[n].vars = frames[n].vars
<1> DEFINE c == making.closure
           k == NextCapture
           cap == making.caps[k]
           free == VarRef \ alloc.varrefs
           r == CHOOSE s \in free : \A t \in free : s <= t
           x == cap.idx
<1>1. /\ Incomplete /\ making # NoClosure /\ cap.kind = "var" /\ OnChain(x) = {}
      /\ alloc' = [alloc EXCEPT !.varrefs = @ \cup {r}]
      /\ pv' = [pv EXCEPT ![r] = [is_detached |-> FALSE, level |-> Depth, var |-> x,
                                  value |-> Initial, cell |-> <<Top.act, x>>]]
      /\ frames' = [frames EXCEPT ![Depth].chain = <<r>> \o @]
      /\ refs' = [refs EXCEPT ![c][k] = r]
      /\ UNCHANGED <<live, making>>
  BY DEF CaptureNew, Incomplete
<1>2. r \in VarRef /\ r \notin alloc.varrefs
  <2>1. free \in SUBSET Nat /\ free # {}
    BY DEF CaptureNew, VarRefsAssumption
  <2> QED
    BY <2>1, LeastExists
<1>3. /\ k \in DOMAIN making.caps /\ refs[c][k] = 0 /\ making.caps \in Captures
      /\ x \in Var /\ Depth \in 1 .. Depth /\ Top \in Frame /\ Top.func \in InUse
      /\ c \notin InUse /\ DOMAIN refs[c] = DOMAIN making.caps /\ c \in Reached
  BY <1>1, NextCaptureIs, MakingHolds, CaptureKinds DEF IInv, Making
<1>4. r # 0 /\ r \notin Held /\ pv[r] = Unset
  BY <1>2 DEF IInv, Kept, VarRefsAssumption
<1> HIDE DEF c, k, free, r
<1>5. /\ refs' \in [Closure \cup {Main} -> Seq(VarRef \cup {0})] /\ refs'[Main] = <<>>
      /\ \A d \in Closure \cup {Main} : d # c => refs'[d] = refs[d]
      /\ DOMAIN refs'[c] = DOMAIN refs[c]
      /\ \A j \in DOMAIN refs[c] : refs'[c][j] = IF j = k THEN r ELSE refs[c][j]
      /\ Range(refs'[c]) \subseteq Range(refs[c]) \cup {r}
      /\ \A d \in InUse : refs'[d] = refs[d]
  BY <1>1, <1>2, EntrySet DEF c, k
<1> HIDE DEF x, cap
<1>6. /\ pv' \in [VarRef -> Pointer]
      /\ \A s \in VarRef : s # r => pv'[s] = pv[s]
      /\ pv'[r] = [is_detached |-> FALSE, level |-> Depth, var |-> x, value |-> Initial, cell |-> <<Top.act, x>>]
  <2>1. [is_detached |-> FALSE, level |-> Depth, var |-> x, value |-> Initial, cell |-> <<Top.act, x>>] \in Pointer
    BY <1>3 DEF Pointer, Frame
  <2> QED
    BY <1>1, <1>2, <2>1 DEF IInv, Types
<1> DEFINE chain == <<r>> \o Top.chain
<1>7. /\ chain \in Seq(VarRef) /\ Range(chain) = Range(Top.chain) \cup {r}
      /\ Len(Top.chain) \in Nat /\ DOMAIN Top.chain = 1 .. Len(Top.chain)
      /\ DOMAIN chain = 1 .. Len(Top.chain) + 1
      /\ chain[1] = r /\ \A j \in 2 .. Len(Top.chain) + 1 : chain[j] = Top.chain[j - 1]
  <2> DEFINE q == Top.chain
  <2>1. q \in Seq(VarRef)
    BY <1>3 DEF Frame
  <2> HIDE DEF q
  <2>2. /\ <<r>> \o q \in Seq(VarRef) /\ DOMAIN (<<r>> \o q) = 1 .. Len(q) + 1
        /\ Len(q) \in Nat /\ DOMAIN q = 1 .. Len(q)
        /\ (<<r>> \o q)[1] = r /\ \A j \in 2 .. Len(q) + 1 : (<<r>> \o q)[j] = q[j - 1]
    BY <1>2, <2>1
  <2>3. Range(<<r>> \o q) = Range(q) \cup {r}
    <3> DEFINE w == <<r>> \o q
    <3> HIDE DEF w
    <3>1. \A j \in 1 .. Len(q) + 1 : w[j] = r \/ (j - 1 \in DOMAIN q /\ w[j] = q[j - 1])
      BY <2>2 DEF w
    <3>2. \A j \in DOMAIN q : j + 1 \in DOMAIN w /\ w[j + 1] = q[j]
      BY <2>2 DEF w
    <3>3. 1 \in DOMAIN w /\ w[1] = r /\ DOMAIN w = 1 .. Len(q) + 1
      BY <2>2 DEF w
    <3>4. Range(w) \subseteq Range(q) \cup {r}
      BY <3>1, <3>3 DEF Range
    <3>5. Range(q) \cup {r} \subseteq Range(w)
      BY <3>2, <3>3 DEF Range
    <3> QED
      BY <3>4, <3>5 DEF w
  <2> QED
    BY <2>2, <2>3 DEF q
<1> HIDE DEF chain
<1>8. /\ frames' \in Seq(Frame) /\ Depth' = Depth /\ DOMAIN frames = 1 .. Depth /\ DOMAIN frames' = 1 .. Depth
      /\ \A n \in 1 .. Depth : frames'[n] = IF n = Depth THEN [Top EXCEPT !.chain = chain] ELSE frames[n]
  <2>1. [Top EXCEPT !.chain = chain] \in Frame
    BY <1>3, <1>7 DEF Frame
  <2>2. frames' = [frames EXCEPT ![Depth] = [Top EXCEPT !.chain = chain]]
    BY <1>1 DEF chain, Top
  <2>3. frames \in Seq(Frame) /\ Depth \in 1 .. Len(frames)
    BY <1>3 DEF IInv, Types, Depth
  <2> HIDE DEF chain
  <2>4. /\ frames' \in Seq(Frame) /\ Len(frames') = Len(frames)
        /\ \A n \in 1 .. Len(frames) : frames'[n] = IF n = Depth THEN [Top EXCEPT !.chain = chain] ELSE frames[n]
    BY <2>1, <2>2, <2>3, ExceptSeq
  <2> QED
    BY <2>3, <2>4 DEF Depth
<1>9. \A n \in 1 .. Depth : /\ frames'[n].func = frames[n].func
                            /\ frames'[n].act = frames[n].act
                            /\ frames'[n].vars = frames[n].vars
                            /\ frames'[n].chain = IF n = Depth THEN chain ELSE frames[n].chain
  BY <1>3, <1>8 DEF Frame, Top
<1>10. UNCHANGED <<Reached, InUse>> /\ Top'.func = Top.func /\ Top'.act = Top.act
  <2>1. FuncsOf(frames)' = FuncsOf(frames)
    BY <1>8, <1>9 DEF FuncsOf
  <2> QED
    BY <1>1, <1>3, <1>8, <1>9, <2>1 DEF InUse, Reached, Top
<1>11. Captured' = Captured
  BY <1>5, <1>10 DEF Captured
<1>12. Held' \subseteq Held \cup {r}
  <2>1. \A d \in Reached : Range(refs'[d]) \subseteq Range(refs[d]) \cup {r}
    BY <1>5, HeldBy
  <2>2. \A n \in 1 .. Depth : Range(frames'[n].chain) \subseteq Range(frames[n].chain) \cup {r}
    BY <1>7, <1>9 DEF Top
  <2> SUFFICES ASSUME NEW s \in Held', s # r
               PROVE  s \in Held
    OBVIOUS
  <2>3. s # 0 /\ (\/ \E d \in Reached : s \in Range(refs'[d])
                  \/ \E n \in 1 .. Depth : s \in Range(frames'[n].chain))
    BY <1>8, <1>10 DEF Held
  <2>4. \/ \E d \in Reached : s \in Range(refs[d])
        \/ \E n \in 1 .. Depth : s \in Range(frames[n].chain)
    BY <2>1, <2>2, <2>3
  <2> QED
    BY <1>8, <2>3, <2>4 DEF Held
<1>13. Types'
  <2>1. alloc' \in [closures : SUBSET Closure, varrefs : SUBSET VarRef]
    BY <1>1, <1>2 DEF IInv, Types
  <2> QED
    BY <1>1, <1>5, <1>6, <1>8, <2>1 DEF IInv, Types
<1>14. Kept'
  <2>1. alloc'.closures = alloc.closures /\ alloc'.varrefs = alloc.varrefs \cup {r}
    BY <1>1 DEF IInv, Types
  <2> QED
    BY <1>5, <1>6, <1>10, <1>12, <2>1 DEF IInv, Kept
<1>15. Chains'
  <2>1. \A n \in 1 .. Depth : Range(frames[n].chain) \subseteq Held /\ r \notin Range(frames[n].chain)
    BY <1>4, HeldBy
  <2>2. \A n \in 1 .. Depth : \A s \in Range(frames'[n].chain) :
           \/ s \in Range(frames[n].chain) /\ pv'[s] = pv[s]
           \/ s = r /\ n = Depth
    <3>1. \A n \in 1 .. Depth : \A s \in Range(frames[n].chain) : pv'[s] = pv[s]
      BY <1>6, <2>1, HeldBy
    <3> QED
      BY <1>7, <1>9, <3>1 DEF Top
  <2>3. \A n \in 1 .. Depth : \A s \in Range(frames'[n].chain) :
           /\ ~pv'[s].is_detached /\ pv'[s].level = n /\ pv'[s].var \in Var
           /\ pv'[s].cell = <<frames'[n].act, pv'[s].var>>
    BY <1>3, <1>6, <1>9, <2>2 DEF IInv, Chains, Top
  <2>4. ASSUME NEW n \in 1 .. Depth, NEW j \in DOMAIN frames'[n].chain, NEW l \in DOMAIN frames'[n].chain,
               pv'[frames'[n].chain[j]].var = pv'[frames'[n].chain[l]].var
        PROVE  j = l
    <3>1. CASE n # Depth
      <4>1. frames'[n].chain = frames[n].chain
        BY <1>9, <3>1
      <4>2. /\ pv'[frames[n].chain[j]] = pv[frames[n].chain[j]]
            /\ pv'[frames[n].chain[l]] = pv[frames[n].chain[l]]
        <5>1. frames[n].chain[j] \in Range(frames[n].chain) /\ frames[n].chain[l] \in Range(frames[n].chain)
          BY <4>1 DEF Range
        <5> QED
          BY <1>6, <2>1, <5>1, HeldBy
      <4> QED
        BY <2>4, <4>1, <4>2 DEF IInv, Chains
    <3>2. CASE n = Depth
      <4>1. frames'[n].chain = chain /\ frames[n].chain = Top.chain
        BY <1>9, <3>2 DEF Top
      <4>2. \A m \in DOMAIN Top.chain : /\ Top.chain[m] # r /\ pv'[Top.chain[m]] = pv[Top.chain[m]]
                                        /\ pv[Top.chain[m]].var # x
        <5> SUFFICES ASSUME NEW m \in DOMAIN Top.chain
                     PROVE  /\ Top.chain[m] # r /\ pv'[Top.chain[m]] = pv[Top.chain[m]]
                            /\ pv[Top.chain[m]].var # x
          OBVIOUS
        <5>1. Top.chain[m] \in Range(Top.chain)
          BY DEF Range
        <5>2. Top.chain[m] # r /\ pv'[Top.chain[m]] = pv[Top.chain[m]]
          BY <1>6, <2>1, <3>2, <4>1, <5>1, HeldBy
        <5>3. pv[Top.chain[m]].level = Depth
          BY <1>3, <4>1, <3>2, <5>1 DEF IInv, Chains
        <5> QED
          BY <1>1, <5>1, <5>2, <5>3 DEF OnChain
      <4>3. /\ j = 1 \/ (j - 1 \in DOMAIN Top.chain /\ chain[j] = Top.chain[j - 1])
            /\ l = 1 \/ (l - 1 \in DOMAIN Top.chain /\ chain[l] = Top.chain[l - 1])
            /\ j \in Nat /\ l \in Nat
        BY <1>7, <4>1
      <4>4. pv'[r].var = x /\ chain[1] = r
        BY <1>6, <1>7
      <4>5. CASE j = 1 \/ l = 1
        BY <2>4, <4>1, <4>2, <4>3, <4>4, <4>5
      <4>6. CASE j # 1 /\ l # 1
        <5>1. pv[Top.chain[j - 1]].var = pv[Top.chain[l - 1]].var
          BY <2>4, <4>1, <4>2, <4>3, <4>6
        <5>2. j - 1 = l - 1
          BY <3>2, <4>1, <4>3, <4>6, <5>1 DEF IInv, Chains
        <5> QED
          BY <4>3, <5>2
      <4> QED
        BY <4>5, <4>6
    <3> QED
      BY <3>1, <3>2
  <2>5. \A s \in VarRef : ~pv'[s].is_detached =>
           pv'[s].level \in 1 .. Depth /\ s \in Range(frames'[pv'[s].level].chain)
    <3>1. r \in Range(frames'[Depth].chain)
      BY <1>3, <1>7, <1>9
    <3>2. \A n \in 1 .. Depth : Range(frames[n].chain) \subseteq Range(frames'[n].chain)
      BY <1>7, <1>9 DEF Top
    <3>3. pv'[r].level = Depth
      BY <1>6
    <3>4. \A s \in VarRef : s # r /\ ~pv[s].is_detached =>
             pv[s].level \in 1 .. Depth /\ s \in Range(frames'[pv[s].level].chain)
      BY <3>2 DEF IInv, Chains
    <3> QED
      BY <1>3, <1>6, <3>1, <3>3, <3>4
  <2> QED
    BY <1>8, <2>3, <2>4, <2>5 DEF Chains
<1>16. Names'
  <2>1. \A s \in Held : s \in VarRef /\ pv'[s] = pv[s] /\ pv[s].cell # <<Top.act, x>>
    <3> SUFFICES ASSUME NEW s \in Held, pv[s].cell = <<Top.act, x>>
                 PROVE  FALSE
      BY <1>4, <1>6, HeldBy
    <3>1. ~pv[s].is_detached /\ pv[s].level = Depth
      BY <1>3 DEF IInv, Names, Top
    <3>2. s \in Range(Top.chain) /\ pv[s].var = x
      BY <1>3, <3>1, AttachedCell, HeldBy DEF IInv, Chains, Top
    <3> QED
      BY <1>1, <3>1, <3>2 DEF OnChain
  <2>2. /\ \A s \in Held' : pv'[s].cell \in Act \X Var
        /\ \A s, t \in Held' : pv'[s].cell = pv'[t].cell => s = t
    BY <1>3, <1>6, <1>12, <2>1 DEF IInv, Names, Frame
  <2>3. \A s \in Held' : \A n \in 1 .. Depth :
           pv'[s].cell[1] = frames'[n].act => ~pv'[s].is_detached /\ pv'[s].level = n
    BY <1>3, <1>6, <1>9, <1>12, <2>1 DEF IInv, Names, Top
  <2>4. \A m, n \in 1 .. Depth : frames'[m].act = frames'[n].act => m = n
    BY <1>9 DEF IInv, Names
  <2> QED
    BY <1>8, <2>2, <2>3, <2>4 DEF Names
<1>17. Making'
  <2>1. \A j \in DOMAIN making.caps : CellOf(making.caps[j])' = CellOf(making.caps[j])
    <3> SUFFICES ASSUME NEW j \in DOMAIN making.caps
                 PROVE  CellOf(making.caps[j])' = CellOf(making.caps[j])
      OBVIOUS
    <3> DEFINE kept == making.caps[j]
    <3>1. CASE kept.kind = "var"
      BY <1>1, <1>10, <3>1 DEF CellOf
    <3>2. CASE kept.kind # "var"
      <4>1. kept.idx \in DOMAIN refs[Top.func] /\ refs'[Top.func] = refs[Top.func]
        <5>1. kept.kind = "var_ref" /\ (kept.kind = "var_ref" => kept.idx \in DOMAIN refs[Top.func])
          BY <1>1, <1>3, <3>2, CaptureKinds DEF IInv, Making
        <5> QED
          BY <1>1, <1>3, <1>5, <5>1
      <4>2. refs[Top.func][kept.idx] \in Held
        BY <1>3, <4>1, HeldBy DEF Range
      <4>3. pv'[refs[Top.func][kept.idx]] = pv[refs[Top.func][kept.idx]]
        BY <1>4, <1>6, <4>2, HeldBy
      <4>4. CellOf(making.caps[j]) = pv[refs[Top.func][kept.idx]].cell
        BY <3>2 DEF CellOf
      <4>5. CellOf(making.caps[j])' = pv'[refs'[Top.func][kept.idx]].cell
        BY <1>1, <1>10, <3>2 DEF CellOf
      <4> QED
        BY <4>1, <4>3, <4>4, <4>5
    <3> QED
      BY <3>1, <3>2
  <2>2. \A j \in DOMAIN refs[c] : j # k /\ refs[c][j] # 0 => pv'[refs[c][j]] = pv[refs[c][j]]
    BY <1>1, <1>4, <1>6, MakingHolds, HeldBy DEF c
  <2>3. CellOf(making.caps[k]) = <<Top.act, x>>
    BY <1>1 DEF CellOf, cap, x
  <2>4. \A j \in DOMAIN making.caps : making.caps[j].kind = "var_ref" =>
           making.caps[j].idx \in DOMAIN refs'[Top'.func]
    BY <1>1, <1>3, <1>5, <1>10 DEF IInv, Making
  <2>5. \A j \in DOMAIN making.caps : refs'[c][j] # 0 => pv'[refs'[c][j]].cell = CellOf(making.caps[j])'
    <3> SUFFICES ASSUME NEW j \in DOMAIN making.caps, refs'[c][j] # 0
                 PROVE  pv'[refs'[c][j]].cell = CellOf(making.caps[j])
      BY <2>1
    <3>1. CASE j = k
      BY <1>3, <1>5, <1>6, <2>3, <3>1
    <3>2. CASE j # k
      <4>1. refs'[c][j] = refs[c][j] /\ pv'[refs[c][j]] = pv[refs[c][j]]
        BY <1>3, <1>5, <2>2, <3>2
      <4> QED
        BY <1>1, <4>1 DEF IInv, Making, c
    <3> QED
      BY <3>1, <3>2
  <2>6. /\ making'.closure = c /\ making'.caps = making.caps
        /\ Depth' > 0 /\ c \notin InUse' /\ DOMAIN refs'[c] = DOMAIN making.caps
    BY <1>1, <1>3, <1>5, <1>8, <1>10 DEF c
  <2> QED
    BY <2>4, <2>5, <2>6 DEF Making
<1>18. \A s \in Held : pv'[s] = pv[s]
  BY <1>4, <1>6, HeldBy
<1> QED
  BY <1>1, <1>5, <1>8, <1>9, <1>10, <1>11, <1>13, <1>14, <1>15, <1>16, <1>17, <1>18 DEF IInv

\* js_closure ends, or values that refer to closures are lost.
LEMMA LiveInv ==
  ASSUME VarRefsAssumption, IInv,
         UNCHANGED <<frames, pv, alloc, refs>>, making' = NoClosure,
         \A c \in live' : c \in live \/ (making # NoClosure /\ ~Incomplete /\ c = making.closure)
  PROVE  IInv'
<1>1. UNCHANGED Depth
  BY DEF Depth
<1>2. \A c \in live' : c \in Closure /\ c \in Reached /\ 0 \notin Range(refs[c])
  <2> SUFFICES ASSUME NEW c \in live'
               PROVE  c \in Closure /\ c \in Reached /\ 0 \notin Range(refs[c])
    OBVIOUS
  <2>1. CASE c \in live
    BY <2>1, HeldBy DEF IInv, Types, Kept, InUse, Reached
  <2>2. CASE making # NoClosure /\ ~Incomplete /\ c = making.closure
    BY <2>2, MakingHolds, HeldBy DEF Incomplete
  <2> QED
    BY <2>1, <2>2
<1>3. Reached' \subseteq Reached
  BY <1>2 DEF Reached, NoClosure
<1>4. \A c \in InUse' : 0 \notin Range(refs[c])
  BY <1>2 DEF InUse, IInv, Kept
<1>5. Held' \subseteq Held
  BY <1>3 DEF Held
<1>6. Types'
  BY <1>1, <1>2 DEF IInv, Types
<1>7. Kept'
  BY <1>3, <1>4, <1>5 DEF IInv, Kept
<1>8. Chains'
  BY <1>1 DEF IInv, Chains
<1>9. Names'
  BY <1>1, <1>5 DEF IInv, Names
<1> QED
  BY <1>6, <1>7, <1>8, <1>9 DEF IInv, Making

LEMMA ReturnInv ==
  ASSUME VarRefsAssumption, IInv, Return
  PROVE  /\ IInv' /\ Depth' = Depth - 1 /\ Depth \in 1 .. Depth
         /\ frames' = SubSeq(frames, 1, Depth - 1)
         /\ \A n \in 1 .. Depth - 1 : n \in 1 .. Depth /\ frames'[n] = frames[n]
         /\ InUse' \subseteq InUse
         /\ \A r \in VarRef :
              /\ pv'[r].cell = pv[r].cell
              /\ IF r \in ToDetach
                 THEN pv'[r].is_detached /\ pv'[r].value = Top.vars[pv[r].var]
                 ELSE pv'[r] = pv[r]
<1>1. /\ making = NoClosure /\ Depth > 0
      /\ pv' = [r \in VarRef |->
                  IF r \in ToDetach
                  THEN [pv[r] EXCEPT !.is_detached = TRUE, !.level = 0, !.var = 0,
                                     !.value = frames[pv[r].level].vars[pv[r].var]]
                  ELSE pv[r]]
      /\ frames' = SubSeq(frames, 1, Depth - 1)
      /\ UNCHANGED <<alloc, refs, live, making>>
  BY DEF Return
<1>2. Depth \in 1 .. Depth /\ DOMAIN frames = 1 .. Depth /\ Depth \in Nat /\ Top \in Frame
  <2>1. Depth > 0
    BY <1>1
  <2> QED
    BY <2>1, CallsAre DEF IInv, Top
<1>3. /\ frames' \in Seq(Frame) /\ Depth' = Depth - 1 /\ DOMAIN frames' = 1 .. Depth - 1
      /\ \A n \in 1 .. Depth - 1 : n \in 1 .. Depth /\ frames'[n] = frames[n]
  <2>1. frames \in Seq(Frame) /\ Depth = Len(frames)
    BY DEF IInv, Types, Depth
  <2>2. /\ SubSeq(frames, 1, Depth - 1) \in Seq(Frame)
        /\ Len(SubSeq(frames, 1, Depth - 1)) = Depth - 1
        /\ \A n \in 1 .. Depth - 1 : SubSeq(frames, 1, Depth - 1)[n] = frames[n]
    BY <1>2, <2>1
  <2>3. Len(frames') = Depth - 1 /\ frames' \in Seq(Frame)
    BY <1>1, <2>2
  <2>4. DOMAIN frames' = 1 .. Depth - 1
    BY <2>3
  <2>5. \A n \in 1 .. Depth - 1 : n \in 1 .. Depth /\ frames'[n] = frames[n]
    <3>1. \A n \in 1 .. Depth - 1 : n \in 1 .. Depth
      BY <1>2
    <3>2. \A n \in 1 .. Depth - 1 : frames'[n] = frames[n]
      BY <1>1, <2>2
    <3> QED
      BY <3>1, <3>2
  <2> QED
    BY <2>3, <2>4, <2>5 DEF Depth
<1>4. ToDetach \subseteq Held /\ \A r \in ToDetach :
        ~pv[r].is_detached /\ pv[r].level = Depth /\ pv[r].var \in Var /\ pv[r].cell = <<Top.act, pv[r].var>>
  BY <1>2, HeldBy DEF ToDetach, Top, IInv, Chains
<1>5. \A r \in VarRef :
        IF r \in ToDetach
        THEN /\ pv'[r] \in Pointer /\ pv'[r].is_detached /\ pv'[r].value = Top.vars[pv[r].var]
             /\ pv'[r].cell = pv[r].cell
        ELSE pv'[r] = pv[r] /\ pv'[r] \in Pointer
  <2> SUFFICES ASSUME NEW r \in VarRef
               PROVE  IF r \in ToDetach
                      THEN /\ pv'[r] \in Pointer /\ pv'[r].is_detached /\ pv'[r].value = Top.vars[pv[r].var]
                           /\ pv'[r].cell = pv[r].cell
                      ELSE pv'[r] = pv[r] /\ pv'[r] \in Pointer
    OBVIOUS
  <2>1. pv[r] \in Pointer
    BY DEF IInv, Types
  <2>2. CASE r \in ToDetach
    <3> DEFINE value == Top.vars[pv[r].var]
    <3>1. value \in Val \cup {Initial}
      BY <1>2, <1>4, <2>2 DEF Frame
    <3>2. pv'[r] = [pv[r] EXCEPT !.is_detached = TRUE, !.level = 0, !.var = 0, !.value = value]
      BY <1>1, <1>4, <2>2 DEF Top
    <3> HIDE DEF value
    <3>3. /\ pv'[r] \in Pointer /\ pv'[r].is_detached /\ pv'[r].value = value
          /\ pv'[r].cell = pv[r].cell
      <4>1. pv'[r] = [is_detached |-> TRUE, level |-> 0, var |-> 0, value |-> value, cell |-> pv[r].cell]
        BY <2>1, <3>2 DEF Pointer
      <4> QED
        BY <2>1, <3>1, <4>1 DEF Pointer
    <3> QED
      BY <2>2, <3>3 DEF value
  <2>3. CASE r \notin ToDetach
    BY <1>1, <2>1, <2>3
  <2> QED
    BY <2>2, <2>3
<1>6. InUse' \subseteq InUse /\ Reached' \subseteq Reached
  <2>1. FuncsOf(frames)' \subseteq FuncsOf(frames)
    BY <1>2, <1>3 DEF FuncsOf
  <2> QED
    BY <1>1, <2>1 DEF InUse, Reached
<1>7. Held' \subseteq Held
  <2> SUFFICES ASSUME NEW s \in Held'
               PROVE  s \in Held
    OBVIOUS
  <2>1. s # 0 /\ (\/ \E d \in Reached' : s \in Range(refs[d])
                  \/ \E n \in 1 .. Depth - 1 : s \in Range(frames'[n].chain))
    BY <1>1, <1>3 DEF Held
  <2>2. \/ \E d \in Reached : s \in Range(refs[d])
        \/ \E n \in 1 .. Depth : s \in Range(frames[n].chain)
    BY <1>3, <1>6, <2>1
  <2> QED
    BY <1>2, <2>1, <2>2 DEF Held
<1>8. Types'
  <2>1. pv' \in [VarRef -> Pointer]
    BY <1>1, <1>5
  <2>2. Depth' <= MaxDepth
    BY <1>2, <1>3 DEF IInv, Types, VarRefsAssumption
  <2> QED
    BY <1>1, <1>3, <2>1, <2>2 DEF IInv, Types
<1>9. Kept'
  <2>1. \A r \in VarRef \ alloc.varrefs : pv'[r] = pv[r]
    BY <1>4, <1>5 DEF IInv, Kept
  <2> QED
    BY <1>1, <1>6, <1>7, <2>1 DEF IInv, Kept
<1>10. Chains'
  <2>1. \A n \in 1 .. Depth - 1 : \A r \in Range(frames[n].chain) : r \in VarRef /\ pv'[r] = pv[r]
    <3> SUFFICES ASSUME NEW n \in 1 .. Depth - 1, NEW r \in Range(frames[n].chain)
                 PROVE  r \in VarRef /\ pv'[r] = pv[r]
      OBVIOUS
    <3>1. n \in 1 .. Depth /\ n # Depth
      BY <1>2
    <3>2. r \in VarRef /\ pv[r].level = n
      BY <3>1, HeldBy DEF IInv, Chains
    <3> QED
      BY <1>4, <1>5, <3>1, <3>2
  <2>2. \A n \in 1 .. Depth - 1 : \A k \in DOMAIN frames[n].chain : frames[n].chain[k] \in Range(frames[n].chain)
    BY DEF Range
  <2>3. \A r \in VarRef : ~pv'[r].is_detached => pv'[r] = pv[r] /\ pv[r].level # Depth
    <3> SUFFICES ASSUME NEW r \in VarRef, ~pv'[r].is_detached
                 PROVE  pv'[r] = pv[r] /\ pv[r].level # Depth
      OBVIOUS
    <3>1. r \notin ToDetach /\ pv'[r] = pv[r]
      BY <1>5
    <3> QED
      BY <3>1 DEF IInv, Chains, ToDetach, Top
  <2>4. \A r \in VarRef : ~pv'[r].is_detached =>
           pv'[r].level \in 1 .. Depth - 1 /\ r \in Range(frames[pv'[r].level].chain)
    BY <1>2, <2>3 DEF IInv, Chains
  <2>5. \A n \in 1 .. Depth - 1 : \A r \in Range(frames[n].chain) :
          /\ ~pv'[r].is_detached /\ pv'[r].level = n /\ pv'[r].var \in Var
          /\ pv'[r].cell = <<frames[n].act, pv'[r].var>>
    BY <1>3, <2>1 DEF IInv, Chains
  <2>6. \A n \in 1 .. Depth - 1 : \A k, l \in DOMAIN frames[n].chain :
          pv'[frames[n].chain[k]].var = pv'[frames[n].chain[l]].var => k = l
    BY <1>3, <2>1, <2>2 DEF IInv, Chains
  <2> QED
    BY <1>3, <2>4, <2>5, <2>6 DEF Chains
<1>11. Names'
  <2>1. \A r \in Held : r \in VarRef /\ pv'[r].cell = pv[r].cell
    BY <1>5, HeldBy
  <2>2. \A r \in Held : \A n \in 1 .. Depth - 1 :
          pv'[r].cell[1] = frames[n].act => ~pv'[r].is_detached /\ pv'[r].level = n
    <3> SUFFICES ASSUME NEW r \in Held, NEW n \in 1 .. Depth - 1, pv[r].cell[1] = frames[n].act
                 PROVE  ~pv'[r].is_detached /\ pv'[r].level = n
      BY <2>1
    <3>1. n \in 1 .. Depth /\ n # Depth
      BY <1>2
    <3>2. ~pv[r].is_detached /\ pv[r].level = n
      BY <3>1 DEF IInv, Names
    <3> QED
      BY <1>4, <1>5, <2>1, <3>1, <3>2
  <2> QED
    BY <1>3, <1>7, <2>1, <2>2 DEF IInv, Names
<1>12. Making'
  BY <1>1 DEF Making
<1> QED
  BY <1>1, <1>2, <1>3, <1>5, <1>6, <1>8, <1>9, <1>10, <1>11, <1>12 DEF IInv

LEMMA NextInv ==
  ASSUME VarRefsAssumption, IInv, [RefsNext]_refsVars
  PROVE  IInv'
<1>1. ASSUME NEW i \in 1 .. Cardinality(VarRef), NEW v \in Val, PutVarRef(i, v)
      PROVE  IInv'
  BY <1>1, PutVarRefInv
<1>2. CASE CaptureFails \/ ClosureMade \/ \E c \in Closure : Drop(c)
  BY <1>2, LiveInv DEF CaptureFails, ClosureMade, Drop
<1>3. CASE UNCHANGED refsVars
  <2>1. UNCHANGED <<frames, pv, alloc, refs, live, making, Depth, Top, Reached, InUse>>
    BY <1>3 DEF refsVars, Depth, Top, Reached, InUse
  <2>2. Held' = Held
    BY <2>1 DEF Held
  <2>3. Types' /\ Kept'
    BY <2>1, <2>2 DEF IInv, Types, Kept
  <2>4. Chains' /\ Names'
    BY <2>1, <2>2 DEF IInv, Chains, Names
  <2>5. Making'
    BY <2>1 DEF IInv, Making, CellOf
  <2> QED
    BY <2>3, <2>4, <2>5 DEF IInv
<1> QED
  BY <1>1, <1>2, <1>3, GCInv, CallInv, PutLocInv, ClosureInv, CaptureExistingInv, CaptureNewInv, ReturnInv DEF RefsNext

\* The invariant holds in every state.
THEOREM Invariance ==
  ASSUME VarRefsAssumption
  PROVE  RefsSpec => []IInv
<1>1. RefsInit => IInv
  BY InitInv
<1>2. IInv /\ [RefsNext]_refsVars => IInv'
  BY NextInv
<1> QED
  BY <1>1, <1>2, PTL DEF RefsSpec

\* The collector keeps all that the calls, the closures and js_closure under way
\* can reach: no varref is read after its block was given back.
THEOREM TypesAreKept ==
  ASSUME VarRefsAssumption
  PROVE  RefsSpec => []RefsTypeOK
<1>1. IInv => RefsTypeOK
  <2> SUFFICES ASSUME IInv
               PROVE  RefsTypeOK
    OBVIOUS
  <2> DEFINE used == (live \cup FuncsOf(frames) \cup {making.closure}) \ {Main}
  <2>1. used = Reached
    BY HeldBy DEF Reached, InUse, VarRefsAssumption
  <2>2. \A c \in Reached : Range(refs[c]) \subseteq alloc.varrefs \cup {0}
    BY DEF IInv, Kept, Held
  <2>3. \A n \in DOMAIN frames : Range(frames[n].chain) \subseteq alloc.varrefs
    BY CallsAre, HeldBy DEF IInv, Kept
  <2>4. \A r \in VarRef : pv[r].value \in Val \cup {Initial}
    BY DEF IInv, Types, Pointer
  <2> QED
    BY <2>1, <2>2, <2>3, <2>4 DEF IInv, Types, Kept, RefsTypeOK
<1> QED
  BY <1>1, Invariance, PTL
-----------------------------------------------------------------------------
(* What the varrefs read.                                                  *)

\* The cell of a variable of a call under way is its place on the stack; that of
\* a varref is what the varref reads.
LEMMA CallCell ==
  ASSUME VarRefsAssumption, IInv, NEW n \in 1 .. Depth, NEW x \in Var
  PROVE  <<frames[n].act, x>> \in Cells /\ ValueOf(<<frames[n].act, x>>) = frames[n].vars[x]
<1> DEFINE cell == <<frames[n].act, x>>
<1>1. DOMAIN frames = 1 .. Depth /\ cell \in Cells
  BY CallsAre DEF IInv, Cells
<1>2. \A m \in DOMAIN frames : frames[m].act = cell[1] => m = n
  BY <1>1 DEF IInv, Names
<1>3. (CHOOSE m \in DOMAIN frames : frames[m].act = cell[1]) = n
  BY <1>1, <1>2
<1> QED
  BY <1>1, <1>3 DEF ValueOf

LEMMA VarRefCell ==
  ASSUME VarRefsAssumption, IInv, NEW r \in Captured
  PROVE  Read(r) = ValueOf(pv[r].cell)
<1>1. r \in Held /\ DOMAIN frames = 1 .. Depth
  BY HeldBy, CallsAre DEF IInv
<1>2. CASE pv[r].cell \in Cells
  <2>1. PICK n \in 1 .. Depth, x \in Var : pv[r].cell = <<frames[n].act, x>>
    BY <1>1, <1>2 DEF Cells
  <2>2. ~pv[r].is_detached /\ pv[r].level = n
    BY <1>1, <2>1 DEF IInv, Names
  <2>3. pv[r].var = x
    BY <1>1, <2>1, <2>2, AttachedCell
  <2> QED
    BY <1>1, <2>1, <2>2, <2>3, CallCell DEF Read
<1>3. CASE pv[r].cell \notin Cells
  <2>1. \A s \in Captured : pv[s].cell = pv[r].cell => s = r
    BY <1>1, HeldBy DEF IInv, Names
  <2>2. (CHOOSE s \in Captured : pv[s].cell = pv[r].cell) = r
    BY <2>1
  <2> QED
    BY <1>3, <2>2 DEF ValueOf
<1> QED
  BY <1>2, <1>3

\* A varref is attached only while it is on the chain of the call whose variable
\* it stands for, and every closure that captured a variable reads its one value.
THEOREM RefsAreExact ==
  ASSUME VarRefsAssumption
  PROVE  RefsSpec => []RefsExact
<1>1. IInv => RefsExact
  <2> SUFFICES ASSUME IInv
               PROVE  AttachedToActiveCall /\ ReadsAgree
    BY DEF RefsExact
  <2>1. ReadsAgree
    BY VarRefCell DEF ReadsAgree
  <2>2. \A r \in alloc.varrefs : ~pv[r].is_detached =>
          pv[r].level \in 1 .. Depth /\ r \in Range(frames[pv[r].level].chain)
    BY DEF IInv, Types, Chains
  <2>3. ASSUME NEW n \in 1 .. Depth, NEW i \in DOMAIN frames[n].chain, NEW j \in DOMAIN frames[n].chain
        PROVE  LET r == frames[n].chain[i]
                   s == frames[n].chain[j] IN
               /\ ~pv[r].is_detached /\ pv[r].level = n
               /\ i # j => pv[r].var # pv[s].var
    <3>1. frames[n].chain[i] \in Range(frames[n].chain)
      BY DEF Range
    <3> QED
      BY <3>1 DEF IInv, Chains
  <2> QED
    BY <2>1, <2>2, <2>3 DEF AttachedToActiveCall
<1> QED
  BY <1>1, Invariance, PTL
-----------------------------------------------------------------------------
(* The steps as steps of SharedVars.                                       *)

\* What SharedVars sees.
View ==
  /\ Depth \in Nat /\ DOMAIN frames = 1 .. Depth
  /\ InUse = live \cup Shared!Funcs(CallStack)
  /\ CallStack \in Seq([func : Closure \cup {Main}, act : Act]) /\ Len(CallStack) = Depth
  /\ \A n \in 1 .. Depth : CallStack[n] = [func |-> frames[n].func, act |-> frames[n].act]
  /\ \A c \in InUse : \A i \in DOMAIN refs[c] : refs[c][i] \in Captured
  /\ Captured \subseteq VarRef
  /\ Store = [cell \in DOMAIN Store |-> Store[cell]]
  /\ DOMAIN Store = Shared!CellsOf(CallStack, CapturedCells)
  /\ DOMAIN Store = {<<frames[n].act, x>> : n \in 1 .. Depth, x \in Var} \cup {pv[r].cell : r \in Captured}
  /\ \A cell \in DOMAIN Store :
       \/ \E n \in 1 .. Depth, x \in Var : cell = <<frames[n].act, x>>
       \/ \E r \in Captured : cell = pv[r].cell /\ pv[r].is_detached
  /\ \A n \in 1 .. Depth : \A x \in Var : Store[<<frames[n].act, x>>] = frames[n].vars[x]
  /\ \A r \in Captured : pv[r].is_detached => Store[pv[r].cell] = pv[r].value

LEMMA ViewHolds ==
  ASSUME VarRefsAssumption
  PROVE  IInv => View
<1> SUFFICES ASSUME IInv
             PROVE  View
  OBVIOUS
<1>1. Depth \in Nat /\ DOMAIN frames = 1 .. Depth /\ \A n \in 1 .. Depth : frames[n] \in Frame
  BY CallsAre DEF IInv
<1>2. /\ CallStack \in Seq([func : Closure \cup {Main}, act : Act]) /\ Len(CallStack) = Depth
      /\ DOMAIN CallStack = 1 .. Depth
      /\ \A n \in 1 .. Depth : CallStack[n] = [func |-> frames[n].func, act |-> frames[n].act]
  BY <1>1 DEF CallStack, Frame
<1>3. InUse = live \cup Shared!Funcs(CallStack)
  BY <1>1, <1>2 DEF InUse, FuncsOf, Shared!Funcs
<1>4. \A c \in InUse : \A i \in DOMAIN refs[c] : refs[c][i] \in Captured
  BY DEF Captured, Range
<1>5. Captured \subseteq VarRef
  BY HeldBy
<1>6. DOMAIN Store = Cells \cup {pv[r].cell : r \in Captured} /\ Store = [cell \in DOMAIN Store |-> Store[cell]]
      /\ \A cell \in DOMAIN Store : Store[cell] = ValueOf(cell)
  BY DEF Store
<1>7. Cells = {<<frames[n].act, x>> : n \in 1 .. Depth, x \in Var}
  BY <1>1 DEF Cells
<1>8. DOMAIN Store = Shared!CellsOf(CallStack, CapturedCells)
  <2>1. {<<CallStack[n].act, x>> : n \in DOMAIN CallStack, x \in Var} = Cells
    BY <1>2, <1>7
  <2>2. UNION {Range(CapturedCells[c]) : c \in DOMAIN CapturedCells} = {pv[r].cell : r \in Captured}
    <3>1. DOMAIN CapturedCells = InUse
          /\ \A c \in InUse : CapturedCells[c] = [i \in DOMAIN refs[c] |-> pv[refs[c][i]].cell]
      BY DEF CapturedCells
    <3>2. \A c \in InUse : Range(CapturedCells[c]) = {pv[r].cell : r \in Range(refs[c])}
      BY <3>1 DEF Range
    <3> QED
      BY <3>1, <3>2 DEF Captured
  <2>3. Shared!CellsOf(CallStack, CapturedCells) =
          {<<CallStack[n].act, x>> : n \in DOMAIN CallStack, x \in Var}
            \cup UNION {Range(CapturedCells[c]) : c \in DOMAIN CapturedCells}
    BY DEF Shared!CellsOf, Shared!Range, Range
  <2> QED
    BY <1>6, <2>1, <2>2, <2>3
<1>9. \A n \in 1 .. Depth : \A x \in Var : Store[<<frames[n].act, x>>] = frames[n].vars[x]
  BY <1>6, CallCell
<1>10. \A r \in Captured : pv[r].is_detached => Store[pv[r].cell] = pv[r].value
  BY <1>6, VarRefCell DEF Read
<1>11. ASSUME NEW cell \in DOMAIN Store
       PROVE  \/ \E n \in 1 .. Depth, x \in Var : cell = <<frames[n].act, x>>
              \/ \E r \in Captured : cell = pv[r].cell /\ pv[r].is_detached
  <2>1. CASE cell \in Cells
    BY <1>7, <2>1
  <2>2. CASE cell \notin Cells
    <3>1. PICK r \in Captured : cell = pv[r].cell
      BY <1>6, <2>2
    <3>2. CASE ~pv[r].is_detached
      BY <3>1, <3>2, AttachedCell, HeldBy
    <3> QED
      BY <3>1, <3>2
  <2> QED
    BY <2>1, <2>2
<1> QED
  BY <1>1, <1>2, <1>3, <1>4, <1>5, <1>6, <1>7, <1>8, <1>9, <1>10, <1>11 DEF View

\* What is collected, allocated or captured by a closure under way is not seen.
LEMMA Unseen ==
  ASSUME VarRefsAssumption, IInv, View, View',
         UNCHANGED <<Depth, live, InUse, Captured>>,
         \A c \in InUse : refs'[c] = refs[c],
         \A r \in Captured : pv'[r] = pv[r],
         \A n \in 1 .. Depth : /\ frames'[n].func = frames[n].func
                               /\ frames'[n].act = frames[n].act
                               /\ frames'[n].vars = frames[n].vars
  PROVE  UNCHANGED Shared!vars
<1>1. CallStack' = CallStack
  BY DEF CallStack, View
<1>2. CapturedCells' = CapturedCells
  <2>1. \A c \in InUse : \A i \in DOMAIN refs[c] : refs[c][i] \in Captured
    BY DEF View
  <2>2. \A c \in InUse : [i \in DOMAIN refs'[c] |-> pv'[refs'[c][i]].cell]
                         = [i \in DOMAIN refs[c] |-> pv[refs[c][i]].cell]
    BY <2>1
  <2> QED
    BY <2>2 DEF CapturedCells
<1>3. DOMAIN Store' = DOMAIN Store
  <2>1. /\ DOMAIN Store = {<<frames[n].act, x>> : n \in 1 .. Depth, x \in Var} \cup {pv[r].cell : r \in Captured}
        /\ DOMAIN Store' = {<<frames'[n].act, x>> : n \in 1 .. Depth, x \in Var} \cup {pv'[r].cell : r \in Captured}
    BY DEF View
  <2>2. {<<frames'[n].act, x>> : n \in 1 .. Depth, x \in Var} = {<<frames[n].act, x>> : n \in 1 .. Depth, x \in Var}
    OBVIOUS
  <2>3. {pv'[r].cell : r \in Captured} = {pv[r].cell : r \in Captured}
    OBVIOUS
  <2> QED
    BY <2>1, <2>2, <2>3
<1>4. \A cell \in DOMAIN Store : Store'[cell] = Store[cell]
  <2> SUFFICES ASSUME NEW cell \in DOMAIN Store
               PROVE  Store'[cell] = Store[cell]
    OBVIOUS
  <2>1. ASSUME NEW n \in 1 .. Depth, NEW x \in Var, cell = <<frames[n].act, x>>
        PROVE  Store'[cell] = Store[cell]
    <3>1. Store[cell] = frames[n].vars[x] /\ Store'[<<frames'[n].act, x>>] = frames'[n].vars[x]
      BY <2>1 DEF View
    <3> QED
      BY <2>1, <3>1
  <2>2. ASSUME NEW r \in Captured, cell = pv[r].cell, pv[r].is_detached
        PROVE  Store'[cell] = Store[cell]
    <3>1. Store[cell] = pv[r].value /\ Store'[pv'[r].cell] = pv'[r].value
      BY <2>2 DEF View
    <3> QED
      BY <2>2, <3>1
  <2> QED
    BY <2>1, <2>2 DEF View
<1>5. Store' = Store
  BY <1>3, <1>4 DEF View
<1> QED
  BY <1>1, <1>2, <1>5 DEF Shared!vars

LEMMA InitRefines ==
  ASSUME VarRefsAssumption, RefsInit
  PROVE  Shared!Init
<1>1. Captured = {} /\ Cells = {} /\ InUse = {} /\ DOMAIN frames = {}
  BY DEF RefsInit, Captured, Cells, InUse, FuncsOf
<1> QED
  BY <1>1 DEF RefsInit, Shared!Init, CallStack, CapturedCells, Store

LEMMA CallRefines ==
  ASSUME VarRefsAssumption, IInv, View, View', NEW f \in Closure \cup {Main}, Call(f)
  PROVE  \E a \in Act : Shared!Call(f, a)
<1>1. PICK a \in Act : /\ a \notin NamesInUse
                      /\ frames'[Depth + 1].func = f /\ frames'[Depth + 1].act = a
                      /\ frames'[Depth + 1].vars = [x \in Var |-> Initial]
  BY CallInv
<1>2. /\ Depth' = Depth + 1 /\ InUse' = InUse \cup {f} /\ f \in live \cup {Main}
      /\ UNCHANGED <<pv, refs, live>>
      /\ \A n \in 1 .. Depth : frames'[n] = frames[n]
      /\ Depth \in Nat /\ DOMAIN frames = 1 .. Depth
  BY CallInv, CallsAre DEF IInv
<1>3. refs[Main] = <<>>
  BY DEF IInv, Types
<1>4. Captured' = Captured
  <2>1. Range(refs[f]) \subseteq Captured
    BY <1>2, <1>3 DEF Captured, InUse, Range
  <2> QED
    BY <1>2, <2>1 DEF Captured
<1>5. a \notin Shared!Acts
  <2>1. \A n \in 1 .. Depth : frames[n].act # a
    BY <1>1, <1>2 DEF NamesInUse
  <2>2. \A r \in Captured : pv[r].cell[1] # a
    BY <1>1, HeldBy DEF NamesInUse
  <2>3. \A n \in DOMAIN CallStack : CallStack[n].act # a
    BY <1>2, <2>1 DEF CallStack
  <2>4. \A cell \in DOMAIN Store : cell[1] # a
    BY <2>1, <2>2 DEF View
  <2> QED
    BY <2>3, <2>4 DEF Shared!Acts
<1>6. CallStack' = Append(CallStack, [func |-> f, act |-> a])
  <2> DEFINE F == [func : Closure \cup {Main}, act : Act]
             e == [func |-> f, act |-> a]
             s == CallStack
  <2>1. /\ s \in Seq(F) /\ Len(s) = Depth /\ s' \in Seq(F) /\ Len(s') = Depth + 1 /\ e \in F
        /\ \A n \in 1 .. Depth : s[n] = [func |-> frames[n].func, act |-> frames[n].act]
        /\ \A n \in 1 .. Depth + 1 : s'[n] = [func |-> frames'[n].func, act |-> frames'[n].act]
    BY <1>2 DEF View
  <2>2. \A n \in 1 .. Depth + 1 : n \in 1 .. Depth \/ n = Depth + 1
    BY <1>2
  <2>3. \A n \in 1 .. Depth + 1 : s'[n] = IF n = Depth + 1 THEN e ELSE s[n]
    BY <1>1, <1>2, <2>1, <2>2
  <2> HIDE DEF s, e, F
  <2>4. /\ Append(s, e) \in Seq(F) /\ Len(Append(s, e)) = Depth + 1
        /\ \A n \in 1 .. Depth + 1 : Append(s, e)[n] = IF n = Depth + 1 THEN e ELSE s[n]
    BY <1>2, <2>1
  <2>5. s' = Append(s, e)
    <3>1. \A n \in 1 .. Len(s') : s'[n] = Append(s, e)[n]
      BY <2>1, <2>3, <2>4
    <3> QED
      BY <2>1, <2>4, <3>1, SeqEqual
  <2> QED
    BY <2>5 DEF s, e
<1>7. CapturedCells' = IF f = Main THEN [c \in DOMAIN CapturedCells \cup {Main} |->
                                         IF c = Main THEN <<>> ELSE CapturedCells[c]]
                       ELSE CapturedCells
  <2>1. CapturedCells' = [c \in InUse \cup {f} |-> [i \in DOMAIN refs[c] |-> pv[refs[c][i]].cell]]
    BY <1>2 DEF CapturedCells
  <2>2. CASE f = Main
    <3> DEFINE C(c) == [i \in DOMAIN refs[c] |-> pv[refs[c][i]].cell]
    <3>1. C(Main) = <<>>
      BY <1>3
    <3>2. CapturedCells = [c \in InUse |-> C(c)]
      BY DEF CapturedCells
    <3>3. CapturedCells' = [c \in InUse \cup {Main} |-> C(c)]
      BY <2>1, <2>2
    <3> HIDE DEF C
    <3>4. /\ DOMAIN CapturedCells = InUse
          /\ \A c \in InUse \cup {Main} : C(c) = IF c = Main THEN <<>> ELSE CapturedCells[c]
      BY ONLY <3>1, <3>2
    <3> QED
      BY ONLY <2>2, <3>3, <3>4
  <2>3. CASE f # Main
    <3>1. InUse \cup {f} = InUse
      BY <1>2, <2>3 DEF InUse
    <3> QED
      BY <2>1, <2>3, <3>1 DEF CapturedCells
  <2> QED
    BY <2>2, <2>3
<1>8. Store' = [c \in DOMAIN Store \cup {<<a, x>> : x \in Var} |-> IF c \in DOMAIN Store THEN Store[c] ELSE Initial]
  <2>1. DOMAIN Store' = DOMAIN Store \cup {<<a, x>> : x \in Var}
    <3>1. /\ DOMAIN Store = {<<frames[n].act, x>> : n \in 1 .. Depth, x \in Var} \cup {pv[r].cell : r \in Captured}
          /\ DOMAIN Store' = {<<frames'[n].act, x>> : n \in 1 .. Depth + 1, x \in Var} \cup {pv[r].cell : r \in Captured}
      BY <1>2, <1>4 DEF View
    <3>2. \A n \in 1 .. Depth + 1 : n \in 1 .. Depth \/ n = Depth + 1
      BY <1>2
    <3>3. \A n \in 1 .. Depth : n \in 1 .. Depth + 1
      BY <1>2
    <3>4. Depth + 1 \in 1 .. Depth + 1
      BY <1>2
    <3>5. {<<frames'[n].act, x>> : n \in 1 .. Depth + 1, x \in Var} =
            {<<frames[n].act, x>> : n \in 1 .. Depth, x \in Var} \cup {<<a, x>> : x \in Var}
      BY <1>1, <1>2, <3>2, <3>3, <3>4
    <3> QED
      BY <3>1, <3>5
  <2>2. ASSUME NEW c \in DOMAIN Store
        PROVE  Store'[c] = Store[c]
    <3>1. ASSUME NEW n \in 1 .. Depth, NEW x \in Var, c = <<frames[n].act, x>>
          PROVE  Store'[c] = Store[c]
      <4>1. n \in 1 .. Depth + 1 /\ frames'[n] = frames[n]
        BY <1>2
      <4>2. Store[c] = frames[n].vars[x] /\ Store'[<<frames'[n].act, x>>] = frames'[n].vars[x]
        BY <1>2, <3>1, <4>1 DEF View
      <4> QED
        BY <3>1, <4>1, <4>2
    <3>2. ASSUME NEW r \in Captured, c = pv[r].cell, pv[r].is_detached
          PROVE  Store'[c] = Store[c]
      <4>1. /\ \A s \in Captured : pv[s].is_detached => Store[pv[s].cell] = pv[s].value
            /\ \A s \in Captured' : pv'[s].is_detached => Store'[pv'[s].cell] = pv'[s].value
        BY DEF View
      <4> QED
        BY <1>2, <1>4, <3>2, <4>1
    <3> QED
      BY <3>1, <3>2 DEF View
  <2>3. ASSUME NEW x \in Var
        PROVE  Store'[<<a, x>>] = Initial /\ <<a, x>> \notin DOMAIN Store
    <3>1. Depth + 1 \in 1 .. Depth' /\ frames'[Depth + 1].act = a /\ frames'[Depth + 1].vars[x] = Initial
      BY <1>1, <1>2
    <3>2. Store'[<<a, x>>] = Initial
      BY <3>1 DEF View
    <3>3. <<a, x>> \notin DOMAIN Store
      BY <1>5 DEF Shared!Acts
    <3> QED
      BY <3>2, <3>3
  <2>4. Store' = [c \in DOMAIN Store' |-> Store'[c]]
    BY DEF View
  <2>5. \A c \in DOMAIN Store' : Store'[c] = IF c \in DOMAIN Store THEN Store[c] ELSE Initial
    BY <2>1, <2>2, <2>3
  <2> QED
    BY <2>1, <2>4, <2>5
<1> QED
  BY <1>2, <1>5, <1>6, <1>7, <1>8 DEF Shared!Call

\* An assignment to the variable x of the call n, or to the detached varref r.
LEMMA WriteToCall ==
  ASSUME VarRefsAssumption, IInv, View, View',
         NEW n \in 1 .. Depth, NEW x \in Var, NEW v \in Val,
         UNCHANGED <<Depth, InUse, Captured, refs, live, pv>>,
         \A m \in 1 .. Depth :
            frames'[m] = IF m = n THEN [frames[m] EXCEPT !.vars[x] = v] ELSE frames[m]
  PROVE  /\ <<frames[n].act, x>> \in DOMAIN Store
         /\ Store' = [Store EXCEPT ![<<frames[n].act, x>>] = v]
         /\ CallStack' = CallStack /\ CapturedCells' = CapturedCells
<1> DEFINE c == <<frames[n].act, x>>
<1>1. DOMAIN frames = 1 .. Depth /\ \A m \in 1 .. Depth : frames[m] \in Frame
  BY CallsAre DEF IInv
<1>2. \A m \in 1 .. Depth : /\ frames'[m].func = frames[m].func
                            /\ frames'[m].act = frames[m].act
  BY <1>1 DEF Frame
<1>3. \A m \in 1 .. Depth, y \in Var :
        frames'[m].vars[y] = IF m = n /\ y = x THEN v ELSE frames[m].vars[y]
  <2> TAKE m \in 1 .. Depth, y \in Var
  <2>1. frames[m].vars \in [Var -> Val \cup {Initial}]
    BY <1>1 DEF Frame
  <2>2. CASE m = n
    <3>1. frames'[n].vars = [frames[n].vars EXCEPT ![x] = v]
      BY <1>1 DEF Frame
    <3> QED
      BY <2>1, <2>2, <3>1
  <2>3. CASE m # n
    BY <2>3
  <2> QED
    BY <2>2, <2>3
<1>4. CallStack' = CallStack
  BY <1>2 DEF CallStack, View
<1>5. CapturedCells' = CapturedCells
  BY DEF CapturedCells
<1>6. c \in DOMAIN Store
  BY DEF View
<1>7. DOMAIN Store' = DOMAIN Store
  <2>1. DOMAIN Store = Shared!CellsOf(CallStack, CapturedCells)
    BY DEF View
  <2>2. DOMAIN Store' = Shared!CellsOf(CallStack', CapturedCells')
    BY DEF View
  <2> QED
    BY <1>4, <1>5, <2>1, <2>2
<1>8. ASSUME NEW d \in DOMAIN Store
      PROVE  Store'[d] = IF d = c THEN v ELSE Store[d]
  <2>1. ASSUME NEW m \in 1 .. Depth, NEW y \in Var, d = <<frames[m].act, y>>
        PROVE  Store'[d] = IF d = c THEN v ELSE Store[d]
    <3>1. Store[d] = frames[m].vars[y] /\ Store'[<<frames'[m].act, y>>] = frames'[m].vars[y]
      BY <2>1 DEF View
    <3>2. d = c <=> m = n /\ y = x
      BY <2>1 DEF IInv, Names
    <3>3. Store'[d] = frames'[m].vars[y]
      BY <1>2, <2>1, <3>1
    <3>4. frames'[m].vars[y] = IF m = n /\ y = x THEN v ELSE frames[m].vars[y]
      BY <1>3
    <3> QED
      BY <3>1, <3>2, <3>3, <3>4
  <2>2. ASSUME NEW r \in Captured, d = pv[r].cell, pv[r].is_detached
        PROVE  Store'[d] = IF d = c THEN v ELSE Store[d]
    <3>1. Store[d] = pv[r].value /\ Store'[d] = pv[r].value
      BY <2>2 DEF View
    <3>2. d # c
      BY <2>2, HeldBy DEF IInv, Names
    <3> QED
      BY <3>1, <3>2
  <2>3. \/ \E m \in 1 .. Depth, y \in Var : d = <<frames[m].act, y>>
        \/ \E r \in Captured : d = pv[r].cell /\ pv[r].is_detached
    BY DEF View
  <2> QED
    BY <2>1, <2>2, <2>3
<1>9. Store = [d \in DOMAIN Store |-> Store[d]] /\ Store' = [d \in DOMAIN Store' |-> Store'[d]]
  BY DEF View
<1> HIDE DEF c
<1>10. Store' = [Store EXCEPT ![c] = v]
  BY <1>6, <1>7, <1>8, <1>9
<1> QED
  BY <1>4, <1>5, <1>6, <1>10 DEF c

LEMMA WriteToVarRef ==
  ASSUME VarRefsAssumption, IInv, View, View',
         NEW r \in Captured, pv[r].is_detached, NEW v \in Val,
         UNCHANGED <<Depth, InUse, Captured, refs, live, frames>>,
         pv' = [pv EXCEPT ![r].value = v]
  PROVE  /\ pv[r].cell \in DOMAIN Store
         /\ Store' = [Store EXCEPT ![pv[r].cell] = v]
         /\ CallStack' = CallStack /\ CapturedCells' = CapturedCells
<1> DEFINE c == pv[r].cell
<1>1. Captured \subseteq Held /\ Captured \subseteq VarRef /\ r \in VarRef
  BY HeldBy
<1>2. \A s \in VarRef : /\ pv'[s].cell = pv[s].cell /\ pv'[s].is_detached = pv[s].is_detached
                        /\ pv'[s].value = IF s = r THEN v ELSE pv[s].value
  BY <1>1 DEF IInv, Types, Pointer
<1>3. CallStack' = CallStack
  BY DEF CallStack
<1>4. CapturedCells' = CapturedCells
  <2>1. \A d \in InUse : \A i \in DOMAIN refs[d] : refs[d][i] \in Captured
    BY DEF View
  <2>2. \A d \in InUse : [i \in DOMAIN refs[d] |-> pv'[refs[d][i]].cell]
                         = [i \in DOMAIN refs[d] |-> pv[refs[d][i]].cell]
    BY <1>1, <1>2, <2>1
  <2> QED
    BY <2>2 DEF CapturedCells
<1>5. c \in DOMAIN Store
  BY DEF View
<1>6. DOMAIN Store' = DOMAIN Store
  <2>1. DOMAIN Store = Shared!CellsOf(CallStack, CapturedCells)
    BY DEF View
  <2>2. DOMAIN Store' = Shared!CellsOf(CallStack', CapturedCells')
    BY DEF View
  <2> QED
    BY <1>3, <1>4, <2>1, <2>2
<1>7. ASSUME NEW d \in DOMAIN Store
      PROVE  Store'[d] = IF d = c THEN v ELSE Store[d]
  <2>1. ASSUME NEW m \in 1 .. Depth, NEW y \in Var, d = <<frames[m].act, y>>
        PROVE  Store'[d] = IF d = c THEN v ELSE Store[d]
    <3>1. Store[d] = frames[m].vars[y] /\ Store'[d] = frames[m].vars[y]
      BY <2>1 DEF View
    <3>2. d # c
      BY <1>1, <2>1 DEF IInv, Names
    <3> QED
      BY <3>1, <3>2
  <2>2. ASSUME NEW s \in Captured, d = pv[s].cell, pv[s].is_detached
        PROVE  Store'[d] = IF d = c THEN v ELSE Store[d]
    <3>1. pv'[s].cell = d /\ pv'[s].is_detached /\ pv'[s].value = IF s = r THEN v ELSE pv[s].value
      BY <1>1, <1>2, <2>2
    <3>2. Store[d] = pv[s].value /\ Store'[d] = pv'[s].value
      BY <2>2, <3>1 DEF View
    <3>3. d = c <=> s = r
      BY <1>1, <2>2 DEF IInv, Names
    <3> QED
      BY <3>1, <3>2, <3>3
  <2>3. \/ \E m \in 1 .. Depth, x \in Var : d = <<frames[m].act, x>>
        \/ \E s \in Captured : d = pv[s].cell /\ pv[s].is_detached
    BY DEF View
  <2> QED
    BY <2>1, <2>2, <2>3
<1>8. Store = [d \in DOMAIN Store |-> Store[d]] /\ Store' = [d \in DOMAIN Store' |-> Store'[d]]
  BY DEF View
<1> HIDE DEF c
<1>9. Store' = [Store EXCEPT ![c] = v]
  BY <1>5, <1>6, <1>7, <1>8
<1> QED
  BY <1>3, <1>4, <1>5, <1>9 DEF c

LEMMA PutLocRefines ==
  ASSUME VarRefsAssumption, IInv, View, View', NEW x \in Var, NEW v \in Val, PutLoc(x, v)
  PROVE  \E c \in DOMAIN Store : Shared!Write(c, v)
<1> DEFINE c == <<frames[Depth].act, x>>
<1>1. /\ Depth \in 1 .. Depth
      /\ UNCHANGED <<Depth, InUse, Captured, refs, live, pv>>
      /\ \A m \in 1 .. Depth :
           frames'[m] = IF m = Depth THEN [frames[m] EXCEPT !.vars[x] = v] ELSE frames[m]
  BY PutLocInv DEF PutLoc
<1>2. c \in DOMAIN Store /\ Store' = [Store EXCEPT ![c] = v]
      /\ CallStack' = CallStack /\ CapturedCells' = CapturedCells
  BY <1>1, WriteToCall
<1>3. CallStack # <<>> /\ CallStack[Len(CallStack)].act = frames[Depth].act
  BY <1>1 DEF View
<1> QED
  BY <1>1, <1>2, <1>3 DEF Shared!Write, Shared!Top

LEMMA PutVarRefRefines ==
  ASSUME VarRefsAssumption, IInv, View, View', NEW i, NEW v \in Val, PutVarRef(i, v)
  PROVE  \E c \in DOMAIN Store : Shared!Write(c, v)
<1> DEFINE r == refs[Top.func][i]
           c == pv[r].cell
<1>1. /\ Depth \in 1 .. Depth
      /\ UNCHANGED <<Depth, InUse, Captured, refs, live>>
      /\ Top.func \in InUse /\ i \in DOMAIN refs[Top.func] /\ r \in Captured /\ r \in VarRef
      /\ IF pv[r].is_detached
         THEN frames' = frames /\ pv' = [pv EXCEPT ![r].value = v]
         ELSE /\ pv' = pv
              /\ \A n \in 1 .. Depth :
                   frames'[n] = IF n = pv[r].level THEN [frames[n] EXCEPT !.vars[pv[r].var] = v]
                                ELSE frames[n]
  BY PutVarRefInv DEF PutVarRef
<1>2. c \in DOMAIN Store /\ Store' = [Store EXCEPT ![c] = v]
      /\ CallStack' = CallStack /\ CapturedCells' = CapturedCells
  <2>1. CASE pv[r].is_detached
    <3> HIDE DEF r
    <3> QED
      BY <1>1, <2>1, WriteToVarRef
  <2>2. CASE ~pv[r].is_detached
    <3>1. pv[r].level \in 1 .. Depth /\ pv[r].var \in Var /\ c = <<frames[pv[r].level].act, pv[r].var>>
      BY <1>1, <2>2, AttachedCell, HeldBy
    <3> DEFINE n == pv[r].level
               x == pv[r].var
    <3>2. /\ n \in 1 .. Depth /\ x \in Var /\ c = <<frames[n].act, x>> /\ pv' = pv
          /\ \A m \in 1 .. Depth :
               frames'[m] = IF m = n THEN [frames[m] EXCEPT !.vars[x] = v] ELSE frames[m]
      BY <1>1, <2>2, <3>1
    <3> HIDE DEF n, x, c, r
    <3>3. UNCHANGED <<Depth, InUse, Captured, refs, live, pv>>
      BY <1>1, <3>2
    <3>4. /\ <<frames[n].act, x>> \in DOMAIN Store
          /\ Store' = [Store EXCEPT ![<<frames[n].act, x>>] = v]
          /\ CallStack' = CallStack /\ CapturedCells' = CapturedCells
      BY <3>2, <3>3, WriteToCall
    <3> QED
      BY <3>2, <3>4
  <2> QED
    BY <2>1, <2>2
<1>3. CallStack # <<>> /\ CallStack[Len(CallStack)].func = Top.func
  <2>1. /\ Depth \in Nat /\ Len(CallStack) = Depth
        /\ \A n \in 1 .. Depth : CallStack[n] = [func |-> frames[n].func, act |-> frames[n].act]
    BY DEF View
  <2>2. Depth \in 1 .. Depth
    BY <1>1
  <2>3. CallStack[Depth] = [func |-> frames[Depth].func, act |-> frames[Depth].act]
    BY ONLY <2>1, <2>2
  <2> QED
    BY ONLY <2>1, <2>2, <2>3 DEF Top
<1>4. c \in Range(CapturedCells[Top.func])
  BY <1>1 DEF CapturedCells, Range
<1> QED
  BY <1>1, <1>2, <1>3, <1>4 DEF Shared!Write, Shared!Top, Shared!Range, Range

\* js_closure has captured all: the closure gets the cells it was asked for.
LEMMA ClosureMadeRefines ==
  ASSUME VarRefsAssumption, IInv, View, View', ClosureMade
  PROVE  \E c \in Closure, caps \in Captures : Shared!MakeClosure(c, caps)
<1> DEFINE c == making.closure
           caps == making.caps
           f == Top.func
<1>1. /\ making # NoClosure /\ 0 \notin Range(refs[c]) /\ live' = live \cup {c}
      /\ UNCHANGED <<frames, pv, alloc, refs, Depth>>
  BY DEF ClosureMade, Incomplete, Depth
<1>2. /\ c \in Closure /\ caps \in Captures /\ f \in InUse /\ c \notin InUse
      /\ Depth \in 1 .. Depth /\ DOMAIN refs[c] = DOMAIN caps
  BY <1>1, MakingHolds, HeldBy DEF IInv, Making
<1>3. \A i \in DOMAIN caps :
        /\ caps[i].kind \in {"var", "var_ref"}
        /\ caps[i].kind = "var" => caps[i].idx \in Var
        /\ caps[i].kind = "var_ref" => caps[i].idx \in DOMAIN refs[f]
        /\ refs[c][i] # 0 /\ pv[refs[c][i]].cell = CellOf(caps[i])
  BY <1>1, <1>2, CaptureKinds DEF IInv, Making, Range
<1>4. InUse' = InUse \cup {c} /\ DOMAIN CapturedCells = InUse
  BY <1>1 DEF InUse, CapturedCells
<1>5. /\ CallStack' = CallStack /\ CallStack # <<>>
      /\ CallStack[Len(CallStack)].func = f /\ CallStack[Len(CallStack)].act = Top.act
  BY <1>1, <1>2 DEF View, CallStack, Top
<1>6. DOMAIN CapturedCells[f] = DOMAIN refs[f]
      /\ \A i \in DOMAIN refs[f] : CapturedCells[f][i] = pv[refs[f][i]].cell
  BY <1>2 DEF CapturedCells
<1>7. Shared!Captured(caps) = [i \in DOMAIN refs[c] |-> pv[refs[c][i]].cell]
  <2>1. \A i \in DOMAIN caps : pv[refs[c][i]].cell =
          IF caps[i].kind = "var" THEN <<Top.act, caps[i].idx>> ELSE CapturedCells[f][caps[i].idx]
    BY <1>3, <1>6 DEF CellOf
  <2> HIDE DEF c, caps, f
  <2> QED
    BY <1>2, <1>5, <2>1 DEF Shared!Captured, Shared!Top
<1>8. CapturedCells' = [d \in DOMAIN CapturedCells \cup {c} |->
                          IF d = c THEN Shared!Captured(caps) ELSE CapturedCells[d]]
  <2>1. CapturedCells' = [d \in InUse \cup {c} |-> [i \in DOMAIN refs[d] |-> pv[refs[d][i]].cell]]
    BY <1>1, <1>4 DEF CapturedCells
  <2> HIDE DEF c, caps, f
  <2> QED
    BY <1>2, <1>4, <1>7, <2>1 DEF CapturedCells
<1> HIDE DEF c, caps, f
<1>9. Captured' = Captured \cup Range(refs[c])
  BY <1>1, <1>4 DEF Captured
<1>10. \A r \in Range(refs[c]) : pv[r].cell \in DOMAIN Store
  <2> SUFFICES ASSUME NEW i \in DOMAIN caps
               PROVE  pv[refs[c][i]].cell \in DOMAIN Store
    BY <1>2 DEF Range
  <2>1. CASE caps[i].kind = "var"
    <3>1. pv[refs[c][i]].cell = <<frames[Depth].act, caps[i].idx>> /\ caps[i].idx \in Var
      BY <1>3, <2>1 DEF CellOf, Top
    <3> QED
      BY <1>2, <3>1 DEF View
  <2>2. CASE caps[i].kind # "var"
    <3>1. caps[i].idx \in DOMAIN refs[f] /\ pv[refs[c][i]].cell = pv[refs[f][caps[i].idx]].cell
      BY <1>3, <2>2 DEF CellOf, f
    <3>2. refs[f][caps[i].idx] \in Captured
      BY <1>2, <3>1 DEF View
    <3>3. \A r \in Captured : pv[r].cell \in DOMAIN Store
      BY DEF View
    <3> QED
      BY <3>1, <3>2, <3>3
  <2> QED
    BY <2>1, <2>2
<1>11. DOMAIN Store' = DOMAIN Store
  <2>1. /\ DOMAIN Store = {<<frames[n].act, x>> : n \in 1 .. Depth, x \in Var} \cup {pv[r].cell : r \in Captured}
        /\ DOMAIN Store' = {<<frames[n].act, x>> : n \in 1 .. Depth, x \in Var} \cup {pv[r].cell : r \in Captured'}
    BY <1>1 DEF View
  <2> QED
    BY <1>9, <1>10, <2>1
<1>12. ASSUME NEW d \in DOMAIN Store
       PROVE  Store'[d] = Store[d]
  <2>1. ASSUME NEW n \in 1 .. Depth, NEW x \in Var, d = <<frames[n].act, x>>
        PROVE  Store'[d] = Store[d]
    <3>1. Store[<<frames[n].act, x>>] = frames[n].vars[x]
      BY DEF View
    <3>2. Store'[<<frames[n].act, x>>] = frames[n].vars[x]
      BY <1>1 DEF View
    <3> QED
      BY <2>1, <3>1, <3>2
  <2>2. ASSUME NEW r \in Captured, d = pv[r].cell, pv[r].is_detached
        PROVE  Store'[d] = Store[d]
    <3>1. r \in Captured'
      BY <1>9
    <3> QED
      BY <1>1, <2>2, <3>1 DEF View
  <2> QED
    BY <2>1, <2>2 DEF View
<1>13. Store' = Store
  <2>1. Store = [d \in DOMAIN Store |-> Store[d]] /\ Store' = [d \in DOMAIN Store' |-> Store'[d]]
    BY DEF View
  <2> QED
    BY <1>11, <1>12, <2>1
<1>14. Shared!MakeClosure(c, caps)
  BY <1>1, <1>2, <1>3, <1>4, <1>5, <1>6, <1>8, <1>13 DEF Shared!MakeClosure, Shared!Top
<1> QED
  BY <1>2, <1>14

\* A call has returned or a closure is lost: what can still be reached is as before.
LEMMA KeptRefines ==
  ASSUME VarRefsAssumption, IInv, View, View',
         UNCHANGED refs, InUse' \subseteq InUse,
         \A n \in 1 .. Depth' : n \in 1 .. Depth /\ frames'[n] = frames[n],
         \A r \in VarRef : pv'[r].cell = pv[r].cell,
         \A r \in Captured' : r \in Captured /\ pv'[r].is_detached => pv'[r].value = Store[pv[r].cell]
  PROVE  /\ CapturedCells' = Shared!Restrict(CapturedCells, InUse')
         /\ Store' = Shared!Restrict(Store, DOMAIN Store')
<1>1. CapturedCells' = Shared!Restrict(CapturedCells, InUse')
  <2>1. \A c \in InUse : \A i \in DOMAIN refs[c] : refs[c][i] \in VarRef
    BY DEF View
  <2>2. \A c \in InUse' : [i \in DOMAIN refs[c] |-> pv'[refs[c][i]].cell] = CapturedCells[c]
    BY <2>1 DEF CapturedCells
  <2>3. CapturedCells' = [c \in InUse' |-> [i \in DOMAIN refs[c] |-> pv'[refs[c][i]].cell]]
    BY DEF CapturedCells
  <2> QED
    BY <2>2, <2>3 DEF Shared!Restrict
<1>2. Captured' \subseteq Captured
  BY DEF Captured
<1>3. ASSUME NEW d \in DOMAIN Store'
      PROVE  Store'[d] = Store[d]
  <2>1. \/ \E n \in 1 .. Depth', x \in Var : d = <<frames'[n].act, x>>
        \/ \E r \in Captured' : d = pv'[r].cell /\ pv'[r].is_detached
    BY DEF View
  <2>2. ASSUME NEW n \in 1 .. Depth', NEW x \in Var, d = <<frames'[n].act, x>>
        PROVE  Store'[d] = Store[d]
    <3>1. Store'[<<frames'[n].act, x>>] = frames'[n].vars[x]
      BY DEF View
    <3>2. n \in 1 .. Depth /\ frames'[n] = frames[n]
      OBVIOUS
    <3>3. Store[<<frames[n].act, x>>] = frames[n].vars[x]
      BY <3>2 DEF View
    <3> QED
      BY <2>2, <3>1, <3>2, <3>3
  <2>3. ASSUME NEW r \in Captured', d = pv'[r].cell, pv'[r].is_detached
        PROVE  Store'[d] = Store[d]
    <3>1. Store'[d] = pv'[r].value
      BY <2>3 DEF View
    <3>2. r \in Captured /\ r \in VarRef
      BY <1>2 DEF View
    <3> QED
      BY <2>3, <3>1, <3>2
  <2> QED
    BY <2>1, <2>2, <2>3
<1>4. Store' = [d \in DOMAIN Store' |-> Store'[d]]
  BY DEF View
<1> QED
  BY <1>1, <1>3, <1>4 DEF Shared!Restrict

LEMMA ReturnRefines ==
  ASSUME VarRefsAssumption, IInv, IInv', View, View', Return
  PROVE  Shared!Return
<1>1. /\ Depth' = Depth - 1 /\ Depth \in 1 .. Depth /\ InUse' \subseteq InUse
      /\ \A n \in 1 .. Depth - 1 : n \in 1 .. Depth /\ frames'[n] = frames[n]
      /\ \A r \in VarRef :
           /\ pv'[r].cell = pv[r].cell
           /\ IF r \in ToDetach
              THEN pv'[r].is_detached /\ pv'[r].value = Top.vars[pv[r].var]
              ELSE pv'[r] = pv[r]
      /\ UNCHANGED <<refs, live>>
  BY ReturnInv DEF Return
<1>2. ASSUME NEW r \in Captured, pv'[r].is_detached
      PROVE  pv'[r].value = Store[pv[r].cell]
  <2>1. r \in VarRef /\ r \in Held
    BY HeldBy
  <2>2. CASE r \in ToDetach
    <3>1. pv'[r].value = Top.vars[pv[r].var]
      BY <1>1, <2>1, <2>2
    <3>2. ~pv[r].is_detached /\ pv[r].level = Depth
      BY <1>1, <2>2 DEF IInv, Chains, ToDetach, Top
    <3>3. pv[r].var \in Var /\ pv[r].cell = <<frames[Depth].act, pv[r].var>>
      BY <2>1, <3>2, AttachedCell
    <3>4. Store[<<frames[Depth].act, pv[r].var>>] = frames[Depth].vars[pv[r].var]
      BY <1>1, <3>3 DEF View
    <3> QED
      BY <3>1, <3>3, <3>4 DEF Top
  <2>3. CASE r \notin ToDetach
    <3>1. pv'[r] = pv[r]
      BY <1>1, <2>1, <2>3
    <3> QED
      BY <1>2, <3>1 DEF View
  <2> QED
    BY <2>2, <2>3
<1>3. Captured' \subseteq Captured
  BY <1>1 DEF Captured
<1>4. /\ CapturedCells' = Shared!Restrict(CapturedCells, InUse')
      /\ Store' = Shared!Restrict(Store, DOMAIN Store')
  BY <1>1, <1>2, <1>3, KeptRefines
<1>5. InUse' = live \cup Shared!Funcs(CallStack') /\ DOMAIN Store' = Shared!CellsOf(CallStack', CapturedCells')
  BY <1>1 DEF View
<1>6. CallStack # <<>> /\ CallStack' = SubSeq(CallStack, 1, Len(CallStack) - 1)
  <2> DEFINE F == [func : Closure \cup {Main}, act : Act]
             s == CallStack
  <2>1. /\ s \in Seq(F) /\ Len(s) = Depth /\ s' \in Seq(F) /\ Len(s') = Depth - 1
        /\ \A n \in 1 .. Depth : s[n] = [func |-> frames[n].func, act |-> frames[n].act]
        /\ \A n \in 1 .. Depth - 1 : s'[n] = [func |-> frames'[n].func, act |-> frames'[n].act]
    BY <1>1 DEF View
  <2>2. \A n \in 1 .. Depth - 1 : s'[n] = s[n]
    BY <1>1, <2>1
  <2> HIDE DEF s, F
  <2>3. /\ SubSeq(s, 1, Depth - 1) \in Seq(F) /\ Len(SubSeq(s, 1, Depth - 1)) = Depth - 1
        /\ \A n \in 1 .. Depth - 1 : SubSeq(s, 1, Depth - 1)[n] = s[n]
    BY <1>1, <2>1
  <2>4. \A n \in 1 .. Len(s') : s'[n] = SubSeq(s, 1, Depth - 1)[n]
    BY <2>1, <2>2, <2>3
  <2>5. s' = SubSeq(s, 1, Depth - 1)
    BY <2>1, <2>3, <2>4, SeqEqual
  <2>6. s # <<>>
    BY <1>1, <2>1
  <2> QED
    BY <2>1, <2>5, <2>6 DEF s
<1> QED
  BY <1>1, <1>4, <1>5, <1>6 DEF Shared!Return, Shared!Keep

LEMMA DropRefines ==
  ASSUME VarRefsAssumption, IInv, View, View', NEW c \in Closure, Drop(c)
  PROVE  \E d \in live : Shared!Drop(d)
<1>1. c \in live /\ live' = live \ {c} /\ UNCHANGED <<frames, pv, alloc, refs, Depth, CallStack>>
  BY DEF Drop, Depth, CallStack
<1>2. InUse' \subseteq InUse
  BY <1>1 DEF InUse
<1>3. \A n \in 1 .. Depth' : n \in 1 .. Depth /\ frames'[n] = frames[n]
  BY <1>1
<1>4. Captured' \subseteq Captured
  BY <1>1, <1>2 DEF Captured
<1>5. \A r \in Captured' : r \in Captured /\ pv'[r].is_detached => pv'[r].value = Store[pv[r].cell]
  BY <1>1, <1>4 DEF View
<1>6. /\ CapturedCells' = Shared!Restrict(CapturedCells, InUse')
      /\ Store' = Shared!Restrict(Store, DOMAIN Store')
  BY <1>1, <1>2, <1>3, <1>5, KeptRefines
<1>7. InUse' = live' \cup Shared!Funcs(CallStack) /\ DOMAIN Store' = Shared!CellsOf(CallStack, CapturedCells')
  BY <1>1 DEF View
<1>8. Shared!Drop(c)
  BY <1>1, <1>6, <1>7 DEF Shared!Drop, Shared!Keep
<1> QED
  BY <1>1, <1>8

LEMMA StepRefines ==
  ASSUME VarRefsAssumption, IInv, IInv', View, View', [RefsNext]_refsVars
  PROVE  [Shared!Next]_(Shared!vars)
<1>1. CASE GC
  <2>1. \A c \in InUse : refs'[c] = refs[c]
    <3>1. /\ refs' = [c \in Closure \cup {Main} |-> IF c \in Reached THEN refs[c] ELSE <<>>]
          /\ refs[Main] = <<>>
      BY <1>1 DEF GC, IInv, Types
    <3>2. \A c \in InUse : c \in Closure \cup {Main} /\ (c \in Reached \/ c = Main)
      BY HeldBy DEF InUse, Reached
    <3> QED
      BY <3>1, <3>2
  <2>2. UNCHANGED <<Depth, live, InUse, Captured, frames>>
    BY <1>1, <2>1 DEF GC, Depth, InUse, Captured
  <2>3. \A r \in Captured : pv'[r] = pv[r]
    BY <1>1, HeldBy DEF GC
  <2> QED
    BY <2>1, <2>2, <2>3, Unseen
<1>2. ASSUME NEW f \in Closure \cup {Main}, Call(f)
      PROVE  Shared!Next
  BY <1>2, CallRefines DEF Shared!Next
<1>3. ASSUME NEW x \in Var, NEW v \in Val, PutLoc(x, v)
      PROVE  Shared!Next
  BY <1>3, PutLocRefines DEF Shared!Next
<1>4. ASSUME NEW i \in 1 .. Cardinality(VarRef), NEW v \in Val, PutVarRef(i, v)
      PROVE  Shared!Next
  BY <1>4, PutVarRefRefines DEF Shared!Next
<1>5. ASSUME NEW caps \in Captures, js_closure(caps)
      PROVE  UNCHANGED Shared!vars
  <2>1. UNCHANGED <<frames, pv, live, InUse, Captured, Depth>> /\ \A c \in InUse : refs'[c] = refs[c]
    BY <1>5, ClosureInv DEF Depth
  <2> QED
    BY <2>1, Unseen
<1>6. CASE CaptureExisting
  <2>1. UNCHANGED <<frames, pv, live, InUse, Captured, Depth>> /\ \A c \in InUse : refs'[c] = refs[c]
    BY <1>6, CaptureExistingInv DEF Depth
  <2> QED
    BY <2>1, Unseen
<1>7. CASE CaptureNew
  <2>1. \A r \in Captured : pv'[r] = pv[r]
    BY <1>7, CaptureNewInv, HeldBy
  <2> QED
    BY <1>7, <2>1, CaptureNewInv, Unseen
<1>8. CASE CaptureFails
  <2>1. UNCHANGED <<frames, pv, refs, live, Depth, InUse, Captured>>
    BY <1>8 DEF CaptureFails, Depth, InUse, Captured
  <2> QED
    BY <2>1, Unseen
<1>9. CASE ClosureMade
  BY <1>9, ClosureMadeRefines DEF Shared!Next
<1>10. CASE Return
  BY <1>10, ReturnRefines DEF Shared!Next
<1>11. ASSUME NEW c \in Closure, Drop(c)
       PROVE  Shared!Next
  BY <1>11, DropRefines DEF Shared!Next
<1>12. CASE UNCHANGED refsVars
  <2>1. UNCHANGED <<frames, pv, refs, live, Depth, InUse, Captured>>
    BY <1>12 DEF refsVars, Depth, InUse, Captured
  <2> QED
    BY <2>1, Unseen
<1> QED
  BY <1>1, <1>2, <1>3, <1>4, <1>5, <1>6, <1>7, <1>8, <1>9, <1>10, <1>11, <1>12 DEF RefsNext

\* Closures share variables as SharedVars says, for all programs: through calls,
\* returns, exceptions, failing allocations and collections.
THEOREM VariablesAreShared ==
  ASSUME VarRefsAssumption
  PROVE  RefsSpec => SharesVariables
<1>1. RefsInit => Shared!Init
  BY InitRefines
<1>2. IInv => View
  BY ViewHolds
<1>3. IInv /\ IInv' /\ View /\ View' /\ [RefsNext]_refsVars => [Shared!Next]_(Shared!vars)
  BY StepRefines
<1> QED
  BY <1>1, <1>2, <1>3, Invariance, PTL DEF RefsSpec, SharesVariables, Shared!Spec
=============================================================================
