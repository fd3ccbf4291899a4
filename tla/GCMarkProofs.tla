---------------------------- MODULE GCMarkProofs ----------------------------
(***************************************************************************)
(* What the mark phase computes, for every heap, every root sequence and   *)
(* every mark stack of at least two words: the theorem MarkIsExact.  The   *)
(* argument is the tricolour invariant of GCMark with four facts about the *)
(* roots, the mark stack and the phases that make it inductive.            *)
(***************************************************************************)
EXTENDS GCMark, TLAPS

\* GCMark!TypeOK without the bound on gsp, which is no part of this argument.
Types ==
  /\ heap \in [block : [Block -> [mtag : MTag, refs : Seq(Val)]],
               root : Seq(Val)]
  /\ roots \in Seq(Val)
  /\ marked \in SUBSET Block
  /\ stack \in Seq([blk : Block, pos : Nat \ {0}])
  /\ gsp \in Int
  /\ todo \in Seq(Val)
  /\ overflow \in BOOLEAN
  /\ phase \in {"roots", "scan", "done"}
  /\ scan \in 1 .. (NBlocks + 1)

\* Only reachable blocks are marked, or wait to be.
OnlyReachable ==
  /\ marked \subseteq Reachable
  /\ \A k \in DOMAIN stack : stack[k].blk \in marked
                             /\ mtag_has_references(stack[k].blk)
  /\ \A v \in Range(todo) : v \in Block => v \in Reachable
  /\ \A v \in Range(roots) : v \in Block => v \in Reachable

\* No root is forgotten.
RootsSeen ==
  \A i \in DOMAIN heap.root : heap.root[i] \in Block =>
    \/ heap.root[i] \in marked
    \/ heap.root[i] \in Range(todo)
    \/ heap.root[i] \in Range(roots)

Phases ==
  /\ phase # "roots" => roots = <<>>
  /\ phase = "done" => Idle /\ ~overflow

IInv == Types /\ OnlyReachable /\ RootsSeen /\ Tricolor /\ Phases
-----------------------------------------------------------------------------
(* Reachability.                                                           *)

\* The blocks the roots name are reachable.
LEMMA RootReachable ==
  ASSUME NEW i \in DOMAIN heap.root, heap.root[i] \in Block
  PROVE  heap.root[i] \in Reachable
BY DEF Reachable, Closed

\* What a reachable block refers to is reachable.
LEMMA RefReachable ==
  ASSUME NEW b \in Reachable, mtag_has_references(b),
         NEW i \in DOMAIN Refs(b), Refs(b)[i] \in Block
  PROVE  Refs(b)[i] \in Reachable
BY DEF Reachable, Closed

\* A closed set of blocks holds every reachable block.
LEMMA ReachableLeast ==
  ASSUME NEW S \in SUBSET Block, Closed(S)
  PROVE  Reachable \subseteq S
BY DEF Reachable

\* The mark phase leaves the heap alone, so reachability does not change.
LEMMA ReachableStable ==
  ASSUME heap' = heap
  PROVE  /\ Reachable' = Reachable
         /\ \A b : mtag_has_references(b)' = mtag_has_references(b)
         /\ \A b : Refs(b)' = Refs(b)
         /\ \A b : IsArray(b)' = IsArray(b)
<1>1. \A S : Closed(S)' = Closed(S)
  BY DEF Closed, mtag_has_references, Refs
<1> QED
  BY <1>1 DEF Reachable, mtag_has_references, Refs, IsArray
-----------------------------------------------------------------------------
(* Sequences, as the mark stack and the pending fields use them.           *)

LEMMA HeadTail ==
  ASSUME NEW S, NEW s \in Seq(S), s # <<>>
  PROVE  /\ Head(s) \in S
         /\ Tail(s) \in Seq(S)
         /\ \A x \in Range(s) : x = Head(s) \/ x \in Range(Tail(s))
         /\ \A x \in Range(Tail(s)) : x \in Range(s)
         /\ Head(s) \in Range(s)
         /\ \A k \in DOMAIN s : k = 1 \/ (k - 1 \in DOMAIN Tail(s)
                                           /\ Tail(s)[k - 1] = s[k])
         /\ \A k \in DOMAIN Tail(s) : k + 1 \in DOMAIN s
                                      /\ Tail(s)[k] = s[k + 1]
<1>1. /\ Head(s) \in S /\ Tail(s) \in Seq(S)
      /\ Head(s) = s[1] /\ 1 \in DOMAIN s
      /\ Len(Tail(s)) = Len(s) - 1
      /\ DOMAIN s = 1 .. Len(s) /\ DOMAIN Tail(s) = 1 .. Len(Tail(s))
      /\ Len(s) \in Nat
  OBVIOUS
<1>2. \A k \in DOMAIN Tail(s) : k + 1 \in DOMAIN s /\ Tail(s)[k] = s[k + 1]
  BY <1>1
<1>3. \A k \in DOMAIN s : k = 1 \/ (k - 1 \in DOMAIN Tail(s)
                                     /\ Tail(s)[k - 1] = s[k])
  BY <1>1, <1>2
<1>4. \A x \in Range(s) : x = Head(s) \/ x \in Range(Tail(s))
  BY <1>1, <1>3 DEF Range
<1>5. \A x \in Range(Tail(s)) : x \in Range(s)
  BY <1>2 DEF Range
<1> QED
  BY <1>1, <1>2, <1>3, <1>4, <1>5 DEF Range

LEMMA Singleton ==
  ASSUME NEW S, NEW e \in S
  PROVE  <<e>> \in Seq(S)
OBVIOUS

LEMMA PushFront ==
  ASSUME NEW S, NEW s \in Seq(S), NEW e \in S
  PROVE  /\ <<e>> \o s \in Seq(S)
         /\ 1 \in DOMAIN (<<e>> \o s)
         /\ (<<e>> \o s)[1] = e
         /\ \A k \in DOMAIN s : k + 1 \in DOMAIN (<<e>> \o s)
                                /\ (<<e>> \o s)[k + 1] = s[k]
         /\ \A k \in DOMAIN (<<e>> \o s) :
              k = 1 \/ (k - 1 \in DOMAIN s /\ (<<e>> \o s)[k] = s[k - 1])
OBVIOUS
-----------------------------------------------------------------------------
(* The invariant holds at first and every action preserves it.             *)

LEMMA InitInv == Init => IInv
<1> SUFFICES ASSUME Init PROVE IInv
  OBVIOUS
<1>1. Types
  <2>1. /\ heap \in [block : [Block -> [mtag : MTag, refs : Seq(Val)]],
                     root : Seq(Val)]
        /\ heap.root \in Seq(Val)
    BY BlocksAssumption, RootsAssumption DEF Init, Heaps
  <2>2. 1 \in 1 .. (NBlocks + 1) /\ GsSize \in Int
    BY NBlocksAssumption, GsSizeAssumption
  <2>3. todo \in Seq(Val) /\ stack \in Seq([blk : Block, pos : Nat \ {0}])
    BY DEF Init
  <2> QED
    BY <2>1, <2>2, <2>3 DEF Init, Types
<1>2. OnlyReachable
  BY RootReachable DEF Init, OnlyReachable, Range
<1>3. RootsSeen /\ Tricolor /\ Phases
  BY DEF Init, RootsSeen, Tricolor, Phases, Range
<1> QED
  BY <1>1, <1>2, <1>3 DEF IInv

LEMMA MarkRootInv == IInv /\ MarkRoot => IInv'
<1> SUFFICES ASSUME IInv, MarkRoot PROVE IInv'
  OBVIOUS
<1> USE DEF IInv, MarkRoot, Idle
<1>1. heap' = heap
  OBVIOUS
<1>2. /\ Head(roots) \in Val /\ Tail(roots) \in Seq(Val)
      /\ \A x \in Range(roots) : x = Head(roots) \/ x \in Range(Tail(roots))
      /\ \A x \in Range(Tail(roots)) : x \in Range(roots)
      /\ Head(roots) \in Range(roots)
  BY HeadTail, roots # <<>> DEF Types
<1>3. Range(todo') = {Head(roots)} /\ Range(todo) = {}
  BY DEF Range
<1>4. Types'
  BY <1>2 DEF Types
<1>5. OnlyReachable'
  BY <1>1, <1>2, <1>3, ReachableStable DEF OnlyReachable
<1>6. RootsSeen'
  BY <1>2, <1>3 DEF RootsSeen
<1>7. Tricolor'
  BY <1>1, ReachableStable, todo = <<>> DEF Tricolor, Waits, Range
<1>8. Phases'
  BY DEF Phases
<1> QED
  BY <1>4, <1>5, <1>6, <1>7, <1>8

LEMMA SkipInv == IInv /\ Skip => IInv'
<1> SUFFICES ASSUME IInv, Skip PROVE IInv'
  OBVIOUS
<1> USE DEF IInv, Skip
<1>1. heap' = heap
  OBVIOUS
<1>2. /\ Tail(todo) \in Seq(Val)
      /\ \A x \in Range(todo) : x = Head(todo) \/ x \in Range(Tail(todo))
      /\ \A x \in Range(Tail(todo)) : x \in Range(todo)
  BY HeadTail, todo # <<>> DEF Types
<1>3. \A x \in Range(todo) \cap Block : x \in marked \/ x \in Range(todo')
  BY <1>2, ImmAssumption
<1>4. Types'
  BY <1>2 DEF Types
<1>5. OnlyReachable'
  BY <1>1, <1>2, ReachableStable DEF OnlyReachable
<1>6. RootsSeen'
  BY <1>3 DEF RootsSeen
<1>7. Tricolor'
  <2> SUFFICES ASSUME NEW b \in marked, mtag_has_references(b),
                      ~overflow, ~(phase = "scan" /\ b >= scan),
                      NEW i \in DOMAIN Refs(b), Refs(b)[i] \in Block
               PROVE  Refs(b)[i] \in marked \/ Refs(b)[i] \in Range(todo')
                        \/ Waits(b, i)
    BY <1>1, ReachableStable DEF Tricolor, Waits
  <2> QED
    BY <1>3 DEF Tricolor
<1>8. Phases'
  BY DEF Phases, Idle
<1> QED
  BY <1>4, <1>5, <1>6, <1>7, <1>8

LEMMA MarkInv == IInv /\ Mark => IInv'
<1> SUFFICES ASSUME IInv, Mark PROVE IInv'
  OBVIOUS
<1> USE DEF IInv, Mark
<1> DEFINE h == Head(todo)
<1>1. heap' = heap
  OBVIOUS
<1>2. /\ Tail(todo) \in Seq(Val)
      /\ \A x \in Range(todo) : x = h \/ x \in Range(Tail(todo))
      /\ \A x \in Range(Tail(todo)) : x \in Range(todo)
      /\ h \in Range(todo)
  BY HeadTail, todo # <<>> DEF Types
<1>3. /\ marked' = marked \cup {h} /\ todo' = Tail(todo)
      /\ h \in Block /\ PushOrOverflow(h)
  OBVIOUS
<1>4. \A x \in Range(todo) : x \in marked' \/ x \in Range(todo')
  BY <1>2, <1>3
<1>5. h \in Reachable
  BY <1>2, <1>3 DEF OnlyReachable
\* The mark stack keeps what it has; h is on it from index 1 on, or need not
\* be, or the overflow is noted.
<1>6. /\ stack' \in Seq([blk : Block, pos : Nat \ {0}])
      /\ gsp' \in Int /\ overflow' \in BOOLEAN
      /\ \A k \in DOMAIN stack : \E l \in DOMAIN stack' : stack'[l] = stack[k]
      /\ \A l \in DOMAIN stack' :
           \/ \E k \in DOMAIN stack : stack[k] = stack'[l]
           \/ stack'[l].blk = h /\ mtag_has_references(h)
      /\ overflow => overflow'
      /\ \/ ~mtag_has_references(h)
         \/ overflow'
         \/ \E l \in DOMAIN stack' : stack'[l] = [blk |-> h, pos |-> 1]
  <2>1. CASE stack' = <<Entry(h, 1)>> \o stack /\ mtag_has_references(h)
             /\ gsp' = gsp - EntrySize(h) /\ UNCHANGED overflow
    <3>1. Entry(h, 1) \in [blk : Block, pos : Nat \ {0}]
      BY <1>3 DEF Entry
    <3>2. gsp' \in Int
      BY <2>1 DEF Types, EntrySize
    <3>3. /\ stack \in Seq([blk : Block, pos : Nat \ {0}])
          /\ overflow \in BOOLEAN
      BY DEF Types
    <3>4. /\ stack' \in Seq([blk : Block, pos : Nat \ {0}])
          /\ 1 \in DOMAIN stack' /\ stack'[1] = Entry(h, 1)
          /\ \A k \in DOMAIN stack : k + 1 \in DOMAIN stack'
                                    /\ stack'[k + 1] = stack[k]
          /\ \A k \in DOMAIN stack' :
               k = 1 \/ (k - 1 \in DOMAIN stack /\ stack'[k] = stack[k - 1])
      <4> DEFINE E == [blk : Block, pos : Nat \ {0}]
                 e == Entry(h, 1)
      <4>1. e \in E /\ stack \in Seq(E) /\ stack' = <<e>> \o stack
        BY <2>1, <3>1, <3>3
      <4> HIDE DEF E, e
      <4>2. /\ stack' \in Seq(E)
            /\ 1 \in DOMAIN stack' /\ stack'[1] = e
            /\ \A k \in DOMAIN stack : k + 1 \in DOMAIN stack'
                                      /\ stack'[k + 1] = stack[k]
            /\ \A k \in DOMAIN stack' :
                 k = 1 \/ (k - 1 \in DOMAIN stack /\ stack'[k] = stack[k - 1])
        BY <4>1, PushFront
      <4> QED
        BY <4>2 DEF E, e
    <3>5. Entry(h, 1) = [blk |-> h, pos |-> 1] /\ Entry(h, 1).blk = h
      BY DEF Entry
    <3> QED
      BY <2>1, <3>2, <3>3, <3>4, <3>5
  <2>2. CASE UNCHANGED <<stack, gsp>> /\ overflow' = TRUE
    BY <2>2 DEF Types
  <2>3. CASE UNCHANGED <<stack, gsp, overflow>> /\ ~mtag_has_references(h)
    BY <2>3 DEF Types
  <2> QED
    BY <1>3, <2>1, <2>2, <2>3 DEF PushOrOverflow
<1>7. Types'
  BY <1>2, <1>3, <1>6 DEF Types
<1>8. OnlyReachable'
  BY <1>1, <1>2, <1>3, <1>5, <1>6, ReachableStable DEF OnlyReachable
<1>9. RootsSeen'
  BY <1>1, <1>3, <1>4 DEF RootsSeen
<1>10. Tricolor'
  <2> SUFFICES ASSUME NEW b \in marked', mtag_has_references(b),
                      ~overflow', ~(phase = "scan" /\ b >= scan),
                      NEW i \in DOMAIN Refs(b), Refs(b)[i] \in Block
               PROVE  Refs(b)[i] \in marked' \/ Refs(b)[i] \in Range(todo')
                        \/ Waits(b, i)'
    BY <1>1, ReachableStable DEF Tricolor
  <2>1. CASE b \in marked
    <3>1. \/ Refs(b)[i] \in marked
          \/ Refs(b)[i] \in Range(todo)
          \/ Waits(b, i)
      BY <1>6, <2>1 DEF Tricolor
    <3>2. Waits(b, i) => Waits(b, i)'
      BY <1>6 DEF Waits
    <3> QED
      BY <1>3, <1>4, <3>1, <3>2
  <2>2. CASE b = h
    <3>1. i >= 1
      BY <1>3 DEF Types, Refs
    <3>2. PICK l \in DOMAIN stack' : stack'[l] = [blk |-> h, pos |-> 1]
      BY <1>6, <2>2
    <3> QED
      BY <3>1, <3>2, <2>2 DEF Waits
  <2> QED
    BY <1>3, <2>1, <2>2
<1>11. Phases'
  BY DEF Phases, Idle
<1> QED
  BY <1>7, <1>8, <1>9, <1>10, <1>11

LEMMA FlushObjectInv == IInv /\ FlushObject => IInv'
<1> SUFFICES ASSUME IInv, FlushObject PROVE IInv'
  OBVIOUS
<1> DEFINE e == Head(stack)
           E == [blk : Block, pos : Nat \ {0}]
<1>1. /\ heap' = heap /\ marked' = marked /\ overflow' = overflow
      /\ phase' = phase /\ scan' = scan /\ roots' = roots
      /\ todo = <<>> /\ todo' = Refs(e.blk) /\ stack # <<>>
      /\ stack' = Tail(stack) /\ gsp' = gsp + 1
  BY DEF FlushObject
<1>2. stack \in Seq(E)
  BY DEF IInv, Types
<1>3. /\ e \in E /\ Tail(stack) \in Seq(E)
      /\ \A k \in DOMAIN stack : k = 1 \/ (k - 1 \in DOMAIN Tail(stack)
                                     /\ Tail(stack)[k - 1] = stack[k])
      /\ \A k \in DOMAIN Tail(stack) : k + 1 \in DOMAIN stack
                                      /\ Tail(stack)[k] = stack[k + 1]
      /\ 1 \in DOMAIN stack /\ stack[1] = e
  <2> HIDE DEF E
  <2> QED
    BY <1>1, <1>2, HeadTail
<1>4. e.blk \in marked /\ mtag_has_references(e.blk) /\ e.blk \in Reachable
  BY <1>3 DEF IInv, OnlyReachable
<1>5. Refs(e.blk) \in Seq(Val)
  BY <1>3 DEF IInv, Types, Refs
<1>6. \A v \in Range(todo') : v \in Block => v \in Reachable
  BY <1>1, <1>4, RefReachable DEF Range
<1>7. Types'
  BY <1>1, <1>3, <1>5 DEF IInv, Types
<1>8. OnlyReachable'
  BY <1>1, <1>3, <1>6, ReachableStable DEF IInv, OnlyReachable
<1>9. RootsSeen'
  <2>1. Range(todo) = {}
    BY <1>1 DEF Range
  <2> QED
    BY <1>1, <2>1 DEF IInv, RootsSeen
<1>10. Tricolor'
  <2> SUFFICES ASSUME NEW b \in marked, mtag_has_references(b),
                      ~overflow, ~(phase = "scan" /\ b >= scan),
                      NEW i \in DOMAIN Refs(b), Refs(b)[i] \in Block
               PROVE  Refs(b)[i] \in marked \/ Refs(b)[i] \in Range(todo')
                        \/ Waits(b, i)'
    BY <1>1, ReachableStable DEF Tricolor
  <2>1. \/ Refs(b)[i] \in marked
        \/ Waits(b, i)
    <3>1. Range(todo) = {}
      BY <1>1 DEF Range
    <3> QED
      BY <3>1 DEF IInv, Tricolor
  <2>2. CASE b = e.blk
    BY <1>1, <2>2 DEF Range
  <2>3. CASE b # e.blk /\ Waits(b, i)
    BY <1>1, <1>3, <2>3 DEF Waits
  <2> QED
    BY <2>1, <2>2, <2>3
<1>11. Phases'
  BY <1>1 DEF IInv, Phases, Idle
<1> QED
  BY <1>7, <1>8, <1>9, <1>10, <1>11 DEF IInv

LEMMA FlushArrayInv == IInv /\ FlushArray => IInv'
<1> SUFFICES ASSUME IInv, FlushArray PROVE IInv'
  OBVIOUS
<1> DEFINE e == Head(stack)
           E == [blk : Block, pos : Nat \ {0}]
           rest == Tail(stack)
<1>1. /\ heap' = heap /\ marked' = marked /\ overflow' = overflow
      /\ phase' = phase /\ scan' = scan /\ roots' = roots
      /\ todo = <<>> /\ stack # <<>>
  BY DEF FlushArray
<1>2. stack \in Seq(E)
  BY DEF IInv, Types
<1>3. /\ e \in E /\ rest \in Seq(E)
      /\ \A k \in DOMAIN stack : k = 1 \/ (k - 1 \in DOMAIN rest
                                     /\ rest[k - 1] = stack[k])
      /\ \A k \in DOMAIN rest : k + 1 \in DOMAIN stack
                                      /\ rest[k] = stack[k + 1]
      /\ 1 \in DOMAIN stack /\ stack[1] = e
  <2> HIDE DEF E
  <2> QED
    BY <1>1, <1>2, HeadTail
<1>4. e.blk \in marked /\ mtag_has_references(e.blk) /\ e.blk \in Reachable
  BY <1>3 DEF IInv, OnlyReachable
<1>5. /\ Refs(e.blk) \in Seq(Val) /\ e.blk \in Block
      /\ e.pos \in Nat \ {0} /\ gsp \in Int
      /\ DOMAIN Refs(e.blk) = 1 .. Len(Refs(e.blk)) /\ Len(Refs(e.blk)) \in Nat
  BY <1>3 DEF IInv, Types, Refs
\* What is left on the stack: the entries below, and the array itself when
\* elements follow.  What is to be visited: one element, or none.
<1> DEFINE Flushed ==
      /\ stack' \in Seq(E) /\ todo' \in Seq(Val) /\ gsp' \in Int
      /\ \A k \in DOMAIN rest : \E l \in DOMAIN stack' : stack'[l] = rest[k]
      /\ \A l \in DOMAIN stack' : \/ \E k \in DOMAIN rest : rest[k] = stack'[l]
                                 \/ stack'[l].blk = e.blk
      /\ \A v \in Range(todo') : \E i \in DOMAIN Refs(e.blk) : v = Refs(e.blk)[i]
      /\ \A i \in DOMAIN Refs(e.blk) : i >= e.pos =>
           \/ Refs(e.blk)[i] = Imm
           \/ Refs(e.blk)[i] \in Range(todo')
           \/ \E l \in DOMAIN stack' : stack'[l].blk = e.blk /\ stack'[l].pos <= i
<1>6. Flushed
  <2>1. ASSUME NEW j \in e.pos .. Len(Refs(e.blk)),
               \A k \in e.pos .. (j - 1) : Refs(e.blk)[k] = Imm,
               NextOfArray(e.blk, j), todo' = <<Refs(e.blk)[j]>>
        PROVE  Flushed
    <3>1. j \in DOMAIN Refs(e.blk) /\ j \in Nat \ {0} /\ Refs(e.blk)[j] \in Val
      BY <1>5
    <3>2. todo' \in Seq(Val) /\ Range(todo') = {Refs(e.blk)[j]}
      BY <2>1, <3>1 DEF Range
    <3>3. \A i \in DOMAIN Refs(e.blk) : i >= e.pos =>
            \/ Refs(e.blk)[i] = Imm
            \/ Refs(e.blk)[i] \in Range(todo')
            \/ i >= j + 1
      BY <1>5, <2>1, <3>1, <3>2
    <3>4. CASE j + 1 <= Len(Refs(e.blk))
      <4> DEFINE f == Entry(e.blk, j + 1)
      <4>1. stack' = <<f>> \o rest /\ gsp' = gsp
        BY <2>1, <3>4 DEF NextOfArray
      <4>2. f \in E /\ f.blk = e.blk /\ f.pos = j + 1
        BY <1>5, <3>1 DEF Entry
      <4> HIDE DEF E, f
      <4>3. /\ stack' \in Seq(E) /\ 1 \in DOMAIN stack' /\ stack'[1] = f
            /\ \A k \in DOMAIN rest : k + 1 \in DOMAIN stack'
                                     /\ stack'[k + 1] = rest[k]
            /\ \A k \in DOMAIN stack' :
                 k = 1 \/ (k - 1 \in DOMAIN rest /\ stack'[k] = rest[k - 1])
        BY <1>3, <4>1, <4>2, PushFront
      <4> QED
        BY <1>5, <3>1, <3>2, <3>3, <4>1, <4>2, <4>3
    <3>5. CASE ~(j + 1 <= Len(Refs(e.blk)))
      <4>1. stack' = rest /\ gsp' = gsp + 2
        BY <2>1, <3>5 DEF NextOfArray
      <4>2. \A i \in DOMAIN Refs(e.blk) : ~(i >= j + 1)
        BY <1>5, <3>1, <3>5
      <4> HIDE DEF E
      <4> QED
        BY <1>3, <1>5, <3>1, <3>2, <3>3, <4>1, <4>2
    <3> QED
      BY <3>4, <3>5
  <2>2. ASSUME \A k \in e.pos .. Len(Refs(e.blk)) : Refs(e.blk)[k] = Imm,
               stack' = rest, gsp' = gsp + 2, todo' = <<>>
        PROVE  Flushed
    <3>1. Range(todo') = {} /\ todo' \in Seq(Val)
      BY <2>2 DEF Range
    <3>2. \A i \in DOMAIN Refs(e.blk) : i >= e.pos => Refs(e.blk)[i] = Imm
      BY <1>5, <2>2
    <3> HIDE DEF E
    <3> QED
      BY <1>3, <1>5, <2>2, <3>1, <3>2
  <2>3. \/ \E j \in e.pos .. Len(Refs(e.blk)) :
             /\ \A k \in e.pos .. (j - 1) : Refs(e.blk)[k] = Imm
             /\ NextOfArray(e.blk, j) /\ todo' = <<Refs(e.blk)[j]>>
        \/ /\ \A k \in e.pos .. Len(Refs(e.blk)) : Refs(e.blk)[k] = Imm
           /\ stack' = rest /\ gsp' = gsp + 2 /\ todo' = <<>>
    BY DEF FlushArray
  <2>4. CASE \E j \in e.pos .. Len(Refs(e.blk)) :
             /\ \A k \in e.pos .. (j - 1) : Refs(e.blk)[k] = Imm
             /\ NextOfArray(e.blk, j) /\ todo' = <<Refs(e.blk)[j]>>
    <3>1. PICK j \in e.pos .. Len(Refs(e.blk)) :
             /\ \A k \in e.pos .. (j - 1) : Refs(e.blk)[k] = Imm
             /\ NextOfArray(e.blk, j) /\ todo' = <<Refs(e.blk)[j]>>
      BY <2>4
    <3> HIDE DEF Flushed
    <3> QED
      BY <3>1, <2>1
  <2> HIDE DEF Flushed
  <2> QED
    BY <2>2, <2>3, <2>4
<1>7. Types'
  BY <1>1, <1>6 DEF IInv, Types
<1>8. OnlyReachable'
  <2>1. \A v \in Range(todo') : v \in Block => v \in Reachable
    BY <1>4, <1>6, RefReachable
  <2>2. \A l \in DOMAIN stack' : stack'[l].blk \in marked
                               /\ mtag_has_references(stack'[l].blk)
    <3>1. \A k \in DOMAIN rest : rest[k].blk \in marked
                               /\ mtag_has_references(rest[k].blk)
      BY <1>3 DEF IInv, OnlyReachable
    <3> HIDE DEF rest
    <3> QED
      BY <1>4, <1>6, <3>1
  <2> QED
    BY <1>1, <2>1, <2>2, ReachableStable DEF IInv, OnlyReachable
<1>9. RootsSeen'
  <2>1. Range(todo) = {}
    BY <1>1 DEF Range
  <2> QED
    BY <1>1, <2>1 DEF IInv, RootsSeen
<1>10. Tricolor'
  <2> SUFFICES ASSUME NEW b \in marked, mtag_has_references(b),
                      ~overflow, ~(phase = "scan" /\ b >= scan),
                      NEW i \in DOMAIN Refs(b), Refs(b)[i] \in Block
               PROVE  Refs(b)[i] \in marked \/ Refs(b)[i] \in Range(todo')
                        \/ Waits(b, i)'
    BY <1>1, ReachableStable DEF Tricolor
  <2>1. Refs(b)[i] \in marked \/ Waits(b, i)
    <3>1. Range(todo) = {}
      BY <1>1 DEF Range
    <3> QED
      BY <3>1 DEF IInv, Tricolor
  <2>2. CASE Waits(b, i)
    <3>1. PICK k \in DOMAIN stack : stack[k].blk = b /\ stack[k].pos <= i
      BY <2>2 DEF Waits
    <3>2. CASE k = 1
      <4>1. b = e.blk /\ i \in DOMAIN Refs(e.blk) /\ i >= e.pos
        BY <1>3, <1>5, <3>1, <3>2
      <4> QED
        BY <1>6, <4>1, ImmAssumption DEF Waits
    <3>3. CASE k # 1
      <4>1. \E l \in DOMAIN stack' : stack'[l] = stack[k]
        <5>1. k - 1 \in DOMAIN rest /\ rest[k - 1] = stack[k]
          BY <1>3, <3>3
        <5> HIDE DEF rest
        <5> QED
          BY <1>6, <5>1
      <4> QED
        BY <3>1, <4>1 DEF Waits
    <3> QED
      BY <3>2, <3>3
  <2> QED
    BY <2>1, <2>2
<1>11. Phases'
  BY <1>1 DEF IInv, Phases, Idle
<1> QED
  BY <1>7, <1>8, <1>9, <1>10, <1>11 DEF IInv

LEMMA StartScanInv == IInv /\ StartScan => IInv'
<1> SUFFICES ASSUME IInv, StartScan PROVE IInv'
  OBVIOUS
<1>1. /\ heap' = heap /\ overflow' = FALSE /\ phase' = "scan" /\ scan' = 1
      /\ UNCHANGED <<roots, marked, stack, gsp, todo>> /\ Idle
      /\ roots = <<>>
  BY DEF StartScan, IInv, Phases
<1>2. Types'
  <2>1. scan' \in 1 .. (NBlocks + 1) /\ phase' \in {"roots", "scan", "done"}
    BY <1>1, NBlocksAssumption
  <2> QED
    BY <1>1, <2>1 DEF IInv, Types
<1>3. OnlyReachable'
  BY <1>1, ReachableStable DEF IInv, OnlyReachable
<1>4. RootsSeen'
  BY <1>1 DEF IInv, RootsSeen
<1>5. Tricolor'
  <2>1. \A b \in marked : b >= scan'
    BY <1>1 DEF IInv, Types, Block
  <2> QED
    BY <1>1, <2>1 DEF Tricolor
<1>6. Phases'
  BY <1>1 DEF Phases
<1> QED
  BY <1>2, <1>3, <1>4, <1>5, <1>6 DEF IInv

LEMMA ScanBlockInv == IInv /\ ScanBlock => IInv'
<1> SUFFICES ASSUME IInv, ScanBlock PROVE IInv'
  OBVIOUS
<1>1. /\ heap' = heap /\ overflow' = overflow /\ phase' = phase
      /\ phase = "scan" /\ scan' = scan + 1 /\ scan <= NBlocks
      /\ UNCHANGED <<roots, marked, todo>> /\ todo = <<>> /\ stack = <<>>
  BY DEF ScanBlock, Idle
<1>2. scan \in Block /\ scan' \in 1 .. (NBlocks + 1)
  BY <1>1, NBlocksAssumption DEF IInv, Types, Block
<1>3. \/ /\ scan \in marked /\ mtag_has_references(scan)
         /\ stack' = <<Entry(scan, 1)>> /\ gsp' = gsp - EntrySize(scan)
      \/ /\ ~(scan \in marked /\ mtag_has_references(scan))
         /\ stack' = stack /\ gsp' = gsp
  BY DEF ScanBlock
<1>4. Types'
  <2>1. Entry(scan, 1) \in [blk : Block, pos : Nat \ {0}]
    BY <1>2 DEF Entry
  <2>2. stack' \in Seq([blk : Block, pos : Nat \ {0}])
    <3> DEFINE E == [blk : Block, pos : Nat \ {0}]
               f == Entry(scan, 1)
    <3>1. f \in E /\ stack \in Seq(E) /\ (stack' = <<f>> \/ stack' = stack)
      BY <1>3, <2>1 DEF IInv, Types
    <3> HIDE DEF E, f
    <3>2. stack' \in Seq(E)
      BY <3>1, Singleton
    <3> QED
      BY <3>2 DEF E
  <2>3. gsp' \in Int
    BY <1>3 DEF IInv, Types, EntrySize
  <2> QED
    BY <1>1, <1>2, <2>2, <2>3 DEF IInv, Types
<1>5. OnlyReachable'
  <2>1. \A k \in DOMAIN stack' : stack'[k].blk \in marked
                               /\ mtag_has_references(stack'[k].blk)
    BY <1>1, <1>3 DEF Entry
  <2> QED
    BY <1>1, <2>1, ReachableStable DEF IInv, OnlyReachable
<1>6. RootsSeen'
  BY <1>1 DEF IInv, RootsSeen
<1>7. Tricolor'
  <2> SUFFICES ASSUME NEW b \in marked, mtag_has_references(b),
                      ~overflow, ~(b >= scan + 1),
                      NEW i \in DOMAIN Refs(b), Refs(b)[i] \in Block
               PROVE  Refs(b)[i] \in marked \/ Refs(b)[i] \in Range(todo)
                        \/ Waits(b, i)'
    BY <1>1, ReachableStable DEF Tricolor
  <2>1. CASE b = scan
    <3>1. stack' = <<Entry(scan, 1)>>
      BY <1>3, <2>1
    <3>2. 1 \in DOMAIN stack' /\ stack'[1].blk = b /\ stack'[1].pos = 1
      BY <2>1, <3>1 DEF Entry
    <3>3. i >= 1
      <4>1. Refs(b) \in Seq(Val)
        BY <2>1, <1>2 DEF IInv, Types, Refs
      <4> QED
        BY <4>1
    <3> QED
      BY <3>2, <3>3 DEF Waits
  <2>2. CASE b # scan
    <3>1. ~(b >= scan)
      BY <2>2, <1>2 DEF IInv, Types, Block
    <3>2. ~Waits(b, i)
      BY <1>1 DEF Waits
    <3> QED
      BY <3>1, <3>2 DEF IInv, Tricolor
  <2> QED
    BY <2>1, <2>2
<1>8. Phases'
  BY <1>1 DEF IInv, Phases
<1> QED
  BY <1>4, <1>5, <1>6, <1>7, <1>8 DEF IInv

LEMMA MarkDoneInv == IInv /\ MarkDone => IInv'
<1> SUFFICES ASSUME IInv, MarkDone PROVE IInv'
  OBVIOUS
<1>1. /\ heap' = heap /\ phase' = "done" /\ Idle /\ ~overflow
      /\ UNCHANGED <<roots, marked, stack, gsp, todo, overflow, scan>>
      /\ phase = "roots" \/ scan = NBlocks + 1
      /\ roots = <<>>
  BY DEF MarkDone, IInv, Phases
<1>2. Types'
  BY <1>1 DEF IInv, Types
<1>3. OnlyReachable'
  BY <1>1, ReachableStable DEF IInv, OnlyReachable
<1>4. RootsSeen'
  BY <1>1 DEF IInv, RootsSeen
<1>5. Tricolor'
  <2>1. \A b \in marked : ~(phase = "scan" /\ b >= scan)
    BY <1>1, NBlocksAssumption DEF IInv, Types, Block
  <2> QED
    BY <1>1, <2>1, ReachableStable DEF IInv, Tricolor, Waits
<1>6. Phases'
  BY <1>1 DEF Phases, Idle
<1> QED
  BY <1>2, <1>3, <1>4, <1>5, <1>6 DEF IInv
-----------------------------------------------------------------------------
(* The theorems.                                                           *)

\* The strengthened invariant holds in every state of the mark phase: the
\* tricolour property, only reachable blocks marked, no root forgotten.
THEOREM Invariance == Spec => []IInv
<1>1. IInv /\ [Next]_vars => IInv'
  <2> SUFFICES ASSUME IInv, [Next]_vars PROVE IInv'
    OBVIOUS
  <2>1. CASE UNCHANGED vars
    <3>1. UNCHANGED <<heap, roots, marked, stack, gsp, todo, overflow, phase, scan>>
      BY <2>1 DEF vars
    <3>2. Types' /\ RootsSeen' /\ Phases'
      BY <3>1 DEF IInv, Types, RootsSeen, Phases, Idle
    <3>3. OnlyReachable' /\ Tricolor'
      BY <3>1, ReachableStable DEF IInv, OnlyReachable, Tricolor, Waits
    <3> QED
      BY <3>2, <3>3 DEF IInv
  <2> QED
    BY <2>1, MarkRootInv, SkipInv, MarkInv, FlushObjectInv, FlushArrayInv,
       StartScanInv, ScanBlockInv, MarkDoneInv DEF Next
<1> QED
  BY InitInv, <1>1, PTL DEF Spec

-----------------------------------------------------------------------------
(* The mark stack stays within the free area.  Each entry takes its words  *)
(* from the room that was left when it was pushed: Levels states this by   *)
(* the rooms from the top entry down to the empty stack.                   *)

Levels ==
  \E L \in [1 .. (Len(stack) + 1) -> Int] :
    /\ L[1] = gsp
    /\ L[Len(stack) + 1] = GsSize
    /\ \A k \in 1 .. Len(stack) : L[k] = L[k + 1] - EntrySize(stack[k].blk)

RoomInv == gsp \in Nat /\ Levels

\* A pushed entry goes on top of the rooms.
LEMMA PushLevels ==
  ASSUME IInv, RoomInv, heap' = heap,
         NEW f \in [blk : Block, pos : Nat \ {0}],
         stack' = <<f>> \o stack, gsp' = gsp - EntrySize(f.blk)
  PROVE  Levels'
<1> DEFINE E == [blk : Block, pos : Nat \ {0}]
<1>1. stack \in Seq(E) /\ Len(stack) \in Nat /\ gsp \in Int
  BY DEF IInv, Types
<1>2. PICK L \in [1 .. (Len(stack) + 1) -> Int] :
        /\ L[1] = gsp
        /\ L[Len(stack) + 1] = GsSize
        /\ \A k \in 1 .. Len(stack) : L[k] = L[k + 1] - EntrySize(stack[k].blk)
  BY DEF RoomInv, Levels
<1>3. /\ Len(stack') = Len(stack) + 1 /\ stack'[1] = f
      /\ \A k \in 2 .. Len(stack') : stack'[k] = stack[k - 1]
  BY <1>1
<1>4. \A b : EntrySize(b)' = EntrySize(b) /\ EntrySize(b) \in Int
  BY DEF EntrySize, IsArray
<1>5. gsp' \in Int
  BY <1>1, <1>4
<1> DEFINE M == [k \in 1 .. (Len(stack') + 1) |-> IF k = 1 THEN gsp' ELSE L[k - 1]]
<1>6. M \in [1 .. (Len(stack') + 1) -> Int]
  BY <1>1, <1>2, <1>3, <1>5
<1>7. M[1] = gsp' /\ M[Len(stack') + 1] = GsSize
  BY <1>1, <1>2, <1>3
<1>8. \A k \in 1 .. Len(stack') : M[k] = M[k + 1] - EntrySize(stack[k].blk)'
  <2> SUFFICES ASSUME NEW k \in 1 .. Len(stack')
               PROVE  M[k] = M[k + 1] - EntrySize(stack'[k].blk)
    BY DEF EntrySize, IsArray
  <2>1. CASE k = 1
    BY <1>1, <1>2, <1>3, <2>1
  <2>2. CASE k # 1
    <3>1. k - 1 \in 1 .. Len(stack) /\ stack'[k] = stack[k - 1]
      BY <1>1, <1>3, <2>2
    <3>2. L[k - 1] = L[(k - 1) + 1] - EntrySize(stack[k - 1].blk)
      BY <1>2, <3>1
    <3>3. M[k] = L[k - 1] /\ M[k + 1] = L[(k - 1) + 1]
      BY <1>1, <1>3, <2>2
    <3> QED
      BY <3>1, <3>2, <3>3
  <2> QED
    BY <2>1, <2>2
<1> HIDE DEF M
<1> QED
  BY <1>6, <1>7, <1>8 DEF Levels

\* A popped entry gives its words back.
LEMMA PopLevels ==
  ASSUME IInv, RoomInv, heap' = heap, stack # <<>>,
         stack' = Tail(stack), gsp' = gsp + EntrySize(Head(stack).blk)
  PROVE  Levels'
<1> DEFINE E == [blk : Block, pos : Nat \ {0}]
<1>1. stack \in Seq(E) /\ Len(stack) \in Nat \ {0} /\ Head(stack) = stack[1]
  BY DEF IInv, Types
<1>2. PICK L \in [1 .. (Len(stack) + 1) -> Int] :
        /\ L[1] = gsp
        /\ L[Len(stack) + 1] = GsSize
        /\ \A k \in 1 .. Len(stack) : L[k] = L[k + 1] - EntrySize(stack[k].blk)
  BY DEF RoomInv, Levels
<1>3. /\ Len(stack') = Len(stack) - 1
      /\ \A k \in 1 .. Len(stack') : stack'[k] = stack[k + 1]
  BY <1>1
<1>4. \A b : EntrySize(b)' = EntrySize(b) /\ EntrySize(b) \in Int
  BY DEF EntrySize, IsArray
<1> DEFINE M == [k \in 1 .. (Len(stack') + 1) |-> L[k + 1]]
<1>5. M \in [1 .. (Len(stack') + 1) -> Int]
  BY <1>1, <1>2, <1>3
<1>6. M[1] = gsp' /\ M[Len(stack') + 1] = GsSize
  <2>1. 1 \in 1 .. Len(stack) /\ L[1] = L[2] - EntrySize(stack[1].blk)
        /\ L[2] \in Int
    <3>1. 1 \in 1 .. Len(stack) /\ 2 \in 1 .. (Len(stack) + 1) /\ 1 + 1 = 2
      <4>1. Len(stack) \in Nat /\ Len(stack) >= 1
        BY <1>1
      <4> HIDE DEF E
      <4> QED
        BY ONLY <4>1
    <3>2. L[2] \in Int
      BY ONLY <3>1, <1>2
    <3>3. L[1] = L[1 + 1] - EntrySize(stack[1].blk)
      BY ONLY <3>1, <1>2
    <3> QED
      BY ONLY <3>1, <3>2, <3>3
  <2>2. gsp' = L[2]
    BY <1>1, <1>2, <1>4, <2>1
  <2>3. M[1] = L[2] /\ M[Len(stack') + 1] = L[Len(stack) + 1]
    BY <1>1, <1>3
  <2> QED
    BY <1>2, <2>2, <2>3
<1>7. \A k \in 1 .. Len(stack') : M[k] = M[k + 1] - EntrySize(stack[k].blk)'
  <2> SUFFICES ASSUME NEW k \in 1 .. Len(stack')
               PROVE  M[k] = M[k + 1] - EntrySize(stack'[k].blk)
    BY DEF EntrySize, IsArray
  <2>1. k + 1 \in 1 .. Len(stack) /\ stack'[k] = stack[k + 1]
    BY <1>1, <1>3
  <2>2. L[k + 1] = L[k + 2] - EntrySize(stack[k + 1].blk)
    BY <1>1, <1>2, <2>1
  <2>3. M[k] = L[k + 1] /\ M[k + 1] = L[k + 2]
    BY <1>1, <1>3
  <2> QED
    BY <2>1, <2>2, <2>3
<1> HIDE DEF M
<1> QED
  BY <1>5, <1>6, <1>7 DEF Levels

\* Replacing the index of the top entry changes no room.
LEMMA KeepLevels ==
  ASSUME IInv, RoomInv, heap' = heap, stack # <<>>, NEW i \in Nat \ {0},
         stack' = <<Entry(Head(stack).blk, i)>> \o Tail(stack), gsp' = gsp
  PROVE  Levels'
<1> DEFINE E == [blk : Block, pos : Nat \ {0}]
           f == Entry(Head(stack).blk, i)
<1>1. stack \in Seq(E) /\ Len(stack) \in Nat \ {0} /\ Head(stack) = stack[1]
      /\ Head(stack) \in E
  <2>1. stack \in Seq(E)
    BY DEF IInv, Types
  <2> HIDE DEF E
  <2> QED
    BY <2>1, HeadTail
<1>2. PICK L \in [1 .. (Len(stack) + 1) -> Int] :
        /\ L[1] = gsp
        /\ L[Len(stack) + 1] = GsSize
        /\ \A k \in 1 .. Len(stack) : L[k] = L[k + 1] - EntrySize(stack[k].blk)
  BY DEF RoomInv, Levels
<1>3. f \in E /\ f.blk = stack[1].blk
  BY <1>1 DEF Entry
<1>4. /\ Len(stack') = Len(stack) /\ stack'[1].blk = stack[1].blk
      /\ \A k \in 2 .. Len(stack') : stack'[k] = stack[k]
  <2> HIDE DEF E, f
  <2>1. /\ Tail(stack) \in Seq(E) /\ Len(Tail(stack)) = Len(stack) - 1
        /\ \A k \in 1 .. Len(Tail(stack)) : Tail(stack)[k] = stack[k + 1]
    BY <1>1
  <2>2. stack' = <<f>> \o Tail(stack)
    BY DEF f
  <2> QED
    BY <1>1, <1>3, <2>1, <2>2
<1>5. \A b : EntrySize(b)' = EntrySize(b)
  BY DEF EntrySize, IsArray
<1>6. \A k \in 1 .. Len(stack') : L[k] = L[k + 1] - EntrySize(stack[k].blk)'
  <2> SUFFICES ASSUME NEW k \in 1 .. Len(stack')
               PROVE  L[k] = L[k + 1] - EntrySize(stack'[k].blk)
    BY DEF EntrySize, IsArray
  <2>1. stack'[k].blk = stack[k].blk
    BY <1>1, <1>4
  <2> QED
    BY <1>2, <1>4, <2>1
<1>7. /\ L \in [1 .. (Len(stack') + 1) -> Int]
      /\ L[1] = gsp' /\ L[Len(stack') + 1] = GsSize
  BY <1>2, <1>4
<1> QED
  BY <1>6, <1>7 DEF Levels

\* No action takes more words than are left, the unguarded push of an
\* overflow pass included: it finds the stack empty.
LEMMA RoomStep == IInv /\ RoomInv /\ [Next]_vars => RoomInv'
<1> SUFFICES ASSUME IInv, RoomInv, [Next]_vars PROVE RoomInv'
  OBVIOUS
<1>1. /\ gsp \in Nat /\ \A b : EntrySize(b) \in {1, 2}
      /\ heap' = heap
  BY DEF RoomInv, EntrySize, Next, vars, MarkRoot, Skip, Mark, FlushObject,
         FlushArray, StartScan, ScanBlock, MarkDone
<1>2. CASE UNCHANGED <<stack, gsp>>
  BY <1>1, <1>2 DEF RoomInv, Levels, EntrySize, IsArray
<1>3. CASE Mark /\ ~UNCHANGED <<stack, gsp>>
  <2> DEFINE h == Head(todo)
  <2>1. /\ h \in Block /\ gsp >= EntrySize(h)
        /\ stack' = <<Entry(h, 1)>> \o stack /\ gsp' = gsp - EntrySize(h)
    BY <1>3 DEF Mark, PushOrOverflow
  <2>2. Entry(h, 1) \in [blk : Block, pos : Nat \ {0}] /\ Entry(h, 1).blk = h
    BY <2>1 DEF Entry
  <2>3. gsp' \in Nat
    BY <1>1, <2>1
  <2> QED
    BY <1>1, <2>1, <2>2, <2>3, PushLevels DEF RoomInv
<1>4. CASE FlushObject
  <2>1. /\ stack # <<>> /\ stack' = Tail(stack)
        /\ gsp' = gsp + EntrySize(Head(stack).blk)
    BY <1>4 DEF FlushObject, EntrySize
  <2> QED
    BY <1>1, <2>1, PopLevels DEF RoomInv
<1>5. CASE FlushArray
  <2> DEFINE b == Head(stack).blk
  <2>1. stack # <<>> /\ EntrySize(b) = 2
    BY <1>5 DEF FlushArray, EntrySize
  <2>2. CASE stack' = Tail(stack) /\ gsp' = gsp + 2
    BY <1>1, <2>1, <2>2, PopLevels DEF RoomInv
  <2>3. CASE \E i \in Nat \ {0} :
               stack' = <<Entry(b, i)>> \o Tail(stack) /\ gsp' = gsp
    BY <1>1, <2>1, <2>3, KeepLevels DEF RoomInv
  <2>4. \/ stack' = Tail(stack) /\ gsp' = gsp + 2
        \/ \E i \in Nat \ {0} :
               stack' = <<Entry(b, i)>> \o Tail(stack) /\ gsp' = gsp
    <3>1. Head(stack).pos \in Nat \ {0}
      <4> DEFINE E == [blk : Block, pos : Nat \ {0}]
      <4>1. stack \in Seq(E) /\ stack # <<>>
        BY <2>1 DEF IInv, Types
      <4>2. Head(stack) \in E
        <5> HIDE DEF E
        <5> QED
          BY <4>1, HeadTail
      <4> QED
        BY <4>2
    <3>2. CASE \E j \in Head(stack).pos .. Len(Refs(b)) : NextOfArray(b, j)
      <4>1. PICK j \in Head(stack).pos .. Len(Refs(b)) : NextOfArray(b, j)
        BY <3>2
      <4>2. j + 1 \in Nat \ {0}
        BY <3>1
      <4> QED
        BY <4>1, <4>2 DEF NextOfArray
    <3>3. CASE stack' = Tail(stack) /\ gsp' = gsp + 2
      BY <3>3
    <3> QED
      BY <1>5, <3>2, <3>3 DEF FlushArray
  <2> QED
    BY <2>2, <2>3, <2>4
<1>6. CASE ScanBlock /\ ~UNCHANGED <<stack, gsp>>
  <2>1. /\ stack = <<>> /\ scan \in marked
        /\ stack' = <<Entry(scan, 1)>> /\ gsp' = gsp - EntrySize(scan)
    BY <1>6 DEF ScanBlock, Idle
  <2>2. gsp = GsSize
    BY <2>1 DEF RoomInv, Levels
  <2>3. gsp' \in Nat
    BY <1>1, <2>1, <2>2, GsSizeAssumption
  <2>4. Entry(scan, 1) \in [blk : Block, pos : Nat \ {0}]
        /\ Entry(scan, 1).blk = scan
    BY <2>1 DEF Entry, IInv, Types
  <2>5. stack' = <<Entry(scan, 1)>> \o stack
    <3> DEFINE E == [blk : Block, pos : Nat \ {0}]
               f == Entry(scan, 1)
    <3>1. f \in E
      BY <2>4
    <3> HIDE DEF E, f
    <3>2. <<f>> = <<f>> \o <<>>
      BY <3>1
    <3> QED
      BY <2>1, <3>2 DEF f
  <2> QED
    BY <1>1, <2>1, <2>3, <2>4, <2>5, PushLevels DEF RoomInv
<1> QED
  BY <1>2, <1>3, <1>4, <1>5, <1>6
  DEF Next, vars, MarkRoot, Skip, StartScan, MarkDone

HeapOK == heap \in Heaps

\* Every variable keeps its type, and the mark stack never grows below
\* gs_bottom: two free words are enough for the collector.
THEOREM TypeCorrect == Spec => []TypeOK
<1>1. Init => RoomInv /\ HeapOK
  <2> SUFFICES ASSUME Init PROVE RoomInv /\ HeapOK
    OBVIOUS
  <2>1. gsp \in Nat /\ gsp = GsSize /\ Len(stack) = 0 /\ heap \in Heaps
    BY GsSizeAssumption DEF Init
  <2>2. Levels
    <3> DEFINE L == [k \in 1 .. (Len(stack) + 1) |-> GsSize]
    <3>1. L \in [1 .. (Len(stack) + 1) -> Int] /\ L[1] = gsp
          /\ L[Len(stack) + 1] = GsSize
      BY <2>1
    <3>2. \A k \in 1 .. Len(stack) : L[k] = L[k + 1] - EntrySize(stack[k].blk)
      BY <2>1
    <3> HIDE DEF L
    <3> QED
      BY <3>1, <3>2 DEF Levels
  <2> QED
    BY <2>1, <2>2 DEF RoomInv, HeapOK
<1>2. HeapOK /\ [Next]_vars => HeapOK'
  BY DEF HeapOK, Next, vars, MarkRoot, Skip, Mark, FlushObject, FlushArray, StartScan,
         ScanBlock, MarkDone
<1>3. IInv /\ RoomInv /\ HeapOK => TypeOK
  BY DEF HeapOK, IInv, Types, RoomInv, TypeOK
<1> QED
  BY <1>1, <1>2, <1>3, RoomStep, Invariance, PTL DEF Spec
-----------------------------------------------------------------------------
(* What the marks mean.                                                    *)

\* A reference of a marked block is never lost between two steps of the mark
\* phase, overflow of the mark stack included.
THEOREM TricolorHolds == Spec => []Tricolor
<1>1. IInv => Tricolor
  BY DEF IInv
<1> QED
  BY <1>1, Invariance, PTL

\* When the mark phase ends the marked blocks are exactly the reachable ones,
\* whatever the heap and however small the mark stack.
THEOREM MarkIsExact == Spec => []MarkExact
<1>1. IInv => MarkExact
  <2> SUFFICES ASSUME IInv, phase = "done" PROVE marked = Reachable
    BY DEF MarkExact
  <2>1. todo = <<>> /\ stack = <<>> /\ roots = <<>> /\ ~overflow
    BY DEF IInv, Phases, Idle
  <2>2. Range(todo) = {} /\ Range(roots) = {}
    BY <2>1 DEF Range
  <2>3. \A b, i : ~Waits(b, i)
    BY <2>1 DEF Waits
  <2>4. Closed(marked)
    BY <2>1, <2>2, <2>3 DEF IInv, RootsSeen, Tricolor, Closed
  <2>5. marked \in SUBSET Block
    BY DEF IInv, Types
  <2>6. Reachable \subseteq marked
    BY <2>4, <2>5, ReachableLeast
  <2> QED
    BY <2>6 DEF IInv, OnlyReachable
<1> QED
  BY <1>1, Invariance, PTL
=============================================================================
