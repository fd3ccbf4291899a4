---------------------------- MODULE TimersProofs ----------------------------
(***************************************************************************)
(* What the timers guarantee for every size of the table, all delays and   *)
(* any number of calls of setTimeout.                                      *)
(***************************************************************************)
EXTENDS Timers, Minimum, SequenceTheorems

Timer == [allocated : BOOLEAN, timeout : Int, name : Name \cup {0}]

Types ==
  /\ timer \in [Slot -> Timer]
  /\ last_gc_ref \in Seq(Slot)
  /\ fate \in [Name -> {"unset", "armed", "fired", "cleared"}]
  /\ now \in Nat /\ ticks \in 0 .. MaxTick /\ cur_time \in 0 .. now
  /\ min_delay \in 0 .. IdleDelay /\ has_timer \in BOOLEAN
  /\ i \in 1 .. MAX_TIMERS + 1
  /\ pc \in {"script", "loop", "scan", "callback", "sleep", "done", "failed"}

\* The timers that the scan has passed: the loop knows of them, and none
\* expires before it wakes up.
Scanned ==
  pc = "scan" => \A s \in Slot \ Free : s < i =>
    has_timer /\ cur_time + min_delay <= timer[s].timeout

IInv == Types /\ RefsAreTimers /\ PendingAreTimers /\ Scanned /\ SleepsInTime
-----------------------------------------------------------------------------
LEMMA LowestExists ==
  ASSUME NEW S \in SUBSET Nat, S # {}
  PROVE  Lowest(S) \in S /\ \A y \in S : Lowest(S) <= y
BY LeastExists DEF Lowest

LEMMA RemoveAtProperties ==
  ASSUME NEW S, NEW q \in Seq(S), NEW p \in 1 .. Len(q)
  PROVE  /\ RemoveAt(q, p) \in Seq(S)
         /\ Len(RemoveAt(q, p)) = Len(q) - 1
         /\ \A k \in 1 .. Len(q) - 1 :
              RemoveAt(q, p)[k] = IF k < p THEN q[k] ELSE q[k + 1]
<1> DEFINE n == Len(q)
           v == SubSeq(q, 1, p - 1)
           w == SubSeq(q, p + 1, n)
<1>1. n \in Nat /\ p \in 1 .. n
  OBVIOUS
<1>2. /\ v \in Seq(S) /\ Len(v) = p - 1
      /\ \A k \in 1 .. p - 1 : v[k] = q[k]
  BY <1>1
<1>3. /\ w \in Seq(S) /\ Len(w) = n - p
      /\ \A k \in 1 .. n - p : w[k] = q[k + p]
  BY <1>1
<1> HIDE DEF v, w
<1> DEFINE c == v \o w
<1>4. /\ c \in Seq(S) /\ Len(c) = n - 1
      /\ \A k \in 1 .. n - 1 : c[k] = IF k <= p - 1 THEN v[k] ELSE w[k - (p - 1)]
  <2>1. Len(v) + Len(w) = n - 1
    BY <1>1, <1>2, <1>3
  <2>2. /\ c \in Seq(S) /\ Len(c) = Len(v) + Len(w)
        /\ \A k \in 1 .. Len(v) + Len(w) : c[k] = IF k <= Len(v) THEN v[k] ELSE w[k - Len(v)]
    BY <1>2, <1>3, ConcatProperties
  <2> QED
    BY <1>2, <2>1, <2>2
<1> HIDE DEF c
<1>5. ASSUME NEW k \in 1 .. n - 1
      PROVE  c[k] = IF k < p THEN q[k] ELSE q[k + 1]
  <2>1. CASE k < p
    BY <2>1, <1>1, <1>2, <1>4
  <2>2. CASE k >= p
    <3>1. k - (p - 1) \in 1 .. n - p /\ (k - (p - 1)) + p = k + 1
      BY <2>2, <1>1
    <3>2. c[k] = w[k - (p - 1)]
      BY <2>2, <1>1, <1>4
    <3> QED
      BY <2>2, <3>1, <3>2, <1>1, <1>3
  <2> QED
    BY <2>1, <2>2, <1>1
<1> QED
  BY <1>4, <1>5 DEF RemoveAt, c, v, w

\* Deleting a reference that is on the list, once, takes it away and no other.
LEMMA UnlinkedProperties ==
  ASSUME last_gc_ref \in Seq(Slot), IsInjective(last_gc_ref),
         NEW s \in ToSet(last_gc_ref)
  PROVE  /\ Unlinked(s) \in Seq(Slot)
         /\ IsInjective(Unlinked(s))
         /\ ToSet(Unlinked(s)) = ToSet(last_gc_ref) \ {s}
<1> DEFINE places == {q \in DOMAIN last_gc_ref : last_gc_ref[q] = s}
           n == Len(last_gc_ref)
           u == Unlinked(s)
<1>1. places \in SUBSET Nat /\ places # {}
  BY DEF ToSet
<1>2. PICK p \in places : p = Lowest(places)
  BY <1>1, LowestExists
<1>3. p \in 1 .. n /\ last_gc_ref[p] = s /\ n \in Nat /\ DOMAIN last_gc_ref = 1 .. n
  BY <1>2
<1>4. u = RemoveAt(last_gc_ref, p)
  BY <1>1, <1>2 DEF Unlinked
<1>5. /\ u \in Seq(Slot) /\ DOMAIN u = 1 .. n - 1
      /\ \A k \in 1 .. n - 1 : u[k] = IF k < p THEN last_gc_ref[k] ELSE last_gc_ref[k + 1]
  BY <1>3, <1>4, RemoveAtProperties
<1> HIDE DEF u
<1>6. IsInjective(u)
  <2> SUFFICES ASSUME NEW k \in 1 .. n - 1, NEW l \in 1 .. n - 1, u[k] = u[l]
               PROVE  k = l
    BY <1>5 DEF IsInjective
  <2> DEFINE old(m) == IF m < p THEN m ELSE m + 1
  <2>1. /\ old(k) \in 1 .. n /\ old(l) \in 1 .. n
        /\ last_gc_ref[old(k)] = u[k] /\ last_gc_ref[old(l)] = u[l]
    BY <1>3, <1>5
  <2>2. old(k) = old(l)
    BY <2>1, <1>3 DEF IsInjective
  <2> QED
    BY <2>2, <1>3
<1>7. ToSet(u) = ToSet(last_gc_ref) \ {s}
  <2>1. ASSUME NEW k \in 1 .. n, k # p
        PROVE  \E l \in 1 .. n - 1 : u[l] = last_gc_ref[k]
    <3>1. CASE k < p
      BY <3>1, <1>3, <1>5
    <3>2. CASE k > p
      <4>1. k - 1 \in 1 .. n - 1 /\ u[k - 1] = last_gc_ref[k]
        BY <3>2, <1>3, <1>5
      <4> QED
        BY <4>1
    <3> QED
      BY <3>1, <3>2, <2>1, <1>3
  <2>2. ASSUME NEW l \in 1 .. n - 1
        PROVE  \E k \in 1 .. n : k # p /\ u[l] = last_gc_ref[k]
    <3>1. CASE l < p
      BY <3>1, <1>3, <1>5
    <3>2. CASE l >= p
      <4>1. l + 1 \in 1 .. n /\ l + 1 # p /\ u[l] = last_gc_ref[l + 1]
        BY <3>2, <1>3, <1>5
      <4> QED
        BY <4>1
    <3> QED
      BY <3>1, <3>2, <1>3
  <2>3. \A k \in 1 .. n : last_gc_ref[k] = s <=> k = p
    BY <1>3 DEF IsInjective
  <2>4. ToSet(u) \subseteq ToSet(last_gc_ref) \ {s}
    BY <2>2, <2>3, <1>3, <1>5 DEF ToSet
  <2>5. ToSet(last_gc_ref) \ {s} \subseteq ToSet(u)
    <3> SUFFICES ASSUME NEW k \in 1 .. n, last_gc_ref[k] # s
                 PROVE  last_gc_ref[k] \in ToSet(u)
      BY <1>3 DEF ToSet
    <3>1. PICK l \in 1 .. n - 1 : u[l] = last_gc_ref[k]
      BY <2>1, <2>3
    <3> QED
      BY <3>1, <1>5 DEF ToSet
  <2> QED
    BY <2>4, <2>5
<1> QED
  BY <1>5, <1>6, <1>7 DEF u
-----------------------------------------------------------------------------
LEMMA InitInv ==
  ASSUME TimersAssumption, TimersInit
  PROVE  IInv
<1>1. Types
  <2>1. last_gc_ref \in Seq(Slot)
    BY DEF TimersInit
  <2>2. timer \in [Slot -> Timer]
    BY DEF TimersInit, Timer
  <2>3. /\ now \in Nat /\ ticks \in 0 .. MaxTick /\ cur_time \in 0 .. now
        /\ min_delay \in 0 .. IdleDelay /\ i \in 1 .. MAX_TIMERS + 1
    BY DEF TimersInit, TimersAssumption
  <2> QED
    BY <2>1, <2>2, <2>3 DEF TimersInit, Types
<1>2. Free = Slot
  BY DEF TimersInit, Free
<1>3. RefsAreTimers
  BY <1>2 DEF TimersInit, RefsAreTimers, ToSet, IsInjective
<1>4. PendingAreTimers
  BY <1>2 DEF TimersInit, PendingAreTimers
<1> QED
  BY <1>1, <1>2, <1>3, <1>4 DEF TimersInit, IInv, Scanned, SleepsInTime

LEMMA SetTimeoutInv ==
  ASSUME TimersAssumption, IInv, NEW d \in Delay, js_setTimeout(d)
  PROVE  IInv'
<1> DEFINE s == Lowest(Free)
           n == Lowest(Unused)
<1>1. /\ s \in Slot /\ ~timer[s].allocated
      /\ n \in Name /\ fate[n] = "unset"
  <2>1. Free \in SUBSET Nat /\ Unused \in SUBSET Nat
    BY DEF Free, Unused, Slot, Name
  <2>2. s \in Free /\ n \in Unused
    BY <2>1, LowestExists DEF js_setTimeout
  <2> QED
    BY <2>2 DEF Free, Unused
<1> HIDE DEF s, n
<1>2. /\ last_gc_ref' = <<s>> \o last_gc_ref
      /\ timer' = [timer EXCEPT ![s] = [allocated |-> TRUE, timeout |-> now + d, name |-> n]]
      /\ fate' = [fate EXCEPT ![n] = "armed"]
      /\ pc \in {"script", "callback"}
      /\ UNCHANGED <<now, ticks, cur_time, min_delay, has_timer, i, pc>>
  BY DEF js_setTimeout, Linked, s, n, loopVars, InJS
<1>3. Types'
  <2>1. timer' \in [Slot -> Timer]
    BY <1>1, <1>2 DEF IInv, Types, Timer, TimersAssumption
  <2>2. last_gc_ref' \in Seq(Slot) /\ fate' \in [Name -> {"unset", "armed", "fired", "cleared"}]
    BY <1>1, <1>2 DEF IInv, Types
  <2> QED
    BY <1>2, <2>1, <2>2 DEF IInv, Types
<1>4. Free' = Free \ {s} /\ s \in Free
  BY <1>1, <1>2 DEF IInv, Types, Free, Timer
<1>5. RefsAreTimers'
  <2> DEFINE l == last_gc_ref
             m == <<s>> \o l
  <2>1. l \in Seq(Slot) /\ IsInjective(l) /\ ToSet(l) = Slot \ Free
    BY DEF IInv, Types, RefsAreTimers
  <2>2. /\ DOMAIN l = 1 .. Len(l) /\ DOMAIN m = 1 .. Len(l) + 1 /\ Len(l) \in Nat
        /\ m[1] = s /\ \A k \in 1 .. Len(l) : m[k + 1] = l[k]
    BY <1>1, <2>1
  <2> HIDE DEF l, m
  <2>3. \A k \in 2 .. Len(l) + 1 : k - 1 \in 1 .. Len(l) /\ m[k] = l[k - 1]
    BY <2>2
  <2>4. \A k \in 1 .. Len(l) : l[k] # s
    BY <2>1, <2>2, <1>4 DEF ToSet
  <2>5. IsInjective(m)
    <3> SUFFICES ASSUME NEW k1 \in 1 .. Len(l) + 1, NEW k2 \in 1 .. Len(l) + 1, m[k1] = m[k2]
                 PROVE  k1 = k2
      BY <2>2 DEF IsInjective
    <3>1. (k1 = 1 <=> m[k1] = s) /\ (k2 = 1 <=> m[k2] = s)
      BY <2>2, <2>3, <2>4
    <3>2. CASE k1 # 1 /\ k2 # 1
      <4>1. l[k1 - 1] = l[k2 - 1] /\ k1 - 1 \in DOMAIN l /\ k2 - 1 \in DOMAIN l
        BY <3>2, <2>2, <2>3
      <4>2. k1 - 1 = k2 - 1
        BY <4>1, <2>1 DEF IsInjective
      <4> QED
        BY <4>2, <2>2
    <3> QED
      BY <3>1, <3>2
  <2>6. ToSet(m) = ToSet(l) \cup {s}
    <3>1. ToSet(m) \subseteq ToSet(l) \cup {s}
      <4>1. \A k \in 1 .. Len(l) + 1 : m[k] = s \/ (k - 1 \in DOMAIN l /\ m[k] = l[k - 1])
        BY <2>2, <2>3
      <4> QED
        BY <4>1, <2>2 DEF ToSet
    <3>2. ToSet(l) \cup {s} \subseteq ToSet(m)
      <4>1. \A k \in 1 .. Len(l) : k + 1 \in DOMAIN m /\ m[k + 1] = l[k]
        BY <2>2
      <4>2. 1 \in DOMAIN m /\ m[1] = s
        BY <2>2
      <4> QED
        BY <4>1, <4>2, <2>2 DEF ToSet
    <3> QED
      BY <3>1, <3>2
  <2>7. last_gc_ref' = m
    BY <1>2 DEF m, l
  <2>8. ToSet(m) = Slot \ Free'
    BY <2>1, <2>6, <1>1, <1>4
  <2> QED
    BY <2>5, <2>7, <2>8 DEF RefsAreTimers
<1>6. PendingAreTimers'
  <2>1. \A t \in Slot \ Free : timer'[t] = timer[t] /\ t # s /\ timer[t].name # n
    BY <1>1, <1>2, <1>4 DEF IInv, Types, PendingAreTimers
  <2>2. Slot \ Free' = (Slot \ Free) \cup {s} /\ timer'[s].name = n
    BY <1>1, <1>2, <1>4 DEF IInv, Types
  <2>3. {m \in Name : fate'[m] = "armed"} = {m \in Name : fate[m] = "armed"} \cup {n}
    BY <1>1, <1>2 DEF IInv, Types
  <2>4. {timer'[t].name : t \in Slot \ Free'} = {timer[t].name : t \in Slot \ Free} \cup {n}
    BY <2>1, <2>2
  <2>5. \A t, u \in Slot \ Free' : timer'[t].name = timer'[u].name => t = u
    BY <2>1, <2>2 DEF IInv, PendingAreTimers
  <2> QED
    BY <2>3, <2>4, <2>5 DEF IInv, PendingAreTimers
<1> QED
  BY <1>2, <1>3, <1>5, <1>6 DEF IInv, Scanned, SleepsInTime

\* clearTimeout and the step that fires a timer give the place s back.
LEMMA GivenBack ==
  ASSUME TimersAssumption, IInv, NEW s \in Slot, timer[s].allocated,
         last_gc_ref' = Unlinked(s),
         timer' = [timer EXCEPT ![s].allocated = FALSE],
         NEW outcome \in {"fired", "cleared"},
         fate' = [fate EXCEPT ![timer[s].name] = outcome]
  PROVE  /\ timer' \in [Slot -> Timer]
         /\ last_gc_ref' \in Seq(Slot)
         /\ fate' \in [Name -> {"unset", "armed", "fired", "cleared"}]
         /\ RefsAreTimers' /\ PendingAreTimers'
<1> DEFINE n == timer[s].name
<1>1. /\ n \in Name /\ fate[n] = "armed"
      /\ s \in ToSet(last_gc_ref) /\ s \in Slot \ Free
  BY DEF IInv, PendingAreTimers, RefsAreTimers, Free
<1>2. timer' \in [Slot -> Timer] /\ Free' = Free \cup {s}
  BY DEF IInv, Types, Timer, Free
<1>3. fate' \in [Name -> {"unset", "armed", "fired", "cleared"}]
  BY DEF IInv, Types
<1>4. last_gc_ref' \in Seq(Slot) /\ RefsAreTimers'
  BY <1>1, <1>2, UnlinkedProperties DEF IInv, Types, RefsAreTimers
<1>5. PendingAreTimers'
  <2>1. \A t \in Slot \ Free' : t \in Slot \ Free /\ t # s /\ timer'[t].name = timer[t].name /\ timer[t].name # n
    BY <1>1, <1>2 DEF IInv, Types, PendingAreTimers
  <2>2. {m \in Name : fate'[m] = "armed"} = {m \in Name : fate[m] = "armed"} \ {n}
    BY <1>1 DEF IInv, Types
  <2>3. {timer'[t].name : t \in Slot \ Free'} = {timer[t].name : t \in Slot \ Free} \ {n}
    <3>1. {timer'[t].name : t \in Slot \ Free'} \subseteq {timer[t].name : t \in Slot \ Free} \ {n}
      BY <2>1
    <3>2. \A t \in Slot \ Free : timer[t].name # n => t \in Slot \ Free'
      BY <1>1, <1>2
    <3> QED
      BY <2>1, <3>1, <3>2
  <2> QED
    BY <2>1, <2>2, <2>3 DEF IInv, PendingAreTimers
<1> QED
  BY <1>2, <1>3, <1>4, <1>5

LEMMA ClearTimeoutInv ==
  ASSUME TimersAssumption, IInv, NEW s \in Slot, js_clearTimeout(s)
  PROVE  IInv'
<1>1. /\ timer' \in [Slot -> Timer]
      /\ last_gc_ref' \in Seq(Slot)
      /\ fate' \in [Name -> {"unset", "armed", "fired", "cleared"}]
      /\ RefsAreTimers' /\ PendingAreTimers'
  BY GivenBack DEF js_clearTimeout
<1> QED
  BY <1>1 DEF IInv, Types, Scanned, SleepsInTime, js_clearTimeout, InJS, loopVars

LEMMA FireInv ==
  ASSUME TimersAssumption, IInv, Fire
  PROVE  IInv'
<1>1. /\ timer' \in [Slot -> Timer]
      /\ last_gc_ref' \in Seq(Slot)
      /\ fate' \in [Name -> {"unset", "armed", "fired", "cleared"}]
      /\ RefsAreTimers' /\ PendingAreTimers'
  BY GivenBack DEF Fire
<1> QED
  BY <1>1 DEF IInv, Types, Scanned, SleepsInTime, Fire, TimersAssumption

\* The scan and the sleep leave the table, the references and the fates alone.
LEMMA LoopInv ==
  ASSUME TimersAssumption, IInv, UNCHANGED <<timer, last_gc_ref, fate>>,
         \/ ScriptEnds \/ LoopStart \/ ScanFree \/ ScanPending \/ CallbackReturns
         \/ Fails \/ ScanEnds \/ Sleep \/ Tick \/ UNCHANGED timersVars
  PROVE  IInv'
<1> USE DEF TimersAssumption
<1>1. RefsAreTimers' /\ PendingAreTimers' /\ Free' = Free
  BY DEF IInv, RefsAreTimers, PendingAreTimers, Free
<1>2. CASE ScriptEnds \/ CallbackReturns \/ Fails \/ Tick \/ UNCHANGED timersVars
  BY <1>1, <1>2 DEF IInv, Types, Scanned, SleepsInTime, ScriptEnds, CallbackReturns, Fails, Tick, timersVars, loopVars, InJS
<1>3. CASE LoopStart
  <2>1. Types'
    <3>1. /\ cur_time' \in 0 .. now' /\ min_delay' \in 0 .. IdleDelay
          /\ i' \in 1 .. MAX_TIMERS + 1
      BY <1>3 DEF IInv, Types, LoopStart
    <3> QED
      BY <1>3, <3>1 DEF IInv, Types, LoopStart
  <2>2. Scanned' /\ SleepsInTime'
    BY <1>3 DEF Scanned, SleepsInTime, LoopStart, Slot
  <2> QED
    BY <1>1, <2>1, <2>2 DEF IInv
<1>4. CASE ScanFree
  <2>1. Types'
    BY <1>4 DEF IInv, Types, ScanFree, Slot
  <2>2. Scanned'
    <3> SUFFICES ASSUME NEW s \in Slot \ Free, s < i + 1, pc = "scan"
                 PROVE  has_timer /\ cur_time + min_delay <= timer[s].timeout
      BY <1>1, <1>4 DEF Scanned, ScanFree
    <3>1. s < i
      BY <1>4 DEF ScanFree, Free, Slot
    <3> QED
      BY <3>1 DEF IInv, Scanned
  <2>3. SleepsInTime'
    BY <1>4 DEF SleepsInTime, ScanFree
  <2> QED
    BY <1>1, <2>1, <2>2, <2>3 DEF IInv
<1>5. CASE ScanPending
  <2> DEFINE wait == timer[i].timeout - cur_time
  <2>1. wait \in Nat \ {0} /\ min_delay \in Nat /\ min_delay <= IdleDelay /\ cur_time \in Nat
    BY <1>5 DEF IInv, Types, Timer, ScanPending
  <2>2. /\ min_delay' \in 0 .. IdleDelay
        /\ min_delay' <= min_delay /\ min_delay' <= wait
    <3>1. {min_delay, wait} \in SUBSET Nat
      BY <2>1
    <3>2. min_delay' \in {min_delay, wait} /\ \A y \in {min_delay, wait} : min_delay' <= y
      BY <3>1, <1>5, LowestExists DEF ScanPending
    <3> QED
      BY <2>1, <3>2
  <2>3. Scanned'
    <3> SUFFICES ASSUME NEW s \in Slot \ Free, s < i + 1
                 PROVE  cur_time + min_delay' <= timer[s].timeout
      BY <1>1, <1>5 DEF Scanned, ScanPending
    <3>1. timer[s].timeout \in Int /\ s \in Nat /\ i \in Nat
      BY DEF IInv, Types, Timer, Slot
    <3>2. CASE s = i
      BY <3>1, <3>2, <2>1, <2>2
    <3>3. CASE s < i
      <4>1. cur_time + min_delay <= timer[s].timeout
        BY <3>3, <1>5 DEF IInv, Scanned, ScanPending
      <4> QED
        BY <4>1, <3>1, <2>1, <2>2
    <3> QED
      BY <3>1, <3>2, <3>3
  <2> QED
    BY <1>1, <1>5, <2>2, <2>3 DEF IInv, Types, SleepsInTime, ScanPending, Slot
<1>6. CASE ScanEnds
  BY <1>1, <1>6 DEF IInv, Types, Scanned, SleepsInTime, ScanEnds, loopVars, Slot, Free
<1>7. CASE Sleep
  BY <1>1, <1>7 DEF IInv, Types, Scanned, SleepsInTime, Sleep, loopVars
<1> QED
  BY <1>2, <1>3, <1>4, <1>5, <1>6, <1>7

LEMMA NextInv ==
  ASSUME TimersAssumption, IInv, [TimersNext]_timersVars
  PROVE  IInv'
<1>1. ASSUME \/ ScriptEnds \/ LoopStart \/ ScanFree \/ ScanPending \/ CallbackReturns
             \/ Fails \/ ScanEnds \/ Sleep \/ Tick \/ UNCHANGED timersVars
      PROVE  IInv'
  <2>1. UNCHANGED <<timer, last_gc_ref, fate>>
    BY <1>1 DEF ScriptEnds, LoopStart, ScanFree, ScanPending, CallbackReturns, Fails, ScanEnds, Sleep, Tick, timersVars
  <2> QED
    BY <1>1, <2>1, LoopInv
<1> QED
  BY <1>1, SetTimeoutInv, ClearTimeoutInv, FireInv DEF TimersNext
-----------------------------------------------------------------------------
\* The invariant holds in every state: what the loop has read of the clock and of
\* the table stays true while the script, the callbacks and the time go on.
THEOREM Invariance ==
  ASSUME TimersAssumption
  PROVE  TimersSpec => []IInv
<1>1. TimersInit => IInv
  BY InitInv
<1>2. IInv /\ [TimersNext]_timersVars => IInv'
  BY NextInv
<1> QED
  BY <1>1, <1>2, PTL DEF TimersSpec

\* A timer set and neither run nor cleared is in the table, once, and its function
\* is on the list of references, once: none is lost, none runs twice, the abort of
\* JS_DeleteGCRef is never reached, and an id that is used again is a timer of its
\* own; for every size of the table, with any delays.
THEOREM TimersAreKept ==
  ASSUME TimersAssumption
  PROVE  TimersSpec => []TimersKept
<1>1. IInv => TimersKept
  BY DEF IInv, Types, Timer, TimersTypeOK, TimersKept
<1> QED
  BY <1>1, Invariance, PTL

\* The loop of run_timers never sleeps past the time of a timer, as the loop read
\* the clock, and ends only when no timer is left.
THEOREM SleepIsInTime ==
  ASSUME TimersAssumption
  PROVE  TimersSpec => []SleepsInTime
<1>1. IInv => SleepsInTime
  BY DEF IInv
<1> QED
  BY <1>1, Invariance, PTL
=============================================================================
