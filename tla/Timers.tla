------------------------------- MODULE Timers -------------------------------
(***************************************************************************)
(* The timers of mqjs.c: setTimeout and clearTimeout, called by the script *)
(* and by callbacks, and the loop run_timers that runs after the script.   *)
(* An allocated timer keeps its function alive by a reference on the       *)
(* context's list (JS_AddGCRef), which must be found again when it is      *)
(* deleted: JS_DeleteGCRef aborts the program otherwise.                   *)
(*                                                                         *)
(* An id is the place in the table and is used again.  Each call of        *)
(* setTimeout has a name of its own here, for the properties only.         *)
(***************************************************************************)
EXTENDS Integers, Sequences, SequencesExt, FiniteSets

CONSTANTS
  MAX_TIMERS,
  Delay,       \* the delays setTimeout is called with
  IdleDelay,   \* the longest sleep (1000 ms in the code)
  MaxSets,     \* bound: calls of setTimeout
  MaxTick      \* bound: time that code takes, sleeping not counted

TimersAssumption ==
  /\ MAX_TIMERS \in Nat \ {0} /\ MaxSets \in Nat /\ MaxTick \in Nat
  /\ IdleDelay \in Nat \ {0} /\ Delay \subseteq Int

Slot == 1 .. MAX_TIMERS
Name == 1 .. MaxSets

VARIABLES
  timer,      \* slot -> [allocated, timeout, name]
  last_gc_ref,   \* the slots on the list of references, newest first
  fate,       \* name -> "unset", "armed", "fired" or "cleared"
  now,
  ticks,
  cur_time, min_delay, has_timer, i,   \* locals of run_timers
  pc          \* "script", "loop", "scan", "callback", "sleep", "done", "failed"

timersVars == <<timer, last_gc_ref, fate, now, ticks, cur_time, min_delay, has_timer, i, pc>>
loopVars == <<cur_time, min_delay, has_timer, i>>

TimersInit ==
  /\ timer = [s \in Slot |-> [allocated |-> FALSE, timeout |-> 0, name |-> 0]]
  /\ last_gc_ref = <<>>
  /\ fate = [n \in Name |-> "unset"]
  /\ now = 0 /\ ticks = 0
  /\ cur_time = 0 /\ min_delay = IdleDelay /\ has_timer = FALSE /\ i = 1
  /\ pc = "script"
-----------------------------------------------------------------------------
InJS == pc \in {"script", "callback"}
Free == {s \in Slot : ~timer[s].allocated}
Unused == {n \in Name : fate[n] = "unset"}
Lowest(S) == CHOOSE x \in S : \A y \in S : x <= y

\* JS_AddGCRef, and JS_DeleteGCRef, which takes the first place that is s and
\* aborts if there is none: RefsAreTimers says there is.
Linked(s) == <<s>> \o last_gc_ref
Unlinked(s) ==
  LET places == {p \in DOMAIN last_gc_ref : last_gc_ref[p] = s} IN
  IF places = {} THEN last_gc_ref ELSE RemoveAt(last_gc_ref, Lowest(places))

js_setTimeout(d) ==
  LET s == Lowest(Free)
      n == Lowest(Unused) IN
  /\ InJS /\ Free # {} /\ Unused # {}
  /\ last_gc_ref' = Linked(s)
  /\ timer' = [timer EXCEPT ![s] = [allocated |-> TRUE, timeout |-> now + d, name |-> n]]
  /\ fate' = [fate EXCEPT ![n] = "armed"]
  /\ UNCHANGED <<now, ticks, loopVars, pc>>

js_clearTimeout(s) ==
  /\ InJS /\ timer[s].allocated
  /\ last_gc_ref' = Unlinked(s)
  /\ timer' = [timer EXCEPT ![s].allocated = FALSE]
  /\ fate' = [fate EXCEPT ![timer[s].name] = "cleared"]
  /\ UNCHANGED <<now, ticks, loopVars, pc>>

ScriptEnds ==
  /\ pc = "script"
  /\ pc' = "loop"
  /\ UNCHANGED <<timer, last_gc_ref, fate, now, ticks, loopVars>>

LoopStart ==
  /\ pc = "loop"
  /\ cur_time' = now /\ min_delay' = IdleDelay /\ has_timer' = FALSE /\ i' = 1
  /\ pc' = "scan"
  /\ UNCHANGED <<timer, last_gc_ref, fate, now, ticks>>

ScanFree ==
  /\ pc = "scan" /\ i \in Slot /\ ~timer[i].allocated
  /\ i' = i + 1
  /\ UNCHANGED <<timer, last_gc_ref, fate, now, ticks, cur_time, min_delay, has_timer, pc>>

\* Mutation: the first timer found decides how long the loop sleeps.
ScanPending_first ==
  /\ pc = "scan" /\ i \in Slot /\ timer[i].allocated
  /\ timer[i].timeout > cur_time
  /\ min_delay' = IF has_timer THEN min_delay ELSE timer[i].timeout - cur_time
  /\ has_timer' = TRUE
  /\ i' = i + 1
  /\ UNCHANGED <<timer, last_gc_ref, fate, now, ticks, cur_time, pc>>

ScanPending ==
  /\ pc = "scan" /\ i \in Slot /\ timer[i].allocated
  /\ timer[i].timeout > cur_time
  /\ min_delay' = Lowest({min_delay, timer[i].timeout - cur_time})
  /\ has_timer' = TRUE
  /\ i' = i + 1
  /\ UNCHANGED <<timer, last_gc_ref, fate, now, ticks, cur_time, pc>>

\* Mutation: the timer stays allocated while its function runs.
Fire_late ==
  /\ pc = "scan" /\ i \in Slot /\ timer[i].allocated
  /\ timer[i].timeout <= cur_time
  /\ last_gc_ref' = Unlinked(i)
  /\ fate' = [fate EXCEPT ![timer[i].name] = "fired"]
  /\ has_timer' = TRUE /\ min_delay' = 0
  /\ pc' = "callback"
  /\ UNCHANGED <<timer, now, ticks, cur_time, i>>

\* The timer has expired: it is given back before its function is called.
Fire ==
  /\ pc = "scan" /\ i \in Slot /\ timer[i].allocated
  /\ timer[i].timeout <= cur_time
  /\ last_gc_ref' = Unlinked(i)
  /\ timer' = [timer EXCEPT ![i].allocated = FALSE]
  /\ fate' = [fate EXCEPT ![timer[i].name] = "fired"]
  /\ has_timer' = TRUE /\ min_delay' = 0
  /\ pc' = "callback"
  /\ UNCHANGED <<now, ticks, cur_time, i>>

CallbackReturns ==
  /\ pc = "callback"
  /\ pc' = "loop"
  /\ UNCHANGED <<timer, last_gc_ref, fate, now, ticks, loopVars>>

\* The script or a callback throws, or no stack is left for the call: exit(1).
Fails ==
  /\ InJS \/ (pc = "scan" /\ i \in Slot /\ timer[i].allocated /\ timer[i].timeout <= cur_time)
  /\ pc' = "failed"
  /\ UNCHANGED <<timer, last_gc_ref, fate, now, ticks, loopVars>>

ScanEnds ==
  /\ pc = "scan" /\ i = MAX_TIMERS + 1
  /\ pc' = IF has_timer THEN "sleep" ELSE "done"
  /\ UNCHANGED <<timer, last_gc_ref, fate, now, ticks, loopVars>>

\* nanosleep, which a signal may interrupt.
Sleep ==
  /\ pc = "sleep"
  /\ \E t \in 1 .. min_delay : now' = now + t
  /\ pc' = "loop"
  /\ UNCHANGED <<timer, last_gc_ref, fate, ticks, loopVars>>

\* Time passes while code runs.
Tick ==
  /\ pc \in {"script", "callback", "scan"} /\ ticks < MaxTick
  /\ now' = now + 1 /\ ticks' = ticks + 1
  /\ UNCHANGED <<timer, last_gc_ref, fate, loopVars, pc>>

LoopStep == LoopStart \/ ScanFree \/ ScanPending \/ Fire \/ ScanEnds \/ Sleep

TimersNext ==
  \/ \E d \in Delay : js_setTimeout(d)
  \/ \E s \in Slot : js_clearTimeout(s)
  \/ ScriptEnds
  \/ LoopStart
  \/ ScanFree
  \/ ScanPending
  \/ Fire
  \/ CallbackReturns
  \/ Fails
  \/ ScanEnds
  \/ Sleep
  \/ Tick

TimersSpec == TimersInit /\ [][TimersNext]_timersVars

\* run_timers goes on, the script and every callback end.
FairTimersSpec ==
  TimersSpec /\ WF_timersVars(LoopStep) /\ WF_timersVars(ScriptEnds) /\ WF_timersVars(CallbackReturns)
-----------------------------------------------------------------------------
(* Properties.                                                             *)

TimersTypeOK ==
  /\ timer \in [Slot -> [allocated : BOOLEAN, timeout : Int, name : Name \cup {0}]]
  /\ fate \in [Name -> {"unset", "armed", "fired", "cleared"}]
  /\ now \in Nat /\ ticks \in 0 .. MaxTick /\ cur_time \in 0 .. now
  /\ min_delay \in 0 .. IdleDelay /\ has_timer \in BOOLEAN
  /\ i \in 1 .. MAX_TIMERS + 1

\* The allocated timers are on the list of references, each once: the function
\* of a pending timer is never collected, and JS_DeleteGCRef, called by
\* clearTimeout or before a callback, always finds the reference.
RefsAreTimers ==
  /\ IsInjective(last_gc_ref)
  /\ ToSet(last_gc_ref) = Slot \ Free

\* A timer that was set and neither ran nor was cleared is in the table, once:
\* none is lost, none runs twice, and an id that is used again does not hand a
\* timer the past of another one.
PendingAreTimers ==
  /\ {timer[s].name : s \in Slot \ Free} = {n \in Name : fate[n] = "armed"}
  /\ \A s, t \in Slot \ Free : timer[s].name = timer[t].name => s = t

TimersKept == TimersTypeOK /\ RefsAreTimers /\ PendingAreTimers

\* The loop does not sleep past the time a timer expires, as seen when the loop
\* read the clock, and ends only when no timer is left.
SleepsInTime ==
  /\ pc = "sleep" => \A s \in Slot \ Free : cur_time + min_delay <= timer[s].timeout
  /\ pc = "done" => Free = Slot

\* run_timers ends if callbacks set finitely many timers, and every timer that is
\* not cleared runs by then, unless a callback throws.
AllTimersRun ==
  <>[](pc = "failed" \/ (pc = "done" /\ \A n \in Name : fate[n] # "armed"))
=============================================================================
