------------------------------- MODULE Arena -------------------------------
(***************************************************************************)
(* The one memory block of a context: the heap grows up from heap_base     *)
(* (address 0, in words), the JS stack grows down from stack_top, and the  *)
(* allocator keeps min_free_size words free between heap_free and          *)
(* stack_bottom, the lowest address the stack was granted.                 *)
(*                                                                         *)
(* check_free_mem, JS_StackCheck, js_malloc, js_free, js_shrink and        *)
(* JS_ThrowOutOfMemory of mquickjs.c, with the frames of JS_Call, which    *)
(* asks once for everything a frame may push and does not restore          *)
(* stack_bottom when it returns.                                           *)
(***************************************************************************)
EXTENDS Integers, Sequences

CONSTANTS
  MemSize,      \* words from heap_base to stack_top
  Slack,        \* JS_STACK_SLACK
  MinFree,      \* JS_MIN_FREE_SIZE
  MinCritical,  \* JS_MIN_CRITICAL_FREE_SIZE
  MsgSize, ErrSize,  \* what the message and the error object take
  Overhead,     \* words JS_Call pushes before it checks: this, flags, fp
  MaxAlloc,     \* bound: the largest allocation
  MaxLen,       \* bound: the most words a frame asks for, 65535 and more in the code
  MaxDepth,     \* bound: nested frames
  Ptr64,        \* a difference of pointers is wider than uint32_t
  WordMod       \* if not, it is compared modulo this number

ASSUME SizesAssumption ==
  /\ MemSize \in Nat /\ Slack \in Nat /\ MinFree \in Nat /\ MinCritical \in Nat
  /\ MsgSize \in Nat /\ ErrSize \in Nat /\ Overhead \in Nat
  /\ MaxAlloc \in Nat /\ MaxLen \in Nat /\ MaxDepth \in Nat
  /\ WordMod \in Nat \ {0}
  /\ Ptr64 \in BOOLEAN
ASSUME MinFreeAssumption == MinCritical <= MinFree /\ MinFree <= MemSize

VARIABLES
  heap_free,
  garbage,        \* words below heap_free the next collection takes back
  sp,
  stack_bottom,
  frames,         \* innermost last: sp at the call and the lowest sp granted
  min_free_size,
  exception,      \* current_exception: "none", "error" or "null"
  throwing,       \* the step of JS_ThrowOutOfMemory under way, or "no"
  oom_count       \* how often it was entered, up to 2

vars == <<heap_free, garbage, sp, stack_bottom, frames, min_free_size,
          exception, throwing, oom_count>>

in_out_of_memory == throwing # "no"

Top == frames[Len(frames)]

Init ==
  /\ heap_free = 0
  /\ garbage = 0
  /\ sp = MemSize
  /\ stack_bottom = MemSize
  /\ frames = <<>>
  /\ min_free_size = MinFree
  /\ exception = "none"
  /\ throwing = "no"
  /\ oom_count = 0
-----------------------------------------------------------------------------
\* Mutation: the reserve is not asked for.
Fits_noReserve(hf, bottom, size) == bottom - hf >= size

\* ((uint8_t *)stack_bottom - ctx->heap_free) >= size + ctx->min_free_size
Fits(hf, bottom, size) ==
  IF Ptr64 THEN bottom - hf >= size + min_free_size
  ELSE (bottom - hf) % WordMod >= (size + min_free_size) % WordMod

\* check_free_mem succeeds: the heap may have been collected for it.
FreeMem(bottom, size) ==
  \/ /\ Fits(heap_free, bottom, size)
     /\ UNCHANGED garbage
  \/ /\ ~Fits(heap_free, bottom, size)
     /\ Fits(heap_free - garbage, bottom, size)
     /\ garbage' = 0

\* Where the heap ends when it has succeeded.
HeapAfterCheck(bottom, size) ==
  IF Fits(heap_free, bottom, size) THEN heap_free ELSE heap_free - garbage

NoMem(bottom, size) ==
  /\ ~Fits(heap_free, bottom, size)
  /\ ~Fits(heap_free - garbage, bottom, size)

\* check_free_mem fails: the heap is collected, then JS_ThrowOutOfMemory.
ThrowOutOfMemory ==
  /\ heap_free' = heap_free - garbage
  /\ garbage' = 0
  /\ throwing' = "message"
  /\ min_free_size' = MinCritical
  /\ oom_count' = IF oom_count < 2 THEN oom_count + 1 ELSE oom_count
  /\ UNCHANGED exception

\* js_malloc, outside of JS_ThrowOutOfMemory.
Malloc(size) ==
  /\ ~in_out_of_memory
  /\ FreeMem(stack_bottom, size)
  /\ heap_free' = HeapAfterCheck(stack_bottom, size) + size
  /\ UNCHANGED <<sp, stack_bottom, frames, min_free_size, exception, throwing, oom_count>>

MallocFails(size) ==
  /\ ~in_out_of_memory
  /\ NoMem(stack_bottom, size)
  /\ ThrowOutOfMemory
  /\ UNCHANGED <<sp, stack_bottom, frames>>

\* Values become unreachable; js_shrink turns the end of a block into garbage.
Drop(n) ==
  /\ ~in_out_of_memory
  /\ n <= heap_free - garbage
  /\ garbage' = garbage + n
  /\ UNCHANGED <<heap_free, sp, stack_bottom, frames, min_free_size, exception,
                 throwing, oom_count>>

\* Mutation: a block that is not the last gives its room back as well.
FreeLast_any(n) ==
  /\ ~in_out_of_memory
  /\ n <= heap_free
  /\ heap_free' = heap_free - n
  /\ UNCHANGED <<garbage, sp, stack_bottom, frames, min_free_size, exception,
                 throwing, oom_count>>

\* js_free of a block of n words: only the last one gives its room back.
FreeLast(n) ==
  /\ ~in_out_of_memory
  /\ n <= heap_free - garbage
  /\ heap_free' = heap_free - n
  /\ UNCHANGED <<garbage, sp, stack_bottom, frames, min_free_size, exception,
                 throwing, oom_count>>
-----------------------------------------------------------------------------
\* Mutation: the slack is added to what is checked but not to the bottom.
Call_noSlack(len) ==
  LET bottom == sp - Overhead - len IN
  /\ ~in_out_of_memory /\ Len(frames) < MaxDepth
  /\ FreeMem(bottom, len + Slack)
  /\ heap_free' = HeapAfterCheck(bottom, len + Slack)
  /\ stack_bottom' = bottom
  /\ frames' = Append(frames, [saved |-> sp, limit |-> sp - Overhead - len])
  /\ sp' = sp - Overhead
  /\ UNCHANGED <<min_free_size, exception, throwing, oom_count>>

\* A call: the arguments of the frame are there, JS_Call pushes its own words
\* and JS_StackCheck grants `len' more; stack_bottom may go down or up.
Call(len) ==
  LET bottom == sp - Overhead - len - Slack IN
  /\ ~in_out_of_memory /\ Len(frames) < MaxDepth
  /\ FreeMem(bottom, len + Slack)
  /\ heap_free' = HeapAfterCheck(bottom, len + Slack)
  /\ stack_bottom' = bottom
  /\ frames' = Append(frames, [saved |-> sp, limit |-> sp - Overhead - len])
  /\ sp' = sp - Overhead
  /\ UNCHANGED <<min_free_size, exception, throwing, oom_count>>

CallFails(len) ==
  LET bottom == sp - Overhead - len - Slack IN
  /\ ~in_out_of_memory /\ Len(frames) < MaxDepth
  /\ NoMem(bottom, len + Slack)
  /\ ThrowOutOfMemory
  /\ UNCHANGED <<sp, stack_bottom, frames>>

\* The frame uses what it was granted, without a further check.
Push ==
  /\ ~in_out_of_memory /\ frames # <<>>
  /\ sp > Top.limit
  /\ sp' = sp - 1
  /\ UNCHANGED <<heap_free, garbage, stack_bottom, frames, min_free_size,
                 exception, throwing, oom_count>>

Pop ==
  /\ ~in_out_of_memory /\ frames # <<>>
  /\ sp < Top.saved - Overhead
  /\ sp' = sp + 1
  /\ UNCHANGED <<heap_free, garbage, stack_bottom, frames, min_free_size,
                 exception, throwing, oom_count>>

\* Return, or unwinding by an exception: stack_bottom stays.
Return ==
  /\ ~in_out_of_memory /\ frames # <<>>
  /\ sp' = Top.saved
  /\ frames' = SubSeq(frames, 1, Len(frames) - 1)
  /\ UNCHANGED <<heap_free, garbage, stack_bottom, min_free_size, exception,
                 throwing, oom_count>>
-----------------------------------------------------------------------------
\* The allocations of JS_ThrowOutOfMemory.  A failing one throws again, which
\* is only JS_Throw(JS_NULL) now.
OomStep(step, next, size) ==
  /\ throwing = step
  /\ \/ /\ FreeMem(stack_bottom, size)
        /\ heap_free' = HeapAfterCheck(stack_bottom, size) + size
        /\ UNCHANGED exception
        /\ throwing' = next
     \/ /\ NoMem(stack_bottom, size)
        /\ heap_free' = heap_free - garbage
        /\ garbage' = 0
        /\ exception' = "null"
        /\ throwing' = IF step = "object" THEN "end" ELSE next
  /\ UNCHANGED <<sp, stack_bottom, frames, min_free_size, oom_count>>

\* The text of the error; it is not looked at whether this failed.
OomMessage == OomStep("message", "object", MsgSize)

OomObject == OomStep("object", "backtrace", ErrSize)

\* The backtrace string of some size, then JS_Throw of the object.
OomBacktrace ==
  /\ throwing = "backtrace"
  /\ \E size \in 0 .. MaxAlloc :
       \/ /\ FreeMem(stack_bottom, size)
          /\ heap_free' = HeapAfterCheck(stack_bottom, size) + size
       \/ /\ NoMem(stack_bottom, size)
          /\ heap_free' = heap_free - garbage
          /\ garbage' = 0
  /\ exception' = "error"
  /\ throwing' = "end"
  /\ UNCHANGED <<sp, stack_bottom, frames, min_free_size, oom_count>>

OomEnd ==
  /\ throwing = "end"
  /\ throwing' = "no"
  /\ min_free_size' = MinFree
  /\ UNCHANGED <<heap_free, garbage, sp, stack_bottom, frames, exception, oom_count>>

Next ==
  \/ \E size \in 1 .. MaxAlloc : Malloc(size)
  \/ \E size \in 1 .. MaxAlloc : MallocFails(size)
  \/ \E n \in 1 .. MaxAlloc : Drop(n)
  \/ \E n \in 1 .. MaxAlloc : FreeLast(n)
  \/ \E len \in 0 .. MaxLen : Call(len)
  \/ \E len \in 0 .. MaxLen : CallFails(len)
  \/ Push
  \/ Pop
  \/ Return
  \/ OomMessage
  \/ OomObject
  \/ OomBacktrace
  \/ OomEnd

Spec == Init /\ [][Next]_vars
-----------------------------------------------------------------------------
(* Properties.                                                             *)

TypeOK ==
  /\ heap_free \in 0 .. MemSize
  /\ garbage \in 0 .. heap_free
  /\ sp \in Int /\ sp <= MemSize
  /\ stack_bottom \in Int
  /\ frames \in Seq([saved : Int, limit : Int])
  /\ min_free_size \in {MinFree, MinCritical}
  /\ exception \in {"none", "error", "null"}
  /\ throwing \in {"no", "message", "object", "backtrace", "end"}
  /\ oom_count \in 0 .. 2

\* "min free size in bytes between heap_free and the bottom of the stack": the
\* heap never comes nearer to stack_bottom than the critical reserve, and not
\* nearer than the full reserve until an out of memory error is created.
ReserveKept ==
  /\ heap_free + MinCritical <= stack_bottom
  /\ oom_count = 0 => heap_free + MinFree <= stack_bottom

\* The first out of memory error of a context is always an Error object, never
\* null: the reserve set aside for it is large enough.
OomGivesError == oom_count = 1 /\ throwing = "no" => exception = "error"

\* A frame whose own grant, or a lower one, is the last; and a frame that has
\* pushed no more than what the grant of a nested call and the reserve leave it.
OwnGrant == stack_bottom <= Top.limit - Slack
WithinReserve == Top.saved - sp <= 2 * Overhead + Slack + MinCritical - 2

\* While one of these is true of the running frame the heap ends before the stack
\* and leaves the collector the two words its mark stack needs, although a return
\* does not restore stack_bottom.  Only a large frame that goes on pushing after
\* a nested call can reach the heap.
ApartWithinReserve ==
  frames = <<>> \/ OwnGrant \/ WithinReserve => heap_free + 2 <= sp

\* "memory map: Stack, Free area, Heap" (mquickjs.c:205), with sp "always ...
\* higher than stack_bottom" (214): the heap ends where the stack begins at the
\* latest, whatever a frame was granted and calls in between.
NoOverlap == heap_free <= sp

\* "check that 'len' values can be pushed on the stack. Return 0 if OK": what
\* is granted lies above the heap.
GrantAboveHeap ==
  [][Len(frames') > Len(frames) => frames'[Len(frames')].limit >= heap_free']_vars
=============================================================================
