---------------------------- MODULE ArenaProofs ----------------------------
(***************************************************************************)
(* What Arena guarantees for every size of memory, slack and reserve, on a *)
(* build whose pointers are wider than uint32_t.                           *)
(***************************************************************************)
EXTENDS Arena, SequenceTheorems, TLAPS

\* The two words of the mark stack are part of the reserve: 256 bytes in the code.
HoldsMarkStack == MinCritical >= 2

\* The error object fits between the two reserves.
ErrorFits == MsgSize + ErrSize <= MinFree - MinCritical

Frame == [saved : Int, limit : Int]

Types ==
  /\ heap_free \in Nat /\ garbage \in Nat /\ garbage <= heap_free
  /\ sp \in Int /\ stack_bottom \in Int
  /\ frames \in Seq(Frame)
  /\ exception \in {"none", "error", "null"}
  /\ throwing \in {"no", "message", "object", "backtrace", "end"}
  /\ oom_count \in 0 .. 2

Reserve ==
  /\ min_free_size = IF in_out_of_memory THEN MinCritical ELSE MinFree
  /\ in_out_of_memory => oom_count > 0
  /\ stack_bottom <= MemSize
  /\ heap_free + MinCritical <= stack_bottom
  /\ oom_count = 0 => heap_free + MinFree <= stack_bottom

\* Each frame keeps to what it was granted, and the last check was its own or
\* that of a deeper call.
Stack ==
  /\ sp <= MemSize
  /\ frames = <<>> => sp = MemSize
  /\ frames # <<>> => Top.limit <= sp
  /\ \A i \in 1 .. Len(frames) :
       /\ sp <= frames[i].saved - Overhead
       /\ i = 1 => frames[i].saved = MemSize
       /\ i > 1 => frames[i - 1].limit <= frames[i].saved
       /\ \/ stack_bottom <= frames[i].limit - Slack
          \/ stack_bottom <= frames[i].saved - 2 * Overhead - Slack
       /\ \A j \in 1 .. (i - 1) : frames[i].saved <= frames[j].saved - Overhead

\* What is left of the reserve while the first error is being created.
FirstError == oom_count = 1 =>
  /\ throwing = "message" => heap_free + MinFree <= stack_bottom
  /\ throwing = "object" => heap_free + MinFree <= stack_bottom + MsgSize
  /\ throwing \in {"end", "no"} => exception = "error"

IInv == Types /\ Reserve /\ Stack

USE SizesAssumption, MinFreeAssumption
-----------------------------------------------------------------------------
\* A check that succeeds leaves the heap where it is or collects it, with room
\* for what was asked for and the reserve.
LEMMA CheckOK ==
  ASSUME Ptr64 = TRUE, Types, Reserve, NEW size \in Nat, NEW bottom \in Int,
         FreeMem(bottom, size)
  PROVE  LET hf == HeapAfterCheck(bottom, size) IN
         /\ hf \in Nat /\ hf <= heap_free
         /\ garbage' \in Nat /\ garbage' <= hf
         /\ hf + size + min_free_size <= bottom
BY DEF Types, Reserve, FreeMem, HeapAfterCheck, Fits

\* The stack is in order as long as it is left alone.
LEMMA StackSame ==
  Stack /\ UNCHANGED <<sp, stack_bottom, frames>> => Stack'
BY DEF Stack, Top

LEMMA InitInv == Init => IInv /\ FirstError
<1> SUFFICES ASSUME Init PROVE IInv /\ FirstError
  OBVIOUS
<1>1. frames = <<>> /\ Len(frames) = 0 /\ frames \in Seq(Frame)
  BY DEF Init
<1>2. Types
  BY <1>1 DEF Init, Types
<1>3. Reserve
  BY DEF Init, Reserve, in_out_of_memory
<1>4. Stack
  BY <1>1 DEF Init, Stack
<1> QED
  BY <1>2, <1>3, <1>4 DEF Init, IInv, FirstError

\* The failing checks: the heap is collected and an error is started.
LEMMA ThrowInv ==
  ASSUME IInv, FirstError, ~in_out_of_memory, ThrowOutOfMemory,
         UNCHANGED <<sp, stack_bottom, frames>>
  PROVE  IInv' /\ FirstError'
<1>1. Types'
  BY DEF IInv, Types, ThrowOutOfMemory
<1>2. Reserve'
  BY DEF IInv, Types, Reserve, ThrowOutOfMemory, in_out_of_memory
<1>3. Stack'
  BY StackSame DEF IInv
<1>4. FirstError'
  BY DEF IInv, Types, Reserve, FirstError, ThrowOutOfMemory, in_out_of_memory
<1> QED
  BY <1>1, <1>2, <1>3, <1>4 DEF IInv

LEMMA MallocInv ==
  ASSUME Ptr64 = TRUE, IInv, FirstError, NEW size \in 1 .. MaxAlloc, Malloc(size)
  PROVE  IInv' /\ FirstError'
<1> DEFINE hf == HeapAfterCheck(stack_bottom, size)
<1>1. /\ hf \in Nat /\ hf <= heap_free /\ garbage' \in Nat /\ garbage' <= hf
      /\ hf + size + min_free_size <= stack_bottom
  BY CheckOK DEF Malloc, IInv, Types
<1>2. heap_free' = hf + size /\ ~in_out_of_memory
  BY DEF Malloc
<1> HIDE DEF hf
<1>3. Types'
  BY <1>1, <1>2 DEF IInv, Types, Malloc
<1>4. Reserve'
  BY <1>1, <1>2 DEF IInv, Types, Reserve, Malloc, in_out_of_memory
<1>5. Stack'
  BY StackSame DEF IInv, Malloc
<1>6. FirstError'
  BY DEF FirstError, Malloc, in_out_of_memory
<1> QED
  BY <1>3, <1>4, <1>5, <1>6 DEF IInv

LEMMA DropInv ==
  ASSUME IInv, FirstError, NEW n \in 1 .. MaxAlloc, Drop(n) \/ FreeLast(n)
  PROVE  IInv' /\ FirstError'
<1>1. Types'
  BY DEF IInv, Types, Drop, FreeLast
<1>2. Reserve'
  BY DEF IInv, Types, Reserve, Drop, FreeLast, in_out_of_memory
<1>3. Stack'
  BY StackSame DEF IInv, Drop, FreeLast
<1>4. FirstError'
  BY DEF FirstError, Drop, FreeLast, in_out_of_memory
<1> QED
  BY <1>1, <1>2, <1>3, <1>4 DEF IInv

LEMMA CallInv ==
  ASSUME Ptr64 = TRUE, IInv, FirstError, NEW len \in 0 .. MaxLen, Call(len)
  PROVE  IInv' /\ FirstError'
<1> DEFINE bottom == sp - Overhead - len - Slack
           hf == HeapAfterCheck(bottom, len + Slack)
           f == [saved |-> sp, limit |-> sp - Overhead - len]
<1>0. len \in Nat /\ bottom \in Int /\ f \in Frame
      /\ f.saved = sp /\ f.limit = sp - Overhead - len
  BY DEF IInv, Types, Frame
<1>1. /\ hf \in Nat /\ hf <= heap_free /\ garbage' \in Nat /\ garbage' <= hf
      /\ hf + len + Slack + min_free_size <= bottom
  BY <1>0, CheckOK DEF Call, IInv, Types
<1>2. /\ heap_free' = hf /\ stack_bottom' = bottom /\ sp' = sp - Overhead
      /\ frames' = Append(frames, f) /\ ~in_out_of_memory
  BY DEF Call
<1>3. /\ Len(frames) \in Nat /\ Len(frames') = Len(frames) + 1
      /\ frames' \in Seq(Frame) /\ frames'[Len(frames) + 1] = f
      /\ \A i \in 1 .. Len(frames) : frames'[i] = frames[i]
  BY <1>0, <1>2 DEF IInv, Types
<1> HIDE DEF hf
<1>4. Types'
  BY <1>0, <1>1, <1>2, <1>3 DEF IInv, Types, Call
<1>5. sp \in Int /\ sp <= MemSize /\ min_free_size' = min_free_size
      /\ throwing' = throwing /\ oom_count' = oom_count /\ oom_count \in 0 .. 2
  BY DEF IInv, Types, Stack, Call
<1>6. Reserve'
  <2>1. /\ Reserve /\ bottom <= MemSize
    BY <1>0, <1>5 DEF IInv
  <2> QED
    BY <1>0, <1>1, <1>2, <1>5, <2>1 DEF Reserve, in_out_of_memory
<1>7. Stack'
  <2>1. sp' <= MemSize /\ frames' # <<>> /\ Top' = f
    BY <1>0, <1>2, <1>3 DEF IInv, Types, Stack, Top
  <2>2. ASSUME NEW i \in 1 .. Len(frames')
        PROVE  /\ sp' <= frames'[i].saved - Overhead
               /\ i = 1 => frames'[i].saved = MemSize
               /\ i > 1 => frames'[i - 1].limit <= frames'[i].saved
               /\ \/ stack_bottom' <= frames'[i].limit - Slack
                  \/ stack_bottom' <= frames'[i].saved - 2 * Overhead - Slack
               /\ \A j \in 1 .. (i - 1) : frames'[i].saved <= frames'[j].saved - Overhead
    <3>1. CASE i = Len(frames) + 1
      <4>1. i > 1 => frames'[i - 1] = Top /\ frames # <<>>
        BY <1>3, <3>1 DEF Top
      <4>2. i = 1 => frames = <<>>
        BY <1>3, <3>1 DEF IInv, Types
      <4>3. frames'[i] = f /\ sp \in Int
        BY <1>3, <3>1 DEF IInv, Types
      <4>4. /\ sp' <= f.saved - Overhead
            /\ stack_bottom' <= f.limit - Slack
        BY <1>0, <1>2, <4>3
      <4>5. /\ i = 1 => f.saved = MemSize
            /\ i > 1 => frames'[i - 1].limit <= f.saved
        BY <1>0, <4>1, <4>2 DEF IInv, Stack
      <4>6. ASSUME NEW j \in 1 .. (i - 1)
            PROVE  f.saved <= frames'[j].saved - Overhead
        <5>1. j \in 1 .. Len(frames) /\ frames'[j] = frames[j]
          BY <1>3, <3>1
        <5> QED
          BY <1>0, <5>1 DEF IInv, Stack
      <4> QED
        BY <4>3, <4>4, <4>5, <4>6
    <3>2. CASE i # Len(frames) + 1
      <4>1. i \in 1 .. Len(frames) /\ frames'[i] = frames[i]
        BY <1>3, <3>2
      <4>0. frames[i] \in Frame
        BY <4>1 DEF IInv, Types
      <4>7. frames[i].saved \in Int /\ frames[i].limit \in Int
        BY <4>0 DEF Frame
      <4>2. i > 1 => frames'[i - 1] = frames[i - 1]
        BY <1>3, <4>1
      <4>3. \A j \in 1 .. (i - 1) : frames'[j] = frames[j]
        BY <1>3, <4>1
      <4>4. /\ sp <= frames[i].saved - Overhead
            /\ i = 1 => frames[i].saved = MemSize
            /\ i > 1 => frames[i - 1].limit <= frames[i].saved
            /\ \A j \in 1 .. (i - 1) : frames[i].saved <= frames[j].saved - Overhead
        BY <4>1 DEF IInv, Stack
      <4>5. /\ sp' <= frames[i].saved - Overhead
            /\ stack_bottom' <= frames[i].saved - 2 * Overhead - Slack
        <5>1. sp \in Int /\ stack_bottom' = sp - Overhead - len - Slack
          BY <1>2 DEF IInv, Types
        <5>2. sp' = sp - Overhead /\ sp <= frames[i].saved - Overhead
          BY <1>2, <4>4
        <5> QED
          BY <1>0, <4>7, <5>1, <5>2
      <4> QED
        BY <4>1, <4>2, <4>3, <4>4, <4>5
    <3> QED
      BY <3>1, <3>2
  <2>3. f.limit <= sp'
    BY <1>0, <1>2 DEF IInv, Types
  <2> QED
    BY <2>1, <2>2, <2>3 DEF Stack
<1>8. FirstError'
  BY DEF FirstError, Call, in_out_of_memory
<1> QED
  BY <1>4, <1>6, <1>7, <1>8 DEF IInv

\* Pushing and popping move sp between the frame's limit and its top.
LEMMA MoveInv ==
  ASSUME IInv, FirstError, Push \/ Pop
  PROVE  IInv' /\ FirstError'
<1>1. /\ frames # <<>> /\ frames \in Seq(Frame) /\ sp \in Int
      /\ UNCHANGED <<heap_free, garbage, stack_bottom, frames, min_free_size,
                     exception, throwing, oom_count>>
  BY DEF IInv, Types, Push, Pop
<1>2. Len(frames) \in 1 .. Len(frames) /\ Top \in Frame
  BY <1>1 DEF Top
<1>3. Top.saved \in Int /\ Top.limit \in Int
  BY <1>2 DEF Frame
<1>4. sp' \in Int /\ Top.limit <= sp' /\ sp' <= Top.saved - Overhead
  <2>1. Top.limit <= sp /\ sp <= Top.saved - Overhead
    BY <1>1, <1>2 DEF IInv, Stack, Top
  <2> QED
    BY <1>1, <1>3, <2>1 DEF Push, Pop
<1>5. Types'
  BY <1>1, <1>4 DEF IInv, Types
<1>6. Reserve'
  BY <1>1 DEF IInv, Reserve, in_out_of_memory
<1>7. Stack'
  <2>1. ASSUME NEW i \in 1 .. Len(frames)
        PROVE  sp' <= frames[i].saved - Overhead /\ frames[i].saved \in Int
    <3>1. frames[i] \in Frame
      BY <1>1
    <3>2. frames[i].saved \in Int
      BY <3>1 DEF Frame
    <3>3. i = Len(frames) \/ i \in 1 .. (Len(frames) - 1)
      BY <1>1
    <3>4. Top.saved <= frames[i].saved
      <4>1. CASE i = Len(frames)
        BY <4>1, <1>3 DEF Top
      <4>2. CASE i \in 1 .. (Len(frames) - 1)
        <5>1. Top.saved <= frames[i].saved - Overhead
          BY <1>2, <4>2 DEF IInv, Stack, Top
        <5> QED
          BY <5>1, <1>3, <3>2
      <4> QED
        BY <3>3, <4>1, <4>2
    <3> QED
      BY <1>3, <1>4, <3>2, <3>4
  <2>2. \A i \in 1 .. Len(frames) : sp' <= frames[i].saved - Overhead
    BY <2>1
  <2>3. sp' <= MemSize
    <3>1. 1 \in 1 .. Len(frames)
      BY <1>2
    <3>2. frames[1].saved = MemSize
      BY <3>1 DEF IInv, Stack
    <3> QED
      BY <3>1, <3>2, <2>1, <1>4
  <2> QED
    BY <1>1, <1>4, <2>2, <2>3 DEF IInv, Stack, Top
<1>8. FirstError'
  BY <1>1 DEF FirstError
<1> QED
  BY <1>5, <1>6, <1>7, <1>8 DEF IInv

LEMMA ReturnInv ==
  ASSUME IInv, FirstError, Return
  PROVE  IInv' /\ FirstError'
<1> DEFINE n == Len(frames)
<1>1. /\ frames # <<>> /\ frames \in Seq(Frame) /\ n \in Nat /\ n >= 1
      /\ UNCHANGED <<heap_free, garbage, stack_bottom, min_free_size,
                     exception, throwing, oom_count>>
  BY DEF IInv, Types, Return
<1>0. n \in Nat /\ n >= 1
  BY <1>1
<1>2. n \in 1 .. n /\ Top = frames[n] /\ Top \in Frame
  BY <1>1 DEF Top
<1>3. Top.saved \in Int /\ Top.limit \in Int /\ sp' = Top.saved
  BY <1>2 DEF Frame, Return
<1>4. /\ frames' \in Seq(Frame) /\ Len(frames') = n - 1
      /\ \A i \in 1 .. (n - 1) : frames'[i] = frames[i]
  <2>1. frames' = SubSeq(frames, 1, n - 1)
    BY DEF Return
  <2>2. \A i \in 1 .. (n - 1) : frames[i] \in Frame
    BY <1>1
  <2> HIDE DEF n
  <2>3. n - 1 \in Int /\ n - 1 - 1 + 1 = n - 1 /\ (~(1 <= n - 1) => 0 = n - 1)
    BY <1>0
  <2>4. frames' \in Seq(Frame) /\ Len(frames') = n - 1
    BY <2>1, <2>2, <2>3, SubSeqProperties
  <2>5. \A i \in 1 .. (n - 1) : frames'[i] = frames[i]
    BY <1>1, <2>1, <2>2, <2>3, SubSeqProperties
  <2> QED
    BY <2>4, <2>5
<1>5. /\ n = 1 => Top.saved = MemSize
      /\ n > 1 => frames[n - 1].limit <= Top.saved
      /\ \A j \in 1 .. (n - 1) : Top.saved <= frames[j].saved - Overhead
  BY <1>2 DEF IInv, Stack
<1>6. Types'
  BY <1>1, <1>3, <1>4 DEF IInv, Types
<1>7. Reserve'
  BY <1>1 DEF IInv, Reserve, in_out_of_memory
<1>8. Stack'
  <2>1. frames' = <<>> => sp' = MemSize
    BY <1>1, <1>3, <1>4, <1>5
  <2>2. frames' # <<>> => Top'.limit <= sp'
    <3>1. frames' # <<>> => n > 1 /\ Len(frames') = n - 1 /\ n - 1 \in 1 .. (n - 1)
      BY <1>1, <1>4
    <3>2. frames' # <<>> => Top' = frames[n - 1]
      BY <3>1, <1>4 DEF Top
    <3> QED
      BY <3>1, <3>2, <1>3, <1>5
  <2>3. sp' <= MemSize
    <3>1. CASE n = 1
      BY <3>1, <1>3, <1>5
    <3>2. CASE n > 1
      <4>1. 1 \in 1 .. (n - 1) /\ 1 \in 1 .. n
        BY <3>2, <1>1
      <4>2. frames[1].saved = MemSize
        BY <4>1 DEF IInv, Stack
      <4>3. Top.saved <= MemSize - Overhead
        BY <4>1, <4>2, <1>5
      <4> QED
        BY <4>3, <1>3
    <3> HIDE DEF n
    <3>3. n = 1 \/ n > 1
      BY <1>0
    <3> QED
      BY <3>1, <3>2, <3>3
  <2>4. ASSUME NEW i \in 1 .. Len(frames')
        PROVE  /\ sp' <= frames'[i].saved - Overhead
               /\ i = 1 => frames'[i].saved = MemSize
               /\ i > 1 => frames'[i - 1].limit <= frames'[i].saved
               /\ \/ stack_bottom' <= frames'[i].limit - Slack
                  \/ stack_bottom' <= frames'[i].saved - 2 * Overhead - Slack
               /\ \A j \in 1 .. (i - 1) : frames'[i].saved <= frames'[j].saved - Overhead
    <3>1. i \in 1 .. (n - 1) /\ i \in 1 .. n /\ frames'[i] = frames[i]
      BY <1>1, <1>4
    <3>2. i > 1 => frames'[i - 1] = frames[i - 1]
      BY <1>4, <3>1
    <3>3. \A j \in 1 .. (i - 1) : frames'[j] = frames[j]
      BY <1>4, <3>1
    <3>4. sp' <= frames[i].saved - Overhead
      BY <1>3, <1>5, <3>1
    <3>5. /\ i = 1 => frames[i].saved = MemSize
          /\ i > 1 => frames[i - 1].limit <= frames[i].saved
          /\ \/ stack_bottom <= frames[i].limit - Slack
             \/ stack_bottom <= frames[i].saved - 2 * Overhead - Slack
          /\ \A j \in 1 .. (i - 1) : frames[i].saved <= frames[j].saved - Overhead
      BY <3>1 DEF IInv, Stack
    <3> QED
      BY <1>1, <3>1, <3>2, <3>3, <3>4, <3>5
  <2> QED
    BY <2>1, <2>2, <2>3, <2>4 DEF Stack
<1>9. FirstError'
  BY <1>1 DEF FirstError
<1> QED
  BY <1>6, <1>7, <1>8, <1>9 DEF IInv

\* Every allocation of JS_ThrowOutOfMemory, made or not, keeps the reserve.
LEMMA OomAlloc ==
  ASSUME Ptr64 = TRUE, IInv, in_out_of_memory, NEW size \in Nat,
         \/ /\ FreeMem(stack_bottom, size)
            /\ heap_free' = HeapAfterCheck(stack_bottom, size) + size
         \/ /\ NoMem(stack_bottom, size)
            /\ heap_free' = heap_free - garbage
            /\ garbage' = 0
  PROVE  /\ heap_free' \in Nat /\ garbage' \in Nat /\ garbage' <= heap_free'
         /\ heap_free' + MinCritical <= stack_bottom
         /\ heap_free' <= heap_free + size
<1>0. /\ heap_free \in Nat /\ garbage \in Nat /\ garbage <= heap_free
      /\ stack_bottom \in Int /\ min_free_size = MinCritical
      /\ heap_free + MinCritical <= stack_bottom
  BY DEF IInv, Types, Reserve
<1> DEFINE hf == HeapAfterCheck(stack_bottom, size)
<1>1. CASE FreeMem(stack_bottom, size) /\ heap_free' = hf + size
  <2>1. /\ hf \in Nat /\ hf <= heap_free /\ garbage' \in Nat /\ garbage' <= hf
        /\ hf + size + min_free_size <= stack_bottom
    BY <1>1, CheckOK DEF IInv, Types
  <2> HIDE DEF hf
  <2> QED
    BY <1>0, <1>1, <2>1
<1>2. CASE heap_free' = heap_free - garbage /\ garbage' = 0
  BY <1>0, <1>2
<1> QED
  BY <1>1, <1>2

\* A step of JS_ThrowOutOfMemory disturbs only the heap and its own progress.
LEMMA StepInv ==
  ASSUME IInv, in_out_of_memory, heap_free' \in Nat, garbage' \in Nat,
         garbage' <= heap_free', heap_free' + MinCritical <= stack_bottom,
         throwing' \in {"object", "backtrace", "end"},
         exception' \in {exception, "error", "null"},
         UNCHANGED <<sp, stack_bottom, frames, min_free_size, oom_count>>
  PROVE  IInv'
<1>1. oom_count > 0 /\ in_out_of_memory'
  BY DEF IInv, Reserve, in_out_of_memory
<1>2. Types'
  BY DEF IInv, Types
<1>3. Reserve'
  <2>1. min_free_size' = MinCritical /\ stack_bottom' <= MemSize
    BY DEF IInv, Reserve
  <2>2. oom_count' # 0 /\ oom_count' > 0
    BY <1>1 DEF IInv, Types
  <2> QED
    BY <1>1, <2>1, <2>2 DEF Reserve
<1>4. Stack'
  BY StackSame DEF IInv
<1> QED
  BY <1>2, <1>3, <1>4 DEF IInv

\* The steps of JS_ThrowOutOfMemory: when the first error is created the room
\* below the full reserve is still there, so no step of it fails.
LEMMA OomInv ==
  ASSUME Ptr64 = TRUE, ErrorFits, IInv, FirstError,
         OomMessage \/ OomObject \/ OomBacktrace \/ OomEnd
  PROVE  IInv' /\ FirstError'
<1>1. /\ heap_free \in Nat /\ garbage \in Nat /\ garbage <= heap_free
      /\ stack_bottom \in Int /\ oom_count > 0 /\ min_free_size = MinCritical
      /\ in_out_of_memory
  BY DEF IInv, Types, Reserve, in_out_of_memory, OomMessage, OomObject,
         OomBacktrace, OomEnd, OomStep
<1>2. CASE OomMessage
  <2>1. /\ heap_free' \in Nat /\ garbage' \in Nat /\ garbage' <= heap_free'
        /\ heap_free' + MinCritical <= stack_bottom
        /\ heap_free' <= heap_free + MsgSize
    BY <1>1, <1>2, OomAlloc DEF OomMessage, OomStep
  <2>5. /\ throwing' \in {"object", "backtrace", "end"}
        /\ exception' \in {exception, "null"}
        /\ UNCHANGED <<sp, stack_bottom, frames, min_free_size, oom_count>>
    BY <1>2 DEF OomMessage, OomStep
  <2>2. IInv'
    BY <1>1, <2>1, <2>5, StepInv
  <2>3. throwing = "message" /\ throwing' = "object" /\ oom_count' = oom_count
    BY <1>2 DEF OomMessage, OomStep
  <2>4. ASSUME oom_count = 1
        PROVE  heap_free' + MinFree <= stack_bottom' + MsgSize
    <3>1. heap_free + MinFree <= stack_bottom /\ stack_bottom' = stack_bottom
      BY <2>3, <2>4, <2>5 DEF FirstError
    <3>2. PICK h \in Nat : h = heap_free' /\ h <= heap_free + MsgSize
      BY <2>1
    <3>4. h <= heap_free + MsgSize /\ heap_free + MinFree <= stack_bottom
          /\ heap_free \in Nat /\ stack_bottom \in Int
      BY <1>1, <3>1, <3>2
    <3>3. h + MinFree <= stack_bottom + MsgSize
      BY <3>4
    <3> QED
      BY <3>1, <3>2, <3>3
  <2>6. FirstError'
    BY <2>3, <2>4 DEF FirstError
  <2> QED
    BY <2>2, <2>6
<1>3. CASE OomObject
  <2>1. /\ heap_free' \in Nat /\ garbage' \in Nat /\ garbage' <= heap_free'
        /\ heap_free' + MinCritical <= stack_bottom
    BY <1>1, <1>3, OomAlloc DEF OomObject, OomStep
  <2>5. /\ throwing' \in {"object", "backtrace", "end"}
        /\ exception' \in {exception, "null"}
        /\ UNCHANGED <<sp, stack_bottom, frames, min_free_size, oom_count>>
    BY <1>3 DEF OomObject, OomStep
  <2>2. IInv'
    BY <1>1, <2>1, <2>5, StepInv
  <2>3. oom_count = 1 => ~NoMem(stack_bottom, ErrSize)
    <3>1. throwing = "object"
      BY <1>3 DEF OomObject, OomStep
    <3>2. oom_count = 1 => heap_free + MinFree <= stack_bottom + MsgSize
      BY <3>1 DEF FirstError
    <3>3. oom_count = 1 => stack_bottom - heap_free >= ErrSize + MinCritical
      BY <1>1, <3>2 DEF ErrorFits
    <3> QED
      BY <1>1, <3>3 DEF NoMem, Fits
  <2>4. FirstError'
    BY <1>1, <1>3, <2>3 DEF FirstError, OomObject, OomStep
  <2> QED
    BY <2>2, <2>4
<1>4. CASE OomBacktrace
  <2>1. /\ heap_free' \in Nat /\ garbage' \in Nat /\ garbage' <= heap_free'
        /\ heap_free' + MinCritical <= stack_bottom
    <3>1. PICK size \in 0 .. MaxAlloc :
            \/ /\ FreeMem(stack_bottom, size)
               /\ heap_free' = HeapAfterCheck(stack_bottom, size) + size
            \/ /\ NoMem(stack_bottom, size)
               /\ heap_free' = heap_free - garbage
               /\ garbage' = 0
      BY <1>4 DEF OomBacktrace
    <3> QED
      BY <1>1, <3>1, OomAlloc
  <2>5. /\ throwing' = "end" /\ exception' = "error"
        /\ UNCHANGED <<sp, stack_bottom, frames, min_free_size, oom_count>>
    BY <1>4 DEF OomBacktrace
  <2>2. IInv'
    BY <1>1, <2>1, <2>5, StepInv
  <2> QED
    BY <1>4, <2>2 DEF FirstError, OomBacktrace
<1>5. CASE OomEnd
  <2>1. IInv'
    BY <1>1, <1>5, StackSame DEF IInv, Types, Reserve, OomEnd, in_out_of_memory
  <2> QED
    BY <1>5, <2>1 DEF FirstError, OomEnd
<1> QED
  BY <1>2, <1>3, <1>4, <1>5

LEMMA NextInv ==
  ASSUME Ptr64 = TRUE, ErrorFits, IInv, FirstError, [Next]_vars
  PROVE  IInv' /\ FirstError'
<1>1. CASE UNCHANGED vars
  BY <1>1, StackSame
  DEF vars, IInv, FirstError, Types, Reserve, in_out_of_memory
<1>2. ASSUME NEW size \in 1 .. MaxAlloc, MallocFails(size)
      PROVE  IInv' /\ FirstError'
  BY <1>2, ThrowInv DEF MallocFails
<1>3. ASSUME NEW len \in 0 .. MaxLen, CallFails(len)
      PROVE  IInv' /\ FirstError'
  BY <1>3, ThrowInv DEF CallFails
<1> QED
  BY <1>1, <1>2, <1>3, MallocInv, DropInv, CallInv, MoveInv, ReturnInv, OomInv
  DEF Next
-----------------------------------------------------------------------------
THEOREM Invariance ==
  ASSUME Ptr64 = TRUE, ErrorFits
  PROVE  Spec => [](IInv /\ FirstError)
<1>1. IInv /\ FirstError /\ [Next]_vars => (IInv /\ FirstError)'
  BY NextInv
<1> QED
  BY InitInv, <1>1, PTL DEF Spec

\* Every variable keeps its type; the heap never grows past the stack's top.
THEOREM TypeCorrect ==
  ASSUME Ptr64 = TRUE, ErrorFits
  PROVE  Spec => []TypeOK
<1>1. IInv => TypeOK
  BY DEF IInv, Types, Reserve, Stack, TypeOK, Frame
<1> QED
  BY <1>1, Invariance, PTL

\* The reserve between the heap and the lowest address granted to the stack is
\* kept by every operation, JS_ThrowOutOfMemory included.
THEOREM ReserveIsKept ==
  ASSUME Ptr64 = TRUE, ErrorFits
  PROVE  Spec => []ReserveKept
<1>1. IInv => ReserveKept
  BY DEF IInv, Reserve, ReserveKept
<1> QED
  BY <1>1, Invariance, PTL

\* The reserve is large enough for the first out of memory error.
THEOREM FirstErrorIsAnError ==
  ASSUME Ptr64 = TRUE, ErrorFits
  PROVE  Spec => []OomGivesError
<1>1. FirstError => OomGivesError
  BY DEF FirstError, OomGivesError
<1> QED
  BY <1>1, Invariance, PTL

\* A return does not restore stack_bottom, but the stack stays above the heap, two
\* words of the mark stack between them, for every size of the frames: while no
\* frame runs, while the grant of the running frame or a lower one is the last, and
\* while the frame has not pushed more than the reserve and the grant of a nested
\* call cover.
THEOREM HeapAndStackApart ==
  ASSUME Ptr64 = TRUE, ErrorFits, HoldsMarkStack
  PROVE  Spec => []ApartWithinReserve
<1>1. ASSUME IInv, frames = <<>> \/ OwnGrant \/ WithinReserve
      PROVE  heap_free + 2 <= sp
  <2>1. /\ heap_free \in Nat /\ sp \in Int /\ stack_bottom \in Int
        /\ frames \in Seq(Frame) /\ stack_bottom <= MemSize
        /\ heap_free + MinCritical <= stack_bottom
    BY <1>1 DEF IInv, Types, Reserve
  <2>2. CASE frames = <<>>
    BY <2>1, <2>2, <1>1 DEF IInv, Stack, HoldsMarkStack
  <2>3. CASE frames # <<>>
    <3>1. Len(frames) \in 1 .. Len(frames) /\ Top \in Frame
      BY <2>1, <2>3 DEF Top
    <3>2. Top.saved \in Int /\ Top.limit \in Int
      BY <3>1 DEF Frame
    <3>3. /\ Top.limit <= sp
          /\ \/ stack_bottom <= Top.limit - Slack
             \/ stack_bottom <= Top.saved - 2 * Overhead - Slack
      BY <3>1, <2>3, <1>1 DEF IInv, Stack, Top
    <3>4. CASE stack_bottom <= Top.limit - Slack
      BY <2>1, <3>2, <3>3, <3>4 DEF HoldsMarkStack
    <3>5. CASE ~(stack_bottom <= Top.limit - Slack)
      <4>1. Top.saved - sp <= 2 * Overhead + Slack + MinCritical - 2
        BY <1>1, <2>3, <3>5 DEF OwnGrant, WithinReserve
      <4> QED
        BY <2>1, <3>2, <3>3, <3>5, <4>1
    <3> QED
      BY <3>4, <3>5
  <2> QED
    BY <2>2, <2>3
<1>2. IInv => ApartWithinReserve
  BY <1>1 DEF ApartWithinReserve
<1> QED
  BY <1>2, Invariance, PTL
=============================================================================
