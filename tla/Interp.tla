------------------------------- MODULE Interp ------------------------------
\* JS_Call: the bytecode of Codegen executed, with the stack of operands, catch
\* offsets and return addresses of finally blocks, calls, exceptions and interrupts.
\*
\* What an instruction asks of the rest of the engine (a variable, a property, a sum)
\* is an event of `hist`, with any answer, an exception among them.  At most MaxOdd
\* answers are not the usual one, so that loops end.
EXTENDS Codegen, Semantics

CONSTANTS
  Programs,     \* sequence of function bodies
  Functions,    \* sequence of the bodies that a call may name
  MaxOdd

MaxOddAssumption == MaxOdd \in Nat

VARIABLES
  prog,         \* the program that runs
  bytecodes,    \* what the parser made: the program, then Functions
  frames,       \* frames of JS_Call: function, pc, operands; the running one last
  hist,         \* what was asked and answered
  exception,    \* JS_EXCEPTION was returned: [raised, v, uncatchable]
  result        \* how the outermost call ended

vars == <<prog, bytecodes, frames, hist, exception, result>>

Word(tag, v) == [tag |-> tag, v |-> v]
Val(v) == Word("val", v)

NoException == [raised |-> FALSE, v |-> NoValue, uncatchable |-> FALSE]
Running == [k |-> "running", v |-> NoValue]

Frame(f) == [f |-> f, pc |-> 1, sp |-> <<>>]

Init ==
  /\ prog \in DOMAIN Programs
  /\ bytecodes = [f \in 1 .. Len(Functions) + 1 |->
                    js_parse_function(IF f = 1 THEN Programs[prog] ELSE Functions[f - 1])]
  /\ frames = <<Frame(1)>>
  /\ hist = <<>>
  /\ exception = NoException
  /\ result = IF bytecodes[1].accepted THEN Running ELSE [k |-> "rejected", v |-> NoValue]

Fp == Last(frames)
Sp == Fp.sp
ins == bytecodes[Fp.f].code[Fp.pc]
Executing == result = Running /\ ~exception.raised

SetFrame(fr) == Append(Front(frames), fr)

\* The operands of the instruction, and the stack without them.
Args(n) == SubSeq(Sp, Len(Sp) - n + 1, Len(Sp))
Below(n) == SubSeq(Sp, 1, Len(Sp) - n)
ArgValues(n) == [i \in 1 .. n |-> Args(n)[i].v]

Go(pc, sp) ==
  /\ frames' = SetFrame([Fp EXCEPT !.pc = pc, !.sp = sp])
  /\ UNCHANGED <<exception, result>>
Next_pc(sp) == Go(Fp.pc + 1, sp)

Raise(v, uncatchable) ==
  /\ exception' = [raised |-> TRUE, v |-> v, uncatchable |-> uncatchable]
  /\ UNCHANGED <<frames, result>>

Odd(h) == Len(SelectSeq(h, LAMBDA x : x.out # 0 \/ x = Interrupt))
MayBeOdd == Odd(hist) < MaxOdd

----------------------------------------------------------------------------
\* Instructions that move operands: what the new ones are in terms of the old ones.
Moves ==
  [ drop |-> <<>>, nip |-> <<2>>, dup |-> <<1, 1>>, dup2 |-> <<1, 2, 1, 2>>,
    swap |-> <<2, 1>>, insert2 |-> <<2, 1, 2>>, insert3 |-> <<3, 1, 2, 3>>,
    perm3 |-> <<2, 1, 3>>, perm4 |-> <<3, 1, 2, 4>>, rot3l |-> <<2, 3, 1>> ]

Move ==
  /\ Executing /\ ins.op \in DOMAIN Moves
  /\ LET n == n_pop(ins)
         m == Moves[ins.op]
     IN Next_pc(Below(n) \o [i \in 1 .. Len(m) |-> Args(n)[m[i]]])
  /\ UNCHANGED <<prog, bytecodes, hist>>

Push ==
  /\ Executing
  /\ \/ ins.op = "undefined" /\ Next_pc(Append(Sp, Val(NoValue)))
     \/ ins.op = "push_func" /\ Next_pc(Append(Sp, Word("func", ins.n)))
  /\ UNCHANGED <<prog, bytecodes, hist>>

\* Instructions that ask.  get_field2 leaves the object; post_inc leaves the old value
\* as a number; for_of_next leaves the iterator and a flag that is true at the end.
Asking ==
  {"get_var_ref", "put_var_ref", "put_loc", "get_field", "get_field2", "put_field",
   "get_array_el", "put_array_el", "add", "inc", "post_inc", "strict_eq",
   "array_from", "for_of_start", "for_of_next"}
Writing == {"put_var_ref", "put_loc", "put_field", "put_array_el"}

Answers(op) ==
  (IF op \in Writing \cup {"array_from", "for_of_start"} THEN {0} ELSE {0, 1})
  \cup (IF op \in {"put_loc", "strict_eq", "for_of_next"} THEN {} ELSE {Threw})

Results(op, id, args, out) ==
  CASE op \in Writing       -> <<>>
    [] op = "get_field2"    -> args \o <<Val(Value(op, id, out))>>
    [] op = "post_inc"      -> <<Val(Converted(id)), Val(Value(op, id, out))>>
    [] op = "for_of_start"  -> <<Word("iter", id)>>
    [] op = "for_of_next"   -> args \o (IF out = 0 THEN <<Val(NoValue), Val(1)>>
                                        ELSE <<Val(Value(op, id, out)), Val(NoValue)>>)
    [] OTHER                -> <<Val(Value(op, id, out))>>

Ask ==
  /\ Executing /\ ins.op \in Asking
  /\ \E out \in Answers(ins.op) :
       /\ out # 0 => MayBeOdd
       /\ hist' = Append(hist, [op   |-> IF ins.op = "get_field2" THEN "get_field" ELSE ins.op,
                                id   |-> ins.id,
                                args |-> ArgValues(n_pop(ins)), out |-> out])
       /\ IF out = Threw THEN Raise(ins.id, FALSE)
          ELSE Next_pc(Below(n_pop(ins))
                         \o Results(ins.op, ins.id, Args(n_pop(ins)), out))
  /\ UNCHANGED <<prog, bytecodes>>

----------------------------------------------------------------------------
\* Jumps.  The interrupt handler may be called at each of them, and at each call.
Jump ==
  /\ Executing
  /\ \/ ins.op = "goto" /\ Go(ins.n, Sp)
     \/ /\ ins.op \in {"if_true", "if_false"}
        /\ Go(IF Truthy(Last(Sp).v) <=> ins.op = "if_true" THEN ins.n ELSE Fp.pc + 1,
              Front(Sp))
  /\ UNCHANGED <<prog, bytecodes, hist>>

PollInterrupt ==
  /\ Executing /\ ins.op \in {"goto", "if_true", "if_false", "call"}
  /\ MayBeOdd
  /\ hist' = Append(hist, Interrupt)
  /\ Raise(NoValue, TRUE)
  /\ UNCHANGED <<prog, bytecodes>>

\* A catch offset stays on the stack while the block it protects runs, the address to
\* return to while a finally block does.
Catch ==
  /\ Executing /\ ins.op = "catch"
  /\ Next_pc(Append(Sp, Word("catch", ins.n)))
  /\ UNCHANGED <<prog, bytecodes, hist>>

Gosub ==
  /\ Executing /\ ins.op = "gosub"
  /\ Go(ins.n, Append(Sp, Word("int", Fp.pc + 1)))
  /\ UNCHANGED <<prog, bytecodes, hist>>

Ret ==
  /\ Executing /\ ins.op = "ret"
  /\ IF Last(Sp).tag = "int" THEN Go(Last(Sp).v, Front(Sp)) ELSE Raise(NoValue, FALSE)
  /\ UNCHANGED <<prog, bytecodes, hist>>

Throw ==
  /\ Executing /\ ins.op = "throw"
  /\ Raise(Last(Sp).v, FALSE)
  /\ UNCHANGED <<prog, bytecodes, hist>>

----------------------------------------------------------------------------
\* The frame of a function is made after the stack check, which may fail.
JS_Call ==
  /\ Executing /\ ins.op = "call"
  /\ LET n == n_pop(ins)
         f == Args(n)[1]
     IN \E out \in {0, Threw} :
          /\ out # 0 => MayBeOdd
          /\ hist' = Append(hist, [op |-> "call", id |-> ins.id,
                                   args |-> Tail(ArgValues(n)), out |-> out])
          /\ IF out = Threw THEN Raise(ins.id, FALSE)
             ELSE /\ f.tag = "func"
                  /\ frames' = Append(SetFrame([Fp EXCEPT !.pc = @ + 1, !.sp = Below(n)]),
                                      Frame(f.v + 1))
                  /\ UNCHANGED <<exception, result>>
  /\ UNCHANGED <<prog, bytecodes>>

Return ==
  /\ Executing /\ ins.op \in {"return", "return_undef"}
  /\ LET v == IF ins.op = "return" THEN Last(Sp).v ELSE NoValue
     IN IF Len(frames) = 1
        THEN result' = [k |-> "return", v |-> v] /\ UNCHANGED frames
        ELSE /\ frames' = LET fs == Front(frames)
                          IN Append(Front(fs), [Last(fs) EXCEPT !.sp = Append(@, Val(v))])
             /\ UNCHANGED result
  /\ UNCHANGED <<prog, bytecodes, hist, exception>>

\* The label `exception`: the stack of the function is searched for a catch offset.
Handlers == {i \in 1 .. Len(Sp) : Sp[i].tag = "catch"}

\* Mutant: the interrupt is an exception as any other.
Caught_interrupt ==
  /\ exception.raised /\ result = Running /\ Handlers # {}
  /\ frames' = LET i == Max(Handlers)
               IN SetFrame([Fp EXCEPT !.pc = Sp[i].v,
                                      !.sp = Append(SubSeq(Sp, 1, i - 1), Val(exception.v))])
  /\ exception' = NoException
  /\ UNCHANGED <<prog, bytecodes, hist, result>>

Caught ==
  /\ exception.raised /\ result = Running
  /\ ~exception.uncatchable /\ Handlers # {}
  /\ frames' = LET i == Max(Handlers)
               IN SetFrame([Fp EXCEPT !.pc = Sp[i].v,
                                      !.sp = Append(SubSeq(Sp, 1, i - 1), Val(exception.v))])
  /\ exception' = NoException
  /\ UNCHANGED <<prog, bytecodes, hist, result>>

\* No handler: the function returns, and its caller has the exception.
Unwind ==
  /\ exception.raised /\ result = Running
  /\ exception.uncatchable \/ Handlers = {}
  /\ IF Len(frames) > 1
     THEN frames' = Front(frames) /\ UNCHANGED <<exception, result>>
     ELSE /\ result' = [k |-> IF exception.uncatchable THEN "intr" ELSE "throw",
                        v |-> exception.v]
          /\ exception' = NoException
          /\ UNCHANGED frames
  /\ UNCHANGED <<prog, bytecodes, hist>>

\* The host has the result, or the syntax error.
Done == result # Running /\ UNCHANGED vars

Next ==
  \/ Move \/ Push \/ Ask \/ Jump \/ PollInterrupt \/ Catch \/ Gosub \/ Ret \/ Throw
  \/ JS_Call \/ Return \/ Caught \/ Unwind \/ Done

Spec == Init /\ [][Next]_vars

----------------------------------------------------------------------------
Tags == {"val", "func", "iter", "catch", "int"}

\* Every frame is at an instruction of its function and finds its operands there.
TypeOK ==
  /\ DOMAIN bytecodes = 1 .. Len(Functions) + 1
  /\ result.k \in {"running", "rejected", "return", "throw", "intr"}
  /\ result = Running =>
       \A k \in 1 .. Len(frames) :
         LET fr == frames[k] IN
         /\ fr.f \in DOMAIN bytecodes
         /\ fr.pc \in 1 .. Len(bytecodes[fr.f].code)
         /\ \A i \in 1 .. Len(fr.sp) : fr.sp[i].tag \in Tags /\ fr.sp[i].v \in Int
  /\ Executing => Len(Sp) >= n_pop(ins)

\* The parser refuses a program if and only if a break or continue in it has nothing to
\* refer to, and what it emits for the others reaches each place with one stack depth,
\* so that the errors of compute_stack_size are never raised.
AcceptsLegal ==
  /\ result.k # "rejected" <=> AllLegal(Programs[prog], {}, {})
  /\ bytecodes[1].consistent

Interrupted(c) == c.h = <<Interrupt>> \/ (c.k = "intr" /\ c.h = <<>>)

EndsAs(c) ==
  /\ c.k # "wrong"
  /\ c.h = <<>> \/ Interrupted(c)
  /\ CASE result.k = "intr"   -> Interrupted(c)
       [] result.k = "throw"  -> c.k = "throw" /\ c.v = result.v /\ c.h = <<>>
       [] result.k = "return" -> /\ c.k \in {"normal", "return"} /\ c.h = <<>>
                                 /\ c.k = "return" => c.v = result.v
                                 /\ c.k = "normal" => result.v = NoValue

\* Whatever was answered, and wherever an exception or an interrupt came, the events of
\* the bytecode are those of the program as the language has it, in their order and with
\* their values, and the function ends as it must: finally blocks run once on each way
\* out, but not for an interrupt, with the right jump, value or exception after them.
Conforms ==
  result.k \notin {"running", "rejected"} => EndsAs(RunAll(Functions, Programs[prog], hist))

\* At each place that compute_stack_size came to, the operands of the running function
\* are as many as it found: no way through the code leaves one behind or takes one more.
DepthAsComputed ==
  /\ TypeOK
  /\ Executing => \A x \in bytecodes[Fp.f].reached : x[1] = Fp.pc => x[2] = Len(Sp)

\* The field stack_size of a function is "maximum stack size" (mquickjs.c:360): the
\* operands of a function are never more.
WithinStackSize ==
  result = Running =>
    \A k \in 1 .. Len(frames) : Len(frames[k].sp) <= bytecodes[frames[k].f].stack_size

============================================================================
