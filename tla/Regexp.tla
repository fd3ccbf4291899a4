------------------------------- MODULE Regexp -------------------------------
\* Regular expressions: js_parse_regexp, which compiles a pattern in one pass with its own
\* stack of calls, and lre_exec, the backtracking matcher, whose saved states and undone
\* captures are on the JS stack.
EXTENDS RegexpCode

CONSTANTS
  Inputs,               \* patterns: [toks, fl, subjects, starts, disturbed]
  CAPTURE_COUNT_MAX,
  REGISTER_COUNT_MAX,
  STACK_SLACK,
  StackSize             \* cells of the JS stack that the memory has room for

RegexpAssumption ==
  /\ CAPTURE_COUNT_MAX \in Nat \ {0} /\ REGISTER_COUNT_MAX \in Nat
  /\ STACK_SLACK \in Nat /\ StackSize \in Nat

VARIABLES
  input,                \* the pattern, and what it is matched with
  phase,                \* "parse", "error", "compiled", "exec", "done"
  ps,                   \* the parser: buf_pos, code, capture_count, last_term_start, stack
  call,                 \* the call of lre_exec: the string, the index, how it ended
  x,                    \* lre_exec: pc, cptr, capture, its part of the JS stack, bp
  ctx                   \* ctx->sp and ctx->stack_bottom, from the sp of the call

vars == <<input, phase, ps, call, x, ctx>>

Disjunction(start) == [fn |-> "disjunction", start |-> start, pos |-> -1]
NoCall == [str |-> <<>>, cindex |-> 0, ret |-> "none"]
Idle == [pc |-> 0, cptr |-> 0, capture |-> <<>>, st |-> <<>>, bp |-> 0]
AtCall == [sp |-> 0, bottom |-> STACK_SLACK]

Init ==
  /\ input \in Inputs
  /\ phase = "parse"
  /\ ps = [i |-> 0, code |-> Prologue(input.fl), capture_count |-> 1, last_term |-> -1,
           stack |-> <<Disjunction(Len(Prologue(input.fl)))>>]
  /\ call = NoCall /\ x = Idle /\ ctx = AtCall

-----------------------------------------------------------------------------
(* Compilation. *)
AtEnd == ps.i = Len(input.toks)
Parsing(ts) == phase = "parse" /\ ~AtEnd /\ input.toks[ps.i + 1].t \in ts
tok == input.toks[ps.i + 1]
AtomTokens == {"char", ".", "class", "esc", "back"}

To(p) == ps' = p /\ UNCHANGED <<input, phase, call, x, ctx>>
js_parse_error == phase' = "error" /\ UNCHANGED <<input, ps, call, x, ctx>>

(* The end of a term of an alternative: its quantifier, and the joining of *)
(* characters.  atom is -1 after an assertion, that cannot be repeated.    *)
HasQuant(p, atom) == atom >= 0 /\ p.i < Len(input.toks) /\ input.toks[p.i + 1].t = "quant"
EndOfTerm(p, last_term, term, code) ==
  To(IF Combinable(code, last_term, term)
     THEN [p EXCEPT !.code = Combine(code, last_term, term), !.last_term = last_term]
     ELSE [p EXCEPT !.code = code, !.last_term = term])
Repeated(p, last_term, term, atom, captures, q) ==
  IF q.min > q.max THEN js_parse_error
  ELSE EndOfTerm([p EXCEPT !.i = @ + 1], last_term, term,
                 re_parse_quantifier(p.code, atom, captures, p.capture_count, q))
AfterTerm(p, last_term, term, atom, captures) ==
  IF HasQuant(p, atom) THEN Repeated(p, last_term, term, atom, captures, input.toks[p.i + 1])
  ELSE EndOfTerm(p, last_term, term, p.code)

Advance(cells) == [ps EXCEPT !.i = @ + 1, !.code = @ \o cells]
ParseAtom ==
  /\ Parsing(AtomTokens)
  /\ IF \/ tok.t = "class" /\ \E k \in DOMAIN tok.items : tok.items[k].hi < tok.items[k].lo
        \/ tok.t = "back" /\ tok.n > CAPTURE_COUNT_MAX
     THEN js_parse_error
     ELSE AfterTerm(Advance(AtomCode(tok, input.fl)), ps.last_term, Len(ps.code), Len(ps.code), ps.capture_count)
ParseAssertion ==
  /\ Parsing(Assertions)
  /\ AfterTerm(Advance(AssertionCode(tok.t, input.fl)), ps.last_term, Len(ps.code), -1, 0)
NothingToRepeat == Parsing({"quant"}) /\ js_parse_error

(* A group: what re_parse_alternative keeps on the stack while it calls     *)
(* re_parse_disjunction.                                                    *)
Lookahead == {"(?=", "(?!"}
OpenCode(t) == CASE t = "(" -> <<REOP.save_start, ps.capture_count>>
                 [] t = "(?:" -> <<>>
                 [] t = "(?=" -> re_emit_op_u32(REOP.lookahead, 0)
                 [] t = "(?!" -> re_emit_op_u32(REOP.negative_lookahead, 0)
Alternative(t) == [fn |-> "alternative", open |-> t, last_term |-> ps.last_term, term |-> Len(ps.code),
                   atom |-> IF t \in Lookahead THEN -1 ELSE Len(ps.code),
                   captures |-> ps.capture_count, pos |-> Len(ps.code) + 1]
OpenGroup ==
  /\ Parsing(Openers)
  /\ IF tok.t = "(" /\ ps.capture_count >= CAPTURE_COUNT_MAX THEN js_parse_error
     ELSE To([Advance(OpenCode(tok.t)) EXCEPT
                !.capture_count = @ + B2I(tok.t = "("), !.last_term = -1,
                !.stack = @ \o <<Alternative(tok.t), Disjunction(Len(ps.code \o OpenCode(tok.t)))>>])

(* re_parse_disjunction, when an alternative returns to it. *)
Patched(code, pos) == IF pos < 0 THEN code ELSE Patch(code, pos, Len(code) - (pos + 4))
NextAlternative ==
  /\ Parsing({"|"})
  /\ LET d == Last(ps.stack)
         code == Patched(ps.code, d.pos)
         split == emit_insert(code, d.start, re_emit_op_u32(REOP.split_next_first, Len(code) - d.start + 5))
     IN  To([ps EXCEPT !.i = @ + 1, !.last_term = -1, !.code = split \o re_emit_op_u32(REOP.goto, 0),
                       !.stack = Append(Front(@), [d EXCEPT !.pos = Len(split) + 1])])

CloseCode(a, code) ==
  CASE a.open = "(" -> code \o <<REOP.save_end, a.captures>>
    [] a.open = "(?:" -> code
    [] a.open \in Lookahead -> Patched(code \o <<REOP.lookahead_match + B2I(a.open = "(?!")>>, a.pos)
CloseGroup ==
  /\ phase = "parse" /\ Len(ps.stack) > 1 /\ (AtEnd \/ Parsing({")"}))
  /\ LET d == Last(ps.stack)
         a == ps.stack[Len(ps.stack) - 1]
         code == CloseCode(a, Patched(ps.code, d.pos))
     IN  IF AtEnd THEN js_parse_error
         ELSE AfterTerm([ps EXCEPT !.i = @ + 1, !.code = code, !.stack = SubSeq(@, 1, Len(@) - 2)],
                        a.last_term, a.term, a.atom, a.captures)

(* The end of js_parse_regexp. *)
Finish ==
  /\ phase = "parse" /\ Len(ps.stack) = 1 /\ (AtEnd \/ Parsing({")"}))
  /\ LET r == re_compute_register_count(Patched(ps.code, ps.stack[1].pos) \o <<REOP.save_end, 0, REOP.match>>)
     IN  IF ~AtEnd \/ r.max > REGISTER_COUNT_MAX \/ ~BackReferencesValid(r.code, ps.capture_count)
         THEN js_parse_error
         ELSE /\ phase' = "compiled"
              /\ ps' = [ps EXCEPT !.code = r.code, !.stack = <<[registers |-> r.max, underflow |-> r.underflow \/ r.size # 0]>>]
              /\ UNCHANGED <<input, call, x, ctx>>

-----------------------------------------------------------------------------
(* lre_exec.  The JS stack is a sequence of cells, its top the last one; sp *)
(* is its length, and a saved state is <<bp, cptr, pc and type>>.           *)
SPLIT == 0
LOOKAHEAD == 1
NEGATIVE_LOOKAHEAD == 2
TypeOf(v) == (v \div 2) % 4

Count == ps.capture_count
Registers == ps.stack[1].registers
(* The capture buffer is made by js_regexp_exec: captures undefined, and    *)
(* registers left with what the memory had.                                 *)
Garbage == 5
js_regexp_exec(str, cindex) ==
  /\ phase = "compiled"
  /\ phase' = "exec"
  /\ call' = [str |-> str, cindex |-> cindex, ret |-> "none"]
  /\ x' = [Idle EXCEPT !.cptr = cindex,
             !.capture = [k \in 0 .. 2 * Count + Registers - 1 |-> IF k < 2 * Count THEN -1 ELSE Garbage]]
  /\ UNCHANGED <<input, ps, ctx>>

code(k) == ps.code[x.pc + k]        \* the k-th cell from pc
op == code(1)
Executing(ops) == phase = "exec" /\ op \in ops
Ops(a, b) == REOP[a] .. REOP[b]
str == call.str
AtStrEnd == x.cptr >= Len(str)

Return(ret) ==
  /\ phase' = "done" /\ call' = [call EXCEPT !.ret = ret] /\ ctx' = AtCall
  /\ UNCHANGED <<input, ps, x>>
Step(y) == x' = y /\ UNCHANGED <<input, phase, ps, call, ctx>>
Jump(y, n, offset) == [y EXCEPT !.pc = @ + n + offset]

(* LRE_POLL_INTERRUPT: nothing, a poll, or an interrupt. *)
Poll(y) ==
  \/ Step(y)
  \/ /\ input.disturbed
     /\ \/ Return("exception")
        \/ x' = y /\ ctx' = [ctx EXCEPT !.sp = Len(y.st)] /\ UNCHANGED <<input, phase, ps, call>>
(* CHECK_STACK_SPACE(n) and a step: JS_StackCheck fails when memory is full. *)
CheckedStep(n, y) ==
  IF Len(x.st) + n <= ctx.bottom THEN Step(y)
  ELSE \/ (input.disturbed \/ Len(x.st) + n > StackSize) /\ Return("exception")
       \/ /\ Len(x.st) + n <= StackSize
          /\ x' = y /\ ctx' = [sp |-> Len(x.st), bottom |-> Len(x.st) + n + STACK_SLACK]
          /\ UNCHANGED <<input, phase, ps, call>>

CheckedPoll(n, y) == IF Len(x.st) + n <= ctx.bottom THEN Poll(y) ELSE CheckedStep(n, y)

RECURSIVE Undo(_)
Undo(y) ==
  IF Len(y.st) <= y.bp THEN y
  ELSE LET n == Len(y.st) IN
       Undo([y EXCEPT !.capture[y.st[n]] = y.st[n - 1], !.st = SubSeq(@, 1, n - 2)])
PopState(y) ==
  [y EXCEPT !.pc = y.st[y.bp] \div 8, !.cptr = y.st[y.bp - 1], !.bp = y.st[y.bp - 2],
            !.st = SubSeq(@, 1, y.bp - 3)]
PushState(y, pc, type) ==
  [y EXCEPT !.st = @ \o <<y.bp, y.cptr, pc * 8 + type * 2>>, !.bp = Len(y.st) + 3]
SaveCapture(y, idx, v) == [y EXCEPT !.st = @ \o <<y.capture[idx], idx>>, !.capture[idx] = v]
Saved(y, idx) == \E n \in y.bp + 1 .. Len(y.st) : (Len(y.st) - n) % 2 = 0 /\ y.st[n] = idx
SaveCaptureCheck_once(y, idx, v) == [y EXCEPT !.capture[idx] = v]
SaveCaptureCheck(y, idx, v) ==
  IF Saved(y, idx) THEN [y EXCEPT !.capture[idx] = v] ELSE SaveCapture(y, idx, v)
RECURSIVE ResetFrom(_, _, _)
ResetFrom(y, idx, last) == IF idx > last THEN y ELSE ResetFrom(SaveCapture(y, idx, 0), idx + 1, last)
Register(k) == 2 * Count + code(2) + k

(* no_match: back to the last state saved, those of lookaheads excepted. *)
RECURSIVE Backtrack(_)
Backtrack(y) ==
  IF y.bp = 0 THEN <<>>
  ELSE IF TypeOf(y.st[y.bp]) = LOOKAHEAD THEN Backtrack(PopState(Undo(y)))
  ELSE <<PopState(Undo(y))>>
Resume(ys) == IF ys = <<>> THEN Return("fail") ELSE Poll(ys[1])
NoMatch == Resume(Backtrack(x))

op_match == Executing({REOP.match}) /\ Return("match")

op_char ==
  /\ Executing(Ops("char1", "char4"))
  /\ LET n == op - REOP.char1 + 1 IN
     IF x.cptr + n <= Len(str) /\ SubSeq(ps.code, x.pc + 2, x.pc + n + 1) = SubSeq(str, x.cptr + 1, x.cptr + n)
     THEN Step([x EXCEPT !.pc = @ + n + 1, !.cptr = @ + n])
     ELSE NoMatch

In8(c, n) == \/ \E k \in 1 .. n - 1 : code(2 * k + 1) <= c /\ c < code(2 * k + 2)
             \/ code(2 * n + 1) <= c /\ (c < code(2 * n + 2) \/ code(2 * n + 2) = 255)
RECURSIVE InRange(_, _, _)
InRange(c, min, max) ==
  LET k == (min + max) \div 2
      low == code(8 * k + 4)
      high == code(8 * k + 8)
  IN  /\ min <= max
      /\ IF c < low THEN InRange(c, min, k - 1)
         ELSE c < high \/ InRange(c, k + 1, max)
MatchesOp(c) ==
  CASE op = REOP.dot -> ~IsLineEnd(c)
    [] op = REOP.any -> TRUE
    [] op = REOP.space -> IsSpace(c)
    [] op = REOP.not_space -> ~IsSpace(c)
    [] op = REOP.range8 -> In8(c, code(2))
    [] op = REOP.range -> InRange(c, 0, code(2) - 1)
op_class ==
  /\ Executing(Ops("dot", "not_space") \cup Ops("range8", "range"))
  /\ IF ~AtStrEnd /\ MatchesOp(CharAt(str, x.cptr))
     THEN Step([x EXCEPT !.pc = @ + InsnLen(ps.code, x.pc), !.cptr = @ + CharLen(str, @)])
     ELSE NoMatch

op_line ==
  /\ Executing(Ops("line_start", "line_end_m"))
  /\ IF \/ op \in {REOP.line_start, REOP.line_start_m} /\ x.cptr = 0
        \/ op = REOP.line_start_m /\ x.cptr > 0 /\ IsLineEnd(CharBefore(str, x.cptr))
        \/ op \in {REOP.line_end, REOP.line_end_m} /\ AtStrEnd
        \/ op = REOP.line_end_m /\ ~AtStrEnd /\ IsLineEnd(CharAt(str, x.cptr))
     THEN Step(Jump(x, 1, 0)) ELSE NoMatch
op_word_boundary ==
  /\ Executing(Ops("word_boundary", "not_word_boundary"))
  /\ LET v1 == x.cptr > 0 /\ IsWordChar(CharBefore(str, x.cptr))
         v2 == ~AtStrEnd /\ IsWordChar(CharAt(str, x.cptr))
     IN  IF (v1 # v2) = (op = REOP.word_boundary) THEN Step(Jump(x, 1, 0)) ELSE NoMatch

SplitTo(next_first, n, offset) ==
  LET next == Jump(x, n, 0)
      goto == Jump(x, n, offset)
  IN  CheckedStep(3, IF next_first THEN PushState(next, goto.pc, SPLIT) ELSE PushState(goto, next.pc, SPLIT))
op_split == Executing(Ops("split_goto_first", "split_next_first"))
            /\ SplitTo(op = REOP.split_next_first, 5, code(2))
op_lookahead ==
  /\ Executing(Ops("lookahead", "negative_lookahead"))
  /\ CheckedStep(3, PushState(Jump(x, 5, 0), x.pc + 5 + code(2), LOOKAHEAD + op - REOP.lookahead))
op_goto == Executing({REOP.goto}) /\ Poll(Jump(x, 5, code(2)))

op_save ==
  /\ Executing(Ops("save_start", "save_end"))
  /\ CheckedStep(2, SaveCapture(Jump(x, 2, 0), 2 * code(2) + op - REOP.save_start, x.cptr))
op_save_reset ==
  /\ Executing({REOP.save_reset})
  /\ LET n == 2 * (code(3) - code(2) + 1) IN
     CheckedStep(2 * n, ResetFrom(Jump(x, 3, 0), 2 * code(2), 2 * code(3) + 1))
op_set ==
  \/ Executing({REOP.set_i32}) /\ CheckedStep(2, SaveCaptureCheck(Jump(x, 6, 0), Register(0), code(3)))
  \/ Executing({REOP.set_char_pos}) /\ CheckedStep(2, SaveCaptureCheck(Jump(x, 2, 0), Register(0), x.cptr))
op_check_advance ==
  /\ Executing({REOP.check_advance})
  /\ IF x.capture[Register(0)] = x.cptr THEN NoMatch ELSE Step(Jump(x, 2, 0))

(* Counted loops: the counter is decremented, then the atom is run again,   *)
(* may be run again, or is done.                                            *)
Counted == SaveCaptureCheck(x, Register(0), x.capture[Register(0)] - 1)
op_loop ==
  /\ Executing({REOP.loop})
  /\ IF Counted.capture[Register(0)] # 0 THEN CheckedPoll(2, Jump(Counted, 6, code(3)))
     ELSE CheckedStep(2, Jump(Counted, 6, 0))
op_loop_split ==
  /\ Executing(Ops("loop_split_goto_first", "loop_check_adv_split_next_first"))
  /\ LET val2 == Counted.capture[Register(0)]
         limit == code(3)
         next == Jump(Counted, 10, 0)
         again == Jump(Counted, 10, code(7))
         stuck == /\ Between(op, "loop_check_adv_split_goto_first", "loop_check_adv_split_next_first")
                  /\ x.capture[Register(1)] = x.cptr /\ val2 # limit
         next_first == op \in {REOP.loop_split_next_first, REOP.loop_check_adv_split_next_first}
     IN  CASE val2 > limit -> CheckedPoll(2, again)
           [] val2 <= limit /\ stuck -> Resume(Backtrack(Counted))
           [] val2 <= limit /\ ~stuck /\ val2 = 0 -> CheckedStep(2, next)
           [] val2 <= limit /\ ~stuck /\ val2 # 0 ->
                CheckedStep(5, IF next_first THEN PushState(next, again.pc, SPLIT) ELSE PushState(again, next.pc, SPLIT))

op_back_reference ==
  /\ Executing(Ops("back_reference", "back_reference_i"))
  /\ LET a == x.capture[2 * code(2)]
         b == x.capture[2 * code(2) + 1]
         n == IF a # -1 /\ b > a THEN b - a ELSE 0
         Same(c, d) == IF op = REOP.back_reference_i THEN FoldCase(c) = FoldCase(d) ELSE c = d
     IN  IF x.cptr + n <= Len(str) /\ \A k \in 1 .. n : Same(str[a + k], str[x.cptr + k])
         THEN Step([x EXCEPT !.pc = @ + 2, !.cptr = @ + n]) ELSE NoMatch

(* The end of a lookahead: the states saved since its start are dropped; a   *)
(* positive one keeps what undoes its captures, moved down.                  *)
RECURSIVE States(_)
States(b) == IF TypeOf(x.st[b]) = LOOKAHEAD THEN <<b>> ELSE Append(States(x.st[b - 2]), b)
op_lookahead_match ==
  /\ Executing({REOP.lookahead_match})
  /\ LET ss == States(x.bp)
         End(k) == IF k = Len(ss) THEN Len(x.st) ELSE ss[k + 1] - 3
         undo == FlattenSeq([k \in DOMAIN ss |-> SubSeq(x.st, ss[k] + 1, End(k))])
         y == PopState([x EXCEPT !.bp = ss[1]])
     IN  Step(IF y.st = <<>> THEN y ELSE [y EXCEPT !.st = @ \o undo])
RECURSIVE ToNegative(_)
ToNegative(y) ==
  LET z == PopState(Undo(y)) IN
  IF TypeOf(y.st[y.bp]) = NEGATIVE_LOOKAHEAD THEN z ELSE ToNegative(z)
op_negative_lookahead_match == Executing({REOP.negative_lookahead_match}) /\ Resume(Backtrack(ToNegative(x)))

Again == phase = "done" /\ phase' = "compiled" /\ call' = NoCall /\ x' = Idle /\ UNCHANGED <<input, ps, ctx>>
Failed == phase = "error" /\ UNCHANGED vars

Compile == ParseAtom \/ ParseAssertion \/ NothingToRepeat \/ OpenGroup \/ NextAlternative \/ CloseGroup \/ Finish
lre_exec == \/ op_match \/ op_char \/ op_class \/ op_line \/ op_word_boundary \/ op_split \/ op_lookahead
            \/ op_goto \/ op_save \/ op_save_reset \/ op_set \/ op_check_advance \/ op_loop \/ op_loop_split
            \/ op_back_reference \/ op_lookahead_match \/ op_negative_lookahead_match
Next == \/ Compile \/ lre_exec
        \/ \E s \in input.subjects, i \in input.starts : i \in Boundaries(s) /\ js_regexp_exec(s, i)
        \/ Again \/ Failed
Spec == Init /\ [][Next]_vars

-----------------------------------------------------------------------------
(* Properties. *)
Read_ == ReadAll(input.toks)

(* The one pass parser accepts the patterns that have a tree, with at most  *)
(* CAPTURE_COUNT_MAX captures and references to captures that exist.        *)
AcceptsLegal ==
  /\ phase = "error" => ~IsLegal(input.toks, Read_, CAPTURE_COUNT_MAX)
  /\ phase = "compiled" => IsLegal(input.toks, Read_, CAPTURE_COUNT_MAX)

(* After the insertions in the code already written every jump is to an     *)
(* instruction, and the registers are used as a stack, as the assertions of *)
(* re_compute_register_count say.                                           *)
Targets ==
  LET at == ToSet(Insns(ps.code, 0))
      U32At(p, k) == ps.code[p + k] + p + k + 3
      Is(p, a, b) == Between(ps.code[p + 1], a, b)
  IN  {U32At(p, 2) : p \in {q \in at : Is(q, "goto", "split_next_first") \/ Is(q, "lookahead", "negative_lookahead")}}
      \cup {U32At(p, 3) : p \in {q \in at : Is(q, "loop", "loop")}}
      \cup {U32At(p, 7) : p \in {q \in at : Is(q, "loop_split_goto_first", "loop_check_adv_split_next_first")}}
CodeWellFormed ==
  phase = "compiled" => Targets \subseteq ToSet(Insns(ps.code, 0)) /\ ~ps.stack[1].underflow

(* A match of the bytecode is the match of the pattern: where it begins and *)
(* ends, and what each group that took part captured, however the match is  *)
(* polled; no loop fills the stack with iterations that match nothing.  A   *)
(* group that did not take part is undefined, or empty at 0.                *)
Expected == MatchFrom(Tree(Read_), call.cindex, Count, [s |-> str, fl |-> input.fl])
Captured(i) == <<x.capture[2 * i], x.capture[2 * i + 1]>>
CapturedBy(c, i) == <<c[2 * i], c[2 * i + 1]>>
Agrees(m) ==
  CASE call.ret = "exception" -> input.disturbed
    [] call.ret = "fail" -> m = <<>>
    [] call.ret = "match" ->
         /\ m # <<>>
         /\ \A i \in 0 .. Count - 1 :
              Captured(i) = CapturedBy(m[1], i)
                \/ (CapturedBy(m[1], i) = <<-1, -1>> /\ Captured(i) = <<0, 0>>)
Conforms == phase = "done" => Agrees(Expected)

(* However a match ends - found, not found, interrupted, out of memory - the *)
(* JS stack is as it was found.                                              *)
StackRestored == phase # "exec" => ctx = AtCall

(* A group that did not take part in a match is undefined in its result.    *)
UnsetUndefined ==
  (phase = "done" /\ call.ret = "match") =>
     \A i \in 0 .. Count - 1 : CapturedBy(Expected[1], i) = <<-1, -1>> => Captured(i) = <<-1, -1>>
=============================================================================
