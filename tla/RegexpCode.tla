---------------------------- MODULE RegexpCode ----------------------------
\* The bytecode of regular expressions and how the parser writes it.  A bytecode is a
\* sequence of one cell per byte, so that offsets are those of the code: the first cell
\* of a number of 2 or 4 bytes holds it, Pad is in the others.  The header is left out.
EXTENDS RegexpSemantics

REOP == [invalid |-> 0, char1 |-> 1, char2 |-> 2, char3 |-> 3, char4 |-> 4, dot |-> 5, any |-> 6,
         space |-> 7, not_space |-> 8, line_start |-> 9, line_start_m |-> 10, line_end |-> 11,
         line_end_m |-> 12, goto |-> 13, split_goto_first |-> 14, split_next_first |-> 15,
         match |-> 16, lookahead_match |-> 17, negative_lookahead_match |-> 18,
         save_start |-> 19, save_end |-> 20, save_reset |-> 21, loop |-> 22,
         loop_split_goto_first |-> 23, loop_split_next_first |-> 24,
         loop_check_adv_split_goto_first |-> 25, loop_check_adv_split_next_first |-> 26,
         set_i32 |-> 27, word_boundary |-> 28, not_word_boundary |-> 29,
         back_reference |-> 30, back_reference_i |-> 31, range8 |-> 32, range |-> 33,
         lookahead |-> 34, negative_lookahead |-> 35, set_char_pos |-> 36, check_advance |-> 37]
reopcode_info == <<1, 2, 3, 4, 5, 1, 1, 1, 1, 1, 1, 1, 1, 5, 5, 5, 1, 1, 1, 2, 2, 3, 6, 10, 10, 10,
                   10, 6, 1, 1, 2, 2, 2, 3, 5, 5, 2, 2>>
JS_SHORTINT_MAX == 1073741823

(* Opcodes of one kind that follow each other, the first and the last. *)
Between(op, a, b) == op \in REOP[a] .. REOP[b]
B2I(b) == IF b THEN 1 ELSE 0

Pad == 0
U16(v) == <<v, Pad>>
U32(v) == <<v, Pad, Pad, Pad>>
re_emit_op_u32(op, v) == <<op>> \o U32(v)
emit_insert(code, at, cells) == SubSeq(code, 1, at) \o cells \o SubSeq(code, at + 1, Len(code))
Patch(code, at, v) == [code EXCEPT ![at + 1] = v]
re_emit_goto(code, op, to) == code \o <<op>> \o U32(to - (Len(code) + 5))
re_emit_goto_u8(code, op, arg, to) == code \o <<op, arg>> \o U32(to - (Len(code) + 6))
re_emit_goto_u8_u32(code, op, a0, a1, to) == code \o <<op, a0>> \o U32(a1) \o U32(to - (Len(code) + 10))

re_emit_char(c) == <<REOP.char1 + Len(utf8(c)) - 1>> \o utf8(c)

InsnLen(code, pos) ==
  LET op == code[pos + 1] IN
  reopcode_info[op + 1] + (IF op = REOP.range8 THEN 2 * code[pos + 2]
                           ELSE IF op = REOP.range THEN 8 * code[pos + 2] ELSE 0)
(* The offsets of the instructions from pos on. *)
RECURSIVE Insns(_, _)
Insns(code, pos) == IF pos >= Len(code) THEN <<>>
                    ELSE <<pos>> \o Insns(code, pos + InsnLen(code, pos))

-----------------------------------------------------------------------------
(* Classes: lists of intervals lo <= c < hi. *)
CODE_MAX == 1114112
Interval(lo, hi) == [lo |-> lo, hi |-> hi]
char_range_s == <<9, 14, 32, 33, 160, 161, 5760, 5761, 8192, 8203, 8232, 8234, 8239, 8240, 8287, 8288,
                  12288, 12289, 65279, 65280>>
char_range_w == <<48, 58, 65, 91, 95, 96, 97, 123>>
Pairs(tab) == [i \in 1 .. Len(tab) \div 2 |-> Interval(tab[2 * i - 1], tab[2 * i])]
re_emit_range_base(item) ==
  LET tab == CASE item.e = "d" -> <<48, 58>>
               [] item.e = "s" -> char_range_s
               [] item.e = "w" -> char_range_w
  IN  Pairs(IF item.inv THEN <<0>> \o tab \o <<CODE_MAX>> ELSE tab)

add_interval_intersect(r, lo, hi, offset) ==
  LET a == IF r.lo > lo THEN r.lo ELSE lo
      b == IF r.hi < hi THEN r.hi ELSE hi
  IN  IF a >= b THEN <<>>
      ELSE IF offset = 0 THEN <<Interval(a, b)>>
      ELSE <<Interval(a, b), Interval(a + offset, b + offset)>>
ClassItem(item, ignore_case) ==
  LET r == Interval(item.lo, item.hi + 1) IN
  IF item.e # "range" THEN re_emit_range_base(item)
  ELSE IF ~ignore_case THEN <<r>>
  ELSE add_interval_intersect(r, 0, 65, 0) \o add_interval_intersect(r, 91, 97, 0)
       \o add_interval_intersect(r, 123, CODE_MAX, 0)
       \o add_interval_intersect(r, 65, 91, 32) \o add_interval_intersect(r, 97, 123, -32)

RECURSIVE range_compress(_)
range_compress(t) ==
  IF t = <<>> THEN <<>>
  ELSE LET a == Head(t) IN
       IF a.lo = a.hi THEN range_compress(Tail(t))
       ELSE IF Len(t) > 1 /\ a.hi >= t[2].lo
         THEN range_compress(<<Interval(a.lo, IF a.hi > t[2].hi THEN a.hi ELSE t[2].hi)>> \o SubSeq(t, 3, Len(t)))
         ELSE <<a>> \o range_compress(Tail(t))
Invert(t) ==
  LET n == Len(t) IN
  [i \in 1 .. n + 1 |-> Interval(IF i = 1 THEN 0 ELSE t[i - 1].hi, IF i > n THEN CODE_MAX ELSE t[i].lo)]

(* The instruction for a class; range8 has bytes, 255 standing for no bound. *)
re_range_optimize(intervals, invert) ==
  LET t1 == range_compress(SortSeq(intervals, LAMBDA a, b : a.lo < b.lo))
      t == IF invert THEN range_compress(Invert(t1)) ELSE t1
      n == Len(t)
      small == n > 0 /\ n < 16 /\ (t[n].hi < 254 \/ (t[n].hi = CODE_MAX /\ t[n].lo < 254))
  IN  IF small
      THEN <<REOP.range8, n>> \o FlattenSeq([i \in 1 .. n |-> <<t[i].lo, IF t[i].hi = CODE_MAX THEN 255 ELSE t[i].hi>>])
      ELSE <<REOP.range>> \o U16(n) \o FlattenSeq([i \in 1 .. n |-> U32(t[i].lo) \o U32(t[i].hi)])
re_parse_char_class(tok, ignore_case) ==
  re_range_optimize(FlattenSeq([i \in DOMAIN tok.items |-> ClassItem(tok.items[i], ignore_case)]), tok.inv)

-----------------------------------------------------------------------------
(* What a token that consumes a character, or asserts, is compiled to. *)
NormalChar(c, ignore_case) ==
  IF ignore_case /\ FoldCase(c) \in 97 .. 122
  THEN LET u == FoldCase(c) - 32 IN <<REOP.range8, 2, u, u + 1, u + 32, u + 33>>
  ELSE re_emit_char(c)
AtomCode(tok, fl) ==
  CASE tok.t = "char" -> NormalChar(tok.c, fl.i)
    [] tok.t = "." -> <<IF fl.s THEN REOP.any ELSE REOP.dot>>
    [] tok.t = "class" -> re_parse_char_class(tok, fl.i)
    [] tok.t = "esc" /\ tok.item.e = "s" -> <<REOP.space + B2I(tok.item.inv)>>
    [] tok.t = "esc" /\ tok.item.e # "s" -> re_range_optimize(re_emit_range_base(tok.item), FALSE)
    [] tok.t = "back" -> <<REOP.back_reference + B2I(fl.i), tok.n>>
AssertionCode(t, fl) ==
  CASE t = "^" -> <<IF fl.m THEN REOP.line_start_m ELSE REOP.line_start>>
    [] t = "$" -> <<IF fl.m THEN REOP.line_end_m ELSE REOP.line_end>>
    [] t = "\\b" -> <<REOP.word_boundary>>
    [] t = "\\B" -> <<REOP.not_word_boundary>>

(* re_need_check_adv_and_capture_init: the instructions of an atom are read  *)
(* up to the first one whose outcome cannot be told.                         *)
Advances(op) == Between(op, "char1", "not_space") \/ Between(op, "range8", "range")
Predictable(op) == \/ Advances(op)
                   \/ Between(op, "line_start", "line_end_m")
                   \/ Between(op, "word_boundary", "not_word_boundary")
                   \/ op \in {REOP.set_i32, REOP.set_char_pos}
                   \/ Between(op, "save_start", "save_reset")
AtomOps(code, atom) == LET at == Insns(code, atom) IN [i \in DOMAIN at |-> code[at[i] + 1]]
need_capture_init(ops) == \E i \in DOMAIN ops : ~Predictable(ops[i])
need_check_adv(ops) == \A i \in DOMAIN ops : Advances(ops[i]) => \E j \in 1 .. i : ~Predictable(ops[j])

(* re_parse_quantifier, case by case: code has the atom at the offset atom;  *)
(* check says whether an iteration that does not advance has to fail.        *)
SaveReset(lo, hi) == <<REOP.save_reset, lo, hi>>
SetCharPos(check) == IF check THEN <<REOP.set_char_pos, 0>> ELSE <<>>
LoopSplit(check, greedy) ==
  (IF check THEN REOP.loop_check_adv_split_next_first ELSE REOP.loop_split_next_first) - B2I(greedy)

ZeroOrMore_shortJump(code, atom, len, q, check) ==
  LET again == q.max = JS_SHORTINT_MAX
      jump == len + 5 * B2I(again) + 2 * B2I(check)
      c1 == emit_insert(code, atom, re_emit_op_u32(REOP.split_goto_first + B2I(q.greedy), jump) \o SetCharPos(check))
      c2 == IF check THEN c1 \o <<REOP.check_advance, 0>> ELSE c1
  IN  IF again THEN re_emit_goto(c2, REOP.goto, atom) ELSE c2
ZeroOrMore(code, atom, len, q, check) ==
  LET again == q.max = JS_SHORTINT_MAX
      jump == len + 5 * B2I(again) + 4 * B2I(check)
      c1 == emit_insert(code, atom, re_emit_op_u32(REOP.split_goto_first + B2I(q.greedy), jump) \o SetCharPos(check))
      c2 == IF check THEN c1 \o <<REOP.check_advance, 0>> ELSE c1
  IN  IF again THEN re_emit_goto(c2, REOP.goto, atom) ELSE c2
ZeroToMax(code, atom, len, q, check) ==
  LET jump == 6 + 2 * B2I(check) + len + 10
      c1 == emit_insert(code, atom, re_emit_op_u32(REOP.split_goto_first + B2I(q.greedy), jump)
                                    \o <<REOP.set_i32, 0>> \o U32(q.max) \o SetCharPos(check))
  IN  re_emit_goto_u8_u32(c1, LoopSplit(check, q.greedy), 0, q.max, atom + 11)
OneOrMore(code, atom, q) == re_emit_goto(code, REOP.split_next_first - B2I(q.greedy), atom)
MinToMax(code, atom, q, check0) ==
  LET check == check0 /\ q.min # q.max
      c1 == emit_insert(code, atom, <<REOP.set_i32, 0>> \o U32(q.max) \o SetCharPos(check))
  IN  IF q.min = q.max THEN re_emit_goto_u8(c1, REOP.loop, 0, atom + 6)
      ELSE re_emit_goto_u8_u32(c1, LoopSplit(check, q.greedy), 0, q.max - q.min, atom + 6)

Quantified(code, atom, len, q, check) ==
  CASE q.min = 0 /\ q.max = 0 -> SubSeq(code, 1, atom)
    [] q.min = 0 /\ q.max \in {1, JS_SHORTINT_MAX} -> ZeroOrMore(code, atom, len, q, check)
    [] q.min = 0 /\ q.max \notin {0, 1, JS_SHORTINT_MAX} -> ZeroToMax(code, atom, len, q, check)
    [] q.min = 1 /\ q.max = JS_SHORTINT_MAX /\ ~check -> OneOrMore(code, atom, q)
    [] OTHER -> MinToMax(code, atom, q, check)

(* Captures that an iteration may leave unset are reset before each; when    *)
(* every iteration sets them all, once before the loop is enough.            *)
re_parse_quantifier(code, atom, last_capture_count, capture_count, q) ==
  LET ops == AtomOps(code, atom)
      captures == last_capture_count # capture_count
      reset == SaveReset(last_capture_count, capture_count - 1)
      each == captures /\ need_capture_init(ops)
      once == captures /\ ~need_capture_init(ops) /\ q.min = 0
      c1 == IF each \/ once THEN emit_insert(code, atom, reset) ELSE code
  IN  Quantified(c1, IF once THEN atom + 3 ELSE atom, Len(code) - atom + (IF each THEN 3 ELSE 0),
                 q, need_check_adv(ops))

(* Consecutive characters are joined into one instruction. *)
re_is_char(code, from, to) ==
  IF from < to /\ Between(code[from + 1], "char1", "char4") /\ to - from = code[from + 1] - REOP.char1 + 2
  THEN code[from + 1] - REOP.char1 + 1 ELSE 0
Combinable(code, last_term, term) ==
  LET n1 == re_is_char(code, last_term, term)
      n2 == re_is_char(code, term, Len(code))
  IN  last_term >= 0 /\ n1 > 0 /\ n2 > 0 /\ n1 + n2 <= 4
Combine(code, last_term, term) ==
  LET n == Len(code) - last_term - 2 IN
  [SubSeq(code, 1, term) \o SubSeq(code, term + 2, Len(code)) EXCEPT ![last_term + 1] = REOP.char1 + n - 1]

(* re_compute_register_count: registers are given as a stack, to the        *)
(* instructions at the offsets at; a is the code with its registers, how    *)
(* many are in use and were at most, and whether too many were released.    *)
Needs(op) == CASE op \in {REOP.set_i32, REOP.set_char_pos} -> 1
               [] op \in {REOP.check_advance, REOP.loop}
                  \/ Between(op, "loop_split_goto_first", "loop_split_next_first") -> -1
               [] Between(op, "loop_check_adv_split_goto_first", "loop_check_adv_split_next_first") -> -2
               [] OTHER -> 0
Register1(a, pos, need) ==
  [a EXCEPT !.size = @ + need,
            !.max = IF a.size + need > @ THEN a.size + need ELSE @,
            !.underflow = @ \/ a.size + need < 0,
            !.code = CASE need = 0 -> @
                       [] need = 1 -> Patch(@, pos + 1, a.size)
                       [] OTHER -> Patch(@, pos + 1, a.size + need)]
RECURSIVE AllocRegisters(_, _)
AllocRegisters(a, at) ==
  IF at = <<>> THEN a
  ELSE AllocRegisters(Register1(a, Head(at), Needs(a.code[Head(at) + 1])), Tail(at))
re_compute_register_count(code) ==
  AllocRegisters([code |-> code, size |-> 0, max |-> 0, underflow |-> FALSE], Insns(code, 0))
BackReferencesValid(code, capture_count) ==
  \A i \in DOMAIN Insns(code, 0) : LET pos == Insns(code, 0)[i] IN
    Between(code[pos + 1], "back_reference", "back_reference_i") => code[pos + 2] < capture_count

(* The code before the pattern: unless it is sticky, a loop over the starts. *)
Prologue(fl) ==
  (IF fl.y THEN <<>>
   ELSE re_emit_op_u32(REOP.split_goto_first, 6) \o <<REOP.any>> \o re_emit_op_u32(REOP.goto, -11))
  \o <<REOP.save_start, 0>>
=============================================================================
