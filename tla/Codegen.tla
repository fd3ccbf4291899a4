------------------------------ MODULE Codegen ------------------------------
\* What the parser emits for the body of a function: js_parse_statement, the
\* expression parsers it calls, emit_break, emit_return, and the stack size that
\* compute_stack_size finds for the result.
\*
\* A program is a tree, since the order of the tokens is not in question.  Every
\* node that does something has an id, and its instruction carries it.  A label is
\* a number: the parser chains the gotos that wait for a label through the code,
\* here they hold its number until Resolved replaces it by the position.
EXTENDS Integers, SequencesExt

NoLabel == 0
NoName == "none"

Ins(op, id, n) == [op |-> op, id |-> id, n |-> n]

\* The state of the parser: the code so far, the position of each label (0: not
\* yet emitted), the opcode that get_prev_opcode returns, whether the value of the
\* expression was not kept, and whether there was a syntax error.
Start == [code |-> <<>>, labels |-> <<>>, last |-> "invalid",
          dropped |-> FALSE, ok |-> TRUE]

emit_ins(s, ins) == [s EXCEPT !.code = Append(@, ins), !.last = ins.op]
emit_op(s, op) == emit_ins(s, Ins(op, 0, 0))
emit_id(s, op, id) == emit_ins(s, Ins(op, id, 0))
emit_n(s, op, n) ==
  IF n = 0 THEN s
  ELSE [s EXCEPT !.code = @ \o [i \in 1 .. n |-> Ins(op, 0, 0)], !.last = op]

\* The k-th of the labels made last, and n new labels.
new_labels(s, n) == [s EXCEPT !.labels = @ \o [i \in 1 .. n |-> 0]]
NewLabel(s, k) == Len(s.labels) + k

emit_goto(s, op, l) == emit_ins(s, Ins(op, 0, l))
emit_label_pos(s, l, pos) == [s EXCEPT !.labels[l] = pos]
emit_label(s, l) ==
  [emit_label_pos(s, l, Len(s.code) + 1) EXCEPT !.last = "invalid"]

js_parse_error(s) == [s EXCEPT !.ok = FALSE]

js_is_live_code(s) == s.last \notin {"return", "return_undef", "throw", "goto", "ret"}

remove_last_op(s) == [s EXCEPT !.code = Front(@), !.last = "invalid"]

----------------------------------------------------------------------------
\* Expressions.  "get" reads a variable, "field" and "elem" are property accesses,
\* "list" is an array, "call" calls the function number f.  `drop` is PF_DROP, and
\* that the expression is followed by what may_drop_result asks for.

Lvalues == {"get", "field", "elem"}

RECURSIVE js_parse_expr(_, _, _)

js_parse_exprs(s, es) == FoldLeft(LAMBDA acc, e : js_parse_expr(acc, e, FALSE), s, es)

\* The access just emitted becomes the target of an assignment; with `keep`, its
\* value is read as well and its operands stay on the stack.
get_lvalue(s, lv, keep) ==
  LET r == remove_last_op(s)
  IN IF lv.t \notin Lvalues THEN js_parse_error(s)
     ELSE IF ~keep THEN r
     ELSE CASE lv.t = "get"   -> emit_id(r, "get_var_ref", lv.id)
            [] lv.t = "field" -> emit_id(r, "get_field2", lv.id)
            [] lv.t = "elem"  -> emit_id(emit_op(r, "dup2"), "get_array_el", lv.id)

\* `special` says where the value to store is and which one stays on the stack.
put_lvalue(s, lv, id, special) ==
  CASE lv.t = "get" ->
         emit_id(IF special = "keep_top" THEN emit_op(s, "dup") ELSE s,
                 "put_var_ref", id)
    [] lv.t = "field" ->
         emit_id(CASE special = "keep_top"      -> emit_op(s, "insert2")
                   [] special = "nokeep_top"    -> s
                   [] special = "nokeep_bottom" -> emit_op(s, "swap")
                   [] special = "keep_second"   -> emit_op(s, "perm3"),
                 "put_field", id)
    [] lv.t = "elem" ->
         emit_id(CASE special = "keep_top"      -> emit_op(s, "insert3")
                   [] special = "nokeep_top"    -> s
                   [] special = "nokeep_bottom" -> emit_op(s, "rot3l")
                   [] special = "keep_second"   -> emit_op(s, "perm4"),
                 "put_array_el", id)

KeepOrDrop(s, e, drop) ==
  [put_lvalue(s, e.lv, e.id, IF drop THEN "nokeep_top" ELSE "keep_top")
     EXCEPT !.dropped = drop]

js_parse_assign_expr(s, e, drop) ==
  LET target == get_lvalue(js_parse_expr(s, e.lv, FALSE), e.lv, e.compound)
      value  == js_parse_expr(target, e.e, FALSE)
  IN KeepOrDrop(IF e.compound THEN emit_id(value, "add", e.id) ELSE value, e, drop)

js_parse_unary(s, e, drop) ==
  LET target == get_lvalue(js_parse_expr(s, e.lv, FALSE), e.lv, TRUE)
  IN KeepOrDrop(emit_id(target, "inc", e.id), e, drop)

js_parse_postfix_inc(s, e, drop) ==
  LET target == get_lvalue(js_parse_expr(s, e.lv, FALSE), e.lv, TRUE)
  IN IF drop THEN KeepOrDrop(emit_id(target, "inc", e.id), e, TRUE)
     ELSE [put_lvalue(emit_id(target, "post_inc", e.id), e.lv, e.id, "keep_second")
             EXCEPT !.dropped = FALSE]

js_parse_logical_and_or(s, e) ==
  LET l == NewLabel(s, 1)
      a == js_parse_expr(new_labels(s, 1), e.a, FALSE)
      j == emit_goto(emit_op(a, "dup"), IF e.t = "and" THEN "if_false" ELSE "if_true", l)
  IN emit_label(js_parse_expr(emit_op(j, "drop"), e.b, FALSE), l)

js_parse_cond_expr(s, e) ==
  LET l1 == NewLabel(s, 1)
      l2 == NewLabel(s, 2)
      c  == emit_goto(js_parse_expr(new_labels(s, 2), e.c, FALSE), "if_false", l1)
      a  == emit_goto(js_parse_expr(c, e.a, FALSE), "goto", l2)
  IN emit_label(js_parse_expr(emit_label(a, l1), e.b, FALSE), l2)

js_parse_call(s, e) ==
  LET f    == emit_ins(s, Ins("push_func", e.id, e.f))
      args == js_parse_exprs(f, e.es)
  IN emit_ins(args, Ins("call", e.id, Len(e.es)))

js_parse_array(s, e) ==
  emit_ins(js_parse_exprs(s, e.es), Ins("array_from", e.id, Len(e.es)))

js_parse_expr(s, e, drop) ==
  LET s0 == [s EXCEPT !.dropped = FALSE]
      Kept(r) == [r EXCEPT !.dropped = FALSE]
  IN CASE e.t = "get"    -> emit_id(s0, "get_var_ref", e.id)
       [] e.t = "field"  -> emit_id(js_parse_expr(s0, e.o, FALSE), "get_field", e.id)
       [] e.t = "elem"   -> emit_id(js_parse_expr(js_parse_expr(s0, e.o, FALSE), e.p, FALSE),
                                    "get_array_el", e.id)
       [] e.t = "add"    -> Kept(emit_id(js_parse_expr(js_parse_expr(s0, e.a, FALSE), e.b, FALSE),
                                         "add", e.id))
       [] e.t = "list"   -> Kept(js_parse_array(s0, e))
       [] e.t = "call"   -> Kept(js_parse_call(s0, e))
       [] e.t \in {"and", "or"} -> Kept(js_parse_logical_and_or(s0, e))
       [] e.t = "cond"   -> Kept(js_parse_cond_expr(s0, e))
       [] e.t = "assign" -> js_parse_assign_expr(s0, e, drop)
       [] e.t = "preinc" -> js_parse_unary(s0, e, drop)
       [] e.t = "postinc" -> js_parse_postfix_inc(s0, e, drop)

\* A list of expressions separated by commas leaves the value of the last one, or
\* none if PF_DROP is given; each of the others is dropped.
DropResult(s) == IF s.dropped THEN s ELSE emit_op(s, "drop")

js_parse_expr_comma(s, es, drop) ==
  LET Operand(acc, i) ==
        IF i < Len(es) \/ drop THEN DropResult(js_parse_expr(acc, es[i], drop))
        ELSE js_parse_expr(acc, es[i], drop)
  IN FoldLeft(Operand, s, [i \in 1 .. Len(es) |-> i])

js_parse_value(s, e) == js_parse_expr_comma(s, <<e>>, FALSE)

----------------------------------------------------------------------------
\* Statements.  env is the list of break entries, innermost first.

Entry(name, brk, cont, fin, drop) ==
  [name |-> name, brk |-> brk, cont |-> cont, fin |-> fin, drop |-> drop]

\* What return does to each statement around it: operands are only removed from
\* under the value when a finally block must run.
emit_return(s, env, hasval) ==
  LET Leave(acc, top) ==
        LET d == acc.drop + top.drop
            v == IF acc.hasval THEN acc.s ELSE emit_op(acc.s, "undefined")
        IN IF top.fin = NoLabel THEN [acc EXCEPT !.drop = d]
           ELSE [s |-> emit_goto(emit_n(v, "nip", d), "gosub", top.fin),
                 hasval |-> TRUE, drop |-> 0]
      r == FoldLeft(Leave, [s |-> s, hasval |-> hasval, drop |-> 0], env)
  IN emit_op(r.s, IF r.hasval THEN "return" ELSE "return_undef")

Target(top, is_cont) == IF is_cont THEN top.cont ELSE top.brk

\* Mutant: a labelled block counts as a loop for a break without a label.
IsTarget_anyLabel(top, name, is_cont) ==
  name \in {NoName, top.name} /\ Target(top, is_cont) # NoLabel

IsTarget(top, name, is_cont) ==
  /\ \/ name = NoName /\ ~(top.cont = NoLabel /\ top.drop = 0)
     \/ top.name = name
  /\ Target(top, is_cont) # NoLabel

\* Mutant: no dummy value under the return address.
LeaveForBreak_noDummy(s, top) ==
  LET r == emit_n(s, "drop", top.drop)
  IN IF top.fin = NoLabel THEN r ELSE emit_goto(r, "gosub", top.fin)

LeaveForBreak(s, top) ==
  LET r == emit_n(s, "drop", top.drop)
  IN IF top.fin = NoLabel THEN r
     ELSE emit_op(emit_goto(emit_op(r, "undefined"), "gosub", top.fin), "drop")

emit_break(s, env, name, is_cont) ==
  LET i == SelectInSeq(env, LAMBDA top : IsTarget(top, name, is_cont))
  IN IF i = 0 THEN js_parse_error(s)
     ELSE emit_goto(FoldLeft(LeaveForBreak, s, SubSeq(env, 1, i - 1)),
                    "goto", Target(env[i], is_cont))

Loops == {"while", "do", "for", "forof"}

RECURSIVE js_parse_statement(_, _, _, _)

js_parse_block(s, env, ss) ==
  FoldLeft(LAMBDA acc, st : js_parse_statement(acc, env, st, NoName), s, ss)

ParseIf(s, env, st) ==
  LET l1 == NewLabel(s, 1)
      l2 == NewLabel(s, 2)
      c  == emit_goto(js_parse_value(new_labels(s, 2), st.e), "if_false", l1)
      a  == js_parse_statement(c, env, st.a, NoName)
      b  == emit_label(emit_goto(a, "goto", l2), l1)
  IN IF st.haselse THEN emit_label(js_parse_statement(b, env, st.b, NoName), l2)
     ELSE emit_label(a, l1)

ParseWhile(s, env, st, name) ==
  LET brk  == NewLabel(s, 1)
      cont == NewLabel(s, 2)
      be   == Entry(name, brk, cont, NoLabel, 0)
      c    == emit_goto(js_parse_value(emit_label(new_labels(s, 2), cont), st.e),
                        "if_false", brk)
      body == js_parse_statement(c, <<be>> \o env, st.body, NoName)
  IN emit_label(emit_goto(body, "goto", cont), brk)

ParseDo(s, env, st, name) ==
  LET brk  == NewLabel(s, 1)
      cont == NewLabel(s, 2)
      top  == NewLabel(s, 3)
      be   == Entry(name, brk, cont, NoLabel, 0)
      body == js_parse_statement(emit_label(new_labels(s, 3), top), <<be>> \o env,
                                 st.body, NoName)
      c    == js_parse_value(emit_label(body, cont), st.e)
  IN emit_label(emit_goto(c, "if_true", top), brk)

ParseFor(s, env, st, name) ==
  LET brk  == NewLabel(s, 1)
      cont == NewLabel(s, 2)
      test == NewLabel(s, 3)
      be   == Entry(name, brk, cont, NoLabel, 0)
      init == js_parse_expr_comma(new_labels(s, 3), <<st.init>>, TRUE)
      c    == emit_goto(js_parse_value(emit_label(init, test), st.e), "if_false", brk)
      body == js_parse_statement(c, <<be>> \o env, st.body, NoName)
      step == js_parse_expr_comma(emit_label(body, cont), <<st.step>>, TRUE)
  IN emit_label(emit_goto(step, "goto", test), brk)

\* for (lv of e): the assignment to lv is in front of the evaluation of e.
ParseForOf(s, env, st, name) ==
  LET brk  == NewLabel(s, 1)
      cont == NewLabel(s, 2)
      expr == NewLabel(s, 3)
      bdy  == NewLabel(s, 4)
      next == NewLabel(s, 5)
      be   == Entry(name, brk, cont, NoLabel, 1)
      n    == emit_label(emit_goto(new_labels(s, 5), "goto", expr), next)
      lv   == get_lvalue(js_parse_expr(n, st.lv, FALSE), st.lv, FALSE)
      put  == emit_goto(put_lvalue(lv, st.lv, st.id, "nokeep_bottom"), "goto", bdy)
      it   == emit_id(js_parse_value(emit_label(put, expr), st.e), "for_of_start", st.id)
      body == js_parse_statement(emit_label(emit_goto(it, "goto", cont), bdy),
                                 <<be>> \o env, st.body, NoName)
      nxt  == emit_id(emit_label(body, cont), "for_of_next", st.id)
      out  == emit_op(emit_goto(nxt, "if_false", next), "drop")
  IN emit_op(emit_label(out, brk), "drop")

\* The clauses of a switch are parsed in one pass.  `case` is the label of the next
\* test, `group` the label of the statements after a group of cases, deflt the
\* position of the default clause.

\* Statements in front of a case jump over its test.
CaseLabel(acc) ==
  IF acc.case = NoLabel THEN acc
  ELSE [acc EXCEPT !.s = emit_label(emit_goto(new_labels(@, 1), "goto", NewLabel(@, 1)),
                                    acc.case),
                   !.group = NewLabel(acc.s, 1), !.case = NoLabel]

CaseTest(acc, cl) ==
  [acc EXCEPT !.s = emit_id(js_parse_value(emit_op(@, "dup"), cl.e), "strict_eq", cl.id)]

\* Another case follows: if this one is selected, on to the statements of the group.
GotoGroup(acc) ==
  IF acc.group # NoLabel THEN [acc EXCEPT !.s = emit_goto(@, "if_true", acc.group)]
  ELSE [acc EXCEPT !.s = emit_goto(new_labels(@, 1), "if_true", NewLabel(@, 1)),
                   !.group = NewLabel(acc.s, 1)]

\* The last case of a group: if it is not selected, on to the next test.
GotoNextCase(acc) ==
  LET t == emit_goto(new_labels(acc.s, 1), "if_false", NewLabel(acc.s, 1))
  IN [s |-> IF acc.group = NoLabel THEN t ELSE emit_label(t, acc.group),
      case |-> NewLabel(acc.s, 1), group |-> NoLabel, deflt |-> acc.deflt]

ParseCase(acc, cl, nextIsCase) ==
  IF nextIsCase THEN GotoGroup(CaseTest(CaseLabel(acc), cl))
  ELSE GotoNextCase(CaseTest(CaseLabel(acc), cl))

DefaultHere(acc) == [acc EXCEPT !.deflt = Len(acc.s.code) + 1]

ParseDefault(acc) ==
  IF acc.deflt # 0 THEN [acc EXCEPT !.s = js_parse_error(@)]
  ELSE IF acc.case # NoLabel THEN DefaultHere(acc)
  ELSE DefaultHere([acc EXCEPT !.s = emit_goto(new_labels(@, 1), "goto", NewLabel(@, 1)),
                               !.case = NewLabel(acc.s, 1)])

ParseClause(acc, cl, env, nextIsCase) ==
  IF cl.t = "case" THEN ParseCase(acc, cl, nextIsCase)
  ELSE IF cl.t = "default" THEN ParseDefault(acc)
  ELSE [acc EXCEPT !.s = IF acc.case = NoLabel THEN js_parse_error(@)
                         ELSE js_parse_statement(@, env, cl, NoName)]

LastCase(acc) ==
  IF acc.deflt # 0 THEN emit_label_pos(acc.s, acc.case, acc.deflt)
  ELSE IF acc.case # NoLabel THEN emit_label(acc.s, acc.case)
  ELSE acc.s

ParseSwitch(s, env, st, name) ==
  LET brk == NewLabel(s, 1)
      be  == Entry(name, brk, NoLabel, NoLabel, 1)
      n   == Len(st.clauses)
      Step(acc, i) == ParseClause(acc, st.clauses[i], <<be>> \o env,
                                  i < n /\ st.clauses[i + 1].t = "case")
      start == [s |-> js_parse_value(new_labels(s, 1), st.e),
                case |-> NoLabel, group |-> NoLabel, deflt |-> 0]
      end == LastCase(FoldLeft(Step, start, [i \in 1 .. n |-> i]))
  IN emit_op(emit_label(end, brk), "drop")

\* A dummy value keeps the stack as deep as it is when finally runs for a return.
CallFinally(s, fin) ==
  emit_op(emit_goto(emit_op(emit_op(s, "drop"), "undefined"), "gosub", fin), "drop")

Rethrow(s, fin) == emit_op(emit_goto(s, "gosub", fin), "throw")

ParseTry(s, env, st) ==
  LET catch  == NewLabel(s, 1)
      fin    == NewLabel(s, 2)
      end    == NewLabel(s, 3)
      catch2 == NewLabel(s, 4)
      inner  == <<Entry(NoName, NoLabel, NoLabel, fin, 1)>> \o env
      try    == js_parse_block(emit_goto(new_labels(s, 4), "catch", catch), inner, st.body)
      tried  == emit_label(emit_goto(CallFinally(try, fin), "goto", end), catch)
      body2  == js_parse_block(emit_goto(emit_id(tried, "put_loc", st.id), "catch", catch2),
                               inner, st.catch)
      caught == emit_label(emit_goto(CallFinally(body2, fin), "goto", end), catch2)
      f      == emit_label(Rethrow(IF st.hascatch THEN caught ELSE tried, fin), fin)
      final  == js_parse_block(f, <<Entry(NoName, NoLabel, NoLabel, NoLabel, 2)>> \o env,
                               st.finally)
  IN emit_label(emit_op(final, "ret"), end)

ParseLabel(s, env, st) ==
  LET brk == NewLabel(s, 1)
      be  == Entry(st.name, brk, NoLabel, NoLabel, 0)
  IN IF \E i \in 1 .. Len(env) : env[i].name = st.name THEN js_parse_error(s)
     ELSE IF st.body.t \in Loops THEN js_parse_statement(s, env, st.body, st.name)
     ELSE emit_label(js_parse_statement(new_labels(s, 1), <<be>> \o env, st.body, NoName), brk)

js_parse_statement(s, env, st, name) ==
  CASE st.t = "expr"   -> js_parse_expr_comma(s, st.es, TRUE)
    [] st.t = "block"  -> js_parse_block(s, env, st.ss)
    [] st.t = "return" -> emit_return(IF st.hasval THEN js_parse_value(s, st.e) ELSE s,
                                      env, st.hasval)
    [] st.t = "throw"  -> emit_op(js_parse_value(s, st.e), "throw")
    [] st.t \in {"break", "continue"} -> emit_break(s, env, st.name, st.t = "continue")
    [] st.t = "if"     -> ParseIf(s, env, st)
    [] st.t = "while"  -> ParseWhile(s, env, st, name)
    [] st.t = "do"     -> ParseDo(s, env, st, name)
    [] st.t = "for"    -> ParseFor(s, env, st, name)
    [] st.t = "forof"  -> ParseForOf(s, env, st, name)
    [] st.t = "switch" -> ParseSwitch(s, env, st, name)
    [] st.t = "try"    -> ParseTry(s, env, st)
    [] st.t = "label"  -> ParseLabel(s, env, st)

----------------------------------------------------------------------------
\* What an instruction takes from the stack and puts on it: mquickjs_opcode.h.
opcode_info ==
  [ get_var_ref  |-> <<0, 1>>, put_var_ref  |-> <<1, 0>>, put_loc    |-> <<1, 0>>,
    get_field    |-> <<1, 1>>, get_field2   |-> <<1, 2>>, put_field  |-> <<2, 0>>,
    get_array_el |-> <<2, 1>>, put_array_el |-> <<3, 0>>, add        |-> <<2, 1>>,
    inc          |-> <<1, 1>>, post_inc     |-> <<1, 2>>, strict_eq  |-> <<2, 1>>,
    array_from   |-> <<0, 1>>, call         |-> <<1, 1>>, push_func  |-> <<0, 1>>,
    undefined    |-> <<0, 1>>, drop         |-> <<1, 0>>, nip        |-> <<2, 1>>,
    dup          |-> <<1, 2>>, dup2         |-> <<2, 4>>, swap       |-> <<2, 2>>,
    insert2      |-> <<2, 3>>, insert3      |-> <<3, 4>>, perm3      |-> <<3, 3>>,
    perm4        |-> <<4, 4>>, rot3l        |-> <<3, 3>>, if_false   |-> <<1, 0>>,
    if_true      |-> <<1, 0>>, goto         |-> <<0, 0>>, catch      |-> <<0, 1>>,
    gosub        |-> <<0, 0>>, ret          |-> <<1, 0>>, throw      |-> <<1, 0>>,
    return       |-> <<1, 0>>, return_undef |-> <<0, 0>>, for_of_start |-> <<1, 1>>,
    for_of_next  |-> <<1, 3>> ]

n_pop(ins) ==
  opcode_info[ins.op][1] + (IF ins.op \in {"call", "array_from"} THEN ins.n ELSE 0)
DepthAfter(ins, d) == d - n_pop(ins) + opcode_info[ins.op][2]

\* The places to go on from after the instruction at x[1], reached with x[2] words on
\* the stack.  As in the code, the target of a catch is not among them.
compute_stack_size_push(code, x) ==
  LET ins == code[x[1]]
      d   == DepthAfter(ins, x[2])
  IN CASE ins.op \in {"return", "return_undef", "throw", "ret"} -> {}
       [] ins.op = "goto" -> {<<ins.n, d>>}
       [] ins.op \in {"if_true", "if_false"} -> {<<ins.n, d>>, <<x[1] + 1, d>>}
       [] ins.op = "gosub" -> {<<ins.n, d + 1>>, <<x[1] + 1, d>>}
       [] OTHER -> {<<x[1] + 1, d>>}

\* No place is reached with two depths, and no instruction takes more than there is.
Consistent(code, reached) ==
  /\ \A x, y \in reached : x[1] = y[1] => x[2] = y[2]
  /\ \A x \in reached : x[1] <= Len(code) /\ x[2] >= n_pop(code[x[1]])

RECURSIVE Explore(_, _)
Explore(code, reached) ==
  LET more == UNION {compute_stack_size_push(code, x) : x \in reached} \ reached
  IN IF more = {} \/ ~Consistent(code, reached) THEN reached
     ELSE Explore(code, reached \cup more)

compute_stack_size(code, reached) ==
  Max({0} \cup {DepthAfter(code[x[1]], x[2]) : x \in reached})

Resolved(s) ==
  [i \in 1 .. Len(s.code) |->
     IF s.code[i].op \in {"goto", "if_true", "if_false", "catch", "gosub"}
     THEN [s.code[i] EXCEPT !.n = s.labels[@]] ELSE s.code[i]]

\* The function made of this code: the depths that were found, and the stack it asks
\* for when it is called.
Analysed(code, reached) ==
  [accepted |-> TRUE, consistent |-> Consistent(code, reached), code |-> code,
   reached |-> reached, stack_size |-> compute_stack_size(code, reached)]

Function(code) == Analysed(code, Explore(code, {<<1, 0>>}))
Rejected == [accepted |-> FALSE, consistent |-> TRUE]

EndOfFunction(s) == IF js_is_live_code(s) THEN emit_op(s, "return_undef") ELSE s

FunctionOf(s) == IF s.ok THEN Function(Resolved(EndOfFunction(s))) ELSE Rejected

js_parse_function(body) == FunctionOf(js_parse_block(Start, <<>>, body))

============================================================================
