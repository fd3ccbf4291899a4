------------------------------ MODULE Readline ------------------------------
\* The line editor of the command line program.  It is fed with the bytes of the terminal,
\* keeps the line being edited and the position of the cursor in UTF-8, the lines accepted
\* in one buffer of entries that end with 0, and redraws the line only when it has changed:
\* else it computes how far the cursor moves.
\*
\* A byte written after the end of term_cmd_buf has no defined effect: a behaviour that
\* comes to it ends there.
EXTENDS Utf8, SequencesExt

CONSTANTS
  Keys,                   \* what one read of the terminal gives: a key, or text that is pasted
  Starts,                 \* [hist: the lines accepted before, keys: how many reads]
  PromptLen, term_width, term_cmd_buf_size, term_history_buf_size

ReadlineAssumption ==
  /\ {PromptLen, term_width, term_cmd_buf_size, term_history_buf_size} \subseteq Nat
  /\ term_width >= 4 /\ term_cmd_buf_size > 0
  (* a wide character fits after the prompt *)
  /\ (PromptLen % term_width) + 2 <= term_width

VARIABLES
  s,        \* the ReadlineState
  input,    \* the bytes read and not handled yet
  keys,     \* how many reads are left
  accepted  \* the history as a list of lines

vars == <<s, input, keys, accepted>>

IS_NORM == 0
IS_ESC == 1
IS_CSI == 2
ESC == 27
Digits == 48 .. 57
HANDLED == "handled"
NOT_HANDLED == "not handled"
ACCEPTED == "accepted"
EXIT == "exit"

Stored(lines) == FlattenSeq([n \in DOMAIN lines |-> Append(lines[n], 0)])
term_show_prompt(y) ==
  [y EXCEPT !.x = PromptLen % term_width, !.pos = 0, !.esc = IS_NORM, !.utf8_state = 0, !.index = 0, !.line = <<>>]
readline_start(y) == term_show_prompt([y EXCEPT !.hist_entry = -1])
Blank == [line |-> <<>>, index |-> 0, utf8_state |-> 0, utf8_val |-> 0, esc |-> IS_NORM, param |-> 0, x |-> 0, pos |-> 0,
          updated |-> FALSE, hist |-> <<>>, hist_entry |-> -1, kill |-> <<>>]
Init == \E start \in Starts :
  /\ s = readline_start([Blank EXCEPT !.hist = Stored(start.hist)])
  /\ input = <<>> /\ keys = start.keys /\ accepted = start.hist

-----------------------------------------------------------------------------
(* The screen. *)
char_width(c) == IF c \in 19968 .. 40959 \/ c \in 65281 .. 65374 \/ c \in 128512 .. 128591 THEN 2 ELSE 1
Width(line, i) == char_width(CharAt(line, i))
move_cursor(x, delta) == (x + delta) % term_width

(* Where the cursor is after the characters from i to the end: a wide one   *)
(* that does not fit goes to the next row.                                  *)
Wrapped(x) == IF x >= term_width THEN 0 ELSE x
RECURSIVE Layout_notPadded(_, _, _, _, _)
Layout_notPadded(line, i, end, x, pos) ==
  IF i >= end THEN [x |-> x, pos |-> pos]
  ELSE IF x + Width(line, i) > term_width /\ i > 0
  THEN Layout_notPadded(line, i + CharLen(line, i), end, Width(line, i), pos + Width(line, i))
  ELSE Layout_notPadded(line, i + CharLen(line, i), end, Wrapped(x + Width(line, i)), pos + Width(line, i))
RECURSIVE Layout(_, _, _, _, _)
Layout(line, i, end, x, pos) ==
  IF i >= end THEN [x |-> x, pos |-> pos]
  ELSE IF x + Width(line, i) > term_width /\ i > 0
  THEN Layout(line, i + CharLen(line, i), end, Width(line, i), pos + (term_width - x) + Width(line, i))
  ELSE Layout(line, i + CharLen(line, i), end, Wrapped(x + Width(line, i)), pos + Width(line, i))
Shown(y, at, end) == [y EXCEPT !.updated = FALSE, !.pos = at.pos, !.x = move_cursor(end.x, at.pos - end.pos)]
Redrawn(y, x0) == Shown(y, Layout(y.line, 0, y.index, x0, 0), Layout(y.line, 0, Len(y.line), x0, 0))
Moved(y, at) == [y EXCEPT !.pos = at.pos, !.x = move_cursor(@, at.pos - y.pos)]
term_update(y) ==
  IF y.updated THEN Redrawn(y, move_cursor(y.x, 0 - y.pos))
  ELSE Moved(y, Layout(y.line, 0, y.index, (y.x - y.pos) % term_width, 0))

-----------------------------------------------------------------------------
(* Editing. *)
term_kill_region(y, to, kill) ==
  LET start == IF to < y.index THEN to ELSE y.index
      end == IF to < y.index THEN y.index ELSE IF to > Len(y.line) THEN Len(y.line) ELSE to
  IN  IF start >= end THEN y
      ELSE [y EXCEPT !.kill = IF kill THEN SubSeq(y.line, start + 1, end) ELSE @,
                     !.line = SubSeq(@, 1, start) \o SubSeq(@, end + 1, Len(@)),
                     !.index = start, !.updated = TRUE]
term_insert_region(y, p) ==
  IF y.index + Len(p) >= term_cmd_buf_size THEN y
  ELSE [y EXCEPT !.line = SubSeq(@, 1, y.index) \o p \o SubSeq(@, y.index + 1, Len(@)),
                 !.index = @ + Len(p), !.updated = TRUE]
term_insert_char(y, ch) == term_insert_region(y, utf8(ch))

RECURSIVE BackFrom(_, _)
BackFrom(line, i) == IF i > 0 /\ IsExt(line[i + 1]) THEN BackFrom(line, i - 1) ELSE i
term_backward_char(y) == IF y.index > 0 THEN [y EXCEPT !.index = BackFrom(y.line, @ - 1)] ELSE y
term_forward_char(y) == IF y.index < Len(y.line) THEN [y EXCEPT !.index = @ + CharLen(y.line, @)] ELSE y
term_delete_char_oneByte(y) == IF y.index < Len(y.line) THEN term_kill_region(y, y.index + 1, FALSE) ELSE y
term_delete_char(y) ==
  IF y.index < Len(y.line) THEN term_kill_region(y, y.index + CharLen(y.line, y.index), FALSE) ELSE y
term_backspace(y) == IF y.index > 0 THEN term_delete_char(term_backward_char(y)) ELSE y

(* The start of the word before, and the end of the one after, the cursor.  *)
isspace(b) == b \in 9 .. 13 \cup {32}
Least(S) == CHOOSE n \in S : \A m \in S : n <= m
Most(S) == CHOOSE n \in S : \A m \in S : n >= m
skip_word_backward(y) ==
  LET word == {p \in 1 .. y.index : ~isspace(y.line[p])}
      before == {p \in 1 .. Most(word) : isspace(y.line[p])}
  IN  IF word = {} THEN 0 ELSE Most(before \cup {0})
skip_word_forward(y) ==
  LET word == {p \in y.index + 1 .. Len(y.line) : ~isspace(y.line[p])}
      after == {p \in Least(word) .. Len(y.line) : isspace(y.line[p])}
  IN  IF word = {} THEN Len(y.line) ELSE Least(after \cup {Len(y.line) + 1}) - 1
term_skip_word_backward(y) == [y EXCEPT !.index = skip_word_backward(y)]
term_skip_word_forward(y) == [y EXCEPT !.index = skip_word_forward(y)]
term_kill_word(y) == term_kill_region(y, skip_word_forward(y), TRUE)
term_kill_word_backward(y) == term_kill_region(y, skip_word_backward(y), TRUE)
term_yank(y) == term_insert_region(y, y.kill)
term_bol(y) == [y EXCEPT !.index = 0]
term_eol(y) == [y EXCEPT !.index = Len(y.line)]

-----------------------------------------------------------------------------
(* The history. *)
strlen(h, p) == Least({q \in p + 1 .. Len(h) : h[q] = 0} \cup {Len(h) + 1}) - p - 1
EntryAt(h, p) == SubSeq(h, p + 1, p + strlen(h, p))
update_cmdline_from_history(y) ==
  LET entry == EntryAt(y.hist, y.hist_entry) IN
  [y EXCEPT !.line = entry, !.index = Len(entry), !.updated = TRUE]
RECURSIVE EntryStart(_, _)
EntryStart(h, idx) == IF idx > 0 /\ h[idx] # 0 THEN EntryStart(h, idx - 1) ELSE idx
Current(y) == IF y.hist_entry = -1 THEN Len(y.hist) ELSE y.hist_entry
term_up_char(y) ==
  IF Current(y) = 0 THEN [y EXCEPT !.hist_entry = 0]
  ELSE update_cmdline_from_history([y EXCEPT !.hist_entry = EntryStart(y.hist, Current(y) - 1)])
term_down_char(y) ==
  CASE y.hist_entry = -1 -> y
    [] y.hist_entry # -1 /\ y.hist_entry + strlen(y.hist, y.hist_entry) + 1 < Len(y.hist) ->
         update_cmdline_from_history([y EXCEPT !.hist_entry = @ + strlen(y.hist, @) + 1])
    [] OTHER -> term_eol([y EXCEPT !.hist_entry = -1])

Removed_keepsEnd(h, idx) == SubSeq(h, 1, idx) \o SubSeq(h, idx + strlen(h, idx) + 1, Len(h))
Removed(h, idx) == SubSeq(h, 1, idx) \o SubSeq(h, idx + strlen(h, idx) + 2, Len(h))
RECURSIVE Search(_, _, _)
Search(h, idx, line) ==
  IF idx >= Len(h) THEN -1 ELSE IF EntryAt(h, idx) = line THEN idx ELSE Search(h, idx + strlen(h, idx) + 1, line)
Same(y) == IF y.hist_entry # -1 /\ EntryAt(y.hist, y.hist_entry) = y.line THEN y.hist_entry ELSE Search(y.hist, 0, y.line)
Without(h, idx) == IF idx = -1 THEN h ELSE Removed(h, idx)
RECURSIVE MakeRoom_(_, _)
MakeRoom_(h, size) == IF Len(h) + size > term_history_buf_size THEN MakeRoom_(Removed(h, 0), size) ELSE h
Added(h, line) == IF Len(line) + 1 > term_history_buf_size THEN h ELSE MakeRoom_(h, Len(line) + 1) \o line \o <<0>>
term_hist_add(y) ==
  IF y.line = <<>> THEN y
  ELSE [y EXCEPT !.hist = Added(Without(@, Same(y)), y.line), !.hist_entry = -1]
term_return(y) == term_eol(term_hist_add(y))

-----------------------------------------------------------------------------
(* A character of the line, of a key or of an escape sequence.              *)
Ret(y, ret) == [y |-> y, ret |-> ret]
Edit(y) == Ret(y, HANDLED)
NormalChar(y, ch) ==
  CASE ch = 1 -> Edit(term_bol(y))
    [] ch = 4 -> IF y.line = <<>> THEN Ret(y, EXIT) ELSE Edit(term_delete_char(y))
    [] ch = 5 -> Edit(term_eol(y))
    [] ch = 9 -> Edit(y)
    [] ch \in {10, 13} -> Ret(term_return(y), ACCEPTED)
    [] ch = 11 -> Edit(term_kill_region(y, Len(y.line), TRUE))
    [] ch = 21 -> Edit(term_kill_region(y, 0, TRUE))
    [] ch = 23 -> Edit(term_kill_word_backward(y))
    [] ch = 25 -> Edit(term_yank(y))
    [] ch = ESC -> Edit([y EXCEPT !.esc = IS_ESC])
    [] ch \in {8, 127} -> Edit(term_backspace(y))
    [] ch = 155 -> Edit([y EXCEPT !.esc = IS_CSI])
    [] ch >= 32 /\ ch \notin {127, 155} -> Edit(term_insert_char(y, ch))
    [] OTHER -> Ret(y, NOT_HANDLED)
EscChar(y, ch) ==
  CASE ch \in {79, 91} -> Edit([y EXCEPT !.esc = IS_CSI, !.param = 0])
    [] ch = 13 -> Edit(term_return(y))
    [] ch \in {8, 127} -> Edit(term_kill_word_backward(y))
    [] ch = 98 -> Edit(term_skip_word_backward(y))
    [] ch = 100 -> Edit(term_kill_word(y))
    [] ch = 102 -> Edit(term_skip_word_forward(y))
    [] OTHER -> Ret(y, NOT_HANDLED)
CsiChar(y, ch) ==
  CASE ch = 65 -> Edit(term_up_char(y))
    [] ch \in {66, 69} -> Edit(term_down_char(y))
    [] ch = 68 -> Edit(term_backward_char(y))
    [] ch = 67 -> Edit(term_forward_char(y))
    [] ch = 70 \/ (ch = 126 /\ y.param = 4) -> Edit(term_eol(y))
    [] ch = 72 \/ (ch = 126 /\ y.param = 1) -> Edit(term_bol(y))
    [] ch = 126 /\ y.param = 3 -> Edit(term_delete_char(y))
    [] ch = 59 -> Edit([y EXCEPT !.esc = IS_CSI, !.param = 0])
    [] ch \in Digits -> Edit([y EXCEPT !.esc = IS_CSI, !.param = 10 * @ + ch - 48])
    [] OTHER -> Ret(y, NOT_HANDLED)
ByState(y, ch) ==
  CASE y.esc = IS_NORM -> NormalChar(y, ch)
    [] y.esc = IS_ESC -> EscChar([y EXCEPT !.esc = IS_NORM], ch)
    [] y.esc = IS_CSI -> CsiChar([y EXCEPT !.esc = IS_NORM], ch)
AfterChar(r) == IF r.ret \in {HANDLED, ACCEPTED} THEN Ret(term_update(r.y), r.ret) ELSE r
readline_handle_char(y, ch) == AfterChar(ByState(y, ch))

(* UTF-8 from the terminal.  A byte that cannot go on with a character ends *)
(* it and is one itself.                                                    *)
IsLead(c) == c \in 192 .. 247
Extended(y, c) == [y EXCEPT !.utf8_val = 64 * @ + (c % 64), !.utf8_state = @ - 1]
readline_handle_byte(y, c) ==
  CASE IsLead(c) ->
         Edit([y EXCEPT !.utf8_state = IF c < 224 THEN 1 ELSE IF c < 240 THEN 2 ELSE 3,
                        !.utf8_val = IF c < 224 THEN c % 32 ELSE IF c < 240 THEN c % 16 ELSE c % 8])
    [] y.utf8_state > 0 /\ IsExt(c) ->
         IF y.utf8_state > 1 THEN Edit(Extended(y, c))
         ELSE readline_handle_char(Extended(y, c), Extended(y, c).utf8_val)
    [] ~IsLead(c) /\ ~(y.utf8_state > 0 /\ IsExt(c)) -> readline_handle_char([y EXCEPT !.utf8_state = 0], c)

-----------------------------------------------------------------------------
(* readline_tty: reads, and hands the bytes over one by one.  A line that is *)
(* accepted is run and edited no more; what was read after it is dropped.   *)
Read == input = <<>> /\ keys > 0 /\ input' \in Keys /\ keys' = keys - 1 /\ UNCHANGED <<s, accepted>>

(* The list of the lines accepted, the last one last, each of them once, as *)
(* many as there is room for.                                               *)
Room(lines) == Len(Stored(lines)) <= term_history_buf_size
Kept(lines) ==
  SubSeq(lines, Least({n \in 1 .. Len(lines) + 1 : Room(SubSeq(lines, n, Len(lines)))}), Len(lines))
Remembered(lines, line) ==
  IF line = <<>> THEN lines ELSE Kept(Append(SelectSeq(lines, LAMBDA l : l # line), line))
Returns(c) == ~(s.utf8_state > 0 /\ IsExt(c)) /\ ((s.esc = IS_NORM /\ c \in {10, 13}) \/ (s.esc = IS_ESC /\ c = 13))

Handled(r, c) ==
  /\ s' = IF r.ret = ACCEPTED THEN readline_start(r.y) ELSE r.y
  /\ input' = IF r.ret \in {ACCEPTED, EXIT} THEN <<>> ELSE Tail(input)
  /\ keys' = IF r.ret = EXIT THEN 0 ELSE keys
  /\ accepted' = IF Returns(c) THEN Remembered(accepted, s.line) ELSE accepted
readline_tty ==
  /\ input # <<>> /\ Len(s.line) < term_cmd_buf_size
  /\ \E r \in {readline_handle_byte(s, Head(input))} : Handled(r, Head(input))
Next == Read \/ readline_tty
Spec == Init /\ [][Next]_vars

-----------------------------------------------------------------------------
(* Properties. *)
(* A text of whole characters, each in its shortest encoding. *)
IsWhole(t) == \A p \in Boundaries(t) \ {Len(t)} : SubSeq(t, p + 1, p + CharLen(t, p)) = utf8(CharAt(t, p))
WholeText(t) == (t # <<>> => ~IsExt(t[1])) /\ IsWhole(t)
(* However characters are typed in part, deleted, killed, yanked, skipped   *)
(* over or recalled, the line and what was killed are whole characters and  *)
(* the cursor is between two.                                               *)
CharactersWhole ==
  Len(s.line) < term_cmd_buf_size => WholeText(s.line) /\ WholeText(s.kill) /\ s.index \in Boundaries(s.line)

(* The cursor is where the line up to it ends on the screen: the rows end   *)
(* after term_width cells, a character is never split between two rows.     *)
Row == PromptLen % term_width
CharStart(line, p, end) == Least({e \in end .. end + 1 : ((Row + e) % term_width) + Width(line, p) <= term_width})
Ends(line) ==
  LET E[p \in Boundaries(line)] ==
        IF p = 0 THEN 0 ELSE LET q == PrevBoundary(line, p) IN CharStart(line, q, E[q]) + Width(line, q)
  IN  E
CursorShown ==
  Len(s.line) < term_cmd_buf_size =>
    s.pos = Ends(s.line)[s.index] /\ s.x = (Row + s.pos) % term_width

(* The buffer of the history holds the lines accepted, and the entry shown  *)
(* is one of them.                                                          *)
EntryStarts == {p \in 0 .. Len(s.hist) - 1 : p = 0 \/ s.hist[p] = 0}
HistoryIsRecent ==
  Len(s.line) < term_cmd_buf_size =>
    s.hist = Stored(accepted) /\ s.hist_entry \in EntryStarts \cup {-1} \cup (IF s.hist = <<>> THEN {0} ELSE {})
=============================================================================
