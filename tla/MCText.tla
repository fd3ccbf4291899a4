------------------------------- MODULE MCText -------------------------------
(* Strings, numbers as texts, the memory of a context (Arena), and of the   *)
(* command line program Readline and Timers, each on its own.  part says    *)
(* which of them a behaviour is one of; the variables of the others keep    *)
(* one value.                                                               *)
EXTENDS Arena, Timers

VARIABLES part,
  s, input, keys, accepted,                 \* Readline
  heap, regs, units, cache, agrees, left,   \* Strings
  call, text, got                           \* NumberText
lineVars == <<s, input, keys, accepted>>
stringVars == <<heap, regs, units, cache, agrees, left>>
numberVars == <<call, text, got>>
all == <<part, vars, timersVars, lineVars, stringVars, numberVars>>

(* Timers: two places in the table, three calls of setTimeout, so that ids  *)
(* are used again; delays that have passed at once, that are shorter and    *)
(* longer than the longest sleep.                                           *)
MCDelay == {-1, 1, 3}
ASSUME TimersAssumption

(* Keys and pasted text: characters of one, two and three bytes and of two  *)
(* cells, halves of one, and every command.  The terminal is five cells     *)
(* wide and the prompt seven, so that lines wrap after three cells; the     *)
(* history has room for two or three lines.                                 *)
A == 97
Csi(c) == <<27, 91, c>>
Eacute == <<195, 169>>
Wide == <<230, 150, 135>>
MCKeys == {<<A>>, <<32>>, Eacute, Wide, <<195>>, <<169>>, <<13>>, <<1>>, <<11>>, <<21>>, <<23>>, <<25>>, <<127>>, <<4>>,
           <<27, 98>>, <<27, 100>>, <<27, 102>>, <<27, 13>>, Csi(65), Csi(66), Csi(68), Csi(67), Csi(52) \o <<126>>, <<155, 72>>,
           Csi(51) \o <<126>>, <<A, 32>> \o Wide, Wide \o <<A, 13, A>>}
L == INSTANCE Readline WITH
       Keys <- MCKeys, Starts <- {[hist |-> h, keys |-> 4] : h \in {<<>>, <<<<A>>, Eacute \o <<32, A>>>>}},
       PromptLen <- 7, term_width <- 5, term_cmd_buf_size <- 8, term_history_buf_size <- 10
ASSUME L!ReadlineAssumption

(* Strings with characters of one to four bytes and both kinds of           *)
(* surrogates alone; the cache has two entries.                             *)
Cat == <<240, 159, 144, 177>>
Hi == L!utf8(55357)
Lo == L!utf8(56369)
ShortTexts == {<<A>>, Hi, Lo, Cat, <<A>> \o Hi, Lo \o <<A>>, Lo \o Hi, Hi \o L!utf8(65535), Eacute}
S == INSTANCE Strings WITH
       Starts <- {[texts |-> <<u, v>>, made |-> 2, asks |-> FALSE] : u \in ShortTexts, v \in ShortTexts}
                   \cup {[texts |-> <<<<A>> \o Cat \o Eacute \o <<A>>, v>>, made |-> 1, asks |-> TRUE] :
                           v \in {Cat \o Cat, Lo \o <<A>>, <<A>>}},
       Addresses <- {1, 2, 3, 4}, JS_STRING_POS_CACHE_SIZE <- 2, JS_STRING_POS_CACHE_MIN_LEN <- 8, JS_STRING_LEN_MAX <- 20
ASSUME S!StringsAssumption

(* Numbers of ten bits, with five bits of precision.  All the positive ones *)
(* and some negative ones are written in radix 10, every few of them in     *)
(* other radices and with a number of digits, in bounds and out of them.    *)
Infinite == 31 * 16
SomeNegative == {512 + w : w \in {0, 1, 17, 240, 249, 416, 495, Infinite}}
Numbers(n) == {w \in 0 .. Infinite : w % n = 0} \cup {Infinite + 8} \cup SomeNegative
Show(op, words, args) == {[op |-> op, d |-> w, arg |-> a] : w \in words, a \in args}
Shows == Show("toString", Numbers(1), {10}) \cup Show("toString", Numbers(5), {1, 2, 3, 16, 36})
           \cup Show("dump", Numbers(7), {10})
           \cup UNION {Show(op, Numbers(3), -2 .. 4) : op \in {"toFixed", "toExponential", "toPrecision"}}

(* To read: numbers at and beside the limits of the format, halves between  *)
(* numbers, exponents up to more than an int, more digits of a radix 2^n    *)
(* than are kept; blanks, signs, prefixes and characters that do not belong *)
(* to a number.                                                             *)
Plain == [before |-> <<>>, neg |-> FALSE, plus |-> FALSE, prefix |-> 0, whole |-> <<>>, dot |-> FALSE, frac |-> <<>>,
          exp |-> <<>>, expneg |-> FALSE, sep |-> FALSE, tail |-> <<>>]
Text(prefix, whole, frac) ==
  [Plain EXCEPT !.prefix = prefix, !.whole = whole, !.dot = frac # <<>>, !.frac = frac]
Wholes == {<<>>, <<0>>, <<0, 0>>, <<1>>, <<8>>, <<0, 9>>, <<3, 3>>,
           <<6, 5, 5, 0, 4>>, <<6, 5, 5, 1, 9>>, <<6, 5, 5, 2, 0>>, <<9, 9, 9, 9, 9>>}
Fracs == {<<>>, <<5>>, <<2, 5>>, <<0, 0>>, <<1, 2, 5>>, <<0, 3, 1, 2, 5>>}
Exps == {<<>>, <<0>>, <<1>>, <<0, 2>>, <<1, 0, 1, 0>>, <<1, 0, 2, 3>>, <<9, 9, 9, 9>>}
Decimals ==
  {[Text(0, w, f) EXCEPT !.exp = e, !.expneg = n] : w \in Wholes, f \in Fracs, e \in Exps, n \in BOOLEAN}
    \cup {[Text(0, w, f) EXCEPT !.exp = <<5>>, !.expneg = TRUE] : w \in {<<1>>, <<3, 3>>}, f \in {<<>>, <<5>>, <<2, 5>>}}
    \cup {[Text(0, w, <<>>) EXCEPT !.dot = TRUE] : w \in Wholes}
    \cup {Text(0, w, f) : w \in {<<0>>, <<3, 3>>}, f \in {<<0, 3, 1, 2, 4, 9, 9>>, <<0, 3, 1, 2, 5, 0, 1>>}}
Others ==
  {Text(p, w, f) : p \in {2, 8, 16}, w \in {<<0>>, <<1>>, <<1, 0, 1, 1>>}, f \in {<<>>, <<1>>}}
    \cup {Text(2, <<1>>, <<0, 0, 0, 0, 1, 0, 0, 0, 0, 0, 0, 0, 0, 1>>),
          Text(8, <<1>>, <<0, 2, 0, 0, 0, 0, 1>>), Text(16, <<1>>, <<0, 8, 0, 0, 1>>)}
Around ==
  {[Text(p, w, <<>>) EXCEPT !.before = b, !.neg = n, !.plus = ~n, !.tail = t] :
      p \in {0, 2, 16}, w \in {<<>>, <<1, 0>>}, n \in BOOLEAN, b \in {<<>>, <<43, 43>>}, t \in {<<>>, <<43>>, <<21>>, <<38>>}}
Reads(op, ins, args) == {[op |-> op, in |-> x, arg |-> a] : x \in ins, a \in args}
N == INSTANCE NumberText WITH
       Calls <- Shows \cup Reads("ToNumber", Decimals \cup Others \cup Around, {0})
                  \cup Reads("parseFloat", Decimals \cup Others, {0})
                  \cup Reads("literal", {[x EXCEPT !.sep = b] : b \in BOOLEAN, x \in {x \in Decimals \cup Others : x.whole # <<>>}}, {0})
                  \cup Reads("parseInt", {x \in Decimals \cup Others : x.exp = <<>>}, {0, 1, 2, 3, 10, 16, 37})
                  \cup Reads("parseInt", Around, {0}),
       MANT_SIZE <- 4, EXP_SIZE <- 5, LIMB_BITS <- 8, ATOD_BITS <- 12, INT_BITS <- 11, MAX_DIGITS <- 3, FIXED_LIMIT <- 28 * 16
ASSUME N!NumberTextAssumption

NoStrings == heap = <<>> /\ regs = <<>> /\ units = <<>> /\ cache = <<>> /\ agrees = TRUE /\ left = 0
NoLine == s = L!readline_start(L!Blank) /\ input = <<>> /\ keys = 0 /\ accepted = <<>>
NoTimers ==
  /\ timer = [n \in Slot |-> [allocated |-> FALSE, timeout |-> 0, name |-> 0]]
  /\ last_gc_ref = <<>> /\ fate = [n \in Name |-> "unset"] /\ now = 0 /\ ticks = 0
  /\ cur_time = 0 /\ min_delay = IdleDelay /\ has_timer = FALSE /\ i = 1 /\ pc = "done"
NoNumber == call = <<>> /\ text = <<>> /\ got = <<>>
TextInit ==
  /\ Init
  /\ \/ part = "arena" /\ NoTimers /\ NoLine /\ NoStrings /\ NoNumber
     \/ part = "timers" /\ TimersInit /\ NoLine /\ NoStrings /\ NoNumber
     \/ part = "readline" /\ L!Init /\ NoTimers /\ NoStrings /\ NoNumber
     \/ part = "strings" /\ S!Init /\ NoTimers /\ NoLine /\ NoNumber
     \/ part = "numbers" /\ N!Init /\ NoTimers /\ NoLine /\ NoStrings
TextNext ==
  \/ part = "arena" /\ Next /\ UNCHANGED <<part, timersVars, lineVars, stringVars, numberVars>>
  \/ part = "timers" /\ TimersNext /\ UNCHANGED <<part, vars, lineVars, stringVars, numberVars>>
  \/ part = "readline" /\ L!Next /\ UNCHANGED <<part, vars, timersVars, stringVars, numberVars>>
  \/ part = "strings" /\ S!Next /\ UNCHANGED <<part, vars, timersVars, lineVars, numberVars>>
  \/ part = "numbers" /\ N!Next /\ UNCHANGED <<part, vars, timersVars, lineVars, stringVars>>
TextSpec == TextInit /\ [][TextNext]_all
(* The fairness of Timers: run_timers goes on, the script and every         *)
(* callback end.                                                            *)
FairTextSpec ==
  TextSpec /\ WF_timersVars(LoopStep) /\ WF_timersVars(ScriptEnds) /\ WF_timersVars(CallbackReturns)

(* Readline: the line and what was killed are whole characters.             *)
CharactersWhole == part = "readline" => L!CharactersWhole
(* Readline: the cursor is shown where the next character goes.             *)
CursorShown == part = "readline" => L!CursorShown
(* Readline: the history holds the lines accepted last, each once.          *)
HistoryIsRecent == part = "readline" => L!HistoryIsRecent
(* Strings: positions in bytes and in characters. *)
PositionsExact == part = "strings" => S!PositionsExact
(* Strings: one representation for each string. *)
StringsCanonical == part = "strings" => S!StringsCanonical
(* Strings: comparisons. *)
ComparesInOrder == part = "strings" => S!ComparesInOrder
(* NumberText: a text of toString stands for its number and is read as it.  *)
TextReadsBack == part = "numbers" => N!TextReadsBack
(* NumberText: toFixed, toExponential and toPrecision.                      *)
DigitsRounded == part = "numbers" => N!DigitsRounded
(* NumberText: what is read is the nearest number.                          *)
TextsRead == part = "numbers" => N!TextsRead
(* NumberText: no number of fewer digits is read as the same.               *)
FewestDigits == part = "numbers" => N!FewestDigits
=============================================================================
