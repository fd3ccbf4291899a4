----------------------------- MODULE MCLibrary -----------------------------
(* Interp, Libm, NumberValues, Regexp and RegexpMethods, each on its own.   *)
(* part says which of them a behaviour is one of; the variables of the      *)
(* others keep one value.                                                   *)
EXTENDS MCRegexp

CONSTANTS Programs, Functions               \* Interp

VARIABLES part,
  prog, bytecodes, frames, hist, exception, result,  \* Interp
  arg, ret,                                 \* Libm
  val, last, ops,                           \* NumberValues
  in, re, k, capture, out, done             \* RegexpMethods

interpVars == <<prog, bytecodes, frames, hist, exception, result>>
libmVars == <<arg, ret>>
valueVars == <<val, last, ops>>
methodVars == <<in, re, k, capture, out, done>>
all == <<part, vars, interpVars, libmVars, valueVars, methodVars>>

-----------------------------------------------------------------------------
(* The programs of MCInterp, with up to three answers out of the usual.     *)
P == INSTANCE MCInterp WITH Programs <- <<>>, Functions <- <<>>, MaxOdd <- 0
MCPrograms == P!MCPrograms
MCFunctions == P!MCFunctions
I == INSTANCE Interp WITH MaxOdd <- 3
ASSUME I!MaxOddAssumption

(* Words whose exponents are the smallest, the middle and the largest ones, *)
(* with mantissas around 0, the middle and the end.                         *)
MCOperands == {512 * s + 16 * e + m : s \in {0, 1}, e \in {0, 1, 2, 14, 15, 16, 30, 31},
                                      m \in {0, 1, 5, 8, 10, 15}}
L == INSTANCE Libm WITH
         MANT_SIZE <- 4, EXP_SIZE <- 5, MANT_SIZE32 <- 1, EXP_SIZE32 <- 3, Operands <- MCOperands,
         IntSizes <- {4, 10}, LOW_SIZE <- 3,
         ScaleSteps <- {-60, -30, -18, -15, -6, -1, 0, 1, 7, 15, 29, 60},
         ClzOfZero <- {-10, 0, 10}

(* Doubles of 15 bits.  The integers around the bounds of short integers    *)
(* and of ints of 8 bits, halves, the bounds of short floats (2^-7 and 2^8),*)
(* subnormals, infinity and NaN.                                            *)
Dbl(s, e, m) == 16384 * s + 128 * (63 + e) + m
MCLiterals == {Dbl(s, e, m) : s \in {0, 1}, e \in {0, 5, 7}, m \in {0, 64, 126}}
                \cup {Dbl(s, e, 0) : s \in {0, 1}, e \in {-63, 6, 8}}
                \cup {Dbl(1, -63, 1), Dbl(1, -8, 127), Dbl(0, -7, 0), Dbl(0, 9, 5),
                      Dbl(0, 14, 127), Dbl(0, 16, 0), Dbl(0, 64, 0), Dbl(0, 64, 1)}
MCOthers == {Dbl(1, -63, 0), Dbl(1, 1, 0), Dbl(0, 0, 64), Dbl(0, 5, 124), Dbl(1, 7, 64)}
N == INSTANCE NumberValues WITH
         MANT_SIZE <- 7, EXP_SIZE <- 7, SHORT_SIZE <- 7, BYTE_MAX <- 63, Literals <- MCLiterals, Others <- MCOthers,
         Clamps <- {<<0, 20, 20>>, <<0, 63, 0>>, <<-10, 10, 0>>}, MaxOps <- 2

ASSUME L!LibmAssumption /\ L!F!FormatAssumption /\ L!S!FormatAssumption
ASSUME N!NumberAssumption /\ N!D!FormatAssumption

-----------------------------------------------------------------------------
(* Calls of the methods of regular expressions: patterns with empty         *)
(* matches, groups and choices, strings with a character of two units.      *)
MethodPatterns ==
  {<<a>>, <<a, Star>>, <<b, Star>>, <<>>, <<Tok("^")>>, <<Tok("$")>>, <<Tok("\\b")>>,
   <<Tok("("), a, Tok("|"), b, Tok(")")>>, <<Tok("("), a, Tok(")"), Tok("|"), b>>,
   <<Tok("("), a, Tok(")"), b, Quant(0, 1, TRUE)>>, <<Tok("(?="), Tok("."), a, Tok(")")>>, <<Char(cat)>>, <<Tok(".")>>}
Texts == {<<>>, <<A, B>>, <<A, A, B, A>>, CatBytes, <<A>> \o CatBytes \o <<B>>, CatBytes \o CatBytes \o <<A>>}
M0 == INSTANCE RegexpMethods WITH Calls <- {}, MaxOut <- 0
Reps == {<<M0!Part("match"), M0!Part("match")>>, <<M0!Text(60), M0!GroupPart(1), M0!Text(36)>>,
         <<M0!Part("before"), M0!Text(45), M0!Part("after"), M0!Part("$")>>}
MethodCall(m, t, y, g, txt, li, rep, lim) ==
  [m |-> m, toks |-> t, fl |-> [Plain EXCEPT !.y = y], g |-> g, str |-> txt, li |-> li, rep |-> rep, lim |-> lim]
MCCalls ==
  {MethodCall("exec", t, y, g, txt, li, <<>>, 0) : t \in MethodPatterns, y \in BOOLEAN, g \in BOOLEAN, txt \in Texts, li \in {0, 1, 3}}
  \cup {MethodCall(m, t, y, TRUE, txt, 1, <<>>, 0) : m \in {"search", "match"}, t \in MethodPatterns, y \in BOOLEAN, txt \in Texts}
  \cup {c \in {MethodCall("replace", t, y, g, txt, li, rep, 0) :
                 t \in MethodPatterns, y \in BOOLEAN, g \in BOOLEAN, txt \in Texts, li \in {0, 2}, rep \in Reps} :
          \A n \in DOMAIN c.rep : c.rep[n].part = "group" => ReadAll(c.toks).ncap > 1}
  \cup {MethodCall("split", t, y, FALSE, txt, 2, <<>>, lim) : t \in MethodPatterns, y \in BOOLEAN, txt \in Texts, lim \in {0, 1, 2, 9}}
M == INSTANCE RegexpMethods WITH Calls <- MCCalls, MaxOut <- 9
ASSUME RegexpAssumption /\ M!MethodsAssumption

-----------------------------------------------------------------------------
NoRegexp == input = <<>> /\ phase = "done" /\ ps = <<>> /\ call = <<>> /\ x = <<>> /\ ctx = <<>>
NoInterp == prog = 0 /\ bytecodes = <<>> /\ frames = <<>> /\ hist = <<>> /\ exception = FALSE /\ result = 0
NoLibm == arg = 0 /\ ret = L!None
NoValues == val = 0 /\ last = 0 /\ ops = 0
NoMethods == in = <<>> /\ re = <<>> /\ k = 0 /\ capture = <<>> /\ out = <<>> /\ done = TRUE
LibInit ==
  \/ part = "interp" /\ I!Init /\ NoLibm /\ NoValues /\ NoRegexp /\ NoMethods
  \/ part = "libm" /\ L!Init /\ NoInterp /\ NoValues /\ NoRegexp /\ NoMethods
  \/ part = "values" /\ N!Init /\ NoInterp /\ NoLibm /\ NoRegexp /\ NoMethods
  \/ part = "regexp" /\ Init /\ NoInterp /\ NoLibm /\ NoValues /\ NoMethods
  \/ part = "methods" /\ M!Init /\ NoInterp /\ NoLibm /\ NoValues /\ NoRegexp
LibNext ==
  \/ part = "interp" /\ I!Next /\ UNCHANGED <<part, vars, libmVars, valueVars, methodVars>>
  \/ part = "libm" /\ L!Next /\ UNCHANGED <<part, vars, interpVars, valueVars, methodVars>>
  \/ part = "values" /\ N!Next /\ UNCHANGED <<part, vars, interpVars, libmVars, methodVars>>
  \/ part = "regexp" /\ Next /\ UNCHANGED <<part, interpVars, libmVars, valueVars, methodVars>>
  \/ part = "methods" /\ M!Next /\ UNCHANGED <<part, vars, interpVars, libmVars, valueVars>>
  \/ part # "interp" /\ UNCHANGED all    \* only programs are checked for deadlock
LibSpec == LibInit /\ [][LibNext]_all

(* Interp: the parser refuses the programs the language refuses, and no     *)
(* place of its code has two stack depths.                                  *)
BytecodeAccepted == part = "interp" => I!AcceptsLegal
(* Interp: the bytecode does what the program says, whatever is answered,   *)
(* thrown or interrupted.                                                   *)
ProgramsConform == part = "interp" => I!Conforms
(* Interp: the operands are as many as compute_stack_size found.            *)
DepthAsComputed == part = "interp" => I!DepthAsComputed
(* Libm: the arithmetic of the software floating point. *)
CorrectlyRounded == part = "libm" => L!CorrectlyRounded
(* Libm: conversions, rounding to integers, comparisons. *)
ConversionsExact == part = "libm" => L!ConversionsExact
(* NumberValues: types; the fast paths of the interpreter loop and the      *)
(* conversions to integers.                                                 *)
PathsAgree == part = "values" => N!TypeOK /\ N!PathsAgree /\ N!IntegersAgree
(* NumberValues: equal numbers are one property key. *)
OneKeyPerNumber == part = "values" => N!OneKeyPerNumber
(* Regexp: the parser takes the patterns of the language and no others, and *)
(* makes code that the matcher can run.                                     *)
PatternCode == part = "regexp" => AcceptsLegal /\ CodeWellFormed
(* Regexp: the matcher finds what the language prescribes, and gives the    *)
(* stack of states back.                                                    *)
MatchesAsSpecified == part = "regexp" => Conforms /\ StackRestored
(* RegexpMethods: exec, search, match, replace and split. *)
MethodsAsSpecified == part = "methods" => M!MethodsAsSpecified
(* RegexpMethods: their loops end. *)
TurnsBounded == part = "methods" => M!TurnsBounded
=============================================================================
