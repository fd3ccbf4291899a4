----------------------------- MODULE NumberText -----------------------------
(***************************************************************************)
(* The callers of dtoa.c in mquickjs.c: the methods of Number that give a  *)
(* text, and the conversions of a text to a number.  A behaviour is one    *)
(* call, and for toString the call that reads the text again.              *)
(*                                                                         *)
(* A text to read is not enumerated letter by letter: it is spelled from   *)
(* the parts of a number, and the number is computed from the parts.       *)
(***************************************************************************)
EXTENDS Dtoa, Rounding

CONSTANTS Calls,
          MAX_DIGITS,   \* 100
          FIXED_LIMIT   \* the word of 1e21
Undefined == -2         \* no argument
RangeError == <<END>>

VARIABLES call, text, got
vars == <<call, text, got>>

NumberTextAssumption ==
    /\ DtoaAssumption
    /\ MAX_DIGITS \in Nat /\ FIXED_LIMIT \in 0 .. Infinity
    /\ \A c \in Calls : c.op \in {"toString", "toFixed", "toExponential", "toPrecision", "dump", "ToNumber",
                                  "literal", "parseInt", "parseFloat"}

------------------------------------------------------------------------------

(* What the methods ask js_dtoa2 for; nothing where they throw RangeError. *)
Form(radix, n, fmt, exp) == <<[radix |-> radix, n |-> n, fmt |-> fmt, exp |-> exp, minus_zero |-> FALSE]>>
js_number_toString(arg) ==
    LET radix == IF arg = Undefined THEN 10 ELSE arg
    IN IF radix \notin 2 .. 36 THEN <<>>
       ELSE Form(radix, 0, "free", IF radix = 10 THEN "auto" ELSE "disabled")
Places(arg) == IF arg = Undefined THEN 0 ELSE arg
js_number_toFixed(d, arg) ==
    IF Places(arg) \notin 0 .. MAX_DIGITS THEN <<>>
    ELSE Form(10, Places(arg), IF ~isnan_sf(d) /\ AbsOf(d) >= FIXED_LIMIT THEN "free" ELSE "frac", "auto")
js_number_toExponential(d, f) ==
    IF f = Undefined \/ ~IsFinite(d) THEN Form(10, 0, "free", "enabled")
    ELSE IF f \notin 0 .. MAX_DIGITS THEN <<>>
    ELSE Form(10, f + 1, "fixed", "enabled")
js_number_toPrecision(d, p) ==
    IF p = Undefined \/ ~IsFinite(d) THEN Form(10, 0, "free", "auto")
    ELSE IF p \notin 1 .. MAX_DIGITS THEN <<>>
    ELSE Form(10, p, "fixed", "auto")
FormOf(c) ==
    CASE c.op = "toString" -> js_number_toString(c.arg)
      [] c.op = "toFixed" -> js_number_toFixed(c.d, c.arg)
      [] c.op = "toExponential" -> js_number_toExponential(c.d, c.arg)
      [] c.op = "toPrecision" -> js_number_toPrecision(c.d, c.arg)
      [] c.op = "dump" -> [Form(10, 0, "free", "auto") EXCEPT ![1].minus_zero = TRUE]    \* js_dump_float64

------------------------------------------------------------------------------

(* A text of one character is a value and not read by js_atod.             *)
DigitWord(c) ==
    LET bits == CHOOSE n \in 0 .. 4 : c < Pow2(n) /\ (n = 0 \/ Pow2(n - 1) <= c)
    IN Packed([m |-> c * Pow2(PREC - bits), e |-> bits])
RECURSIVE skip_spaces(_, _)
skip_spaces(t, p) == IF CharAt(t, p) = SPACE THEN skip_spaces(t, p + 1) ELSE p
js_atod1(t, radix, flags, to_number) ==
    LET p == skip_spaces(t, 1)
        Whole(x) == IF to_number /\ skip_spaces(t, x.p) <= Len(t) THEN F_QNAN ELSE x.r
    IN IF Len(t) = 1 /\ t[1] \notin {INF, NAN} THEN (IF t[1] <= 9 THEN DigitWord(t[1]) ELSE F_QNAN)
       ELSE IF p > Len(t) THEN (IF to_number THEN 0 ELSE F_QNAN)
       ELSE Whole(js_atod(t, p, radix, flags))
NoFlags == [int_only |-> FALSE, bin_oct |-> FALSE, underscores |-> FALSE]
JS_ToNumber(t) == js_atod1(t, 0, [NoFlags EXCEPT !.bin_oct = TRUE], TRUE)
js_number_parseInt(t, radix) ==
    IF radix # 0 /\ radix \notin 2 .. 36 THEN F_QNAN
    ELSE js_atod1(t, radix, [NoFlags EXCEPT !.int_only = TRUE], FALSE)
js_number_parseFloat(t) == js_atod1(t, 10, NoFlags, FALSE)
(* next_token, where a number begins.  NaN is a syntax error.              *)
Literal(t) ==
    IF CharAt(t, 1) = 0 /\ CharAt(t, 2) <= 9 THEN [r |-> F_QNAN, p |-> 1]
    ELSE js_atod(t, 1, 0, [int_only |-> FALSE, bin_oct |-> TRUE, underscores |-> TRUE])

------------------------------------------------------------------------------

(* A spelled number: blanks, a sign, a prefix (the radix it stands for, or *)
(* 0), digits before and after the dot, an exponent and what follows.      *)
(* sep puts a separator between the digits.                                *)
Sign(in) == IF in.neg THEN <<MINUS>> ELSE IF in.plus THEN <<PLUS>> ELSE <<>>
Prefix(in) == CASE in.prefix = 16 -> <<0, LetterX>> [] in.prefix = 8 -> <<0, LetterO>>
                [] in.prefix = 2 -> <<0, LetterB>> [] in.prefix = 0 -> <<>>
Separated(ds) == [i \in 1 .. 2 * Len(ds) - 1 |-> IF i % 2 = 1 THEN ds[(i + 1) \div 2] ELSE UNDERSCORE]
Digits(in, ds) == IF in.sep /\ Len(ds) > 1 THEN Separated(ds) ELSE ds
Spelled(in) ==
    in.before \o Sign(in) \o Prefix(in) \o Digits(in, in.whole)
      \o (IF in.dot THEN <<DOT>> \o Digits(in, in.frac) ELSE <<>>)
      \o (IF in.exp = <<>> THEN <<>>
          ELSE <<IF in.prefix = 0 THEN LetterE ELSE LetterP>> \o (IF in.expneg THEN <<MINUS>> ELSE <<>>) \o Digits(in, in.exp))
      \o in.tail

------------------------------------------------------------------------------

Init == call \in Calls /\ text = <<>> /\ got = <<>>

js_dtoa2(c, f) == js_dtoa(c.d, f.radix, f.n, f.fmt, f.exp, f.minus_zero)
Format == /\ call.op \in {"toString", "toFixed", "toExponential", "toPrecision", "dump"}
          /\ text = <<>>
          /\ \E f \in {FormOf(call)} :
                text' = IF f = <<>> THEN RangeError ELSE js_dtoa2(call, f[1])
          /\ UNCHANGED <<call, got>>
(* The text of toString(radix) as an operand, in the source and for        *)
(* parseInt.                                                               *)
ReadBack == /\ call.op = "toString" /\ text # <<>> /\ text # RangeError /\ got = <<>>
            /\ got' = <<JS_ToNumber(text), Literal(text).r, js_number_parseInt(text, call.arg)>>
            /\ UNCHANGED <<call, text>>
Read == /\ call.op \in {"ToNumber", "literal", "parseInt", "parseFloat"} /\ got = <<>>
        /\ \E t \in {Spelled(call.in)} :
              /\ text' = t
              /\ got' = CASE call.op = "ToNumber" -> <<JS_ToNumber(t)>>
                          [] call.op = "literal" -> LET At(x) == <<x.r, x.p>> IN At(Literal(t))
                          [] call.op = "parseInt" -> <<js_number_parseInt(t, call.arg)>>
                          [] call.op = "parseFloat" -> <<js_number_parseFloat(t)>>
        /\ UNCHANGED call
Next == Format \/ ReadBack \/ Read
Spec == Init /\ [][Next]_vars

------------------------------------------------------------------------------

(* What texts and numbers mean, and nothing of the code below.             *)

(* digits, of which the last places are after the point, times radix^exp.  *)
RECURSIVE Natural(_, _)
Natural(ds, radix) == IF ds = <<>> THEN 0 ELSE Natural(Front(ds), radix) * radix + Last(ds)
Significant(ds) == SubSeq(ds, CHOOSE i \in 1 .. Len(ds) + 1 : /\ i > Len(ds) \/ ds[i] # 0
                                                              /\ \A j \in 1 .. i - 1 : ds[j] = 0, Len(ds))
(* w is that number rounded to the nearest.  Digits beyond keep count as 0.*)
Denotes(w, s, digits, places, radix, exp, keep) ==
    LET sig == Significant(digits)
        kept == Least(Len(sig), keep)
        n == Natural(SubSeq(sig, 1, kept), radix)
        shift == exp - places + Len(sig) - kept
        top == Len(sig) + exp - places           \* below radix^top
    IN IF sig = <<>> THEN w = Signed0(s)
       ELSE IF top > 1 /\ radix ^ Least(top - 1, 6) > Pow2(BIAS + 1) THEN w = SignedInfinity(s)
       ELSE IF top < 0 /\ radix ^ Least(-top, 8) > Pow2(Unit + 1) THEN w = Signed0(s)
       ELSE IF shift >= 0 THEN IsFraction(w, s, RM_RNE, 4 * n * radix ^ shift, 1, Unit - 2)
       ELSE IsFraction(w, s, RM_RNE, 4 * n, radix ^ (-shift), Unit - 2)
AllDigits == 99

(* A text of js_dtoa taken apart.                                          *)
Find(t, c) == CHOOSE i \in 1 .. Len(t) + 1 : (i > Len(t) \/ t[i] = c) /\ \A j \in 1 .. i - 1 : t[j] # c
Parsed(t, radix) ==
    LET neg == t[1] = MINUS
        body == IF neg THEN Tail(t) ELSE t
        mant == IF radix = 10 THEN SubSeq(body, 1, Find(body, LetterE) - 1) ELSE body
        exp == SubSeq(body, Len(mant) + 3, Len(body))
    IN [neg |-> neg, digits |-> Remove(mant, DOT), whole |-> SubSeq(mant, 1, Find(mant, DOT) - 1),
        frac |-> SubSeq(mant, Find(mant, DOT) + 1, Len(mant)), hasExp |-> exp # <<>>,
        exp |-> IF exp # <<>> /\ body[Len(mant) + 2] = MINUS THEN -Natural(exp, 10) ELSE Natural(exp, 10)]
TextLength(t) == Len(t) + (IF INF \in {t[i] : i \in DOMAIN t} THEN 7 ELSE 0) + (IF t = <<NAN>> THEN 2 ELSE 0)
Formatted == text # <<>> /\ text # RangeError /\ call.op \in {"toString", "toFixed", "toExponential", "toPrecision", "dump"}
Fits == LET f == FormOf(call)[1] IN TextLength(text) <= js_dtoa_max_len(call.d, f.radix, f.n, f.fmt, f.exp)
Special(t, d) == t = (IF isnan_sf(d) THEN <<NAN>> ELSE SignText(d) \o <<INF>>)
NoUselessZeros(x) ==
    /\ x.whole # <<>> /\ (x.whole[1] = 0 => Len(x.whole) = 1)
    /\ x.frac # <<>> => Last(x.frac) # 0
SameValue(w, d) == w = d \/ (IsZero(w) /\ IsZero(d))

(* The text of toString stands for the number, in every radix: it is one   *)
(* whose nearest number is this one, without useless zeros, and it is read *)
(* back as the same number by ToNumber and in a program, and by parseInt   *)
(* where it is an integer.  It is no longer than what js_dtoa2 has         *)
(* allocated.  (js_dump_float64 has the sign of minus zero; a single       *)
(* letter is not a digit for js_atod1, nor is a digit beyond the radix     *)
(* refused.)                                                               *)
TextReadsBack ==
    Formatted /\ call.op \in {"toString", "dump"} =>
      LET radix == FormOf(call)[1].radix
          x == Parsed(text, radix)
      IN /\ Fits
         /\ IF ~IsFinite(call.d) THEN Special(text, call.d)
            ELSE /\ x.neg = (SignOf(call.d) = 1 /\ (call.op = "dump" \/ ~IsZero(call.d)))
                 /\ NoUselessZeros(x)
                 /\ Denotes(AbsOf(call.d), 0, x.digits, Len(x.frac), radix, x.exp, AllDigits)
         /\ got # <<>> /\ radix = 10 =>
              SameValue(got[1], call.d) /\ (SignOf(call.d) = 0 /\ IsFinite(call.d) => SameValue(got[2], call.d))
         /\ got # <<>> /\ IsFinite(call.d) /\ x.frac = <<>> /\ ~x.hasExp /\ Len(text) > 1 =>
              SameValue(got[3], call.d)

(* Times 10^k, as a fraction.                                              *)
Scaled(d, k) ==
    LET s == Scale(AbsOf(d)) - Unit + k
    IN [num |-> Significand(AbsOf(d)) * (IF s > 0 THEN Pow2(s) ELSE 1) * (IF k > 0 THEN 5 ^ k ELSE 1),
        den |-> (IF s < 0 THEN Pow2(-s) ELSE 1) * (IF k < 0 THEN 5 ^ (-k) ELSE 1)]
HalfUp(d, k) == LET f == Scaled(d, k) IN (2 * f.num + f.den) \div (2 * f.den)
(* P digits n and an exponent E that could not be smaller.                 *)
IsPrecise(d, n, P, E) ==
    LET f == Scaled(d, P - E)
    IN IF IsZero(d) THEN n = 0 /\ E = 1
       ELSE /\ n = HalfUp(d, P - E) /\ 10 ^ (P - 1) <= n /\ n < 10 ^ P
            /\ 20 * Most(0, 10 ^ (P - 1) * f.den - f.num) <= f.den
(* What the text x of a finite number has to say.                          *)
PointOf(x) == IF IsZero(call.d) THEN 1
                    ELSE IF x.hasExp THEN x.exp + 1 ELSE Len(Significant(x.digits)) - Len(x.frac)
AsManyDigits(x, P, E) ==
    /\ IsPrecise(call.d, Natural(x.digits, 10), P, E)
    /\ x.hasExp => Len(x.whole) = 1 /\ Len(x.digits) = P
    /\ ~x.hasExp => Len(IF IsZero(call.d) THEN x.digits ELSE Significant(x.digits)) = P
    /\ x.hasExp <=> \/ call.op = "toExponential"
                    \/ E - 1 < -6 \/ E - 1 >= P
DigitsOf(x) ==
    /\ x.neg = (SignOf(call.d) = 1 /\ ~IsZero(call.d))
    /\ x.whole # <<>> /\ (x.whole[1] = 0 => Len(x.whole) = 1)
    /\ IF (call.op # "toFixed" /\ call.arg = Undefined) \/ (call.op = "toFixed" /\ AbsOf(call.d) >= FIXED_LIMIT)
       THEN Denotes(AbsOf(call.d), 0, x.digits, Len(x.frac), 10, x.exp, AllDigits) /\ (call.op = "toExponential" => x.hasExp)
       ELSE IF call.op = "toFixed"
       THEN Len(x.frac) = Places(call.arg) /\ ~x.hasExp /\ Natural(x.digits, 10) = HalfUp(call.d, Places(call.arg))
       ELSE AsManyDigits(x, IF call.op = "toExponential" THEN call.arg + 1 ELSE call.arg, PointOf(x))
(* toFixed, toExponential and toPrecision give the digits asked for, the   *)
(* last one rounded with halves away from zero, and an exponent where the  *)
(* language has one; the text is no longer than what was allocated.        *)
DigitsRounded ==
    Formatted /\ call.op \in {"toFixed", "toExponential", "toPrecision"} =>
      Fits /\ IF IsFinite(call.d) THEN DigitsOf(Parsed(text, 10)) ELSE Special(text, call.d)

------------------------------------------------------------------------------

(* The number by the parts of its text.                                    *)
Keep(radix) == IF PowerOfTwo(radix) THEN AllDigits ELSE atod_max_digits(radix)
ExponentOf(in) == Natural(in.exp, 10) * (IF in.expneg THEN -1 ELSE 1)
ReadsParts(w, in) ==
    LET digits == in.whole \o in.frac
    IN IF digits = <<>> THEN w = F_QNAN
       ELSE IF in.prefix = 0 THEN Denotes(w, Bit(in.neg), digits, Len(in.frac), 10, ExponentOf(in), Keep(10))
       ELSE Denotes(w, Bit(in.neg), digits, Len(in.frac), in.prefix, 0, AllDigits)
(* parseInt reads digits as far as there are any.                          *)
DigitsFrom(t, radix) == SubSeq(t, 1, (CHOOSE i \in 1 .. Len(t) + 1 : /\ i > Len(t) \/ t[i] >= radix
                                                                     /\ \A j \in 1 .. i - 1 : t[j] < radix) - 1)
ReadsInteger(w, in, t, arg) ==
    LET unsigned == SubSeq(t, Len(in.before) + Len(Sign(in)) + 1, Len(t))
        hex == in.prefix = 16 /\ arg \in {0, 16}
        radix == IF hex THEN 16 ELSE IF arg = 0 THEN 10 ELSE arg
        digits == DigitsFrom(IF hex THEN SubSeq(unsigned, 3, Len(unsigned)) ELSE unsigned, radix)
    IN IF arg # 0 /\ arg \notin 2 .. 36 THEN w = F_QNAN
       ELSE IF digits = <<>> THEN w = F_QNAN
       ELSE Denotes(w, Bit(in.neg), digits, 0, radix, 0, Keep(radix))
(* What is left out: texts of one character, which have a path of their    *)
(* own (a letter is never a digit there, a blank not 0), and exponents     *)
(* that leave the ints only together with the digits: they wrap around.    *)
LeftOut(in, t) ==
    \/ Len(t) = 1 /\ t[1] > 9 /\ t[1] # INF
    \/ Len(t) = 1 /\ call.op = "parseInt" /\ call.arg \notin {0, 10}
    \/ Natural(in.exp, 10) <= INT_MAX /\ Natural(in.exp, 10) + Len(in.whole) + Len(in.frac) > INT_MAX - 1
(* A number is read as the nearest one to what its text spells (digits     *)
(* beyond atod_max_digits count as 0 unless the radix is a power of two),  *)
(* with every digit, dot, exponent, prefix and separator and no more of    *)
(* the text; ToNumber takes blanks around it and nothing else, a literal   *)
(* does not begin with 0 and another digit (0_1 is read, as 1).            *)
TextsRead ==
    got # <<>> /\ call.op # "toString" =>
      LET in == call.in
          blank(t) == \A i \in DOMAIN t : t[i] = SPACE
      IN \/ LeftOut(in, text)
         \/ CASE call.op = "ToNumber" ->
                   IF blank(text) THEN got[1] = 0
                   ELSE IF ~blank(in.tail) THEN got[1] = F_QNAN ELSE ReadsParts(got[1], in)
              [] call.op = "literal" ->
                   IF in.prefix = 0 /\ Len(in.whole) > 1 /\ in.whole[1] = 0 /\ ~in.sep THEN got[1] = F_QNAN
                   ELSE ReadsParts(got[1], in) /\ got[2] = Len(text) - Len(in.tail) + 1
              [] call.op = "parseFloat" ->
                   IF in.prefix # 0 THEN got[1] = Signed0(Bit(in.neg)) ELSE ReadsParts(got[1], in)
              [] call.op = "parseInt" -> ReadsInteger(got[1], in, text, call.arg)

(* dtoa.c finds "the minimum number of digits by successive tries": no     *)
(* number of fewer digits is read as this one.  Only the number of so many *)
(* digits that is nearest is tried; below a power of two the numbers are   *)
(* closer, and one above may do where the nearest, below, does not.        *)
FewestDigits ==
    Formatted /\ call.op = "toString" /\ call.arg = 10 /\ IsFinite(call.d) /\ ~IsZero(call.d) =>
      LET x == Parsed(text, 10)
          sig == Significant(x.digits)
          top == Len(sig) - Len(x.frac)
          places == Len(sig) - (CHOOSE n \in 0 .. Len(sig) : /\ \A i \in Len(sig) - n + 1 .. Len(sig) : sig[i] = 0
                                                             /\ sig[Len(sig) - n] # 0)
      IN \A P \in 1 .. places - 1 : \A n \in 10 ^ (P - 1) .. 10 ^ P - 1 :
            ~Denotes(AbsOf(call.d), 0, u64toa_radix(n, 10), P - top, 10, x.exp, AllDigits)
=============================================================================
