-------------------------------- MODULE Dtoa --------------------------------
(***************************************************************************)
(* dtoa.c: numbers to text and text to numbers, with big integers of limbs *)
(* (mpb_t, the lowest limb first), for a format of MANT_SIZE and EXP_SIZE  *)
(* bits and limbs of LIMB_BITS.  The constants of the code are those of    *)
(* doubles: 53 is PREC here, 1022 is BIAS - 1, -1021 is 2 - BIAS, and the  *)
(* tables are what build_tables and the comments above them say.  A        *)
(* uint64_t is two limbs.                                                  *)
(*                                                                         *)
(* A text is a sequence of codes: 0 to 35 are digits and letters in either *)
(* case, then come the other characters that matter and, as one code each, *)
(* Infinity and NaN.                                                       *)
(***************************************************************************)
EXTENDS SoftFloat, Sequences, SequencesExt

CONSTANTS LIMB_BITS,
          ATOD_BITS,    \* bits of the digits js_atod keeps, radix 2^n; twice as many else
          INT_BITS      \* of an int

DtoaAssumption ==
    /\ FormatAssumption
    /\ LIMB_BITS \in Nat /\ INT_BITS \in Nat
    /\ 2 * LIMB_BITS >= MANT_SIZE + 5         \* P digits fit into 64 bits
    /\ ATOD_BITS >= MANT_SIZE + 3 + 3         \* a first digit of radix 16 may be 1

DOT == 36
PLUS == 37
MINUS == 38
AT == 39
UNDERSCORE == 40
INF == 41
NAN == 42
SPACE == 43
END == 44
LetterB == 11
LetterE == 14
LetterO == 24
LetterP == 25
LetterX == 33

PREC == MANT_SIZE + 1
BIAS == EXP_MASK \div 2
LimbBase == Pow2(LIMB_BITS)
Least(m, n) == IF m < n THEN m ELSE n
Most(m, n) == IF m > n THEN m ELSE n
Bit(c) == IF c THEN 1 ELSE 0

------------------------------------------------------------------------------

(* A loop over the limbs with a carry, from the lowest or from the highest *)
(* one: step(x, c) is the new limb and the next carry.                     *)
CarryUp(step(_, _), tab, carry) ==
    FoldLeft(LAMBDA st, x : LET r == step(x, st.c) IN [tab |-> Append(st.tab, r[1]), c |-> r[2]],
             [tab |-> <<>>, c |-> carry], tab)
CarryDown(step(_, _), tab, carry) ==
    FoldRight(LAMBDA x, st : LET r == step(x, st.c) IN [tab |-> <<r[1]>> \o st.tab, c |-> r[2]],
              tab, [tab |-> <<>>, c |-> carry])

mp_add_ui(tab, b) ==
    CarryUp(LAMBDA x, k : <<(x + k) % LimbBase, Bit((x + k) % LimbBase < k)>>, tab, b)
mp_mul1(tab, b, l) ==
    CarryUp(LAMBDA x, c : <<(x * b + c) % LimbBase, (x * b + c) \div LimbBase>>, tab, l)
mp_div1(tab, b, r) ==
    CarryDown(LAMBDA x, c : <<((c * LimbBase + x) \div b) % LimbBase, (c * LimbBase + x) % b>>, tab, r)
mp_shr(tab, shift, high) ==
    CarryDown(LAMBDA x, l : <<Shr(x, shift) + ((l * Pow2(LIMB_BITS - shift)) % LimbBase), x>>, tab, high).tab
mp_shl(tab, shift, low) ==
    CarryUp(LAMBDA x, l : <<((x * Pow2(shift)) % LimbBase) + l, Shr(x, LIMB_BITS - shift)>>, tab, low)

(* Division of two limbs by a normalized d with its inverse.  n1m and ah   *)
(* are all zeros or all ones.                                              *)
And(mask, d) == IF mask = 0 THEN 0 ELSE d
udiv1norm_init(d) == (((LimbBase - d - 1) * LimbBase + LimbBase - 1) \div d) % LimbBase
udiv1norm(a1, a0, d, d_inv) ==
    LET DLimb == LimbBase * LimbBase
        n1m == IF a0 >= LimbBase \div 2 THEN LimbBase - 1 ELSE 0
        n_adj == (a0 + And(n1m, d)) % LimbBase
        wide == (d_inv * ((a1 - n1m) % LimbBase) + n_adj) % DLimb
        q == ((wide \div LimbBase) + a1) % LimbBase
        a == (a1 * LimbBase + a0 - q * d - d) % DLimb
        ah == a \div LimbBase
    IN <<(q + 1 + ah) % LimbBase, (a + And(ah, d)) % LimbBase>>
div1norm(s, b, b_inv, shift) ==
    [CarryDown(LAMBDA x, r : udiv1norm(r, x, b, b_inv), s.tab, s.c) EXCEPT !.c = Shr(@, shift)]
mp_div1norm(tab, b, b_inv, shift) ==
    div1norm(IF shift = 0 THEN [tab |-> tab, c |-> 0] ELSE mp_shl(tab, shift, 0), b, b_inv, shift)

(* The tables of powers of 5 hold what the loop computes.                  *)
pow_ui(a, b) == a ^ b
pow_ui_inv(a, b) ==
    LET r == pow_ui(a, b)
        shift == clz(r, LIMB_BITS, 0)
    IN [b |-> r * Pow2(shift), b_inv |-> udiv1norm_init(r * Pow2(shift)), shift |-> shift]

------------------------------------------------------------------------------

RNDN == 0
RNDNA == 1
RNDZ == 2

mpb_renorm(r) == SubSeq(r, 1, CHOOSE n \in 1 .. Len(r) :
                                /\ n = 1 \/ r[n] # 0
                                /\ \A k \in n + 1 .. Len(r) : r[k] = 0)
mpb_get_bit(r, k) ==
    IF k \div LIMB_BITS >= Len(r) THEN 0 ELSE Shr(r[k \div LIMB_BITS + 1], k % LIMB_BITS) % 2
(* Any bit below bit k.                                                    *)
BitsBelow(r, k) ==
    LET l == k \div LIMB_BITS
    IN \/ \E i \in 1 .. Least(l, Len(r)) : r[i] # 0
       \/ l < Len(r) /\ LowBits(r[l + 1], k % LIMB_BITS) # 0

mpb_shl(r, shift) ==
    LET k == shift % LIMB_BITS
        s == mp_shl(r, k, 0)
    IN [i \in 1 .. shift \div LIMB_BITS |-> 0] \o (IF k = 0 THEN r ELSE mpb_renorm(Append(s.tab, s.c)))
(* Mutant: halves always go to the even number.                            *)
AddOne_even(r, shift, rnd_mode) ==
    /\ rnd_mode # RNDZ
    /\ mpb_get_bit(r, shift - 1) = 1
    /\ BitsBelow(r, shift - 1) \/ mpb_get_bit(r, shift) = 1
AddOne(r, shift, rnd_mode) ==
    /\ rnd_mode # RNDZ
    /\ mpb_get_bit(r, shift - 1) = 1
    /\ rnd_mode = RNDNA \/ BitsBelow(r, shift - 1) \/ mpb_get_bit(r, shift) = 1
WithCarry(s) == IF s.c # 0 THEN Append(s.tab, s.c) ELSE s.tab
mpb_shr(r, shift) ==
    LET t == SubSeq(r, shift \div LIMB_BITS + 1, Len(r))
        k == shift % LIMB_BITS
    IN IF t = <<>> THEN <<0>> ELSE IF k = 0 THEN t ELSE mpb_renorm(mp_shr(t, k, 0))
mpb_shr_round(r, shift, rnd_mode) ==
    IF shift = 0 THEN r
    ELSE IF shift < 0 THEN mpb_shl(r, -shift)
    ELSE IF AddOne(r, shift, rnd_mode) THEN WithCarry(mp_add_ui(mpb_shr(r, shift), 1))
    ELSE mpb_shr(r, shift)

mpb_cmp(a, b) ==
    LET differ == {i \in DOMAIN a : a[i] # b[i]}
        top == CHOOSE i \in differ : \A j \in differ : j <= i
    IN IF Len(a) # Len(b) THEN (IF Len(a) < Len(b) THEN -1 ELSE 1)
       ELSE IF differ = {} THEN 0 ELSE IF a[top] < b[top] THEN -1 ELSE 1
mpb_set_u64(m) == mpb_renorm(<<m % LimbBase, (m \div LimbBase) % LimbBase>>)
mpb_get_u64(r) == IF Len(r) = 1 THEN r[1] ELSE r[1] + r[2] * LimbBase
mpb_floor_log2(a) ==
    IF a[Len(a)] = 0 THEN -1 ELSE Len(a) * LIMB_BITS - 1 - clz(a[Len(a)], LIMB_BITS, 0)

------------------------------------------------------------------------------

RadixShift(radix) == CHOOSE n \in 0 .. 5 : Shr(radix, n) % 2 = 1 /\ LowBits(radix, n) = 0
Radix1(radix) == Shr(radix, RadixShift(radix))
PowerOfTwo(radix) == Radix1(radix) = 1

(* floor(a / log2(radix)); the table of multipliers gives that.            *)
mul_log2_radix(a, radix) ==
    IF PowerOfTwo(radix) THEN a \div RadixShift(radix)
    ELSE IF a >= 0 THEN CHOOSE n \in 0 .. a : radix ^ n <= Pow2(a) /\ Pow2(a) < radix ^ (n + 1)
    ELSE -(CHOOSE n \in 1 .. -a : Pow2(-a) <= radix ^ n /\ radix ^ (n - 1) < Pow2(-a))
CeilLog(a, radix) == -mul_log2_radix(-a, radix)

digits_per_limb(radix) == mul_log2_radix(LIMB_BITS, radix)
(* 0 stands for 2^LIMB_BITS.                                               *)
radix_base(radix) == (radix ^ digits_per_limb(radix)) % LimbBase
(* Mutant: as many digits as the mantissa has bits.                        *)
dtoa_max_digits_short(radix) == CeilLog(PREC, radix)
dtoa_max_digits(radix) == 1 + CeilLog(PREC, radix)
atod_max_digits(radix) == mul_log2_radix(IF PowerOfTwo(radix) THEN ATOD_BITS ELSE 2 * ATOD_BITS, radix)
max_exponent(radix) == CeilLog(BIAS + 1, radix)
min_exponent(radix) == mul_log2_radix(-(BIAS + MANT_SIZE), radix)

(* The last n digits of v.                                                 *)
limb_to_a(v, radix, n) == [i \in 1 .. n |-> (v \div radix ^ (n - i)) % radix]
u64toa_radix(v, radix) ==
    limb_to_a(v, radix, CHOOSE n \in 1 .. 32 : v < radix ^ n /\ (n = 1 \/ radix ^ (n - 1) <= v))

RECURSIVE LimbsToDigits(_, _, _)
LowerLimb(d, n, radix, n_digits) ==
    LimbsToDigits(mpb_renorm(d.tab), radix, n_digits - n) \o limb_to_a(d.c, radix, n)
LimbsToDigits(a, radix, n_digits) ==
    LET n == Least(n_digits, digits_per_limb(radix))
    IN IF n_digits = 0 THEN <<>>
       ELSE LowerLimb(IF PowerOfTwo(radix)
                      THEN [tab |-> mpb_shr_round(a, digits_per_limb(radix) * RadixShift(radix), RNDZ), c |-> a[1]]
                      ELSE mp_div1(a, radix_base(radix), 0), n, radix, n_digits)
WithDot(t, dot_pos) ==
    IF dot_pos = Len(t) THEN t ELSE SubSeq(t, 1, dot_pos) \o <<DOT>> \o SubSeq(t, dot_pos + 1, Len(t))
output_digits(a, radix, n_digits, dot_pos) == WithDot(LimbsToDigits(a, radix, n_digits), dot_pos)

------------------------------------------------------------------------------

(* mul_pow: a and e_offset such that a * 2^-e_offset is the first a times  *)
(* (radix1 * 2^radix_shift)^f, exactly for f >= 0; else the lowest bit     *)
(* stands for all the bits that are lost.                                  *)
RECURSIVE MulLoop(_, _, _)
MulLoop(a, radix1, f) ==
    LET n == Least(f, digits_per_limb(radix1))
    IN IF f = 0 THEN a ELSE MulLoop(WithCarry(mp_mul1(a, pow_ui(radix1, n), 0)), radix1, f - n)
Divided(a, p, rem) ==
    LET Quotient(d) == [a |-> mpb_renorm(d.tab), rem |-> rem \/ d.c # 0]
    IN Quotient(mp_div1norm(a, p.b, p.b_inv, p.shift))
RECURSIVE DivLoop(_, _, _)
DivLoop(x, radix1, f) ==
    LET n == Least(f, digits_per_limb(radix1))
    IN IF f = 0 THEN [x.a EXCEPT ![1] = IF x.rem /\ @ % 2 = 0 THEN @ + 1 ELSE @]
       ELSE DivLoop(Divided(x.a, pow_ui_inv(radix1, n), x.rem), radix1, f - n)
DivPow(a, radix1, f, zeros, e_offset) ==
    [a |-> DivLoop([a |-> mpb_shr_round(a, -zeros, RNDZ), rem |-> FALSE], radix1, f), e_offset |-> e_offset]
mul_pow(a, radix1, radix_shift, f, is_int, e) ==
    LET zeros == ((-f + digits_per_limb(radix1) - 1) \div digits_per_limb(radix1)) * LIMB_BITS
        e_offset == -f * radix_shift
        Extra(off) == Most(IF is_int THEN 2 + e - off ELSE e - mpb_floor_log2(a), 0)
        Divide(extra) == DivPow(a, radix1, -f, zeros + extra, e_offset + zeros + extra)
    IN IF radix1 = 1 THEN [a |-> a, e_offset |-> e_offset]
       ELSE IF f >= 0 THEN [a |-> MulLoop(a, radix1, f), e_offset |-> e_offset]
       ELSE Divide(Extra(e_offset + zeros))

(* round(m * 2^e * radix^f)                                                *)
mul_pow_round(m, e, radix, f, rnd_mode) ==
    LET Round(p) == mpb_shr_round(p.a, -e + p.e_offset, rnd_mode)
    IN Round(mul_pow(mpb_set_u64(m), Radix1(radix), RadixShift(radix), f, TRUE, e))

(* Mutant: a subnormal number is rounded like a normal one, and truncated. *)
Precision_normal(e) == PREC
Precision(e) == IF e < 2 - BIAS THEN PREC - (2 - BIAS - e) ELSE PREC
(* Of p.a * 2^-p.e_offset.                                                 *)
Carried(m, e) == IF m >= Pow2(PREC) THEN [m |-> m \div 2, e |-> e + 1] ELSE [m |-> m, e |-> e]
RoundAt(p, e, prec, rnd_mode) ==
    Carried(mpb_get_u64(mpb_shr_round(p.a, e + p.e_offset - prec, rnd_mode)) * Pow2(PREC - prec), e)
round_to_d(p, rnd_mode) ==
    LET e == mpb_floor_log2(p.a) + 1 - p.e_offset
    IN IF p.a = <<0>> THEN [m |-> 0, e |-> 0] ELSE RoundAt(p, e, Precision(e), rnd_mode)
mul_pow_round_to_d(a, radix, f, rnd_mode) ==
    round_to_d(mul_pow(a, Radix1(radix), RadixShift(radix), f, FALSE, PREC + 2), rnd_mode)

------------------------------------------------------------------------------

(* js_dtoa.  fmt is "free", "frac" or "fixed"; exp is "auto", "enabled" or *)
(* "disabled".                                                             *)
(* The number is 2^(e - PREC) * m.                                         *)
Unpacked(d) ==
    LET l == clz(MantOf(d), PREC, 0)
    IN IF ExpOf(d) = 0 THEN [m |-> MantOf(d) * Pow2(l), e |-> 2 - l - BIAS]
       ELSE [m |-> MantOf(d) + Pow2(MANT_SIZE), e |-> ExpOf(d) - (BIAS - 1)]
IsSmallInt(x) == x.e \in 1 .. PREC /\ LowBits(x.m, PREC - x.e) = 0

(* The number as digits mant and exponent E: 0.mant * radix^E, mant of P   *)
(* digits.  The first E is never too large, and too small by one at most.  *)
FirstE(x, radix) == 1 + mul_log2_radix(x.e - 1, radix)
RECURSIVE AtPrecision(_, _, _, _)
AtPrecision(x, radix, P, E) ==
    LET Fitting(mant) == IF mant < pow_ui(radix, P) THEN [mant |-> mant, P |-> P, E |-> E] ELSE AtPrecision(x, radix, P, E + 1)
    IN Fitting(mpb_get_u64(mul_pow_round(x.m, x.e - PREC, radix, P - E, RNDN)))
RECURSIVE NoTrailingZeros(_, _)
NoTrailingZeros(c, radix) ==
    IF c.mant % radix = 0 THEN NoTrailingZeros([c EXCEPT !.mant = @ \div radix, !.P = @ - 1], radix) ELSE c
Nearest(x, radix, P) == NoTrailingZeros(AtPrecision(x, radix, P, FirstE(x, radix)), radix)
ReadsBack(c, x, radix) ==
    mul_pow_round_to_d(mpb_set_u64(c.mant), radix, c.E - c.P, RNDN) = x
RECURSIVE Shorten(_, _, _)
Shorten(found, x, radix) ==
    LET Try(c) == IF ReadsBack(c, x, radix) THEN Shorten(c, x, radix) ELSE found
    IN IF found.P = 1 THEN found ELSE Try(Nearest(x, radix, found.P - 1))
FreeDigits(x, radix) ==
    LET Limbs(c) == [a |-> mpb_set_u64(c.mant), P |-> c.P, E |-> c.E]
    IN Limbs(Shorten(Nearest(x, radix, dtoa_max_digits(radix)), x, radix))

RECURSIVE FixedFrom(_, _, _, _, _)
FixedFrom(x, radix, P, E, mant_max) ==
    LET Fitting(a) == IF mpb_cmp(a, mant_max) < 0 THEN [a |-> a, P |-> P, E |-> E] ELSE FixedFrom(x, radix, P, E + 1, mant_max)
    IN Fitting(mul_pow_round(x.m, x.e - PREC, radix, P - E, RNDNA))
FixedDigits(x, radix, P) ==
    LET MantMax(p) == mpb_shr_round(p.a, p.e_offset, RNDZ)
    IN FixedFrom(x, radix, P, FirstE(x, radix), MantMax(mul_pow(<<1>>, Radix1(radix), RadixShift(radix), P, FALSE, 0)))

(* One digit more on the left, taken away if it is a 0 before another.     *)
FracText(x, radix, n_digits) ==
    LET left == Most(FirstE(x, radix) + 1, 1)
        Trimmed(t) == IF t[1] = 0 /\ Len(t) >= 2 /\ t[2] # DOT THEN Tail(t) ELSE t
    IN Trimmed(output_digits(mul_pow_round(x.m, x.e - PREC, radix, n_digits, RNDNA), radix, left + n_digits, left))

ExponentText(E, radix) ==
    LET bin == radix # 10 /\ PowerOfTwo(radix) /\ RadixShift(radix) <= 4
        n == IF bin THEN E * RadixShift(radix) ELSE E
    IN <<IF radix = 10 THEN LetterE ELSE IF bin THEN LetterP ELSE AT, IF n < 0 THEN MINUS ELSE PLUS>>
         \o u64toa_radix(IF n < 0 THEN -n ELSE n, 10)
Zeros(n) == [i \in 1 .. n |-> 0]
MaxE(radix, n_digits, fmt) == IF fmt = "fixed" THEN n_digits ELSE dtoa_max_digits(radix) + 4
Positioned(c, radix, n_digits, fmt, exp) ==
    LET e == exp = "enabled" \/ (exp = "auto" /\ (c.E <= -6 \/ c.E > MaxE(radix, n_digits, fmt)))
        small == ~e /\ c.E <= 0
    IN (IF small THEN <<0, DOT>> \o Zeros(-c.E) ELSE <<>>)
         \o output_digits(c.a, radix, c.P, IF e THEN 1 ELSE IF small THEN c.P ELSE Least(c.P, c.E))
         \o (IF e THEN ExponentText(c.E - 1, radix) ELSE IF small THEN <<>> ELSE Zeros(c.E - c.P))

ZeroDigits(n_digits, fmt) ==
    [a |-> <<0>>, E |-> 1, P |-> CASE fmt = "free" -> 1 [] fmt = "frac" -> n_digits + 1 [] fmt = "fixed" -> n_digits]
SignText(d) == IF SignOf(d) = 1 THEN <<MINUS>> ELSE <<>>
Unsigned(d, x, radix, n_digits, fmt, exp) ==
    IF AbsOf(d) # 0 /\ fmt = "free" /\ exp # "enabled" /\ IsSmallInt(x) THEN u64toa_radix(Shr(x.m, PREC - x.e), radix)
    ELSE IF AbsOf(d) # 0 /\ fmt = "frac" THEN FracText(x, radix, n_digits)
    ELSE Positioned(IF AbsOf(d) = 0 THEN ZeroDigits(n_digits, fmt)
                    ELSE IF fmt = "free" THEN FreeDigits(x, radix) ELSE FixedDigits(x, radix, n_digits),
                    radix, n_digits, fmt, exp)
js_dtoa(d, radix, n_digits, fmt, exp, minus_zero) ==
    IF isnan_sf(d) THEN <<NAN>>
    ELSE IF ExpOf(d) = EXP_MASK THEN SignText(d) \o <<INF>>
    ELSE (IF AbsOf(d) # 0 \/ minus_zero THEN SignText(d) ELSE <<>>)
           \o Unsigned(d, Unpacked(d), radix, n_digits, fmt, exp)

(* What the caller allocates for the text.                                 *)
js_dtoa_max_len(d, radix, n_digits, fmt, exp) ==
    LET e == ExpOf(d) - BIAS
        digits == IF fmt = "free" THEN dtoa_max_digits(radix) ELSE n_digits
        distance == mul_log2_radix(e - 1, radix)
    IN Most(9, IF fmt # "frac" /\ exp # "disabled" THEN digits + 1 + 1 + 6
               ELSE IF ExpOf(d) = EXP_MASK THEN 0
               ELSE IF fmt # "frac" THEN digits + 10 + Most(distance, -distance)
               ELSE (IF e < 0 THEN 1 ELSE 2 + distance) + 1 + 1 + 1 + n_digits)

------------------------------------------------------------------------------

(* js_atod.  flags has int_only, bin_oct and underscores; the fourth flag  *)
(* has no caller.  The result is the number r and p, where reading stopped.*)
to_digit(c) == IF c <= 35 THEN c ELSE 36
CharAt(t, p) == IF p <= Len(t) THEN t[p] ELSE END

mpb_mul1_base(r, base, a) ==
    LET m == mp_mul1(r, base, a)
    IN IF r = <<0>> THEN <<a>>
       ELSE mpb_renorm(IF base = 0 THEN <<a>> \o r ELSE Append(m.tab, m.c))

(* The radix by its prefix; "fail" without a digit after it.               *)
PrefixRadix(c, radix, flags) ==
    CASE c = LetterX /\ radix \in {0, 16} -> 16
      [] c = LetterO /\ radix = 0 /\ flags.bin_oct -> 8
      [] c = LetterB /\ radix = 0 /\ flags.bin_oct -> 2
      [] OTHER -> 0
(* Characters before a digit: a first dot, then a separator if the next    *)
(* one is a digit of those wanted (wanted is 1 where only zeros are).      *)
Before(t, st, wanted) ==
    LET isDot == /\ CharAt(t, st.p) = DOT /\ ~st.flags.int_only
                 /\ st.p > st.start \/ to_digit(CharAt(t, st.p + 1)) < st.radix
        q == IF isDot THEN st.p + 1 ELSE st.p
        sep == /\ st.flags.underscores /\ CharAt(t, q) = UNDERSCORE /\ q > st.start
               /\ to_digit(CharAt(t, q + 1)) < wanted
    IN IF isDot /\ st.dot >= 0 THEN [st EXCEPT !.stop = TRUE]
       ELSE [st EXCEPT !.dot = IF isDot THEN st.pos ELSE @, !.p = IF sep THEN q + 1 ELSE q]
RECURSIVE SkipZeros(_, _)
SkipZeros(t, st) ==
    IF st.stop \/ CharAt(t, st.p) # 0 THEN [st EXCEPT !.stop = FALSE]
    ELSE SkipZeros(t, Before(t, [st EXCEPT !.p = @ + 1, !.pos = @ + 1], 1))

(* A digit goes to cur_limb, a full limb to the number; digits beyond      *)
(* atod_max_digits only leave a trace.                                     *)
Digit(st, c) ==
    LET cur == st.cur_limb * st.radix + c
        full == st.limb_digits + 1 = digits_per_limb(st.radix)
    IN IF st.digits >= atod_max_digits(st.radix) THEN [st EXCEPT !.extra = @ \/ c # 0]
       ELSE IF full THEN [st EXCEPT !.tmp0 = mpb_mul1_base(@, radix_base(st.radix), cur % LimbBase),
                                    !.cur_limb = 0, !.limb_digits = 0, !.digits = @ + 1]
       ELSE [st EXCEPT !.cur_limb = cur, !.limb_digits = @ + 1, !.digits = @ + 1]
LastLimb(st) ==
    IF st.limb_digits = 0 THEN st.tmp0
    ELSE mpb_mul1_base(st.tmp0, pow_ui(st.radix, st.limb_digits), st.cur_limb)
RECURSIVE ReadDigits(_, _)
ReadDigits(t, st) ==
    LET c == to_digit(CharAt(t, st.p))
    IN IF st.stop \/ c >= st.radix THEN [st EXCEPT !.tmp0 = LastLimb(st)]
       ELSE ReadDigits(t, Before(t, Digit([st EXCEPT !.p = @ + 1, !.pos = @ + 1], c), st.radix))

(* An int wraps around.                                                    *)
INT_MAX == Pow2(INT_BITS - 1) - 1
ToInt(n) == ((n + INT_MAX + 1) % Pow2(INT_BITS)) - (INT_MAX + 1)

NoExponent(p) == [p |-> p, fail |-> FALSE, neg |-> FALSE, overflow |-> FALSE, bin |-> FALSE, expn |-> 0]
(* The exponent at p, after its letter and sign: expn, or overflow when it *)
(* has too many digits, or fail without any.                               *)
RECURSIVE ExponentDigits(_, _, _)
ExponentDigits(t, x, underscores) ==
    LET p == IF underscores /\ CharAt(t, x.p) = UNDERSCORE /\ to_digit(CharAt(t, x.p + 1)) < 10 THEN x.p + 1 ELSE x.p
        c == to_digit(CharAt(t, p))
    IN IF c >= 10 THEN [x EXCEPT !.p = p]
       ELSE IF x.overflow \/ x.expn > (INT_MAX - 2 - 9) \div 10
       THEN ExponentDigits(t, [x EXCEPT !.p = p + 1, !.overflow = TRUE], underscores)
       ELSE ExponentDigits(t, [x EXCEPT !.p = p + 1, !.expn = @ * 10 + c], underscores)
HasExponent(c, radix) ==
    IF radix = 10 THEN c = LetterE
    ELSE c = AT \/ (PowerOfTwo(radix) /\ RadixShift(radix) <= 4 /\ c = LetterP)
Exponent(t, p, flags) ==
    LET neg == CharAt(t, p + 1) = MINUS
        q == IF neg \/ CharAt(t, p + 1) = PLUS THEN p + 2 ELSE p + 1
    IN IF to_digit(CharAt(t, q)) >= 10 THEN [NoExponent(q) EXCEPT !.fail = TRUE]
       ELSE ExponentDigits(t, [NoExponent(q) EXCEPT !.neg = neg, !.bin = CharAt(t, p) = LetterP], flags.underscores)

Inf == EXP_MASK * Pow2(MANT_SIZE)
Packed(x) ==
    IF x.m = 0 THEN 0
    ELSE IF x.e > BIAS + 1 THEN Inf
    ELSE IF x.e < 2 - BIAS - MANT_SIZE THEN 0
    ELSE IF x.e < 2 - BIAS THEN Shr(x.m, (2 - BIAS) - x.e)
    ELSE (x.e + BIAS - 1) * Pow2(MANT_SIZE) + LowBits(x.m, MANT_SIZE)
ExpnOffset(st) == st.sig_pos + st.digits - (IF st.dot < 0 THEN st.pos ELSE st.dot)
Expn(st, x) ==
    LET bits == RadixShift(st.radix)
    IN IF PowerOfTwo(st.radix)
       THEN ToInt(ToInt(IF x.bin THEN x.expn ELSE x.expn * bits) - ExpnOffset(st) * bits)
       ELSE ToInt(x.expn - ExpnOffset(st))
Marked(a, extra) == [a EXCEPT ![1] = IF extra /\ @ % 2 = 0 THEN @ + 1 ELSE @]
Bounded(st, expn) ==
    LET bits == RadixShift(st.radix)
        pow2 == PowerOfTwo(st.radix)
        expn1 == ToInt(expn + (IF pow2 THEN st.digits * bits ELSE st.digits))
    IN IF expn1 >= (IF pow2 THEN BIAS + 1 + bits ELSE max_exponent(st.radix) + 1) THEN Inf
       ELSE IF expn1 <= (IF pow2 THEN -(BIAS + MANT_SIZE) ELSE min_exponent(st.radix)) THEN 0
       ELSE Packed(IF pow2 THEN round_to_d([a |-> Marked(st.tmp0, st.extra), e_offset |-> -expn], RNDN)
                   ELSE mul_pow_round_to_d(st.tmp0, st.radix, expn, RNDN))
Magnitude(st, x) ==
    IF st.digits = 0 THEN 0
    ELSE IF x.overflow THEN (IF x.neg THEN 0 ELSE Inf)
    ELSE Bounded(st, Expn(st, [x EXCEPT !.expn = IF x.neg THEN -@ ELSE @]))

Result(st, x, is_neg) ==
    IF x.fail \/ st.p = st.start THEN [r |-> F_QNAN, p |-> x.p]
    ELSE [r |-> is_neg * SIGN_MASK + Magnitude(st, x), p |-> x.p]
AfterDigits(t, st, is_neg) ==
    Result(st, IF ~st.flags.int_only /\ HasExponent(CharAt(t, st.p), st.radix) /\ st.p > st.start
               THEN Exponent(t, st.p, st.flags) ELSE NoExponent(st.p), is_neg)
NumberAt(t, start, p, radix, is_neg, flags) ==
    LET Start == [p |-> p, start |-> start, radix |-> radix, flags |-> flags, pos |-> 0, dot |-> -1,
                  stop |-> FALSE, sig_pos |-> 0, tmp0 |-> <<0>>, cur_limb |-> 0, limb_digits |-> 0,
                  digits |-> 0, extra |-> FALSE]
        Digits(st) == ReadDigits(t, Before(t, [st EXCEPT !.sig_pos = st.pos], radix))
    IN AfterDigits(t, Digits(SkipZeros(t, Before(t, Start, 1))), is_neg)
js_atod(t, from, radix, flags) ==
    LET is_neg == Bit(CharAt(t, from) = MINUS)
        start == IF CharAt(t, from) \in {PLUS, MINUS} THEN from + 1 ELSE from
        prefix == PrefixRadix(CharAt(t, start + 1), radix, flags)
        prefixed == CharAt(t, start) = 0 /\ prefix # 0
    IN IF CharAt(t, start) = INF /\ ~flags.int_only THEN [r |-> is_neg * SIGN_MASK + Inf, p |-> start + 1]
       ELSE IF prefixed /\ to_digit(CharAt(t, start + 2)) >= prefix THEN [r |-> F_QNAN, p |-> start + 2]
       ELSE NumberAt(t, start, IF prefixed THEN start + 2 ELSE start,
                     IF prefixed THEN prefix ELSE IF radix = 0 THEN 10 ELSE radix, is_neg, flags)
=============================================================================
