--------------------------------- MODULE Libm ---------------------------------
(***************************************************************************)
(* libm.c on top of softfp_template.h: the arithmetic that takes the place *)
(* of a floating point unit, rounding to integers, js_scalbn, js_fmod,     *)
(* js_lrint and the square root for machines without one.  The double is F *)
(* and the float S, both narrower here.                                    *)
(*                                                                         *)
(* A behaviour is one call: arg is the first operand, ret the rest of the  *)
(* call and its result.                                                    *)
(***************************************************************************)
EXTENDS Integers

CONSTANTS MANT_SIZE, EXP_SIZE,       \* double: 52 and 11
          MANT_SIZE32, EXP_SIZE32,   \* float: 23 and 8
          IntSizes,                  \* widths of integers: 32 and 64
          LOW_SIZE,                  \* width of the low word of a double: 32
          Operands,                  \* the words given to operations of two operands
          ScaleSteps,                \* the exponents given to js_scalbn
          ClzOfZero                  \* what the undefined clz of 0 may give

VARIABLES arg, ret
vars == <<arg, ret>>

F == INSTANCE Rounding
S == INSTANCE Rounding WITH MANT_SIZE <- MANT_SIZE32, EXP_SIZE <- EXP_SIZE32

(* The mantissa of a float is at least one bit short of that of a double   *)
(* when it is shifted to its place for rounding; subnormal doubles are far *)
(* below the floats, and infinity far above the integers.                  *)
LibmAssumption ==
    /\ MANT_SIZE >= S!F_SIZE - 2
    /\ F!EXP_MASK \div 2 - 1 > S!Unit + 1
    /\ EXP_SIZE >= 5
    /\ \A w \in IntSizes : w \in Nat /\ 2 ^ (EXP_SIZE - 1) > w - 1
    /\ LOW_SIZE \in 1 .. MANT_SIZE - 1
    /\ 2 * LOW_SIZE > MANT_SIZE
    /\ ClzOfZero \subseteq Int /\ ClzOfZero # {}

Pow2(n) == F!Pow2(n)
BIAS == F!EXP_MASK \div 2
Modes == 0 .. 4

------------------------------------------------------------------------------

(* Conversions between the two formats.                                    *)
WidenNormal(s, n) ==
    F!pack_sf(s, n.exp - S!EXP_MASK \div 2 + BIAS, n.mant * Pow2(MANT_SIZE - MANT_SIZE32))
cvt_sf32_sf(a) ==
    IF S!isnan_sf(a) THEN F!F_QNAN
    ELSE IF S!IsInfinite(a) THEN F!SignedInfinity(S!SignOf(a))
    ELSE IF S!IsZero(a) THEN F!Signed0(S!SignOf(a))
    ELSE WidenNormal(S!SignOf(a), S!Normal(a))

(* The mantissa of a subnormal number is left as it is: the result of the  *)
(* call that normalizes it is not used, only the exponent it stores.       *)
NarrowMant(a) == IF F!ExpOf(a) = 0 THEN F!MantOf(a) ELSE F!Normal(a).mant
cvt_sf_sf32(a, rm) ==
    IF F!isnan_sf(a) THEN S!F_QNAN
    ELSE IF F!IsInfinite(a) THEN S!SignedInfinity(F!SignOf(a))
    ELSE IF F!IsZero(a) THEN S!Signed0(F!SignOf(a))
    ELSE S!normalize_sf(F!SignOf(a), F!Normal(a).exp - BIAS + S!EXP_MASK \div 2,
                        F!rshift_rnd(NarrowMant(a), MANT_SIZE - (S!F_SIZE - 2)), rm, 0)

------------------------------------------------------------------------------

(* rint_sf64: rounds in place; the carry of the mantissa goes to the       *)
(* exponent.  Not used with RM_RNE.                                        *)
RintSmall(u, e, m, s, rm) ==
    IF F!IsZero(u) THEN u
    ELSE LET up == IF rm \in {F!RM_RUP, F!RM_RDN} THEN F!Xor(s, rm % 2) = 1
                   ELSE /\ rm \in {F!RM_RMM, F!RM_RMMUP}
                        /\ e = -1 /\ (m # 0 \/ s = 0 \/ rm = F!RM_RMM)
         IN F!pack_sf(s, IF up THEN BIAS ELSE 0, 0)
RintAddend(one, s, rm) ==
    CASE rm = F!RM_RMMUP -> one \div 2 - s
      [] rm = F!RM_RMM -> one \div 2
      [] rm = F!RM_RTZ -> 0
      [] OTHER -> IF F!Xor(s, rm % 2) = 1 THEN one - 1 ELSE 0
RintLarge(u, one, s, rm) ==
    LET v == u + RintAddend(one, s, rm) IN v - (v % one)
rint_sf64(u, rm) ==
    LET e == F!ExpOf(u) - BIAS
    IN IF e < 0 THEN RintSmall(u, e, F!MantOf(u), F!SignOf(u), rm)
       ELSE IF e < MANT_SIZE THEN RintLarge(u, Pow2(MANT_SIZE - e), F!SignOf(u), rm)
       ELSE u

(* js_scalbn: the exponent is changed in place; results that may be        *)
(* subnormal are made too large by 2^ExtraScale and multiplied down.       *)
ExtraScale == MANT_SIZE + 2
PowerOf2(k) == IF BIAS + k >= 1 THEN F!pack_sf(0, BIAS + k, 0)
               ELSE Pow2(MANT_SIZE - 1 + BIAS + k)
Mul(a, b) == F!mul_sf(a, b, F!RM_RNE, FALSE)
set_exp(x, k) == F!pack_sf(F!SignOf(x), k, F!MantOf(x))
ScalbnNormal(x, k) ==
    IF k >= F!EXP_MASK THEN F!SignedInfinity(F!SignOf(x))
    ELSE IF k > 0 THEN set_exp(x, k)
    ELSE IF k <= -ExtraScale THEN F!Signed0(F!SignOf(x))
    ELSE Mul(set_exp(x, k + ExtraScale), PowerOf2(-ExtraScale))
ScalbnSubnormal(y, n) == ScalbnNormal(y, F!ExpOf(y) - ExtraScale + n)
(* Mutant: a subnormal number is not normalized first.                     *)
js_scalbn_noNormalize(x, n) ==
    IF F!IsZero(x) \/ ~F!IsFinite(x) THEN x ELSE ScalbnNormal(x, F!ExpOf(x) + n)
js_scalbn(x, n) ==
    IF F!IsZero(x) \/ ~F!IsFinite(x) THEN x
    ELSE IF F!ExpOf(x) = 0 THEN ScalbnSubnormal(Mul(x, PowerOf2(ExtraScale)), n)
    ELSE ScalbnNormal(x, F!ExpOf(x) + n)

------------------------------------------------------------------------------

(* js_sqrt for machines without a square root: bit by bit, on the high and *)
(* the low word.  st has the words of the rest and of the root so far.     *)
HIGH_SIZE == MANT_SIZE - LOW_SIZE
Low(a) == a % Pow2(LOW_SIZE)
TopBit(a) == a \div Pow2(LOW_SIZE - 1)
Rest(st, h, l) == [st EXCEPT !.ix0 = h, !.ix1 = l]
Doubled(st) == Rest(st, 2 * st.ix0 + TopBit(st.ix1), Low(2 * st.ix1))

RECURSIVE SqrtHigh(_, _)
SqrtHigh(st, r) ==
    IF r = 0 THEN st
    ELSE LET t == st.s0 + r
         IN SqrtHigh(Doubled(IF t <= st.ix0
                             THEN [st EXCEPT !.s0 = t + r, !.ix0 = @ - t, !.q = @ + r]
                             ELSE st), r \div 2)

SqrtLowStep(st, t1, r) ==
    [st EXCEPT !.s1 = Low(t1 + r),
               !.s0 = @ + (IF TopBit(t1) = 1 /\ TopBit(Low(t1 + r)) = 0 THEN 1 ELSE 0),
               !.ix0 = @ - st.s0 - (IF st.ix1 < t1 THEN 1 ELSE 0),
               !.ix1 = Low(@ - t1),
               !.q1 = @ + r]
RECURSIVE SqrtLow(_, _)
SqrtLow(st, r) ==
    IF r = 0 THEN st
    ELSE LET t1 == Low(st.s1 + r)
         IN SqrtLow(Doubled(IF st.s0 < st.ix0 \/ (st.s0 = st.ix0 /\ t1 <= st.ix1)
                            THEN SqrtLowStep(st, t1, r) ELSE st), r \div 2)

(* Under rounding to nearest, 1 - tiny and 1 + tiny are 1: the last bit of *)
(* the root, which is beyond the mantissa, rounds it up.                   *)
SqrtRounded(st) == IF st.ix0 # 0 \/ st.ix1 # 0 THEN [st EXCEPT !.q1 = @ + (@ % 2)] ELSE st
SqrtPack(st, m) ==
    ((st.q \div 2) + (BIAS - 1) * Pow2(HIGH_SIZE) + m * Pow2(HIGH_SIZE)) * Pow2(LOW_SIZE)
        + (st.q1 \div 2) + (st.q % 2) * Pow2(LOW_SIZE - 1)
SqrtBits(h, l, m) ==
    SqrtPack(SqrtRounded(SqrtLow(SqrtHigh(
        Doubled([ix0 |-> h, ix1 |-> l, s0 |-> 0, s1 |-> 0, q |-> 0, q1 |-> 0]),
        Pow2(HIGH_SIZE + 1)), Pow2(LOW_SIZE - 1))), m)
(* m is the unbiased exponent; an odd one is made even.                    *)
SqrtEven(h, l, m) ==
    IF m % 2 = 1 THEN SqrtBits(2 * h + TopBit(l), Low(2 * l), m \div 2)
    ELSE SqrtBits(h, l, m \div 2)
Implicit(h) == (h % Pow2(HIGH_SIZE)) + Pow2(HIGH_SIZE)

RECURSIVE SqrtWordShift(_, _, _)
SqrtWordShift(h, l, m) ==
    IF h = 0 THEN SqrtWordShift(l \div Pow2(LOW_SIZE - (HIGH_SIZE + 1)),
                                Low(l * Pow2(HIGH_SIZE + 1)), m - (HIGH_SIZE + 1))
    ELSE [high |-> h, low |-> l, exp |-> m]
(* The bits still missing.  With i = 0 the code shifts a word by its whole *)
(* width, which is undefined; the result here is that of machines where    *)
(* such a shift leaves 0.                                                  *)
SqrtBitShift(w, i) ==
    SqrtEven(Implicit(w.high * Pow2(i) + (w.low \div Pow2(LOW_SIZE - i))),
             Low(w.low * Pow2(i)), w.exp - (i - 1) - BIAS)
SqrtSubnormal(w) ==
    SqrtBitShift(w, CHOOSE i \in 0 .. HIGH_SIZE : (w.high * Pow2(i)) \div Pow2(HIGH_SIZE) = 1)
js_sqrt(a) ==
    IF F!isnan_sf(a) THEN a
    ELSE IF F!IsZero(a) \/ a = F!Infinity THEN a
    ELSE IF F!SignOf(a) = 1 THEN F!F_QNAN
    ELSE IF F!ExpOf(a) = 0 THEN SqrtSubnormal(SqrtWordShift(a \div Pow2(LOW_SIZE), Low(a), 0))
    ELSE SqrtEven(Implicit(a \div Pow2(LOW_SIZE)), Low(a), F!ExpOf(a) - BIAS)

------------------------------------------------------------------------------

(* What the compiler calls to compare doubles; it looks at the sign of the *)
(* result.  Unordered numbers compare as 2, which makes ==, < and <= false *)
(* as it is; the others replace it.                                        *)
Unordered(r, as) == IF r = 2 THEN as ELSE r
__eqdf2(a, b) == F!cmp_sf(a, b)
__nedf2(a, b) == Unordered(F!cmp_sf(a, b), 0)
__ledf2(a, b) == F!cmp_sf(a, b)
__ltdf2(a, b) == F!cmp_sf(a, b)
__gedf2(a, b) == Unordered(F!cmp_sf(a, b), -1)
__gtdf2(a, b) == Unordered(F!cmp_sf(a, b), -1)
__unorddf2(a, b) == F!isnan_sf(a) \/ F!isnan_sf(b)

------------------------------------------------------------------------------

None == [op |-> "none"]
Init == arg \in F!FWord /\ ret = None

Returns(r) == ret' = r /\ UNCHANGED arg

(* __adddf3, __subdf3, __muldf3, __divdf3, js_sqrt: the callers round to   *)
(* nearest, the operations have every mode.                                *)
Add == arg \in Operands /\ \E b \in Operands, rm \in Modes, z \in ClzOfZero :
    Returns([op |-> "add", b |-> b, rm |-> rm, r |-> F!add_sf(arg, b, rm, z)])
Sub == arg \in Operands /\ \E b \in Operands, z \in ClzOfZero :
    Returns([op |-> "sub", b |-> b, r |-> F!sub_sf(arg, b, F!RM_RNE, z)])
Multiply == arg \in Operands /\ \E b \in Operands, rm \in Modes, ulong \in BOOLEAN :
    Returns([op |-> "mul", b |-> b, rm |-> rm, r |-> F!mul_sf(arg, b, rm, ulong)])
Divide == arg \in Operands /\ \E b \in Operands, rm \in Modes, ulong \in BOOLEAN :
    Returns([op |-> "div", b |-> b, rm |-> rm, r |-> F!div_sf(arg, b, rm, ulong)])
Sqrt == \E rm \in Modes, ulong \in BOOLEAN :
    Returns([op |-> "sqrt", rm |-> rm, r |-> F!sqrt_sf(arg, rm, ulong)])
SqrtWords == Returns([op |-> "js_sqrt", r |-> js_sqrt(arg)])
Fmod == arg \in Operands /\ \E b \in Operands, z \in ClzOfZero :
    Returns([op |-> "fmod", b |-> b, r |-> F!fmod_sf(arg, b, z)])
Compare == arg \in Operands /\ \E b \in Operands :
    Returns([op |-> "cmp", b |-> b, eq |-> __eqdf2(arg, b), ne |-> __nedf2(arg, b),
             le |-> __ledf2(arg, b), lt |-> __ltdf2(arg, b), ge |-> __gedf2(arg, b),
             gt |-> __gtdf2(arg, b), unord |-> __unorddf2(arg, b),
             quiet |-> [eq |-> F!eq_quiet_sf(arg, b), le |-> F!le_sf(arg, b),
                        lt |-> F!lt_sf(arg, b)]])
(* js_lrint and __fixdfsi.                                                 *)
ToInt == \E w \in IntSizes, rm \in Modes, uns \in BOOLEAN :
    Returns([op |-> "toint", w |-> w, rm |-> rm, uns |-> uns,
             r |-> F!internal_cvt_sf_i(arg, rm, w, uns)])
(* __floatsidf, __floatunsidf.                                             *)
FromInt == \E w \in IntSizes, rm \in Modes, uns \in BOOLEAN, z \in ClzOfZero :
    /\ arg < Pow2(w)
    /\ Returns([op |-> "fromint", w |-> w, rm |-> rm, uns |-> uns,
                r |-> F!internal_cvt_i_sf(arg, rm, w, uns, z)])
Widen == arg \in S!FWord /\ Returns([op |-> "widen", r |-> cvt_sf32_sf(arg)])
Narrow == \E rm \in Modes : Returns([op |-> "narrow", rm |-> rm, r |-> cvt_sf_sf32(arg, rm)])
(* js_floor, js_ceil, js_trunc, js_round_inf.                              *)
Rint == \E rm \in {F!RM_RDN, F!RM_RUP, F!RM_RTZ, F!RM_RMM, F!RM_RMMUP} :
    Returns([op |-> "rint", rm |-> rm, r |-> rint_sf64(arg, rm)])
Scalbn == \E n \in ScaleSteps : Returns([op |-> "scalbn", n |-> n, r |-> js_scalbn(arg, n)])

Next == /\ ret = None
        /\ \/ Add \/ Sub \/ Multiply \/ Divide \/ Sqrt \/ SqrtWords \/ Fmod \/ Compare
           \/ ToInt \/ FromInt \/ Widen \/ Narrow \/ Rint \/ Scalbn
Spec == Init /\ [][Next]_vars

------------------------------------------------------------------------------

(* A float as a double: the same number.                                   *)
SameNumber(r, a) ==
    IF S!isnan_sf(a) THEN r = F!F_QNAN
    ELSE IF ~S!IsFinite(a) THEN r = F!SignedInfinity(S!SignOf(a))
    ELSE /\ F!SignOf(r) = S!SignOf(a)
         /\ \A rm \in Modes : F!IsDyadic(r, S!SignOf(a), rm, S!Significand(S!AbsOf(a)),
                                          S!Scale(S!AbsOf(a)) + F!Unit - S!Unit)
(* A double as a float: rounded.                                           *)
Narrowed(r, a, rm) ==
    IF F!isnan_sf(a) THEN r = S!F_QNAN
    ELSE IF F!IsInfinite(a) THEN r = S!SignedInfinity(F!SignOf(a))
    ELSE IF F!IsZero(a) THEN r = S!Signed0(F!SignOf(a))
    ELSE S!IsDyadic(r, F!SignOf(a), rm, F!Significand(F!AbsOf(a)),
                    F!Scale(F!AbsOf(a)) + S!Unit - F!Unit)

(* Addition, subtraction, multiplication, division and square roots are    *)
(* correctly rounded in every mode, whatever the undefined clz of 0 gives  *)
(* and whichever way the double words are computed; NaN, infinities and    *)
(* the signs of zeros are those of IEEE 754.                               *)
CorrectlyRounded ==
    CASE ret.op = "add" -> F!IsSum(ret.r, arg, ret.b, ret.rm)
      [] ret.op = "sub" -> F!IsSum(ret.r, arg, F!Negate(ret.b), F!RM_RNE)
      [] ret.op = "mul" -> F!IsProduct(ret.r, arg, ret.b, ret.rm)
      [] ret.op = "div" -> F!IsQuotient(ret.r, arg, ret.b, ret.rm)
      [] ret.op = "sqrt" -> F!IsRoot(ret.r, arg, ret.rm)
      [] ret.op = "js_sqrt" -> F!isnan_sf(arg) \/ F!IsRoot(ret.r, arg, F!RM_RNE)
      [] ret.op = "fmod" -> F!IsRemainder(ret.r, arg, ret.b)
      [] OTHER -> TRUE

(* The comparisons the compiler calls decide as the order of the numbers   *)
(* o, -1, 0 or 1, and 2 with a NaN; != of a NaN is left out, which __nedf2 *)
(* answers as if the numbers were equal.                                   *)
DecideAs(o) ==
    /\ (ret.eq = 0) = (o = 0)
    /\ o # 2 => (ret.ne # 0) = (o # 0)
    /\ (ret.le <= 0) = (o \in {-1, 0}) /\ (ret.lt < 0) = (o = -1)
    /\ (ret.ge >= 0) = (o \in {0, 1}) /\ (ret.gt > 0) = (o = 1)
    /\ ret.unord = (o = 2)
    /\ ret.quiet = [eq |-> o = 0, le |-> o \in {-1, 0}, lt |-> o = -1]

(* Conversions to and from integers, between the formats, to integers in   *)
(* the same format and by powers of two give the nearest number there is   *)
(* in the direction asked for; comparisons agree with the order of the     *)
(* numbers, with NaN as well, except that __nedf2 has no answer for NaN    *)
(* but that of equal numbers.                                              *)
ConversionsExact ==
    CASE ret.op = "toint" -> F!IsInteger(ret.r, arg, ret.rm, ret.w, ret.uns)
      [] ret.op = "fromint" -> F!IsFromInteger(ret.r, arg, ret.rm, ret.w, ret.uns)
      [] ret.op = "widen" -> SameNumber(ret.r, arg)
      [] ret.op = "narrow" -> Narrowed(ret.r, arg, ret.rm)
      [] ret.op = "rint" -> F!IsRint(ret.r, arg, ret.rm)
      [] ret.op = "scalbn" -> IF F!IsZero(arg) \/ ~F!IsFinite(arg) THEN ret.r = arg
                              ELSE F!IsDyadic(ret.r, F!SignOf(arg), F!RM_RNE,
                                              F!Significand(F!AbsOf(arg)),
                                              F!Scale(F!AbsOf(arg)) + ret.n)
      [] ret.op = "cmp" -> \E o \in {-1, 0, 1, 2} : F!IsOrder(o, arg, ret.b) /\ DecideAs(o)
      [] OTHER -> TRUE
=============================================================================
