------------------------------ MODULE SoftFloat ------------------------------
(***************************************************************************)
(* softfp_template.h: IEEE 754 arithmetic on words of F_SIZE bits with     *)
(* integer operations only.  The C file is included once for each format;  *)
(* this module is instantiated once for each format in the same way, with  *)
(* the sizes of the fields as constants.  libm.c includes it for 32 and 64 *)
(* bits; the models use formats narrow enough to enumerate.                *)
(*                                                                         *)
(* F_USE_FFLAGS is 0 in libm.c, so the exception flags are not there.      *)
(***************************************************************************)
EXTENDS Integers

CONSTANTS MANT_SIZE,     \* bits of the mantissa field
          EXP_SIZE       \* bits of the exponent field

(* add_sf (only for double) works with three more bits than the mantissa   *)
(* and a carry: EXP_SIZE >= 5 there.                                       *)
FormatAssumption == /\ MANT_SIZE \in Nat /\ MANT_SIZE >= 1
                           /\ EXP_SIZE \in Nat /\ EXP_SIZE >= 3

Pow2(n) == 2 ^ n
Shr(a, n) == a \div Pow2(n)
LowBits(a, n) == a % Pow2(n)

F_SIZE == MANT_SIZE + EXP_SIZE + 1
EXP_MASK == Pow2(EXP_SIZE) - 1
MANT_MASK == Pow2(MANT_SIZE) - 1
SIGN_MASK == Pow2(F_SIZE - 1)
IMANT_SIZE == F_SIZE - 2
RND_SIZE == IMANT_SIZE - MANT_SIZE
F_QNAN == EXP_MASK * Pow2(MANT_SIZE) + Pow2(MANT_SIZE - 1)
FWord == 0 .. Pow2(F_SIZE) - 1

(* The rounding modes, numbered as in RoundingModeEnum: the code tests     *)
(* rm & 1 for RM_RDN and RM_RUP.                                           *)
RM_RNE == 0
RM_RTZ == 1
RM_RDN == 2
RM_RUP == 3
RM_RMM == 4
RM_RMMUP == 5

SignOf(a) == Shr(a, F_SIZE - 1)
ExpOf(a) == LowBits(Shr(a, MANT_SIZE), EXP_SIZE)
MantOf(a) == LowBits(a, MANT_SIZE)
AbsOf(a) == LowBits(a, F_SIZE - 1)
Xor(s, t) == (s + t) % 2

isnan_sf(a) == ExpOf(a) = EXP_MASK /\ MantOf(a) # 0
pack_sf(s, e, m) == s * SIGN_MASK + e * Pow2(MANT_SIZE) + LowBits(m, MANT_SIZE)

(* Leading zeros of a in a word of w bits.  The builtin is undefined for 0 *)
(* and then gives what a register holds: clz0.                             *)
clz(a, w, clz0) ==
    IF a = 0 THEN clz0 ELSE CHOOSE n \in 0 .. w - 1 : Shr(a, w - 1 - n) = 1

(* Mutant: what is shifted out is lost.                                    *)
rshift_rnd_noSticky(a, d) == IF d >= F_SIZE THEN 0 ELSE Shr(a, d)
(* Shift right; what is shifted out is kept as a sticky lowest bit.        *)
rshift_rnd(a, d) ==
    IF d = 0 THEN a
    ELSE IF d >= F_SIZE THEN (IF a # 0 THEN 1 ELSE 0)
    ELSE IF LowBits(a, d) # 0 /\ Shr(a, d) % 2 = 0 THEN Shr(a, d) + 1 ELSE Shr(a, d)

(* What is added below the last bit before truncating.                     *)
Addend(s, rm) ==
    CASE rm \in {RM_RNE, RM_RMM} -> Pow2(RND_SIZE - 1)
      [] rm = RM_RTZ -> 0
      [] rm \in {RM_RDN, RM_RUP} -> IF Xor(s, rm % 2) = 1 THEN Pow2(RND_SIZE) - 1 ELSE 0

Truncate(m, rm, addend) ==
    LET t == Shr(m + addend, RND_SIZE)
    IN IF rm = RM_RNE /\ LowBits(m, RND_SIZE) = Pow2(RND_SIZE - 1) THEN t - (t % 2) ELSE t

PackRounded(s, e, m, addend) ==
    IF m <= MANT_MASK THEN pack_sf(s, 0, m)
    ELSE IF e + Shr(m, MANT_SIZE + 1) < EXP_MASK
         THEN pack_sf(s, e + Shr(m, MANT_SIZE + 1), m)
    ELSE IF addend = 0 THEN pack_sf(s, EXP_MASK - 1, MANT_MASK)
    ELSE pack_sf(s, EXP_MASK, 0)

(* m has its highest bit at F_SIZE - 2, or e <= 0 and the result may be    *)
(* subnormal.                                                              *)
round_pack_sf(s, e, m, rm) ==
    IF e <= 0
    THEN PackRounded(s, 1, Truncate(rshift_rnd(m, 1 - e), rm, Addend(s, rm)), Addend(s, rm))
    ELSE PackRounded(s, e, Truncate(m, rm, Addend(s, rm)), Addend(s, rm))

ShiftedPack(s, e, m, rm, shift) ==
    round_pack_sf(s, e - shift, IF m = 0 THEN 0 ELSE m * Pow2(shift), rm)
normalize_sf(s, e, m, rm, clz0) == ShiftedPack(s, e, m, rm, clz(m, F_SIZE, clz0) - 1)

(* Exponent and mantissa of a finite a # 0 with the implicit bit set; a    *)
(* subnormal one is shifted into place (normalize_subnormal_sf).           *)
Shifted(m, shift) == [exp |-> 1 - shift, mant |-> m * Pow2(shift)]
normalize_subnormal_sf(m) == Shifted(m, MANT_SIZE - (F_SIZE - 1 - clz(m, F_SIZE, 0)))
Normal(a) == IF ExpOf(a) = 0 THEN normalize_subnormal_sf(MantOf(a))
             ELSE [exp |-> ExpOf(a), mant |-> MantOf(a) + Pow2(MANT_SIZE)]

------------------------------------------------------------------------------

(* The operands of add_sf as it aligns them: three more bits, exponent of  *)
(* a subnormal 1.                                                          *)
AddMant(a) == 8 * (MantOf(a) + (IF ExpOf(a) = 0 THEN 0 ELSE Pow2(MANT_SIZE)))
AddExp(a) == IF ExpOf(a) = 0 THEN 1 ELSE ExpOf(a)

(* |a| >= |b| *)
AddOrdered(a, b, rm, clz0) ==
    IF ExpOf(a) = EXP_MASK
    THEN IF MantOf(a) # 0 \/ (ExpOf(b) = EXP_MASK /\ SignOf(a) # SignOf(b))
         THEN F_QNAN ELSE a
    ELSE LET bm == rshift_rnd(AddMant(b), AddExp(a) - AddExp(b))
             m == IF SignOf(a) = SignOf(b) THEN AddMant(a) + bm ELSE AddMant(a) - bm
             s == IF m = 0 /\ SignOf(a) # SignOf(b)
                  THEN (IF rm = RM_RDN THEN 1 ELSE 0) ELSE SignOf(a)
         IN normalize_sf(s, AddExp(a) + RND_SIZE - 3, m, rm, clz0)

add_sf(a, b, rm, clz0) ==
    IF AbsOf(a) < AbsOf(b) THEN AddOrdered(b, a, rm, clz0) ELSE AddOrdered(a, b, rm, clz0)
Negate(a) == (a + SIGN_MASK) % (2 * SIGN_MASK)
sub_sf(a, b, rm, clz0) == add_sf(a, Negate(b), rm, clz0)

------------------------------------------------------------------------------

(* High and low words of a product.  Without a type of twice the size the  *)
(* product is put together from four products of half words.               *)
FH_SIZE == F_SIZE \div 2
Lo(a) == LowBits(a, FH_SIZE)
Hi(a) == Shr(a, FH_SIZE)
WideWord(h, l) == [high |-> h, low |-> l]
HalfWord3(r3, r2, r1, r0) == WideWord(r3 * Pow2(FH_SIZE) + r2, r1 * Pow2(FH_SIZE) + r0)
HalfWord2(c, r11, r1, r0) == HalfWord3(Lo(Hi(c) + Hi(r11)), Lo(c), r1, r0)
HalfWord1(c, r00, r01, r10, r11) ==
    HalfWord2(Hi(c) + Hi(r01) + Hi(r10) + Lo(r11), r11, Lo(c), Lo(r00))
HalfWord0(r00, r01, r10, r11) ==
    HalfWord1(Hi(r00) + Lo(r01) + Lo(r10), r00, r01, r10, r11)
mul_u(a, b, ulong) ==
    IF ulong THEN WideWord(Shr(a * b, F_SIZE), LowBits(a * b, F_SIZE))
    ELSE HalfWord0(Lo(a) * Lo(b), Lo(a) * Hi(b), Hi(a) * Lo(b), Hi(a) * Hi(b))

Sticky(r) == IF r.low # 0 /\ r.high % 2 = 0 THEN r.high + 1 ELSE r.high

MulNormal(s, na, nb, rm, ulong) ==
    normalize_sf(s, na.exp + nb.exp - Pow2(EXP_SIZE - 1) + 2,
                 Sticky(mul_u(na.mant * Pow2(RND_SIZE), nb.mant * Pow2(RND_SIZE + 1), ulong)),
                 rm, 0)

mul_sf(a, b, rm, ulong) ==
    LET s == Xor(SignOf(a), SignOf(b))
    IN IF EXP_MASK \in {ExpOf(a), ExpOf(b)}
       THEN IF isnan_sf(a) \/ isnan_sf(b) \/ AbsOf(a) = 0 \/ AbsOf(b) = 0
            THEN F_QNAN ELSE pack_sf(s, EXP_MASK, 0)
       ELSE IF AbsOf(a) = 0 \/ AbsOf(b) = 0 THEN pack_sf(s, 0, 0)
       ELSE MulNormal(s, Normal(a), Normal(b), rm, ulong)

------------------------------------------------------------------------------

(* Quotient and remainder of the double word a1, a0 by b, one bit at a     *)
(* time where there is no wider type.                                      *)
RECURSIVE DivBits(_, _, _, _)
DivBits(i, a1, a0, b) ==
    IF i = F_SIZE THEN [quo |-> a0, rem |-> a1]
    ELSE LET d == 2 * a1 + Shr(a0, F_SIZE - 1)
             q == IF d >= b THEN 1 ELSE 0
         IN DivBits(i + 1, LowBits(d - q * b, F_SIZE), LowBits(2 * a0 + q, F_SIZE), b)
divrem_u(a1, a0, b, ulong) ==
    IF ulong THEN [quo |-> LowBits((a1 * Pow2(F_SIZE) + a0) \div b, F_SIZE),
                   rem |-> (a1 * Pow2(F_SIZE) + a0) % b]
    ELSE DivBits(0, a1, a0, b)

StickyQuo(q) == IF q.rem # 0 /\ q.quo % 2 = 0 THEN q.quo + 1 ELSE q.quo
DivNormal(s, na, nb, rm, ulong) ==
    normalize_sf(s, na.exp - nb.exp + Pow2(EXP_SIZE - 1) - 1,
                 StickyQuo(divrem_u(na.mant, 0, nb.mant * 4, ulong)), rm, 0)

div_sf(a, b, rm, ulong) ==
    LET s == Xor(SignOf(a), SignOf(b))
    IN IF ExpOf(a) = EXP_MASK
       THEN IF MantOf(a) # 0 \/ isnan_sf(b) \/ ExpOf(b) = EXP_MASK
            THEN F_QNAN ELSE pack_sf(s, EXP_MASK, 0)
       ELSE IF ExpOf(b) = EXP_MASK
       THEN IF MantOf(b) # 0 THEN F_QNAN ELSE pack_sf(s, 0, 0)
       ELSE IF AbsOf(b) = 0
       THEN IF AbsOf(a) = 0 THEN F_QNAN ELSE pack_sf(s, EXP_MASK, 0)
       ELSE IF AbsOf(a) = 0 THEN pack_sf(s, 0, 0)
       ELSE DivNormal(s, Normal(a), Normal(b), rm, ulong)

(* Newton's iteration from above, until it no longer decreases.            *)
RECURSIVE SqrtLoop(_, _, _, _)
SqrtLoop(a1, a0, s, ulong) ==
    LET u == (divrem_u(a1, a0, s, ulong).quo + s) \div 2
    IN IF u >= s THEN s ELSE SqrtLoop(a1, a0, u, ulong)
SqrtStart(l) == Pow2((l + 1) \div 2)
Inexact(s, a1, a0, ulong) == mul_u(s, s, ulong) # WideWord(a1, a0)
SqrtRem(s, a1, a0, ulong) == [sqrt |-> s, inexact |-> Inexact(s, a1, a0, ulong)]
BitLength(a, w) == IF a = 0 THEN 0 ELSE w - clz(a, w, 0)
sqrtrem_u(a1, a0, ulong) ==
    IF a1 = 0 /\ a0 = 0 THEN [sqrt |-> 0, inexact |-> FALSE]
    ELSE SqrtRem(SqrtLoop(a1, a0, SqrtStart(IF a1 # 0 THEN F_SIZE + BitLength(a1 - 1, F_SIZE)
                                            ELSE BitLength(a0 - 1, F_SIZE)), ulong),
                 a1, a0, ulong)

StickySqrt(r) == IF r.inexact /\ r.sqrt % 2 = 0 THEN r.sqrt + 1 ELSE r.sqrt
(* e is the unbiased exponent; an odd one is made even.                    *)
SqrtNormal(e, m, rm, ulong) ==
    normalize_sf(0, (e \div 2) + EXP_MASK \div 2,
                 StickySqrt(sqrtrem_u(m * Pow2(e % 2) * Pow2(F_SIZE - 4 - MANT_SIZE), 0, ulong)),
                 rm, 0)
sqrt_sf(a, rm, ulong) ==
    IF isnan_sf(a) THEN F_QNAN
    ELSE IF AbsOf(a) = 0 THEN a
    ELSE IF SignOf(a) = 1 THEN F_QNAN
    ELSE IF ExpOf(a) = EXP_MASK THEN a
    ELSE LET n == Normal(a) IN SqrtNormal(n.exp - EXP_MASK \div 2, n.mant, rm, ulong)

------------------------------------------------------------------------------

(* Comparisons: -1, 0, 1, or 2 if an operand is not a number.              *)
BothZero(a, b) == AbsOf(a) = 0 /\ AbsOf(b) = 0
cmp_sf(a, b) ==
    IF isnan_sf(a) \/ isnan_sf(b) THEN 2
    ELSE IF SignOf(a) # SignOf(b) THEN (IF BothZero(a, b) THEN 0 ELSE 1 - 2 * SignOf(a))
    ELSE IF a < b THEN 2 * SignOf(a) - 1
    ELSE IF a > b THEN 1 - 2 * SignOf(a)
    ELSE 0
Ordered(a, b) == ~isnan_sf(a) /\ ~isnan_sf(b)
eq_quiet_sf(a, b) == Ordered(a, b) /\ (BothZero(a, b) \/ a = b)
le_sf(a, b) ==
    /\ Ordered(a, b)
    /\ IF SignOf(a) # SignOf(b) THEN SignOf(a) = 1 \/ BothZero(a, b)
       ELSE IF SignOf(a) = 1 THEN a >= b ELSE a <= b
lt_sf(a, b) ==
    /\ Ordered(a, b)
    /\ IF SignOf(a) # SignOf(b) THEN SignOf(a) = 1 /\ ~BothZero(a, b)
       ELSE IF SignOf(a) = 1 THEN a > b ELSE a < b

(* a mod b, exact, one bit of the difference of the exponents at a time.   *)
RECURSIVE FmodLoop(_, _, _)
FmodLoop(m, bm, n) ==
    IF n = 0 THEN m
    ELSE FmodLoop(IF 2 * m >= bm THEN 2 * m - bm ELSE 2 * m, bm, n - 1)
FmodNormal(s, na, nb, clz0) ==
    normalize_sf(s, nb.exp,
                 FmodLoop(IF na.mant >= nb.mant THEN na.mant - nb.mant ELSE na.mant,
                          nb.mant, na.exp - nb.exp) * Pow2(RND_SIZE), RM_RNE, clz0)
fmod_sf(a, b, clz0) ==
    IF AbsOf(b) = 0 \/ AbsOf(a) >= EXP_MASK * Pow2(MANT_SIZE)
                    \/ AbsOf(b) > EXP_MASK * Pow2(MANT_SIZE) THEN F_QNAN
    ELSE IF AbsOf(a) < AbsOf(b) THEN a
    ELSE IF AbsOf(a) = AbsOf(b) THEN SignOf(a) * SIGN_MASK
    ELSE FmodNormal(SignOf(a), Normal(a), Normal(b), clz0)

------------------------------------------------------------------------------

(* softfp_template_icvt.h: conversions to and from integers of w bits, as  *)
(* words.  What does not fit gives the nearest integer there is.           *)
CvtMax(s, w, uns) == IF uns THEN (s - 1) % Pow2(w) ELSE Pow2(w - 1) - 1 + s
Signed(s, r, w) == IF s = 1 THEN (-r) % Pow2(w) ELSE r
CvtSmall(s, m, rm, w, rmax) ==
    LET r == Truncate(m, rm, Addend(s, rm)) IN IF r > rmax THEN rmax ELSE Signed(s, r, w)
CvtLarge(s, m, e, w, rmax) ==
    IF e <= w - 1 - MANT_SIZE /\ m * Pow2(e) <= rmax THEN Signed(s, m * Pow2(e), w) ELSE rmax
CvtParts(s, m, e, rm, w, uns) ==
    IF e >= 0 THEN CvtLarge(s, m, e, w, CvtMax(s, w, uns))
    ELSE CvtSmall(s, rshift_rnd(m * Pow2(RND_SIZE), -e), rm, w, CvtMax(s, w, uns))
internal_cvt_sf_i(a, rm, w, uns) ==
    CvtParts(IF isnan_sf(a) THEN 0 ELSE SignOf(a),
             AddMant(a) \div 8, AddExp(a) - EXP_MASK \div 2 - MANT_SIZE, rm, w, uns)

CvtShift(s, r, rm, l, clz0) ==
    IF l > 0
    THEN normalize_sf(s, EXP_MASK \div 2 + F_SIZE - 2 + l,
                      StickyQuo([quo |-> Shr(r, l), rem |-> LowBits(r, l)]), rm, clz0)
    ELSE normalize_sf(s, EXP_MASK \div 2 + F_SIZE - 2, r, rm, clz0)
CvtAbs(s, r, rm, w, clz0) == CvtShift(s, r, rm, w - clz(r, w, clz0) - (F_SIZE - 1), clz0)
internal_cvt_i_sf(a, rm, w, uns, clz0) ==
    IF ~uns /\ a >= Pow2(w - 1) THEN CvtAbs(1, Pow2(w) - a, rm, w, clz0)
    ELSE CvtAbs(0, a, rm, w, clz0)
=============================================================================
