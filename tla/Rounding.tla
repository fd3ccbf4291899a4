------------------------------- MODULE Rounding -------------------------------
(***************************************************************************)
(* What IEEE 754 asks of the operations of SoftFloat: the result is the    *)
(* exact result of the operation, rounded once.  A magnitude is            *)
(* Significand * 2^Scale units, the unit being the smallest subnormal      *)
(* number; words without their sign are ordered like the magnitudes they   *)
(* stand for, and the word of infinity takes the place of the number after *)
(* the largest.                                                            *)
(***************************************************************************)
EXTENDS SoftFloat

Infinity == EXP_MASK * Pow2(MANT_SIZE)
Unit == MANT_SIZE + EXP_MASK \div 2 - 1       \* 1.0 is 2^Unit units

Significand(w) == IF w < Pow2(MANT_SIZE) THEN w ELSE MantOf(w) + Pow2(MANT_SIZE)
Scale(w) == IF w < Pow2(MANT_SIZE) THEN 0 ELSE Shr(w, MANT_SIZE) - 1
IsFinite(a) == ExpOf(a) # EXP_MASK
IsInfinite(a) == AbsOf(a) = Infinity
IsZero(a) == AbsOf(a) = 0
Signed0(s) == s * SIGN_MASK
SignedInfinity(s) == s * SIGN_MASK + Infinity

Down(s, rm) == rm = RM_RTZ \/ (rm = RM_RDN /\ s = 0) \/ (rm = RM_RUP /\ s = 1)
Up(s, rm) == (rm = RM_RUP /\ s = 0) \/ (rm = RM_RDN /\ s = 1)

(* w is the magnitude x rounded in mode rm, for a number of sign s.  x is  *)
(* known by comparison: AtLeast(n, w) says that 2x is n units in the last  *)
(* place of w or more, Equal(n, w) that it is n of them.  The number       *)
(* before w is one unit in its own last place below, the next one a unit   *)
(* in the last place of w above.                                           *)
IsRounded(w, s, rm, AtLeast(_, _), Equal(_, _)) ==
    LET sig(v) == 2 * Significand(v)
        Above(n, v) == AtLeast(n, v) /\ ~Equal(n, v)
    IN CASE Down(s, rm) -> /\ w < Infinity
                           /\ AtLeast(sig(w), w)
                           /\ w + 1 < Infinity => ~AtLeast(sig(w) + 2, w)
         [] Up(s, rm) -> /\ w <= Infinity
                         /\ IF w = 0 THEN Equal(0, 0) ELSE Above(sig(w - 1), w - 1)
                         /\ w < Infinity => ~Above(sig(w), w)
         [] rm \in {RM_RNE, RM_RMM} ->
              /\ w <= Infinity
              /\ w > 0 => /\ AtLeast(sig(w - 1) + 1, w - 1)
                          /\ Equal(sig(w - 1) + 1, w - 1) => rm = RM_RMM \/ w % 2 = 0
              /\ w < Infinity => /\ ~Above(sig(w) + 1, w)
                                 /\ Equal(sig(w) + 1, w) => rm = RM_RNE /\ w % 2 = 0

(* r has sign s and the magnitude (num / den) * 2^k units, rounded.  Far   *)
(* from the numbers it is compared with, 2^k need not be exact.            *)
IsFraction(r, s, rm, num, den, k) ==
    LET Twice(d) == IF d >= 0 THEN 2 * num * Pow2(IF d > 16 THEN 16 ELSE d) ELSE 2 * num
        Below(d) == IF d >= 0 THEN den ELSE den * Pow2(IF d < -20 THEN 20 ELSE -d)
    IN /\ SignOf(r) = s
       /\ IsRounded(AbsOf(r), s, rm,
                    LAMBDA n, w : Twice(k - Scale(w)) \div Below(k - Scale(w)) >= n,
                    LAMBDA n, w : Twice(k - Scale(w)) = n * Below(k - Scale(w)))
IsDyadic(r, s, rm, m, k) == IsFraction(r, s, rm, m, 1, k)

------------------------------------------------------------------------------

(* |a| >= |b|, both finite: the sum in units of 2^k.  A b that is far      *)
(* below the last place of a counts as a smaller one.                      *)
SumFrom(x, y, same, s, r, rm) ==
    LET d == Scale(x) - Scale(y)
        far == d > 8
        k == IF far THEN Scale(x) - 8 ELSE Scale(y)
        big == Significand(x) * Pow2(Scale(x) - k)
        small == IF far THEN (IF y = 0 THEN 0 ELSE 1) ELSE Significand(y)
    IN IsDyadic(r, s, rm, IF same THEN big + small ELSE big - small, k)
IsSum(r, a, b, rm) ==
    LET same == SignOf(a) = SignOf(b)
    IN IF isnan_sf(a) \/ isnan_sf(b) \/ (IsInfinite(a) /\ b = Negate(a)) THEN r = F_QNAN
       ELSE IF IsInfinite(a) THEN r = a
       ELSE IF IsInfinite(b) THEN r = b
       ELSE IF b = Negate(a) THEN r = Signed0(IF rm = RM_RDN THEN 1 ELSE 0)
       ELSE IF IsZero(a) /\ IsZero(b) THEN r = a
       ELSE IF AbsOf(a) >= AbsOf(b) THEN SumFrom(AbsOf(a), AbsOf(b), same, SignOf(a), r, rm)
       ELSE SumFrom(AbsOf(b), AbsOf(a), same, SignOf(b), r, rm)

IsProduct(r, a, b, rm) ==
    LET s == Xor(SignOf(a), SignOf(b))
        x == AbsOf(a)
        y == AbsOf(b)
    IN IF isnan_sf(a) \/ isnan_sf(b) \/ {x, y} = {0, Infinity} THEN r = F_QNAN
       ELSE IF Infinity \in {x, y} THEN r = SignedInfinity(s)
       ELSE IF 0 \in {x, y} THEN r = Signed0(s)
       ELSE IsDyadic(r, s, rm, Significand(x) * Significand(y), Scale(x) + Scale(y) - Unit)

IsQuotient(r, a, b, rm) ==
    LET s == Xor(SignOf(a), SignOf(b))
        x == AbsOf(a)
        y == AbsOf(b)
    IN IF isnan_sf(a) \/ isnan_sf(b) \/ (x = y /\ x \in {0, Infinity}) THEN r = F_QNAN
       ELSE IF x = Infinity \/ y = 0 THEN r = SignedInfinity(s)
       ELSE IF x = 0 \/ y = Infinity THEN r = Signed0(s)
       ELSE IsFraction(r, s, rm, Significand(x), Significand(y), Scale(x) - Scale(y) + Unit)

(* Twice the root is n units in the last place of w: four times the square *)
(* is n * n units of their square.                                         *)
IsRoot(r, a, rm) ==
    LET k(w) == Scale(AbsOf(a)) + Unit - 2 * Scale(w)
        num(d) == 4 * Significand(AbsOf(a)) * Pow2(IF d < 0 THEN 0 ELSE IF d > 20 THEN 20 ELSE d)
        den(d) == Pow2(IF d > 0 THEN 0 ELSE IF d < -20 THEN 20 ELSE -d)
    IN IF IsZero(a) THEN r = a
       ELSE IF isnan_sf(a) \/ SignOf(a) = 1 THEN r = F_QNAN
       ELSE IF IsInfinite(a) THEN r = a
       ELSE /\ SignOf(r) = 0
            /\ IsRounded(r, 0, rm, LAMBDA n, w : num(k(w)) \div den(k(w)) >= n * n,
                         LAMBDA n, w : num(k(w)) = n * n * den(k(w)))

(* The remainder has the sign of a and the magnitude x mod y.              *)
RECURSIVE PowerMod(_, _)
PowerMod(k, n) == IF k = 0 THEN 1 % n ELSE (2 * PowerMod(k - 1, n)) % n
ModMag(x, y) ==       \* in units of 2^min(Scale(x), Scale(y))
    IF Scale(x) >= Scale(y)
    THEN (Significand(x) * PowerMod(Scale(x) - Scale(y), Significand(y))) % Significand(y)
    ELSE Significand(x)
IsRemainder(r, a, b) ==
    LET k == Scale(AbsOf(a)) - Scale(AbsOf(b))
    IN IF isnan_sf(a) \/ isnan_sf(b) \/ IsInfinite(a) \/ IsZero(b) THEN r = F_QNAN
       ELSE IF IsInfinite(b) \/ k < 0 THEN r = a
       ELSE IsDyadic(r, SignOf(a), RM_RTZ, ModMag(AbsOf(a), AbsOf(b)), Scale(AbsOf(b)))
            /\ (r # Signed0(SignOf(a)) \/ ModMag(AbsOf(a), AbsOf(b)) = 0)

IsOrder(c, a, b) ==
    LET v(x) == IF SignOf(x) = 1 THEN -AbsOf(x) ELSE AbsOf(x)     \* in the same order
    IN c = IF isnan_sf(a) \/ isnan_sf(b) THEN 2
           ELSE IF v(a) < v(b) THEN -1 ELSE IF v(a) > v(b) THEN 1 ELSE 0

(* Magnitude num / den rounded to an integer.                              *)
ToInteger(num, den, s, rm) ==
    LET q == num \div den
        half == 2 * (num % den) - den
        nearest == half > 0 \/ (half = 0 /\ (CASE rm = RM_RNE -> q % 2 = 1
                                               [] rm = RM_RMM -> TRUE
                                               [] rm = RM_RMMUP -> s = 0
                                               [] OTHER -> FALSE))
    IN IF rm \in {RM_RNE, RM_RMM, RM_RMMUP} THEN (IF nearest THEN q + 1 ELSE q)
       ELSE IF Up(s, rm) /\ num % den # 0 THEN q + 1 ELSE q
(* The integer for |a|.  Less than a quarter counts as a quarter; numbers  *)
(* that have no fraction are integers, cut off at 2^20.                    *)
IntegerPart(a, rm) ==
    LET k == Scale(AbsOf(a)) - Unit
    IN IF k >= 0 THEN Significand(AbsOf(a)) * Pow2(IF k > 20 THEN 20 ELSE k)
       ELSE IF k < -(MANT_SIZE + 3)
            THEN ToInteger(IF IsZero(a) THEN 0 ELSE 1, 4, SignOf(a), rm)
       ELSE ToInteger(Significand(AbsOf(a)), Pow2(-k), SignOf(a), rm)

(* i, a word of w bits, is a as an integer: rounded, or the bound it is    *)
(* beyond; what is not a number counts as plus infinity.                   *)
IsInteger(i, a, rm, w, uns) ==
    LET least == IF uns THEN 0 ELSE -Pow2(w - 1)
        most == IF uns THEN Pow2(w) - 1 ELSE Pow2(w - 1) - 1
        n == IF SignOf(a) = 1 THEN -IntegerPart(a, rm) ELSE IntegerPart(a, rm)
        bounded == IF isnan_sf(a) THEN most
                   ELSE IF IsInfinite(a) THEN (IF SignOf(a) = 1 THEN least ELSE most)
                   ELSE IF n < least THEN least ELSE IF n > most THEN most ELSE n
    IN i = bounded % Pow2(w)

(* r is the integer that the word i of w bits stands for, rounded.         *)
IsFromInteger(r, i, rm, w, uns) ==
    IF i = 0 THEN r = 0
    ELSE IF ~uns /\ i >= Pow2(w - 1) THEN IsDyadic(r, 1, rm, Pow2(w) - i, Unit)
    ELSE IsDyadic(r, 0, rm, i, Unit)

(* r is the integer nearest to a in direction rm, as a number of the same  *)
(* format and with the sign of a.                                          *)
IsRint(r, a, rm) ==
    IF ~IsFinite(a) \/ Scale(AbsOf(a)) >= Unit THEN r = a
    ELSE IF IntegerPart(a, rm) = 0 THEN r = Signed0(SignOf(a))
    ELSE /\ IsDyadic(r, SignOf(a), RM_RTZ, IntegerPart(a, rm), Unit)
         /\ IntegerPart(r, RM_RUP) = IntegerPart(r, RM_RDN)
=============================================================================
