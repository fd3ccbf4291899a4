----------------------------- MODULE NumberValues -----------------------------
(***************************************************************************)
(* Numbers as values of the engine (mquickjs.c, with 64-bit words): an     *)
(* integer of SHORT_SIZE bits in the lower half of the word, a double      *)
(* whose exponent is near 0 rotated into the word, the one minus zero, or  *)
(* a double on the heap; and the arithmetic of the interpreter loop on     *)
(* them, whose fast paths must give what the doubles give.                 *)
(*                                                                         *)
(* A behaviour is an expression being evaluated: val is its value, last    *)
(* the operation and the operands it came from, ops their number.          *)
(***************************************************************************)
EXTENDS Integers

CONSTANTS MANT_SIZE, EXP_SIZE,   \* double: 52 and 11
          SHORT_SIZE,            \* bits of a short integer: 31
          BYTE_MAX,              \* 255
          Literals,              \* doubles that occur in the program, as words
          Others,                \* the literals that are second operands
          Clamps,                \* <<min, max, offset>> given to JS_ToInt32Clamp
          MaxOps                 \* bound: operations of an expression

VARIABLES val, last, ops
vars == <<val, last, ops>>

D == INSTANCE Rounding

Pow2(n) == D!Pow2(n)
INT_SIZE == SHORT_SIZE + 1                       \* an int: 32
SHORTINT_MIN == -Pow2(SHORT_SIZE - 1)
SHORTINT_MAX == Pow2(SHORT_SIZE - 1) - 1
BIAS == D!EXP_MASK \div 2

(* Every int and unsigned int is exact as a double; shift counts are taken *)
(* modulo a power of 2.                                                    *)
NumberAssumption == /\ SHORT_SIZE \in Nat /\ SHORT_SIZE >= 2
                           /\ \E k \in 1 .. 6 : INT_SIZE = Pow2(k)
                           /\ INT_SIZE <= MANT_SIZE + 1
                           /\ EXP_SIZE >= 5 /\ BIAS > INT_SIZE + MANT_SIZE

ShortRange == SHORTINT_MIN .. SHORTINT_MAX
ToSigned(i) == IF i >= Pow2(INT_SIZE - 1) THEN i - Pow2(INT_SIZE) ELSE i   \* of INT_SIZE bits
IntWord(i) == i % Pow2(INT_SIZE)

(* Values.  high is the upper half of the word of an integer: 1 if all its *)
(* bits are set.                                                           *)
IntValue(n, high) == [tag |-> "int", n |-> n, high |-> high]
Short(bits) == [tag |-> "short_float", bits |-> bits]
Heap(w) == [tag |-> "float64", w |-> w]
MinusZero == [tag |-> "minus_zero"]
IsInt(v) == v.tag = "int"
IsShort(v) == v.tag = "short_float"

(* The int is converted to a word of twice the size: sign extension.       *)
JS_NewShortInt(n) == IntValue(n, IF n < 0 THEN 1 ELSE 0)
(* Operations that store (uint32_t)r.                                      *)
ZeroExtended(n) == IntValue(n, 0)

------------------------------------------------------------------------------

(* The exponent of a short float has three bits less than that of a        *)
(* double; subtracting the addend leaves the tag in their place.           *)
SHORT_EXP_SIZE == EXP_SIZE - 3
JS_TAG_SHORT_FLOAT == 5
EXP_MIN == BIAS - (Pow2(SHORT_EXP_SIZE - 1) - 1)
ADDEND == (EXP_MIN - JS_TAG_SHORT_FLOAT * Pow2(SHORT_EXP_SIZE)) * Pow2(MANT_SIZE)
rotl(a, n) == ((a * Pow2(n)) % Pow2(D!F_SIZE)) + (a \div Pow2(D!F_SIZE - n))
js_to_short_float(w) == Short(rotl((w - ADDEND) % Pow2(D!F_SIZE), 4))
js_get_short_float(v) == (rotl(v.bits, D!F_SIZE - 4) + ADDEND) % Pow2(D!F_SIZE)

Power(k) == D!pack_sf(0, BIAS + k, 0)
ShortFloatRange(w) == /\ D!AbsOf(w) >= Power(-(Pow2(SHORT_EXP_SIZE - 1) - 1))
                      /\ D!AbsOf(w) <= Power(Pow2(SHORT_EXP_SIZE - 1))

__JS_NewFloat64(w) ==
    IF w = D!SIGN_MASK THEN MinusZero
    ELSE IF ShortFloatRange(w) THEN js_to_short_float(w)
    ELSE Heap(w)

IntAsDouble(n) == D!internal_cvt_i_sf(n % Pow2(2 * INT_SIZE), D!RM_RNE, 2 * INT_SIZE, FALSE, 1)
TruncInt(w) == ToSigned(D!internal_cvt_sf_i(w, D!RM_RTZ, INT_SIZE, FALSE))

(* With a floating point unit: in range and the same bits as the integer.  *)
JS_NewFloat64(w) ==
    IF /\ D!cmp_sf(w, IntAsDouble(SHORTINT_MIN)) \in {0, 1}
       /\ D!cmp_sf(w, IntAsDouble(SHORTINT_MAX)) \in {0, -1}
       /\ w = IntAsDouble(TruncInt(w))
    THEN JS_NewShortInt(TruncInt(w))
    ELSE __JS_NewFloat64(w)

(* With USE_SOFTFLOAT: on the bits.                                        *)
SoftInteger(w, m, shift) ==
    IF m % Pow2(shift) # 0 THEN __JS_NewFloat64(w)
    ELSE IF D!SignOf(w) = 1 THEN JS_NewShortInt(-(m \div Pow2(shift)))
    ELSE JS_NewShortInt(m \div Pow2(shift))
JS_NewFloat64_soft(w) ==
    LET e == D!ExpOf(w)
    IN IF w = 0 THEN JS_NewShortInt(0)
       ELSE IF e >= BIAS /\ e <= BIAS + SHORT_SIZE - 2
            THEN SoftInteger(w, D!MantOf(w) + Pow2(MANT_SIZE), MANT_SIZE - (e - BIAS))
       ELSE IF w = IntAsDouble(SHORTINT_MIN) THEN JS_NewShortInt(SHORTINT_MIN)
       ELSE __JS_NewFloat64(w)

JS_NewInt64(n) == IF n \in ShortRange THEN JS_NewShortInt(n) ELSE __JS_NewFloat64(IntAsDouble(n))

(* float_result of the interpreter loop: it does not look for integers.    *)
FloatResult(w) ==
    IF ShortFloatRange(w) THEN js_to_short_float(w)
    ELSE IF D!IsZero(w) THEN (IF w # 0 THEN MinusZero ELSE JS_NewShortInt(0))
    ELSE Heap(w)

(* JS_ToNumber of a number.                                                *)
JS_ToNumber(v) == CASE IsInt(v) -> IntAsDouble(v.n)
                    [] IsShort(v) -> js_get_short_float(v)
                    [] v.tag = "float64" -> v.w
                    [] v.tag = "minus_zero" -> D!SIGN_MASK

------------------------------------------------------------------------------

(* JS_ToInt32 is modulo 2^INT_SIZE, JS_ToInt32Sat goes to the bounds.      *)
IntModulo(w, e) ==
    IF e > BIAS + INT_SIZE - 2 + MANT_SIZE + 1 THEN 0
    ELSE LET v == ((D!MantOf(w) + Pow2(MANT_SIZE)) * Pow2(e - BIAS - MANT_SIZE + INT_SIZE))
                      % Pow2(2 * INT_SIZE)
             r == v \div Pow2(INT_SIZE)
         IN ToSigned(IntWord(IF D!SignOf(w) = 1 THEN -r ELSE r))
IntSaturated(w) ==
    IF D!isnan_sf(w) THEN 0
    ELSE IF D!SignOf(w) = 1 THEN -Pow2(INT_SIZE - 1) ELSE Pow2(INT_SIZE - 1) - 1
DoubleToInt32(w, sat) ==
    IF D!ExpOf(w) <= BIAS + INT_SIZE - 2 THEN TruncInt(w)
    ELSE IF sat THEN IntSaturated(w) ELSE IntModulo(w, D!ExpOf(w))
JS_ToInt32Internal(v, sat) == IF IsInt(v) THEN v.n ELSE DoubleToInt32(JS_ToNumber(v), sat)
JS_ToInt32(v) == JS_ToInt32Internal(v, FALSE)
JS_ToUint32(v) == IntWord(JS_ToInt32(v))

ClampInt(i, min, max, offset) ==
    IF i < min THEN (IF i + offset < min THEN min ELSE i + offset)
    ELSE IF i > max THEN max ELSE i
JS_ToInt32Clamp(v, c) == ClampInt(JS_ToInt32Internal(v, TRUE), c[1], c[2], c[3])

JS_ToUint8Clamp(v) ==
    IF IsInt(v) THEN (IF v.n < 0 THEN 0 ELSE IF v.n > BYTE_MAX THEN BYTE_MAX ELSE v.n)
    ELSE LET d == JS_ToNumber(v)
         IN IF D!lt_sf(d, 0) \/ D!isnan_sf(d) THEN 0
            ELSE IF D!lt_sf(IntAsDouble(BYTE_MAX), d) THEN BYTE_MAX
            ELSE D!internal_cvt_sf_i(d, D!RM_RNE, INT_SIZE, FALSE)

------------------------------------------------------------------------------

(* Arithmetic of doubles, by the unit or by libm.                          *)
DoubleOp(op, a, b) ==
    CASE op = "add" -> D!add_sf(a, b, D!RM_RNE, 1)
      [] op = "sub" -> D!sub_sf(a, b, D!RM_RNE, 1)
      [] op = "mul" -> D!mul_sf(a, b, D!RM_RNE, TRUE)
      [] op = "div" -> D!div_sf(a, b, D!RM_RNE, TRUE)
      [] op = "mod" -> D!fmod_sf(a, b, 1)
(* js_add_slow for numbers, js_binary_arith_slow.                          *)
js_binary_arith_slow(op, a, b) == JS_NewFloat64(DoubleOp(op, JS_ToNumber(a), JS_ToNumber(b)))

BothInt(a, b) == IsInt(a) /\ IsInt(b)
BothShort(a, b) == IsShort(a) /\ IsShort(b)
(* OP_add, OP_sub, OP_mul.                                                 *)
ShortOr(op, a, b) ==
    IF BothShort(a, b)
    THEN FloatResult(DoubleOp(op, js_get_short_float(a), js_get_short_float(b)))
    ELSE js_binary_arith_slow(op, a, b)
OP_add_sub(op, a, b) ==
    IF BothInt(a, b)
    THEN LET r == IF op = "add" THEN a.n + b.n ELSE a.n - b.n
         IN IF r \in ShortRange THEN ZeroExtended(r) ELSE js_binary_arith_slow(op, a, b)
    ELSE ShortOr(op, a, b)
(* Mutant: the product of 0 and a negative integer is the integer 0.       *)
OP_mul_plusZero(a, b) ==
    IF BothInt(a, b)
    THEN IF a.n * b.n \notin ShortRange THEN FloatResult(IntAsDouble(a.n * b.n))
         ELSE ZeroExtended(a.n * b.n)
    ELSE ShortOr("mul", a, b)
OP_mul(a, b) ==
    IF BothInt(a, b)
    THEN IF a.n * b.n \notin ShortRange THEN FloatResult(IntAsDouble(a.n * b.n))
         ELSE IF a.n * b.n = 0 /\ (a.n < 0 \/ b.n < 0) THEN MinusZero
         ELSE ZeroExtended(a.n * b.n)
    ELSE ShortOr("mul", a, b)
OP_div(a, b) == js_binary_arith_slow("div", a, b)
OP_mod(a, b) ==
    IF BothInt(a, b) /\ a.n >= 0 /\ b.n > 0 THEN JS_NewShortInt(a.n % b.n)
    ELSE js_binary_arith_slow("mod", a, b)

(* OP_neg, OP_inc, OP_dec.                                                 *)
OP_neg(a) ==
    IF IsInt(a)
    THEN IF a.n = 0 THEN MinusZero
         ELSE IF a.n = SHORTINT_MIN THEN FloatResult(IntAsDouble(-SHORTINT_MIN))
         ELSE JS_NewShortInt(-a.n)
    ELSE IF IsShort(a) THEN FloatResult(D!Negate(js_get_short_float(a)))
    ELSE JS_NewFloat64(D!Negate(JS_ToNumber(a)))
OP_inc_dec(a, delta) ==
    IF IsInt(a) /\ a.n + delta \in ShortRange THEN JS_NewShortInt(a.n + delta)
    ELSE JS_NewFloat64(DoubleOp("add", JS_ToNumber(a), IntAsDouble(delta)))

(* OP_post_inc, OP_post_dec: one expression for both, d + 2 - 1 or         *)
(* d + 0 - 1, each step of which rounds; and the old number, that is left  *)
(* below the new one.                                                      *)
PostIncFast(a, delta) == IsInt(a) /\ a.n + delta \in ShortRange
js_post_inc_slow(a, delta) ==
    LET d == DoubleOp("add", JS_ToNumber(a), IntAsDouble(1 + delta))
    IN JS_NewFloat64(DoubleOp("sub", d, IntAsDouble(1)))
OP_post_inc_dec(a, delta) ==
    IF PostIncFast(a, delta) THEN JS_NewShortInt(a.n + delta) ELSE js_post_inc_slow(a, delta)
PostIncKeeps(a, delta) == IF PostIncFast(a, delta) THEN a ELSE JS_NewFloat64(JS_ToNumber(a))

(* Bitwise operations: on whole words if both are integers, so on the      *)
(* upper halves as well.                                                   *)
Bit(i, k) == (i \div Pow2(k)) % 2
BitOp(op, x, y) == CASE op = "and" -> x * y
                     [] op = "or" -> x + y - x * y
                     [] op = "xor" -> (x + y) % 2
RECURSIVE BitsOp(_, _, _, _)
BitsOp(op, i, j, k) ==
    IF k = INT_SIZE THEN 0
    ELSE BitOp(op, Bit(i, k), Bit(j, k)) * Pow2(k) + BitsOp(op, i, j, k + 1)
IntBits(op, i, j) == ToSigned(BitsOp(op, IntWord(i), IntWord(j), 0))
OP_bits(op, a, b) ==
    IF BothInt(a, b) THEN IntValue(IntBits(op, a.n, b.n), BitOp(op, a.high, b.high))
    ELSE JS_NewInt64(IntBits(op, JS_ToInt32(a), JS_ToInt32(b)))
OP_not(a) == IF IsInt(a) THEN IntValue(-a.n - 1, 1 - a.high) ELSE JS_NewInt64(-JS_ToInt32(a) - 1)

(* Shifts: the count is taken modulo the size of an int.                   *)
Count(j) == j % INT_SIZE
Shl(i, j) == ToSigned(IntWord(i * Pow2(Count(j))))
Shr(i, j) == IntWord(i) \div Pow2(Count(j))
Sar(i, j) == i \div Pow2(Count(j))
Shifted(op, i, j) == CASE op = "shl" -> Shl(i, j) [] op = "shr" -> Shr(i, j)
                       [] op = "sar" -> Sar(i, j)
OP_shift(op, a, b) ==
    IF BothInt(a, b)
    THEN LET r == Shifted(op, a.n, b.n)
         IN IF r \in ShortRange THEN JS_NewShortInt(r) ELSE FloatResult(IntAsDouble(r))
    ELSE JS_NewInt64(Shifted(op, JS_ToInt32(a), JS_ToUint32(b)))

(* OP_CMP and the slow comparisons.                                        *)
Compare(a, b) == IF BothInt(a, b) THEN (IF a.n < b.n THEN -1 ELSE IF a.n > b.n THEN 1 ELSE 0)
                 ELSE D!cmp_sf(JS_ToNumber(a), JS_ToNumber(b))

(* JS_ToPropertyKey: an integer is a key as it is, other numbers go by     *)
(* their text, which is that of an integer if they are one.                *)
IsShortInteger(w) == IsInt(JS_NewFloat64(w)) \/ D!IsZero(w)
JS_ToPropertyKey(v) ==
    IF IsInt(v) THEN v
    ELSE IF IsShortInteger(JS_ToNumber(v)) THEN JS_NewShortInt(TruncInt(JS_ToNumber(v)))
    ELSE [tag |-> "text", w |-> JS_ToNumber(v)]

------------------------------------------------------------------------------

Literal(w, soft) == IF soft THEN JS_NewFloat64_soft(w) ELSE JS_NewFloat64(w)
NoOp == [op |-> "literal"]
Init == /\ \E w \in Literals, soft \in BOOLEAN : val = Literal(w, soft)
        /\ last = NoOp /\ ops = 0

Becomes(op, b, r) == val' = r /\ last' = [op |-> op, a |-> val, b |-> b] /\ ops' = ops + 1
OtherValues == {JS_NewFloat64(w) : w \in Others}

AddSub == \E op \in {"add", "sub"}, b \in OtherValues : Becomes(op, b, OP_add_sub(op, val, b))
Mul == \E b \in OtherValues : Becomes("mul", b, OP_mul(val, b))
Div == \E b \in OtherValues : Becomes("div", b, OP_div(val, b))
Mod == \E b \in OtherValues : Becomes("mod", b, OP_mod(val, b))
Neg == Becomes("neg", val, OP_neg(val))
(* last.b is the value that is kept.                                       *)
PostIncDec == \E delta \in {-1, 1} :
    Becomes(IF delta = 1 THEN "post_inc" ELSE "post_dec",
            PostIncKeeps(val, delta), OP_post_inc_dec(val, delta))
IncDec == \E delta \in {-1, 1} : Becomes("add", JS_NewShortInt(delta), OP_inc_dec(val, delta))
Bits == \E op \in {"and", "or", "xor"}, b \in OtherValues : Becomes(op, b, OP_bits(op, val, b))
Not == Becomes("not", val, OP_not(val))
Shift == \E op \in {"shl", "shr", "sar"}, b \in OtherValues :
             Becomes(op, b, OP_shift(op, val, b))

Next == /\ ops < MaxOps
        /\ \/ AddSub \/ Mul \/ Div \/ Mod \/ Neg \/ IncDec \/ PostIncDec \/ Bits \/ Not \/ Shift
Spec == Init /\ [][Next]_vars

------------------------------------------------------------------------------

(* What the language asks: the operation on the doubles, or on the         *)
(* integers they are modulo 2^INT_SIZE.                                    *)
Modulo(v) ==
    LET w == JS_ToNumber(v)
        k == D!Scale(D!AbsOf(w)) - D!Unit
        whole == IF ~D!IsFinite(w) THEN 0
                 ELSE IF k >= 0
                 THEN D!Significand(D!AbsOf(w)) * Pow2(IF k > INT_SIZE THEN INT_SIZE ELSE k)
                 ELSE D!IntegerPart(w, D!RM_RTZ)
    IN ToSigned(IntWord(IF D!SignOf(w) = 1 THEN -whole ELSE whole))
Expected ==
    CASE last.op = "neg" -> D!Negate(JS_ToNumber(last.a))
      [] last.op = "not" -> IntAsDouble(-Modulo(last.a) - 1)
      [] last.op \in {"and", "or", "xor"} ->
             IntAsDouble(IntBits(last.op, Modulo(last.a), Modulo(last.b)))
      [] last.op \in {"shl", "shr", "sar"} ->
             IntAsDouble(Shifted(last.op, Modulo(last.a), IntWord(Modulo(last.b))))
      [] last.op = "post_inc" -> DoubleOp("add", JS_ToNumber(last.a), IntAsDouble(1))
      [] last.op = "post_dec" -> DoubleOp("sub", JS_ToNumber(last.a), IntAsDouble(1))
      [] OTHER -> DoubleOp(last.op, JS_ToNumber(last.a), JS_ToNumber(last.b))
SameDouble(v, w) == D!AbsOf(v) = D!AbsOf(w) /\ (D!isnan_sf(v) \/ v = w)

TypeOK ==
    \/ IsInt(val) /\ val.n \in ShortRange /\ val.high \in {0, 1}
    \/ IsShort(val) /\ val.bits \in D!FWord /\ val.bits % 8 = JS_TAG_SHORT_FLOAT
    \/ val.tag = "float64" /\ val.w \in D!FWord
    \/ val = MinusZero

(* Adding 2 to the number rounds.                                          *)
PlusTwoRounds(w) ==
    /\ ~D!isnan_sf(w)
    /\ LET two == IntAsDouble(2) IN D!cmp_sf(DoubleOp("sub", DoubleOp("add", w, two), two), w) # 0

(* Every path of an operation - integers, short floats, doubles - gives    *)
(* the number the operation on doubles gives, to the sign of zero, and no  *)
(* conversion to a value changes a number, nor does ++ or -- the one it    *)
(* keeps.  Left out is the result of a postfix ++ where d + 2 rounds: that *)
(* is another number than d + 1 then (0.7++ is not 1.7).                   *)
PathsAgree ==
    /\ \/ last = NoOp
       \/ last.op = "post_inc" /\ PlusTwoRounds(JS_ToNumber(last.a))
       \/ SameDouble(JS_ToNumber(val), Expected)
    /\ last.op \in {"post_inc", "post_dec"} =>
         SameDouble(JS_ToNumber(last.b), JS_ToNumber(last.a))
    /\ \A soft \in BOOLEAN : JS_ToNumber(Literal(JS_ToNumber(val), soft)) = JS_ToNumber(val)

(* Conversions to integers, modulo, saturating, clamped to a range or to a *)
(* byte, and comparisons are those of the number, however it is held.      *)
IntegersAgree ==
    LET w == JS_ToNumber(val)
        n == D!IntegerPart(w, D!RM_RTZ)
        huge == ~D!IsFinite(w) \/ n >= Pow2(INT_SIZE - 1)
        sat == IF D!isnan_sf(w) THEN 0
               ELSE IF D!SignOf(w) = 1 THEN (IF huge THEN -Pow2(INT_SIZE - 1) ELSE -n)
               ELSE IF huge THEN Pow2(INT_SIZE - 1) - 1 ELSE n
        byte == IF D!isnan_sf(w) \/ D!SignOf(w) = 1 THEN 0
                ELSE IF huge \/ D!IntegerPart(w, D!RM_RNE) > BYTE_MAX THEN BYTE_MAX
                ELSE D!IntegerPart(w, D!RM_RNE)
    IN /\ JS_ToInt32(val) = Modulo(val)
       /\ JS_ToInt32Internal(val, TRUE) = sat
       /\ \A c \in Clamps : JS_ToInt32Clamp(val, c) = ClampInt(sat, c[1], c[2], c[3])
       /\ JS_ToUint8Clamp(val) = byte
       /\ \A b \in OtherValues : D!IsOrder(Compare(val, b), w, JS_ToNumber(b))

(* Numbers that are equal are the same property key, whatever computed     *)
(* them.                                                                   *)
OneKeyPerNumber == JS_ToPropertyKey(val) = JS_ToPropertyKey(JS_NewFloat64(JS_ToNumber(val)))
=============================================================================
