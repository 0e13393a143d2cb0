------------------------------ MODULE Binary64 ------------------------------
(***************************************************************************)
(* The arithmetic of the `double` values the interpreter computes with, in *)
(* miniature.  A value is a sign and a magnitude field, as in the binary64 *)
(* bit pattern: the field counts quanta (fractions of one) up to           *)
(* MaximumMagnitude, and the two codes above it spell infinity and NaN, so *)
(* that overflow, signed zeros, fractions, infinities and NaN all exist.   *)
(* A product or quotient that falls between two quanta is truncated.  Two  *)
(* bytes store a value, so unaligned stores into an arena can tear one.    *)
(***************************************************************************)
EXTENDS Integers

CONSTANTS
    QuantaPerUnit,      \* magnitude of 1.0
    MaximumMagnitude,   \* largest finite magnitude
    ByteCardinality     \* values of one byte

ASSUME FormatAssumption ==
    /\ QuantaPerUnit \in Nat \ {0}
    /\ MaximumMagnitude \in Nat
    /\ QuantaPerUnit <= MaximumMagnitude
    /\ ByteCardinality \in Nat \ {0}

\* Every bit pattern is a double and every double has one: two bytes hold
\* the sign and the finite, infinite and NaN codes exactly.
ASSUME EncodingAssumption ==
    ByteCardinality * ByteCardinality = 2 * (MaximumMagnitude + 3)

InfinityCode == MaximumMagnitude + 1
NaNCode == MaximumMagnitude + 2

Double == [negative : BOOLEAN, magnitude : 0..NaNCode]
Byte == 0..(ByteCardinality - 1)

\* sizeof(double), the width of a value stored in an arena.
VALUE_WIDTH == 2

NotANumber == [negative |-> FALSE, magnitude |-> NaNCode]
Infinity(negative) == [negative |-> negative, magnitude |-> InfinityCode]
Finite(negative, quanta) == [negative |-> negative, magnitude |-> quanta]
Zero == Finite(FALSE, 0)
One == Finite(FALSE, QuantaPerUnit)

IsNaN(x) == x.magnitude = NaNCode
IsInfinite(x) == x.magnitude = InfinityCode
IsFinite(x) == x.magnitude <= MaximumMagnitude
IsZero(x) == x.magnitude = 0

\* The exact result of an operation, overflowing to infinity.
Rounded(negative, quanta) ==
    IF quanta > MaximumMagnitude THEN Infinity(negative) ELSE Finite(negative, quanta)

\* The order of the extended reals; meaningless for NaN.
Signed(x) == IF x.negative THEN -x.magnitude ELSE x.magnitude

Natural(n) == Rounded(FALSE, n * QuantaPerUnit)

-----------------------------------------------------------------------------

Add(x, y) ==
    IF IsNaN(x) \/ IsNaN(y) THEN NotANumber
    ELSE IF IsInfinite(x) /\ IsInfinite(y) /\ x.negative # y.negative THEN NotANumber
    ELSE IF IsInfinite(x) THEN x
    ELSE IF IsInfinite(y) THEN y
    ELSE LET sum == Signed(x) + Signed(y)
         IN  IF sum = 0 THEN Finite(x.negative /\ y.negative, 0)
             ELSE IF sum < 0 THEN Rounded(TRUE, -sum) ELSE Rounded(FALSE, sum)

Negated(x) == [negative |-> ~x.negative, magnitude |-> x.magnitude]
Subtract(x, y) == Add(x, Negated(y))

\* The sign of a product or a quotient; the magnitude is combined separately.
Signs(x, y) == x.negative # y.negative

Multiply(x, y) ==
    IF IsNaN(x) \/ IsNaN(y) THEN NotANumber
    ELSE IF IsInfinite(x) \/ IsInfinite(y)
    THEN IF IsZero(x) \/ IsZero(y) THEN NotANumber ELSE Infinity(Signs(x, y))
    ELSE Rounded(Signs(x, y), (x.magnitude * y.magnitude) \div QuantaPerUnit)

Divide(x, y) ==
    IF IsNaN(x) \/ IsNaN(y) THEN NotANumber
    ELSE IF (IsInfinite(x) /\ IsInfinite(y)) \/ (IsZero(x) /\ IsZero(y)) THEN NotANumber
    ELSE IF IsInfinite(x) \/ IsZero(y) THEN Infinity(Signs(x, y))
    ELSE IF IsInfinite(y) THEN Finite(Signs(x, y), 0)
    ELSE Rounded(Signs(x, y), (x.magnitude * QuantaPerUnit) \div y.magnitude)

\* fmod: the sign of the dividend, NaN for an infinite dividend or a zero divisor.
Modulo(x, y) ==
    IF IsNaN(x) \/ IsNaN(y) \/ IsInfinite(x) \/ IsZero(y) THEN NotANumber
    ELSE IF IsInfinite(y) THEN x
    ELSE Finite(x.negative, x.magnitude % y.magnitude)

\* A comparison with a NaN operand is false; the two zeros are equal.
Truth(holds) == IF holds THEN One ELSE Zero
Ordered(x, y) == ~IsNaN(x) /\ ~IsNaN(y)

-----------------------------------------------------------------------------

PrimitiveOperations ==
    {"plus", "minus", "multiply", "divide", "modulo", "greater", "less", "equal"}

llfpl_primitive_apply(operation, x, y) ==
    IF operation = "plus" THEN Add(x, y)
    ELSE IF operation = "minus" THEN Subtract(x, y)
    ELSE IF operation = "multiply" THEN Multiply(x, y)
    ELSE IF operation = "divide" THEN Divide(x, y)
    ELSE IF operation = "modulo" THEN Modulo(x, y)
    ELSE Truth(/\ Ordered(x, y)
               /\ \/ operation = "greater" /\ Signed(x) > Signed(y)
                  \/ operation = "less" /\ Signed(x) < Signed(y)
                  \/ operation = "equal" /\ Signed(x) = Signed(y))

llfpl_primitive_nominal_latency(operation) ==
    IF operation \in {"plus", "minus"} THEN 3
    ELSE IF operation = "multiply" THEN 4
    ELSE IF operation = "divide" THEN 14
    ELSE IF operation = "modulo" THEN 20
    ELSE 1

-----------------------------------------------------------------------------

\* The bytes of a value, low byte first, with the sign in the high byte.
Encoding(x) ==
    LET pattern == x.magnitude + IF x.negative THEN MaximumMagnitude + 3 ELSE 0
    IN  <<pattern % ByteCardinality, pattern \div ByteCardinality>>

Decoding(low, high) ==
    LET pattern == low + high * ByteCardinality
    IN  IF pattern > NaNCode
        THEN [negative |-> TRUE, magnitude |-> pattern - (MaximumMagnitude + 3)]
        ELSE [negative |-> FALSE, magnitude |-> pattern]

=============================================================================
