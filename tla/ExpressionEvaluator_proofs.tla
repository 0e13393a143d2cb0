--------------------- MODULE ExpressionEvaluator_proofs ---------------------
(***************************************************************************)
(* Type correctness of the evaluator and of the arithmetic it reduces to,  *)
(* and the fact its source leaves to a comment: the spill stack cannot be  *)
(* exhausted.  Then what these are needed for, in four parts that build on *)
(* each other: unwinding after a failure, the values that are returned and *)
(* printed, the operands that stay live, and that what is computed is what *)
(* the text means.                                                         *)
(***************************************************************************)
EXTENDS EvaluatorMeaning, FiniteSetTheorems, SequenceTheorems, WellFoundedInduction, TLAPS

-----------------------------------------------------------------------------
(* The operations of Binary64 are total on Double, and the two bytes of a  *)
(* value determine it.                                                     *)

\* Overflow is caught: a rounded magnitude is always a double.
LEMMA RoundedType ==
    ASSUME NEW negative \in BOOLEAN, NEW quanta \in Nat
    PROVE  Rounded(negative, quanta) \in Double
BY FormatAssumption DEF Rounded, Infinity, Finite, Double, InfinityCode, NaNCode

\* The constant doubles, and the infinities and zeros of either sign, are doubles.
LEMMA ConstantTypes ==
    /\ NotANumber \in Double
    /\ Zero \in Double
    /\ One \in Double
    /\ \A negative \in BOOLEAN : Infinity(negative) \in Double /\ Finite(negative, 0) \in Double
BY FormatAssumption
   DEF NotANumber, Zero, One, Infinity, Finite, Double, InfinityCode, NaNCode

\* Natural numbers are closed under multiplication.
LEMMA ProductNat ==
    ASSUME NEW m \in Nat, NEW n \in Nat
    PROVE  m * n \in Nat
OBVIOUS

\* A quotient by a positive number is a natural number.
LEMMA QuotientNat ==
    ASSUME NEW m \in Nat, NEW n \in Nat \ {0}
    PROVE  /\ m \div n \in Nat
           /\ m % n \in 0..(n - 1)
OBVIOUS

\* A sum of doubles is a double.
LEMMA AddType ==
    ASSUME NEW x \in Double, NEW y \in Double
    PROVE  Add(x, y) \in Double
<1> DEFINE sum == Signed(x) + Signed(y)
<1>1. sum \in Int
  BY FormatAssumption DEF Signed, Double, NaNCode
<1> HIDE DEF sum
<1>2. sum < 0 => Rounded(TRUE, -sum) \in Double
  <2>1. sum < 0 => -sum \in Nat
    BY <1>1
  <2>2. QED BY <2>1, RoundedType
<1>3. ~(sum < 0) => Rounded(FALSE, sum) \in Double
  <2>1. ~(sum < 0) => sum \in Nat
    BY <1>1
  <2>2. QED BY <2>1, RoundedType
<1>4. Finite(x.negative /\ y.negative, 0) \in Double
  BY FormatAssumption DEF Finite, Double, NaNCode
<1>5. QED
  BY <1>2, <1>3, <1>4, ConstantTypes, Zenon DEF Add, sum

\* Changing the sign of a double gives a double, so a difference is one.
LEMMA SubtractType ==
    ASSUME NEW x \in Double, NEW y \in Double
    PROVE  Subtract(x, y) \in Double
<1>1. Negated(y) \in Double
  BY DEF Double, Negated
<1>2. QED
  BY <1>1, AddType DEF Subtract

\* The sign of a product or of a quotient is a sign.
LEMMA SignsType ==
    ASSUME NEW x \in Double, NEW y \in Double
    PROVE  /\ Infinity(Signs(x, y)) \in Double
           /\ Finite(Signs(x, y), 0) \in Double
           /\ \A quanta \in Nat : Rounded(Signs(x, y), quanta) \in Double
<1>1. Signs(x, y) \in BOOLEAN
  BY DEF Signs
<1>2. QED
  BY <1>1, ConstantTypes, RoundedType

\* A product of doubles is a double.
LEMMA MultiplyType ==
    ASSUME NEW x \in Double, NEW y \in Double
    PROVE  Multiply(x, y) \in Double
<1>1. x.magnitude * y.magnitude \in Nat
  <2>1. x.magnitude \in Nat /\ y.magnitude \in Nat
    BY FormatAssumption DEF Double, NaNCode
  <2>2. QED BY <2>1, ProductNat
<1>2. (x.magnitude * y.magnitude) \div QuantaPerUnit \in Nat
  BY <1>1, FormatAssumption, QuotientNat
<1>3. QED
  BY <1>2, SignsType, ConstantTypes, Zenon DEF Multiply

\* A quotient of doubles is a double: a zero divisor is caught before the division.
LEMMA DivideType ==
    ASSUME NEW x \in Double, NEW y \in Double
    PROVE  Divide(x, y) \in Double
<1>1. x.magnitude \in Nat /\ y.magnitude \in Nat
  BY FormatAssumption DEF Double, NaNCode
<1>2. x.magnitude * QuantaPerUnit \in Nat
  BY <1>1, FormatAssumption, ProductNat
<1>3. ~IsZero(y) => (x.magnitude * QuantaPerUnit) \div y.magnitude \in Nat
  BY <1>1, <1>2, QuotientNat DEF IsZero
<1>4. QED
  BY <1>3, SignsType, ConstantTypes, Zenon DEF Divide

\* A remainder of doubles is a double.
LEMMA ModuloType ==
    ASSUME NEW x \in Double, NEW y \in Double
    PROVE  Modulo(x, y) \in Double
<1>1. x.magnitude \in Nat /\ y.magnitude \in 0..NaNCode
  BY FormatAssumption DEF Double, NaNCode
<1>2. ~IsZero(y) => x.magnitude % y.magnitude \in 0..NaNCode
  <2>1. SUFFICES ASSUME ~IsZero(y) PROVE x.magnitude % y.magnitude \in 0..NaNCode
    OBVIOUS
  <2>2. y.magnitude \in Nat \ {0} /\ NaNCode \in Nat
    BY <1>1, <2>1, FormatAssumption DEF IsZero, NaNCode
  <2>3. x.magnitude % y.magnitude \in 0..(y.magnitude - 1)
    BY <1>1, <2>2, QuotientNat
  <2>4. QED BY <1>1, <2>2, <2>3
<1>3. ~IsZero(y) => Finite(x.negative, x.magnitude % y.magnitude) \in Double
  BY <1>2 DEF Finite, Double
<1>4. QED
  BY <1>3, ConstantTypes, Zenon DEF Modulo

\* Every primitive returns a double for every pair of doubles: a reduction has
\* no failing case.
THEOREM PrimitiveTotal ==
    ASSUME NEW operation \in PrimitiveOperations, NEW x \in Double, NEW y \in Double
    PROVE  llfpl_primitive_apply(operation, x, y) \in Double
BY AddType, SubtractType, MultiplyType, DivideType, ModuloType, ConstantTypes, Zenon
   DEF llfpl_primitive_apply, Truth

\* Every iteration index is converted to a double.
LEMMA NaturalType ==
    ASSUME NEW n \in Nat
    PROVE  Natural(n) \in Double
<1>1. n * QuantaPerUnit \in Nat
  BY FormatAssumption, ProductNat
<1>2. QED
  BY <1>1, RoundedType DEF Natural

\* A pattern below the square of the byte cardinality has a byte quotient.
LEMMA PatternBytes ==
    ASSUME NEW pattern \in Nat, pattern < ByteCardinality * ByteCardinality
    PROVE  /\ (pattern % ByteCardinality) \in Byte
           /\ pattern \div ByteCardinality \in Byte
           /\ pattern = (pattern % ByteCardinality) + (pattern \div ByteCardinality) * ByteCardinality
<1>1. /\ pattern \div ByteCardinality \in Nat
      /\ pattern % ByteCardinality \in 0..(ByteCardinality - 1)
  BY FormatAssumption, QuotientNat
<1>2. pattern = (pattern % ByteCardinality) + (pattern \div ByteCardinality) * ByteCardinality
  BY FormatAssumption
<1>3. pattern \div ByteCardinality < ByteCardinality
  <2> DEFINE q == pattern \div ByteCardinality
  <2>1. SUFFICES ASSUME q >= ByteCardinality PROVE FALSE
    BY <1>1, FormatAssumption
  <2>2. q \in Nat
    BY <1>1
  <2> HIDE DEF q
  <2>3. q * ByteCardinality >= ByteCardinality * ByteCardinality
    BY <2>1, <2>2, FormatAssumption
  <2>4. QED
    BY <1>1, <1>2, <2>2, <2>3, FormatAssumption DEF q
<1>4. QED
  BY <1>1, <1>2, <1>3, FormatAssumption DEF Byte

Pattern(x) == x.magnitude + IF x.negative THEN MaximumMagnitude + 3 ELSE 0

\* The bit pattern of a double fits in two bytes.
LEMMA PatternRange ==
    ASSUME NEW x \in Double
    PROVE  Pattern(x) \in Nat /\ Pattern(x) < ByteCardinality * ByteCardinality
<1>1. Pattern(x) \in Nat /\ Pattern(x) < 2 * (MaximumMagnitude + 3)
  BY FormatAssumption DEF Pattern, Double, NaNCode
<1>2. QED
  BY <1>1, EncodingAssumption

\* The two bytes of a double are bytes.
LEMMA EncodingType ==
    ASSUME NEW x \in Double
    PROVE  Encoding(x)[1] \in Byte /\ Encoding(x)[2] \in Byte
BY PatternRange, PatternBytes DEF Encoding, Pattern

\* Any two bytes are a double: a torn value is still a value.
LEMMA DecodingType ==
    ASSUME NEW low \in Byte, NEW high \in Byte
    PROVE  Decoding(low, high) \in Double
<1> DEFINE pattern == low + high * ByteCardinality
<1>1. high * ByteCardinality \in Nat
  BY FormatAssumption, ProductNat DEF Byte
<1>2. high * ByteCardinality <= (ByteCardinality - 1) * ByteCardinality
  BY FormatAssumption DEF Byte
<1>3. (ByteCardinality - 1) * ByteCardinality = ByteCardinality * ByteCardinality - ByteCardinality
  BY FormatAssumption
<1>4. ByteCardinality * ByteCardinality \in Nat
  BY FormatAssumption, ProductNat
<1>5. pattern \in Nat /\ pattern < ByteCardinality * ByteCardinality
  BY <1>1, <1>2, <1>3, <1>4, FormatAssumption DEF Byte
<1> HIDE DEF pattern
<1>6. pattern < 2 * (MaximumMagnitude + 3)
  BY <1>5, EncodingAssumption
<1>7. QED
  BY <1>5, <1>6, FormatAssumption DEF Decoding, pattern, Double, NaNCode

\* A value stored into an arena and loaded from the same offset is the same
\* value, bit for bit: the signed zeros, the infinities and NaN included.
THEOREM EncodingRoundTrip ==
    ASSUME NEW x \in Double
    PROVE  Decoding(Encoding(x)[1], Encoding(x)[2]) = x
<1>1. /\ Encoding(x)[1] = Pattern(x) % ByteCardinality
      /\ Encoding(x)[2] = Pattern(x) \div ByteCardinality
  BY DEF Encoding, Pattern
<1>2. Encoding(x)[1] + Encoding(x)[2] * ByteCardinality = Pattern(x)
  BY <1>1, PatternRange, PatternBytes
<1>3. Decoding(Encoding(x)[1], Encoding(x)[2]) =
         IF Pattern(x) > NaNCode
         THEN [negative |-> TRUE, magnitude |-> Pattern(x) - (MaximumMagnitude + 3)]
         ELSE [negative |-> FALSE, magnitude |-> Pattern(x)]
  BY <1>2 DEF Decoding
<1>4. x = [negative |-> x.negative, magnitude |-> x.magnitude]
      /\ x.magnitude \in 0..NaNCode /\ x.negative \in BOOLEAN
  BY DEF Double
<1>5. CASE x.negative
  <2>1. Pattern(x) = x.magnitude + (MaximumMagnitude + 3)
    BY <1>5 DEF Pattern
  <2>2. Pattern(x) > NaNCode /\ Pattern(x) - (MaximumMagnitude + 3) = x.magnitude
    BY <1>4, <2>1, FormatAssumption DEF NaNCode
  <2>3. QED BY <1>3, <1>4, <1>5, <2>2
<1>6. CASE ~x.negative
  <2>1. Pattern(x) = x.magnitude
    BY <1>4, <1>6, FormatAssumption DEF Pattern, NaNCode
  <2>2. ~(Pattern(x) > NaNCode)
    BY <1>4, <2>1, FormatAssumption DEF NaNCode
  <2>3. QED BY <1>3, <1>4, <1>6, <2>1, <2>2
<1>7. QED
  BY <1>5, <1>6

-----------------------------------------------------------------------------
(* The inductive invariant. *)

AtRest == {"directive", "open", "close", "report", "halted"}
InActivation == {"dispatch", "form", "iterate", "leave"}

\* The counter is the height of the stack, which is empty between expressions.
Stacked ==
    /\ current_evaluation_depth = Len(activations)
    /\ current_evaluation_depth <= MaximumEvaluationDepth
    /\ control \in AtRest => activations = <<>>
    /\ control \in InActivation => activations # <<>>

\* Destinations never decrease towards the top of the stack, and exactly those
\* beyond the bank are spilled, so that the spilled activations are the topmost
\* Len(spill_stack_values) of the stack.
Spills ==
    /\ Len(spill_stack_values) <= Len(activations)
    /\ \A i \in 1..Len(activations) :
          /\ activations[i].spilled <=> i > Len(activations) - Len(spill_stack_values)
          /\ activations[i].spilled <=> activations[i].destination >= RegisterCount
    /\ \A i, j \in 1..Len(activations) :
          i <= j => activations[i].destination <= activations[j].destination
    /\ control = "evaluate" =>
          \A i \in 1..Len(activations) : activations[i].destination <= callee.destination

\* A form has obtained the operands of the steps it has passed.
WellFormed(a) ==
    /\ a.form \in PrimitiveOperations =>
          /\ a.stage > 2 => Len(a.operands) >= 1
          /\ a.stage > 4 => Len(a.operands) >= 2
    /\ a.form = "Branch" =>
          /\ a.stage > 2 => Len(a.operands) >= 1
          /\ a.stage > 4 => Len(a.operands) >= 2
          /\ a.stage > 6 => Len(a.operands) >= 3
    /\ a.form = "Loop" => (a.stage > 2 => Len(a.operands) >= 1)
    /\ a.form = "write_offset" =>
          /\ a.stage > 2 => a.name \in DOMAIN ArenaCapacities
          /\ a.stage > 4 => Len(a.operands) >= 1
          /\ a.stage > 6 => Len(a.operands) >= 2
    /\ a.form = "read_offset" =>
          /\ a.stage > 2 => a.name \in DOMAIN ArenaCapacities
          /\ a.stage > 4 => Len(a.operands) >= 1

\* What a form may rely on when an evaluation it asked for returns.
Resumable(a) ==
    /\ a.form \in {"write_offset", "read_offset"} => a.stage > 2
    /\ a.form = "Loop" /\ a.stage > 5 => a.name \in DOMAIN Templates

Formed ==
    /\ \A i \in 1..Len(activations) : WellFormed(activations[i])
    /\ \A i \in 1..Len(activations) :
          i < Len(activations) \/ control \in {"evaluate", "return"} => Resumable(activations[i])
    /\ control = "dispatch" => Active.stage = 1 /\ Active.form = ""
    /\ control = "iterate" =>
          Active.form = "Loop" /\ Active.stage > 5 /\ Active.name \in DOMAIN Templates

IInv == TypeOK /\ Stacked /\ Spills /\ Formed

-----------------------------------------------------------------------------
(* Stacks. *)

\* Replacing the top of a stack.
LEMMA ReplaceTop ==
    ASSUME NEW S, NEW s \in Seq(S), s # <<>>, NEW e \in S
    PROVE  LET t == [s EXCEPT ![Len(s)] = e]
           IN  /\ t \in Seq(S)
               /\ Len(t) = Len(s)
               /\ t # <<>>
               /\ t[Len(s)] = e
               /\ \A i \in 1..Len(s) : i # Len(s) => t[i] = s[i]
<1>1. Len(s) \in 1..Len(s)
  BY EmptySeq, LenProperties
<1>2. QED
  BY <1>1, ExceptSeq, EmptySeq

\* Popping a stack.
LEMMA PopTop ==
    ASSUME NEW S, NEW s \in Seq(S), s # <<>>
    PROVE  /\ Last(s) \in S
           /\ Last(s) = s[Len(s)]
           /\ Len(s) \in Nat \ {0}
           /\ Front(s) \in Seq(S)
           /\ Len(Front(s)) = Len(s) - 1
           /\ \A i \in 1..(Len(s) - 1) : Front(s)[i] = s[i]
<1>1. Len(s) \in Nat \ {0}
  BY EmptySeq
<1>2. \A i \in 1..(Len(s) - 1) : s[i] \in S
  BY <1>1, ElementOfSeq
<1>3. /\ Front(s) \in Seq(S)
      /\ Len(Front(s)) = IF 1 <= Len(s) - 1 THEN (Len(s) - 1) - 1 + 1 ELSE 0
      /\ \A i \in 1..((Len(s) - 1) - 1 + 1) : Front(s)[i] = s[1 + i - 1]
  BY <1>1, <1>2, SubSeqProperties DEF Front
<1>4. Last(s) \in S /\ Last(s) = s[Len(s)]
  BY <1>1, ElementOfSeq DEF Last
<1>5. Len(Front(s)) = Len(s) - 1
  <2>1. Len(Front(s)) = IF 1 <= Len(s) - 1 THEN (Len(s) - 1) - 1 + 1 ELSE 0
    BY <1>3
  <2> DEFINE n == Len(s)
             m == Len(Front(s))
  <2>2. m = IF 1 <= n - 1 THEN (n - 1) - 1 + 1 ELSE 0
    BY <2>1
  <2>3. n \in Nat \ {0}
    BY <1>1
  <2> HIDE DEF n, m
  <2>4. m = n - 1
    BY <2>2, <2>3
  <2>5. QED BY <2>4 DEF n, m
<1>6. \A i \in 1..(Len(s) - 1) : Front(s)[i] = s[i]
  BY <1>1, <1>3
<1>7. QED
  BY <1>1, <1>3, <1>4, <1>5, <1>6

\* The front of any sequence, the empty one included, is a sequence.
LEMMA FrontType ==
    ASSUME NEW S, NEW s \in Seq(S)
    PROVE  Front(s) \in Seq(S)
<1>1. Len(s) \in Nat /\ \A i \in 1..(Len(s) - 1) : s[i] \in S
  BY ElementOfSeq, LenProperties
<1>2. QED
  BY <1>1, SubSeqProperties DEF Front

\* Pushing onto a stack.
LEMMA PushTop ==
    ASSUME NEW S, NEW s \in Seq(S), NEW e \in S
    PROVE  /\ Append(s, e) \in Seq(S)
           /\ Len(Append(s, e)) = Len(s) + 1
           /\ Append(s, e) # <<>>
           /\ Append(s, e)[Len(s) + 1] = e
           /\ \A i \in 1..Len(s) : Append(s, e)[i] = s[i]
BY AppendProperties, LenProperties, EmptySeq

-----------------------------------------------------------------------------
(* What the parts of an action preserve. *)

\* The parts of an atom have the types of their fields.
LEMMA AtomTypes ==
    ASSUME NEW kind \in AtomKinds
    PROVE  Punctuation(kind) \in Atom
BY ConstantTypes DEF Punctuation, Atom

\* Whatever scanner is in use, it returns an atom.
LEMMA NextAtomsType ==
    ASSUME TypeOK
    PROVE  NextAtoms \subseteq Atom
<1>1. EndOfSource \in Atom
  BY AtomTypes DEF EndOfSource, AtomKinds
<1>2. CASE body_scanners = <<>>
  BY <1>1, <1>2, DeclarationAssumption, Zenon DEF NextAtoms
<1>3. CASE body_scanners # <<>>
  <2> DEFINE scanner == Last(body_scanners)
             body == Templates[scanner.template].body
  <2>1. scanner \in [template : DOMAIN Templates, position : Nat \ {0}]
    BY <1>3, PopTop DEF TypeOK
  <2>2. body \in Seq(Atom) /\ scanner.position \in Nat \ {0}
    BY <2>1, DeclarationAssumption
  <2>3. scanner.position <= Len(body) => body[scanner.position] \in Atom
    BY <2>2, ElementOfSeq, LenProperties
  <2> HIDE DEF scanner, body
  <2>4. NextAtoms = IF scanner.position <= Len(body) THEN {body[scanner.position]}
                    ELSE {EndOfSource}
    BY <1>3, Zenon DEF NextAtoms, scanner, body
  <2>5. QED BY <1>1, <2>3, <2>4
<1>4. QED BY <1>2, <1>3

\* Reading an atom keeps both scanners well typed.
LEMMA ConsumeType ==
    ASSUME TypeOK, NEW atom \in Atom, Consume(atom)
    PROVE  /\ text' \in Seq(Atom)
           /\ body_scanners' \in Seq([template : DOMAIN Templates, position : Nat \ {0}])
<1>1. CASE body_scanners = <<>>
  <2>1. text \in Seq(Atom) /\ text' = Append(text, atom) /\ body_scanners' = body_scanners
    BY <1>1 DEF TypeOK, Consume
  <2>2. QED BY <2>1, PushTop DEF TypeOK
<1>2. CASE body_scanners # <<>>
  <2> DEFINE S == [template : DOMAIN Templates, position : Nat \ {0}]
             top == body_scanners[Len(body_scanners)]
  <2>0. body_scanners \in Seq(S)
    BY DEF TypeOK
  <2> HIDE DEF S
  <2>1. top \in S
    BY <1>2, <2>0, PopTop
  <2>2. [top EXCEPT !.position = @ + 1] \in S
    BY <2>1 DEF S
  <2>3. body_scanners' = [body_scanners EXCEPT
           ![Len(body_scanners)] = [top EXCEPT !.position = @ + 1]]
    BY <1>2 DEF Consume
  <2>4. body_scanners' \in Seq(S)
    BY <1>2, <2>0, <2>2, <2>3, ReplaceTop
  <2>5. QED BY <1>2, <2>4 DEF TypeOK, Consume, S
<1>3. QED BY <1>1, <1>2

\* An expectation, met or not, keeps the scanners, the result and the error count
\* well typed, and continues at one of its two successors.
LEMMA ExpectAtomType ==
    ASSUME TypeOK, NEW kind, NEW accepted \in Controls, NEW rejected \in Controls,
           ExpectAtom(kind, accepted, rejected)
    PROVE  /\ text' \in Seq(Atom)
           /\ body_scanners' \in Seq([template : DOMAIN Templates, position : Nat \ {0}])
           /\ control' \in {accepted, rejected}
           /\ control' = accepted => result' = result \/ accepted = rejected
           /\ result' \in Double
           /\ reported_error_count' \in Nat
<1>1. CASE HasFailed /\ UNCHANGED scanner_vars /\ control' = rejected /\ result' = Zero
           /\ UNCHANGED reported_error_count
  BY <1>1, ConstantTypes DEF TypeOK, scanner_vars
<1>2. CASE \E atom \in NextAtoms :
             /\ Consume(atom)
             /\ IF atom.kind = kind
                THEN control' = accepted /\ UNCHANGED <<result, reported_error_count>>
                ELSE control' = rejected /\ result' = Zero /\ ReportError
  <2>1. PICK atom \in NextAtoms :
             /\ Consume(atom)
             /\ IF atom.kind = kind
                THEN control' = accepted /\ UNCHANGED <<result, reported_error_count>>
                ELSE control' = rejected /\ result' = Zero /\ ReportError
    BY <1>2
  <2>2. /\ text' \in Seq(Atom)
        /\ body_scanners' \in Seq([template : DOMAIN Templates, position : Nat \ {0}])
    BY <2>1, NextAtomsType, ConsumeType
  <2>3. result \in Double /\ reported_error_count \in Nat
    BY DEF TypeOK
  <2>4. QED BY <2>1, <2>2, <2>3, ConstantTypes DEF ReportError
<1>3. QED
  BY <1>1, <1>2 DEF ExpectAtom

\* Wrapping yields a register of the bank.
LEMMA RegisterTypes ==
    ASSUME NEW logical \in Nat
    PROVE  PhysicalRegister(logical) \in Registers
<1>1. RegisterCount \in Nat \ {0}
  BY EvaluatorAssumption
<1>2. QED
  BY <1>1, QuotientNat DEF PhysicalRegister, Registers

\* Writing a register keeps the bank and the bitmap within the register count.
LEMMA WriteRegisterType ==
    ASSUME TypeOK, NEW logical \in Nat, NEW value \in Double, WriteRegister(logical, value)
    PROVE  /\ register_values' \in [Registers -> Double]
           /\ dirty_register_mask' \subseteq Registers
BY RegisterTypes DEF TypeOK, WriteRegister

\* Nothing moves on the stacks, and control stays inside or outside it.
LEMMA StackKept ==
    ASSUME Stacked, Spills,
           UNCHANGED <<activations, spill_stack_values, current_evaluation_depth>>,
           control' \in AtRest => activations = <<>>,
           control' \in InActivation => activations # <<>>,
           control' = "evaluate" =>
              \A i \in 1..Len(activations) : activations[i].destination <= callee'.destination
    PROVE  Stacked' /\ Spills'
BY DEF Stacked, Spills

\* The topmost activation has the highest destination.
LEMMA TopDestination ==
    ASSUME TypeOK, Spills, activations # <<>>
    PROVE  /\ Active \in Activation
           /\ Active = activations[Len(activations)]
           /\ Len(activations) \in Nat \ {0}
           /\ \A i \in 1..Len(activations) : activations[i].destination <= Active.destination
<1>1. activations \in Seq(Activation)
  BY DEF TypeOK
<1>2. /\ Active \in Activation
      /\ Active = activations[Len(activations)]
      /\ Len(activations) \in Nat \ {0}
  BY <1>1, PopTop DEF Active
<1>3. QED
  BY <1>2 DEF Spills

\* The top is rewritten without moving its registers.
LEMMA TopRewritten ==
    ASSUME TypeOK, Stacked, Spills, activations # <<>>,
           NEW a \in Activation, UpdateActive(a),
           a.destination = Active.destination, a.spilled = Active.spilled,
           UNCHANGED <<spill_stack_values, current_evaluation_depth>>,
           control' \notin AtRest,
           control' = "evaluate" => callee'.destination = Active.destination
    PROVE  /\ activations' \in Seq(Activation)
           /\ Len(activations') = Len(activations)
           /\ activations' # <<>>
           /\ Active' = a
           /\ activations'[Len(activations)] = a
           /\ \A i \in 1..Len(activations) : i # Len(activations) => activations'[i] = activations[i]
           /\ Stacked' /\ Spills'
<1>1. activations \in Seq(Activation)
  BY DEF TypeOK
<1>2. /\ activations' \in Seq(Activation)
      /\ Len(activations') = Len(activations)
      /\ activations' # <<>>
      /\ activations'[Len(activations)] = a
      /\ \A i \in 1..Len(activations) : i # Len(activations) => activations'[i] = activations[i]
  BY <1>1, ReplaceTop DEF UpdateActive
<1>3. Active' = a
  BY <1>2 DEF Active, Last
<1>4. \A i \in 1..Len(activations) :
         /\ activations'[i].destination = activations[i].destination
         /\ activations'[i].spilled = activations[i].spilled
  BY <1>2, TopDestination
<1>5. Stacked'
  BY <1>2 DEF Stacked
<1>6. control' = "evaluate" =>
         \A i \in 1..Len(activations) : activations[i].destination <= callee'.destination
  BY TopDestination
<1>7. Spills'
  BY <1>2, <1>4, <1>6 DEF Spills
<1>8. QED
  BY <1>2, <1>3, <1>5, <1>7


\* The activations are as they were: only what control now relies on is new.
LEMMA FormedKept ==
    ASSUME TypeOK, Formed, UNCHANGED activations,
           control' # "dispatch",
           control' \in {"evaluate", "return"} =>
              \/ activations = <<>>
              \/ control \in {"evaluate", "return"}
              \/ Resumable(Active),
           control' = "iterate" =>
              Active.form = "Loop" /\ Active.stage > 5 /\ Active.name \in DOMAIN Templates
    PROVE  Formed'
<1>1. \A i \in 1..Len(activations) : WellFormed(activations'[i])
  BY DEF Formed, WellFormed
<1>2. \A i \in 1..Len(activations) :
         i < Len(activations) \/ control' \in {"evaluate", "return"}
            => Resumable(activations'[i])
  <2> SUFFICES ASSUME NEW i \in 1..Len(activations),
                      i < Len(activations) \/ control' \in {"evaluate", "return"}
               PROVE  Resumable(activations[i])
    OBVIOUS
  <2>1. CASE i < Len(activations)
    BY <2>1 DEF Formed
  <2>2. CASE i = Len(activations)
    <3>1. activations # <<>>
      BY <2>2, EmptySeq DEF TypeOK
    <3>2. Active = activations[i]
      BY <2>2 DEF Active, Last
    <3>3. QED
      BY <2>2, <3>1, <3>2 DEF Formed
  <2>3. QED
    BY <2>1, <2>2, LenProperties DEF TypeOK
<1>3. Active' = Active
  BY DEF Active
<1>4. QED
  BY <1>1, <1>2, <1>3 DEF Formed

-----------------------------------------------------------------------------
(* How an activation is rewritten. *)

\* The step after the one a form has reached.
LEMMA AdvancedType ==
    ASSUME Active \in Activation
    PROVE  /\ Advanced \in Activation
           /\ Advanced.stage = Active.stage + 1
           /\ Advanced.form = Active.form
           /\ Advanced.destination = Active.destination
           /\ Advanced.spilled = Active.spilled
           /\ Advanced.operands = Active.operands
           /\ Advanced.name = Active.name
<1> DEFINE stage == Active.stage + 1
<1>0. Active.stage \in Nat \ {0}
  BY DEF Activation
<1>1. stage \in Nat \ {0}
  BY <1>0
<1>2. Advanced = [Active EXCEPT !.stage = stage]
  BY DEF Advanced
<1> HIDE DEF stage
<1>3. Advanced \in Activation
  BY <1>1, <1>2 DEF Activation
<1>4. Advanced.stage = Active.stage + 1
  BY Zenon DEF Activation, Advanced
<1>5. Advanced.spilled = Active.spilled
  BY Zenon DEF Activation, Advanced
<1>6. /\ Advanced.form = Active.form
      /\ Advanced.destination = Active.destination
      /\ Advanced.operands = Active.operands
      /\ Advanced.name = Active.name
  BY Zenon DEF Activation, Advanced
<1>7. QED
  BY <1>3, <1>4, <1>5, <1>6

\* An operand is appended.
LEMMA OperandType ==
    ASSUME NEW x \in Activation, NEW operand \in Double
    PROVE  LET y == [x EXCEPT !.operands = Append(@, operand)]
           IN  /\ y \in Activation
               /\ y.operands = Append(x.operands, operand)
               /\ Len(y.operands) = Len(x.operands) + 1
               /\ y.spilled = x.spilled
               /\ y.stage = x.stage /\ y.form = x.form
               /\ y.destination = x.destination /\ y.name = x.name
<1> DEFINE operands == Append(x.operands, operand)
           y == [x EXCEPT !.operands = Append(@, operand)]
<1>0. x.operands \in Seq(Double)
  BY DEF Activation
<1>1. operands \in Seq(Double) /\ Len(operands) = Len(x.operands) + 1
  BY <1>0
<1>2. y = [x EXCEPT !.operands = operands]
  OBVIOUS
<1> HIDE DEF operands
<1>3. y \in Activation
  BY <1>1, <1>2 DEF Activation
<1>4. y.operands = operands
  BY <1>2, Zenon DEF Activation
<1>5. y.spilled = x.spilled
  BY <1>2, Zenon DEF Activation
<1>6. /\ y.stage = x.stage /\ y.form = x.form
      /\ y.destination = x.destination /\ y.name = x.name
  BY <1>2, Zenon DEF Activation
<1>7. QED
  BY <1>1, <1>3, <1>4, <1>5, <1>6 DEF operands

\* The name operand is recorded.
LEMMA NameType ==
    ASSUME NEW x \in Activation, NEW name \in Names \cup {""}
    PROVE  LET y == [x EXCEPT !.name = name]
           IN  /\ y \in Activation
               /\ y.name = name
               /\ y.spilled = x.spilled
               /\ y.stage = x.stage /\ y.form = x.form
               /\ y.destination = x.destination /\ y.operands = x.operands
<1> DEFINE y == [x EXCEPT !.name = name]
<1>3. y \in Activation
  BY DEF Activation
<1>4. y.name = name
  BY Zenon DEF Activation
<1>5. y.spilled = x.spilled
  BY Zenon DEF Activation
<1>6. /\ y.stage = x.stage /\ y.form = x.form
      /\ y.destination = x.destination /\ y.operands = x.operands
  BY Zenon DEF Activation
<1>7. QED
  BY <1>3, <1>4, <1>5, <1>6

\* The form is chosen.
LEMMA FormType ==
    ASSUME NEW x \in Activation, NEW form \in Names \cup {""}
    PROVE  LET y == [x EXCEPT !.form = form]
           IN  /\ y \in Activation
               /\ y.form = form
               /\ y.spilled = x.spilled
               /\ y.stage = x.stage /\ y.destination = x.destination
<1> DEFINE y == [x EXCEPT !.form = form]
<1>3. y \in Activation
  BY DEF Activation
<1>4. y.form = form
  BY Zenon DEF Activation
<1>5. y.spilled = x.spilled
  BY Zenon DEF Activation
<1>6. y.stage = x.stage /\ y.destination = x.destination
  BY Zenon DEF Activation
<1>7. QED
  BY <1>3, <1>4, <1>5, <1>6

\* An iteration is counted.
LEMMA IterationType ==
    ASSUME NEW x \in Activation
    PROVE  LET y == [x EXCEPT !.iteration = @ + 1]
           IN  /\ y \in Activation
               /\ y.spilled = x.spilled
               /\ y.stage = x.stage /\ y.form = x.form /\ y.name = x.name
               /\ y.destination = x.destination /\ y.operands = x.operands
<1> DEFINE iteration == x.iteration + 1
           y == [x EXCEPT !.iteration = @ + 1]
<1>0. x.iteration \in Nat
  BY DEF Activation
<1>1. iteration \in Nat
  BY <1>0
<1>2. y = [x EXCEPT !.iteration = iteration]
  OBVIOUS
<1> HIDE DEF iteration
<1>3. y \in Activation
  BY <1>1, <1>2 DEF Activation
<1>5. y.spilled = x.spilled
  BY <1>2, Zenon DEF Activation
<1>6. /\ y.stage = x.stage /\ y.form = x.form /\ y.name = x.name
      /\ y.destination = x.destination /\ y.operands = x.operands
  BY <1>2, Zenon DEF Activation
<1>7. QED
  BY <1>3, <1>5, <1>6

-----------------------------------------------------------------------------
(* The steps, one lemma each. *)

\* ReadDirective preserves the invariant.
LEMMA ReadDirectiveStep ==
    ASSUME IInv, ReadDirective
    PROVE  IInv'
<1> USE DEF IInv
<1>1. PICK atom \in NextAtoms :
         /\ Consume(atom)
         /\ control' \in {"halted", "open"}
         /\ reported_error_count' \in {reported_error_count, reported_error_count + 1}
  BY Zenon DEF ReadDirective, ReportError
<1>2. /\ text' \in Seq(Atom)
      /\ body_scanners' \in Seq([template : DOMAIN Templates, position : Nat \ {0}])
  BY <1>1, NextAtomsType, ConsumeType
<1>3. UNCHANGED <<callee, activations, result, register_values, spill_stack_values,
                  dirty_register_mask, silicon, retired_cycle_count,
                  current_evaluation_depth, arena_bytes, committed_values>>
  BY DEF ReadDirective, file_vars
<1>4. TypeOK'
  BY <1>1, <1>2, <1>3 DEF TypeOK, Controls
<1>5. activations = <<>>
  BY DEF Stacked, ReadDirective, AtRest
<1>6. Stacked' /\ Spills'
  BY <1>1, <1>3, <1>5, StackKept DEF AtRest, InActivation
<1>7. Formed'
  BY <1>1, <1>3, <1>5, FormedKept
<1>8. QED
  BY <1>4, <1>6, <1>7

\* BeginCommit preserves the invariant.
LEMMA BeginCommitStep ==
    ASSUME IInv, BeginCommit
    PROVE  IInv'
<1> USE DEF IInv
<1>1. /\ text' \in Seq(Atom)
      /\ body_scanners' \in Seq([template : DOMAIN Templates, position : Nat \ {0}])
      /\ control' \in {"evaluate", "halted"}
      /\ result' \in Double
      /\ reported_error_count' \in Nat
  BY ExpectAtomType DEF BeginCommit, Controls
<1>2. UNCHANGED <<activations, register_values, spill_stack_values,
                  dirty_register_mask, silicon, retired_cycle_count,
                  current_evaluation_depth, arena_bytes, committed_values>>
  BY DEF BeginCommit, file_vars
<1>3. callee' \in Call
  <2>1. NoFrame \in Frame
    BY EmptySeq DEF Frame, NoFrame
  <2>2. callee' = [destination |-> 0, frame |-> NoFrame]
    BY DEF BeginCommit
  <2>3. QED
    BY <2>1, <2>2 DEF Call
<1>4. TypeOK'
  BY <1>1, <1>2, <1>3 DEF TypeOK, Controls
<1>5. activations = <<>>
  BY DEF Stacked, BeginCommit, AtRest
<1>6. Stacked' /\ Spills'
  BY <1>1, <1>2, <1>5, StackKept DEF AtRest, InActivation
<1>7. Formed'
  BY <1>1, <1>2, <1>5, FormedKept
<1>8. QED
  BY <1>4, <1>6, <1>7

\* Synchronise preserves the invariant.
LEMMA SynchroniseStep ==
    ASSUME IInv, Synchronise
    PROVE  IInv'
<1> USE DEF IInv
<1>1. UNCHANGED <<text, body_scanners, callee, activations, result, register_values,
                  spill_stack_values, retired_cycle_count, current_evaluation_depth,
                  reported_error_count, arena_bytes, committed_values>>
  BY DEF Synchronise, scanner_vars
<1>2. control' = "close" /\ activations = <<>>
  BY DEF Synchronise
<1>3. silicon' \in [0..(SynchronisedRegisterCount - 1) -> Double]
  BY ConstantTypes DEF Synchronise, TypeOK
<1>4. dirty_register_mask' \subseteq Registers
  BY DEF Synchronise, TypeOK
<1>5. TypeOK'
  BY <1>1, <1>2, <1>3, <1>4 DEF TypeOK, Controls
<1>6. Stacked' /\ Spills'
  BY <1>1, <1>2, StackKept DEF AtRest, InActivation
<1>7. Formed'
  BY <1>1, <1>2, FormedKept
<1>8. QED
  BY <1>5, <1>6, <1>7

\* CloseCommit preserves the invariant.
LEMMA CloseCommitStep ==
    ASSUME IInv, CloseCommit
    PROVE  IInv'
<1> USE DEF IInv
<1>1. /\ text' \in Seq(Atom)
      /\ body_scanners' \in Seq([template : DOMAIN Templates, position : Nat \ {0}])
      /\ control' \in {"report", "halted"}
      /\ result' \in Double
      /\ reported_error_count' \in Nat
  BY ExpectAtomType DEF CloseCommit, Controls
<1>2. UNCHANGED <<callee, activations, register_values, spill_stack_values,
                  dirty_register_mask, silicon, retired_cycle_count,
                  current_evaluation_depth, arena_bytes, committed_values>>
  BY DEF CloseCommit, file_vars
<1>3. TypeOK'
  BY <1>1, <1>2 DEF TypeOK, Controls
<1>4. activations = <<>>
  BY DEF Stacked, CloseCommit, AtRest
<1>5. Stacked' /\ Spills'
  BY <1>1, <1>2, <1>4, StackKept DEF AtRest, InActivation
<1>6. Formed'
  BY <1>1, <1>2, <1>4, FormedKept
<1>7. QED
  BY <1>3, <1>5, <1>6

\* ReportCommit preserves the invariant.
LEMMA ReportCommitStep ==
    ASSUME IInv, ReportCommit
    PROVE  IInv'
<1> USE DEF IInv
<1>1. UNCHANGED <<text, body_scanners, callee, activations, register_values,
                  spill_stack_values, dirty_register_mask, silicon, retired_cycle_count,
                  current_evaluation_depth, reported_error_count, arena_bytes>>
  BY DEF ReportCommit, scanner_vars, file_vars
<1>2. /\ control' \in {"halted", "directive"}
      /\ result' \in Double
      /\ committed_values' \in Seq(Double)
  <2>1. CASE HasFailed
    BY <2>1 DEF ReportCommit, TypeOK
  <2>2. CASE ~HasFailed
    <3>1. Append(committed_values, result) \in Seq(Double)
      BY PushTop DEF TypeOK
    <3>2. QED
      BY <2>2, <3>1, ConstantTypes DEF ReportCommit
  <2>3. QED
    BY <2>1, <2>2
<1>3. TypeOK'
  BY <1>1, <1>2 DEF TypeOK, Controls
<1>4. activations = <<>>
  BY DEF Stacked, ReportCommit, AtRest
<1>5. Stacked' /\ Spills'
  BY <1>1, <1>2, <1>4, StackKept DEF AtRest, InActivation
<1>6. Formed'
  BY <1>1, <1>2, <1>4, FormedKept
<1>7. QED
  BY <1>3, <1>5, <1>6

\* RefuseEvaluation preserves the invariant.
LEMMA RefuseEvaluationStep ==
    ASSUME IInv, RefuseEvaluation
    PROVE  IInv'
<1> USE DEF IInv
<1>1. UNCHANGED <<text, body_scanners, callee, activations, register_values,
                  spill_stack_values, dirty_register_mask, silicon, retired_cycle_count,
                  current_evaluation_depth, arena_bytes, committed_values>>
  BY DEF RefuseEvaluation, scanner_vars, file_vars
<1>2. /\ control = "evaluate" /\ control' = "return"
      /\ result' \in Double
      /\ reported_error_count' \in Nat
  BY ConstantTypes DEF RefuseEvaluation, ReportError, TypeOK
<1>3. TypeOK'
  BY <1>1, <1>2 DEF TypeOK, Controls
<1>4. Stacked' /\ Spills'
  BY <1>1, <1>2, StackKept DEF AtRest, InActivation
<1>5. Formed'
  BY <1>1, <1>2, FormedKept
<1>6. QED
  BY <1>3, <1>4, <1>5

\* EnterActivation preserves the invariant.
LEMMA EnterActivationStep ==
    ASSUME IInv, EnterActivation
    PROVE  IInv'
<1> USE DEF IInv
<1> DEFINE d == callee.destination
           n == Len(activations)
           k == Len(spill_stack_values)
           a == [form |-> "", destination |-> d, spilled |-> ExceedsBank(d),
                 frame |-> callee.frame, stage |-> 1, operands |-> <<>>, name |-> "",
                 iteration |-> 0]
<1>1. UNCHANGED <<text, body_scanners, callee, result, register_values,
                  dirty_register_mask, silicon, retired_cycle_count,
                  reported_error_count, arena_bytes, committed_values>>
  BY DEF EnterActivation, scanner_vars
<1>2. /\ control = "evaluate" /\ control' = "dispatch"
      /\ activations' = Append(activations, a)
      /\ current_evaluation_depth' = current_evaluation_depth + 1
      /\ ~DepthReached
  BY DEF EnterActivation
<1>3. a \in Activation
  <2>1. callee \in Call
    BY DEF TypeOK
  <2>2. <<>> \in Seq(Double)
    BY EmptySeq
  <2>3. ExceedsBank(d) \in BOOLEAN
    BY DEF ExceedsBank
  <2>4. d \in Nat /\ callee.frame \in Frame
    BY <2>1 DEF Call
  <2> HIDE DEF d
  <2>5. QED
    BY <2>2, <2>3, <2>4 DEF Activation
<1>4. d \in Nat /\ n \in Nat /\ k \in Nat /\ RegisterCount \in Nat
  BY LenProperties, EvaluatorAssumption DEF TypeOK, Call
<1>old. activations \in Seq(Activation) /\ spill_stack_values \in Seq(Double)
  BY DEF TypeOK
<1> HIDE DEF a
<1>5. /\ activations' \in Seq(Activation)
      /\ Len(activations') = n + 1
      /\ activations' # <<>>
      /\ activations'[n + 1] = a
      /\ \A i \in 1..n : activations'[i] = activations[i]
  BY <1>2, <1>3, <1>old, PushTop
<1>6. a.destination = d /\ (a.spilled <=> d >= RegisterCount)
      /\ a.stage = 1 /\ a.form = ""
  BY DEF a, ExceedsBank
<1>7. /\ spill_stack_values' \in Seq(Double)
      /\ d >= RegisterCount => Len(spill_stack_values') = k + 1
      /\ d < RegisterCount => Len(spill_stack_values') = k
  <2>1. CASE ExceedsBank(d)
    <3>1. register_values[PhysicalRegister(d)] \in Double
      BY <1>4, RegisterTypes DEF TypeOK
    <3>2. spill_stack_values' = Append(spill_stack_values, register_values[PhysicalRegister(d)])
      BY <2>1 DEF EnterActivation
    <3>3. QED
      <4>1. /\ spill_stack_values' \in Seq(Double)
            /\ Len(spill_stack_values') = k + 1
        BY <3>1, <3>2, <1>old, PushTop
      <4>2. QED
        BY <4>1, <2>1, <1>4 DEF ExceedsBank
  <2>2. CASE ~ExceedsBank(d)
    BY <2>2, <1>4, <1>old DEF EnterActivation, ExceedsBank
  <2>3. QED
    BY <2>1, <2>2
<1>8. TypeOK'
  BY <1>1, <1>2, <1>5, <1>7 DEF TypeOK, Controls
<1>9. Stacked'
  BY <1>2, <1>4, <1>5, EvaluatorAssumption DEF Stacked, DepthReached, AtRest
<1>10. \A i \in 1..n : activations[i].destination <= d
  BY <1>2 DEF Spills
<1>11. d < RegisterCount => k = 0
  <2> SUFFICES ASSUME d < RegisterCount, k # 0
               PROVE  FALSE
    OBVIOUS
  <2>1. n \in 1..n
    BY <1>4 DEF Spills
  <2>2. activations[n].spilled
    BY <1>4, <2>1 DEF Spills
  <2>3. activations[n].destination >= RegisterCount /\ activations[n].destination <= d
    BY <1>10, <2>1, <2>2 DEF Spills
  <2>4. activations[n].destination \in Nat
    <3>1. activations[n] \in Activation
      BY <2>1, <1>old, ElementOfSeq
    <3>2. QED
      BY <3>1 DEF Activation
  <2>5. QED
    BY <1>4, <2>3, <2>4, EvaluatorAssumption
<1>12. /\ k <= n
       /\ \A i \in 1..n :
             /\ activations[i].spilled <=> i > n - k
             /\ activations[i].spilled <=> activations[i].destination >= RegisterCount
       /\ \A i, j \in 1..n : i <= j => activations[i].destination <= activations[j].destination
  BY DEF Spills
<1>13. Spills'
  <2> DEFINE m == Len(spill_stack_values')
  <2>0. IF d < RegisterCount THEN m = k /\ k = 0 ELSE m = k + 1
    BY <1>4, <1>7, <1>11
  <2> HIDE DEF n, k, d, m
  <2>1. m <= n + 1
    BY <1>4, <1>12, <2>0
  <2>2. \A i \in 1..(n + 1) :
          /\ activations'[i].spilled <=> i > (n + 1) - m
          /\ activations'[i].spilled <=> activations'[i].destination >= RegisterCount
    <3> SUFFICES ASSUME NEW i \in 1..(n + 1)
                 PROVE  /\ activations'[i].spilled <=> i > (n + 1) - m
                        /\ activations'[i].spilled <=> activations'[i].destination >= RegisterCount
      OBVIOUS
    <3>1. CASE i = n + 1
      <4>1. activations'[i] = a
        BY <3>1, <1>5
      <4>2. i > (n + 1) - m <=> d >= RegisterCount
        BY <3>1, <1>4, <2>0
      <4>3. QED
        BY <4>1, <4>2, <1>6
    <3>2. CASE i \in 1..n
      <4>1. activations'[i] = activations[i]
        BY <3>2, <1>5
      <4>2. i > n - k <=> i > (n + 1) - m
        BY <3>2, <1>4, <2>0, <1>12
      <4>3. QED
        BY <3>2, <4>1, <4>2, <1>12
    <3>3. QED
      BY <3>1, <3>2, <1>4
  <2>3. \A i, j \in 1..(n + 1) :
          i <= j => activations'[i].destination <= activations'[j].destination
    <3> SUFFICES ASSUME NEW i \in 1..(n + 1), NEW j \in 1..(n + 1), i <= j
                 PROVE  activations'[i].destination <= activations'[j].destination
      OBVIOUS
    <3>1. CASE j \in 1..n
      <4>1. i \in 1..n /\ activations'[i] = activations[i] /\ activations'[j] = activations[j]
        BY <3>1, <1>4, <1>5
      <4>2. QED
        BY <3>1, <4>1, <1>12
    <3>2. CASE j = n + 1
      <4>1. CASE i = n + 1
        <5>1. activations'[i].destination = d /\ activations'[j].destination = d
          BY <3>2, <4>1, <1>5, <1>6
        <5>2. QED
          BY <5>1, <1>4
      <4>2. CASE i \in 1..n
        BY <3>2, <4>2, <1>5, <1>6, <1>10
      <4>3. QED
        BY <4>1, <4>2, <1>4
    <3>3. QED
      BY <3>1, <3>2, <1>4
  <2>4. QED
    BY <1>2, <1>5, <2>1, <2>2, <2>3 DEF Spills, m
<1>14. Formed'
  <2>1. WellFormed(a)
    BY <1>6 DEF WellFormed, PrimitiveOperations
  <2>2. \A i \in 1..n : WellFormed(activations[i]) /\ Resumable(activations[i])
    BY <1>2 DEF Formed
  <2>3. Active' = a
    BY <1>5 DEF Active, Last
  <2>4. \A i \in 1..(n + 1) : WellFormed(activations'[i])
    BY <1>4, <1>5, <2>1, <2>2
  <2>5. \A i \in 1..(n + 1) : i < n + 1 => Resumable(activations'[i])
    BY <1>4, <1>5, <2>2
  <2>6. QED
    BY <1>2, <1>5, <1>6, <2>3, <2>4, <2>5 DEF Formed
<1>15. QED
  BY <1>8, <1>9, <1>13, <1>14

\* LeaveActivation preserves the invariant.
LEMMA LeaveActivationStep ==
    ASSUME IInv, LeaveActivation
    PROVE  IInv'
<1> USE DEF IInv
<1> DEFINE n == Len(activations)
           k == Len(spill_stack_values)
<1>1. UNCHANGED <<text, body_scanners, callee, result, silicon, retired_cycle_count,
                  reported_error_count, arena_bytes, committed_values>>
  BY DEF LeaveActivation, scanner_vars
<1>2. /\ control = "leave" /\ control' = "return"
      /\ activations' = Front(activations)
      /\ current_evaluation_depth' = current_evaluation_depth - 1
  BY DEF LeaveActivation
<1>3. activations # <<>>
  BY <1>2 DEF Stacked, InActivation
<1>4. n \in Nat \ {0} /\ k \in Nat
  BY <1>3, EmptySeq, LenProperties DEF TypeOK
<1>5. /\ activations' \in Seq(Activation)
      /\ Len(activations') = n - 1
      /\ \A i \in 1..(n - 1) : activations'[i] = activations[i]
  BY <1>2, <1>3, PopTop DEF TypeOK
<1>6. Active = activations[n] /\ Active \in Activation
  BY <1>3, TopDestination
<1>7. Active.spilled <=> k > 0
  BY <1>4, <1>6 DEF Spills
<1>8. /\ spill_stack_values' \in Seq(Double)
      /\ Len(spill_stack_values') = IF k > 0 THEN k - 1 ELSE 0
      /\ register_values' \in [Registers -> Double]
      /\ dirty_register_mask' \subseteq Registers
  <2>1. CASE k > 0
    <3>1. spill_stack_values # <<>>
      BY <2>1, EmptySeq
    <3>2. /\ WriteRegister(Active.destination, Last(spill_stack_values))
          /\ spill_stack_values' = Front(spill_stack_values)
      BY <1>7, <2>1, <3>1 DEF LeaveActivation
    <3>3. Last(spill_stack_values) \in Double /\ Active.destination \in Nat
      BY <1>6, <3>1, PopTop DEF TypeOK, Activation
    <3>4. /\ register_values' \in [Registers -> Double]
          /\ dirty_register_mask' \subseteq Registers
      BY <3>2, <3>3, WriteRegisterType
    <3>5. /\ spill_stack_values' \in Seq(Double)
          /\ Len(spill_stack_values') = k - 1
      BY <3>1, <3>2, PopTop DEF TypeOK
    <3>6. QED
      BY <2>1, <3>4, <3>5
  <2>2. CASE ~(k > 0)
    BY <1>4, <1>7, <2>2 DEF LeaveActivation, TypeOK
  <2>3. QED
    BY <2>1, <2>2
<1>9. TypeOK'
  <2>1. current_evaluation_depth' \in Nat
    BY <1>2, <1>4 DEF Stacked
  <2>2. QED
    BY <1>1, <1>2, <1>5, <1>8, <2>1 DEF TypeOK, Controls
<1>10. Stacked'
  BY <1>2, <1>4, <1>5, EvaluatorAssumption DEF Stacked, AtRest, InActivation
<1>11. Spills'
  <2> DEFINE m == Len(spill_stack_values')
  <2>0. m = IF k > 0 THEN k - 1 ELSE 0
    BY <1>8
  <2>old. /\ k <= n
          /\ \A i \in 1..n :
                /\ activations[i].spilled <=> i > n - k
                /\ activations[i].spilled <=> activations[i].destination >= RegisterCount
          /\ \A i, j \in 1..n : i <= j => activations[i].destination <= activations[j].destination
    BY DEF Spills
  <2> HIDE DEF n, k, m
  <2>1. m <= n - 1
    BY <1>4, <2>0, <2>old
  <2>2. \A i \in 1..(n - 1) : i \in 1..n /\ (i > n - k <=> i > (n - 1) - m)
    BY <1>4, <2>0, <2>old
  <2>3. \A i \in 1..(n - 1) :
          /\ activations'[i].spilled <=> i > (n - 1) - m
          /\ activations'[i].spilled <=> activations'[i].destination >= RegisterCount
    BY <1>5, <2>2, <2>old
  <2>4. \A i, j \in 1..(n - 1) :
          i <= j => activations'[i].destination <= activations'[j].destination
    BY <1>5, <2>2, <2>old
  <2>5. QED
    BY <1>2, <1>5, <2>1, <2>3, <2>4 DEF Spills, m
<1>12. Formed'
  <2>1. \A i \in 1..(n - 1) : WellFormed(activations[i]) /\ Resumable(activations[i])
    <3> SUFFICES ASSUME NEW i \in 1..(n - 1)
                 PROVE  WellFormed(activations[i]) /\ Resumable(activations[i])
      OBVIOUS
    <3>1. i \in 1..n /\ i < n
      BY <1>4
    <3>2. QED
      BY <3>1 DEF Formed
  <2>2. \A i \in 1..(n - 1) : WellFormed(activations'[i]) /\ Resumable(activations'[i])
    BY <1>5, <2>1
  <2>3. QED
    BY <1>2, <1>5, <2>2 DEF Formed
<1>13. QED
  BY <1>9, <1>10, <1>11, <1>12

\* While control is in an activation, that activation is the top of the stack.
LEMMA ActiveFormed ==
    ASSUME IInv, control \in InActivation \/ (control = "return" /\ activations # <<>>)
    PROVE  /\ activations # <<>>
           /\ Active \in Activation
           /\ WellFormed(Active)
           /\ control = "return" => Resumable(Active)
<1> USE DEF IInv
<1>1. activations # <<>>
  BY DEF Stacked
<1>2. /\ Active \in Activation
      /\ Active = activations[Len(activations)]
      /\ Len(activations) \in Nat \ {0}
  BY <1>1, TopDestination
<1>3. Len(activations) \in 1..Len(activations)
  BY <1>2
<1>4. WellFormed(activations[Len(activations)])
      /\ (control = "return" => Resumable(activations[Len(activations)]))
  BY <1>3 DEF Formed
<1>5. QED
  BY <1>1, <1>2, <1>4

\* The steps of each form.
LEMMA FormSteps ==
    /\ \A form \in PrimitiveOperations :
          Steps(form) = <<OPEN, "EVALUATE", SEPARATOR, "EVALUATE", CLOSE>>
    /\ Steps("Branch") = <<OPEN, "EVALUATE", SEPARATOR, "EVALUATE", SEPARATOR, "EVALUATE", CLOSE>>
    /\ Steps("Loop") = <<OPEN, "EVALUATE", SEPARATOR, "NAME", CLOSE>>
    /\ Steps("write_offset") =
          <<OPEN, "NAME", SEPARATOR, "EVALUATE", SEPARATOR, "EVALUATE", CLOSE>>
    /\ Steps("read_offset") = <<OPEN, "NAME", SEPARATOR, "EVALUATE", CLOSE>>
BY DEF Steps, PrimitiveOperations

\* Their numbers.
LEMMA StepCounts ==
    /\ \A form \in PrimitiveOperations : Len(Steps(form)) = 5
    /\ Len(Steps("Branch")) = 7
    /\ Len(Steps("Loop")) = 5
    /\ Len(Steps("write_offset")) = 7
    /\ Len(Steps("read_offset")) = 5
BY FormSteps

\* A form that has read its arguments has its operands.
LEMMA OperandsObtained ==
    ASSUME IInv, control = "form", ArgumentsRead
    PROVE  /\ Active.form \in PrimitiveOperations =>
                 Active.operands[1] \in Double /\ Active.operands[2] \in Double
           /\ Active.form = "Branch" =>
                 /\ Active.operands[1] \in Double /\ Active.operands[2] \in Double
                 /\ Active.operands[3] \in Double
           /\ Active.form = "Loop" => Active.operands[1] \in Double /\ Active.stage > 5
           /\ Active.form = "write_offset" =>
                 /\ Active.name \in DOMAIN ArenaCapacities
                 /\ Active.operands[1] \in Double /\ Active.operands[2] \in Double
           /\ Active.form = "read_offset" =>
                 Active.name \in DOMAIN ArenaCapacities /\ Active.operands[1] \in Double
<1> DEFINE a == Active
           ops == Active.operands
<1>1. a \in Activation /\ WellFormed(a)
  BY ActiveFormed DEF InActivation
<1>2. ops \in Seq(Double) /\ a.stage \in Nat
  BY <1>1 DEF Activation
<1>3. /\ Len(ops) \in Nat
      /\ \A i \in 1..Len(ops) : ops[i] \in Double
  BY <1>2, ElementOfSeq, LenProperties
<1>4. a.stage > Len(Steps(a.form))
  BY DEF ArgumentsRead
<1>5. CASE a.form \in PrimitiveOperations
  <2>1. a.stage > 5
    BY <1>4, <1>5, StepCounts
  <2>2. Len(ops) >= 2
    BY <1>1, <1>2, <1>5, <2>1 DEF WellFormed
  <2>3. QED
    BY <1>3, <1>5, <2>2 DEF PrimitiveOperations
<1>6. CASE a.form = "Branch"
  <2>1. a.stage > 7
    BY <1>4, <1>6, StepCounts, Zenon
  <2>2. Len(ops) >= 3
    BY <1>1, <1>2, <1>6, <2>1 DEF WellFormed
  <2>3. QED
    BY <1>3, <1>6, <2>2 DEF PrimitiveOperations
<1>7. CASE a.form = "Loop"
  <2>1. a.stage > 5
    BY <1>4, <1>7, StepCounts, Zenon
  <2>2. Len(ops) >= 1
    BY <1>1, <1>2, <1>7, <2>1 DEF WellFormed
  <2>3. QED
    BY <1>3, <1>7, <2>1, <2>2 DEF PrimitiveOperations
<1>8. CASE a.form = "write_offset"
  <2>1. a.stage > 7
    BY <1>4, <1>8, StepCounts, Zenon
  <2>2. Len(ops) >= 2 /\ a.name \in DOMAIN ArenaCapacities
    BY <1>1, <1>2, <1>8, <2>1 DEF WellFormed
  <2>3. QED
    BY <1>3, <1>8, <2>2 DEF PrimitiveOperations
<1>9. CASE a.form = "read_offset"
  <2>1. a.stage > 5
    BY <1>4, <1>9, StepCounts, Zenon
  <2>2. Len(ops) >= 1 /\ a.name \in DOMAIN ArenaCapacities
    BY <1>1, <1>2, <1>9, <2>1 DEF WellFormed
  <2>3. QED
    BY <1>3, <1>9, <2>2 DEF PrimitiveOperations
<1>10. QED
  BY <1>5, <1>6, <1>7, <1>8, <1>9

\* A handler concludes: the activation is about to be left as it is.
LEMMA Concluded ==
    ASSUME IInv, control \in InActivation, control' = "leave",
           UNCHANGED <<activations, spill_stack_values, current_evaluation_depth>>
    PROVE  Stacked' /\ Spills' /\ Formed'
<1> USE DEF IInv
<1>1. activations # <<>>
  BY DEF Stacked
<1>2. Stacked' /\ Spills'
  BY <1>1, StackKept DEF AtRest, InActivation
<1>3. Formed'
  BY FormedKept
<1>4. QED
  BY <1>2, <1>3

\* Publishing a double keeps the bank well typed and leads to the restoration.
LEMMA PublishType ==
    ASSUME TypeOK, Active \in Activation, NEW value \in Double, Publish(value)
    PROVE  /\ register_values' \in [Registers -> Double]
           /\ dirty_register_mask' \subseteq Registers
           /\ result' \in Double
           /\ control' = "leave"
<1>1. Active.destination \in Nat
  BY DEF Activation
<1>2. QED
  BY <1>1, WriteRegisterType DEF Publish

\* Abandoning an expression leaves the bank alone and leads to the restoration.
LEMMA FailType ==
    ASSUME TypeOK, Fail
    PROVE  /\ register_values' \in [Registers -> Double]
           /\ dirty_register_mask' \subseteq Registers
           /\ result' \in Double
           /\ control' = "leave"
BY ConstantTypes DEF Fail, TypeOK

\* Every operation has a natural cost.
LEMMA LatencyType ==
    \A operation : llfpl_primitive_nominal_latency(operation) \in Nat
BY DEF llfpl_primitive_nominal_latency

\* ApplyPrimitive preserves the invariant.
LEMMA ApplyPrimitiveStep ==
    ASSUME IInv, ApplyPrimitive
    PROVE  IInv'
<1> USE DEF IInv
<1>1. UNCHANGED <<text, body_scanners, callee, activations, spill_stack_values, silicon,
                  current_evaluation_depth, reported_error_count, arena_bytes,
                  committed_values>>
  BY DEF ApplyPrimitive, scanner_vars
<1>2. control = "form" /\ Active.form \in PrimitiveOperations /\ ArgumentsRead
  BY DEF ApplyPrimitive, Concluding
<1>3. Active \in Activation
  BY <1>2, ActiveFormed DEF InActivation
<1>4. llfpl_primitive_apply(Active.form, Active.operands[1], Active.operands[2]) \in Double
  BY <1>2, OperandsObtained, PrimitiveTotal
<1>5. /\ register_values' \in [Registers -> Double]
      /\ dirty_register_mask' \subseteq Registers
      /\ result' \in Double
      /\ control' = "leave"
  BY <1>3, <1>4, PublishType DEF ApplyPrimitive
<1>6. retired_cycle_count' \in Nat
  BY LatencyType DEF ApplyPrimitive, TypeOK
<1>7. TypeOK'
  BY <1>1, <1>5, <1>6 DEF TypeOK, Controls
<1>8. QED
  BY <1>1, <1>2, <1>5, <1>7, Concluded DEF InActivation

\* SelectBranch preserves the invariant.
LEMMA SelectBranchStep ==
    ASSUME IInv, SelectBranch
    PROVE  IInv'
<1> USE DEF IInv
<1>1. UNCHANGED <<text, body_scanners, callee, activations, spill_stack_values, silicon,
                  current_evaluation_depth, reported_error_count, arena_bytes,
                  committed_values>>
  BY DEF SelectBranch, scanner_vars
<1>2. control = "form" /\ Active.form = "Branch" /\ ArgumentsRead
  BY DEF SelectBranch, Concluding
<1>3. Active \in Activation
  BY <1>2, ActiveFormed DEF InActivation
<1>4. BranchSelection(Active.operands[1], Active.operands[2], Active.operands[3]) \in Double
  <2>1. /\ Active.operands[1] \in Double
        /\ Active.operands[2] \in Double
        /\ Active.operands[3] \in Double
    BY <1>2, OperandsObtained
  <2>2. QED
    BY <2>1, ConstantTypes, AddType, SubtractType, MultiplyType DEF BranchSelection
<1>5. /\ register_values' \in [Registers -> Double]
      /\ dirty_register_mask' \subseteq Registers
      /\ result' \in Double
      /\ control' = "leave"
  BY <1>3, <1>4, PublishType DEF SelectBranch
<1>6. retired_cycle_count' \in Nat
  BY LatencyType DEF SelectBranch, TypeOK, BRANCH_COST
<1>7. TypeOK'
  BY <1>1, <1>5, <1>6 DEF TypeOK, Controls
<1>8. QED
  BY <1>1, <1>2, <1>5, <1>7, Concluded DEF InActivation

\* Where a value may be stored there is room for all of its bytes.
LEMMA AddressableBytes ==
    ASSUME TypeOK, Active.name \in DOMAIN ArenaCapacities,
           NEW offset \in Double, Addressable(offset)
    PROVE  /\ arena_bytes[Active.name] \in Seq(Byte)
           /\ ByteOffset(offset) + 1 \in 1..Len(arena_bytes[Active.name])
           /\ ByteOffset(offset) + 2 \in 1..Len(arena_bytes[Active.name])
<1>1. arena_bytes[Active.name] \in Seq(Byte)
  BY DEF TypeOK
<1>2. Len(arena_bytes[Active.name]) \in Nat
  BY <1>1, LenProperties
<1>3. ByteOffset(offset) \in Nat
  <2>1. offset.magnitude \in Nat /\ QuantaPerUnit \in Nat \ {0}
    BY FormatAssumption DEF Double, NaNCode
  <2>2. QED
    BY <2>1, QuotientNat DEF ByteOffset
<1>4. ByteOffset(offset) <= Len(arena_bytes[Active.name]) - 2
  BY DEF Addressable, OffsetAdmitsAValue, VALUE_WIDTH
<1> DEFINE o == ByteOffset(offset)
           n == Len(arena_bytes[Active.name])
<1>5. o \in Nat /\ n \in Nat /\ o <= n - 2
  BY <1>2, <1>3, <1>4
<1> HIDE DEF o, n
<1>6. o + 1 \in 1..n /\ o + 2 \in 1..n
  BY <1>5
<1>7. QED
  BY <1>1, <1>6 DEF o, n

\* WriteOffset preserves the invariant.
LEMMA WriteOffsetStep ==
    ASSUME IInv, WriteOffset
    PROVE  IInv'
<1> USE DEF IInv
<1> DEFINE offset == Active.operands[1]
           value == Active.operands[2]
<1>1. UNCHANGED <<text, body_scanners, callee, activations, spill_stack_values, silicon,
                  retired_cycle_count, current_evaluation_depth, committed_values>>
  BY DEF WriteOffset, scanner_vars
<1>2. control = "form" /\ Active.form = "write_offset" /\ ArgumentsRead
  BY DEF WriteOffset, Concluding
<1>3. Active \in Activation
  BY <1>2, ActiveFormed DEF InActivation
<1>4. /\ Active.name \in DOMAIN ArenaCapacities
      /\ offset \in Double /\ value \in Double
  BY <1>2, OperandsObtained
<1>5. /\ register_values' \in [Registers -> Double]
      /\ dirty_register_mask' \subseteq Registers
      /\ result' \in Double
      /\ control' = "leave"
      /\ reported_error_count' \in Nat
      /\ arena_bytes' \in [DOMAIN ArenaCapacities -> Seq(Byte)]
  <2>1. CASE Addressable(offset)
    <3>1. /\ StoreDouble(Active.name, ByteOffset(offset), value)
          /\ Publish(value)
          /\ reported_error_count' = reported_error_count
      BY <2>1 DEF WriteOffset
    <3> DEFINE bytes == arena_bytes[Active.name]
               once == [bytes EXCEPT ![ByteOffset(offset) + 1] = Encoding(value)[1]]
               twice == [once EXCEPT ![ByteOffset(offset) + 2] = Encoding(value)[2]]
    <3>2. /\ bytes \in Seq(Byte)
          /\ ByteOffset(offset) + 1 \in 1..Len(bytes)
          /\ ByteOffset(offset) + 2 \in 1..Len(bytes)
      BY <1>4, <2>1, AddressableBytes
    <3>3. Encoding(value)[1] \in Byte /\ Encoding(value)[2] \in Byte
      BY <1>4, EncodingType
    <3>4. once \in Seq(Byte) /\ Len(once) = Len(bytes)
      BY <3>2, <3>3, ExceptSeq
    <3>5. twice \in Seq(Byte)
      BY <3>2, <3>3, <3>4, ExceptSeq
    <3>6. arena_bytes' = [arena_bytes EXCEPT ![Active.name] = twice]
      BY <3>1 DEF StoreDouble
    <3> HIDE DEF twice
    <3>7. arena_bytes' \in [DOMAIN ArenaCapacities -> Seq(Byte)]
      BY <3>5, <3>6 DEF TypeOK
    <3>8. QED
      BY <1>3, <1>4, <3>1, <3>7, PublishType DEF TypeOK
  <2>2. CASE ~Addressable(offset)
    <3>1. Fail /\ ReportError /\ UNCHANGED arena_bytes
      BY <2>2 DEF WriteOffset
    <3>2. QED
      BY <3>1, FailType DEF ReportError, TypeOK
  <2>3. QED
    BY <2>1, <2>2
<1>6. TypeOK'
  BY <1>1, <1>5 DEF TypeOK, Controls
<1>7. QED
  BY <1>1, <1>2, <1>5, <1>6, Concluded DEF InActivation

\* ReadOffset preserves the invariant.
LEMMA ReadOffsetStep ==
    ASSUME IInv, ReadOffset
    PROVE  IInv'
<1> USE DEF IInv
<1> DEFINE offset == Active.operands[1]
<1>1. UNCHANGED <<text, body_scanners, callee, activations, spill_stack_values, silicon,
                  retired_cycle_count, current_evaluation_depth, arena_bytes,
                  committed_values>>
  BY DEF ReadOffset, scanner_vars
<1>2. control = "form" /\ Active.form = "read_offset" /\ ArgumentsRead
  BY DEF ReadOffset, Concluding
<1>3. Active \in Activation
  BY <1>2, ActiveFormed DEF InActivation
<1>4. Active.name \in DOMAIN ArenaCapacities /\ offset \in Double
  BY <1>2, OperandsObtained
<1>5. /\ register_values' \in [Registers -> Double]
      /\ dirty_register_mask' \subseteq Registers
      /\ result' \in Double
      /\ control' = "leave"
      /\ reported_error_count' \in Nat
  <2>1. CASE Addressable(offset)
    <3>1. /\ Publish(LoadDouble(Active.name, ByteOffset(offset)))
          /\ reported_error_count' = reported_error_count
      BY <2>1 DEF ReadOffset
    <3> DEFINE bytes == arena_bytes[Active.name]
    <3>2. /\ bytes[ByteOffset(offset) + 1] \in Byte
          /\ bytes[ByteOffset(offset) + 2] \in Byte
      BY <1>4, <2>1, AddressableBytes, ElementOfSeq
    <3>3. LoadDouble(Active.name, ByteOffset(offset)) \in Double
      BY <3>2, DecodingType DEF LoadDouble
    <3>4. QED
      BY <1>3, <3>1, <3>3, PublishType DEF TypeOK
  <2>2. CASE ~Addressable(offset)
    <3>1. Fail /\ ReportError
      BY <2>2 DEF ReadOffset
    <3>2. QED
      BY <3>1, FailType DEF ReportError, TypeOK
  <2>3. QED
    BY <2>1, <2>2
<1>6. TypeOK'
  BY <1>1, <1>5 DEF TypeOK, Controls
<1>7. QED
  BY <1>1, <1>2, <1>5, <1>6, Concluded DEF InActivation

\* BeginLoop preserves the invariant.
LEMMA BeginLoopStep ==
    ASSUME IInv, BeginLoop
    PROVE  IInv'
<1> USE DEF IInv
<1>1. UNCHANGED <<text, body_scanners, callee, activations, register_values,
                  spill_stack_values, dirty_register_mask, silicon, retired_cycle_count,
                  current_evaluation_depth, arena_bytes, committed_values>>
  BY DEF BeginLoop, scanner_vars, file_vars
<1>2. control = "form" /\ Active.form = "Loop" /\ ArgumentsRead
  BY DEF BeginLoop, Concluding
<1>3. activations # <<>>
  BY <1>2 DEF Stacked, InActivation
<1>4. /\ control' \in {"iterate", "leave"}
      /\ control' = "iterate" => Active.name \in DOMAIN Templates
      /\ result' \in Double
      /\ reported_error_count' \in Nat
  BY ConstantTypes DEF BeginLoop, ReportError, TypeOK
<1>5. Active.stage > 5
  BY <1>2, OperandsObtained
<1>6. TypeOK'
  BY <1>1, <1>4 DEF TypeOK, Controls
<1>7. Stacked' /\ Spills'
  BY <1>1, <1>3, <1>4, StackKept DEF AtRest, InActivation
<1>8. Formed'
  BY <1>1, <1>2, <1>4, <1>5, FormedKept
<1>9. QED
  BY <1>6, <1>7, <1>8

\* EndLoop preserves the invariant.
LEMMA EndLoopStep ==
    ASSUME IInv, EndLoop
    PROVE  IInv'
<1> USE DEF IInv
<1>1. UNCHANGED <<text, body_scanners, callee, activations, spill_stack_values, silicon,
                  retired_cycle_count, current_evaluation_depth, reported_error_count,
                  arena_bytes, committed_values>>
  BY DEF EndLoop, scanner_vars
<1>2. control = "iterate" /\ (Fail \/ Publish(result))
  BY DEF EndLoop
<1>3. Active \in Activation
  BY <1>2, ActiveFormed DEF InActivation
<1>4. /\ register_values' \in [Registers -> Double]
      /\ dirty_register_mask' \subseteq Registers
      /\ result' \in Double
      /\ control' = "leave"
  <2>1. result \in Double
    BY DEF TypeOK
  <2>2. QED
    BY <1>2, <1>3, <2>1, PublishType, FailType
<1>5. TypeOK'
  BY <1>1, <1>4 DEF TypeOK, Controls
<1>6. QED
  BY <1>1, <1>2, <1>4, <1>5, Concluded DEF InActivation

\* The top is rewritten: what is below it was already suspended.
LEMMA FormedRewritten ==
    ASSUME TypeOK, Stacked, Spills, Formed, activations # <<>>,
           NEW a \in Activation, UpdateActive(a),
           a.destination = Active.destination, a.spilled = Active.spilled,
           UNCHANGED <<spill_stack_values, current_evaluation_depth>>,
           control' \notin AtRest \cup {"dispatch", "iterate"},
           control' = "evaluate" => callee'.destination = Active.destination,
           WellFormed(a),
           control' \in {"evaluate", "return"} => Resumable(a)
    PROVE  /\ activations' \in Seq(Activation)
           /\ Stacked' /\ Spills' /\ Formed'
<1>1. /\ activations' \in Seq(Activation)
      /\ Len(activations') = Len(activations)
      /\ activations'[Len(activations)] = a
      /\ \A i \in 1..Len(activations) : i # Len(activations) => activations'[i] = activations[i]
      /\ Stacked' /\ Spills'
  BY TopRewritten
<1>2. Len(activations) \in Nat
  BY LenProperties DEF TypeOK
<1>3. \A i \in 1..Len(activations) : WellFormed(activations'[i])
  BY <1>1 DEF Formed
<1>4. \A i \in 1..Len(activations) :
         i < Len(activations) \/ control' \in {"evaluate", "return"}
            => Resumable(activations'[i])
  <2> SUFFICES ASSUME NEW i \in 1..Len(activations),
                      i < Len(activations) \/ control' \in {"evaluate", "return"}
               PROVE  Resumable(activations'[i])
    OBVIOUS
  <2>1. CASE i < Len(activations)
    <3>1. activations'[i] = activations[i]
      BY <2>1, <1>1, <1>2
    <3>2. Resumable(activations[i])
      BY <2>1 DEF Formed
    <3>3. QED
      BY <3>1, <3>2
  <2>2. CASE i = Len(activations)
    BY <2>2, <1>1
  <2>3. QED
    BY <2>1, <2>2, <1>2
<1>5. QED
  BY <1>1, <1>3, <1>4 DEF Formed

\* ReturnBody preserves the invariant.
LEMMA ReturnBodyStep ==
    ASSUME IInv, ReturnBody
    PROVE  IInv'
<1> USE DEF IInv
<1>1. UNCHANGED <<text, callee, activations, result, register_values,
                  spill_stack_values, dirty_register_mask, silicon, retired_cycle_count,
                  current_evaluation_depth, reported_error_count, arena_bytes,
                  committed_values>>
  BY DEF ReturnBody, file_vars
<1>2. /\ control = "return" /\ activations # <<>> /\ ArgumentsRead
      /\ control' \in {"iterate", "leave"}
      /\ control' = "iterate" => Active.form = "Loop"
      /\ body_scanners' = Front(body_scanners)
  BY DEF ReturnBody
<1>3. Resumable(Active)
  BY <1>2, ActiveFormed
<1>4. Active.form = "Loop" => Active.stage > 5
  BY <1>2, StepCounts, Zenon DEF ArgumentsRead
<1>5. body_scanners' \in Seq([template : DOMAIN Templates, position : Nat \ {0}])
  BY <1>2, FrontType DEF TypeOK
<1>6. TypeOK'
  BY <1>1, <1>2, <1>5 DEF TypeOK, Controls
<1>7. Stacked' /\ Spills'
  BY <1>1, <1>2, StackKept DEF AtRest, InActivation
<1>8. Formed'
  BY <1>1, <1>2, <1>3, <1>4, FormedKept DEF Resumable
<1>9. QED
  BY <1>6, <1>7, <1>8

\* The step a form has reached.
LEMMA StageReached ==
    ASSUME IInv, control = "form" \/ (control = "return" /\ activations # <<>>),
           ~ArgumentsRead
    PROVE  /\ Active \in Activation
           /\ Active.stage \in Nat \ {0}
           /\ Active.form \in PrimitiveOperations => Active.stage \in 1..5
           /\ Active.form = "Branch" => Active.stage \in 1..7
           /\ Active.form = "Loop" => Active.stage \in 1..5
           /\ Active.form = "write_offset" => Active.stage \in 1..7
           /\ Active.form = "read_offset" => Active.stage \in 1..5
<1> DEFINE stage == Active.stage
           form == Active.form
           steps == Len(Steps(Active.form))
<1>1. Active \in Activation
  BY ActiveFormed DEF InActivation
<1>2. stage \in Nat \ {0}
  BY <1>1 DEF Activation
<1>3. ~(stage > steps)
  BY DEF ArgumentsRead
<1>4. /\ form \in PrimitiveOperations => steps = 5
      /\ form = "Branch" => steps = 7
      /\ form = "Loop" => steps = 5
      /\ form = "write_offset" => steps = 7
      /\ form = "read_offset" => steps = 5
  BY StepCounts, Zenon
<1> HIDE DEF stage, form, steps
<1>5. /\ form \in PrimitiveOperations => stage \in 1..5
      /\ form = "Branch" => stage \in 1..7
      /\ form = "Loop" => stage \in 1..5
      /\ form = "write_offset" => stage \in 1..7
      /\ form = "read_offset" => stage \in 1..5
  BY <1>2, <1>3, <1>4
<1>6. QED
  BY <1>1, <1>2, <1>5 DEF stage, form

\* EvaluateOperand preserves the invariant.
LEMMA EvaluateOperandStep ==
    ASSUME IInv, EvaluateOperand
    PROVE  IInv'
<1> USE DEF IInv
<1>1. UNCHANGED <<text, body_scanners, activations, result, register_values,
                  spill_stack_values, dirty_register_mask, silicon, retired_cycle_count,
                  current_evaluation_depth, reported_error_count, arena_bytes,
                  committed_values>>
  BY DEF EvaluateOperand, scanner_vars, file_vars
<1>2. /\ control = "form" /\ ~ArgumentsRead /\ NextStep = "EVALUATE"
      /\ control' = "evaluate"
      /\ callee' = [destination |-> OperandDestination, frame |-> Active.frame]
  BY DEF EvaluateOperand
<1>3. activations # <<>> /\ Active \in Activation
  BY <1>2, ActiveFormed DEF InActivation
<1>4. /\ Active.destination \in Nat /\ Active.frame \in Frame
      /\ OperandDestination \in Nat
      /\ Active.destination <= OperandDestination
  <2>1. /\ Active.destination \in Nat /\ Active.frame \in Frame
        /\ Active.operands \in Seq(Double)
    BY <1>3 DEF Activation
  <2>2. Len(Active.operands) \in Nat
    BY <2>1, LenProperties
  <2>3. QED
    BY <2>1, <2>2 DEF OperandDestination
<1>5. callee' \in Call /\ callee'.destination = OperandDestination
  BY <1>2, <1>4 DEF Call
<1>6. TypeOK'
  BY <1>1, <1>2, <1>5 DEF TypeOK, Controls
<1>7. \A i \in 1..Len(activations) : activations[i].destination <= OperandDestination
  <2> SUFFICES ASSUME NEW i \in 1..Len(activations)
               PROVE  activations[i].destination <= OperandDestination
    OBVIOUS
  <2>1. activations[i] \in Activation
    BY ElementOfSeq DEF TypeOK
  <2>2. activations[i].destination \in Nat
    BY <2>1 DEF Activation
  <2>3. activations[i].destination <= Active.destination
    BY <1>3, TopDestination
  <2>4. QED
    BY <1>4, <2>2, <2>3
<1>8. Stacked' /\ Spills'
  BY <1>1, <1>2, <1>3, <1>5, <1>7, StackKept DEF AtRest, InActivation
<1>9. Resumable(Active)
  <2>1. Steps(Active.form)[Active.stage] = "EVALUATE"
    BY <1>2 DEF NextStep
  <2>2. Active.stage \in Nat \ {0}
    BY <1>3 DEF Activation
  <2>3. Active.form \in {"write_offset", "read_offset"} => Active.stage \notin {1, 2}
    BY <2>1, FormSteps DEF OPEN
  <2>4. Active.form = "Loop" => ~(Active.stage > 5)
    BY <1>2, StageReached
  <2>5. QED
    BY <2>2, <2>3, <2>4 DEF Resumable
<1>10. Formed'
  BY <1>1, <1>2, <1>9, FormedKept
<1>11. QED
  BY <1>6, <1>8, <1>10

\* Entering a template body.
LEMMA EnterBodyType ==
    ASSUME TypeOK, Active \in Activation, NEW template \in DOMAIN Templates,
           NEW arguments \in Seq(Double), EnterBody(template, arguments)
    PROVE  /\ body_scanners' \in Seq([template : DOMAIN Templates, position : Nat \ {0}])
           /\ callee' \in Call
           /\ callee'.destination = Active.destination
           /\ control' = "evaluate"
<1>1. [template |-> template, position |-> 1] \in [template : DOMAIN Templates, position : Nat \ {0}]
  OBVIOUS
<1>2. body_scanners' \in Seq([template : DOMAIN Templates, position : Nat \ {0}])
  BY <1>1, PushTop DEF EnterBody, TypeOK
<1>3. template \in Names
  BY DeclarationAssumption
<1>4. Active.destination \in Nat
  BY DEF Activation
<1>5. QED
  BY <1>2, <1>3, <1>4 DEF EnterBody, Call, Frame

\* InvokeTemplate preserves the invariant.
LEMMA InvokeTemplateStep ==
    ASSUME IInv, InvokeTemplate
    PROVE  IInv'
<1> USE DEF IInv
<1>1. UNCHANGED <<text, activations, result, register_values,
                  spill_stack_values, dirty_register_mask, silicon, retired_cycle_count,
                  current_evaluation_depth, reported_error_count, arena_bytes,
                  committed_values>>
  BY DEF InvokeTemplate, file_vars
<1>2. control = "form" /\ Active.form \in DOMAIN Templates
  BY DEF InvokeTemplate, Concluding
<1>3. activations # <<>> /\ Active \in Activation
  BY <1>2, ActiveFormed DEF InActivation
<1>4. /\ body_scanners' \in Seq([template : DOMAIN Templates, position : Nat \ {0}])
      /\ callee' \in Call
      /\ callee'.destination = Active.destination
      /\ control' = "evaluate"
  <2>1. Active.operands \in Seq(Double)
    BY <1>3 DEF Activation
  <2>2. QED
    BY <1>2, <1>3, <2>1, EnterBodyType DEF InvokeTemplate
<1>5. TypeOK'
  BY <1>1, <1>4 DEF TypeOK, Controls
<1>6. Stacked' /\ Spills'
  BY <1>1, <1>3, <1>4, TopDestination, StackKept DEF AtRest, InActivation
<1>7. Resumable(Active)
  BY <1>2, DeclarationAssumption DEF Resumable, Forms
<1>8. Formed'
  BY <1>1, <1>4, <1>7, FormedKept
<1>9. QED
  BY <1>5, <1>6, <1>8

\* IterateLoop preserves the invariant.
LEMMA IterateLoopStep ==
    ASSUME IInv, IterateLoop
    PROVE  IInv'
<1> USE DEF IInv
<1> DEFINE a == [Active EXCEPT !.iteration = @ + 1]
           arguments == IF Templates[Active.name].parameters = <<>>
                        THEN <<>> ELSE <<Natural(Active.iteration)>>
<1>1. UNCHANGED <<text, result, register_values,
                  spill_stack_values, dirty_register_mask, silicon, retired_cycle_count,
                  current_evaluation_depth, reported_error_count, arena_bytes,
                  committed_values>>
  BY DEF IterateLoop, file_vars
<1>2. control = "iterate" /\ UpdateActive(a) /\ EnterBody(Active.name, arguments)
  BY DEF IterateLoop
<1>3. activations # <<>> /\ Active \in Activation /\ WellFormed(Active)
  BY <1>2, ActiveFormed DEF InActivation
<1>4. Active.form = "Loop" /\ Active.stage > 5 /\ Active.name \in DOMAIN Templates
  BY <1>2 DEF Formed
<1>5. /\ a \in Activation
      /\ a.destination = Active.destination /\ a.spilled = Active.spilled
      /\ a.form = Active.form /\ a.stage = Active.stage
      /\ a.operands = Active.operands /\ a.name = Active.name
  BY <1>3, IterationType
<1>6. /\ body_scanners' \in Seq([template : DOMAIN Templates, position : Nat \ {0}])
      /\ callee' \in Call
      /\ callee'.destination = Active.destination
      /\ control' = "evaluate"
  <2>1. Active.iteration \in Nat
    BY <1>3 DEF Activation
  <2>2. arguments \in Seq(Double)
    BY <2>1, NaturalType, EmptySeq
  <2> HIDE DEF arguments
  <2>3. QED
    BY <1>2, <1>3, <1>4, <2>2, EnterBodyType
<1> HIDE DEF a
<1>7. WellFormed(a) /\ Resumable(a)
  BY <1>3, <1>4, <1>5 DEF WellFormed, Resumable, PrimitiveOperations
<1>8. /\ activations' \in Seq(Activation)
      /\ Stacked' /\ Spills' /\ Formed'
  BY <1>1, <1>2, <1>3, <1>5, <1>6, <1>7, FormedRewritten DEF AtRest
<1>9. TypeOK'
  BY <1>1, <1>6, <1>8 DEF TypeOK, Controls
<1>10. QED
  BY <1>8, <1>9

\* ExpectPunctuation preserves the invariant.
LEMMA ExpectPunctuationStep ==
    ASSUME IInv, ExpectPunctuation
    PROVE  IInv'
<1> USE DEF IInv
<1>1. UNCHANGED <<callee, register_values, spill_stack_values,
                  dirty_register_mask, silicon, retired_cycle_count,
                  current_evaluation_depth, arena_bytes, committed_values>>
  BY DEF ExpectPunctuation, file_vars
<1>2. /\ control = "form" /\ ~ArgumentsRead /\ NextStep \in {OPEN, SEPARATOR, CLOSE}
      /\ ExpectAtom(NextStep, "form", "leave")
      /\ UpdateActive(Advanced)
  BY DEF ExpectPunctuation
<1>3. activations # <<>> /\ Active \in Activation /\ WellFormed(Active)
  BY <1>2, ActiveFormed DEF InActivation
<1>4. /\ text' \in Seq(Atom)
      /\ body_scanners' \in Seq([template : DOMAIN Templates, position : Nat \ {0}])
      /\ control' \in {"form", "leave"}
      /\ result' \in Double
      /\ reported_error_count' \in Nat
  BY <1>2, ExpectAtomType DEF Controls
<1>5. /\ Advanced \in Activation
      /\ Advanced.stage = Active.stage + 1
      /\ Advanced.form = Active.form
      /\ Advanced.destination = Active.destination
      /\ Advanced.spilled = Active.spilled
      /\ Advanced.operands = Active.operands
      /\ Advanced.name = Active.name
  BY <1>3, AdvancedType
<1>6. WellFormed(Advanced)
  <2>1. Steps(Active.form)[Active.stage] \notin {"EVALUATE", "NAME"}
    BY <1>2 DEF NextStep, OPEN, SEPARATOR, CLOSE
  <2>2. Active.stage \in Nat
    BY <1>3 DEF Activation
  <2>3. /\ Active.form \in PrimitiveOperations => Active.stage \notin {2, 4}
        /\ Active.form = "Branch" => Active.stage \notin {2, 4, 6}
        /\ Active.form = "Loop" => Active.stage \notin {2, 4}
        /\ Active.form = "write_offset" => Active.stage \notin {2, 4, 6}
        /\ Active.form = "read_offset" => Active.stage \notin {2, 4}
    BY <2>1, FormSteps
  <2> DEFINE stage == Active.stage
  <2>4. /\ stage + 1 > 2 /\ stage # 2 => stage > 2
        /\ stage + 1 > 4 /\ stage # 4 => stage > 4
        /\ stage + 1 > 6 /\ stage # 6 => stage > 6
    BY <2>2
  <2>5. QED
    BY <1>3, <1>5, <2>3, <2>4 DEF WellFormed
<1>7. /\ activations' \in Seq(Activation)
      /\ Stacked' /\ Spills' /\ Formed'
  BY <1>1, <1>2, <1>3, <1>4, <1>5, <1>6, FormedRewritten DEF AtRest
<1>8. TypeOK'
  BY <1>1, <1>4, <1>7 DEF TypeOK, Controls
<1>9. QED
  BY <1>7, <1>8

\* ReturnOperand preserves the invariant.
LEMMA ReturnOperandStep ==
    ASSUME IInv, ReturnOperand
    PROVE  IInv'
<1> USE DEF IInv
<1> DEFINE a == [Advanced EXCEPT !.operands = Append(@, result)]
<1>1. UNCHANGED <<text, body_scanners, callee, register_values, spill_stack_values,
                  dirty_register_mask, silicon, retired_cycle_count,
                  current_evaluation_depth, reported_error_count, arena_bytes,
                  committed_values>>
  BY DEF ReturnOperand, scanner_vars, file_vars
<1>2. /\ control = "return" /\ activations # <<>> /\ ~ArgumentsRead
      /\ UpdateActive(a)
      /\ control' = "form"
      /\ result' = Zero
  BY DEF ReturnOperand
<1>3. Active \in Activation /\ WellFormed(Active) /\ Resumable(Active)
  BY <1>2, ActiveFormed
<1>4. result \in Double
  BY DEF TypeOK
<1>5. /\ Advanced \in Activation
      /\ Advanced.stage = Active.stage + 1
      /\ Advanced.form = Active.form
      /\ Advanced.destination = Active.destination
      /\ Advanced.spilled = Active.spilled
      /\ Advanced.operands = Active.operands
      /\ Advanced.name = Active.name
  BY <1>3, AdvancedType
<1>6. /\ a \in Activation
      /\ Len(a.operands) = Len(Advanced.operands) + 1
      /\ a.spilled = Advanced.spilled
      /\ a.stage = Advanced.stage /\ a.form = Advanced.form
      /\ a.destination = Advanced.destination /\ a.name = Advanced.name
  BY <1>4, <1>5, OperandType
<1> HIDE DEF a
<1>7. WellFormed(a)
  <2>1. Active.stage \in Nat \ {0} /\ Active.operands \in Seq(Double)
    BY <1>3 DEF Activation
  <2> DEFINE stage == Active.stage
             count == Len(Active.operands)
  <2>2. stage \in Nat \ {0} /\ count \in Nat
    BY <2>1, LenProperties
  <2>3. /\ a.stage = stage + 1 /\ Len(a.operands) = count + 1
        /\ a.form = Active.form /\ a.name = Active.name
    BY <1>5, <1>6
  <2>4. /\ a.form \in PrimitiveOperations \cup {"Branch"} =>
              (stage > 2 => count >= 1) /\ (stage > 4 => count >= 2 \/ a.form # "Branch")
        /\ a.form = "write_offset" => (stage > 4 => count >= 1)
        /\ a.form \in {"write_offset", "read_offset"} => a.name \in DOMAIN ArenaCapacities
    BY <1>3, <2>3 DEF WellFormed, Resumable
  <2> HIDE DEF stage, count
  <2>5. /\ a.form \in PrimitiveOperations \cup {"Branch"} =>
              (a.stage > 2 => Len(a.operands) >= 1) /\ (a.stage > 4 => Len(a.operands) >= 2)
        /\ a.form = "Branch" => (a.stage > 6 => Len(a.operands) >= 3)
        /\ a.form = "write_offset" => (a.stage > 6 => Len(a.operands) >= 2)
        /\ Len(a.operands) >= 1
    BY <2>2, <2>3, <2>4
  <2>6. QED
    BY <2>4, <2>5 DEF WellFormed
<1>8. /\ activations' \in Seq(Activation)
      /\ Stacked' /\ Spills' /\ Formed'
  BY <1>1, <1>2, <1>5, <1>6, <1>7, FormedRewritten DEF AtRest
<1>9. TypeOK'
  BY <1>1, <1>2, <1>8, ConstantTypes DEF TypeOK, Controls
<1>10. QED
  BY <1>8, <1>9

\* ReadName preserves the invariant.
LEMMA ReadNameStep ==
    ASSUME IInv, ReadName
    PROVE  IInv'
<1> USE DEF IInv
<1>1. UNCHANGED <<callee, register_values, spill_stack_values,
                  dirty_register_mask, silicon, retired_cycle_count,
                  current_evaluation_depth, arena_bytes, committed_values>>
  BY DEF ReadName, file_vars
<1>2. control = "form" /\ ~ArgumentsRead /\ NextStep = "NAME"
  BY DEF ReadName
<1>3. activations # <<>> /\ Active \in Activation /\ WellFormed(Active)
  BY <1>2, ActiveFormed DEF InActivation
<1>4. PICK atom \in NextAtoms :
         /\ Consume(atom)
         /\ \/ /\ Active.form = "Loop" \/ atom.name \in DOMAIN ArenaCapacities
               /\ UpdateActive([Advanced EXCEPT !.name = atom.name])
               /\ UNCHANGED <<control, result, reported_error_count>>
            \/ /\ control' = "leave"
               /\ result' = Zero
               /\ ReportError
               /\ UNCHANGED activations
  BY Zenon DEF ReadName
<1>5. atom \in Atom
  BY <1>4, NextAtomsType
<1>6. /\ text' \in Seq(Atom)
      /\ body_scanners' \in Seq([template : DOMAIN Templates, position : Nat \ {0}])
  BY <1>4, <1>5, ConsumeType
<1>7. CASE /\ Active.form = "Loop" \/ atom.name \in DOMAIN ArenaCapacities
           /\ UpdateActive([Advanced EXCEPT !.name = atom.name])
           /\ UNCHANGED <<control, result, reported_error_count>>
  <2> DEFINE a == [Advanced EXCEPT !.name = atom.name]
  <2>1. /\ Advanced \in Activation
        /\ Advanced.stage = Active.stage + 1
        /\ Advanced.form = Active.form
        /\ Advanced.destination = Active.destination
        /\ Advanced.spilled = Active.spilled
        /\ Advanced.operands = Active.operands
    BY <1>3, AdvancedType
  <2>2. atom.name \in Names \cup {""}
    BY <1>5 DEF Atom
  <2>3. /\ a \in Activation
        /\ a.name = atom.name
        /\ a.spilled = Advanced.spilled
        /\ a.stage = Advanced.stage /\ a.form = Advanced.form
        /\ a.destination = Advanced.destination /\ a.operands = Advanced.operands
    BY <2>1, <2>2, NameType
  <2>4. UpdateActive(a)
    BY <1>7
  <2> HIDE DEF a
  <2>5. Steps(Active.form)[Active.stage] = "NAME" /\ Active.stage \in Nat \ {0}
    BY <1>2, <1>3 DEF NextStep, Activation
  <2>6. /\ Active.form \notin PrimitiveOperations \cup {"Branch"}
        /\ Active.form = "Loop" => Active.stage = 4
        /\ Active.form \in {"write_offset", "read_offset"} => Active.stage = 2
    <3>1. /\ Active.form \in PrimitiveOperations => Active.stage \in 1..5
          /\ Active.form = "Branch" => Active.stage \in 1..7
          /\ Active.form = "Loop" => Active.stage \in 1..5
          /\ Active.form = "write_offset" => Active.stage \in 1..7
          /\ Active.form = "read_offset" => Active.stage \in 1..5
      BY <1>2, StageReached
    <3>2. ~(Active.form \in PrimitiveOperations)
      BY <2>5, <3>1, FormSteps DEF OPEN, SEPARATOR, CLOSE
    <3>3. ~(Active.form = "Branch")
      BY <2>5, <3>1, FormSteps DEF OPEN, SEPARATOR, CLOSE
    <3>4. Active.form = "Loop" => Active.stage = 4
      BY <2>5, <3>1, FormSteps DEF OPEN, SEPARATOR, CLOSE
    <3>5. Active.form = "write_offset" => Active.stage = 2
      BY <2>5, <3>1, FormSteps DEF OPEN, SEPARATOR, CLOSE
    <3>6. Active.form = "read_offset" => Active.stage = 2
      BY <2>5, <3>1, FormSteps DEF OPEN, SEPARATOR, CLOSE
    <3>7. QED
      BY <3>2, <3>3, <3>4, <3>5, <3>6
  <2>7. WellFormed(a)
    BY <1>3, <1>7, <2>1, <2>3, <2>6 DEF WellFormed, PrimitiveOperations
  <2>8. /\ activations' \in Seq(Activation)
        /\ Stacked' /\ Spills' /\ Formed'
    BY <1>1, <1>2, <1>3, <1>7, <2>1, <2>3, <2>4, <2>7, FormedRewritten DEF AtRest
  <2>9. TypeOK'
    BY <1>1, <1>6, <1>7, <2>8 DEF TypeOK
  <2>10. QED
    BY <2>8, <2>9
<1>8. CASE control' = "leave" /\ result' = Zero /\ ReportError /\ UNCHANGED activations
  <2>1. TypeOK'
    BY <1>1, <1>6, <1>8, ConstantTypes DEF TypeOK, Controls, ReportError
  <2>2. QED
    BY <1>1, <1>2, <1>8, <2>1, Concluded DEF InActivation
<1>9. QED
  BY <1>4, <1>7, <1>8

\* Dispatch preserves the invariant.
LEMMA DispatchStep ==
    ASSUME IInv, Dispatch
    PROVE  IInv'
<1> USE DEF IInv
<1>1. UNCHANGED <<callee, spill_stack_values, silicon, retired_cycle_count,
                  current_evaluation_depth, arena_bytes, committed_values>>
  BY DEF Dispatch
<1>2. control = "dispatch"
  BY DEF Dispatch
<1>3. activations # <<>> /\ Active \in Activation
  BY <1>2, ActiveFormed DEF InActivation
<1>4. Active.stage = 1
  BY <1>2 DEF Formed
<1>5. PICK atom \in NextAtoms :
         /\ Consume(atom)
         /\ \/ DispatchLiteral(atom)
            \/ DispatchForm(atom)
            \/ DispatchParameter(atom)
            \/ DispatchIdentity(atom)
            \/ DispatchNothing(atom)
  BY Zenon DEF Dispatch
<1>6. atom \in Atom
  BY <1>5, NextAtomsType
<1>7. /\ text' \in Seq(Atom)
      /\ body_scanners' \in Seq([template : DOMAIN Templates, position : Nat \ {0}])
  BY <1>5, <1>6, ConsumeType
<1>8. ASSUME UNCHANGED activations,
             reported_error_count' \in {reported_error_count, reported_error_count + 1},
             Fail \/ \E value \in Double : Publish(value)
      PROVE  IInv'
  <2>1. /\ register_values' \in [Registers -> Double]
        /\ dirty_register_mask' \subseteq Registers
        /\ result' \in Double
        /\ control' = "leave"
    BY <1>3, <1>8, PublishType, FailType
  <2>2. TypeOK'
    BY <1>1, <1>7, <1>8, <2>1 DEF TypeOK, Controls
  <2>3. QED
    BY <1>1, <1>2, <1>8, <2>1, <2>2, Concluded DEF InActivation
<1>9. CASE DispatchLiteral(atom)
  <2>1. atom.value \in Double
    BY <1>6 DEF Atom
  <2>2. QED
    BY <1>8, <1>9, <2>1 DEF DispatchLiteral, ReportError
<1>10. CASE DispatchForm(atom)
  <2> DEFINE a == [Active EXCEPT !.form = atom.name]
  <2>1. /\ UpdateActive(a)
        /\ control' = "form"
        /\ UNCHANGED <<result, register_values, dirty_register_mask, reported_error_count>>
    BY <1>10 DEF DispatchForm
  <2>2. atom.name \in Names \cup {""}
    BY <1>6 DEF Atom
  <2>3. /\ a \in Activation
        /\ a.spilled = Active.spilled
        /\ a.stage = Active.stage /\ a.destination = Active.destination
    BY <1>3, <2>2, FormType
  <2> HIDE DEF a
  <2>4. WellFormed(a)
    BY <1>4, <2>3 DEF WellFormed
  <2>5. /\ activations' \in Seq(Activation)
        /\ Stacked' /\ Spills' /\ Formed'
    BY <1>1, <1>3, <2>1, <2>3, <2>4, FormedRewritten DEF AtRest
  <2>6. TypeOK'
    BY <1>1, <1>7, <2>1, <2>5 DEF TypeOK, Controls
  <2>7. QED
    BY <2>5, <2>6
<1>11. CASE DispatchParameter(atom)
  <2>1. PICK first \in BoundParameters(atom.name) : Publish(Active.frame.arguments[first])
    BY <1>11 DEF DispatchParameter
  <2>2. Active.frame.arguments \in Seq(Double)
    BY <1>3 DEF Activation, Frame
  <2>3. first \in 1..Len(Active.frame.arguments)
    BY DEF BoundParameters
  <2>4. Active.frame.arguments[first] \in Double
    BY <2>2, <2>3, ElementOfSeq
  <2>5. QED
    BY <1>8, <1>11, <2>1, <2>4 DEF DispatchParameter
<1>12. CASE DispatchIdentity(atom)
  <2>1. Identities[atom.name] \in Double
    BY <1>12, DeclarationAssumption DEF DispatchIdentity
  <2>2. QED
    BY <1>8, <1>12, <2>1 DEF DispatchIdentity
<1>13. CASE DispatchNothing(atom)
  BY <1>8, <1>13 DEF DispatchNothing, ReportError
<1>14. QED
  BY <1>5, <1>9, <1>10, <1>11, <1>12, <1>13

-----------------------------------------------------------------------------
(* The theorems. *)

\* The invariant holds before the first atom is read.
LEMMA Initially ==
    ASSUME Init
    PROVE  IInv
<1> USE DEF Init
<1>1. /\ 0 \in Nat /\ SynchronisedRegisterCount \in Nat \ {0} /\ MaximumEvaluationDepth \in Nat
      /\ Zero \in Double
  BY EvaluatorAssumption, ConstantTypes
<1>2. callee \in Call
  <2>1. NoFrame \in Frame
    BY EmptySeq DEF Frame, NoFrame
  <2>2. QED
    BY <2>1 DEF Call
<1>3. arena_bytes \in [DOMAIN ArenaCapacities -> Seq(Byte)]
  <2>1. \A name \in DOMAIN ArenaCapacities : ArenaCapacities[name] \in Nat
    BY DeclarationAssumption
  <2>2. 0 \in Byte
    BY FormatAssumption DEF Byte
  <2>3. \A name \in DOMAIN ArenaCapacities :
           [b \in 1..ArenaCapacities[name] |-> 0] \in Seq(Byte)
    BY <2>1, <2>2, IsASeq
  <2>4. QED
    BY <2>3
<1>4. /\ text \in Seq(Atom)
      /\ body_scanners \in Seq([template : DOMAIN Templates, position : Nat \ {0}])
      /\ activations \in Seq(Activation)
      /\ spill_stack_values \in Seq(Double)
      /\ committed_values \in Seq(Double)
  BY EmptySeq
<1>5. TypeOK
  BY <1>1, <1>2, <1>3, <1>4 DEF TypeOK, Controls
<1>6. Len(activations) = 0 /\ Len(spill_stack_values) = 0
  BY EmptySeq
<1>7. Stacked
  BY <1>1, <1>6 DEF Stacked, AtRest, InActivation
<1>8. Spills
  BY <1>6 DEF Spills
<1>9. Formed
  BY <1>6 DEF Formed
<1>10. QED
  BY <1>5, <1>7, <1>8, <1>9 DEF IInv

\* Every step preserves the invariant.
LEMMA Inductive ==
    ASSUME IInv, [Next]_vars
    PROVE  IInv'
<1>1. CASE UNCHANGED vars
  BY <1>1 DEF vars, IInv, TypeOK, Stacked, Spills, Formed, WellFormed, Resumable, Active
<1>2. CASE Halt
  BY <1>1, <1>2 DEF Halt
<1>3. CASE Next /\ ~Halt
  BY <1>3, ReadDirectiveStep, BeginCommitStep, SynchroniseStep, CloseCommitStep,
     ReportCommitStep, RefuseEvaluationStep, EnterActivationStep, LeaveActivationStep,
     DispatchStep, ExpectPunctuationStep, EvaluateOperandStep, ReturnOperandStep,
     ReadNameStep, ApplyPrimitiveStep, SelectBranchStep, WriteOffsetStep, ReadOffsetStep,
     InvokeTemplateStep, BeginLoopStep, IterateLoopStep, EndLoopStep, ReturnBodyStep
     DEF Next
<1>4. QED
  BY <1>1, <1>2, <1>3

\* The strengthened invariant holds in every reachable state, for every value of
\* the constants: stack, depth counter and spills move together, and every form
\* that concludes has the operands its handler reads.
THEOREM InvariantHolds == Spec => []IInv
<1>1. Init => IInv
  BY Initially
<1>2. IInv /\ [Next]_vars => IInv'
  BY Inductive
<1>3. QED
  BY <1>1, <1>2, PTL DEF Spec

\* Every variable keeps its type: no operand is read that was not obtained, no
\* register, arena byte or template looked up that does not exist.
THEOREM TypeCorrect == Spec => []TypeOK
<1>1. IInv => TypeOK
  BY DEF IInv
<1>2. QED
  BY <1>1, InvariantHolds, PTL

\* Within the depth limit there is room for another spill.
LEMMA SpillsFit ==
    ASSUME IInv
    PROVE  SpillNeverExhausted
<1> SUFFICES ASSUME ~DepthReached
             PROVE  ~SpillExhausted
  BY DEF SpillNeverExhausted
<1>1. /\ Len(spill_stack_values) \in Nat
      /\ Len(activations) \in Nat
      /\ MaximumEvaluationDepth \in Nat
  BY EvaluatorAssumption, LenProperties DEF IInv, TypeOK
<1>2. /\ Len(spill_stack_values) <= Len(activations)
      /\ Len(activations) < MaximumEvaluationDepth
  BY <1>1 DEF IInv, Spills, Stacked, DepthReached
<1>3. QED
  BY <1>1, <1>2 DEF SpillExhausted, SPILL_STACK_CAPACITY

\* The claim of the spill stack's comment: within the depth limit a push is
\* never refused.
THEOREM SpillStackSuffices == Spec => []SpillNeverExhausted
<1>1. IInv => SpillNeverExhausted
  BY SpillsFit
<1>2. QED
  BY <1>1, InvariantHolds, PTL

-----------------------------------------------------------------------------
(***************************************************************************)
(* What a failure leaves to do: it is reported once, nothing it leads to   *)
(* has an effect, and every exit puts back what its entry took, however    *)
(* deep the expression that is being unwound.                              *)
(***************************************************************************)

-----------------------------------------------------------------------------
(* The invariant. *)

Dispatchable == Forms \cup DOMAIN Templates

\* An evaluation that was asked for is an argument of the form, or a body.
HasBody(a) == a.stage > Len(Steps(a.form))
Awaits(a) ==
    /\ a.form \in Dispatchable
    /\ HasBody(a) \/ Steps(a.form)[a.stage] = "EVALUATE"

Suspended(i) == i < Len(activations) \/ control \in {"evaluate", "return"}
Awaiting == \A i \in 1..Len(activations) : Suspended(i) => Awaits(activations[i])
Dispatched == control \in {"form", "iterate"} => Active.form \in Dispatchable

\* The activations whose body is being evaluated, each from a scanner of its own.
InBody == {i \in 1..Len(activations) : Suspended(i) /\ HasBody(activations[i])}
Bodies == Len(body_scanners) = Cardinality(InBody)

\* After a failure only the punctuation that follows an argument is still
\* expected, and an expectation that finds a failure is silent.
Silent ==
    HasFailed =>
       /\ reported_error_count = 1
       /\ control \notin {"directive", "dispatch"}
       /\ control = "form" => ~ArgumentsRead /\ NextStep \in {SEPARATOR, CLOSE}

UInv == IInv /\ Awaiting /\ Dispatched /\ Bodies /\ Silent

-----------------------------------------------------------------------------
(* Argument lists. *)

\* The list of a template with that many parameters.
LEMMA TemplateStepList ==
    ASSUME NEW count \in Nat
    PROVE  LET m == IF count = 0 THEN 0 ELSE 2 * count - 1
           IN  /\ Len(TemplateSteps(count)) = m + 2
               /\ TemplateSteps(count)[1] = OPEN
               /\ \A s \in 2..(m + 1) :
                     TemplateSteps(count)[s] = IF s % 2 = 0 THEN "EVALUATE" ELSE SEPARATOR
               /\ TemplateSteps(count)[m + 2] = CLOSE
<1> DEFINE m == IF count = 0 THEN 0 ELSE 2 * count - 1
           middle == [i \in 1..m |-> IF i % 2 = 1 THEN "EVALUATE" ELSE SEPARATOR]
           beginning == <<OPEN>> \o middle
           list == beginning \o <<CLOSE>>
           S == {OPEN, SEPARATOR, CLOSE, "EVALUATE"}
<1>1. m \in Nat
  OBVIOUS
<1>2. TemplateSteps(count) = list
  BY DEF TemplateSteps
<1> HIDE DEF m
<1>3. /\ <<OPEN>> \in Seq(S) /\ Len(<<OPEN>>) = 1 /\ <<OPEN>>[1] = OPEN
      /\ <<CLOSE>> \in Seq(S) /\ Len(<<CLOSE>>) = 1 /\ <<CLOSE>>[1] = CLOSE
  OBVIOUS
<1>4. middle \in Seq(S) /\ Len(middle) = m
  BY <1>1, IsASeq
<1>5. \A i \in 1..m : middle[i] = IF i % 2 = 1 THEN "EVALUATE" ELSE SEPARATOR
  OBVIOUS
<1> HIDE DEF middle, S
<1>6. /\ beginning \in Seq(S) /\ Len(beginning) = 1 + m
      /\ \A s \in 1..(1 + m) : beginning[s] = IF s <= 1 THEN <<OPEN>>[s] ELSE middle[s - 1]
  BY <1>3, <1>4, ConcatProperties
<1> HIDE DEF beginning
<1>7. /\ Len(list) = 1 + m + 1
      /\ \A s \in 1..(1 + m + 1) :
            list[s] = IF s <= 1 + m THEN beginning[s] ELSE <<CLOSE>>[s - (1 + m)]
  BY <1>3, <1>6, ConcatProperties
<1> HIDE DEF list
<1>8. list[1] = OPEN
  <2>1. beginning[1] = <<OPEN>>[1]
    BY <1>1, <1>6
  <2>2. list[1] = beginning[1]
    BY <1>1, <1>7
  <2>3. QED
    BY <1>3, <2>1, <2>2, Zenon
<1>9. list[m + 2] = CLOSE
  BY <1>1, <1>3, <1>7
<1>10. ASSUME NEW s \in 2..(m + 1)
       PROVE  list[s] = IF s % 2 = 0 THEN "EVALUATE" ELSE SEPARATOR
  <2>1. list[s] = middle[s - 1] /\ s - 1 \in 1..m
    BY <1>1, <1>6, <1>7
  <2>2. (s - 1) % 2 = 1 <=> s % 2 = 0
    BY <1>1
  <2>3. QED
    BY <1>5, <2>1, <2>2
<1>11. Len(list) = m + 2
  BY <1>1, <1>7
<1>12. QED
  BY <1>2, <1>8, <1>9, <1>10, <1>11 DEF m

\* A list has a length.
LEMMA StepsLength ==
    ASSUME NEW form \in Dispatchable
    PROVE  Len(Steps(form)) \in Nat
<1>1. CASE form \in Forms
  <2>1. Len(Steps(form)) = 5 \/ Len(Steps(form)) = 7
    BY <1>1, StepCounts, Zenon DEF Forms
  <2>2. QED
    BY <2>1
<1>2. CASE form \in DOMAIN Templates
  <2>1. form \notin Forms
    BY <1>2, DeclarationAssumption
  <2>2. Steps(form) = TemplateSteps(Len(Templates[form].parameters))
    BY <2>1 DEF Steps, Forms
  <2>3. Templates[form] \in [parameters : Seq(Names), body : Seq(Atom)]
    BY <1>2, DeclarationAssumption
  <2>4. Len(Templates[form].parameters) \in Nat
    BY <2>3, LenProperties
  <2>5. QED
    BY <2>2, <2>4, TemplateStepList
<1>3. QED
  BY <1>1, <1>2 DEF Dispatchable

\* An argument is followed by a separator or by the end of the list.
LEMMA StepAfterArgument ==
    ASSUME NEW form \in Dispatchable, NEW s \in Nat \ {0}, s <= Len(Steps(form)),
           Steps(form)[s] = "EVALUATE"
    PROVE  s + 1 <= Len(Steps(form)) /\ Steps(form)[s + 1] \in {SEPARATOR, CLOSE}
<1>1. CASE form \in PrimitiveOperations
  <2>1. Steps(form) = <<OPEN, "EVALUATE", SEPARATOR, "EVALUATE", CLOSE>>
    BY <1>1, FormSteps
  <2>2. s \in 1..5
    BY <2>1
  <2>3. QED
    BY <2>1, <2>2 DEF OPEN, SEPARATOR, CLOSE
<1>2. CASE form = "Branch"
  <2>1. Steps(form) =
           <<OPEN, "EVALUATE", SEPARATOR, "EVALUATE", SEPARATOR, "EVALUATE", CLOSE>>
    BY <1>2, FormSteps, Zenon
  <2>2. s \in 1..7
    BY <2>1
  <2>3. QED
    BY <2>1, <2>2 DEF OPEN, SEPARATOR, CLOSE
<1>3. CASE form = "Loop"
  <2>1. Steps(form) = <<OPEN, "EVALUATE", SEPARATOR, "NAME", CLOSE>>
    BY <1>3, FormSteps, Zenon
  <2>2. s \in 1..5
    BY <2>1
  <2>3. QED
    BY <2>1, <2>2 DEF OPEN, SEPARATOR, CLOSE
<1>4. CASE form = "write_offset"
  <2>1. Steps(form) =
           <<OPEN, "NAME", SEPARATOR, "EVALUATE", SEPARATOR, "EVALUATE", CLOSE>>
    BY <1>4, FormSteps, Zenon
  <2>2. s \in 1..7
    BY <2>1
  <2>3. QED
    BY <2>1, <2>2 DEF OPEN, SEPARATOR, CLOSE
<1>5. CASE form = "read_offset"
  <2>1. Steps(form) = <<OPEN, "NAME", SEPARATOR, "EVALUATE", CLOSE>>
    BY <1>5, FormSteps, Zenon
  <2>2. s \in 1..5
    BY <2>1
  <2>3. QED
    BY <2>1, <2>2 DEF OPEN, SEPARATOR, CLOSE
<1>6. CASE form \in DOMAIN Templates
  <2> DEFINE count == Len(Templates[form].parameters)
             m == IF count = 0 THEN 0 ELSE 2 * count - 1
             list == TemplateSteps(count)
  <2>1. form \notin Forms
    BY <1>6, DeclarationAssumption
  <2>2. Steps(form) = list
    BY <2>1 DEF Steps, Forms
  <2>3. Templates[form] \in [parameters : Seq(Names), body : Seq(Atom)]
    BY <1>6, DeclarationAssumption
  <2>4. count \in Nat
    BY <2>3, LenProperties
  <2> HIDE DEF count
  <2>5. /\ Len(list) = m + 2 /\ list[1] = OPEN /\ list[m + 2] = CLOSE
        /\ \A k \in 2..(m + 1) : list[k] = IF k % 2 = 0 THEN "EVALUATE" ELSE SEPARATOR
    BY <2>4, TemplateStepList
  <2>6. (m = 0 \/ (m + 1) % 2 = 0) /\ m \in Nat
    BY <2>4
  <2> HIDE DEF m, list
  <2>7. s \in 2..(m + 1)
    BY <2>2, <2>5, <2>6 DEF OPEN, CLOSE
  <2>8. s % 2 = 0
    BY <2>2, <2>5, <2>7 DEF SEPARATOR
  <2>9. CASE s = m + 1
    BY <2>2, <2>5, <2>6, <2>7, <2>9
  <2>10. CASE s < m + 1
    <3>1. s + 1 \in 2..(m + 1) /\ (s + 1) % 2 # 0
      BY <2>6, <2>7, <2>8, <2>10
    <3>2. QED
      BY <2>2, <2>5, <2>6, <2>7, <3>1
  <2>11. QED
    BY <2>6, <2>7, <2>9, <2>10
<1>7. QED
  BY <1>1, <1>2, <1>3, <1>4, <1>5, <1>6 DEF Dispatchable, Forms

-----------------------------------------------------------------------------
(* What most steps leave alone. *)

\* Reading an atom opens and closes no scanner.
LEMMA ScannersKept ==
    ASSUME TypeOK, TypeOK', NEW atom, Consume(atom)
    PROVE  Len(body_scanners') = Len(body_scanners)
<1> DEFINE S == [template : DOMAIN Templates, position : Nat \ {0}]
<1>1. body_scanners \in Seq(S) /\ body_scanners' \in Seq(S)
  BY DEF TypeOK
<1> HIDE DEF S
<1>2. DOMAIN body_scanners' = DOMAIN body_scanners
  BY DEF Consume
<1>3. QED
  BY <1>1, <1>2, LenProperties

\* An expectation reports at most the first failure, and is not met after one.
LEMMA ExpectationSilent ==
    ASSUME TypeOK, TypeOK', Silent, NEW kind, NEW accepted, NEW rejected,
           ExpectAtom(kind, accepted, rejected)
    PROVE  /\ Len(body_scanners') = Len(body_scanners)
           /\ control' \in {accepted, rejected}
           /\ HasFailed' => control' = rejected /\ reported_error_count' = 1
<1>1. CASE HasFailed /\ control' = rejected /\ UNCHANGED <<scanner_vars, reported_error_count>>
  BY <1>1 DEF Silent, HasFailed, scanner_vars
<1>2. CASE /\ ~HasFailed
           /\ \E atom \in NextAtoms :
                 /\ Consume(atom)
                 /\ IF atom.kind = kind
                    THEN control' = accepted /\ UNCHANGED <<result, reported_error_count>>
                    ELSE control' = rejected /\ result' = Zero /\ ReportError
  <2>1. PICK atom \in NextAtoms :
                 /\ Consume(atom)
                 /\ IF atom.kind = kind
                    THEN control' = accepted /\ UNCHANGED <<result, reported_error_count>>
                    ELSE control' = rejected /\ result' = Zero /\ ReportError
    BY <1>2
  <2>2. Len(body_scanners') = Len(body_scanners)
    BY <2>1, ScannersKept
  <2>3. reported_error_count = 0
    BY <1>2 DEF TypeOK, HasFailed
  <2>4. CASE atom.kind = kind
    BY <2>1, <2>2, <2>3, <2>4 DEF HasFailed
  <2>5. CASE atom.kind # kind
    BY <2>1, <2>2, <2>3, <2>5 DEF ReportError
  <2>6. QED
    BY <2>4, <2>5
<1>3. QED
  BY <1>1, <1>2 DEF ExpectAtom

\* Rewriting the top of the stack.
LEMMA TopUpdated ==
    ASSUME TypeOK, TypeOK', activations # <<>>, NEW a, UpdateActive(a)
    PROVE  /\ Len(activations') = Len(activations)
           /\ Len(activations) \in Nat \ {0}
           /\ \A i \in 1..Len(activations) :
                 i < Len(activations) => activations'[i] = activations[i]
           /\ activations'[Len(activations)] = a
           /\ Active' = a
<1>1. /\ activations \in Seq(Activation) /\ activations' \in Seq(Activation)
      /\ activations' = [activations EXCEPT ![Len(activations)] = a]
  BY DEF TypeOK, UpdateActive
<1>2. Len(activations) \in Nat \ {0}
  BY <1>1, EmptySeq
<1>3. DOMAIN activations' = DOMAIN activations /\ DOMAIN activations = 1..Len(activations)
  BY <1>1, LenProperties
<1>4. Len(activations') = Len(activations)
  BY <1>1, <1>3, LenProperties
<1>5. activations'[Len(activations)] = a
  BY <1>1, <1>2, <1>3
<1>6. \A i \in 1..Len(activations) :
         i < Len(activations) => activations'[i] = activations[i]
  <2> SUFFICES ASSUME NEW i \in 1..Len(activations), i < Len(activations)
               PROVE  activations'[i] = activations[i]
    OBVIOUS
  <2>1. i # Len(activations)
    BY <1>2
  <2>2. i \in DOMAIN activations
    BY <1>3, Zenon
  <2>3. QED
    BY <1>1, <2>1, <2>2, Zenon
<1>7. QED
  BY <1>2, <1>4, <1>5, <1>6 DEF Active, Last

\* The set of bodies is finite.
LEMMA BodiesFinite ==
    ASSUME TypeOK
    PROVE  Len(activations) \in Nat /\ IsFiniteSet(InBody) /\ InBody \subseteq 1..Len(activations)
<1>1. Len(activations) \in Nat
  BY LenProperties DEF TypeOK
<1>2. InBody \subseteq 1..Len(activations)
  BY DEF InBody
<1>3. IsFiniteSet(1..Len(activations))
  BY <1>1, FS_Interval
<1>4. QED
  BY <1>1, <1>2, <1>3, FS_Subset

\* A step within an activation suspends nothing and resumes nothing.
LEMMA Quiet ==
    ASSUME TypeOK, Awaiting, Bodies,
           Len(activations') = Len(activations),
           \A i \in 1..Len(activations) :
              i < Len(activations) => activations'[i] = activations[i],
           control \notin {"evaluate", "return"}, control' \notin {"evaluate", "return"},
           Len(body_scanners') = Len(body_scanners)
    PROVE  Awaiting' /\ Bodies'
<1>1. \A i \in 1..Len(activations) :
         Suspended(i)' <=> Suspended(i)
  BY DEF Suspended
<1>2. \A i \in 1..Len(activations) :
         Suspended(i) => activations'[i] = activations[i]
  BY DEF Suspended
<1>3. Awaiting'
  BY <1>1, <1>2 DEF Awaiting
<1>4. InBody' = InBody
  BY <1>1, <1>2 DEF InBody
<1>5. QED
  BY <1>3, <1>4 DEF Bodies

\* Without activations there is nothing to suspend.
LEMMA NothingSuspended ==
    ASSUME Bodies, activations = <<>>, activations' = <<>>,
           Len(body_scanners') = Len(body_scanners)
    PROVE  Awaiting' /\ Bodies'
<1>1. Len(activations) = 0 /\ Len(activations') = 0
  BY EmptySeq
<1>2. InBody = {} /\ InBody' = {}
  BY <1>1 DEF InBody
<1>3. QED
  BY <1>1, <1>2 DEF Awaiting, Bodies

-----------------------------------------------------------------------------
(* The directives. *)

\* Before a failure no error has been counted.
LEMMA NoneReported ==
    ASSUME TypeOK, ~HasFailed
    PROVE  reported_error_count = 0
BY DEF TypeOK, HasFailed

\* ReadDirective preserves the invariant of unwinding.
LEMMA ReadDirectiveUnwinds ==
    ASSUME UInv, IInv', ReadDirective
    PROVE  UInv'
<1> USE DEF UInv
<1>1. control = "directive" /\ ~HasFailed /\ UNCHANGED activations
  BY DEF ReadDirective, Silent
<1>2. PICK atom \in NextAtoms :
         /\ Consume(atom)
         /\ control' \in {"halted", "open"}
         /\ \/ UNCHANGED reported_error_count
            \/ control' = "halted" /\ ReportError
  BY DEF ReadDirective
<1>3. Len(body_scanners') = Len(body_scanners)
  BY <1>2, ScannersKept DEF IInv
<1>4. Awaiting' /\ Bodies'
  BY <1>1, <1>2, <1>3, Quiet DEF IInv
<1>5. Dispatched'
  BY <1>2 DEF Dispatched
<1>6. Silent'
  BY <1>1, <1>2, NoneReported DEF Silent, IInv, HasFailed, ReportError
<1>7. QED
  BY <1>4, <1>5, <1>6

\* BeginCommit preserves the invariant of unwinding.
LEMMA BeginCommitUnwinds ==
    ASSUME UInv, IInv', BeginCommit
    PROVE  UInv'
<1> USE DEF UInv
<1>1. control = "open" /\ UNCHANGED activations /\ activations = <<>>
  BY DEF BeginCommit, IInv, Stacked, AtRest
<1>2. /\ Len(body_scanners') = Len(body_scanners)
      /\ control' \in {"evaluate", "halted"}
      /\ HasFailed' => control' = "halted" /\ reported_error_count' = 1
  BY ExpectationSilent DEF BeginCommit, IInv
<1>3. Awaiting' /\ Bodies'
  BY <1>1, <1>2, NothingSuspended
<1>4. Dispatched' /\ Silent'
  BY <1>2 DEF Dispatched, Silent
<1>5. QED
  BY <1>3, <1>4

\* Synchronise preserves the invariant of unwinding.
LEMMA SynchroniseUnwinds ==
    ASSUME UInv, IInv', Synchronise
    PROVE  UInv'
<1> USE DEF UInv
<1>1. /\ activations = <<>> /\ control' = "close"
      /\ UNCHANGED <<activations, body_scanners, reported_error_count>>
  BY DEF Synchronise, scanner_vars
<1>2. Awaiting' /\ Bodies'
  BY <1>1, NothingSuspended
<1>3. Dispatched' /\ Silent'
  BY <1>1 DEF Dispatched, Silent, HasFailed
<1>4. QED
  BY <1>2, <1>3

\* CloseCommit preserves the invariant of unwinding.
LEMMA CloseCommitUnwinds ==
    ASSUME UInv, IInv', CloseCommit
    PROVE  UInv'
<1> USE DEF UInv
<1>1. control = "close" /\ UNCHANGED activations
  BY DEF CloseCommit
<1>2. /\ Len(body_scanners') = Len(body_scanners)
      /\ control' \in {"report", "halted"}
      /\ HasFailed' => control' = "halted" /\ reported_error_count' = 1
  BY ExpectationSilent DEF CloseCommit, IInv
<1>3. Awaiting' /\ Bodies'
  BY <1>1, <1>2, Quiet DEF IInv
<1>4. Dispatched' /\ Silent'
  BY <1>2 DEF Dispatched, Silent
<1>5. QED
  BY <1>3, <1>4

\* ReportCommit preserves the invariant of unwinding.
LEMMA ReportCommitUnwinds ==
    ASSUME UInv, IInv', ReportCommit
    PROVE  UInv'
<1> USE DEF UInv
<1>1. /\ control = "report" /\ control' \in {"halted", "directive"}
      /\ HasFailed => control' = "halted"
      /\ UNCHANGED <<activations, body_scanners, reported_error_count>>
  BY DEF ReportCommit, scanner_vars
<1>2. Awaiting' /\ Bodies'
  BY <1>1, Quiet DEF IInv
<1>3. Dispatched' /\ Silent'
  BY <1>1 DEF Dispatched, Silent, HasFailed
<1>4. QED
  BY <1>2, <1>3

-----------------------------------------------------------------------------
(* Entering and leaving an expression. *)

\* RefuseEvaluation preserves the invariant of unwinding.
LEMMA RefuseEvaluationUnwinds ==
    ASSUME UInv, IInv', RefuseEvaluation
    PROVE  UInv'
<1> USE DEF UInv
<1>1. /\ control = "evaluate" /\ control' = "return"
      /\ UNCHANGED <<activations, body_scanners>>
      /\ HasFailed => UNCHANGED reported_error_count
      /\ ~HasFailed => ReportError
  BY DEF RefuseEvaluation, scanner_vars
<1>2. \A i \in 1..Len(activations) : Suspended(i) /\ Suspended(i)'
  BY <1>1 DEF Suspended
<1>3. Awaiting' /\ InBody' = InBody
  BY <1>1, <1>2 DEF Awaiting, InBody
<1>4. Bodies'
  BY <1>1, <1>3 DEF Bodies
<1>5. Dispatched' /\ Silent'
  BY <1>1, NoneReported DEF Dispatched, Silent, HasFailed, ReportError, IInv
<1>6. QED
  BY <1>3, <1>4, <1>5

\* EnterActivation preserves the invariant of unwinding.
LEMMA EnterActivationUnwinds ==
    ASSUME UInv, IInv', EnterActivation
    PROVE  UInv'
<1> USE DEF UInv
<1>1. /\ control = "evaluate" /\ control' = "dispatch" /\ ~HasFailed
      /\ UNCHANGED <<body_scanners, reported_error_count>>
  BY DEF EnterActivation, scanner_vars
<1>2. PICK a : activations' = Append(activations, a)
  BY DEF EnterActivation
<1>3. Len(activations) \in Nat /\ Len(activations') \in Nat
  BY LenProperties DEF IInv, TypeOK
<1>4. /\ Len(activations') = Len(activations) + 1
      /\ \A i \in 1..Len(activations) : activations'[i] = activations[i]
  BY <1>2 DEF IInv, TypeOK
<1>5. \A i \in 1..Len(activations') : Suspended(i)' <=> i \in 1..Len(activations)
  BY <1>1, <1>3, <1>4 DEF Suspended
<1>6. \A i \in 1..Len(activations) : Suspended(i)
  BY <1>1 DEF Suspended
<1>7. Awaiting'
  BY <1>3, <1>4, <1>5, <1>6 DEF Awaiting
<1>8. InBody' = InBody
  BY <1>3, <1>4, <1>5, <1>6 DEF InBody
<1>9. Bodies'
  BY <1>1, <1>8 DEF Bodies
<1>10. Dispatched' /\ Silent'
  BY <1>1 DEF Dispatched, Silent, HasFailed
<1>11. QED
  BY <1>7, <1>9, <1>10

\* LeaveActivation preserves the invariant of unwinding.
LEMMA LeaveActivationUnwinds ==
    ASSUME UInv, IInv', LeaveActivation
    PROVE  UInv'
<1> USE DEF UInv
<1>1. /\ control = "leave" /\ control' = "return"
      /\ activations' = Front(activations)
      /\ UNCHANGED <<body_scanners, reported_error_count>>
  BY DEF LeaveActivation, scanner_vars
<1>2. activations \in Seq(Activation) /\ activations # <<>>
  BY <1>1 DEF IInv, TypeOK, Stacked, InActivation
<1>3. /\ Len(activations) \in Nat \ {0}
      /\ Len(activations') = Len(activations) - 1
      /\ \A i \in 1..(Len(activations) - 1) : activations'[i] = activations[i]
  BY <1>1, <1>2, PopTop
<1>4. \A i \in 1..Len(activations) : Suspended(i) <=> i \in 1..Len(activations')
  BY <1>1, <1>3 DEF Suspended
<1>5. \A i \in 1..Len(activations') : Suspended(i)'
  BY <1>1 DEF Suspended
<1>6. Awaiting'
  BY <1>3, <1>4, <1>5 DEF Awaiting
<1>7. InBody' = InBody
  BY <1>3, <1>4, <1>5 DEF InBody
<1>8. Bodies'
  BY <1>1, <1>7 DEF Bodies
<1>9. Dispatched' /\ Silent'
  BY <1>1 DEF Dispatched, Silent, HasFailed
<1>10. QED
  BY <1>6, <1>8, <1>9

-----------------------------------------------------------------------------
(* The handlers. *)

\* Dispatch preserves the invariant of unwinding.
LEMMA DispatchUnwinds ==
    ASSUME UInv, IInv', Dispatch
    PROVE  UInv'
<1> USE DEF UInv
<1>1. control = "dispatch" /\ ~HasFailed /\ activations # <<>>
  BY DEF Dispatch, Silent, IInv, Stacked, InActivation
<1>2. PICK atom \in NextAtoms :
         /\ Consume(atom)
         /\ \/ /\ control' = "leave"
               /\ UNCHANGED activations
               /\ \/ UNCHANGED reported_error_count
                  \/ ReportError
            \/ DispatchForm(atom)
  BY Zenon DEF Dispatch, DispatchLiteral, DispatchParameter, DispatchIdentity,
               DispatchNothing, Publish, Fail
<1>3. Len(body_scanners') = Len(body_scanners)
  BY <1>2, ScannersKept DEF IInv
<1>4. CASE /\ control' = "leave" /\ UNCHANGED activations
           /\ \/ UNCHANGED reported_error_count
              \/ ReportError
  <2>1. Awaiting' /\ Bodies'
    BY <1>1, <1>3, <1>4, Quiet DEF IInv
  <2>2. Dispatched' /\ Silent'
    BY <1>1, <1>4, NoneReported DEF Dispatched, Silent, HasFailed, ReportError, IInv
  <2>3. QED
    BY <2>1, <2>2
<1>5. CASE DispatchForm(atom)
  <2> DEFINE a == [Active EXCEPT !.form = atom.name]
  <2>1. /\ UpdateActive(a) /\ control' = "form" /\ UNCHANGED reported_error_count
        /\ atom.name \in Dispatchable
    BY <1>5 DEF DispatchForm, Dispatchable
  <2>2. a.form = atom.name
    <3>1. Active \in Activation
      BY <1>1, PopTop DEF IInv, TypeOK, Active
    <3>2. QED
      BY <3>1 DEF Activation
  <2> HIDE DEF a
  <2>3. /\ Len(activations') = Len(activations) /\ Active' = a
        /\ \A i \in 1..Len(activations) :
              i < Len(activations) => activations'[i] = activations[i]
    BY <1>1, <2>1, TopUpdated DEF IInv
  <2>4. Awaiting' /\ Bodies'
    BY <1>1, <1>3, <2>1, <2>3, Quiet DEF IInv
  <2>5. Dispatched' /\ Silent'
    BY <1>1, <2>1, <2>2, <2>3 DEF Dispatched, Silent, HasFailed
  <2>6. QED
    BY <2>4, <2>5
<1>6. QED
  BY <1>2, <1>4, <1>5

\* ExpectPunctuation preserves the invariant of unwinding.
LEMMA ExpectPunctuationUnwinds ==
    ASSUME UInv, IInv', ExpectPunctuation
    PROVE  UInv'
<1> USE DEF UInv
<1>1. /\ control = "form" /\ activations # <<>>
      /\ ExpectAtom(NextStep, "form", "leave") /\ UpdateActive(Advanced)
  BY DEF ExpectPunctuation, IInv, Stacked, InActivation
<1>2. /\ Len(body_scanners') = Len(body_scanners)
      /\ control' \in {"form", "leave"}
      /\ HasFailed' => control' = "leave" /\ reported_error_count' = 1
  BY <1>1, ExpectationSilent DEF IInv
<1>3. /\ Len(activations') = Len(activations) /\ Active' = Advanced
      /\ \A i \in 1..Len(activations) :
            i < Len(activations) => activations'[i] = activations[i]
  BY <1>1, TopUpdated DEF IInv
<1>4. Awaiting' /\ Bodies'
  BY <1>1, <1>2, <1>3, Quiet DEF IInv
<1>5. Active \in Activation
  BY <1>1, PopTop DEF IInv, TypeOK, Active
<1>6. Advanced.form = Active.form
  BY <1>5, AdvancedType
<1>7. Dispatched'
  BY <1>1, <1>3, <1>6 DEF Dispatched
<1>8. Silent'
  BY <1>2 DEF Silent
<1>9. QED
  BY <1>4, <1>7, <1>8

\* EvaluateOperand preserves the invariant of unwinding.
LEMMA EvaluateOperandUnwinds ==
    ASSUME UInv, IInv', EvaluateOperand
    PROVE  UInv'
<1> USE DEF UInv
<1>1. /\ control = "form" /\ control' = "evaluate" /\ activations # <<>>
      /\ ~ArgumentsRead /\ NextStep = "EVALUATE"
      /\ UNCHANGED <<activations, body_scanners, reported_error_count>>
  BY DEF EvaluateOperand, scanner_vars, IInv, Stacked, InActivation
<1>2. Len(activations) \in Nat \ {0} /\ Active = activations[Len(activations)]
  BY <1>1, PopTop DEF IInv, TypeOK, Active
<1>3. Awaits(activations[Len(activations)]) /\ ~HasBody(activations[Len(activations)])
  BY <1>1, <1>2 DEF Dispatched, Awaits, HasBody, NextStep, ArgumentsRead
<1>4. \A i \in 1..Len(activations) : Suspended(i) <=> i < Len(activations)
  BY <1>1 DEF Suspended
<1>5. \A i \in 1..Len(activations) : i < Len(activations) \/ i = Len(activations)
  BY <1>2
<1>6. Awaiting'
  BY <1>1, <1>3, <1>4, <1>5 DEF Awaiting
<1>7. \A i \in 1..Len(activations) : Suspended(i)'
  BY <1>1 DEF Suspended
<1>8. InBody' = InBody
  BY <1>1, <1>3, <1>4, <1>5, <1>7 DEF InBody
<1>9. Bodies'
  BY <1>1, <1>8 DEF Bodies
<1>10. Dispatched' /\ Silent'
  BY <1>1 DEF Dispatched, Silent, HasFailed
<1>11. QED
  BY <1>6, <1>9, <1>10

\* ReturnOperand preserves the invariant of unwinding.
LEMMA ReturnOperandUnwinds ==
    ASSUME UInv, IInv', ReturnOperand
    PROVE  UInv'
<1> USE DEF UInv
<1> DEFINE a == [Advanced EXCEPT !.operands = Append(@, result)]
<1>1. /\ control = "return" /\ control' = "form" /\ activations # <<>> /\ ~ArgumentsRead
      /\ UpdateActive(a)
      /\ UNCHANGED <<body_scanners, reported_error_count>>
  BY DEF ReturnOperand, scanner_vars
<1>2. Len(activations) \in Nat \ {0} /\ Active = activations[Len(activations)]
  BY <1>1, PopTop DEF IInv, TypeOK, Active
<1>3. Active \in Activation /\ result \in Double
  BY <1>1, PopTop DEF IInv, TypeOK, Active
<1>4. Advanced \in Activation /\ Advanced.form = Active.form
      /\ Advanced.stage = Active.stage + 1
  BY <1>3, AdvancedType
<1>5. a.form = Active.form /\ a.stage = Active.stage + 1
  BY <1>3, <1>4, OperandType
<1> HIDE DEF a
<1>6. /\ Len(activations') = Len(activations)
      /\ \A i \in 1..Len(activations) :
            i < Len(activations) => activations'[i] = activations[i]
      /\ Active' = a
  BY <1>1, TopUpdated DEF IInv
<1>7. \A i \in 1..Len(activations) : Suspended(i)
  BY <1>1 DEF Suspended
<1>8. Awaits(Active) /\ ~HasBody(Active)
  BY <1>1, <1>2, <1>7 DEF Awaiting, ArgumentsRead, HasBody
<1>9. \A i \in 1..Len(activations) : Suspended(i)' <=> i < Len(activations)
  BY <1>1, <1>6 DEF Suspended
<1>10. Awaiting'
  BY <1>6, <1>7, <1>9 DEF Awaiting
<1>11. \A i \in 1..Len(activations) : i < Len(activations) \/ i = Len(activations)
  BY <1>2
<1>12. InBody' = InBody
  BY <1>2, <1>6, <1>7, <1>8, <1>9, <1>11 DEF InBody
<1>13. Bodies'
  BY <1>1, <1>12 DEF Bodies
<1>14. Dispatched'
  BY <1>5, <1>6, <1>8 DEF Dispatched, Awaits
<1>15. /\ a.stage <= Len(Steps(a.form))
       /\ Steps(a.form)[a.stage] \in {SEPARATOR, CLOSE}
  <2>1. Active.stage \in Nat \ {0}
    BY <1>3 DEF Activation
  <2>2. /\ Active.form \in Dispatchable /\ ~(Active.stage > Len(Steps(Active.form)))
        /\ Steps(Active.form)[Active.stage] = "EVALUATE"
    BY <1>8 DEF Awaits, HasBody
  <2>3. Len(Steps(Active.form)) \in Nat
    BY <2>2, StepsLength
  <2>4. Active.stage <= Len(Steps(Active.form))
    BY <2>1, <2>2, <2>3
  <2>5. QED
    BY <1>5, <2>1, <2>2, <2>4, StepAfterArgument
<1>16. Silent'
  <2>1. a.stage \in Nat /\ Len(Steps(a.form)) \in Nat
    <3>1. Active.stage \in Nat
      BY <1>3 DEF Activation
    <3>2. a.form \in Dispatchable
      BY <1>5, <1>8 DEF Awaits
    <3>3. QED
      BY <1>5, <3>1, <3>2, StepsLength
  <2>2. ~(a.stage > Len(Steps(a.form)))
    BY <1>15, <2>1
  <2>3. ~ArgumentsRead' /\ NextStep' \in {SEPARATOR, CLOSE}
    BY <1>6, <1>15, <2>2 DEF ArgumentsRead, NextStep
  <2>4. QED
    BY <1>1, <2>3 DEF Silent, HasFailed
<1>17. QED
  BY <1>10, <1>13, <1>14, <1>16

\* ReadName preserves the invariant of unwinding.
LEMMA ReadNameUnwinds ==
    ASSUME UInv, IInv', ReadName
    PROVE  UInv'
<1> USE DEF UInv
<1>1. control = "form" /\ NextStep = "NAME" /\ activations # <<>>
  BY DEF ReadName, IInv, Stacked, InActivation
<1>2. ~HasFailed
  BY <1>1 DEF Silent, SEPARATOR, CLOSE
<1>3. PICK atom \in NextAtoms :
         /\ Consume(atom)
         /\ \/ /\ UpdateActive([Advanced EXCEPT !.name = atom.name])
               /\ UNCHANGED <<control, reported_error_count>>
            \/ control' = "leave" /\ ReportError /\ UNCHANGED activations
  BY Zenon DEF ReadName
<1>4. Len(body_scanners') = Len(body_scanners)
  BY <1>3, ScannersKept DEF IInv
<1>5. CASE control' = "leave" /\ ReportError /\ UNCHANGED activations
  <2>1. Awaiting' /\ Bodies'
    BY <1>1, <1>4, <1>5, Quiet DEF IInv
  <2>2. Dispatched' /\ Silent'
    BY <1>2, <1>5, NoneReported DEF Dispatched, Silent, HasFailed, ReportError, IInv
  <2>3. QED
    BY <2>1, <2>2
<1>6. CASE /\ UpdateActive([Advanced EXCEPT !.name = atom.name])
           /\ UNCHANGED <<control, reported_error_count>>
  <2> DEFINE a == [Advanced EXCEPT !.name = atom.name]
  <2>1. UpdateActive(a)
    BY <1>6
  <2>2. Active \in Activation
    BY <1>1, PopTop DEF IInv, TypeOK, Active
  <2>3. Advanced \in Activation /\ Advanced.form = Active.form
    BY <2>2, AdvancedType
  <2>4. a.form = Active.form
    BY <2>3 DEF Activation
  <2> HIDE DEF a
  <2>5. /\ Len(activations') = Len(activations) /\ Active' = a
        /\ \A i \in 1..Len(activations) :
              i < Len(activations) => activations'[i] = activations[i]
    BY <1>1, <2>1, TopUpdated DEF IInv
  <2>6. Awaiting' /\ Bodies'
    BY <1>1, <1>4, <1>6, <2>5, Quiet DEF IInv
  <2>7. Dispatched'
    BY <1>1, <1>6, <2>4, <2>5 DEF Dispatched
  <2>8. Silent'
    BY <1>2, <1>6 DEF Silent, HasFailed
  <2>9. QED
    BY <2>6, <2>7, <2>8
<1>7. QED
  BY <1>3, <1>5, <1>6

\* A form concludes only if nothing has failed.
LEMMA ConcludesUnfailed ==
    ASSUME UInv, control = "form", ArgumentsRead
    PROVE  ~HasFailed
BY DEF UInv, Silent

\* A handler that returns its value, or reports the one failure, unwinds.
LEMMA HandlerUnwinds ==
    ASSUME UInv, IInv', control \in {"form", "iterate"}, control' = "leave",
           UNCHANGED <<activations, body_scanners>>,
           \/ UNCHANGED reported_error_count
           \/ ReportError /\ ~HasFailed
    PROVE  UInv'
<1> USE DEF UInv
<1>1. Awaiting' /\ Bodies'
  BY Quiet DEF IInv
<1>2. Dispatched' /\ Silent'
  BY NoneReported DEF Dispatched, Silent, HasFailed, ReportError, IInv
<1>3. QED
  BY <1>1, <1>2

\* Concluding a form that evaluates no body preserves the invariant.
LEMMA ConclusionUnwinds ==
    ASSUME UInv, IInv',
           ApplyPrimitive \/ SelectBranch \/ WriteOffset \/ ReadOffset \/ EndLoop
    PROVE  UInv'
<1>1. CASE ApplyPrimitive
  BY <1>1, HandlerUnwinds DEF ApplyPrimitive, Concluding, Publish, scanner_vars
<1>2. CASE SelectBranch
  BY <1>2, HandlerUnwinds DEF SelectBranch, Concluding, Publish, scanner_vars
<1>3. CASE WriteOffset
  <2>1. control = "form" /\ control' = "leave" /\ UNCHANGED <<activations, body_scanners>>
    BY <1>3 DEF WriteOffset, Concluding, Publish, Fail, scanner_vars
  <2>2. ~HasFailed
    BY <1>3, ConcludesUnfailed DEF WriteOffset, Concluding
  <2>3. \/ UNCHANGED reported_error_count
        \/ ReportError
    BY <1>3, Zenon DEF WriteOffset
  <2>4. QED
    BY <2>1, <2>2, <2>3, HandlerUnwinds
<1>4. CASE ReadOffset
  <2>1. control = "form" /\ control' = "leave" /\ UNCHANGED <<activations, body_scanners>>
    BY <1>4 DEF ReadOffset, Concluding, Publish, Fail, scanner_vars
  <2>2. ~HasFailed
    BY <1>4, ConcludesUnfailed DEF ReadOffset, Concluding
  <2>3. \/ UNCHANGED reported_error_count
        \/ ReportError
    BY <1>4, Zenon DEF ReadOffset
  <2>4. QED
    BY <2>1, <2>2, <2>3, HandlerUnwinds
<1>5. CASE EndLoop
  BY <1>5, HandlerUnwinds DEF EndLoop, Publish, Fail, scanner_vars
<1>6. QED
  BY <1>1, <1>2, <1>3, <1>4, <1>5

\* BeginLoop preserves the invariant of unwinding.
LEMMA BeginLoopUnwinds ==
    ASSUME UInv, IInv', BeginLoop
    PROVE  UInv'
<1> USE DEF UInv
<1>1. /\ control = "form" /\ Active.form = "Loop"
      /\ UNCHANGED <<activations, body_scanners>>
      /\ \/ control' = "iterate" /\ UNCHANGED reported_error_count
         \/ control' = "leave" /\ ReportError
  BY DEF BeginLoop, Concluding, scanner_vars
<1>2. ~HasFailed
  BY ConcludesUnfailed DEF BeginLoop, Concluding
<1>3. Awaiting' /\ Bodies'
  BY <1>1, Quiet DEF IInv
<1>4. Dispatched'
  BY <1>1 DEF Dispatched, Dispatchable, Forms, Active
<1>5. Silent'
  BY <1>1, <1>2, NoneReported DEF Silent, HasFailed, ReportError, IInv
<1>6. QED
  BY <1>3, <1>4, <1>5

-----------------------------------------------------------------------------
(* Template bodies. *)

\* A body is entered with a scanner of its own.
LEMMA BodyEntered ==
    ASSUME UInv, IInv', activations # <<>>,
           control \in {"form", "iterate"}, control' = "evaluate",
           Len(activations') = Len(activations),
           \A i \in 1..Len(activations) :
              i < Len(activations) => activations'[i] = activations[i],
           Active' = activations'[Len(activations)],
           HasBody(Active'), Active'.form \in Dispatchable,
           Len(body_scanners') = Len(body_scanners) + 1,
           UNCHANGED reported_error_count
    PROVE  UInv'
<1> USE DEF UInv
<1> DEFINE n == Len(activations)
<1>1. n \in Nat \ {0}
  BY PopTop DEF IInv, TypeOK
<1>2. /\ \A i \in 1..n : Suspended(i) <=> i < n
      /\ \A i \in 1..n : Suspended(i)'
      /\ \A i \in 1..n : i < n \/ i = n
  BY <1>1 DEF Suspended
<1>3. Awaits(activations'[n])
  BY DEF Awaits
<1>4. Awaiting'
  BY <1>2, <1>3 DEF Awaiting
<1>5. HasBody(activations'[n]) /\ Len(activations') = n
  OBVIOUS
<1>6. \A i \in 1..n : i < n => activations'[i] = activations[i]
  OBVIOUS
<1>7. IsFiniteSet(InBody)
  BY BodiesFinite DEF IInv
<1> HIDE DEF n
<1>8. InBody = {i \in 1..n : i < n /\ HasBody(activations[i])}
  BY <1>2 DEF InBody, n
<1>9. InBody' = {i \in 1..n : HasBody(activations'[i])}
  BY <1>2, <1>5 DEF InBody
<1>10. InBody' = InBody \cup {n} /\ n \notin InBody
  BY <1>1, <1>2, <1>5, <1>6, <1>8, <1>9
<1>11. Cardinality(InBody') = Cardinality(InBody) + 1
  BY <1>7, <1>10, FS_AddElement
<1>12. Bodies'
  BY <1>11 DEF Bodies
<1>13. Dispatched' /\ Silent'
  BY DEF Dispatched, Silent, HasFailed
<1>14. QED
  BY <1>4, <1>12, <1>13

\* InvokeTemplate preserves the invariant of unwinding.
LEMMA InvokeTemplateUnwinds ==
    ASSUME UInv, IInv', InvokeTemplate
    PROVE  UInv'
<1> USE DEF UInv
<1>1. /\ control = "form" /\ ArgumentsRead /\ Active.form \in DOMAIN Templates
      /\ control' = "evaluate" /\ activations # <<>>
      /\ UNCHANGED <<activations, reported_error_count>>
  BY DEF InvokeTemplate, Concluding, EnterBody, IInv, Stacked, InActivation
<1>2. Len(body_scanners') = Len(body_scanners) + 1
  BY DEF InvokeTemplate, EnterBody, IInv, TypeOK
<1>3. Active' = activations'[Len(activations)]
  BY <1>1 DEF Active, Last
<1>4. HasBody(Active') /\ Active'.form \in Dispatchable
  BY <1>1 DEF HasBody, ArgumentsRead, Dispatchable, Active
<1>5. QED
  BY <1>1, <1>2, <1>3, <1>4, BodyEntered

\* IterateLoop preserves the invariant of unwinding.
LEMMA IterateLoopUnwinds ==
    ASSUME UInv, IInv', IterateLoop
    PROVE  UInv'
<1> USE DEF UInv
<1> DEFINE a == [Active EXCEPT !.iteration = @ + 1]
<1>1. /\ control = "iterate" /\ control' = "evaluate" /\ activations # <<>>
      /\ UpdateActive(a)
      /\ UNCHANGED reported_error_count
  BY DEF IterateLoop, EnterBody, IInv, Stacked, InActivation
<1>2. Len(body_scanners') = Len(body_scanners) + 1
  BY DEF IterateLoop, EnterBody, IInv, TypeOK
<1>3. Active \in Activation /\ Active.form = "Loop" /\ Active.stage > 5
  BY <1>1, PopTop DEF IInv, TypeOK, Active, Formed
<1>4. a.form = "Loop" /\ a.stage = Active.stage
  BY <1>3 DEF Activation
<1> HIDE DEF a
<1>5. /\ Len(activations') = Len(activations)
      /\ \A i \in 1..Len(activations) :
            i < Len(activations) => activations'[i] = activations[i]
      /\ Active' = a /\ activations'[Len(activations)] = a
  BY <1>1, TopUpdated DEF IInv
<1>6. Len(Steps("Loop")) = 5
  BY StepCounts
<1>7. HasBody(Active') /\ Active'.form \in Dispatchable
  BY <1>3, <1>4, <1>5, <1>6 DEF HasBody, Dispatchable, Forms
<1>8. QED
  BY <1>1, <1>2, <1>5, <1>7, BodyEntered

\* ReturnBody preserves the invariant of unwinding.
LEMMA ReturnBodyUnwinds ==
    ASSUME UInv, IInv', ReturnBody
    PROVE  UInv'
<1> USE DEF UInv
<1> DEFINE n == Len(activations)
<1>1. /\ control = "return" /\ activations # <<>> /\ ArgumentsRead
      /\ body_scanners' = Front(body_scanners)
      /\ control' \in {"iterate", "leave"}
      /\ control' = "iterate" => Active.form = "Loop"
      /\ UNCHANGED <<activations, reported_error_count>>
  BY DEF ReturnBody
<1>2. n \in Nat \ {0} /\ Active = activations[n]
  BY <1>1, PopTop DEF IInv, TypeOK, Active
<1>3. /\ \A i \in 1..n : Suspended(i)
      /\ \A i \in 1..n : Suspended(i)' <=> i < n
      /\ \A i \in 1..n : i < n \/ i = n
  BY <1>1, <1>2 DEF Suspended
<1>4. Awaiting'
  BY <1>1, <1>3 DEF Awaiting
<1>5. HasBody(activations[n])
  BY <1>1, <1>2 DEF HasBody, ArgumentsRead
<1>6. IsFiniteSet(InBody)
  BY BodiesFinite DEF IInv
<1>7. InBody' = {i \in 1..n : i < n /\ HasBody(activations[i])}
  BY <1>1, <1>3 DEF InBody
<1>8. InBody = {i \in 1..n : HasBody(activations[i])}
  BY <1>3 DEF InBody
<1> HIDE DEF n
<1>9. InBody' = InBody \ {n} /\ n \in InBody
  BY <1>2, <1>3, <1>5, <1>7, <1>8
<1>10. Cardinality(InBody') = Cardinality(InBody) - 1
  BY <1>6, <1>9, FS_RemoveElement
<1>11. body_scanners # <<>>
  <2>1. Cardinality(InBody) # 0
    BY <1>6, <1>9, FS_EmptySet
  <2>2. QED
    BY <2>1, EmptySeq DEF Bodies
<1>12. Len(body_scanners') = Len(body_scanners) - 1
  BY <1>1, <1>11, PopTop DEF IInv, TypeOK
<1>13. Bodies'
  BY <1>10, <1>12 DEF Bodies
<1>14. Dispatched'
  BY <1>1 DEF Dispatched, Dispatchable, Forms, Active
<1>15. Silent'
  BY <1>1 DEF Silent, HasFailed
<1>16. QED
  BY <1>4, <1>13, <1>14, <1>15

-----------------------------------------------------------------------------
(* The theorems. *)

\* Nothing has begun or failed.
LEMMA UnwindingInitially ==
    ASSUME Init
    PROVE  UInv
<1>1. IInv
  BY Initially
<1>2. Len(activations) = 0 /\ Len(body_scanners) = 0
  BY EmptySeq DEF Init
<1>3. InBody = {}
  BY <1>2 DEF InBody
<1>4. Awaiting /\ Bodies
  BY <1>2, <1>3, FS_EmptySet DEF Awaiting, Bodies
<1>5. Dispatched /\ Silent
  BY DEF Init, Dispatched, Silent, HasFailed
<1>6. QED
  BY <1>1, <1>4, <1>5 DEF UInv

\* Every step preserves the invariant.
LEMMA UnwindingInductive ==
    ASSUME UInv, [Next]_vars
    PROVE  UInv'
<1>1. IInv'
  BY Inductive DEF UInv
<1>2. CASE UNCHANGED vars
  BY <1>1, <1>2 DEF vars, UInv, Awaiting, Dispatched, Bodies, Silent, InBody, Suspended,
                    HasFailed, ArgumentsRead, NextStep, Active
<1>3. CASE Halt
  BY <1>2, <1>3 DEF Halt
<1>4. CASE Next /\ ~Halt
  BY <1>1, <1>4, ReadDirectiveUnwinds, BeginCommitUnwinds, SynchroniseUnwinds,
     CloseCommitUnwinds, ReportCommitUnwinds, RefuseEvaluationUnwinds, EnterActivationUnwinds,
     LeaveActivationUnwinds, DispatchUnwinds, ExpectPunctuationUnwinds, EvaluateOperandUnwinds,
     ReturnOperandUnwinds, ReadNameUnwinds, ConclusionUnwinds, InvokeTemplateUnwinds,
     BeginLoopUnwinds, IterateLoopUnwinds, ReturnBodyUnwinds
     DEF Next
<1>5. QED
  BY <1>2, <1>3, <1>4

\* The invariant of unwinding holds in every reachable state.
THEOREM UnwindingHolds == Spec => []UInv
<1>1. Init => UInv
  BY UnwindingInitially
<1>2. UInv /\ [Next]_vars => UInv'
  BY UnwindingInductive
<1>3. QED
  BY <1>1, <1>2, PTL DEF Spec

\* However deep the expression that is unwound, its one defect is reported once.
THEOREM FailuresReportedOnce == Spec => []AtMostOneDiagnostic
<1>1. UInv => AtMostOneDiagnostic
  <2> SUFFICES ASSUME UInv PROVE reported_error_count <= 1
    BY DEF AtMostOneDiagnostic
  <2>1. reported_error_count = 1 \/ reported_error_count = 0
    BY NoneReported DEF UInv, IInv, Silent
  <2>2. QED
    BY <2>1
<1>2. QED
  BY <1>1, UnwindingHolds, PTL

\* A step after a failure has no effect.
LEMMA NoEffectAfterFailure ==
    ASSUME UInv, Next, HasFailed
    PROVE  UNCHANGED <<committed_values, arena_bytes, retired_cycle_count, text>>
<1>1. ~ReadDirective /\ ~Dispatch /\ ~ReadName
  BY DEF UInv, Silent, ReadDirective, Dispatch, ReadName, SEPARATOR, CLOSE
<1>2. ~ApplyPrimitive /\ ~SelectBranch /\ ~WriteOffset
  BY ConcludesUnfailed
     DEF ApplyPrimitive, SelectBranch, WriteOffset, Concluding
<1>3. CASE BeginCommit \/ CloseCommit \/ ExpectPunctuation
  BY <1>3 DEF BeginCommit, CloseCommit, ExpectPunctuation, ExpectAtom, scanner_vars,
                    file_vars
<1>4. CASE Synchronise \/ ReportCommit \/ RefuseEvaluation \/ EnterActivation
           \/ LeaveActivation
  BY <1>4 DEF Synchronise, ReportCommit, RefuseEvaluation, EnterActivation,
                    LeaveActivation, scanner_vars, file_vars
<1>5. CASE EvaluateOperand \/ ReturnOperand \/ ReadOffset \/ BeginLoop \/ EndLoop
  BY <1>5 DEF EvaluateOperand, ReturnOperand, ReadOffset, BeginLoop, EndLoop, scanner_vars,
              file_vars
<1>6. CASE InvokeTemplate \/ IterateLoop \/ ReturnBody
  BY <1>6 DEF InvokeTemplate, IterateLoop, ReturnBody, file_vars
<1>7. CASE Halt
  BY <1>7 DEF Halt, vars
<1>8. QED
  BY <1>1, <1>2, <1>3, <1>4, <1>5, <1>6, <1>7 DEF Next

\* After a failure nothing is committed, stored, charged or read.
THEOREM FailureHasNoEffect == Spec => NothingAfterFailure
<1> DEFINE effects == <<committed_values, arena_bytes, retired_cycle_count, text>>
<1>1. UInv /\ [Next]_vars => [HasFailed => UNCHANGED effects]_vars
  BY NoEffectAfterFailure
<1>2. QED
  BY <1>1, UnwindingHolds, PTL DEF Spec, NothingAfterFailure

\* Between two directives every stack is empty again, after a failure as well.
THEOREM RestoredAtRest == Spec => []BalancedAtRest
<1>1. UInv => BalancedAtRest
  <2> SUFFICES ASSUME UInv, control \in AtRest
               PROVE  /\ activations = <<>> /\ body_scanners = <<>>
                      /\ spill_stack_values = <<>> /\ current_evaluation_depth = 0
    BY DEF BalancedAtRest, AtRest
  <2>1. activations = <<>> /\ Len(activations) = 0
    BY EmptySeq DEF UInv, IInv, Stacked
  <2>2. current_evaluation_depth = 0
    BY <2>1 DEF UInv, IInv, Stacked
  <2>3. Len(spill_stack_values) = 0
    BY <2>1, LenProperties DEF UInv, IInv, TypeOK, Spills
  <2>4. Len(body_scanners) = 0
    <3>1. InBody = {}
      BY <2>1 DEF InBody
    <3>2. QED
      BY <3>1, FS_EmptySet DEF UInv, Bodies
  <2>5. body_scanners = <<>> /\ spill_stack_values = <<>>
    BY <2>3, <2>4, EmptySeq DEF UInv, IInv, TypeOK
  <2>6. QED
    BY <2>1, <2>2, <2>5
<1>2. QED
  BY <1>1, UnwindingHolds, PTL

-----------------------------------------------------------------------------
(***************************************************************************)
(* Which value a Commit prints.  The value travels back through the return *)
(* values of arbitrarily many calls, the register and the publication      *)
(* travel beside it; that they arrive together is because every expression *)
(* between the printed one and the one that computed its value works on    *)
(* register 0, which never wraps and so is never restored over.            *)
(***************************************************************************)

-----------------------------------------------------------------------------
(* The invariant. *)

\* The register an unfinished expression has its body or next argument
\* evaluated into, and the one the innermost evaluation is asked for.
DestinationWithin(a) ==
    IF HasBody(a) THEN a.destination
    ELSE a.destination + 1 + IF a.form \in Forms THEN Len(a.operands) ELSE 0
Requested == IF Len(activations) = 0 THEN 0 ELSE DestinationWithin(Active)

\* Every expression is evaluated into the register the one around it asked for.
Chained ==
    /\ Len(activations) > 0 => activations[1].destination = 0
    /\ \A i \in 1..Len(activations) :
          i < Len(activations) =>
             activations[i + 1].destination = DestinationWithin(activations[i])
    /\ control = "evaluate" => callee.destination = Requested

\* A register of the bank holds the value being returned, and is marked as written.
Holds(destination) ==
    destination < RegisterCount =>
       destination \in dirty_register_mask /\ result = register_values[destination]

Published ==
    ~HasFailed =>
       /\ control = "leave" => Holds(Active.destination)
       /\ control = "return" => Holds(Requested)
       /\ control \in {"close", "report"} =>
             /\ result = register_values[0]
             /\ HardwareSynchronisation => silicon[0] = register_values[0]

PInv == IInv /\ Chained /\ Published

-----------------------------------------------------------------------------
(* What most steps leave alone. *)

\* A destination within the bank does not wrap.
LEMMA WithinBank ==
    ASSUME NEW d \in Nat, d < RegisterCount
    PROVE  PhysicalRegister(d) = d /\ ~ExceedsBank(d) /\ d \in Registers
BY EvaluatorAssumption DEF PhysicalRegister, ExceedsBank, Registers

\* Publishing into a register of the bank leaves the value there.
LEMMA PublishHolds ==
    ASSUME TypeOK, NEW value, Publish(value), UNCHANGED activations,
           Active \in Activation
    PROVE  control' = "leave" /\ Holds(Active.destination)' /\ Active' = Active
<1>1. Active' = Active /\ control' = "leave" /\ result' = value
      /\ WriteRegister(Active.destination, value)
  BY DEF Publish, Active
<1>2. ASSUME Active.destination < RegisterCount
      PROVE  /\ Active.destination \in dirty_register_mask'
             /\ register_values'[Active.destination] = value
  <2>1. Active.destination \in Nat
    BY DEF Activation
  <2>2. /\ PhysicalRegister(Active.destination) = Active.destination
        /\ Active.destination \in Registers
    BY <1>2, <2>1, WithinBank
  <2>3. /\ register_values' = [register_values EXCEPT ![Active.destination] = value]
        /\ dirty_register_mask' = dirty_register_mask \cup {Active.destination}
    BY <1>1, <2>2 DEF WriteRegister
  <2>4. QED
    BY <2>2, <2>3 DEF TypeOK
<1>3. QED
  BY <1>1, <1>2 DEF Holds

\* Nothing is pushed or popped, and every expression keeps its register.
LEMMA RegistersKept ==
    ASSUME TypeOK, Chained,
           Len(activations') = Len(activations),
           \A i \in 1..Len(activations) :
              i < Len(activations) => activations'[i] = activations[i],
           \A i \in 1..Len(activations) :
              activations'[i].destination = activations[i].destination,
           control' = "evaluate" => callee'.destination = Requested'
    PROVE  Chained'
<1>1. Len(activations) \in Nat
  BY LenProperties DEF TypeOK
<1>2. Len(activations') > 0 => activations'[1].destination = 0
  BY <1>1 DEF Chained
<1>3. ASSUME NEW i \in 1..Len(activations), i < Len(activations)
      PROVE  activations'[i + 1].destination = DestinationWithin(activations'[i])
  <2>1. i + 1 \in 1..Len(activations)
    BY <1>1, <1>3
  <2>2. activations'[i] = activations[i]
        /\ activations'[i + 1].destination = activations[i + 1].destination
    BY <1>3, <2>1
  <2>3. QED
    BY <1>3, <2>2 DEF Chained
<1>4. QED
  BY <1>2, <1>3 DEF Chained

\* Rewriting the top of the stack keeps the registers, if the top keeps its own.
LEMMA TopKeepsRegister ==
    ASSUME TypeOK, TypeOK', Chained, activations # <<>>,
           NEW a, UpdateActive(a), a.destination = Active.destination,
           control' = "evaluate" => callee'.destination = DestinationWithin(a)
    PROVE  Chained' /\ Active' = a
<1>1. /\ Len(activations') = Len(activations)
      /\ Len(activations) \in Nat \ {0}
      /\ \A i \in 1..Len(activations) :
            i < Len(activations) => activations'[i] = activations[i]
      /\ activations'[Len(activations)] = a
      /\ Active' = a
  BY TopUpdated
<1>2. Active = activations[Len(activations)]
  BY PopTop DEF TypeOK, Active
<1>3. \A i \in 1..Len(activations) :
         activations'[i].destination = activations[i].destination
  <2> SUFFICES ASSUME NEW i \in 1..Len(activations)
               PROVE  activations'[i].destination = activations[i].destination
    OBVIOUS
  <2>1. i < Len(activations) \/ i = Len(activations)
    BY <1>1
  <2>2. QED
    BY <1>1, <1>2, <2>1
<1>4. Requested' = DestinationWithin(a)
  BY <1>1 DEF Requested
<1>5. QED
  BY <1>1, <1>3, <1>4, RegistersKept

\* The innermost of the unfinished expressions.
LEMMA Innermost ==
    ASSUME TypeOK, activations # <<>>
    PROVE  /\ Active \in Activation
           /\ Active = activations[Len(activations)]
           /\ Len(activations) \in Nat \ {0}
           /\ Requested = DestinationWithin(Active)
<1>1. activations \in Seq(Activation)
  BY DEF TypeOK
<1>2. QED
  BY <1>1, PopTop DEF Active, Requested

\* A handler that returns its value, or fails, keeps the invariant.
LEMMA HandlerPublishes ==
    ASSUME PInv, IInv', UNCHANGED activations, activations # <<>>,
           \/ \E value : Publish(value)
           \/ control' = "leave" /\ ReportError
           \/ control' = "leave" /\ HasFailed /\ UNCHANGED reported_error_count
    PROVE  PInv'
<1>1. control' = "leave"
  BY DEF Publish
<1>2. Chained'
  BY <1>1, RegistersKept DEF PInv, IInv
<1>3. CASE \E value : Publish(value)
  <2>1. Active \in Activation
    BY Innermost DEF PInv, IInv
  <2>2. Active' = Active /\ Holds(Active.destination)'
    BY <1>3, <2>1, PublishHolds DEF PInv, IInv
  <2>3. Holds(Active.destination)' => Published'
    BY <1>1, <2>2 DEF Published
  <2>4. QED
    BY <1>2, <2>2, <2>3 DEF PInv
<1>4. CASE ReportError
  <2>1. HasFailed'
    BY <1>4 DEF ReportError, HasFailed, PInv, IInv, TypeOK
  <2>2. QED
    BY <1>2, <2>1 DEF PInv, Published
<1>5. CASE HasFailed /\ UNCHANGED reported_error_count
  BY <1>2, <1>5 DEF PInv, Published, HasFailed
<1>6. QED
  BY <1>3, <1>4, <1>5

\* An expectation that is met leaves the value alone, any other leaves a failure.
LEMMA ExpectationFails ==
    ASSUME TypeOK, NEW kind, NEW accepted, NEW rejected, ExpectAtom(kind, accepted, rejected)
    PROVE  /\ control' \in {accepted, rejected}
           /\ HasFailed' \/ (control' = accepted /\ ~HasFailed /\ UNCHANGED result)
BY DEF ExpectAtom, ReportError, HasFailed, TypeOK, scanner_vars

-----------------------------------------------------------------------------
(* The directives. *)

\* Between expressions.
LEMMA DirectivesPublish ==
    ASSUME PInv, IInv',
           ReadDirective \/ BeginCommit \/ Synchronise \/ CloseCommit \/ ReportCommit
    PROVE  PInv'
<1> USE DEF PInv
<1>1. activations = <<>> /\ Len(activations) = 0 /\ UNCHANGED activations
  <2>1. UNCHANGED activations
    BY DEF ReadDirective, BeginCommit, Synchronise, CloseCommit, ReportCommit
  <2>2. activations = <<>>
    BY DEF ReadDirective, BeginCommit, Synchronise, CloseCommit, ReportCommit,
           IInv, Stacked, AtRest
  <2>3. QED
    BY <2>1, <2>2, EmptySeq
<1>2. Requested = 0 /\ Requested' = 0
  BY <1>1 DEF Requested
<1>3. CASE ReadDirective
  <2>1. control' \in {"halted", "open"}
    BY <1>3 DEF ReadDirective
  <2>2. QED
    BY <1>1, <1>2, <2>1 DEF Chained, Published
<1>4. CASE BeginCommit
  <2>1. control' \in {"evaluate", "halted"} /\ callee'.destination = 0
    BY <1>4, ExpectationFails DEF BeginCommit, IInv
  <2>2. QED
    BY <1>1, <1>2, <2>1 DEF Chained, Published
<1>5. CASE Synchronise
  <2>1. control = "return" /\ control' = "close"
        /\ UNCHANGED <<register_values, result, reported_error_count>>
    BY <1>5 DEF Synchronise
  <2>2. ASSUME ~HasFailed
        PROVE  /\ result = register_values[0]
               /\ HardwareSynchronisation => silicon'[0] = register_values[0]
    <3>1. 0 \in dirty_register_mask /\ result = register_values[0]
      BY <1>2, <2>1, <2>2, EvaluatorAssumption DEF Published, Holds
    <3>2. LowRegisterMoved
      BY <3>1, EvaluatorAssumption DEF LowRegisterMoved
    <3>3. 0 \in DOMAIN silicon
      BY EvaluatorAssumption DEF IInv, TypeOK
    <3>4. HardwareSynchronisation => silicon'[0] = register_values[0]
      BY <1>5, <3>2, <3>3, EvaluatorAssumption DEF Synchronise, Registers
    <3>5. QED
      BY <3>1, <3>4
  <2>3. QED
    BY <1>1, <1>2, <2>1, <2>2 DEF Chained, Published, HasFailed
<1>6. CASE CloseCommit
  <2>1. /\ control = "close" /\ control' \in {"report", "halted"}
        /\ HasFailed' \/ (~HasFailed /\ UNCHANGED result)
        /\ UNCHANGED <<register_values, silicon>>
    BY <1>6, ExpectationFails DEF CloseCommit, IInv, file_vars
  <2>2. QED
    BY <1>1, <1>2, <2>1 DEF Chained, Published
<1>7. CASE ReportCommit
  <2>1. control' \in {"halted", "directive"}
    BY <1>7 DEF ReportCommit
  <2>2. QED
    BY <1>1, <1>2, <2>1 DEF Chained, Published
<1>8. QED
  BY <1>3, <1>4, <1>5, <1>6, <1>7

-----------------------------------------------------------------------------
(* Entering and leaving an expression. *)

\* A refusal is a failure.
LEMMA RefuseEvaluationPublishes ==
    ASSUME PInv, IInv', RefuseEvaluation
    PROVE  PInv'
<1>1. /\ control' = "return" /\ UNCHANGED activations
      /\ (HasFailed /\ UNCHANGED reported_error_count) \/ ReportError
  BY DEF RefuseEvaluation
<1>2. HasFailed'
  BY <1>1 DEF HasFailed, ReportError, PInv, IInv, TypeOK
<1>3. Chained'
  BY <1>1, RegistersKept DEF PInv, IInv
<1>4. QED
  BY <1>2, <1>3 DEF PInv, Published

\* An expression is entered with the register it was asked to be evaluated into.
LEMMA EnterActivationPublishes ==
    ASSUME PInv, IInv', EnterActivation
    PROVE  PInv'
<1> USE DEF PInv
<1> DEFINE n == Len(activations)
<1>1. control = "evaluate" /\ control' = "dispatch"
  BY DEF EnterActivation
<1>2. PICK a : activations' = Append(activations, a) /\ a.destination = callee.destination
  <2> DEFINE b == [form |-> "", destination |-> callee.destination,
                   spilled |-> ExceedsBank(callee.destination), frame |-> callee.frame,
                   stage |-> 1, operands |-> <<>>, name |-> "", iteration |-> 0]
  <2>1. activations' = Append(activations, b)
    BY DEF EnterActivation
  <2>2. b.destination = callee.destination
    OBVIOUS
  <2> HIDE DEF b
  <2>3. QED
    BY <2>1, <2>2
<1>3. n \in Nat
  BY LenProperties DEF IInv, TypeOK
<1>4. /\ Len(activations') = n + 1 /\ activations'[n + 1] = a
      /\ \A i \in 1..n : activations'[i] = activations[i]
  BY <1>2 DEF IInv, TypeOK
<1>5. n > 0 => Active = activations[n]
  <2>1. activations \in Seq(Activation)
    BY DEF IInv, TypeOK
  <2>2. n > 0 => activations # <<>>
    BY <2>1, EmptySeq
  <2>3. QED
    BY <2>1, <2>2, PopTop DEF Active
<1> HIDE DEF n
<1>6. Len(activations') > 0 => activations'[1].destination = 0
  <2>1. CASE n = 0
    BY <1>1, <1>2, <1>4, <2>1 DEF Chained, Requested, n
  <2>2. CASE n > 0
    BY <1>1, <1>3, <1>4, <2>2 DEF Chained, n
  <2>3. QED
    BY <1>3, <2>1, <2>2
<1>7. ASSUME NEW i \in 1..(n + 1), i < n + 1
      PROVE  activations'[i + 1].destination = DestinationWithin(activations'[i])
  <2>1. i \in 1..n /\ activations'[i] = activations[i]
    BY <1>3, <1>4, <1>7
  <2>2. CASE i < n
    <3>1. i + 1 \in 1..n
      BY <1>3, <2>1, <2>2
    <3>2. QED
      BY <1>4, <2>1, <2>2, <3>1 DEF Chained, n
  <2>3. CASE i = n
    <3>1. n > 0
      BY <1>3, <2>1
    <3>2. callee.destination = DestinationWithin(activations[n])
      BY <1>1, <1>5, <3>1 DEF Chained, Requested, n
    <3>3. QED
      BY <1>2, <1>4, <2>1, <2>3, <3>2
  <2>4. QED
    BY <1>3, <2>1, <2>2, <2>3
<1>8. Chained'
  BY <1>1, <1>4, <1>6, <1>7 DEF Chained
<1>9. Published'
  BY <1>1 DEF Published
<1>10. QED
  BY <1>8, <1>9

\* An expression that was evaluated into the bank did not wrap, so nothing is
\* restored over its value.
LEMMA LeaveActivationPublishes ==
    ASSUME PInv, IInv', LeaveActivation
    PROVE  PInv'
<1> USE DEF PInv
<1> DEFINE n == Len(activations)
<1>1. /\ control = "leave" /\ control' = "return"
      /\ activations' = Front(activations)
      /\ UNCHANGED <<result, reported_error_count>>
  BY DEF LeaveActivation
<1>2. activations \in Seq(Activation) /\ activations # <<>>
  BY <1>1 DEF IInv, TypeOK, Stacked, InActivation
<1>3. /\ n \in Nat \ {0} /\ Active = activations[n]
      /\ Len(activations') = n - 1
      /\ \A i \in 1..(n - 1) : activations'[i] = activations[i]
  BY <1>1, <1>2, PopTop DEF Active
<1>4. n - 1 > 0 => Active' = activations[n - 1]
  <2>1. activations' \in Seq(Activation)
    BY DEF IInv, TypeOK
  <2>2. n - 1 > 0 => activations' # <<>>
    BY <1>3, <2>1, EmptySeq
  <2>3. CASE n - 1 > 0
    <3>1. Active' = activations'[n - 1]
      BY <1>3, <2>1, <2>2, <2>3, PopTop DEF Active
    <3>2. n - 1 \in 1..(n - 1)
      BY <1>3, <2>3
    <3>3. QED
      BY <1>3, <3>1, <3>2
  <2>4. QED
    BY <2>3
<1>5. Active.destination \in Nat
  BY <1>1, <1>2, Innermost DEF IInv, Activation
<1>6. ASSUME ~HasFailed, Active.destination < RegisterCount
      PROVE  /\ Active.destination \in dirty_register_mask'
             /\ result' = register_values'[Active.destination]
  <2>1. ~Active.spilled
    BY <1>3, <1>5, <1>6, EvaluatorAssumption DEF IInv, Spills
  <2>2. UNCHANGED <<register_values, dirty_register_mask>>
    BY <2>1 DEF LeaveActivation
  <2>3. Holds(Active.destination)
    BY <1>1, <1>6 DEF Published
  <2>4. QED
    BY <1>1, <1>6, <2>2, <2>3 DEF Holds
<1> HIDE DEF n
<1>7. Requested' = Active.destination
  <2>1. CASE n - 1 = 0
    <3>1. n = 1
      BY <1>3, <2>1
    <3>2. activations[1].destination = 0
      BY <3>1 DEF Chained, n
    <3>3. QED
      BY <1>3, <2>1, <3>1, <3>2 DEF Requested
  <2>2. CASE n - 1 > 0
    <3>1. n - 1 \in 1..n /\ n - 1 < n /\ (n - 1) + 1 = n
      BY <1>3, <2>2
    <3>2. activations[n].destination = DestinationWithin(activations[n - 1])
      BY <3>1 DEF Chained, n
    <3>3. QED
      BY <1>3, <1>4, <2>2, <3>2 DEF Requested
  <2>3. QED
    BY <1>3, <2>1, <2>2
<1>8. Chained'
  <2>1. ASSUME NEW i \in 1..(n - 1), i < n - 1
        PROVE  activations'[i + 1].destination = DestinationWithin(activations'[i])
    <3>1. i + 1 \in 1..(n - 1) /\ i \in 1..n /\ i < n
      BY <1>3, <2>1
    <3>2. QED
      BY <1>3, <2>1, <3>1 DEF Chained, n
  <2>2. Len(activations') > 0 => activations'[1].destination = 0
    BY <1>3 DEF Chained, n
  <2>3. QED
    BY <1>1, <1>3, <2>1, <2>2 DEF Chained
<1>9. Published'
  <2>1. ASSUME ~HasFailed
        PROVE  Holds(Requested)'
    BY <1>6, <1>7, <2>1 DEF Holds
  <2>2. QED
    BY <1>1, <2>1 DEF Published, HasFailed
<1>10. QED
  BY <1>8, <1>9

-----------------------------------------------------------------------------
(* The handlers. *)

\* What a handler does to the stack is rewrite its top.
LEMMA DispatchPublishes ==
    ASSUME PInv, IInv', Dispatch
    PROVE  PInv'
<1>1. control = "dispatch" /\ activations # <<>>
  BY DEF Dispatch, PInv, IInv, Stacked, InActivation
<1>2. PICK atom \in NextAtoms :
         \/ DispatchForm(atom)
         \/ /\ UNCHANGED activations
            /\ \/ \E value : Publish(value)
               \/ control' = "leave" /\ ReportError
  BY Zenon DEF Dispatch, DispatchLiteral, DispatchParameter, DispatchIdentity,
               DispatchNothing, Fail
<1>3. CASE DispatchForm(atom)
  <2> DEFINE a == [Active EXCEPT !.form = atom.name]
  <2>1. UpdateActive(a) /\ control' = "form"
    BY <1>3 DEF DispatchForm
  <2>2. a.destination = Active.destination
    <3>1. Active \in Activation
      BY <1>1, PopTop DEF PInv, IInv, TypeOK, Active
    <3>2. QED
      BY <3>1 DEF Activation
  <2> HIDE DEF a
  <2>3. Chained'
    BY <1>1, <2>1, <2>2, TopKeepsRegister DEF PInv, IInv
  <2>4. QED
    BY <2>1, <2>3 DEF PInv, Published
<1>4. CASE /\ UNCHANGED activations
           /\ \/ \E value : Publish(value)
              \/ control' = "leave" /\ ReportError
  BY <1>1, <1>4, HandlerPublishes
<1>5. QED
  BY <1>2, <1>3, <1>4

\* A missing punctuation is a failure.
LEMMA ExpectPunctuationPublishes ==
    ASSUME PInv, IInv', ExpectPunctuation
    PROVE  PInv'
<1>1. activations # <<>> /\ UpdateActive(Advanced)
      /\ ExpectAtom(NextStep, "form", "leave")
  BY DEF ExpectPunctuation, PInv, IInv, Stacked, InActivation
<1>2. control' \in {"form", "leave"} /\ (HasFailed' \/ control' = "form")
  BY <1>1, ExpectationFails DEF PInv, IInv
<1>3. Advanced.destination = Active.destination
  <2>1. Active \in Activation
    BY <1>1, PopTop DEF PInv, IInv, TypeOK, Active
  <2>2. QED
    BY <2>1, AdvancedType
<1>4. Chained'
  BY <1>1, <1>2, <1>3, TopKeepsRegister DEF PInv, IInv
<1>5. QED
  BY <1>2, <1>4 DEF PInv, Published

\* An operand is asked for by a form that still has arguments to read.
LEMMA EvaluateOperandPublishes ==
    ASSUME PInv, IInv', EvaluateOperand
    PROVE  PInv'
<1>1. /\ control' = "evaluate" /\ activations # <<>> /\ UNCHANGED activations
      /\ ~HasBody(Active) /\ callee'.destination = OperandDestination
  BY DEF EvaluateOperand, PInv, IInv, Stacked, InActivation, ArgumentsRead, HasBody
<1>2. OperandDestination = DestinationWithin(Active)
  BY <1>1 DEF OperandDestination, DestinationWithin
<1>3. Requested' = Requested /\ Requested = DestinationWithin(Active)
  BY <1>1, Innermost DEF Requested, Active, PInv, IInv
<1>4. Chained'
  BY <1>1, <1>2, <1>3, RegistersKept DEF PInv, IInv
<1>5. QED
  BY <1>1, <1>4 DEF PInv, Published

\* An operand is returned to a form that keeps its register.
LEMMA ReturnOperandPublishes ==
    ASSUME PInv, IInv', ReturnOperand
    PROVE  PInv'
<1> DEFINE a == [Advanced EXCEPT !.operands = Append(@, result)]
<1>1. control' = "form" /\ activations # <<>> /\ UpdateActive(a)
  BY DEF ReturnOperand
<1>2. a.destination = Active.destination
  <2>1. Active \in Activation /\ result \in Double
    BY <1>1, PopTop DEF PInv, IInv, TypeOK, Active
  <2>2. Advanced \in Activation /\ Advanced.destination = Active.destination
    BY <2>1, AdvancedType
  <2>3. QED
    BY <2>1, <2>2, OperandType
<1> HIDE DEF a
<1>3. Chained'
  BY <1>1, <1>2, TopKeepsRegister DEF PInv, IInv
<1>4. QED
  BY <1>1, <1>3 DEF PInv, Published

\* A name that cannot be used is a failure.
LEMMA ReadNamePublishes ==
    ASSUME PInv, IInv', ReadName
    PROVE  PInv'
<1>1. control = "form" /\ activations # <<>>
  BY DEF ReadName, PInv, IInv, Stacked, InActivation
<1>2. PICK atom \in NextAtoms :
         \/ /\ UpdateActive([Advanced EXCEPT !.name = atom.name])
            /\ UNCHANGED control
         \/ control' = "leave" /\ ReportError /\ UNCHANGED activations
  BY Zenon DEF ReadName
<1>3. CASE control' = "leave" /\ ReportError /\ UNCHANGED activations
  BY <1>1, <1>3, HandlerPublishes
<1>4. CASE /\ UpdateActive([Advanced EXCEPT !.name = atom.name])
           /\ UNCHANGED control
  <2> DEFINE a == [Advanced EXCEPT !.name = atom.name]
  <2>1. UpdateActive(a) /\ control' = "form"
    BY <1>1, <1>4
  <2>2. a.destination = Active.destination
    <3>1. Active \in Activation
      BY <1>1, PopTop DEF PInv, IInv, TypeOK, Active
    <3>2. Advanced \in Activation /\ Advanced.destination = Active.destination
      BY <3>1, AdvancedType
    <3>3. QED
      BY <3>2 DEF Activation
  <2> HIDE DEF a
  <2>3. Chained'
    BY <1>1, <2>1, <2>2, TopKeepsRegister DEF PInv, IInv
  <2>4. QED
    BY <2>1, <2>3 DEF PInv, Published
<1>5. QED
  BY <1>2, <1>3, <1>4

\* Concluding a form that evaluates no body publishes its value or fails.
LEMMA ConclusionPublishes ==
    ASSUME PInv, IInv',
           ApplyPrimitive \/ SelectBranch \/ WriteOffset \/ ReadOffset \/ EndLoop
    PROVE  PInv'
<1>1. UNCHANGED activations /\ activations # <<>>
  BY DEF ApplyPrimitive, SelectBranch, WriteOffset, ReadOffset, EndLoop, Concluding,
         PInv, IInv, Stacked, InActivation
<1>2. \/ \E value : Publish(value)
      \/ control' = "leave" /\ ReportError
      \/ control' = "leave" /\ HasFailed /\ UNCHANGED reported_error_count
  BY Zenon DEF ApplyPrimitive, SelectBranch, WriteOffset, ReadOffset, EndLoop, Fail
<1>3. QED
  BY <1>1, <1>2, HandlerPublishes

\* A Loop begins, or is refused.
LEMMA BeginLoopPublishes ==
    ASSUME PInv, IInv', BeginLoop
    PROVE  PInv'
<1>1. /\ UNCHANGED activations /\ activations # <<>>
      /\ control' = "iterate" \/ (control' = "leave" /\ ReportError)
  BY DEF BeginLoop, Concluding, PInv, IInv, Stacked, InActivation
<1>2. CASE control' = "leave" /\ ReportError
  BY <1>1, <1>2, HandlerPublishes
<1>3. CASE control' = "iterate"
  <2>1. Chained'
    BY <1>1, <1>3, RegistersKept DEF PInv, IInv
  <2>2. QED
    BY <1>3, <2>1 DEF PInv, Published
<1>4. QED
  BY <1>1, <1>2, <1>3

-----------------------------------------------------------------------------
(* Template bodies. *)

\* The body of a template is evaluated into the register of its call.
LEMMA InvokeTemplatePublishes ==
    ASSUME PInv, IInv', InvokeTemplate
    PROVE  PInv'
<1>1. /\ control' = "evaluate" /\ activations # <<>> /\ UNCHANGED activations
      /\ HasBody(Active) /\ callee'.destination = Active.destination
  BY DEF InvokeTemplate, Concluding, EnterBody, PInv, IInv, Stacked, InActivation,
         ArgumentsRead, HasBody
<1>2. Requested' = Requested /\ Requested = Active.destination
  BY <1>1, Innermost DEF Requested, Active, PInv, IInv, DestinationWithin
<1>3. Chained'
  BY <1>1, <1>2, RegistersKept DEF PInv, IInv
<1>4. QED
  BY <1>1, <1>3 DEF PInv, Published

\* Every iteration of a Loop is evaluated into the register of the Loop.
LEMMA IterateLoopPublishes ==
    ASSUME PInv, IInv', IterateLoop
    PROVE  PInv'
<1> DEFINE a == [Active EXCEPT !.iteration = @ + 1]
<1>1. /\ control' = "evaluate" /\ activations # <<>> /\ UpdateActive(a)
      /\ callee'.destination = Active.destination
  BY DEF IterateLoop, EnterBody, PInv, IInv, Stacked, InActivation
<1>2. a.destination = Active.destination /\ DestinationWithin(a) = a.destination
  <2>1. Active \in Activation /\ Active.form = "Loop" /\ Active.stage > 5
    BY <1>1, Innermost DEF IterateLoop, PInv, IInv, Formed
  <2>2. a.destination = Active.destination /\ a.form = "Loop" /\ a.stage = Active.stage
    BY <2>1, IterationType
  <2>3. Len(Steps("Loop")) = 5
    BY StepCounts
  <2>4. QED
    BY <2>1, <2>2, <2>3 DEF DestinationWithin, HasBody
<1> HIDE DEF a
<1>3. Chained'
  BY <1>1, <1>2, TopKeepsRegister DEF PInv, IInv
<1>4. QED
  BY <1>1, <1>3 DEF PInv, Published

\* The value of a body is the value of the expression that has it.
LEMMA ReturnBodyPublishes ==
    ASSUME PInv, IInv', ReturnBody
    PROVE  PInv'
<1>1. /\ control = "return" /\ activations # <<>> /\ ArgumentsRead
      /\ control' \in {"iterate", "leave"}
      /\ UNCHANGED <<activations, result, register_values, dirty_register_mask,
                     reported_error_count>>
  BY DEF ReturnBody, file_vars
<1>2. Active' = Active
  BY <1>1 DEF Active
<1>3. Requested = Active.destination
  BY <1>1, Innermost DEF ArgumentsRead, HasBody, DestinationWithin, PInv, IInv
<1>4. Chained'
  BY <1>1, RegistersKept DEF PInv, IInv
<1>5. ~HasFailed => Holds(Active.destination)
  BY <1>1, <1>3 DEF PInv, Published
<1>6. Published'
  BY <1>1, <1>2, <1>5 DEF Published, Holds, HasFailed
<1>7. QED
  BY <1>4, <1>6 DEF PInv

-----------------------------------------------------------------------------
(* The theorems. *)

\* Nothing has been evaluated.
LEMMA ResultsInitially ==
    ASSUME Init
    PROVE  PInv
<1>1. IInv
  BY Initially
<1>2. Len(activations) = 0 /\ control = "directive"
  BY EmptySeq DEF Init
<1>3. QED
  BY <1>1, <1>2 DEF PInv, Chained, Requested, Published

\* Every step preserves the invariant.
LEMMA ResultsInductive ==
    ASSUME PInv, [Next]_vars
    PROVE  PInv'
<1>1. IInv'
  BY Inductive DEF PInv
<1>2. CASE UNCHANGED vars
  BY <1>1, <1>2 DEF vars, PInv, Chained, Requested, Published, Holds, HasFailed, Active
<1>3. CASE Halt
  BY <1>2, <1>3 DEF Halt
<1>4. CASE Next /\ ~Halt
  BY <1>1, <1>4, DirectivesPublish, RefuseEvaluationPublishes, EnterActivationPublishes,
     LeaveActivationPublishes, DispatchPublishes, ExpectPunctuationPublishes,
     EvaluateOperandPublishes, ReturnOperandPublishes, ReadNamePublishes,
     ConclusionPublishes, InvokeTemplatePublishes, BeginLoopPublishes, IterateLoopPublishes,
     ReturnBodyPublishes
     DEF Next
<1>5. QED
  BY <1>2, <1>3, <1>4

\* The invariant of results holds in every reachable state.
THEOREM ResultsHold == Spec => []PInv
<1>1. Init => PInv
  BY ResultsInitially
<1>2. PInv /\ [Next]_vars => PInv'
  BY ResultsInductive
<1>3. QED
  BY <1>1, <1>2, PTL DEF Spec

\* What a Commit prints is in the result register, and was published before.
THEOREM ResultsArePublished == Spec => CommittedValuePublished
<1> DEFINE Faithful ==
             committed_values' # committed_values =>
                /\ Last(committed_values') = register_values[0]
                /\ HardwareSynchronisation => Last(committed_values') = silicon[0]
<1>1. ASSUME PInv, Next
      PROVE  Faithful
  <2>1. CASE ReportCommit
    <3>1. CASE HasFailed
      BY <2>1, <3>1 DEF ReportCommit
    <3>2. CASE ~HasFailed
      <4>1. committed_values' = Append(committed_values, result)
        BY <2>1, <3>2 DEF ReportCommit
      <4>2. Last(committed_values') = result
        <5>1. committed_values \in Seq(Double) /\ result \in Double
          BY <1>1 DEF PInv, IInv, TypeOK
        <5>2. QED
          BY <4>1, <5>1, PushTop DEF Last
      <4>3. /\ result = register_values[0]
            /\ HardwareSynchronisation => silicon[0] = register_values[0]
        BY <1>1, <2>1, <3>2 DEF ReportCommit, PInv, Published
      <4>4. QED
        BY <4>2, <4>3
    <3>3. QED
      BY <3>1, <3>2
  <2>2. CASE ~ReportCommit
    <3>1. UNCHANGED committed_values
      BY <1>1, <2>2
         DEF Next, ReadDirective, BeginCommit, Synchronise, CloseCommit, RefuseEvaluation,
             EnterActivation, LeaveActivation, Dispatch, ExpectPunctuation, EvaluateOperand,
             ReturnOperand, ReadName, ApplyPrimitive, SelectBranch, WriteOffset, ReadOffset,
             InvokeTemplate, BeginLoop, IterateLoop, EndLoop, ReturnBody, Halt, vars
    <3>2. QED
      BY <3>1
  <2>3. QED
    BY <2>1, <2>2
<1>2. PInv /\ [Next]_vars => [Faithful]_vars
  BY <1>1
<1>3. QED
  BY <1>2, ResultsHold, PTL DEF Spec, CommittedValuePublished

-----------------------------------------------------------------------------
(***************************************************************************)
(* No live operand is lost: what a form has obtained stays in the register *)
(* it was evaluated into, or on the spill stack while expressions nested   *)
(* within the form borrow the register, however often they wrap the bank.  *)
(***************************************************************************)

-----------------------------------------------------------------------------
(* The invariant. *)

\* The operands a form still relies on, of those evaluated into the bank.
LiveOperands(a) ==
    IF a.form \in Forms /\ a.iteration = 0
    THEN {k \in 1..Len(a.operands) : a.destination + k < RegisterCount}
    ELSE {}

\* The spilled activations are the topmost ones: the rest counts from the bottom.
Unspilled == Len(activations) - Len(spill_stack_values)

\* Occupant(r, i) = value, with the outermost of the savers named.
Kept(r, i, value) ==
    \/ SaversOf(r, i) = {} /\ register_values[r] = value
    \/ \E j \in SaversOf(r, i) :
          /\ \A l \in SaversOf(r, i) : j <= l
          /\ spill_stack_values[j - Unspilled] = value

OperandsKept ==
    ~HasFailed =>
        \A i \in 1..Len(activations) :
            \A k \in LiveOperands(activations[i]) :
                Kept(activations[i].destination + k, i, activations[i].operands[k])

\* Among the forms only a Loop has a body, and its count is no longer live then.
Iterating ==
    \A i \in 1..Len(activations) :
        Suspended(i) /\ HasBody(activations[i]) =>
            activations[i].form \notin Forms \/ activations[i].iteration > 0

Undispatched == control = "dispatch" => Active.operands = <<>>

LInv == PInv /\ Iterating /\ Undispatched /\ OperandsKept

-----------------------------------------------------------------------------
(* Savers and slots. *)

\* The stack is a list of activations, as high as its length.
LEMMA Heights ==
    ASSUME TypeOK
    PROVE  /\ activations \in Seq(Activation) /\ Len(activations) \in Nat
           /\ spill_stack_values \in Seq(Double) /\ Len(spill_stack_values) \in Nat
           /\ \A i \in 1..Len(activations) : activations[i] \in Activation
<1>1. activations \in Seq(Activation) /\ spill_stack_values \in Seq(Double)
  BY DEF TypeOK
<1>2. QED
  BY <1>1, LenProperties, ElementOfSeq

\* A saver's slot on the spill stack follows from its height.
LEMMA SlotOfSaver ==
    ASSUME TypeOK, Spills, NEW j \in 1..Len(activations), activations[j].spilled
    PROVE  SpillSlot(j) = j - Unspilled /\ j - Unspilled \in 1..Len(spill_stack_values)
<1> DEFINE n == Len(activations)
           u == Unspilled
<1>1. n \in Nat /\ Len(spill_stack_values) \in Nat /\ Len(spill_stack_values) <= n
  BY Heights DEF Spills
<1>2. u \in Nat /\ u = n - Len(spill_stack_values)
  BY <1>1 DEF Unspilled
<1>3. \A k \in 1..n : activations[k].spilled <=> k > u
  BY <1>2 DEF Spills
<1>4. j \in Nat /\ j > u /\ j <= n
  BY <1>1, <1>3
<1>5. {k \in 1..j : activations[k].spilled} = (u + 1)..j
  <2>1. \A k \in 1..j : k \in 1..n
    BY <1>1, <1>4
  <2> HIDE DEF n, u
  <2>2. QED
    BY <1>2, <1>3, <1>4, <2>1
<1>6. Cardinality((u + 1)..j) = j - u
  <2> HIDE DEF u
  <2>1. u + 1 \in Int /\ j \in Int /\ j - (u + 1) + 1 = j - u /\ ~(u + 1 > j)
    BY <1>2, <1>4
  <2>2. QED
    BY <2>1, FS_Interval
<1>7. SpillSlot(j) = j - u
  BY <1>5, <1>6 DEF SpillSlot
<1> HIDE DEF u, n
<1>8. j - u \in 1..Len(spill_stack_values)
  BY <1>1, <1>2, <1>4
<1>9. QED
  BY <1>7, <1>8 DEF u

\* What is kept is what the register holds for that activation.
LEMMA KeptIsOccupant ==
    ASSUME TypeOK, Spills, NEW i \in 1..Len(activations), NEW r, NEW value, Kept(r, i, value)
    PROVE  Occupant(r, i) = value
<1> DEFINE S == SaversOf(r, i)
<1>1. CASE S = {} /\ register_values[r] = value
  BY <1>1 DEF Occupant
<1>2. CASE \E j \in S : (\A l \in S : j <= l) /\ spill_stack_values[j - Unspilled] = value
  <2>1. PICK j \in S : (\A l \in S : j <= l) /\ spill_stack_values[j - Unspilled] = value
    BY <1>2
  <2>2. Len(activations) \in Nat
    BY Heights
  <2>3. /\ S \subseteq 1..Len(activations)
        /\ \A l \in S : activations[l].spilled
    BY <2>2 DEF SaversOf
  <2>4. \A x, y \in S : x <= y /\ y <= x => x = y
    BY <2>2, <2>3
  <2>5. Min(S) = j
    <3>1. Min(S) \in S /\ \A l \in S : Min(S) <= l
      BY <2>1, Zenon DEF Min
    <3>2. QED
      BY <2>1, <2>4, <3>1
  <2>6. SpillSlot(j) = j - Unspilled
    BY <2>1, <2>3, SlotOfSaver
  <2>7. QED
    BY <2>1, <2>5, <2>6 DEF Occupant
<1>3. QED
  BY <1>1, <1>2 DEF Kept

\* While nothing is spilled there are no savers.
LEMMA NoSavers ==
    ASSUME TypeOK, Spills, Len(spill_stack_values) = 0,
           NEW i \in 1..Len(activations), NEW r
    PROVE  SaversOf(r, i) = {}
<1>1. Len(activations) \in Nat
  BY Heights
<1>2. \A j \in 1..Len(activations) : ~activations[j].spilled
  BY <1>1 DEF Spills
<1>3. QED
  BY <1>1, <1>2 DEF SaversOf

\* A step that moves neither stack can lose only what it writes over, and that
\* only if the register is not saved.
LEMMA KeptInPlace ==
    ASSUME TypeOK, Len(activations') = Len(activations),
           \A j \in 1..Len(activations) :
              /\ activations'[j].spilled = activations[j].spilled
              /\ activations'[j].destination = activations[j].destination,
           UNCHANGED spill_stack_values,
           NEW i \in 1..Len(activations), NEW r, NEW value,
           register_values'[r] = register_values[r] \/ SaversOf(r, i) # {},
           Kept(r, i, value)
    PROVE  Kept(r, i, value)'
<1>1. Len(activations) \in Nat
  BY Heights
<1>2. SaversOf(r, i)' = SaversOf(r, i)
  BY <1>1 DEF SaversOf, PhysicalRegister
<1>3. Unspilled' = Unspilled
  BY DEF Unspilled
<1>4. QED
  BY <1>2, <1>3 DEF Kept

\* Whatever is nested within a form works above the operands the form relies on.
LEMMA Separated ==
    ASSUME TypeOK, Spills, Chained, Iterating,
           NEW i \in 1..Len(activations), i < Len(activations),
           activations[i].form \in Forms, activations[i].iteration = 0
    PROVE  activations[i].destination + Len(activations[i].operands)
              < activations[Len(activations)].destination
<1>1. Len(activations) \in Nat /\ i + 1 \in 1..Len(activations)
      /\ Len(activations) \in 1..Len(activations)
  BY Heights
<1>2. Suspended(i)
  BY DEF Suspended
<1>3. ~HasBody(activations[i])
  BY <1>2 DEF Iterating
<1>4. activations[i + 1].destination
         = activations[i].destination + 1 + Len(activations[i].operands)
  BY <1>3 DEF Chained, DestinationWithin
<1>5. activations[i + 1].destination <= activations[Len(activations)].destination
  BY <1>1 DEF Spills
<1>6. /\ activations[i] \in Activation
      /\ activations[Len(activations)] \in Activation
  BY <1>1, Heights
<1>7. /\ activations[i].destination \in Nat /\ Len(activations[i].operands) \in Nat
      /\ activations[Len(activations)].destination \in Nat
  BY <1>6, LenProperties DEF Activation
<1>8. QED
  BY <1>4, <1>5, <1>7

-----------------------------------------------------------------------------
(* What a step within an activation preserves. *)

\* Nothing is suspended by the step but possibly the top.
LEMMA IteratingKept ==
    ASSUME TypeOK, Iterating, Len(activations') = Len(activations),
           \A i \in 1..Len(activations) :
              i < Len(activations) => activations'[i] = activations[i],
           control' \in {"evaluate", "return"} /\ activations # <<>> =>
              LET top == activations'[Len(activations)]
              IN  HasBody(top) => top.form \notin Forms \/ top.iteration > 0
    PROVE  Iterating'
<1>1. Len(activations) \in Nat /\ (Len(activations) > 0 => activations # <<>>)
  BY Heights, EmptySeq
<1> SUFFICES ASSUME NEW i \in 1..Len(activations), Suspended(i)', HasBody(activations'[i])
             PROVE  activations'[i].form \notin Forms \/ activations'[i].iteration > 0
  BY DEF Iterating
<1>2. CASE i < Len(activations)
  BY <1>2 DEF Iterating, Suspended
<1>3. CASE i = Len(activations)
  BY <1>1, <1>3 DEF Suspended
<1>4. QED
  BY <1>1, <1>2, <1>3

\* The registers and the stacks stay as they are.
LEMMA OperandsUntouched ==
    ASSUME TypeOK, OperandsKept,
           UNCHANGED <<activations, spill_stack_values, register_values>>,
           HasFailed => HasFailed'
    PROVE  OperandsKept'
<1> SUFFICES ASSUME ~HasFailed, NEW i \in 1..Len(activations),
                    NEW k \in LiveOperands(activations[i])
             PROVE  Kept(activations[i].destination + k, i, activations[i].operands[k])'
  BY DEF OperandsKept
<1>1. Kept(activations[i].destination + k, i, activations[i].operands[k])
  BY DEF OperandsKept
<1>2. QED
  BY <1>1 DEF Kept, SaversOf, Unspilled, PhysicalRegister

\* Rewriting the top of the stack drops live operands, or adds one that is in
\* its register.
LEMMA TopKeepsOperands ==
    ASSUME TypeOK, TypeOK', OperandsKept, activations # <<>>,
           NEW a, UpdateActive(a),
           a.destination = Active.destination, a.spilled = Active.spilled,
           UNCHANGED <<spill_stack_values, register_values>>,
           HasFailed => HasFailed',
           ~HasFailed => \A k \in LiveOperands(a) :
              \/ k \in LiveOperands(Active) /\ a.operands[k] = Active.operands[k]
              \/ register_values[a.destination + k] = a.operands[k]
    PROVE  OperandsKept'
<1> DEFINE n == Len(activations)
<1>1. /\ Len(activations') = n /\ n \in Nat \ {0}
      /\ \A i \in 1..n : i < n => activations'[i] = activations[i]
      /\ activations'[n] = a
  BY TopUpdated
<1>2. Active = activations[n]
  BY Innermost
<1>3. \A j \in 1..n : /\ activations'[j].spilled = activations[j].spilled
                      /\ activations'[j].destination = activations[j].destination
  <2> SUFFICES ASSUME NEW j \in 1..n
               PROVE  /\ activations'[j].spilled = activations[j].spilled
                      /\ activations'[j].destination = activations[j].destination
    OBVIOUS
  <2>1. j < n \/ j = n
    BY <1>1
  <2>2. QED
    BY <1>1, <1>2, <2>1
<1> SUFFICES ASSUME ~HasFailed, NEW i \in 1..n, NEW k \in LiveOperands(activations'[i])
             PROVE  Kept(activations[i].destination + k, i, activations[i].operands[k])'
  BY <1>1 DEF OperandsKept, LiveOperands
<1>4. PICK r, value : r = activations'[i].destination + k /\ value = activations'[i].operands[k]
  OBVIOUS
<1>5. CASE Kept(r, i, value)
  <2>1. Kept(r, i, value)'
    BY <1>1, <1>3, <1>5, KeptInPlace
  <2>2. QED
    BY <1>4, <2>1
<1>6. CASE i = n /\ register_values[r] = value
  <2>1. SaversOf(r, i)' = {}
    BY <1>1, <1>6 DEF SaversOf
  <2>2. Kept(r, i, value)'
    BY <1>6, <2>1 DEF Kept
  <2>3. QED
    BY <1>4, <2>2
<1>7. CASE i < n
  <2>1. Kept(r, i, value)
    BY <1>1, <1>4, <1>7 DEF OperandsKept
  <2>2. QED
    BY <1>5, <2>1
<1>8. CASE i = n
  <2>1. activations'[i] = a /\ k \in LiveOperands(a)
    BY <1>1, <1>8
  <2>2. CASE k \in LiveOperands(Active) /\ a.operands[k] = Active.operands[k]
    <3>1. Kept(r, i, value)
      BY <1>1, <1>2, <1>4, <1>8, <2>1, <2>2 DEF OperandsKept
    <3>2. QED
      BY <1>5, <3>1
  <2>3. CASE register_values[a.destination + k] = a.operands[k]
    BY <1>4, <1>6, <1>8, <2>1, <2>3
  <2>4. QED
    BY <2>1, <2>2, <2>3
<1>9. QED
  BY <1>1, <1>7, <1>8

\* A handler writes its value below the operands of its own form and above those
\* of the forms around it, or into a register that was saved on entry.
LEMMA PublishKeepsOperands ==
    ASSUME PInv, Iterating, OperandsKept, activations # <<>>,
           NEW written, Publish(written), UNCHANGED <<activations, spill_stack_values>>,
           HasFailed => HasFailed'
    PROVE  OperandsKept'
<1> USE DEF PInv
<1> DEFINE n == Len(activations)
           d == Active.destination
<1>1. TypeOK /\ Spills /\ Chained
  BY DEF IInv
<1>2. /\ n \in Nat \ {0} /\ Active = activations[n] /\ Active \in Activation
      /\ d \in Nat
  BY <1>1, Innermost DEF Activation
<1>3. register_values' = [register_values EXCEPT ![PhysicalRegister(d)] = written]
  BY DEF Publish, WriteRegister
<1>4. Active.spilled <=> d >= RegisterCount
  BY <1>1, <1>2 DEF Spills
<1> SUFFICES ASSUME ~HasFailed, NEW i \in 1..n, NEW k \in LiveOperands(activations[i])
             PROVE  Kept(activations[i].destination + k, i, activations[i].operands[k])'
  BY DEF OperandsKept
<1>5. PICK r, value : r = activations[i].destination + k /\ value = activations[i].operands[k]
  OBVIOUS
<1>6. Kept(r, i, value)
  BY <1>5 DEF OperandsKept
<1>7. /\ activations[i].form \in Forms /\ activations[i].iteration = 0
      /\ k \in 1..Len(activations[i].operands) /\ r < RegisterCount
  BY <1>5 DEF LiveOperands
<1>8. /\ activations[i].destination \in Nat
      /\ Len(activations[i].operands) \in Nat
  <2>1. activations[i] \in Activation
    BY <1>1, Heights
  <2>2. QED
    BY <2>1, LenProperties DEF Activation
<1>9. r # PhysicalRegister(d) \/ SaversOf(r, i) # {}
  <2>1. CASE i = n
    <3>1. d < RegisterCount /\ r # d
      BY <1>2, <1>5, <1>7, <1>8, <2>1, EvaluatorAssumption
    <3>2. QED
      BY <1>2, <3>1, WithinBank
  <2>2. CASE i < n /\ d < RegisterCount
    <3>1. activations[i].destination + Len(activations[i].operands) < activations[n].destination
      BY <1>1, <1>7, <2>2, Separated
    <3>2. r # d
      BY <1>2, <1>5, <1>7, <1>8, <3>1
    <3>3. QED
      BY <1>2, <2>2, <3>2, WithinBank
  <2>3. CASE i < n /\ d >= RegisterCount
    <3>1. n \in (i + 1)..n
      BY <1>2, <2>3
    <3>2. CASE r = PhysicalRegister(d)
      <4>1. n \in SaversOf(r, i)
        BY <1>2, <1>4, <2>3, <3>1, <3>2 DEF SaversOf
      <4>2. QED
        BY <4>1
    <3>3. QED
      BY <3>2
  <2>4. QED
    BY <1>2, <2>1, <2>2, <2>3, EvaluatorAssumption
<1>10. r # PhysicalRegister(d) => register_values'[r] = register_values[r]
  <2>1. r \in Registers
    BY <1>5, <1>7, <1>8, EvaluatorAssumption DEF Registers
  <2>2. QED
    BY <1>1, <1>3, <2>1 DEF TypeOK
<1>11. Kept(r, i, value)'
  BY <1>1, <1>6, <1>9, <1>10, KeptInPlace
<1>12. QED
  BY <1>5, <1>11

-----------------------------------------------------------------------------
(* The directives. *)

\* A failure stays.
LEMMA FailureLasts ==
    ASSUME IInv, Next, HasFailed
    PROVE  HasFailed'
<1>1. reported_error_count \in Nat
  BY DEF IInv, TypeOK
<1>2. UNCHANGED reported_error_count \/ ReportError
  BY Zenon
     DEF Next, ReadDirective, BeginCommit, Synchronise, CloseCommit, ReportCommit,
         RefuseEvaluation, EnterActivation, LeaveActivation, Dispatch, DispatchLiteral,
         DispatchForm, DispatchParameter, DispatchIdentity, DispatchNothing,
         ExpectPunctuation, EvaluateOperand, ReturnOperand, ReadName, ApplyPrimitive,
         SelectBranch, WriteOffset, ReadOffset, InvokeTemplate, BeginLoop, IterateLoop,
         EndLoop, ReturnBody, Halt, ExpectAtom, vars
<1>3. QED
  BY <1>1, <1>2 DEF HasFailed, ReportError

\* Between expressions no operand is live.
LEMMA DirectivesKeep ==
    ASSUME LInv, PInv',
           ReadDirective \/ BeginCommit \/ Synchronise \/ CloseCommit \/ ReportCommit
    PROVE  LInv'
<1>1. Len(activations') = 0
  <2>1. UNCHANGED activations
    BY DEF ReadDirective, BeginCommit, Synchronise, CloseCommit, ReportCommit
  <2>2. activations = <<>>
    BY DEF ReadDirective, BeginCommit, Synchronise, CloseCommit, ReportCommit,
           LInv, PInv, IInv, Stacked, AtRest
  <2>3. QED
    BY <2>1, <2>2, EmptySeq
<1>2. control' # "dispatch"
  BY DEF ReadDirective, BeginCommit, Synchronise, CloseCommit, ReportCommit, ExpectAtom
<1>3. QED
  BY <1>1, <1>2 DEF LInv, Iterating, Undispatched, OperandsKept

-----------------------------------------------------------------------------
(* Entering and leaving an expression. *)

\* A refusal touches nothing.
LEMMA RefuseEvaluationKeeps ==
    ASSUME LInv, PInv', HasFailed => HasFailed', RefuseEvaluation
    PROVE  LInv'
<1> USE DEF LInv, PInv, IInv
<1>1. /\ control = "evaluate" /\ control' = "return"
      /\ UNCHANGED <<activations, spill_stack_values, register_values>>
  BY DEF RefuseEvaluation, file_vars
<1>2. Iterating'
  BY <1>1 DEF Iterating, Suspended
<1>3. OperandsKept'
  BY <1>1, OperandsUntouched
<1>4. QED
  BY <1>1, <1>2, <1>3 DEF Undispatched

\* What is entered with a wrapping destination saves the register it borrows,
\* for every activation that has it to save.
LEMMA EnterActivationKeeps ==
    ASSUME LInv, PInv', HasFailed => HasFailed', EnterActivation
    PROVE  LInv'
<1> USE DEF LInv, PInv
<1> DEFINE n == Len(activations)
           m == Len(spill_stack_values)
           d == callee.destination
           b == [form |-> "", destination |-> d, spilled |-> ExceedsBank(d),
                 frame |-> callee.frame, stage |-> 1, operands |-> <<>>, name |-> "",
                 iteration |-> 0]
<1>1. /\ control = "evaluate" /\ control' = "dispatch"
      /\ activations' = Append(activations, b)
      /\ UNCHANGED register_values
      /\ spill_stack_values' =
            IF ExceedsBank(d)
            THEN Append(spill_stack_values, register_values[PhysicalRegister(d)])
            ELSE spill_stack_values
  BY DEF EnterActivation
<1>2. /\ b.operands = <<>> /\ b.form = "" /\ b.spilled = ExceedsBank(d) /\ b.destination = d
  OBVIOUS
<1> HIDE DEF b
<1>3. TypeOK /\ Spills /\ n \in Nat /\ m \in Nat /\ m <= n
  BY Heights DEF IInv, Spills
<1>4. /\ Len(activations') = n + 1 /\ activations'[n + 1] = b
      /\ \A i \in 1..n : activations'[i] = activations[i]
  BY <1>1, <1>3, Heights
<1>5. d \in Nat /\ (ExceedsBank(d) <=> d >= RegisterCount)
  BY <1>3 DEF TypeOK, Call, ExceedsBank
<1>6. Iterating'
  BY <1>1, <1>3, <1>4 DEF Iterating, Suspended
<1>7. Undispatched'
  <2>1. Active' = b
    <3>1. activations' \in Seq(Activation) /\ activations' # <<>>
      BY <1>3, <1>4, EmptySeq DEF IInv, TypeOK
    <3>2. QED
      BY <1>4, <3>1, PopTop DEF Active
  <2>2. QED
    BY <1>2, <2>1 DEF Undispatched
<1>8. ASSUME ~HasFailed, NEW i \in 1..n, NEW k \in LiveOperands(activations[i])
      PROVE  Kept(activations[i].destination + k, i, activations[i].operands[k])'
  <2>1. PICK r, value :
           r = activations[i].destination + k /\ value = activations[i].operands[k]
    OBVIOUS
  <2>2. Kept(r, i, value)
    BY <1>8, <2>1 DEF OperandsKept
  <2>3. Kept(r, i, value)'
    <3>1. CASE ExceedsBank(d)
      <4>1. Len(spill_stack_values') = m + 1
            /\ spill_stack_values'[m + 1] = register_values[PhysicalRegister(d)]
            /\ \A s \in 1..m : spill_stack_values'[s] = spill_stack_values[s]
        BY <1>1, <1>3, <3>1, Heights
      <4>2. Unspilled' = Unspilled /\ Unspilled = n - m /\ (n + 1) - Unspilled = m + 1
        BY <1>3, <1>4, <4>1 DEF Unspilled
      <4> HIDE DEF n, m, d
      <4>3. \A j \in (i + 1)..n : activations'[j] = activations[j]
        BY <1>3, <1>4
      <4>4. SaversOf(r, i) = {j \in (i + 1)..n : activations[j].spilled
                                 /\ PhysicalRegister(activations[j].destination) = r}
        BY DEF SaversOf, n
      <4>5. SaversOf(r, i)' = {j \in (i + 1)..(n + 1) : activations'[j].spilled
                                 /\ PhysicalRegister(activations'[j].destination) = r}
        BY <1>4 DEF SaversOf, PhysicalRegister
      <4>6. (i + 1)..(n + 1) = ((i + 1)..n) \cup {n + 1}
        BY <1>3
      <4>7. SaversOf(r, i)' =
               SaversOf(r, i) \cup (IF PhysicalRegister(d) = r THEN {n + 1} ELSE {})
        BY <1>2, <1>4, <3>1, <4>3, <4>4, <4>5, <4>6
      <4>8. CASE SaversOf(r, i) = {} /\ register_values[r] = value
        <5>1. CASE PhysicalRegister(d) = r
          <6>1. SaversOf(r, i)' = {n + 1}
            BY <4>7, <4>8, <5>1
          <6>2. spill_stack_values'[(n + 1) - Unspilled'] = value
            BY <4>1, <4>2, <4>8, <5>1
          <6>3. n + 1 <= n + 1
            BY <1>3
          <6>4. QED
            BY <6>1, <6>2, <6>3 DEF Kept
        <5>2. CASE PhysicalRegister(d) # r
          BY <1>1, <4>7, <4>8, <5>2 DEF Kept
        <5>3. QED
          BY <5>1, <5>2
      <4>9. CASE \E j \in SaversOf(r, i) :
                    /\ \A l \in SaversOf(r, i) : j <= l
                    /\ spill_stack_values[j - Unspilled] = value
        <5>1. PICK j \in SaversOf(r, i) :
                    /\ \A l \in SaversOf(r, i) : j <= l
                    /\ spill_stack_values[j - Unspilled] = value
          BY <4>9
        <5>2. j \in 1..n /\ activations[j].spilled
          BY <1>3, <4>4
        <5>3. j - Unspilled \in 1..m
          BY <1>3, <5>2, SlotOfSaver DEF n, m
        <5>4. spill_stack_values'[j - Unspilled'] = value
          BY <4>1, <4>2, <5>1, <5>3
        <5>5. j <= n + 1
          BY <1>3, <5>2
        <5>6. j \in SaversOf(r, i)' /\ \A l \in SaversOf(r, i)' : j <= l
          BY <4>7, <5>1, <5>5
        <5>7. QED
          BY <5>4, <5>6 DEF Kept
      <4>10. QED
        BY <2>2, <4>8, <4>9 DEF Kept
    <3>2. CASE ~ExceedsBank(d)
      <4>1. m = 0
        <5>1. \A j \in 1..n : activations[j].destination < RegisterCount
          <6>1. \A j \in 1..n : activations[j].destination <= d
            BY <1>1, <1>3 DEF Spills
          <6>2. \A j \in 1..n : activations[j].destination \in Nat
            BY <1>3, Heights DEF Activation
          <6>3. QED
            <7>1. d < RegisterCount /\ d \in Nat /\ RegisterCount \in Nat
              BY <1>5, <3>2, EvaluatorAssumption DEF ExceedsBank
            <7> HIDE DEF d, n
            <7>2. QED
              BY <6>1, <6>2, <7>1
        <5>2. \A j \in 1..n : ~(j > n - m)
          <6>1. \A j \in 1..n : activations[j].destination \in Nat
            BY <1>3, Heights DEF Activation
          <6>2. \A j \in 1..n :
                   j > n - m <=> activations[j].destination >= RegisterCount
            BY <1>3 DEF Spills
          <6>3. RegisterCount \in Nat
            BY EvaluatorAssumption
          <6> HIDE DEF n, m
          <6>4. QED
            BY <5>1, <6>1, <6>2, <6>3
        <5> HIDE DEF n, m, d
        <5>3. m > 0 => n \in 1..n /\ n > n - m
          BY <1>3
        <5>4. QED
          BY <1>3, <5>2, <5>3
      <4>2. SaversOf(r, i) = {} /\ register_values[r] = value
        <5>1. SaversOf(r, i) = {}
          BY <1>3, <4>1, NoSavers
        <5>2. QED
          BY <2>2, <5>1 DEF Kept
      <4>3. i \in 1..Len(activations') /\ TypeOK' /\ Spills'
        BY <1>3, <1>4 DEF IInv
      <4>4. Len(spill_stack_values') = 0
        BY <1>1, <3>2, <4>1
      <4>5. SaversOf(r, i)' = {}
        <5>1. \A j \in 1..(n + 1) : ~activations'[j].spilled
          BY <1>3, <1>4, <4>3, <4>4 DEF Spills
        <5> HIDE DEF n
        <5>2. (i + 1)..(n + 1) \subseteq 1..(n + 1)
          BY <1>3
        <5>3. QED
          BY <1>4, <5>1, <5>2 DEF SaversOf
      <4>6. QED
        BY <1>1, <4>2, <4>5 DEF Kept
    <3>3. QED
      BY <3>1, <3>2
  <2>4. activations'[i] = activations[i]
    BY <1>4
  <2>5. QED
    BY <2>1, <2>3, <2>4
<1>9. LiveOperands(b) = {}
  <2>1. Len(b.operands) = 0
    BY <1>2, EmptySeq
  <2>2. QED
    BY <2>1 DEF LiveOperands
<1>10. OperandsKept'
  <2> SUFFICES ASSUME ~HasFailed, NEW i \in 1..(n + 1),
                      NEW k \in LiveOperands(activations'[i])
               PROVE  Kept(activations[i].destination + k, i, activations[i].operands[k])'
    BY <1>4 DEF OperandsKept, LiveOperands
  <2>1. i # n + 1
    BY <1>4, <1>9
  <2>2. i \in 1..n
    BY <1>3, <2>1
  <2>3. activations'[i] = activations[i]
    BY <1>4, <2>2
  <2>4. QED
    BY <1>8, <2>2, <2>3
<1>11. QED
  BY <1>6, <1>7, <1>10

\* What is left gives back what it borrowed: to the register, if it was the
\* outermost of the savers.
LEMMA LeaveActivationKeeps ==
    ASSUME LInv, PInv', HasFailed => HasFailed', LeaveActivation
    PROVE  LInv'
<1> USE DEF LInv, PInv
<1> DEFINE n == Len(activations)
           m == Len(spill_stack_values)
           d == Active.destination
<1>1. /\ control = "leave" /\ control' = "return"
      /\ activations' = Front(activations)
  BY DEF LeaveActivation
<1>2. TypeOK /\ Spills /\ n \in Nat /\ m \in Nat /\ m <= n /\ activations # <<>>
  BY <1>1, Heights DEF IInv, Spills, Stacked, InActivation
<1>3. /\ n \in Nat \ {0} /\ Active = activations[n] /\ Active \in Activation
      /\ Len(activations') = n - 1
      /\ \A i \in 1..(n - 1) : activations'[i] = activations[i]
  BY <1>1, <1>2, Heights, PopTop, Innermost
<1>4. Active.spilled <=> m > 0
  BY <1>2, <1>3 DEF Spills
<1>5. m > 0 => /\ register_values' =
                     [register_values EXCEPT
                        ![PhysicalRegister(d)] = spill_stack_values[m]]
               /\ Len(spill_stack_values') = m - 1
               /\ \A s \in 1..(m - 1) : spill_stack_values'[s] = spill_stack_values[s]
  <2> SUFFICES ASSUME m > 0
               PROVE  /\ register_values' =
                            [register_values EXCEPT
                               ![PhysicalRegister(d)] = spill_stack_values[m]]
                      /\ Len(spill_stack_values') = m - 1
                      /\ \A s \in 1..(m - 1) :
                            spill_stack_values'[s] = spill_stack_values[s]
    OBVIOUS
  <2>1. spill_stack_values \in Seq(Double) /\ spill_stack_values # <<>>
    BY <1>2, Heights, EmptySeq
  <2>2. /\ WriteRegister(d, Last(spill_stack_values))
        /\ spill_stack_values' = Front(spill_stack_values)
    BY <1>4, <2>1 DEF LeaveActivation
  <2>3. QED
    BY <2>1, <2>2, PopTop DEF WriteRegister
<1>6. m = 0 => UNCHANGED <<register_values, spill_stack_values>>
  BY <1>4 DEF LeaveActivation
<1>7. Iterating'
  BY <1>1, <1>2, <1>3 DEF Iterating, Suspended
<1>8. Undispatched'
  BY <1>1 DEF Undispatched
<1>9. ASSUME ~HasFailed, NEW i \in 1..(n - 1), NEW k \in LiveOperands(activations[i])
      PROVE  Kept(activations[i].destination + k, i, activations[i].operands[k])'
  <2>1. PICK r, value :
           r = activations[i].destination + k /\ value = activations[i].operands[k]
    OBVIOUS
  <2>2. i \in 1..n /\ i + 1 \in 1..n
    BY <1>3
  <2>3. Kept(r, i, value)
    BY <1>9, <2>1, <2>2 DEF OperandsKept
  <2>4. r \in Registers
    <3>1. activations[i] \in Activation
      BY <1>2, <2>2, Heights
    <3>2. activations[i].destination \in Nat /\ Len(activations[i].operands) \in Nat
      BY <3>1, LenProperties DEF Activation
    <3>3. k \in 1..Len(activations[i].operands) /\ r < RegisterCount
      BY <2>1 DEF LiveOperands
    <3>4. QED
      BY <2>1, <3>2, <3>3, EvaluatorAssumption DEF Registers
  <2>5. Kept(r, i, value)'
    <3>1. CASE m > 0
      <4>1. Unspilled' = Unspilled /\ Unspilled = n - m /\ n - Unspilled = m
        <5>1. Unspilled = n - m /\ Unspilled' = (n - 1) - (m - 1)
          BY <1>3, <1>5, <3>1 DEF Unspilled
        <5> HIDE DEF n, m
        <5>2. QED
          BY <1>2, <1>3, <5>1
      <4>2. SaversOf(r, i) = {j \in (i + 1)..n : activations[j].spilled
                                 /\ PhysicalRegister(activations[j].destination) = r}
        BY DEF SaversOf
      <4>3. SaversOf(r, i)' = {j \in (i + 1)..(n - 1) : activations'[j].spilled
                                 /\ PhysicalRegister(activations'[j].destination) = r}
        BY <1>3 DEF SaversOf, PhysicalRegister
      <4>4. n \in SaversOf(r, i) <=> PhysicalRegister(d) = r
        <5>1. n \in (i + 1)..n
          BY <1>3
        <5>2. QED
          BY <1>3, <1>4, <3>1, <4>2, <5>1
      <4> HIDE DEF n, m, d
      <4>5. \A j \in (i + 1)..(n - 1) : activations'[j] = activations[j]
        BY <1>3
      <4>6. (i + 1)..(n - 1) = ((i + 1)..n) \ {n}
        BY <1>3
      <4>7. SaversOf(r, i)' = SaversOf(r, i) \ {n}
        BY <4>2, <4>3, <4>5, <4>6
      <4>8. CASE SaversOf(r, i) = {} /\ register_values[r] = value
        <5>1. PhysicalRegister(d) # r
          BY <4>4, <4>8
        <5>2. register_values'[r] = value
          BY <1>2, <1>5, <2>4, <3>1, <4>8, <5>1 DEF TypeOK
        <5>3. QED
          BY <4>7, <4>8, <5>2 DEF Kept
      <4>9. CASE \E j \in SaversOf(r, i) :
                    /\ \A l \in SaversOf(r, i) : j <= l
                    /\ spill_stack_values[j - Unspilled] = value
        <5>1. PICK j \in SaversOf(r, i) :
                    /\ \A l \in SaversOf(r, i) : j <= l
                    /\ spill_stack_values[j - Unspilled] = value
          BY <4>9
        <5>2. j \in 1..n /\ activations[j].spilled
          BY <1>3, <4>2
        <5>3. j - Unspilled \in 1..m
          BY <1>2, <5>2, SlotOfSaver DEF n, m
        <5>4. CASE j < n
          <6>1. j - Unspilled \in 1..(m - 1)
            BY <1>2, <1>3, <4>1, <5>2, <5>3, <5>4
          <6>2. spill_stack_values'[j - Unspilled'] = value
            BY <1>5, <3>1, <4>1, <5>1, <6>1
          <6>3. j \in SaversOf(r, i)' /\ \A l \in SaversOf(r, i)' : j <= l
            <7>1. j # n
              BY <1>3, <5>2, <5>4
            <7>2. QED
              BY <4>7, <5>1, <7>1
          <6>4. QED
            BY <6>2, <6>3 DEF Kept
        <5>5. CASE j = n
          <6>1. \A l \in SaversOf(r, i) : l = n
            BY <1>3, <4>2, <5>1, <5>5
          <6>2. SaversOf(r, i)' = {}
            BY <4>7, <6>1
          <6>3. PhysicalRegister(d) = r /\ spill_stack_values[m] = value
            BY <4>1, <4>4, <5>1, <5>5
          <6>4. register_values'[r] = value
            BY <1>2, <1>5, <2>4, <3>1, <6>3 DEF TypeOK
          <6>5. QED
            BY <6>2, <6>4 DEF Kept
        <5>6. QED
          BY <1>3, <5>2, <5>4, <5>5
      <4>10. QED
        BY <2>3, <4>8, <4>9 DEF Kept
    <3>2. CASE m = 0
      <4>1. SaversOf(r, i) = {}
        BY <1>2, <2>2, <3>2, NoSavers
      <4>2. register_values'[r] = value
        BY <1>6, <2>3, <3>2, <4>1 DEF Kept
      <4>3. TypeOK' /\ Spills' /\ Len(spill_stack_values') = 0
        BY <1>6, <3>2 DEF IInv
      <4>4. SaversOf(r, i)' = {}
        <5>1. \A j \in 1..(n - 1) : ~activations'[j].spilled
          BY <1>3, <4>3 DEF Spills
        <5> HIDE DEF n
        <5>2. (i + 1)..(n - 1) \subseteq 1..(n - 1)
          BY <1>3
        <5>3. QED
          BY <1>3, <5>1, <5>2 DEF SaversOf
      <4>5. QED
        BY <4>2, <4>4 DEF Kept
    <3>3. QED
      BY <1>2, <3>1, <3>2
  <2>6. activations'[i] = activations[i]
    BY <1>3
  <2>7. QED
    BY <2>1, <2>5, <2>6
<1>10. OperandsKept'
  <2> SUFFICES ASSUME ~HasFailed, NEW i \in 1..(n - 1),
                      NEW k \in LiveOperands(activations'[i])
               PROVE  Kept(activations[i].destination + k, i, activations[i].operands[k])'
    BY <1>3 DEF OperandsKept, LiveOperands
  <2>1. activations'[i] = activations[i]
    BY <1>3
  <2>2. QED
    BY <1>9, <2>1
<1>11. QED
  BY <1>7, <1>8, <1>10

-----------------------------------------------------------------------------
(* The handlers. *)

\* A handler that returns a value, or leaves the registers alone.
LEMMA HandlerKeeps ==
    ASSUME LInv, PInv', HasFailed => HasFailed', activations # <<>>,
           UNCHANGED <<activations, spill_stack_values>>,
           control' \notin {"evaluate", "return", "dispatch"},
           (\E value : Publish(value)) \/ UNCHANGED register_values
    PROVE  LInv'
<1> USE DEF LInv, PInv, IInv
<1>1. Iterating'
  BY IteratingKept
<1>2. OperandsKept'
  BY OperandsUntouched, PublishKeepsOperands
<1>3. QED
  BY <1>1, <1>2 DEF Undispatched

\* A form is dispatched to before it has operands.
LEMMA DispatchKeeps ==
    ASSUME LInv, PInv', HasFailed => HasFailed', Dispatch
    PROVE  LInv'
<1> USE DEF LInv, PInv, IInv
<1>1. /\ control = "dispatch" /\ activations # <<>> /\ UNCHANGED spill_stack_values
  BY DEF Dispatch, Stacked, InActivation
<1>2. PICK atom \in NextAtoms :
         \/ DispatchForm(atom)
         \/ /\ UNCHANGED activations /\ control' = "leave"
            /\ (\E value : Publish(value)) \/ UNCHANGED register_values
  BY Zenon DEF Dispatch, DispatchLiteral, DispatchParameter, DispatchIdentity,
               DispatchNothing, Fail, Publish
<1>3. CASE DispatchForm(atom)
  <2> DEFINE a == [Active EXCEPT !.form = atom.name]
  <2>1. UpdateActive(a) /\ control' = "form" /\ UNCHANGED register_values
    BY <1>3 DEF DispatchForm
  <2>2. Active \in Activation /\ Active.operands = <<>>
    BY <1>1, Innermost DEF Undispatched
  <2>3. /\ a.destination = Active.destination /\ a.spilled = Active.spilled
        /\ a.operands = <<>>
    BY <2>2 DEF Activation
  <2> HIDE DEF a
  <2>4. LiveOperands(a) = {}
    <3>1. Len(a.operands) = 0
      BY <2>3, EmptySeq
    <3>2. QED
      BY <3>1 DEF LiveOperands
  <2>5. OperandsKept'
    BY <1>1, <2>1, <2>3, <2>4, TopKeepsOperands
  <2>6. Iterating'
    BY <1>1, <2>1, IteratingKept, TopUpdated
  <2>7. QED
    BY <2>1, <2>5, <2>6 DEF Undispatched
<1>4. CASE /\ UNCHANGED activations /\ control' = "leave"
           /\ (\E value : Publish(value)) \/ UNCHANGED register_values
  BY <1>1, <1>4, HandlerKeeps
<1>5. QED
  BY <1>2, <1>3, <1>4

\* Reading punctuation, or a name, advances the form.
LEMMA AdvanceKeeps ==
    ASSUME LInv, PInv', HasFailed => HasFailed', activations # <<>>,
           NEW a, UpdateActive(a),
           a.form = Active.form, a.destination = Active.destination,
           a.spilled = Active.spilled, a.operands = Active.operands,
           a.iteration = Active.iteration,
           UNCHANGED <<spill_stack_values, register_values>>,
           control' \notin {"evaluate", "return", "dispatch"}
    PROVE  LInv'
<1> USE DEF LInv, PInv, IInv
<1>1. LiveOperands(a) = LiveOperands(Active)
  BY DEF LiveOperands
<1>2. OperandsKept'
  BY <1>1, TopKeepsOperands
<1>3. Iterating'
  BY IteratingKept, TopUpdated
<1>4. QED
  BY <1>2, <1>3 DEF Undispatched

\* An expectation advances the form, met or not.
LEMMA ExpectPunctuationKeeps ==
    ASSUME LInv, PInv', HasFailed => HasFailed', ExpectPunctuation
    PROVE  LInv'
<1>1. activations # <<>> /\ UpdateActive(Advanced) /\ control' \in {"form", "leave"}
      /\ UNCHANGED <<spill_stack_values, register_values>>
  BY DEF ExpectPunctuation, ExpectAtom, LInv, PInv, IInv, Stacked, InActivation, file_vars
<1>2. Active \in Activation
  BY <1>1, Innermost DEF LInv, PInv, IInv
<1>3. /\ Advanced.form = Active.form /\ Advanced.destination = Active.destination
      /\ Advanced.spilled = Active.spilled /\ Advanced.operands = Active.operands
      /\ Advanced.iteration = Active.iteration
  BY <1>2 DEF Advanced, Activation
<1>4. QED
  BY <1>1, <1>3, AdvanceKeeps

\* A name advances the form, or is a failure.
LEMMA ReadNameKeeps ==
    ASSUME LInv, PInv', HasFailed => HasFailed', ReadName
    PROVE  LInv'
<1>1. control = "form" /\ activations # <<>>
      /\ UNCHANGED <<spill_stack_values, register_values>>
  BY DEF ReadName, LInv, PInv, IInv, Stacked, InActivation, file_vars
<1>2. PICK atom \in NextAtoms :
         \/ UpdateActive([Advanced EXCEPT !.name = atom.name]) /\ UNCHANGED control
         \/ control' = "leave" /\ UNCHANGED activations
  BY Zenon DEF ReadName
<1>3. CASE control' = "leave" /\ UNCHANGED activations
  BY <1>1, <1>3, HandlerKeeps
<1>4. CASE UpdateActive([Advanced EXCEPT !.name = atom.name]) /\ UNCHANGED control
  <2> DEFINE a == [Advanced EXCEPT !.name = atom.name]
  <2>1. Active \in Activation
    BY <1>1, Innermost DEF LInv, PInv, IInv
  <2>2. /\ a.form = Active.form /\ a.destination = Active.destination
        /\ a.spilled = Active.spilled /\ a.operands = Active.operands
        /\ a.iteration = Active.iteration
    BY <2>1 DEF Advanced, Activation
  <2>3. UpdateActive(a) /\ control' = "form"
    BY <1>1, <1>4
  <2> HIDE DEF a
  <2>4. QED
    BY <1>1, <2>2, <2>3, AdvanceKeeps
<1>5. QED
  BY <1>2, <1>3, <1>4

\* Asking for an operand touches nothing.
LEMMA EvaluateOperandKeeps ==
    ASSUME LInv, PInv', HasFailed => HasFailed', EvaluateOperand
    PROVE  LInv'
<1> USE DEF LInv, PInv, IInv
<1>1. /\ control' = "evaluate" /\ activations # <<>> /\ ~HasBody(Active)
      /\ UNCHANGED <<activations, spill_stack_values, register_values>>
  BY DEF EvaluateOperand, Stacked, InActivation, ArgumentsRead, HasBody, file_vars
<1>2. ~HasBody(activations[Len(activations)])
  BY <1>1, Innermost
<1>3. Iterating'
  BY <1>1, <1>2, IteratingKept
<1>4. OperandsKept'
  BY <1>1, OperandsUntouched
<1>5. QED
  BY <1>1, <1>3, <1>4 DEF Undispatched

\* The operand that was obtained is in the register that was asked for.
LEMMA ReturnOperandKeeps ==
    ASSUME LInv, PInv', HasFailed => HasFailed', ReturnOperand
    PROVE  LInv'
<1> USE DEF LInv, PInv, IInv
<1> DEFINE a == [Advanced EXCEPT !.operands = Append(@, result)]
           count == Len(Active.operands)
<1>1. /\ control = "return" /\ control' = "form" /\ activations # <<>>
      /\ ~HasBody(Active) /\ UpdateActive(a)
      /\ UNCHANGED <<spill_stack_values, register_values>>
  BY DEF ReturnOperand, ArgumentsRead, HasBody, file_vars
<1>2. Active \in Activation /\ result \in Double
  BY <1>1, Innermost DEF TypeOK
<1>3. Active.operands \in Seq(Double) /\ count \in Nat /\ Active.destination \in Nat
  BY <1>2, LenProperties DEF Activation
<1>4. /\ a.form = Active.form /\ a.destination = Active.destination
      /\ a.spilled = Active.spilled /\ a.iteration = Active.iteration
      /\ a.operands = Append(Active.operands, result)
  BY <1>2 DEF Advanced, Activation
<1> HIDE DEF a
<1>5. /\ Len(a.operands) = count + 1
      /\ a.operands[count + 1] = result
      /\ \A k \in 1..count : a.operands[k] = Active.operands[k]
  BY <1>2, <1>3, <1>4, AppendProperties
<1>6. ASSUME ~HasFailed, NEW k \in LiveOperands(a)
      PROVE  \/ k \in LiveOperands(Active) /\ a.operands[k] = Active.operands[k]
             \/ register_values[a.destination + k] = a.operands[k]
  <2> HIDE DEF count
  <2>1. /\ a.form \in Forms /\ a.iteration = 0
        /\ k \in 1..(count + 1) /\ a.destination + k < RegisterCount
    BY <1>5 DEF LiveOperands
  <2>2. CASE k \in 1..count
    <3>1. k \in LiveOperands(Active)
      BY <1>4, <2>1, <2>2 DEF LiveOperands, count
    <3>2. QED
      BY <1>5, <2>2, <3>1
  <2>3. CASE k = count + 1
    <3>1. Requested = Active.destination + 1 + count
      BY <1>1, <1>4, <2>1, Innermost DEF DestinationWithin, count
    <3>2. Requested = a.destination + k
      <4>1. a.destination = Active.destination
        BY <1>4
      <4>2. Active.destination + 1 + count = Active.destination + (count + 1)
        BY <1>3
      <4>3. QED
        BY <2>3, <3>1, <4>1, <4>2
    <3>3. Holds(Requested)
      BY <1>1, <1>6 DEF Published
    <3>4. result = register_values[a.destination + k]
      BY <2>1, <3>2, <3>3 DEF Holds
    <3>5. QED
      BY <1>5, <2>3, <3>4
  <2>4. QED
    BY <1>3, <2>1, <2>2, <2>3
<1>7. OperandsKept'
  BY <1>1, <1>4, <1>6, TopKeepsOperands
<1>8. Iterating'
  BY <1>1, IteratingKept, TopUpdated
<1>9. QED
  BY <1>1, <1>7, <1>8 DEF Undispatched

\* Concluding a form that evaluates no further body.
LEMMA ConclusionKeeps ==
    ASSUME LInv, PInv', HasFailed => HasFailed',
           ApplyPrimitive \/ SelectBranch \/ WriteOffset \/ ReadOffset \/ BeginLoop \/ EndLoop
    PROVE  LInv'
<1>1. UNCHANGED <<activations, spill_stack_values>> /\ activations # <<>>
  BY DEF ApplyPrimitive, SelectBranch, WriteOffset, ReadOffset, BeginLoop, EndLoop,
         Concluding, LInv, PInv, IInv, Stacked, InActivation, file_vars
<1>2. /\ (\E value : Publish(value)) \/ UNCHANGED register_values
      /\ control' \in {"leave", "iterate"}
  BY Zenon DEF ApplyPrimitive, SelectBranch, WriteOffset, ReadOffset, BeginLoop, EndLoop,
               Fail, Publish, file_vars
<1>3. QED
  BY <1>1, <1>2, HandlerKeeps

-----------------------------------------------------------------------------
(* Template bodies. *)

\* A template has bound its arguments and relies on no register.
LEMMA InvokeTemplateKeeps ==
    ASSUME LInv, PInv', HasFailed => HasFailed', InvokeTemplate
    PROVE  LInv'
<1> USE DEF LInv, PInv, IInv
<1>1. /\ control' = "evaluate" /\ activations # <<>> /\ Active.form \in DOMAIN Templates
      /\ UNCHANGED <<activations, spill_stack_values, register_values>>
  BY DEF InvokeTemplate, Concluding, EnterBody, Stacked, InActivation, file_vars
<1>2. activations[Len(activations)].form \notin Forms
  BY <1>1, Innermost, DeclarationAssumption
<1>3. Iterating'
  BY <1>1, <1>2, IteratingKept
<1>4. OperandsKept'
  BY <1>1, OperandsUntouched
<1>5. QED
  BY <1>1, <1>3, <1>4 DEF Undispatched

\* A Loop has taken its limit from its count and relies on it no longer.
LEMMA IterateLoopKeeps ==
    ASSUME LInv, PInv', HasFailed => HasFailed', IterateLoop
    PROVE  LInv'
<1> USE DEF LInv, PInv, IInv
<1> DEFINE a == [Active EXCEPT !.iteration = @ + 1]
<1>1. /\ control' = "evaluate" /\ activations # <<>> /\ UpdateActive(a)
      /\ UNCHANGED <<spill_stack_values, register_values>>
  BY DEF IterateLoop, EnterBody, Stacked, InActivation, file_vars
<1>2. Active \in Activation
  BY <1>1, Innermost
<1>3. /\ a.destination = Active.destination /\ a.spilled = Active.spilled
      /\ a.iteration > 0
  <2>1. /\ a.destination = Active.destination /\ a.spilled = Active.spilled
        /\ a.iteration = Active.iteration + 1
    BY <1>2 DEF Activation
  <2>2. Active.iteration \in Nat
    BY <1>2 DEF Activation
  <2>3. QED
    BY <2>1, <2>2
<1> HIDE DEF a
<1>4. LiveOperands(a) = {}
  BY <1>3 DEF LiveOperands
<1>5. OperandsKept'
  BY <1>1, <1>3, <1>4, TopKeepsOperands
<1>6. Iterating'
  BY <1>1, <1>3, IteratingKept, TopUpdated
<1>7. QED
  BY <1>1, <1>5, <1>6 DEF Undispatched

\* Returning from a body touches nothing.
LEMMA ReturnBodyKeeps ==
    ASSUME LInv, PInv', HasFailed => HasFailed', ReturnBody
    PROVE  LInv'
<1>1. /\ activations # <<>> /\ control' \in {"iterate", "leave"}
      /\ UNCHANGED <<activations, spill_stack_values, register_values>>
  BY DEF ReturnBody, file_vars
<1>2. QED
  BY <1>1, HandlerKeeps

-----------------------------------------------------------------------------
(* The theorems. *)

\* Nothing is live.
LEMMA OperandsInitially ==
    ASSUME Init
    PROVE  LInv
<1>1. PInv
  BY ResultsInitially
<1>2. Len(activations) = 0 /\ control = "directive"
  BY EmptySeq DEF Init
<1>3. QED
  BY <1>1, <1>2 DEF LInv, Iterating, Undispatched, OperandsKept

\* Every step preserves the invariant.
LEMMA OperandsInductive ==
    ASSUME LInv, [Next]_vars
    PROVE  LInv'
<1>1. PInv'
  BY ResultsInductive DEF LInv
<1>2. CASE UNCHANGED vars
  <2>1. HasFailed => HasFailed'
    BY <1>2 DEF vars, HasFailed
  <2>2. OperandsKept'
    BY <1>2, <2>1, OperandsUntouched DEF vars, LInv, PInv, IInv
  <2>3. Iterating' /\ Undispatched'
    BY <1>2 DEF vars, LInv, Iterating, Suspended, Undispatched, Active
  <2>4. QED
    BY <1>1, <2>2, <2>3 DEF LInv
<1>3. CASE Halt
  BY <1>2, <1>3 DEF Halt
<1>4. CASE Next /\ ~Halt
  <2>1. HasFailed => HasFailed'
    BY <1>4, FailureLasts DEF LInv, PInv
  <2>2. QED
    BY <1>1, <1>4, <2>1, DirectivesKeep, RefuseEvaluationKeeps, EnterActivationKeeps,
       LeaveActivationKeeps, DispatchKeeps, ExpectPunctuationKeeps, ReadNameKeeps,
       EvaluateOperandKeeps, ReturnOperandKeeps, ConclusionKeeps, InvokeTemplateKeeps,
       IterateLoopKeeps, ReturnBodyKeeps
       DEF Next
<1>5. QED
  BY <1>2, <1>3, <1>4

\* The invariant of live operands holds in every reachable state.
THEOREM OperandsHold == Spec => []LInv
<1>1. Init => LInv
  BY OperandsInitially
<1>2. LInv /\ [Next]_vars => LInv'
  BY OperandsInductive
<1>3. QED
  BY <1>1, <1>2, PTL DEF Spec

\* No live operand is ever overwritten, whatever the sizes of bank and program.
THEOREM OperandsPreserved == Spec => []LiveOperandsPreserved
<1>1. LInv => LiveOperandsPreserved
  <2> SUFFICES ASSUME LInv, ~HasFailed, NEW i \in 1..Len(activations),
                      activations[i].form \in Forms, activations[i].iteration = 0,
                      NEW k \in 1..Len(activations[i].operands),
                      activations[i].destination + k < RegisterCount
               PROVE  Occupant(activations[i].destination + k, i) = activations[i].operands[k]
    BY DEF LiveOperandsPreserved
  <2>1. k \in LiveOperands(activations[i])
    BY DEF LiveOperands
  <2>2. Kept(activations[i].destination + k, i, activations[i].operands[k])
    BY <2>1 DEF LInv, OperandsKept
  <2>3. QED
    BY <2>2, KeptIsOccupant DEF LInv, PInv, IInv
<1>2. QED
  BY <1>1, OperandsHold, PTL

-----------------------------------------------------------------------------
(***************************************************************************)
(* What the evaluator computes.  The meaning of a text is defined by four  *)
(* recursive functions of a natural number; that such a function exists is *)
(* proved once, for whichever of them x names.                             *)
(***************************************************************************)

\* A set of natural numbers has a least element.
LEMMA LeastNatural ==
    ASSUME NEW K, K \subseteq Nat, K # {}
    PROVE  \E m \in K : \A k \in K : m <= k
<1>1. PICK m \in K : \A k \in K : <<k, m>> \notin OpToRel(<, Nat)
  BY WFMin, NatLessThanWellFounded, Zenon
<1>2. \A k \in K : ~(k < m)
  BY <1>1 DEF OpToRel
<1> QED
  BY <1>2

\* The functions as functions of the one before.
Repeats(g, template, limit, i, repeat) ==
    [m \in Machine |->
        IF m.failed \/ i = 0 THEN m
        ELSE repeat[Body(g, m, template, IndexArguments(template, limit - i))]]
Finishes(g, form, frame, k, finish) ==
    [c \in Configuration |->
        IF c.machine.failed THEN c.machine
        ELSE IF k = 0 THEN Conclusion(g, c, form)
        ELSE finish[Read(g, c, form, frame,
                         ArgumentList(form)[Len(ArgumentList(form)) + 1 - k])]]
Evaluates(depth, evaluate) ==
    [e \in Machine \X Frame |->
        IF depth = 0 THEN Failed(e[1]) ELSE Expression(evaluate, e[1], e[2])]
Executes(k, execute) ==
    [p \in [machine : Machine, outputs : Seq(Double)] |->
        IF p.machine.failed \/ k = 0 \/ NextOf(p.machine) = EndOfSource THEN p
        ELSE execute[Directive(p.machine, p.outputs)]]

After(x, n, before) ==
    IF x.function = "repeat" THEN Repeats(x.g, x.form, x.with, n, before)
    ELSE IF x.function = "finish" THEN Finishes(x.g, x.form, x.with, n, before)
    ELSE IF x.function = "evaluate" THEN Evaluates(n, before)
    ELSE Executes(n, before)
Before(f, n) == IF n = 0 THEN {} ELSE f[n - 1]

\* The first values, up to a given one.
FirstValues(x, f, k) == f = [n \in 0..k |-> After(x, n, Before(f, n))]

\* The first values are those of any longer sequence of them.
LEMMA FirstValuesAgree ==
    ASSUME NEW x, NEW f, NEW g, NEW k \in Nat, NEW l \in Nat,
           FirstValues(x, f, k), FirstValues(x, g, l)
    PROVE  \A n \in 0..k : n <= l => f[n] = g[n]
<1> DEFINE K == {n \in 0..k : n <= l /\ f[n] # g[n]}
<1> SUFFICES ASSUME K # {} PROVE FALSE
  OBVIOUS
<1>1. PICK m \in K : \A n \in K : m <= n
  <2>1. K \subseteq Nat
    OBVIOUS
  <2> QED
    BY <2>1, LeastNatural
<1>2. m \in 0..k /\ m \in 0..l /\ f[m] # g[m]
  OBVIOUS
<1>3. f[m] = After(x, m, Before(f, m)) /\ g[m] = After(x, m, Before(g, m))
  BY <1>2 DEF FirstValues
<1>4. m # 0 => f[m - 1] = g[m - 1]
  <2>1. m # 0 => m - 1 \in 0..k /\ m - 1 <= l /\ m - 1 \notin K
    BY <1>1, <1>2
  <2> QED
    BY <2>1
<1>5. Before(f, m) = Before(g, m)
  BY <1>4 DEF Before
<1> QED
  BY <1>2, <1>3, <1>5

\* There are first values of any number.
LEMMA FirstValuesExist ==
    ASSUME NEW x
    PROVE  \A k \in Nat : \E f : FirstValues(x, f, k)
<1> DEFINE K == {k \in Nat : ~\E f : FirstValues(x, f, k)}
<1> SUFFICES ASSUME K # {} PROVE FALSE
  OBVIOUS
<1>1. PICK m \in K : \A k \in K : m <= k
  <2>1. K \subseteq Nat
    OBVIOUS
  <2> QED
    BY <2>1, LeastNatural
<1>2. PICK f : m # 0 => FirstValues(x, f, m - 1)
  <2>1. m # 0 => m - 1 \in Nat /\ m - 1 \notin K
    BY <1>1
  <2> QED
    BY <2>1
<1> DEFINE g == [n \in 0..m |-> IF n = m THEN After(x, m, Before(f, m)) ELSE f[n]]
<1>3. ASSUME NEW n \in 0..m PROVE g[n] = After(x, n, Before(g, n))
  <2>1. n # 0 => n - 1 \in 0..(m - 1) /\ n - 1 \in 0..m /\ n - 1 # m
    BY <1>3
  <2>2. n # 0 => g[n - 1] = f[n - 1]
    BY <2>1
  <2>3. Before(g, n) = Before(f, n)
    BY <2>2 DEF Before
  <2>4. n # m => n \in 0..(m - 1) /\ m # 0
    BY <1>3
  <2>5. n # m => f[n] = After(x, n, Before(f, n))
    BY <1>2, <2>4 DEF FirstValues
  <2> QED
    BY <2>3, <2>5
<1>4. FirstValues(x, g, m)
  BY <1>3 DEF FirstValues
<1> QED
  BY <1>1, <1>4

\* There is a function whose every value is made of the one before.
LEMMA RecursionExists ==
    ASSUME NEW x
    PROVE  \E f : f = [n \in Nat |-> After(x, n, Before(f, n))]
<1> DEFINE first(k) == CHOOSE f : FirstValues(x, f, k)
           run == [n \in Nat |-> first(n)[n]]
<1>1. \A k \in Nat : FirstValues(x, first(k), k)
  BY FirstValuesExist
<1> HIDE DEF first
<1>2. ASSUME NEW n \in Nat PROVE run[n] = After(x, n, Before(run, n))
  <2>1. run[n] = After(x, n, Before(first(n), n))
    <3>1. n \in 0..n
      OBVIOUS
    <3> QED
      BY <1>1, <3>1 DEF FirstValues
  <2>2. n # 0 => run[n - 1] = first(n)[n - 1]
    <3>1. n # 0 => n - 1 \in Nat /\ n - 1 \in 0..(n - 1) /\ n - 1 <= n
      OBVIOUS
    <3>2. n # 0 => first(n - 1)[n - 1] = first(n)[n - 1]
      BY <1>1, <3>1, FirstValuesAgree
    <3> QED
      BY <3>1, <3>2
  <2>3. Before(run, n) = Before(first(n), n)
    BY <2>2 DEF Before
  <2> QED
    BY <2>1, <2>3
<1>3. run = [n \in Nat |-> After(x, n, Before(run, n))]
  BY <1>2
<1> QED
  BY <1>3

\* A loop, iteration by iteration.
LEMMA RepeatingIs ==
    ASSUME NEW g, NEW template, NEW limit, NEW i \in Nat, NEW m \in Machine
    PROVE  /\ m.failed \/ i = 0 => Repeating(g, template, limit)[i][m] = m
           /\ ~m.failed /\ i # 0 =>
                 Repeating(g, template, limit)[i][m] =
                    Repeating(g, template, limit)[i - 1]
                       [Body(g, m, template, IndexArguments(template, limit - i))]
<1> DEFINE x == [function |-> "repeat", g |-> g, form |-> template, with |-> limit]
           Def(f) == [j \in Nat |->
               [c \in Machine |->
                  IF c.failed \/ j = 0 THEN c
                  ELSE f[j - 1][Body(g, c, template, IndexArguments(template, limit - j))]]]
<1>1. PICK f : f = [n \in Nat |-> After(x, n, Before(f, n))]
  BY RecursionExists
<1>2. \A n : After(x, n, Before(f, n)) = Repeats(g, template, limit, n, Before(f, n))
  BY DEF After
<1>3. ASSUME NEW j \in Nat
      PROVE  Repeats(g, template, limit, j, Before(f, j)) = Def(f)[j]
  <2>1. j # 0 => Before(f, j) = f[j - 1]
    BY DEF Before
  <2> QED
    BY <2>1 DEF Repeats
<1>4. f = Def(f)
  BY <1>1, <1>2, <1>3
<1> DEFINE R == Repeating(g, template, limit)
<1>5. R = Def(R)
  BY <1>4 DEF Repeating
<1> HIDE DEF R
<1>6. R[i][m] = Def(R)[i][m]
  BY <1>5
<1> QED
  BY <1>6 DEF R

\* A form, step by step.
LEMMA FinishingIs ==
    ASSUME NEW g, NEW form, NEW frame, NEW k \in Nat, NEW c \in Configuration
    PROVE  /\ c.machine.failed => Finishing(g, form, frame)[k][c] = c.machine
           /\ ~c.machine.failed /\ k = 0 =>
                 Finishing(g, form, frame)[k][c] = Conclusion(g, c, form)
           /\ ~c.machine.failed /\ k # 0 =>
                 Finishing(g, form, frame)[k][c] =
                    Finishing(g, form, frame)[k - 1]
                       [Read(g, c, form, frame,
                             ArgumentList(form)[Len(ArgumentList(form)) + 1 - k])]
<1> DEFINE x == [function |-> "finish", g |-> g, form |-> form, with |-> frame]
           Def(f) == [j \in Nat |->
               [d \in Configuration |->
                  IF d.machine.failed THEN d.machine
                  ELSE IF j = 0 THEN Conclusion(g, d, form)
                  ELSE f[j - 1][Read(g, d, form, frame,
                                     ArgumentList(form)[Len(ArgumentList(form)) + 1 - j])]]]
<1>1. PICK f : f = [n \in Nat |-> After(x, n, Before(f, n))]
  BY RecursionExists
<1>2. \A n : After(x, n, Before(f, n)) = Finishes(g, form, frame, n, Before(f, n))
  BY DEF After
<1>3. ASSUME NEW j \in Nat
      PROVE  Finishes(g, form, frame, j, Before(f, j)) = Def(f)[j]
  <2>1. j # 0 => Before(f, j) = f[j - 1]
    BY DEF Before
  <2> QED
    BY <2>1 DEF Finishes
<1>4. f = Def(f)
  BY <1>1, <1>2, <1>3
<1> DEFINE F == Finishing(g, form, frame)
<1>5. F = Def(F)
  BY <1>4 DEF Finishing
<1> HIDE DEF F
<1>6. F[k][c] = Def(F)[k][c]
  BY <1>5
<1> QED
  BY <1>6 DEF F

\* A form that goes on.
LEMMA FinishingGoes ==
    ASSUME NEW g, NEW form, NEW frame, NEW k \in Nat \ {0},
           NEW c \in Configuration, ~c.machine.failed
    PROVE  Finishing(g, form, frame)[k][c] =
              Finishing(g, form, frame)[k - 1]
                 [Read(g, c, form, frame, ArgumentList(form)[Len(ArgumentList(form)) + 1 - k])]
<1>1. k \in Nat /\ k # 0
  OBVIOUS
<1> QED
  BY <1>1, FinishingIs

\* Expressions, by their depth.
LEMMA EvaluatingIs ==
    ASSUME NEW depth \in Nat, NEW m \in Machine, NEW frame \in Frame
    PROVE  Evaluating[depth][<<m, frame>>] =
             IF depth = 0 THEN Failed(m) ELSE Expression(Evaluating[depth - 1], m, frame)
<1> DEFINE x == [function |-> "evaluate"]
           Def(f) == [d \in Nat |->
               [e \in Machine \X Frame |->
                  IF d = 0 THEN Failed(e[1]) ELSE Expression(f[d - 1], e[1], e[2])]]
<1>1. PICK f : f = [n \in Nat |-> After(x, n, Before(f, n))]
  BY RecursionExists
<1>2. \A n : After(x, n, Before(f, n)) = Evaluates(n, Before(f, n))
  BY DEF After
<1>3. ASSUME NEW j \in Nat
      PROVE  Evaluates(j, Before(f, j)) = Def(f)[j]
  <2>1. j # 0 => Before(f, j) = f[j - 1]
    BY DEF Before
  <2> QED
    BY <2>1 DEF Evaluates
<1>4. f = Def(f)
  BY <1>1, <1>2, <1>3
<1>5. Evaluating = Def(Evaluating)
  BY <1>4 DEF Evaluating
<1>6. Evaluating[depth][<<m, frame>>] = Def(Evaluating)[depth][<<m, frame>>]
  BY <1>5
<1> QED
  BY <1>6

\* A module, directive by directive.
LEMMA ExecutingIs ==
    ASSUME NEW k \in Nat, NEW m \in Machine, NEW outputs \in Seq(Double)
    PROVE  Executing[k][[machine |-> m, outputs |-> outputs]] =
             IF m.failed \/ k = 0 \/ NextOf(m) = EndOfSource
             THEN [machine |-> m, outputs |-> outputs]
             ELSE Executing[k - 1][Directive(m, outputs)]
<1> DEFINE x == [function |-> "execute"]
           Def(f) == [j \in Nat |->
               [p \in [machine : Machine, outputs : Seq(Double)] |->
                  IF p.machine.failed \/ j = 0 \/ NextOf(p.machine) = EndOfSource THEN p
                  ELSE f[j - 1][Directive(p.machine, p.outputs)]]]
           q == [machine |-> m, outputs |-> outputs]
<1>1. PICK f : f = [n \in Nat |-> After(x, n, Before(f, n))]
  BY RecursionExists
<1>2. \A n : After(x, n, Before(f, n)) = Executes(n, Before(f, n))
  BY DEF After
<1>3. ASSUME NEW j \in Nat
      PROVE  Executes(j, Before(f, j)) = Def(f)[j]
  <2>1. j # 0 => Before(f, j) = f[j - 1]
    BY DEF Before
  <2> QED
    BY <2>1 DEF Executes
<1>4. f = Def(f)
  BY <1>1, <1>2, <1>3
<1>5. Executing = Def(Executing)
  BY <1>4 DEF Executing
<1>6. q \in [machine : Machine, outputs : Seq(Double)]
  OBVIOUS
<1>7. Executing[k][q] = Def(Executing)[k][q]
  BY <1>5
<1> QED
  BY <1>6, <1>7

-----------------------------------------------------------------------------
(* Argument lists, as the text is understood and as the handlers read them. *)

\* They are the same lists.
LEMMA ListIsSteps ==
    ASSUME NEW form \in Dispatchable
    PROVE  /\ Len(ArgumentList(form)) = Len(Steps(form))
           /\ \A s \in 1..Len(Steps(form)) : ArgumentList(form)[s] = Steps(form)[s]
<1> DEFINE E == "EVALUATE"
           N == "NAME"
<1>1. ASSUME NEW count \in Nat, Len(Arguments(form)) = count
      PROVE  /\ Len(ArgumentList(form)) = IF count = 0 THEN 2 ELSE 2 * count + 1
             /\ \A s \in 1..(IF count = 0 THEN 2 ELSE 2 * count + 1) :
                   ArgumentList(form)[s] =
                      IF s = 1 THEN OPEN
                      ELSE IF s = 2 * count + 1 \/ count = 0 THEN CLOSE
                      ELSE IF s % 2 = 0 THEN Arguments(form)[s \div 2] ELSE SEPARATOR
  <2> DEFINE m == IF count = 0 THEN 2 ELSE 2 * count + 1
             list(c) == [s \in 1..m |->
                 IF s = 1 THEN OPEN
                 ELSE IF s = 2 * c + 1 \/ c = 0 THEN CLOSE
                 ELSE IF s % 2 = 0 THEN Arguments(form)[s \div 2] ELSE SEPARATOR]
  <2>1. m \in Nat
    OBVIOUS
  <2>2. ArgumentList(form) = list(count)
    BY <1>1 DEF ArgumentList
  <2>3. Len(ArgumentList(form)) = m
    BY <2>1, <2>2
  <2> QED
    BY <2>2, <2>3
<1>8. ASSUME Len(Arguments(form)) = 2
      PROVE  /\ Len(ArgumentList(form)) = 5
             /\ ArgumentList(form)[1] = OPEN
             /\ ArgumentList(form)[2] = Arguments(form)[1]
             /\ ArgumentList(form)[3] = SEPARATOR
             /\ ArgumentList(form)[4] = Arguments(form)[2]
             /\ ArgumentList(form)[5] = CLOSE
  <2>1. /\ Len(ArgumentList(form)) = 5
        /\ \A s \in 1..5 :
              ArgumentList(form)[s] =
                 IF s = 1 THEN OPEN
                 ELSE IF s = 5 THEN CLOSE
                 ELSE IF s % 2 = 0 THEN Arguments(form)[s \div 2] ELSE SEPARATOR
    <3>1. PICK count \in Nat : count = 2
      OBVIOUS
    <3>2. /\ Len(ArgumentList(form)) = IF count = 0 THEN 2 ELSE 2 * count + 1
          /\ \A s \in 1..(IF count = 0 THEN 2 ELSE 2 * count + 1) :
                ArgumentList(form)[s] =
                   IF s = 1 THEN OPEN
                   ELSE IF s = 2 * count + 1 \/ count = 0 THEN CLOSE
                   ELSE IF s % 2 = 0 THEN Arguments(form)[s \div 2] ELSE SEPARATOR
      BY <1>1, <1>8, <3>1
    <3>3. (IF count = 0 THEN 2 ELSE 2 * count + 1) = 5 /\ 2 * count + 1 = 5 /\ count # 0
      BY <3>1
    <3> QED
      BY <3>2, <3>3
  <2>2. ArgumentList(form)[1] = OPEN /\ ArgumentList(form)[5] = CLOSE
    BY <2>1
  <2>3. 2 % 2 = 0 /\ 2 \div 2 = 1 /\ 4 % 2 = 0 /\ 4 \div 2 = 2 /\ 3 % 2 = 1
    OBVIOUS
  <2>4. ArgumentList(form)[2] = Arguments(form)[1]
    BY <2>1, <2>3
  <2>5. ArgumentList(form)[4] = Arguments(form)[2]
    BY <2>1, <2>3
  <2>6. ArgumentList(form)[3] = SEPARATOR
    BY <2>1, <2>3
  <2> QED
    BY <2>1, <2>2, <2>4, <2>5, <2>6
<1>9. ASSUME Len(Arguments(form)) = 3
      PROVE  /\ Len(ArgumentList(form)) = 7
             /\ ArgumentList(form)[1] = OPEN
             /\ ArgumentList(form)[2] = Arguments(form)[1]
             /\ ArgumentList(form)[3] = SEPARATOR
             /\ ArgumentList(form)[4] = Arguments(form)[2]
             /\ ArgumentList(form)[5] = SEPARATOR
             /\ ArgumentList(form)[6] = Arguments(form)[3]
             /\ ArgumentList(form)[7] = CLOSE
  <2>1. /\ Len(ArgumentList(form)) = 7
        /\ \A s \in 1..7 :
              ArgumentList(form)[s] =
                 IF s = 1 THEN OPEN
                 ELSE IF s = 7 THEN CLOSE
                 ELSE IF s % 2 = 0 THEN Arguments(form)[s \div 2] ELSE SEPARATOR
    <3>1. PICK count \in Nat : count = 3
      OBVIOUS
    <3>2. /\ Len(ArgumentList(form)) = IF count = 0 THEN 2 ELSE 2 * count + 1
          /\ \A s \in 1..(IF count = 0 THEN 2 ELSE 2 * count + 1) :
                ArgumentList(form)[s] =
                   IF s = 1 THEN OPEN
                   ELSE IF s = 2 * count + 1 \/ count = 0 THEN CLOSE
                   ELSE IF s % 2 = 0 THEN Arguments(form)[s \div 2] ELSE SEPARATOR
      BY <1>1, <1>9, <3>1
    <3>3. (IF count = 0 THEN 2 ELSE 2 * count + 1) = 7 /\ 2 * count + 1 = 7 /\ count # 0
      BY <3>1
    <3> QED
      BY <3>2, <3>3
  <2>2. ArgumentList(form)[1] = OPEN /\ ArgumentList(form)[7] = CLOSE
    BY <2>1
  <2>3. /\ 2 % 2 = 0 /\ 2 \div 2 = 1 /\ 4 % 2 = 0 /\ 4 \div 2 = 2
        /\ 6 % 2 = 0 /\ 6 \div 2 = 3 /\ 3 % 2 = 1 /\ 5 % 2 = 1
    OBVIOUS
  <2>4. ArgumentList(form)[2] = Arguments(form)[1]
    BY <2>1, <2>3
  <2>5. ArgumentList(form)[4] = Arguments(form)[2]
    BY <2>1, <2>3
  <2>6. ArgumentList(form)[6] = Arguments(form)[3]
    BY <2>1, <2>3
  <2>7. ArgumentList(form)[3] = SEPARATOR /\ ArgumentList(form)[5] = SEPARATOR
    BY <2>1, <2>3
  <2> QED
    BY <2>1, <2>2, <2>4, <2>5, <2>6, <2>7
<1>2. CASE form \in PrimitiveOperations
  <2>1. Arguments(form) = <<E, E>>
    BY <1>2 DEF Arguments, PrimitiveOperations
  <2>2. Len(Arguments(form)) = 2 /\ Arguments(form)[1] = E /\ Arguments(form)[2] = E
    BY <2>1
  <2>3. /\ Len(ArgumentList(form)) = 5
        /\ ArgumentList(form)[1] = OPEN /\ ArgumentList(form)[2] = E
        /\ ArgumentList(form)[3] = SEPARATOR /\ ArgumentList(form)[4] = E
        /\ ArgumentList(form)[5] = CLOSE
    BY <1>8, <2>2
  <2> QED
    BY <1>2, <2>3, FormSteps
<1>3. CASE form = "Branch"
  <2>1. Arguments(form) = <<E, E, E>>
    BY <1>3 DEF Arguments, PrimitiveOperations
  <2>2. /\ Len(Arguments(form)) = 3 /\ Arguments(form)[1] = E /\ Arguments(form)[2] = E
        /\ Arguments(form)[3] = E
    BY <2>1
  <2>3. /\ Len(ArgumentList(form)) = 7
        /\ ArgumentList(form)[1] = OPEN /\ ArgumentList(form)[2] = E
        /\ ArgumentList(form)[3] = SEPARATOR /\ ArgumentList(form)[4] = E
        /\ ArgumentList(form)[5] = SEPARATOR /\ ArgumentList(form)[6] = E
        /\ ArgumentList(form)[7] = CLOSE
    BY <1>9, <2>2
  <2>4. Steps(form) = <<OPEN, E, SEPARATOR, E, SEPARATOR, E, CLOSE>>
    BY <1>3, FormSteps, Zenon
  <2> QED
    BY <2>3, <2>4
<1>4. CASE form = "Loop"
  <2>1. Arguments(form) = <<E, N>>
    BY <1>4 DEF Arguments, PrimitiveOperations
  <2>2. Len(Arguments(form)) = 2 /\ Arguments(form)[1] = E /\ Arguments(form)[2] = N
    BY <2>1
  <2>3. /\ Len(ArgumentList(form)) = 5
        /\ ArgumentList(form)[1] = OPEN /\ ArgumentList(form)[2] = E
        /\ ArgumentList(form)[3] = SEPARATOR /\ ArgumentList(form)[4] = N
        /\ ArgumentList(form)[5] = CLOSE
    BY <1>8, <2>2
  <2>4. Steps(form) = <<OPEN, E, SEPARATOR, N, CLOSE>>
    BY <1>4, FormSteps, Zenon
  <2> QED
    BY <2>3, <2>4
<1>5. CASE form = "write_offset"
  <2>1. Arguments(form) = <<N, E, E>>
    BY <1>5 DEF Arguments, PrimitiveOperations
  <2>2. /\ Len(Arguments(form)) = 3 /\ Arguments(form)[1] = N /\ Arguments(form)[2] = E
        /\ Arguments(form)[3] = E
    BY <2>1
  <2>3. /\ Len(ArgumentList(form)) = 7
        /\ ArgumentList(form)[1] = OPEN /\ ArgumentList(form)[2] = N
        /\ ArgumentList(form)[3] = SEPARATOR /\ ArgumentList(form)[4] = E
        /\ ArgumentList(form)[5] = SEPARATOR /\ ArgumentList(form)[6] = E
        /\ ArgumentList(form)[7] = CLOSE
    BY <1>9, <2>2
  <2>4. Steps(form) = <<OPEN, N, SEPARATOR, E, SEPARATOR, E, CLOSE>>
    BY <1>5, FormSteps, Zenon
  <2> QED
    BY <2>3, <2>4
<1>6. CASE form = "read_offset"
  <2>1. Arguments(form) = <<N, E>>
    BY <1>6 DEF Arguments, PrimitiveOperations
  <2>2. Len(Arguments(form)) = 2 /\ Arguments(form)[1] = N /\ Arguments(form)[2] = E
    BY <2>1
  <2>3. /\ Len(ArgumentList(form)) = 5
        /\ ArgumentList(form)[1] = OPEN /\ ArgumentList(form)[2] = N
        /\ ArgumentList(form)[3] = SEPARATOR /\ ArgumentList(form)[4] = E
        /\ ArgumentList(form)[5] = CLOSE
    BY <1>8, <2>2
  <2>4. Steps(form) = <<OPEN, N, SEPARATOR, E, CLOSE>>
    BY <1>6, FormSteps, Zenon
  <2> QED
    BY <2>3, <2>4
<1>7. CASE form \in DOMAIN Templates
  <2> DEFINE count == Len(Templates[form].parameters)
  <2>1. form \notin Forms
    BY <1>7, DeclarationAssumption
  <2>2. Steps(form) = TemplateSteps(count)
    BY <2>1 DEF Steps, Forms
  <2>3. Templates[form] \in [parameters : Seq(Names), body : Seq(Atom)]
    BY <1>7, DeclarationAssumption
  <2>4. count \in Nat
    BY <2>3, LenProperties
  <2>5. Arguments(form) = [i \in 1..count |-> E]
    BY <2>1 DEF Arguments, Forms
  <2> HIDE DEF count
  <2>6. Len(Arguments(form)) = count
    BY <2>4, <2>5
  <2> DEFINE m == IF count = 0 THEN 0 ELSE 2 * count - 1
  <2>7. /\ Len(Steps(form)) = m + 2
        /\ Steps(form)[1] = OPEN
        /\ \A s \in 2..(m + 1) : Steps(form)[s] = IF s % 2 = 0 THEN E ELSE SEPARATOR
        /\ Steps(form)[m + 2] = CLOSE
    BY <2>2, <2>4, TemplateStepList
  <2>8. /\ Len(ArgumentList(form)) = IF count = 0 THEN 2 ELSE 2 * count + 1
        /\ \A s \in 1..(IF count = 0 THEN 2 ELSE 2 * count + 1) :
                   ArgumentList(form)[s] =
                      IF s = 1 THEN OPEN
                      ELSE IF s = 2 * count + 1 \/ count = 0 THEN CLOSE
                      ELSE IF s % 2 = 0 THEN Arguments(form)[s \div 2] ELSE SEPARATOR
    BY <1>1, <2>4, <2>6
  <2>9. m + 2 = IF count = 0 THEN 2 ELSE 2 * count + 1
    BY <2>4
  <2>10. ASSUME NEW s \in 1..(m + 2) PROVE ArgumentList(form)[s] = Steps(form)[s]
    <3>1. CASE s = 1
      BY <2>4, <2>7, <2>8, <2>9, <3>1
    <3>2. CASE s = m + 2
      <4>1. s # 1 /\ (s = 2 * count + 1 \/ count = 0)
        BY <2>4, <2>9, <3>2
      <4>2. ArgumentList(form)[s] = CLOSE
        BY <2>8, <2>9, <4>1
      <4> QED
        BY <2>7, <3>2, <4>2
    <3>3. CASE s # 1 /\ s # m + 2
      <4>1. s \in 2..(m + 1) /\ count # 0 /\ s # 2 * count + 1
        BY <2>4, <3>3
      <4>2. s % 2 = 0 => s \div 2 \in 1..count
        BY <2>4, <4>1
      <4>3. s % 2 = 0 => Arguments(form)[s \div 2] = E
        BY <2>5, <4>2
      <4>4. ArgumentList(form)[s] = IF s % 2 = 0 THEN Arguments(form)[s \div 2] ELSE SEPARATOR
        BY <2>8, <2>9, <3>3, <4>1
      <4>5. Steps(form)[s] = IF s % 2 = 0 THEN E ELSE SEPARATOR
        BY <2>7, <4>1
      <4> QED
        BY <4>3, <4>4, <4>5
    <3> QED
      BY <3>1, <3>2, <3>3
  <2> QED
    BY <2>7, <2>8, <2>9, <2>10
<1> QED
  BY <1>2, <1>3, <1>4, <1>5, <1>6, <1>7 DEF Dispatchable, Forms

-----------------------------------------------------------------------------
(* The machine a state stands for, in the middle of a text. *)

\* The texts that begin with the atoms read so far.
Completes(atoms) ==
    /\ atoms \in Seq(Atom)
    /\ Len(text) <= Len(atoms)
    /\ \A i \in 1..Len(text) : atoms[i] = text[i]

\* The atoms the scanner of a level has left: level 0 is that of the module.
Left(atoms, level) ==
    IF level = 0 THEN SubSeq(atoms, Len(text) + 1, Len(atoms))
    ELSE SubSeq(Templates[body_scanners[level].template].body, body_scanners[level].position,
                Len(Templates[body_scanners[level].template].body))

Running(atoms, value, cost, arenas) ==
    [atoms |-> atoms, failed |-> FALSE, value |-> value, cost |-> cost, arenas |-> arenas]
Now(atoms, value) ==
    Running(Left(atoms, Len(body_scanners)), value, retired_cycle_count, arena_bytes)
Stopped ==
    [atoms |-> <<>>, failed |-> TRUE, value |-> Zero,
     cost |-> retired_cycle_count, arenas |-> arena_bytes]

\* The end of a sequence, from a position on, and from the next.
LEMMA EndOfSequence ==
    ASSUME NEW S, NEW s \in Seq(S), NEW p \in Nat \ {0}
    PROVE  /\ SubSeq(s, p, Len(s)) \in Seq(S)
           /\ SubSeq(s, p, Len(s)) = <<>> <=> p > Len(s)
           /\ p <= Len(s) =>
                 /\ Head(SubSeq(s, p, Len(s))) = s[p]
                 /\ Tail(SubSeq(s, p, Len(s))) = SubSeq(s, p + 1, Len(s))
                 /\ Len(SubSeq(s, p + 1, Len(s))) < Len(SubSeq(s, p, Len(s)))
           /\ p > Len(s) => SubSeq(s, p + 1, Len(s)) = <<>>
<1>1. PICK n \in Nat : n = Len(s)
  BY LenProperties
<1>2. \A q \in Nat \ {0} : \A i \in q..n : s[i] \in S
  BY <1>1, ElementOfSeq
<1>3. ASSUME NEW q \in Nat \ {0}
      PROVE  SubSeq(s, q, n) \in Seq(S) /\ Len(SubSeq(s, q, n)) = IF q <= n THEN n - q + 1 ELSE 0
  BY <1>2, SubSeqProperties
<1>4. p > n => SubSeq(s, p, n) = <<>> /\ SubSeq(s, p + 1, n) = <<>>
  BY SubSeqEmpty
<1>5. p <= n => SubSeq(s, p, n) # <<>>
  <2>1. ASSUME p <= n, SubSeq(s, p, n) = <<>> PROVE FALSE
    <3>1. PICK t : t = SubSeq(s, p, n)
      OBVIOUS
    <3>2. Len(t) = n - p + 1
      BY <1>3, <2>1, <3>1
    <3>3. Len(t) = 0
      BY <2>1, <3>1, EmptySeq
    <3> QED
      BY <2>1, <3>2, <3>3
  <2> QED
    BY <2>1
<1>6. p <= n => Head(SubSeq(s, p, n)) = s[p] /\ Tail(SubSeq(s, p, n)) = SubSeq(s, p + 1, n)
  BY <1>1, HeadTailOfSubSeq
<1>7. p <= n => Len(SubSeq(s, p + 1, n)) < Len(SubSeq(s, p, n))
  BY <1>3
<1> QED
  BY <1>1, <1>3, <1>4, <1>5, <1>6, <1>7

\* What is left is a text, and the machines are machines.
LEMMA LeftType ==
    ASSUME TypeOK, NEW atoms, Completes(atoms), NEW level \in 0..Len(body_scanners)
    PROVE  Left(atoms, level) \in Seq(Atom)
<1>1. Len(text) + 1 \in Nat \ {0}
  BY LenProperties DEF TypeOK
<1>2. CASE level = 0
  BY <1>1, <1>2, EndOfSequence DEF Left, Completes
<1>3. CASE level # 0
  <2>1. level \in 1..Len(body_scanners)
    BY <1>3, LenProperties DEF TypeOK
  <2>2. body_scanners[level] \in [template : DOMAIN Templates, position : Nat \ {0}]
    BY <2>1, ElementOfSeq DEF TypeOK
  <2> DEFINE body == Templates[body_scanners[level].template].body
             position == body_scanners[level].position
  <2>3. body \in Seq(Atom) /\ position \in Nat \ {0}
    BY <2>2, DeclarationAssumption
  <2>4. Left(atoms, level) = SubSeq(body, position, Len(body))
    BY <1>3 DEF Left
  <2> HIDE DEF body, position
  <2> QED
    BY <2>3, <2>4, EndOfSequence
<1> QED
  BY <1>2, <1>3

\* The machine a state stands for is a machine, and so is what it fails to.
LEMMA NowType ==
    ASSUME TypeOK, NEW atoms, Completes(atoms), NEW value \in Double
    PROVE  /\ Now(atoms, value) \in Machine
           /\ Stopped \in Machine
           /\ Failed(Now(atoms, value)) = Stopped
<1>1. Len(body_scanners) \in 0..Len(body_scanners)
  BY LenProperties DEF TypeOK
<1>2. Left(atoms, Len(body_scanners)) \in Seq(Atom)
  BY <1>1, LeftType
<1>3. Now(atoms, value) \in Machine
  BY <1>2 DEF Now, Running, Machine, TypeOK
<1>4. Stopped \in Machine
  BY ConstantTypes, EmptySeq DEF Stopped, Machine, TypeOK
<1>5. Failed(Now(atoms, value)) = Stopped
  BY DEF Failed, Now, Running, Stopped
<1> QED
  BY <1>3, <1>4, <1>5

\* What an update makes of a machine that has not failed.
LEMMA RunningUpdates ==
    ASSUME NEW atoms, NEW value, NEW cost, NEW arenas, NEW x
    PROVE  LET m == Running(atoms, value, cost, arenas)
           IN  /\ m.atoms = atoms /\ ~m.failed /\ m.value = value
               /\ m.cost = cost /\ m.arenas = arenas
               /\ Reading(m, x) = Running(x, value, cost, arenas)
               /\ Yield(m, x) = Running(atoms, x, cost, arenas)
               /\ Charge(m, x) = Running(atoms, value, cost + x, arenas)
<1>1. PICK failed : failed = FALSE
  OBVIOUS
<1>2. PICK m : m = [atoms |-> atoms, failed |-> failed, value |-> value,
                    cost |-> cost, arenas |-> arenas]
  OBVIOUS
<1>3. \A a, v, c, r : Running(a, v, c, r) = [atoms |-> a, failed |-> failed, value |-> v,
                                            cost |-> c, arenas |-> r]
  BY <1>1 DEF Running
<1>4. m = Running(atoms, value, cost, arenas)
  BY <1>2, <1>3
<1>5. /\ Reading(m, x) = Running(x, value, cost, arenas)
      /\ Yield(m, x) = Running(atoms, x, cost, arenas)
      /\ Charge(m, x) = Running(atoms, value, cost + x, arenas)
  <2>1. Reading(m, x) = [atoms |-> x, failed |-> failed, value |-> value,
                         cost |-> cost, arenas |-> arenas]
    BY <1>2 DEF Reading
  <2>2. Yield(m, x) = [atoms |-> atoms, failed |-> failed, value |-> x,
                       cost |-> cost, arenas |-> arenas]
    BY <1>2 DEF Yield
  <2>3. Charge(m, x) = [atoms |-> atoms, failed |-> failed, value |-> value,
                        cost |-> cost + x, arenas |-> arenas]
    BY <1>2 DEF Charge
  <2> QED
    BY <1>3, <2>1, <2>2, <2>3
<1>6. /\ m.atoms = atoms /\ ~m.failed /\ m.value = value
      /\ m.cost = cost /\ m.arenas = arenas
  BY <1>1, <1>2
<1> QED
  BY <1>4, <1>5, <1>6

\* A machine that has not failed is what its fields say.
LEMMA RunningIs ==
    ASSUME NEW atoms, NEW value, NEW cost, NEW arenas
    PROVE  LET m == Running(atoms, value, cost, arenas)
           IN  /\ m.atoms = atoms /\ ~m.failed /\ m.value = value
               /\ m.cost = cost /\ m.arenas = arenas
<1>1. PICK x : x = value
  OBVIOUS
<1> QED
  BY <1>1, RunningUpdates

\* Reading an atom takes it from the text in use, and from no other.
LEMMA AtomTaken ==
    ASSUME TypeOK, TypeOK', NEW atom \in NextAtoms, Consume(atom),
           NEW atoms, Completes(atoms)'
    PROVE  /\ Completes(atoms)
           /\ Len(body_scanners') = Len(body_scanners)
           /\ \A level \in 0..Len(body_scanners) :
                 level < Len(body_scanners) => Left(atoms, level)' = Left(atoms, level)
           /\ LET left == Left(atoms, Len(body_scanners))
                  next == Left(atoms, Len(body_scanners))'
              IN  /\ left = <<>> => atom = EndOfSource /\ next = <<>>
                  /\ left # <<>> => Head(left) = atom /\ Tail(left) = next
           /\ Len(Left(atoms, 0)') <= Len(Left(atoms, 0))
           /\ body_scanners = <<>> => Len(Left(atoms, 0)') < Len(Left(atoms, 0))
<1>1. Len(text) \in Nat /\ Len(text') \in Nat
  BY LenProperties DEF TypeOK
<1>2. Len(body_scanners') = Len(body_scanners) /\ Len(body_scanners) \in Nat
  BY ScannersKept, LenProperties DEF TypeOK
<1>3. atoms \in Seq(Atom) /\ Len(atoms) \in Nat
  BY LenProperties DEF Completes
<1>4. CASE body_scanners = <<>>
  <2>1. Len(body_scanners) = 0
    BY <1>4, EmptySeq
  <2>2. text' = Append(text, atom)
    BY <1>4 DEF Consume
  <2>3. atom \in Atom
    BY NextAtomsType
  <2>4. /\ Len(text') = Len(text) + 1
        /\ text'[Len(text) + 1] = atom
        /\ \A i \in 1..Len(text) : text'[i] = text[i]
    BY <2>2, <2>3, PushTop DEF TypeOK
  <2>5. Len(text) + 1 <= Len(atoms) /\ \A i \in 1..(Len(text) + 1) : atoms[i] = text'[i]
    BY <2>4 DEF Completes
  <2>6. Completes(atoms)
    BY <1>1, <1>3, <2>4, <2>5 DEF Completes
  <2>7. PICK p \in Nat \ {0} : p = Len(text) + 1
    BY <1>1
  <2>8. atoms[p] = atom /\ p <= Len(atoms)
    BY <1>1, <2>4, <2>5, <2>7
  <2>9. Left(atoms, 0) = SubSeq(atoms, p, Len(atoms))
    BY <2>7 DEF Left
  <2>10. Left(atoms, 0)' = SubSeq(atoms, p + 1, Len(atoms))
    BY <2>4, <2>7 DEF Left
  <2> DEFINE left == SubSeq(atoms, p, Len(atoms))
             next == SubSeq(atoms, p + 1, Len(atoms))
  <2>16. /\ left # <<>> /\ Head(left) = atom /\ Tail(left) = next
         /\ Len(next) < Len(left) /\ left \in Seq(Atom)
    BY <1>3, <2>8, EndOfSequence
  <2>17. next \in Seq(Atom)
    <3>1. p + 1 \in Nat \ {0}
      OBVIOUS
    <3> QED
      BY <1>3, <3>1, EndOfSequence
  <2> HIDE DEF left, next
  <2>11. /\ Left(atoms, 0) # <<>>
         /\ Head(Left(atoms, 0)) = atom
         /\ Tail(Left(atoms, 0)) = Left(atoms, 0)'
         /\ Len(Left(atoms, 0)') < Len(Left(atoms, 0))
    BY <2>9, <2>10, <2>16 DEF left, next
  <2>12. Left(atoms, 0) \in Seq(Atom) /\ Left(atoms, 0)' \in Seq(Atom)
    BY <2>9, <2>10, <2>16, <2>17 DEF left, next
  <2>13. Len(Left(atoms, 0)) \in Nat /\ Len(Left(atoms, 0)') \in Nat
    BY <2>12, LenProperties
  <2>14. Left(atoms, Len(body_scanners)) = Left(atoms, 0)
    BY <2>1
  <2>15. Left(atoms, Len(body_scanners))' = Left(atoms, 0)'
    BY <1>2, <2>1
  <2> QED
    BY <1>2, <2>1, <2>6, <2>11, <2>13, <2>14, <2>15
<1>5. CASE body_scanners # <<>>
  <2> DEFINE S == [template : DOMAIN Templates, position : Nat \ {0}]
             n == Len(body_scanners)
  <2>0. body_scanners \in Seq(S) /\ n \in Nat \ {0}
    BY <1>5, EmptySeq DEF TypeOK
  <2>1. text' = text
    BY <1>5 DEF Consume
  <2>2. Completes(atoms)
    BY <2>1 DEF Completes
  <2>3. Left(atoms, 0)' = Left(atoms, 0)
    BY <2>1 DEF Left
  <2>4. /\ body_scanners' = [body_scanners EXCEPT ![n].position = @ + 1]
        /\ DOMAIN body_scanners = 1..n
    BY <1>5, <2>0, LenProperties DEF Consume
  <2>5. body_scanners[n] \in S
    <3>1. n \in 1..n
      BY <2>0
    <3> HIDE DEF n, S
    <3> QED
      BY <2>0, <3>1, ElementOfSeq DEF n
  <2>6. /\ body_scanners'[n].template = body_scanners[n].template
        /\ body_scanners'[n].position = body_scanners[n].position + 1
    <3>1. body_scanners'[n] = [body_scanners[n] EXCEPT !.position = @ + 1]
      BY <2>0, <2>4
    <3> QED
      BY <2>5, <3>1
  <2>7. ASSUME NEW level \in 1..n, level < n PROVE body_scanners'[level] = body_scanners[level]
    BY <2>0, <2>4, <2>7
  <2>8. ASSUME NEW level \in 0..n, level < n PROVE Left(atoms, level)' = Left(atoms, level)
    <3>1. CASE level = 0
      BY <2>3, <3>1
    <3>2. CASE level # 0
      <4>1. body_scanners'[level] = body_scanners[level]
        BY <2>0, <2>7, <2>8, <3>2
      <4> QED
        BY <3>2, <4>1 DEF Left
    <3> QED
      BY <3>1, <3>2
  <2>9. PICK p \in Nat \ {0} : p = body_scanners[n].position
    BY <2>5
  <2>10. PICK body \in Seq(Atom) : body = Templates[body_scanners[n].template].body
    BY <2>5, DeclarationAssumption
  <2>11. Left(atoms, n) = SubSeq(body, p, Len(body))
    BY <2>0, <2>9, <2>10 DEF Left
  <2>12. Left(atoms, n)' = SubSeq(body, p + 1, Len(body))
    BY <1>2, <2>0, <2>6, <2>9, <2>10 DEF Left
  <2>13. NextAtoms = IF p <= Len(body) THEN {body[p]} ELSE {EndOfSource}
    <3>1. Last(body_scanners) = body_scanners[n]
      BY DEF Last
    <3> QED
      BY <1>5, <2>9, <2>10, <3>1 DEF NextAtoms
  <2>14. Len(body) \in Nat
    BY LenProperties
  <2>15. CASE p <= Len(body)
    <3>1. atom = body[p]
      BY <2>13, <2>15
    <3>2. /\ Left(atoms, n) # <<>> /\ Head(Left(atoms, n)) = atom
          /\ Tail(Left(atoms, n)) = Left(atoms, n)'
      <4> DEFINE left == SubSeq(body, p, Len(body))
                 next == SubSeq(body, p + 1, Len(body))
      <4>1. left # <<>> /\ Head(left) = atom /\ Tail(left) = next
        <5>1. PICK q \in Nat \ {0} : q = p
          BY <2>9
        <5>2. q <= Len(body)
          BY <2>15, <5>1
        <5>3. /\ SubSeq(body, q, Len(body)) # <<>>
              /\ Head(SubSeq(body, q, Len(body))) = body[q]
              /\ Tail(SubSeq(body, q, Len(body))) = SubSeq(body, q + 1, Len(body))
          BY <2>14, <5>2, EndOfSequence
        <5> QED
          BY <3>1, <5>1, <5>3
      <4> HIDE DEF left, next
      <4> QED
        BY <2>11, <2>12, <4>1 DEF left, next
    <3> QED
      BY <1>2, <1>5, <2>2, <2>3, <2>8, <3>2, LeftType
  <2>16. CASE ~(p <= Len(body))
    <3>1. atom = EndOfSource
      BY <2>13, <2>16
    <3>2. Left(atoms, n) = <<>> /\ Left(atoms, n)' = <<>>
      BY <2>11, <2>12, <2>14, <2>16, EndOfSequence
    <3> QED
      BY <1>2, <1>5, <2>2, <2>3, <2>8, <3>1, <3>2
  <2> QED
    BY <2>15, <2>16
<1> QED
  BY <1>4, <1>5

\* In terms of machines: the atom read is the next one, and it is gone.
LEMMA AtomRead ==
    ASSUME TypeOK, TypeOK', NEW atom \in NextAtoms, Consume(atom),
           UNCHANGED <<retired_cycle_count, arena_bytes>>,
           NEW atoms, Completes(atoms)', NEW value
    PROVE  /\ NextOf(Now(atoms, value)) = atom
           /\ Rest(Now(atoms, value)) = Now(atoms, value)'
<1>1. PICK left : left = Left(atoms, Len(body_scanners))
  OBVIOUS
<1>2. PICK next : next = Left(atoms, Len(body_scanners))'
  OBVIOUS
<1>3. /\ left = <<>> => atom = EndOfSource /\ next = <<>>
      /\ left # <<>> => Head(left) = atom /\ Tail(left) = next
  BY <1>1, <1>2, AtomTaken
<1>4. PICK m, c, r : /\ m = Running(left, value, c, r)
                     /\ c = retired_cycle_count /\ r = arena_bytes
  OBVIOUS
<1>5. m = Now(atoms, value)
  BY <1>1, <1>4 DEF Now
<1>6. Now(atoms, value)' = Running(next, value, c, r)
  BY <1>2, <1>4 DEF Now
<1>7. m.atoms = left /\ Reading(m, next) = Running(next, value, c, r)
  BY <1>4, RunningUpdates
<1>8. NextOf(m) = atom
  BY <1>3, <1>7 DEF NextOf
<1>9. Rest(m) = Running(next, value, c, r)
  BY <1>3, <1>4, <1>7 DEF Rest
<1> QED
  BY <1>5, <1>6, <1>8, <1>9

-----------------------------------------------------------------------------
(* What the suspended activations make of the machine the innermost one     *)
(* waits for.                                                               *)

Inner(i) == Evaluating[MaximumEvaluationDepth - i]
IterationsOf(a) == a.operands[1].magnitude \div QuantaPerUnit

\* The machine an activation comes to when the evaluation it asked for leaves
\* m, and the text it stands in has these atoms left.
Resumed(g, a, m, atoms) ==
    IF ~HasBody(a)
    THEN Finishing(g, a.form, a.frame)[Len(Steps(a.form)) - a.stage]
            [Obtained([machine |-> m, values |-> a.operands, name |-> a.name], m)]
    ELSE IF a.form = "Loop"
    THEN Repeating(g, a.name, IterationsOf(a))[IterationsOf(a) - a.iteration][Restored(m, atoms)]
    ELSE Restored(m, atoms)

Timely(a) == IF ~HasBody(a) THEN a.iteration = 0
             ELSE a.form = "Loop" => a.iteration <= IterationsOf(a)

\* M[i] is the machine activation i waits for, L[i] the level it reads at.
Chain(stack, left, M, L, n) ==
    /\ L[1] = 0
    /\ \A i \in 1..n :
          /\ L[i] \in Nat
          /\ L[i + 1] = L[i] + IF HasBody(stack[i]) THEN 1 ELSE 0
          /\ M[i - 1] = Resumed(Inner(i), stack[i], M[i], left[L[i]])
          /\ Timely(stack[i])
    /\ \A i, j \in 1..(n + 1) : i <= j => L[i] <= L[j]

Lefts(atoms) == [level \in 0..Len(body_scanners) |-> Left(atoms, level)]
Pending == IF control \in InActivation THEN Len(activations) - 1 ELSE Len(activations)

\* The text means what is left to do in the k directives after this one, if the
\* evaluation the innermost activation waits for leaves m.
Supports(atoms, k, m) ==
    \E M, L :
       /\ Meaning(atoms) = Executing[k][Committed(M[0], committed_values)]
       /\ Chain(activations, Lefts(atoms), M, L, Pending)
       /\ L[Pending + 1] = Len(body_scanners)
       /\ M[Pending] = m

\* Part of a chain depends on the texts below the level it ends at.
LEMMA ChainKept ==
    ASSUME NEW stack, NEW left, NEW M, NEW L, NEW n \in Nat, Chain(stack, left, M, L, n),
           NEW p \in 0..n, NEW other, NEW rest,
           \A i \in 1..p : other[i] = stack[i],
           \A l \in Nat : l < L[p + 1] => rest[l] = left[l]
    PROVE  Chain(other, rest, M, L, p)
<1>1. ASSUME NEW i \in 1..p
      PROVE  /\ L[i] \in Nat
             /\ L[i + 1] = L[i] + IF HasBody(other[i]) THEN 1 ELSE 0
             /\ M[i - 1] = Resumed(Inner(i), other[i], M[i], rest[L[i]])
             /\ Timely(other[i])
  <2>1. i \in 1..n /\ other[i] = stack[i]
    OBVIOUS
  <2>2. /\ L[i] \in Nat
        /\ L[i + 1] = L[i] + IF HasBody(stack[i]) THEN 1 ELSE 0
        /\ M[i - 1] = Resumed(Inner(i), stack[i], M[i], left[L[i]])
        /\ Timely(stack[i])
    BY <2>1 DEF Chain
  <2>3. CASE HasBody(stack[i])
    <3>1. i + 1 \in 1..(n + 1) /\ p + 1 \in 1..(n + 1) /\ i + 1 <= p + 1
      OBVIOUS
    <3>2. L[i + 1] <= L[p + 1]
      BY <3>1 DEF Chain
    <3>3. PICK l, u \in Int : l = L[i] /\ u = L[p + 1]
      <4>1. L[p + 1] \in Int
        BY DEF Chain
      <4> QED
        BY <2>2, <4>1
    <3>4. L[i] < L[p + 1]
      BY <2>2, <2>3, <3>2, <3>3
    <3>5. rest[L[i]] = left[L[i]]
      BY <2>2, <3>4
    <3> QED
      BY <2>1, <2>2, <3>5
  <2>4. CASE ~HasBody(stack[i])
    <3>1. Resumed(Inner(i), stack[i], M[i], left[L[i]]) = Resumed(Inner(i), stack[i], M[i], rest[L[i]])
      BY <2>4 DEF Resumed
    <3> QED
      BY <2>1, <2>2, <3>1
  <2> QED
    BY <2>3, <2>4
<1>2. \A i, j \in 1..(p + 1) : i <= j => L[i] <= L[j]
  <2>1. \A i \in 1..(p + 1) : i \in 1..(n + 1)
    OBVIOUS
  <2> QED
    BY <2>1 DEF Chain
<1>3. L[1] = 0
  BY DEF Chain
<1> QED
  BY <1>1, <1>2, <1>3 DEF Chain

\* Another activation is suspended.
LEMMA ChainGrows ==
    ASSUME NEW stack, NEW left, NEW M, NEW L, NEW n \in Nat, Chain(stack, left, M, L, n),
           L[n + 1] \in Nat, NEW x, Timely(stack[n + 1]),
           M[n] = Resumed(Inner(n + 1), stack[n + 1], x, left[L[n + 1]])
    PROVE  \E N, K : /\ Chain(stack, left, N, K, n + 1)
                     /\ N[0] = M[0] /\ N[n + 1] = x
                     /\ K[n + 2] = L[n + 1] + IF HasBody(stack[n + 1]) THEN 1 ELSE 0
<1> DEFINE last == L[n + 1] + IF HasBody(stack[n + 1]) THEN 1 ELSE 0
           N == [i \in Nat |-> IF i = n + 1 THEN x ELSE M[i]]
           K == [i \in Nat |-> IF i = n + 2 THEN last ELSE L[i]]
<1>1. last \in Nat /\ L[n + 1] <= last
  OBVIOUS
<1> HIDE DEF last
<1>2. /\ \A i \in 0..n : N[i] = M[i]
      /\ N[n + 1] = x
      /\ \A i \in 1..(n + 1) : K[i] = L[i]
      /\ K[n + 2] = last
  OBVIOUS
<1> HIDE DEF N, K
<1>3. /\ L[1] = 0
      /\ \A i \in 1..n :
          /\ L[i] \in Nat
          /\ L[i + 1] = L[i] + IF HasBody(stack[i]) THEN 1 ELSE 0
          /\ M[i - 1] = Resumed(Inner(i), stack[i], M[i], left[L[i]])
          /\ Timely(stack[i])
      /\ \A i, j \in 1..(n + 1) : i <= j => L[i] <= L[j]
  BY DEF Chain
<1>4. ASSUME NEW i \in 1..(n + 1)
      PROVE  /\ K[i] \in Nat
             /\ K[i + 1] = K[i] + IF HasBody(stack[i]) THEN 1 ELSE 0
             /\ N[i - 1] = Resumed(Inner(i), stack[i], N[i], left[K[i]])
             /\ Timely(stack[i])
  <2>1. CASE i \in 1..n
    <3>1. i + 1 \in 1..(n + 1) /\ i - 1 \in 0..n /\ i \in 0..n
      BY <2>1
    <3>2. K[i] = L[i] /\ K[i + 1] = L[i + 1] /\ N[i - 1] = M[i - 1] /\ N[i] = M[i]
      BY <1>2, <3>1
    <3> QED
      BY <1>3, <2>1, <3>2
  <2>2. CASE i = n + 1
    <3>1. i - 1 = n /\ i + 1 = n + 2 /\ n \in 0..n
      BY <2>2
    <3>2. K[i] = L[n + 1] /\ K[i + 1] = last /\ N[i - 1] = M[n] /\ N[i] = x
      BY <1>2, <2>2, <3>1
    <3> QED
      BY <2>2, <3>2 DEF last
  <2> QED
    BY <2>1, <2>2
<1>5. ASSUME NEW i \in 1..(n + 2), NEW j \in 1..(n + 2), i <= j PROVE K[i] <= K[j]
  <2>1. CASE j \in 1..(n + 1)
    BY <1>2, <1>3, <1>5, <2>1
  <2>2. CASE j = n + 2 /\ i = n + 2
    BY <1>1, <1>2, <2>2
  <2>3. CASE j = n + 2 /\ i \in 1..(n + 1)
    <3>1. L[i] <= L[n + 1] /\ K[i] = L[i] /\ K[j] = last
      BY <1>2, <1>3, <2>3
    <3>2. L[i] \in Int
      BY <1>3, <2>3
    <3> QED
      BY <1>1, <3>1, <3>2
  <2> QED
    BY <1>5, <2>1, <2>2, <2>3
<1>6. K[1] = 0
  BY <1>2, <1>3
<1>7. Chain(stack, left, N, K, n + 1)
  <2>1. (n + 1) + 1 = n + 2
    OBVIOUS
  <2> QED
    BY <1>4, <1>5, <1>6, <2>1 DEF Chain
<1>8. N[0] = M[0]
  BY <1>2
<1> QED
  BY <1>2, <1>7, <1>8 DEF last

\* The suspended activations are the first ones on the stack.
LEMMA PendingType ==
    ASSUME IInv
    PROVE  /\ Pending \in Nat /\ Len(activations) \in Nat /\ Pending <= Len(activations)
           /\ Len(body_scanners) \in Nat
           /\ \A i \in 1..Pending : Suspended(i) /\ i \in 1..Len(activations)
<1> USE DEF IInv
<1>1. Len(activations) \in Nat /\ Len(body_scanners) \in Nat
  BY LenProperties DEF TypeOK
<1>2. control \in InActivation => Len(activations) \in Nat \ {0}
  BY EmptySeq DEF TypeOK, Stacked
<1>3. Pending \in Nat /\ Pending <= Len(activations)
  BY <1>1, <1>2 DEF Pending
<1>4. control \notin InActivation =>
         control \in {"evaluate", "return"} \/ Len(activations) = 0
  BY EmptySeq DEF TypeOK, Controls, InActivation, AtRest, Stacked
<1>5. ASSUME NEW i \in 1..Pending PROVE Suspended(i) /\ i \in 1..Len(activations)
  BY <1>1, <1>2, <1>3, <1>4, <1>5 DEF Pending, Suspended
<1> QED
  BY <1>1, <1>3, <1>5

\* The innermost activation goes on.
LEMMA SupportsKept ==
    ASSUME IInv, NEW atoms, NEW k, NEW m, Supports(atoms, k, m),
           Pending' = Pending,
           \A i \in 1..Pending : activations'[i] = activations[i],
           Len(body_scanners') = Len(body_scanners),
           \A level \in 0..Len(body_scanners) :
              level < Len(body_scanners) => Left(atoms, level)' = Left(atoms, level),
           UNCHANGED committed_values
    PROVE  Supports(atoms, k, m)'
<1>1. PICK M, L :
         /\ Meaning(atoms) = Executing[k][Committed(M[0], committed_values)]
         /\ Chain(activations, Lefts(atoms), M, L, Pending)
         /\ L[Pending + 1] = Len(body_scanners)
         /\ M[Pending] = m
  BY DEF Supports
<1>2. PICK n \in Nat : n = Pending
  BY PendingType
<1>3. PICK stack, left, other, rest :
         /\ stack = activations /\ other = activations'
         /\ left = Lefts(atoms) /\ rest = Lefts(atoms)'
  OBVIOUS
<1>4. \A i \in 1..n : other[i] = stack[i]
  BY <1>2, <1>3
<1>5. \A l \in Nat : l < L[n + 1] => rest[l] = left[l]
  <2> SUFFICES ASSUME NEW l \in Nat, l < Len(body_scanners) PROVE rest[l] = left[l]
    BY <1>1, <1>2
  <2>1. l \in 0..Len(body_scanners) /\ Len(body_scanners) \in Nat
    BY PendingType
  <2>2. left[l] = Left(atoms, l) /\ rest[l] = Left(atoms, l)'
    BY <1>3, <2>1 DEF Lefts
  <2> QED
    BY <2>1, <2>2
<1>6. Chain(other, rest, M, L, n)
  <2>1. n \in 0..n
    OBVIOUS
  <2> QED
    BY <1>1, <1>2, <1>3, <1>4, <1>5, <2>1, ChainKept
<1>7. Chain(activations, Lefts(atoms), M, L, Pending)'
  BY <1>2, <1>3, <1>6
<1> QED
  BY <1>1, <1>7 DEF Supports

\* The innermost activation asks for an evaluation.
LEMMA SupportsGrow ==
    ASSUME IInv, NEW atoms, NEW k, NEW m, Supports(atoms, k, m),
           Pending' = Pending + 1,
           \A i \in 1..Pending : activations'[i] = activations[i],
           Len(body_scanners')
              = Len(body_scanners) + IF HasBody(activations'[Pending + 1]) THEN 1 ELSE 0,
           \A level \in 0..Len(body_scanners) : Left(atoms, level)' = Left(atoms, level),
           UNCHANGED committed_values,
           Timely(activations'[Pending + 1]),
           NEW x, m = Resumed(Inner(Pending + 1), activations'[Pending + 1], x,
                              Left(atoms, Len(body_scanners)))
    PROVE  Supports(atoms, k, x)'
<1>1. PICK M, L :
         /\ Meaning(atoms) = Executing[k][Committed(M[0], committed_values)]
         /\ Chain(activations, Lefts(atoms), M, L, Pending)
         /\ L[Pending + 1] = Len(body_scanners)
         /\ M[Pending] = m
  BY DEF Supports
<1>2. PICK n \in Nat : n = Pending
  BY PendingType
<1>3. PICK stack, left, other, rest, outputs :
         /\ stack = activations /\ other = activations'
         /\ left = Lefts(atoms) /\ rest = Lefts(atoms)'
         /\ outputs = committed_values
  OBVIOUS
<1>4. \A i \in 1..n : other[i] = stack[i]
  BY <1>2, <1>3
<1>5. Len(body_scanners) \in Nat /\ Len(body_scanners') \in Nat
      /\ Len(body_scanners) <= Len(body_scanners')
  BY PendingType
<1>6. ASSUME NEW l \in 0..Len(body_scanners)
      PROVE  rest[l] = left[l] /\ left[l] = Left(atoms, l)
  <2>1. l \in 0..Len(body_scanners')
    BY <1>5
  <2>2. left[l] = Left(atoms, l) /\ rest[l] = Left(atoms, l)'
    BY <1>3, <1>5, <2>1 DEF Lefts
  <2> QED
    BY <2>2
<1>7. Chain(other, rest, M, L, n)
  <2>1. n \in 0..n
    OBVIOUS
  <2>2. \A l \in Nat : l < L[n + 1] => rest[l] = left[l]
    BY <1>1, <1>2, <1>5, <1>6
  <2> QED
    BY <1>1, <1>2, <1>3, <1>4, <2>1, <2>2, ChainKept
<1>8. L[n + 1] \in Nat /\ Timely(other[n + 1])
  BY <1>1, <1>2, <1>3, <1>5
<1>9. M[n] = Resumed(Inner(n + 1), other[n + 1], x, rest[L[n + 1]])
  <2>1. Len(body_scanners) \in 0..Len(body_scanners)
    BY <1>5
  <2>2. rest[L[n + 1]] = Left(atoms, Len(body_scanners))
    BY <1>1, <1>2, <1>6, <2>1
  <2> QED
    BY <1>1, <1>2, <1>3, <2>2
<1>10. PICK N, K : /\ Chain(other, rest, N, K, n + 1)
                   /\ N[0] = M[0] /\ N[n + 1] = x
                   /\ K[n + 2] = L[n + 1] + IF HasBody(other[n + 1]) THEN 1 ELSE 0
  BY <1>7, <1>8, <1>9, ChainGrows
<1>11. K[Pending' + 1] = Len(body_scanners')
  <2>1. Pending' + 1 = n + 2
    BY <1>2
  <2> QED
    BY <1>1, <1>2, <1>3, <1>10, <2>1
<1>12. Chain(activations, Lefts(atoms), N, K, Pending)'
  BY <1>2, <1>3, <1>10
<1>13. Meaning(atoms) = Executing[k][Committed(N[0], committed_values)]
       /\ N[Pending'] = x
  BY <1>1, <1>2, <1>10
<1> QED
  BY <1>11, <1>12, <1>13 DEF Supports

\* The evaluation the innermost activation asked for returns.
LEMMA SupportsShrink ==
    ASSUME IInv, NEW atoms, NEW k, NEW x, Supports(atoms, k, x),
           Pending > 0, Pending' = Pending - 1,
           \A i \in 1..(Pending - 1) : activations'[i] = activations[i],
           Len(body_scanners)
              = Len(body_scanners') + IF HasBody(activations[Pending]) THEN 1 ELSE 0,
           Len(body_scanners') \in Nat,
           \A level \in 0..Len(body_scanners) :
              level < Len(body_scanners') => Left(atoms, level)' = Left(atoms, level),
           UNCHANGED committed_values,
           NEW m, m = Resumed(Inner(Pending), activations[Pending], x,
                              Left(atoms, Len(body_scanners')))
    PROVE  /\ Timely(activations[Pending])
           /\ Supports(atoms, k, m)'
<1>1. PICK M, L :
         /\ Meaning(atoms) = Executing[k][Committed(M[0], committed_values)]
         /\ Chain(activations, Lefts(atoms), M, L, Pending)
         /\ L[Pending + 1] = Len(body_scanners)
         /\ M[Pending] = x
  BY DEF Supports
<1>2. PICK n \in Nat \ {0} : n = Pending
  BY PendingType
<1>3. PICK stack, left, other, rest :
         /\ stack = activations /\ other = activations'
         /\ left = Lefts(atoms) /\ rest = Lefts(atoms)'
  OBVIOUS
<1>4. Chain(stack, left, M, L, n)
  BY <1>1, <1>2, <1>3
<1>5. /\ L[n] \in Nat
      /\ L[n + 1] = L[n] + IF HasBody(stack[n]) THEN 1 ELSE 0
      /\ M[n - 1] = Resumed(Inner(n), stack[n], M[n], left[L[n]])
      /\ Timely(stack[n])
  BY <1>4 DEF Chain
<1>6. L[n] = Len(body_scanners')
  BY <1>1, <1>2, <1>3, <1>5
<1>7. left[L[n]] = Left(atoms, Len(body_scanners'))
  <2>1. Len(body_scanners') \in 0..Len(body_scanners)
    BY PendingType
  <2> QED
    BY <1>3, <1>6, <2>1 DEF Lefts
<1>8. M[n - 1] = m
  BY <1>1, <1>2, <1>3, <1>5, <1>7
<1>9. Chain(other, rest, M, L, n - 1)
  <2>1. n - 1 \in 0..n /\ (n - 1) + 1 = n
    OBVIOUS
  <2>2. \A i \in 1..(n - 1) : other[i] = stack[i]
    BY <1>2, <1>3
  <2>3. ASSUME NEW l \in Nat, l < L[n] PROVE rest[l] = left[l]
    <3>1. l \in 0..Len(body_scanners) /\ l \in 0..Len(body_scanners')
      BY <1>6, <2>3, PendingType
    <3>2. left[l] = Left(atoms, l) /\ rest[l] = Left(atoms, l)'
      BY <1>3, <3>1 DEF Lefts
    <3> QED
      BY <1>6, <2>3, <3>1, <3>2
  <2> QED
    BY <1>4, <2>1, <2>2, <2>3, ChainKept
<1>10. Chain(activations, Lefts(atoms), M, L, Pending)'
  BY <1>2, <1>3, <1>9
<1>11. L[Pending' + 1] = Len(body_scanners') /\ M[Pending'] = m
  BY <1>2, <1>6, <1>8
<1>12. Supports(atoms, k, m)'
  BY <1>1, <1>10, <1>11 DEF Supports
<1> QED
  BY <1>2, <1>3, <1>5, <1>12

-----------------------------------------------------------------------------
(* A failure reaches the end of the text.                                   *)

\* A machine that has failed is not changed by what is read or restored.
LEMMA StoppedUpdates ==
    /\ Stopped.failed /\ Stopped.value = Zero
    /\ Stopped.cost = retired_cycle_count /\ Stopped.arenas = arena_bytes
    /\ Yield(Stopped, Zero) = Stopped
    /\ \A atoms : Restored(Stopped, atoms) = Stopped
    /\ \A kind : Skip(Stopped, kind) = Stopped
    /\ \A outputs : Committed(Stopped, outputs) = [machine |-> Stopped, outputs |-> outputs]
<1>1. PICK failed : failed = TRUE
  OBVIOUS
<1>2. PICK m : m = [atoms |-> <<>>, failed |-> failed, value |-> Zero,
                    cost |-> retired_cycle_count, arenas |-> arena_bytes]
  OBVIOUS
<1>3. Stopped = m
  BY <1>1, <1>2 DEF Stopped
<1>4. Yield(m, Zero) = m
  <2>1. PICK z, c, r : z = Zero /\ c = retired_cycle_count /\ r = arena_bytes
    OBVIOUS
  <2>2. m = [atoms |-> <<>>, failed |-> failed, value |-> z, cost |-> c, arenas |-> r]
    BY <1>2, <2>1
  <2>3. Yield(m, z) = m
    BY <2>2 DEF Yield
  <2> QED
    BY <2>1, <2>3
<1>5. m.failed /\ m.value = Zero /\ m.cost = retired_cycle_count /\ m.arenas = arena_bytes
  BY <1>1, <1>2
<1>6. \A atoms : Restored(m, atoms) = m
  BY <1>5 DEF Restored
<1>7. \A kind : Skip(m, kind) = m
  BY <1>5 DEF Skip
<1>8. \A outputs : Committed(m, outputs) = [machine |-> m, outputs |-> outputs]
  BY <1>4, <1>5, <1>7 DEF Committed
<1> QED
  BY <1>3, <1>4, <1>5, <1>6, <1>7, <1>8

\* A failed machine is one.
LEMMA StoppedType ==
    ASSUME TypeOK
    PROVE  Stopped \in Machine
BY ConstantTypes, EmptySeq DEF Stopped, Machine, TypeOK

\* The count of a loop is a number of iterations.
LEMMA IterationsType ==
    ASSUME NEW a \in Activation, a.operands # <<>>
    PROVE  a.operands[1] \in Double /\ IterationsOf(a) \in Nat
<1>1. a.operands \in Seq(Double)
  BY DEF Activation
<1>2. Len(a.operands) \in Nat \ {0}
  BY <1>1, EmptySeq
<1>3. 1 \in 1..Len(a.operands)
  BY <1>2
<1>4. a.operands[1] \in Double
  BY <1>1, <1>3, ElementOfSeq
<1>5. a.operands[1].magnitude \in Nat
  BY <1>4, FormatAssumption DEF Double, NaNCode
<1>6. IterationsOf(a) \in Nat
  BY <1>5, QuotientNat, FormatAssumption DEF IterationsOf
<1> QED
  BY <1>4, <1>6

\* What a suspended activation has obtained.
LEMMA SuspendedType ==
    ASSUME IInv, Awaiting, NEW i \in 1..Len(activations), Suspended(i)
    PROVE  /\ activations[i] \in Activation /\ Awaits(activations[i])
           /\ activations[i].stage \in Nat \ {0}
           /\ Len(Steps(activations[i].form)) \in Nat
           /\ activations[i].form \in Dispatchable
           /\ HasBody(activations[i]) /\ activations[i].form = "Loop" =>
                 activations[i].operands # <<>>
<1> DEFINE a == activations[i]
<1>1. a \in Activation
  BY ElementOfSeq DEF IInv, TypeOK
<1>2. Awaits(a) /\ WellFormed(a)
  BY DEF Awaiting, IInv, Formed
<1>3. a.stage \in Nat \ {0} /\ a.form \in Dispatchable
  BY <1>1, <1>2 DEF Activation, Awaits
<1>4. Len(Steps(a.form)) \in Nat
  BY <1>3, StepsLength
<1>5. ASSUME HasBody(a), a.form = "Loop" PROVE a.operands # <<>>
  <2>1. Len(Steps(a.form)) = 5
    BY <1>5, StepCounts, Zenon
  <2>2. a.stage > 2
    <3>1. PICK s \in Nat : s = a.stage
      BY <1>3
    <3>2. s > 5
      BY <1>5, <2>1, <3>1 DEF HasBody
    <3> QED
      BY <3>1, <3>2
  <2>3. Len(a.operands) >= 1
    BY <1>2, <1>5, <2>2 DEF WellFormed
  <2>4. Len(a.operands) # 0
    BY <2>3
  <2> QED
    BY <2>4, EmptySeq
<1> QED
  BY <1>1, <1>2, <1>3, <1>4, <1>5

\* An activation whose evaluation failed fails.
LEMMA StoppedFalls ==
    ASSUME IInv, Awaiting, NEW i \in 1..Len(activations), Suspended(i),
           Timely(activations[i]), NEW g, NEW atoms
    PROVE  Resumed(g, activations[i], Stopped, atoms) = Stopped
<1>1. PICK a : a = activations[i]
  OBVIOUS
<1>2. /\ a \in Activation /\ a.stage \in Nat \ {0} /\ Len(Steps(a.form)) \in Nat
      /\ HasBody(a) /\ a.form = "Loop" => a.operands # <<>>
      /\ Timely(a)
  BY <1>1, SuspendedType
<1>3. Stopped \in Machine /\ Stopped.failed
  BY StoppedType, StoppedUpdates DEF IInv
<1>4. CASE ~HasBody(a)
  <2>1. PICK k \in Nat : k = Len(Steps(a.form)) - a.stage
    BY <1>2, <1>4 DEF HasBody
  <2>2. PICK c : c = Obtained([machine |-> Stopped, values |-> a.operands, name |-> a.name],
                              Stopped)
    OBVIOUS
  <2>3. c = [machine |-> Stopped, values |-> Append(a.operands, Zero), name |-> a.name]
    BY <2>2, StoppedUpdates DEF Obtained
  <2>4. a.operands \in Seq(Double) /\ a.name \in Names \cup {""}
    BY <1>2 DEF Activation
  <2>5. Append(a.operands, Zero) \in Seq(Double)
    BY <2>4, ConstantTypes, PushTop
  <2>6. c \in Configuration /\ c.machine = Stopped
    BY <1>3, <2>3, <2>4, <2>5 DEF Configuration
  <2>7. Finishing(g, a.form, a.frame)[k][c] = Stopped
    BY <1>3, <2>6, FinishingIs
  <2>8. Resumed(g, a, Stopped, atoms) = Finishing(g, a.form, a.frame)[k][c]
    BY <1>4, <2>1, <2>2 DEF Resumed
  <2> QED
    BY <1>1, <2>7, <2>8
<1>5. CASE HasBody(a) /\ a.form = "Loop"
  <2>1. IterationsOf(a) \in Nat /\ a.iteration \in Nat
    BY <1>2, <1>5, IterationsType DEF Activation
  <2>2. PICK k \in Nat : k = IterationsOf(a) - a.iteration
    BY <1>2, <1>5, <2>1 DEF Timely
  <2>3. Repeating(g, a.name, IterationsOf(a))[k][Stopped] = Stopped
    <3>1. PICK m \in Machine : m = Stopped
      BY <1>3
    <3>2. PICK limit, template : limit = IterationsOf(a) /\ template = a.name
      OBVIOUS
    <3>3. m.failed
      BY <1>3, <3>1
    <3>4. Repeating(g, template, limit)[k][m] = m
      BY <3>3, RepeatingIs
    <3> QED
      BY <3>1, <3>2, <3>4
  <2>4. Restored(Stopped, atoms) = Stopped
    BY StoppedUpdates
  <2> QED
    BY <1>1, <1>5, <2>2, <2>3, <2>4 DEF Resumed
<1>6. CASE HasBody(a) /\ a.form # "Loop"
  BY <1>1, <1>6, StoppedUpdates DEF Resumed
<1> QED
  BY <1>4, <1>5, <1>6

\* A module that has stopped has its outputs.
LEMMA StoppedEnds ==
    ASSUME TypeOK, NEW k \in Nat
    PROVE  Executing[k][[machine |-> Stopped, outputs |-> committed_values]]
              = [machine |-> Stopped, outputs |-> committed_values]
BY StoppedType, StoppedUpdates, ExecutingIs DEF TypeOK

\* Where the innermost evaluation stops, the module does.
LEMMA SupportsStopped ==
    ASSUME IInv, Awaiting, NEW atoms, NEW k \in Nat, Supports(atoms, k, Stopped)
    PROVE  Meaning(atoms) = [machine |-> Stopped, outputs |-> committed_values]
<1>1. PICK M, L :
         /\ Meaning(atoms) = Executing[k][Committed(M[0], committed_values)]
         /\ Chain(activations, Lefts(atoms), M, L, Pending)
         /\ M[Pending] = Stopped
  BY DEF Supports
<1>2. PICK n \in Nat : n = Pending
  BY PendingType
<1> DEFINE K == {d \in 0..n : M[n - d] # Stopped}
<1>3. ASSUME K # {} PROVE FALSE
  <2>1. PICK d \in K : \A e \in K : d <= e
    <3>1. K \subseteq Nat
      OBVIOUS
    <3> QED
      BY <1>3, <3>1, LeastNatural
  <2>2. d \in 0..n /\ M[n - d] # Stopped
    OBVIOUS
  <2>3. d # 0
    BY <1>1, <1>2, <2>2
  <2>4. d - 1 \in 0..n /\ d - 1 \notin K
    BY <2>1, <2>2, <2>3
  <2>5. PICK i \in 1..n : i = n - (d - 1)
    BY <2>2, <2>3
  <2>6. M[i] = Stopped /\ i - 1 = n - d
    BY <2>4, <2>5
  <2>7. /\ M[i - 1] = Resumed(Inner(i), activations[i], M[i], Lefts(atoms)[L[i]])
        /\ Timely(activations[i])
    BY <1>1, <1>2 DEF Chain
  <2>8. Suspended(i) /\ i \in 1..Len(activations)
    BY <1>2, PendingType
  <2>9. M[i - 1] = Stopped
    BY <2>6, <2>7, <2>8, StoppedFalls
  <2> QED
    BY <2>2, <2>6, <2>9
<1>4. M[0] = Stopped
  <2>1. K = {}
    BY <1>3
  <2>2. n \in 0..n /\ n - n = 0
    OBVIOUS
  <2>3. M[n - n] = Stopped
    BY <2>1, <2>2
  <2> QED
    BY <2>2, <2>3
<1>5. Committed(M[0], committed_values) = [machine |-> Stopped, outputs |-> committed_values]
  BY <1>4, StoppedUpdates
<1> QED
  BY <1>1, <1>5, StoppedEnds DEF IInv

-----------------------------------------------------------------------------
(* The invariant: at every point of an execution the meaning of the whole   *)
(* text is that of what has been done and of what is left to do.            *)

InEvaluation == InActivation \cup {"evaluate", "return"}

\* The arguments the innermost activation has obtained.
Configured(atoms) ==
    [machine |-> Now(atoms, Zero), values |-> Active.operands, name |-> Active.name]

\* The machine the evaluation under way, the innermost one, comes to.
Outcome(atoms) ==
    IF control = "evaluate" THEN Inner(Len(activations))[<<Now(atoms, Zero), callee.frame>>]
    ELSE IF control = "dispatch"
    THEN Expression(Inner(Len(activations)), Now(atoms, Zero), Active.frame)
    ELSE IF control = "form"
    THEN Finishing(Inner(Len(activations)), Active.form, Active.frame)
            [Len(Steps(Active.form)) + 1 - Active.stage][Configured(atoms)]
    ELSE IF control = "iterate"
    THEN Repeating(Inner(Len(activations)), Active.name, IterationsOf(Active))
            [IterationsOf(Active) - Active.iteration][Now(atoms, result)]
    ELSE Now(atoms, result)

\* What an activation has not begun it has not done.
Fitting ==
    /\ control \in {"dispatch", "form"} => Active.iteration = 0
    /\ control = "dispatch" => Active.operands = <<>> /\ Active.name = ""
    /\ control = "form" =>
          /\ Active.stage <= Len(Steps(Active.form)) + 1
          /\ Active.operands # <<>> => result = Zero
    /\ control = "iterate" => Active.iteration <= IterationsOf(Active)

\* A finished module did what its text means.
Told(atoms) ==
    LET meaning == Meaning(atoms)
    IN  /\ committed_values = meaning.outputs
        /\ arena_bytes = meaning.machine.arenas
        /\ retired_cycle_count = meaning.machine.cost
        /\ HasFailed = meaning.machine.failed

\* An unfinished one will, with at most k more directives.
Foretold(atoms, k) ==
    /\ control \in InEvaluation =>
          Fitting /\ \E m : m = Outcome(atoms) /\ Supports(atoms, k, m)
    /\ control = "directive" =>
          Meaning(atoms) =
             Executing[k][[machine |-> Now(atoms, Zero), outputs |-> committed_values]]
    /\ control = "open" =>
          Meaning(atoms) = Executing[k][Opened(Now(atoms, Zero), committed_values)]
    /\ control = "close" =>
          Meaning(atoms) = Executing[k][Committed(Now(atoms, result), committed_values)]
    /\ control = "report" =>
          Meaning(atoms) = Executing[k][[machine |-> Now(atoms, Zero),
                                         outputs |-> Append(committed_values, result)]]

Understood(atoms) ==
    IF HasFailed \/ control = "halted" THEN Told(atoms)
    ELSE \E k \in Nat : Len(Left(atoms, 0)) < k /\ Foretold(atoms, k)

MInv == UInv /\ \A atoms : Completes(atoms) => Understood(atoms)

\* The texts are sequences.
LEMMA TextLeft ==
    ASSUME TypeOK, NEW atoms, Completes(atoms)
    PROVE  Left(atoms, 0) \in Seq(Atom) /\ Len(Left(atoms, 0)) \in Nat
<1>1. 0 \in 0..Len(body_scanners)
  BY LenProperties DEF TypeOK
<1> QED
  BY <1>1, LeftType, LenProperties

\* Nothing is read.
LEMMA NothingRead ==
    ASSUME UNCHANGED text, NEW atoms, Completes(atoms)'
    PROVE  Completes(atoms) /\ Left(atoms, 0)' = Left(atoms, 0)
BY DEF Completes, Left

\* Nothing is read at any level.
LEMMA NothingReadAnywhere ==
    ASSUME UNCHANGED <<text, body_scanners>>, NEW atoms
    PROVE  \A level : Left(atoms, level)' = Left(atoms, level)
BY DEF Left

\* A step of the innermost activation that leaves what it comes to.
LEMMA GoesOn ==
    ASSUME UInv, UInv', NEW atoms, Completes(atoms), Completes(atoms)', Understood(atoms),
           ~HasFailed, ~HasFailed', control \in InEvaluation, control' \in InEvaluation,
           Pending' = Pending,
           \A i \in 1..Pending : activations'[i] = activations[i],
           Len(body_scanners') = Len(body_scanners),
           \A level \in 0..Len(body_scanners) :
              level < Len(body_scanners) => Left(atoms, level)' = Left(atoms, level),
           Len(Left(atoms, 0)') <= Len(Left(atoms, 0)),
           UNCHANGED committed_values,
           Fitting => Fitting' /\ Outcome(atoms)' = Outcome(atoms)
    PROVE  Understood(atoms)'
<1>1. PICK k \in Nat : Len(Left(atoms, 0)) < k /\ Foretold(atoms, k)
  BY DEF Understood, InEvaluation, InActivation
<1>2. PICK m : Fitting /\ m = Outcome(atoms) /\ Supports(atoms, k, m)
  BY <1>1 DEF Foretold
<1>3. Supports(atoms, k, m)'
  BY <1>2, SupportsKept DEF UInv
<1>4. Len(Left(atoms, 0)') < k
  <2>1. Len(Left(atoms, 0)) \in Nat /\ Len(Left(atoms, 0)') \in Nat
    BY TextLeft DEF UInv, IInv
  <2> QED
    BY <1>1, <2>1
<1>5. Foretold(atoms, k)'
  BY <1>2, <1>3 DEF Foretold, InEvaluation, InActivation
<1> QED
  BY <1>4, <1>5 DEF Understood, InEvaluation, InActivation

\* One that asks for an evaluation.
LEMMA GoesIn ==
    ASSUME UInv, UInv', NEW atoms, Completes(atoms), Completes(atoms)', Understood(atoms),
           ~HasFailed, ~HasFailed', control \in InEvaluation, control' \in InEvaluation,
           UNCHANGED text,
           Pending' = Pending + 1,
           \A i \in 1..Pending : activations'[i] = activations[i],
           Len(body_scanners')
              = Len(body_scanners) + IF HasBody(activations'[Pending + 1]) THEN 1 ELSE 0,
           \A level \in 0..Len(body_scanners) : Left(atoms, level)' = Left(atoms, level),
           UNCHANGED committed_values,
           Fitting => /\ Fitting' /\ Timely(activations'[Pending + 1])
                      /\ Outcome(atoms) =
                            Resumed(Inner(Pending + 1), activations'[Pending + 1],
                                    Outcome(atoms)', Left(atoms, Len(body_scanners)))
    PROVE  Understood(atoms)'
<1>1. PICK k \in Nat : Len(Left(atoms, 0)) < k /\ Foretold(atoms, k)
  BY DEF Understood, InEvaluation, InActivation
<1>2. PICK m : Fitting /\ m = Outcome(atoms) /\ Supports(atoms, k, m)
  BY <1>1 DEF Foretold
<1>3. PICK x : x = Outcome(atoms)'
  OBVIOUS
<1>4. Supports(atoms, k, x)'
  BY <1>2, <1>3, SupportsGrow DEF UInv
<1>5. Left(atoms, 0)' = Left(atoms, 0)
  BY NothingRead
<1>6. Foretold(atoms, k)'
  BY <1>2, <1>3, <1>4 DEF Foretold, InEvaluation, InActivation
<1> QED
  BY <1>1, <1>5, <1>6 DEF Understood, InEvaluation, InActivation

\* One that receives the value of the evaluation it asked for.
LEMMA GoesOut ==
    ASSUME UInv, UInv', NEW atoms, Completes(atoms), Completes(atoms)', Understood(atoms),
           ~HasFailed, ~HasFailed', control \in InEvaluation, control' \in InEvaluation,
           UNCHANGED text,
           Pending > 0, Pending' = Pending - 1,
           \A i \in 1..(Pending - 1) : activations'[i] = activations[i],
           Len(body_scanners)
              = Len(body_scanners') + IF HasBody(activations[Pending]) THEN 1 ELSE 0,
           \A level \in 0..Len(body_scanners) :
              level < Len(body_scanners') => Left(atoms, level)' = Left(atoms, level),
           UNCHANGED committed_values,
           Timely(activations[Pending]) =>
              /\ Fitting'
              /\ Outcome(atoms)' =
                    Resumed(Inner(Pending), activations[Pending], Outcome(atoms),
                            Left(atoms, Len(body_scanners')))
    PROVE  Understood(atoms)'
<1>1. PICK k \in Nat : Len(Left(atoms, 0)) < k /\ Foretold(atoms, k)
  BY DEF Understood, InEvaluation, InActivation
<1>2. PICK x : Fitting /\ x = Outcome(atoms) /\ Supports(atoms, k, x)
  BY <1>1 DEF Foretold
<1>3. PICK m : m = Resumed(Inner(Pending), activations[Pending], x,
                           Left(atoms, Len(body_scanners')))
  OBVIOUS
<1>4. Len(body_scanners') \in Nat
  BY LenProperties DEF UInv, IInv, TypeOK
<1>5. Timely(activations[Pending]) /\ Supports(atoms, k, m)'
  BY <1>2, <1>3, <1>4, SupportsShrink DEF UInv
<1>6. m = Outcome(atoms)' /\ Fitting'
  BY <1>2, <1>3, <1>5
<1>7. Left(atoms, 0)' = Left(atoms, 0)
  BY NothingRead
<1>8. Foretold(atoms, k)'
  BY <1>5, <1>6 DEF Foretold, InEvaluation, InActivation
<1> QED
  BY <1>1, <1>7, <1>8 DEF Understood, InEvaluation, InActivation

\* One that fails.
LEMMA GoesWrong ==
    ASSUME UInv, NEW atoms, Understood(atoms),
           ~HasFailed, HasFailed', control \in InEvaluation,
           UNCHANGED <<committed_values, arena_bytes, retired_cycle_count>>,
           Fitting => Outcome(atoms) = Stopped
    PROVE  Understood(atoms)'
<1>1. PICK k \in Nat : Len(Left(atoms, 0)) < k /\ Foretold(atoms, k)
  BY DEF Understood, InEvaluation, InActivation
<1>2. PICK m : Fitting /\ m = Outcome(atoms) /\ Supports(atoms, k, m)
  BY <1>1 DEF Foretold
<1>3. Supports(atoms, k, Stopped)
  BY <1>2
<1>4. Meaning(atoms) = [machine |-> Stopped, outputs |-> committed_values]
  BY <1>3, SupportsStopped DEF UInv
<1>5. Told(atoms)'
  <2>1. PICK meaning : meaning = Meaning(atoms)
    OBVIOUS
  <2>2. meaning.machine = Stopped /\ meaning.outputs = committed_values
    BY <1>4, <2>1
  <2>3. /\ meaning.machine.failed = TRUE
        /\ meaning.machine.cost = retired_cycle_count
        /\ meaning.machine.arenas = arena_bytes
    BY <2>2 DEF Stopped
  <2>4. HasFailed' = TRUE
    BY DEF HasFailed
  <2> QED
    BY <2>1, <2>2, <2>3, <2>4 DEF Told
<1> QED
  BY <1>5 DEF Understood

\* What has been told does not change any more.
LEMMA StaysTold ==
    ASSUME NEW atoms, HasFailed \/ control = "halted", Understood(atoms),
           HasFailed' <=> HasFailed, HasFailed' \/ control' = "halted",
           UNCHANGED <<committed_values, arena_bytes, retired_cycle_count>>
    PROVE  Understood(atoms)'
BY DEF Understood, Told, HasFailed

\* The arguments obtained so far are those of a configuration.
LEMMA ConfiguredType ==
    ASSUME IInv, control = "form", NEW atoms, Completes(atoms)
    PROVE  /\ Configured(atoms) \in Configuration
           /\ Configured(atoms).machine = Now(atoms, Zero)
           /\ Configured(atoms).values = Active.operands
           /\ Configured(atoms).name = Active.name
           /\ ~Now(atoms, Zero).failed
           /\ Active \in Activation /\ activations # <<>>
           /\ Active.stage \in Nat \ {0}
<1>1. Active \in Activation /\ activations # <<>>
  BY ActiveFormed DEF InActivation
<1>2. Active.operands \in Seq(Double) /\ Active.name \in Names \cup {""}
      /\ Active.stage \in Nat \ {0}
  BY <1>1 DEF Activation
<1>3. Now(atoms, Zero) \in Machine
  BY NowType, ConstantTypes DEF IInv
<1>4. ~Now(atoms, Zero).failed
  BY RunningUpdates DEF Now
<1> QED
  BY <1>1, <1>2, <1>3, <1>4 DEF Configured, Configuration

\* A form whose next argument or punctuation is read.
LEMMA FormGoes ==
    ASSUME IInv, Dispatched, control = "form", Fitting, ~ArgumentsRead,
           NEW atoms, Completes(atoms)
    PROVE  /\ Len(Steps(Active.form)) - Active.stage \in Nat
           /\ Outcome(atoms) =
                 Finishing(Inner(Len(activations)), Active.form, Active.frame)
                    [Len(Steps(Active.form)) - Active.stage]
                    [Read(Inner(Len(activations)), Configured(atoms), Active.form,
                          Active.frame, NextStep)]
<1>1. PICK form \in Dispatchable : form = Active.form
  BY DEF Dispatched
<1>2. PICK s \in Nat \ {0} : s = Active.stage
  BY ConfiguredType
<1>3. PICK l \in Nat : l = Len(Steps(form))
  BY <1>1, StepsLength
<1>4. s <= l
  BY <1>1, <1>2, <1>3 DEF ArgumentsRead
<1>5. PICK c, frame, g : /\ c = Configured(atoms) /\ frame = Active.frame
                         /\ g = Inner(Len(activations))
  OBVIOUS
<1>6. c \in Configuration /\ ~c.machine.failed
  BY <1>5, ConfiguredType
<1>7. Outcome(atoms) = Finishing(g, form, frame)[l + 1 - s][c]
  BY <1>1, <1>2, <1>3, <1>5 DEF Outcome
<1>8. l + 1 - s \in Nat \ {0} /\ (l + 1 - s) - 1 = l - s /\ l + 1 - (l + 1 - s) = s /\ l - s \in Nat
  BY <1>4
<1>9. Len(ArgumentList(form)) = l /\ ArgumentList(form)[s] = Steps(form)[s]
  BY <1>3, <1>4, ListIsSteps
<1>10. Finishing(g, form, frame)[l + 1 - s][c]
         = Finishing(g, form, frame)[l - s][Read(g, c, form, frame, Steps(form)[s])]
  <2>1. PICK k \in Nat \ {0} : k = l + 1 - s
    BY <1>8
  <2>2. Finishing(g, form, frame)[k][c] =
           Finishing(g, form, frame)[k - 1]
              [Read(g, c, form, frame, ArgumentList(form)[Len(ArgumentList(form)) + 1 - k])]
    BY <1>6, <2>1, FinishingGoes
  <2>3. k - 1 = l - s /\ Len(ArgumentList(form)) + 1 - k = s
    BY <1>8, <1>9, <2>1
  <2> QED
    BY <1>9, <2>1, <2>2, <2>3
<1>11. NextStep = Steps(form)[s]
  BY <1>1, <1>2 DEF NextStep
<1> QED
  BY <1>1, <1>2, <1>3, <1>5, <1>7, <1>8, <1>10, <1>11

\* A form whose arguments are all there.
LEMMA FormConcludes ==
    ASSUME IInv, Dispatched, control = "form", Fitting, ArgumentsRead,
           NEW atoms, Completes(atoms)
    PROVE  Outcome(atoms) = Conclusion(Inner(Len(activations)), Configured(atoms), Active.form)
<1>1. PICK form \in Dispatchable : form = Active.form
  BY DEF Dispatched
<1>2. PICK s \in Nat \ {0} : s = Active.stage
  BY ConfiguredType
<1>3. PICK l \in Nat : l = Len(Steps(form))
  BY <1>1, StepsLength
<1>4. l + 1 - s = 0
  BY <1>1, <1>2, <1>3 DEF ArgumentsRead, Fitting
<1>5. PICK c, frame, g : /\ c = Configured(atoms) /\ frame = Active.frame
                         /\ g = Inner(Len(activations))
  OBVIOUS
<1>6. c \in Configuration /\ ~c.machine.failed
  BY <1>5, ConfiguredType
<1>7. Outcome(atoms) = Finishing(g, form, frame)[0][c]
  BY <1>1, <1>2, <1>3, <1>4, <1>5 DEF Outcome
<1>8. Finishing(g, form, frame)[0][c] = Conclusion(g, c, form)
  BY <1>6, FinishingIs
<1> QED
  BY <1>1, <1>5, <1>7, <1>8

\* A form an argument of which failed.
LEMMA FormFails ==
    ASSUME TypeOK, NEW g, NEW form, NEW frame, NEW k \in Nat,
           NEW c \in Configuration, c.machine = Stopped
    PROVE  Finishing(g, form, frame)[k][c] = Stopped
<1>1. c.machine.failed
  BY StoppedUpdates
<1> QED
  BY <1>1, FinishingIs

\* An expectation that is met, and one that is not.
LEMMA Expectation ==
    ASSUME UInv, TypeOK', ~HasFailed, NEW kind, NEW accepted, NEW rejected, accepted # rejected,
           ExpectAtom(kind, accepted, rejected),
           UNCHANGED <<retired_cycle_count, arena_bytes>>,
           NEW atoms, Completes(atoms)', NEW value \in Double
    PROVE  /\ Completes(atoms)
           /\ Len(body_scanners') = Len(body_scanners)
           /\ \A level \in 0..Len(body_scanners) :
                 level < Len(body_scanners) => Left(atoms, level)' = Left(atoms, level)
           /\ Len(Left(atoms, 0)') <= Len(Left(atoms, 0))
           /\ \/ /\ control' = accepted /\ ~HasFailed' /\ result' = result
                 /\ Skip(Now(atoms, value), kind) = Now(atoms, value)'
              \/ /\ control' = rejected /\ HasFailed'
                 /\ Skip(Now(atoms, value), kind) = Stopped
<1>1. PICK atom \in NextAtoms :
         /\ Consume(atom)
         /\ IF atom.kind = kind
            THEN control' = accepted /\ UNCHANGED <<result, reported_error_count>>
            ELSE control' = rejected /\ result' = Zero /\ ReportError
  BY DEF ExpectAtom
<1>2. /\ Completes(atoms)
      /\ Len(body_scanners') = Len(body_scanners)
      /\ \A level \in 0..Len(body_scanners) :
            level < Len(body_scanners) => Left(atoms, level)' = Left(atoms, level)
      /\ Len(Left(atoms, 0)') <= Len(Left(atoms, 0))
  BY <1>1, AtomTaken DEF UInv, IInv
<1>3. NextOf(Now(atoms, value)) = atom /\ Rest(Now(atoms, value)) = Now(atoms, value)'
  BY <1>1, AtomRead DEF UInv, IInv
<1>4. ~Now(atoms, value).failed
  BY RunningUpdates DEF Now
<1>5. Failed(Now(atoms, value)) = Stopped
  BY <1>2, NowType DEF UInv, IInv
<1>6. reported_error_count \in Nat /\ reported_error_count = 0
  BY NoneReported DEF UInv, IInv, TypeOK
<1>7. CASE atom.kind = kind
  <2>1. Skip(Now(atoms, value), kind) = Now(atoms, value)'
    BY <1>3, <1>4, <1>7 DEF Skip
  <2> QED
    BY <1>1, <1>2, <1>6, <1>7, <2>1 DEF HasFailed
<1>8. CASE atom.kind # kind
  <2>1. Skip(Now(atoms, value), kind) = Stopped
    BY <1>3, <1>4, <1>5, <1>8 DEF Skip
  <2> QED
    BY <1>1, <1>2, <1>6, <1>8, <2>1 DEF HasFailed, ReportError
<1> QED
  BY <1>7, <1>8

-----------------------------------------------------------------------------
(* Step by step: what the text means does not change under the evaluator.   *)

\* The innermost activation is at work before and after.
LEMMA TopAtWork ==
    ASSUME TypeOK, control \in InActivation, control' \in InActivation, activations # <<>>,
           Len(activations') = Len(activations),
           \A i \in 1..Len(activations) :
              i < Len(activations) => activations'[i] = activations[i]
    PROVE  /\ Pending' = Pending
           /\ \A i \in 1..Pending : activations'[i] = activations[i]
<1>1. Len(activations) \in Nat
  BY LenProperties DEF TypeOK
<1>2. Pending' = Pending /\ Pending = Len(activations) - 1
  BY DEF Pending
<1> QED
  BY <1>1, <1>2

\* A handler that expects punctuation: it is the next atom of the meaning, or the
\* form fails in both.
LEMMA ExpectPunctuationMeans ==
    ASSUME UInv, UInv', ~HasFailed, ExpectPunctuation,
           NEW atoms, Completes(atoms), Completes(atoms)', Understood(atoms)
    PROVE  Understood(atoms)'
<1> USE DEF UInv, IInv
<1>1. /\ control = "form" /\ ~ArgumentsRead /\ NextStep \in {OPEN, SEPARATOR, CLOSE}
      /\ ExpectAtom(NextStep, "form", "leave") /\ UpdateActive(Advanced)
      /\ UNCHANGED <<committed_values, arena_bytes, retired_cycle_count>>
  BY DEF ExpectPunctuation, file_vars
<1>2. /\ Completes(atoms)
      /\ Len(body_scanners') = Len(body_scanners)
      /\ \A level \in 0..Len(body_scanners) :
            level < Len(body_scanners) => Left(atoms, level)' = Left(atoms, level)
      /\ Len(Left(atoms, 0)') <= Len(Left(atoms, 0))
      /\ \/ /\ control' = "form" /\ ~HasFailed' /\ result' = result
            /\ Skip(Now(atoms, Zero), NextStep) = Now(atoms, Zero)'
         \/ /\ control' = "leave" /\ HasFailed'
            /\ Skip(Now(atoms, Zero), NextStep) = Stopped
  <2>1. PICK kind : kind = NextStep
    OBVIOUS
  <2>2. ExpectAtom(kind, "form", "leave")
    BY <1>1, <2>1
  <2> QED
    BY <1>1, <2>1, <2>2, Expectation, ConstantTypes
<1>3. /\ Configured(atoms) \in Configuration
      /\ Configured(atoms).machine = Now(atoms, Zero)
      /\ Configured(atoms).values = Active.operands
      /\ Configured(atoms).name = Active.name
      /\ Active \in Activation /\ activations # <<>>
      /\ Active.stage \in Nat \ {0}
  BY <1>1, ConfiguredType
<1>4. /\ Len(activations') = Len(activations) /\ Active' = Advanced
      /\ \A i \in 1..Len(activations) :
            i < Len(activations) => activations'[i] = activations[i]
  BY <1>1, <1>3, TopUpdated
<1>5. PICK form, frame, g, stage, operands, arena, step :
         /\ form = Active.form /\ frame = Active.frame /\ g = Inner(Len(activations))
         /\ stage = Active.stage /\ operands = Active.operands /\ arena = Active.name
         /\ step = NextStep /\ stage \in Nat \ {0}
  BY <1>3
<1>6. Read(g, Configured(atoms), form, frame, step)
         = [machine |-> Skip(Now(atoms, Zero), step), values |-> operands, name |-> arena]
  BY <1>1, <1>3, <1>5 DEF Read, OPEN, SEPARATOR, CLOSE
<1>7. ASSUME Fitting
      PROVE  /\ Len(Steps(form)) - stage \in Nat
             /\ Outcome(atoms) = Finishing(g, form, frame)[Len(Steps(form)) - stage]
                    [[machine |-> Skip(Now(atoms, Zero), step), values |-> operands,
                      name |-> arena]]
  BY <1>1, <1>5, <1>6, <1>7, FormGoes
<1>8. CASE control' = "form" /\ ~HasFailed' /\ Skip(Now(atoms, Zero), step) = Now(atoms, Zero)'
           /\ result' = result
  <2>1. /\ Active'.form = form /\ Active'.frame = frame /\ Active'.stage = stage + 1
        /\ Active'.operands = operands /\ Active'.name = arena
        /\ Active'.iteration = Active.iteration
    BY <1>3, <1>4, <1>5 DEF Advanced, Activation
  <2>2. form \in Dispatchable
    BY <1>1, <1>5 DEF Dispatched
  <2>3. PICK l \in Nat : l = Len(Steps(form))
    BY <2>2, StepsLength
  <2>4. stage <= l
    BY <1>1, <1>5, <2>3 DEF ArgumentsRead
  <2>5. ASSUME Fitting PROVE Fitting'
    BY <1>1, <1>5, <1>8, <2>1, <2>3, <2>4, <2>5 DEF Fitting
  <2>6. ASSUME Fitting PROVE Outcome(atoms)' = Outcome(atoms)
    <3>1. Outcome(atoms)' =
             Finishing(g, form, frame)[Len(Steps(form)) + 1 - (stage + 1)]
                [[machine |-> Now(atoms, Zero)', values |-> operands, name |-> arena]]
      BY <1>4, <1>5, <1>8, <2>1 DEF Outcome, Configured, Inner
    <3>2. Len(Steps(form)) + 1 - (stage + 1) = Len(Steps(form)) - stage
      <4>1. stage \in Nat
        BY <1>5
      <4> QED
        BY <2>3, <4>1
    <3> QED
      BY <1>7, <1>8, <2>6, <3>1, <3>2
  <2>7. /\ Pending' = Pending
        /\ \A i \in 1..Pending : activations'[i] = activations[i]
    BY <1>1, <1>3, <1>4, <1>8, TopAtWork DEF InActivation
  <2> QED
    BY <1>1, <1>2, <1>8, <2>5, <2>6, <2>7, GoesOn DEF InEvaluation, InActivation
<1>9. CASE HasFailed' /\ Skip(Now(atoms, Zero), step) = Stopped
  <2>1. ASSUME Fitting PROVE Outcome(atoms) = Stopped
    <3>1. PICK c : c = [machine |-> Stopped, values |-> operands, name |-> arena]
      OBVIOUS
    <3>2. c \in Configuration
      BY <1>3, <1>5, <3>1, StoppedType DEF Configuration, Activation
    <3>3. c.machine = Stopped
      BY <3>1
    <3>4. PICK k \in Nat : k = Len(Steps(form)) - stage
      BY <1>7, <2>1
    <3>5. Finishing(g, form, frame)[k][c] = Stopped
      BY <3>2, <3>3, FormFails
    <3> QED
      BY <1>7, <1>9, <2>1, <3>1, <3>4, <3>5
  <2> QED
    BY <1>1, <1>9, <2>1, GoesWrong DEF InEvaluation, InActivation
<1> QED
  BY <1>2, <1>5, <1>8, <1>9

\* A handler that reads the name of an arena or of a template.
LEMMA ReadNameMeans ==
    ASSUME UInv, UInv', ~HasFailed, ReadName,
           NEW atoms, Completes(atoms), Completes(atoms)', Understood(atoms)
    PROVE  Understood(atoms)'
<1> USE DEF UInv, IInv
<1>1. PICK atom \in NextAtoms :
         /\ control = "form" /\ ~ArgumentsRead /\ NextStep = "NAME"
         /\ Consume(atom)
         /\ IF /\ atom.kind = "IDENTIFIER"
               /\ Active.form = "Loop" \/ atom.name \in DOMAIN ArenaCapacities
            THEN /\ UpdateActive([Advanced EXCEPT !.name = atom.name])
                 /\ UNCHANGED <<control, result, reported_error_count>>
            ELSE /\ control' = "leave"
                 /\ result' = Zero
                 /\ ReportError
                 /\ UNCHANGED activations
         /\ UNCHANGED <<committed_values, arena_bytes, retired_cycle_count>>
  BY DEF ReadName, file_vars
<1>2. /\ Completes(atoms)
      /\ Len(body_scanners') = Len(body_scanners)
      /\ \A level \in 0..Len(body_scanners) :
            level < Len(body_scanners) => Left(atoms, level)' = Left(atoms, level)
      /\ Len(Left(atoms, 0)') <= Len(Left(atoms, 0))
  BY <1>1, AtomTaken
<1>3. /\ Configured(atoms) \in Configuration
      /\ Configured(atoms).machine = Now(atoms, Zero)
      /\ Configured(atoms).values = Active.operands
      /\ Configured(atoms).name = Active.name
      /\ Active \in Activation /\ activations # <<>>
      /\ Active.stage \in Nat \ {0}
  BY <1>1, ConfiguredType
<1>4. NextOf(Now(atoms, Zero)) = atom /\ Rest(Now(atoms, Zero)) = Now(atoms, Zero)'
  BY <1>1, AtomRead
<1>5. PICK form, frame, g, stage, operands, arena :
         /\ form = Active.form /\ frame = Active.frame /\ g = Inner(Len(activations))
         /\ stage = Active.stage /\ operands = Active.operands /\ arena = Active.name
         /\ stage \in Nat \ {0}
  BY <1>3
<1>6. Read(g, Configured(atoms), form, frame, "NAME")
         = IF atom.kind = "IDENTIFIER" /\ (form = "Loop" \/ atom.name \in DOMAIN ArenaCapacities)
           THEN [machine |-> Now(atoms, Zero)', values |-> operands, name |-> atom.name]
           ELSE [machine |-> Stopped, values |-> operands, name |-> arena]
  <2>1. Failed(Now(atoms, Zero)) = Stopped
    BY NowType, ConstantTypes
  <2> QED
    BY <1>3, <1>4, <1>5, <2>1 DEF Read
<1>7. ASSUME Fitting
      PROVE  /\ Len(Steps(form)) - stage \in Nat
             /\ Outcome(atoms) = Finishing(g, form, frame)[Len(Steps(form)) - stage]
                    [Read(g, Configured(atoms), form, frame, "NAME")]
  BY <1>1, <1>5, <1>7, FormGoes
<1>8. CASE atom.kind = "IDENTIFIER" /\ (form = "Loop" \/ atom.name \in DOMAIN ArenaCapacities)
  <2>0. /\ UpdateActive([Advanced EXCEPT !.name = atom.name])
        /\ UNCHANGED <<control, result, reported_error_count>>
    BY <1>1, <1>5, <1>8
  <2>1. /\ Len(activations') = Len(activations)
        /\ Active' = [Advanced EXCEPT !.name = atom.name]
        /\ \A i \in 1..Len(activations) :
              i < Len(activations) => activations'[i] = activations[i]
    BY <1>3, <2>0, TopUpdated
  <2>2. /\ Active'.form = form /\ Active'.frame = frame /\ Active'.stage = stage + 1
        /\ Active'.operands = operands /\ Active'.name = atom.name
        /\ Active'.iteration = Active.iteration
    BY <1>3, <1>5, <2>1 DEF Advanced, Activation
  <2>3. form \in Dispatchable
    BY <1>1, <1>5 DEF Dispatched
  <2>4. PICK l \in Nat : l = Len(Steps(form))
    BY <2>3, StepsLength
  <2>5. stage <= l
    BY <1>1, <1>5, <2>4 DEF ArgumentsRead
  <2>6. ASSUME Fitting PROVE Fitting'
    BY <1>1, <1>5, <2>0, <2>2, <2>4, <2>5, <2>6 DEF Fitting
  <2>7. ASSUME Fitting PROVE Outcome(atoms)' = Outcome(atoms)
    <3>1. Outcome(atoms)' =
             Finishing(g, form, frame)[Len(Steps(form)) + 1 - (stage + 1)]
                [[machine |-> Now(atoms, Zero)', values |-> operands, name |-> atom.name]]
      BY <1>1, <1>5, <2>0, <2>1, <2>2 DEF Outcome, Configured, Inner
    <3>2. Len(Steps(form)) + 1 - (stage + 1) = Len(Steps(form)) - stage
      <4>1. stage \in Nat
        BY <1>5
      <4> QED
        BY <2>4, <4>1
    <3> QED
      BY <1>6, <1>7, <1>8, <2>7, <3>1, <3>2
  <2>8. /\ Pending' = Pending
        /\ \A i \in 1..Pending : activations'[i] = activations[i]
    BY <1>1, <1>3, <2>0, <2>1, TopAtWork DEF InActivation
  <2>9. ~HasFailed'
    BY <2>0 DEF HasFailed
  <2> QED
    BY <1>1, <1>2, <2>0, <2>6, <2>7, <2>8, <2>9, GoesOn DEF InEvaluation, InActivation
<1>9. CASE ~(atom.kind = "IDENTIFIER" /\ (form = "Loop" \/ atom.name \in DOMAIN ArenaCapacities))
  <2>1. ASSUME Fitting PROVE Outcome(atoms) = Stopped
    <3>1. PICK c : c = [machine |-> Stopped, values |-> operands, name |-> arena]
      OBVIOUS
    <3>2. c \in Configuration
      BY <1>3, <1>5, <3>1, StoppedType DEF Configuration, Activation
    <3>3. c.machine = Stopped
      BY <3>1
    <3>4. PICK k \in Nat : k = Len(Steps(form)) - stage
      BY <1>7, <2>1
    <3>5. Finishing(g, form, frame)[k][c] = Stopped
      BY <3>2, <3>3, FormFails
    <3> QED
      BY <1>6, <1>7, <1>9, <2>1, <3>1, <3>4, <3>5
  <2>2. HasFailed'
    BY <1>1, <1>5, <1>9, NoneReported DEF ReportError, HasFailed
  <2> QED
    BY <1>1, <2>1, <2>2, GoesWrong DEF InEvaluation, InActivation
<1> QED
  BY <1>8, <1>9

\* A handler that asks for an operand: what the form comes to is what it comes to
\* with the machine the evaluation will leave.
LEMMA EvaluateOperandMeans ==
    ASSUME UInv, UInv', ~HasFailed, EvaluateOperand,
           NEW atoms, Completes(atoms), Completes(atoms)', Understood(atoms)
    PROVE  Understood(atoms)'
<1> USE DEF UInv, IInv
<1>1. /\ control = "form" /\ ~ArgumentsRead /\ NextStep = "EVALUATE"
      /\ callee'.frame = Active.frame
      /\ control' = "evaluate"
      /\ UNCHANGED <<text, body_scanners, activations, retired_cycle_count,
                     reported_error_count, arena_bytes, committed_values>>
  BY DEF EvaluateOperand, scanner_vars, file_vars
<1>2. /\ Active \in Activation /\ activations # <<>>
      /\ Active = activations[Len(activations)]
      /\ Len(activations) \in Nat \ {0}
  BY <1>1, ConfiguredType, TopDestination
<1>3. PICK n \in Nat \ {0} : n = Len(activations)
  BY <1>2
<1>4. Pending = n - 1 /\ Pending' = n /\ Pending + 1 = n
  BY <1>1, <1>3 DEF Pending, InActivation
<1>5. PICK a \in Activation : a = Active /\ a = activations[n] /\ a = activations'[n]
  BY <1>1, <1>2, <1>3
<1>6. ~HasBody(a) /\ HasBody(activations'[Pending + 1]) = FALSE
  BY <1>1, <1>4, <1>5 DEF HasBody, ArgumentsRead
<1>7. \A level : Left(atoms, level)' = Left(atoms, level)
  BY <1>1, NothingReadAnywhere
<1>8. ASSUME Fitting
      PROVE  /\ Fitting'
             /\ Timely(a)
             /\ Outcome(atoms) = Resumed(Inner(n), a, Outcome(atoms)', Left(atoms, Len(body_scanners)))
  <2>1. PICK x : x = Outcome(atoms)'
    OBVIOUS
  <2>2. PICK now, g : now = Now(atoms, Zero) /\ g = Inner(n)
    OBVIOUS
  <2>3. Now(atoms, Zero)' = now
    BY <1>1, <1>7, <2>2 DEF Now, Running
  <2>4. x = g[<<now, a.frame>>]
    BY <1>1, <1>3, <1>5, <2>1, <2>2, <2>3 DEF Outcome, Inner
  <2>5. Outcome(atoms) = Finishing(g, a.form, a.frame)[Len(Steps(a.form)) - a.stage]
                            [Read(g, Configured(atoms), a.form, a.frame, "EVALUATE")]
    BY <1>1, <1>3, <1>5, <1>8, <2>2, FormGoes
  <2>6. Read(g, Configured(atoms), a.form, a.frame, "EVALUATE")
           = Obtained(Configured(atoms), g[<<now, a.frame>>])
    BY <2>2 DEF Read, Configured
  <2>7. Obtained(Configured(atoms), x)
           = Obtained([machine |-> x, values |-> a.operands, name |-> a.name], x)
    BY <1>5 DEF Obtained, Configured
  <2>8. Outcome(atoms) = Resumed(g, a, x, Left(atoms, Len(body_scanners)))
    BY <1>6, <2>4, <2>5, <2>6, <2>7 DEF Resumed
  <2>9. Timely(a)
    BY <1>1, <1>5, <1>6, <1>8 DEF Timely, Fitting
  <2>10. Fitting'
    BY <1>1 DEF Fitting
  <2> QED
    BY <2>1, <2>2, <2>8, <2>9, <2>10
<1>9. ~HasFailed'
  BY <1>1 DEF HasFailed
<1>10. Len(body_scanners') = Len(body_scanners) + IF HasBody(activations'[Pending + 1]) THEN 1 ELSE 0
  <2>1. Len(body_scanners) \in Nat
    BY LenProperties DEF TypeOK
  <2> QED
    BY <1>1, <1>6, <2>1
<1> QED
  BY <1>1, <1>4, <1>5, <1>7, <1>8, <1>9, <1>10, GoesIn DEF InEvaluation, InActivation

\* A handler that receives the operand it asked for.
LEMMA ReturnOperandMeans ==
    ASSUME UInv, UInv', ~HasFailed, ReturnOperand,
           NEW atoms, Completes(atoms), Completes(atoms)', Understood(atoms)
    PROVE  Understood(atoms)'
<1> USE DEF UInv, IInv
<1>1. /\ control = "return" /\ activations # <<>> /\ ~ArgumentsRead
      /\ UpdateActive([Advanced EXCEPT !.operands = Append(@, result)])
      /\ control' = "form" /\ result' = Zero
      /\ UNCHANGED <<text, body_scanners, retired_cycle_count,
                     reported_error_count, arena_bytes, committed_values>>
  BY DEF ReturnOperand, scanner_vars, file_vars
<1>2. /\ Active \in Activation
      /\ Active = activations[Len(activations)]
      /\ Len(activations) \in Nat \ {0}
  BY <1>1, TopDestination
<1>3. PICK n \in Nat \ {0} : n = Len(activations)
  BY <1>2
<1>4. /\ Len(activations') = n
      /\ \A i \in 1..n : i < n => activations'[i] = activations[i]
      /\ Active' = [Advanced EXCEPT !.operands = Append(@, result)]
  BY <1>1, <1>3, TopUpdated
<1>5. Pending = n /\ Pending' = n - 1
  BY <1>1, <1>3, <1>4 DEF Pending, InActivation
<1>6. PICK a \in Activation : a = Active /\ a = activations[n]
  BY <1>2, <1>3
<1>7. PICK s \in Nat \ {0}, l \in Nat : s = a.stage /\ l = Len(Steps(a.form)) /\ s <= l
  <2>1. Awaits(a)
    BY <1>1, <1>3, <1>6 DEF Awaiting, Suspended
  <2>2. Len(Steps(a.form)) \in Nat /\ a.stage \in Nat \ {0}
    BY <2>1, StepsLength DEF Awaits, Activation
  <2> QED
    BY <1>1, <1>6, <2>2 DEF ArgumentsRead
<1>8. ~HasBody(a) /\ HasBody(activations[Pending]) = FALSE
  BY <1>5, <1>6, <1>7 DEF HasBody
<1>9. \A level : Left(atoms, level)' = Left(atoms, level)
  BY <1>1, NothingReadAnywhere
<1>10. ASSUME Timely(a)
       PROVE  /\ Fitting'
              /\ Outcome(atoms)' = Resumed(Inner(n), a, Outcome(atoms), Left(atoms, Len(body_scanners')))
  <2>1. PICK value, now, g, form : /\ value = result /\ now = Now(atoms, result)
                                   /\ g = Inner(n) /\ form = a.form
    OBVIOUS
  <2>2. Outcome(atoms) = now /\ now.value = value
    <3>1. Outcome(atoms) = Now(atoms, result)
      BY <1>1 DEF Outcome
    <3>2. PICK left, cost, arenas : now = Running(left, value, cost, arenas)
      BY <2>1 DEF Now
    <3>3. now.value = value
      BY <3>2, RunningIs
    <3> QED
      BY <2>1, <3>1, <3>3
  <2>3. Now(atoms, Zero)' = Now(atoms, Zero)
    BY <1>1, <1>9 DEF Now, Running
  <2>4. Yield(now, Zero) = Now(atoms, Zero)
    BY <2>1, RunningUpdates DEF Now
  <2>5. /\ Active'.form = form /\ Active'.frame = a.frame /\ Active'.stage = s + 1
        /\ Active'.operands = Append(a.operands, value) /\ Active'.name = a.name
        /\ Active'.iteration = a.iteration
    BY <1>4, <1>6, <1>7, <2>1 DEF Advanced, Activation
  <2>6. Resumed(g, a, now, Left(atoms, Len(body_scanners')))
           = Finishing(g, form, a.frame)[l - s]
                [[machine |-> Now(atoms, Zero), values |-> Append(a.operands, value),
                  name |-> a.name]]
    BY <1>7, <1>8, <2>1, <2>2, <2>4 DEF Resumed, Obtained
  <2>7. Outcome(atoms)' = Finishing(g, form, a.frame)[l + 1 - (s + 1)]
                [[machine |-> Now(atoms, Zero)', values |-> Append(a.operands, value),
                  name |-> a.name]]
    BY <1>1, <1>3, <1>4, <1>7, <2>1, <2>5 DEF Outcome, Configured, Inner
  <2>8. l + 1 - (s + 1) = l - s
    OBVIOUS
  <2>9. Fitting'
    BY <1>1, <1>7, <1>8, <1>10, <2>1, <2>5 DEF Fitting, Timely
  <2> QED
    BY <2>1, <2>2, <2>3, <2>6, <2>7, <2>8, <2>9
<1>11. ~HasFailed'
  BY <1>1 DEF HasFailed
<1>12. Len(body_scanners) = Len(body_scanners') + IF HasBody(activations[Pending]) THEN 1 ELSE 0
  <2>1. Len(body_scanners) \in Nat
    BY LenProperties DEF TypeOK
  <2> QED
    BY <1>1, <1>8, <2>1
<1> QED
  BY <1>1, <1>4, <1>5, <1>6, <1>9, <1>10, <1>11, <1>12, GoesOut DEF InEvaluation, InActivation

\* An evaluation that is refused is nested too deep in the meaning as well.
LEMMA RefuseEvaluationMeans ==
    ASSUME UInv, UInv', ~HasFailed, RefuseEvaluation, SpillNeverExhausted,
           NEW atoms, Completes(atoms), Completes(atoms)', Understood(atoms)
    PROVE  Understood(atoms)'
<1> USE DEF UInv, IInv
<1>1. /\ control = "evaluate" /\ DepthReached /\ HasFailed'
      /\ UNCHANGED <<committed_values, arena_bytes, retired_cycle_count>>
  BY NoneReported DEF RefuseEvaluation, SpillNeverExhausted, ReportError, HasFailed, file_vars
<1>2. MaximumEvaluationDepth - Len(activations) = 0
  BY <1>1, EvaluatorAssumption, LenProperties DEF DepthReached, Stacked, TypeOK
<1>3. Outcome(atoms) = Stopped
  <2>1. PICK m \in Machine, frame \in Frame : m = Now(atoms, Zero) /\ frame = callee.frame
    BY NowType, ConstantTypes DEF TypeOK, Call
  <2>2. Evaluating[0][<<m, frame>>] = Failed(m)
    BY EvaluatingIs
  <2>3. Failed(m) = Stopped
    BY <2>1, NowType, ConstantTypes
  <2> QED
    BY <1>1, <1>2, <2>1, <2>2, <2>3 DEF Outcome, Inner
<1> QED
  BY <1>1, <1>3, GoesWrong DEF InEvaluation

\* An evaluation that is not refused has a depth left, and becomes an expression.
LEMMA EnterActivationMeans ==
    ASSUME UInv, UInv', ~HasFailed, EnterActivation,
           NEW atoms, Completes(atoms), Completes(atoms)', Understood(atoms)
    PROVE  Understood(atoms)'
<1> USE DEF UInv, IInv
<1>1. /\ control = "evaluate" /\ ~DepthReached /\ control' = "dispatch"
      /\ activations' = Append(activations,
          [form |-> "", destination |-> callee.destination,
           spilled |-> ExceedsBank(callee.destination), frame |-> callee.frame,
           stage |-> 1, operands |-> <<>>, name |-> "", iteration |-> 0])
      /\ UNCHANGED <<text, body_scanners, retired_cycle_count,
                     reported_error_count, arena_bytes, committed_values>>
  BY DEF EnterActivation, scanner_vars
<1>2. PICK n \in Nat : n = Len(activations)
  BY LenProperties DEF TypeOK
<1>3. PICK a \in Activation :
         /\ a.frame = callee.frame /\ a.operands = <<>> /\ a.name = "" /\ a.iteration = 0
         /\ activations' = Append(activations, a)
  <2> DEFINE d == callee.destination
             frame == callee.frame
             spilled == ExceedsBank(d)
             a == [form |-> "", destination |-> d, spilled |-> spilled, frame |-> frame,
                   stage |-> 1, operands |-> <<>>, name |-> "", iteration |-> 0]
  <2>1. d \in Nat /\ frame \in Frame /\ spilled \in BOOLEAN
    BY DEF TypeOK, Call, ExceedsBank
  <2>2. <<>> \in Seq(Double)
    BY EmptySeq
  <2>3. activations' = Append(activations, a)
    BY <1>1
  <2> HIDE DEF d, frame, spilled
  <2>4. a \in Activation
    BY <2>1, <2>2 DEF Activation
  <2>5. a.frame = callee.frame /\ a.operands = <<>> /\ a.name = "" /\ a.iteration = 0
    BY DEF frame
  <2> QED
    BY <2>3, <2>4, <2>5
<1>4. /\ Len(activations') = n + 1 /\ activations'[n + 1] = a
      /\ \A i \in 1..n : activations'[i] = activations[i]
  <2>1. activations \in Seq(Activation)
    BY DEF TypeOK
  <2>2. PICK s \in Seq(Activation) : s = activations
    BY <2>1
  <2>3. /\ Len(Append(s, a)) = Len(s) + 1
        /\ Append(s, a)[Len(s) + 1] = a
        /\ \A i \in 1..Len(s) : Append(s, a)[i] = s[i]
    BY PushTop
  <2> QED
    BY <1>2, <1>3, <2>2, <2>3
<1>5. Active' = a
  BY <1>4 DEF Active, Last
<1>6. Pending = n /\ Pending' = n
  <2>1. control = "evaluate" /\ control' = "dispatch"
    BY <1>1
  <2>2. (n + 1) - 1 = n
    OBVIOUS
  <2> QED
    BY <1>2, <1>4, <2>1, <2>2 DEF Pending, InActivation
<1>7. \A level : Left(atoms, level)' = Left(atoms, level)
  BY <1>1, NothingReadAnywhere
<1>8. Fitting'
  BY <1>1, <1>3, <1>5 DEF Fitting
<1>9. Outcome(atoms)' = Outcome(atoms)
  <2>1. PICK m \in Machine, frame \in Frame : m = Now(atoms, Zero) /\ frame = callee.frame
    BY NowType, ConstantTypes DEF TypeOK, Call
  <2>2. PICK depth \in Nat \ {0} : depth = MaximumEvaluationDepth - n
    <3>1. current_evaluation_depth = n
      BY <1>2 DEF Stacked
    <3>2. ~(n >= MaximumEvaluationDepth)
      BY <1>1, <3>1 DEF DepthReached
    <3> QED
      BY <3>2, EvaluatorAssumption
  <2>3. Evaluating[depth][<<m, frame>>] = Expression(Evaluating[depth - 1], m, frame)
    BY EvaluatingIs
  <2>4. Now(atoms, Zero)' = m
    BY <1>1, <1>7, <2>1 DEF Now, Running
  <2>5. MaximumEvaluationDepth - (n + 1) = depth - 1
    BY <2>2, EvaluatorAssumption
  <2>6. Outcome(atoms) = Evaluating[depth][<<m, frame>>]
    BY <1>1, <1>2, <2>1, <2>2 DEF Outcome, Inner
  <2>7. Outcome(atoms)' = Expression(Evaluating[depth - 1], m, frame)
    BY <1>1, <1>3, <1>4, <1>5, <2>1, <2>4, <2>5 DEF Outcome, Inner
  <2> QED
    BY <2>3, <2>6, <2>7
<1>10. ~HasFailed'
  BY <1>1 DEF HasFailed
<1>11. Len(Left(atoms, 0)') <= Len(Left(atoms, 0))
  BY <1>7, TextLeft
<1> QED
  BY <1>1, <1>2, <1>4, <1>6, <1>7, <1>8, <1>9, <1>10, <1>11, GoesOn DEF InEvaluation, InActivation

\* An expression that is left with a value returns it.
LEMMA LeaveActivationMeans ==
    ASSUME UInv, UInv', ~HasFailed, LeaveActivation,
           NEW atoms, Completes(atoms), Completes(atoms)', Understood(atoms)
    PROVE  Understood(atoms)'
<1> USE DEF UInv, IInv
<1>1. /\ control = "leave" /\ control' = "return" /\ activations' = Front(activations)
      /\ UNCHANGED <<text, body_scanners, result, retired_cycle_count,
                     reported_error_count, arena_bytes, committed_values>>
  BY DEF LeaveActivation, scanner_vars
<1>2. PICK n \in Nat \ {0} :
         /\ n = Len(activations) /\ Len(activations') = n - 1
         /\ \A i \in 1..(n - 1) : activations'[i] = activations[i]
  BY <1>1, PopTop DEF TypeOK, Stacked, InActivation
<1>3. Pending = n - 1 /\ Pending' = n - 1
  BY <1>1, <1>2 DEF Pending, InActivation
<1>4. \A level : Left(atoms, level)' = Left(atoms, level)
  BY <1>1, NothingReadAnywhere
<1>5. Fitting' /\ Outcome(atoms)' = Outcome(atoms)
  BY <1>1, <1>4 DEF Fitting, Outcome, Now, Running
<1>6. ~HasFailed'
  BY <1>1 DEF HasFailed
<1>7. Len(Left(atoms, 0)') <= Len(Left(atoms, 0))
  BY <1>4, TextLeft
<1> QED
  BY <1>1, <1>2, <1>3, <1>4, <1>5, <1>6, <1>7, GoesOn DEF InEvaluation, InActivation

-----------------------------------------------------------------------------
(* Bodies of templates.                                                     *)

\* A body is evaluated from its own text, and leaves that of its caller.
LEMMA BodyIs ==
    ASSUME NEW g, NEW template, NEW arguments,
           NEW atoms, NEW value, NEW cost, NEW arenas
    PROVE  Body(g, Running(atoms, value, cost, arenas), template, arguments)
              = Restored(g[<<Running(Templates[template].body, Zero, cost, arenas),
                             [template |-> template, arguments |-> arguments]>>], atoms)
<1>1. PICK m, body : m = Running(atoms, value, cost, arenas) /\ body = Templates[template].body
  OBVIOUS
<1>2. m.atoms = atoms
  BY <1>1, RunningIs
<1>3. Reading(m, body) = Running(body, value, cost, arenas)
  BY <1>1, RunningUpdates
<1>4. Yield(Reading(m, body), Zero) = Running(body, Zero, cost, arenas)
  BY <1>3, RunningUpdates
<1> QED
  BY <1>1, <1>2, <1>4 DEF Body

\* A scanner that starts on a body has all of it left.
LEMMA BodyLeft ==
    ASSUME TypeOK, NEW template \in DOMAIN Templates, NEW atoms,
           body_scanners' = Append(body_scanners, [template |-> template, position |-> 1]),
           UNCHANGED text
    PROVE  /\ Len(body_scanners') = Len(body_scanners) + 1
           /\ \A level \in 0..Len(body_scanners) : Left(atoms, level)' = Left(atoms, level)
           /\ Left(atoms, Len(body_scanners))' = Templates[template].body
<1> DEFINE S == [template : DOMAIN Templates, position : Nat \ {0}]
           e == [template |-> template, position |-> 1]
<1>1. PICK s \in Seq(S) : s = body_scanners
  BY DEF TypeOK
<1>2. e \in S /\ e.template = template /\ e.position = 1
  OBVIOUS
<1> HIDE DEF S, e
<1>3. /\ Len(Append(s, e)) = Len(s) + 1 /\ Append(s, e)[Len(s) + 1] = e
      /\ \A i \in 1..Len(s) : Append(s, e)[i] = s[i]
  BY <1>2, PushTop
<1>4. body_scanners' = Append(s, e)
  BY <1>1 DEF e
<1>5. PICK n \in Nat : n = Len(body_scanners)
  BY <1>1, LenProperties
<1>6. /\ Len(body_scanners') = n + 1 /\ body_scanners'[n + 1] = e
      /\ \A i \in 1..n : body_scanners'[i] = body_scanners[i]
  BY <1>1, <1>3, <1>4, <1>5
<1>7. ASSUME NEW level \in 0..n PROVE Left(atoms, level)' = Left(atoms, level)
  <2>1. level = 0 \/ level \in 1..n
    BY <1>7
  <2> QED
    BY <1>6, <2>1 DEF Left
<1>8. PICK body \in Seq(Atom) : body = Templates[template].body
  BY DeclarationAssumption
<1>9. Left(atoms, Len(body_scanners))' = SubSeq(body, 1, Len(body))
  <2>1. Len(body_scanners') = n + 1 /\ n + 1 # 0
    BY <1>6
  <2> QED
    BY <1>2, <1>6, <1>8, <2>1 DEF Left
<1>10. SubSeq(body, 1, Len(body)) = body
  BY SubSeqFull
<1> QED
  BY <1>5, <1>6, <1>7, <1>8, <1>9, <1>10

\* A template that is invoked: its body, in a frame of its own, then the text
\* around it.
LEMMA InvokeTemplateMeans ==
    ASSUME UInv, UInv', ~HasFailed, InvokeTemplate,
           NEW atoms, Completes(atoms), Completes(atoms)', Understood(atoms)
    PROVE  Understood(atoms)'
<1> USE DEF UInv, IInv
<1>1. /\ control = "form" /\ Active.form \in DOMAIN Templates /\ ArgumentsRead
      /\ body_scanners' = Append(body_scanners, [template |-> Active.form, position |-> 1])
      /\ callee'.frame = [template |-> Active.form, arguments |-> Active.operands]
      /\ control' = "evaluate"
      /\ UNCHANGED <<text, activations, retired_cycle_count,
                     reported_error_count, arena_bytes, committed_values>>
  BY DEF InvokeTemplate, Concluding, EnterBody, file_vars
<1>2. /\ Active \in Activation /\ activations # <<>>
      /\ Active = activations[Len(activations)]
      /\ Len(activations) \in Nat \ {0}
  BY <1>1, ConfiguredType, TopDestination
<1>3. PICK n \in Nat \ {0} : n = Len(activations)
  BY <1>2
<1>4. Pending = n - 1 /\ Pending' = n /\ Pending + 1 = n
  BY <1>1, <1>3 DEF Pending, InActivation
<1>5. PICK a \in Activation : a = Active /\ a = activations[n] /\ a = activations'[n]
  BY <1>1, <1>2, <1>3
<1>6. HasBody(a)
  BY <1>1, <1>5 DEF HasBody, ArgumentsRead
<1>7. a.form \in DOMAIN Templates /\ a.form \notin Forms
  BY <1>1, <1>5, DeclarationAssumption
<1>8. /\ Len(body_scanners') = Len(body_scanners) + 1
      /\ \A level \in 0..Len(body_scanners) : Left(atoms, level)' = Left(atoms, level)
      /\ Left(atoms, Len(body_scanners))' = Templates[a.form].body
  <2>1. PICK template \in DOMAIN Templates : template = Active.form
    BY <1>1
  <2>2. body_scanners' = Append(body_scanners, [template |-> template, position |-> 1])
    BY <1>1, <2>1
  <2> QED
    BY <1>1, <1>5, <2>1, <2>2, BodyLeft
<1>9. ASSUME Fitting
      PROVE  /\ Fitting'
             /\ Timely(a)
             /\ Outcome(atoms) = Resumed(Inner(n), a, Outcome(atoms)', Left(atoms, Len(body_scanners)))
  <2>1. PICK x : x = Outcome(atoms)'
    OBVIOUS
  <2>2. PICK left, cost, arenas, g, form :
           /\ left = Left(atoms, Len(body_scanners)) /\ cost = retired_cycle_count
           /\ arenas = arena_bytes /\ g = Inner(n) /\ form = a.form
    OBVIOUS
  <2>3. Now(atoms, Zero)' = Running(Templates[form].body, Zero, cost, arenas)
    BY <1>1, <1>8, <2>2 DEF Now
  <2>4. x = g[<<Running(Templates[form].body, Zero, cost, arenas),
                [template |-> form, arguments |-> a.operands]>>]
    BY <1>1, <1>3, <1>5, <2>1, <2>2, <2>3 DEF Outcome, Inner
  <2>5. Outcome(atoms) = Conclusion(g, Configured(atoms), form)
    BY <1>1, <1>3, <1>5, <1>9, <2>2, FormConcludes
  <2>6. Conclusion(g, Configured(atoms), form)
           = Body(g, Configured(atoms).machine, form, Configured(atoms).values)
    BY <1>7, <2>2 DEF Conclusion, Forms
  <2>7. Configured(atoms).machine = Running(left, Zero, cost, arenas)
        /\ Configured(atoms).values = a.operands
    BY <1>5, <2>2 DEF Configured, Now
  <2>8. Outcome(atoms) = Restored(x, left)
    BY <2>4, <2>5, <2>6, <2>7, BodyIs
  <2>9. Resumed(g, a, x, left) = Restored(x, left)
    BY <1>6, <1>7 DEF Resumed, Forms
  <2>10. Timely(a)
    BY <1>6, <1>7 DEF Timely, Forms
  <2>11. Fitting'
    BY <1>1 DEF Fitting
  <2> QED
    BY <2>1, <2>2, <2>8, <2>9, <2>10, <2>11
<1>10. ~HasFailed'
  BY <1>1 DEF HasFailed
<1>11. HasBody(activations'[Pending + 1])
  BY <1>4, <1>5, <1>6
<1> QED
  BY <1>1, <1>4, <1>5, <1>8, <1>9, <1>10, <1>11, GoesIn DEF InEvaluation, InActivation

\* The count of a Loop is a number of iterations, where the code compares
\* products and the meaning quotients.
LEMMA CountAccepted ==
    ASSUME NEW x \in Double
    PROVE  /\ Signed(x) >= 0 <=> (x.negative => IsZero(x))
           /\ x.magnitude < LoopCountCeiling * QuantaPerUnit <=>
                 x.magnitude \div QuantaPerUnit < LoopCountCeiling
<1>1. PICK m \in Nat : m = x.magnitude
  BY FormatAssumption DEF Double, NaNCode
<1>2. x.negative \in BOOLEAN
  BY DEF Double
<1>3. Signed(x) >= 0 <=> (x.negative => IsZero(x))
  BY <1>1, <1>2 DEF Signed, IsZero
<1>4. PICK q \in Nat \ {0}, c \in Nat : q = QuantaPerUnit /\ c = LoopCountCeiling
  BY FormatAssumption, EvaluatorAssumption
<1>5. PICK d \in Nat, r \in 0..(q - 1) : d = m \div q /\ r = m % q
  BY QuotientNat
<1>6. m = q * d + r
  BY <1>5
<1>7. m < c * q <=> d < c
  <2>1. ASSUME d < c PROVE m < c * q
    <3>1. PICK e \in Nat : c = d + 1 + e
      <4>1. c - d - 1 \in Nat /\ c = d + 1 + (c - d - 1)
        BY <2>1
      <4> QED
        BY <4>1
    <3>2. c * q = q * d + q + e * q
      BY <3>1
    <3>3. e * q \in Nat /\ q * d \in Nat
      BY ProductNat
    <3> QED
      BY <1>6, <3>2, <3>3
  <2>2. ASSUME ~(d < c) PROVE ~(m < c * q)
    <3>1. PICK e \in Nat : d = c + e
      <4>1. d - c \in Nat /\ d = c + (d - c)
        BY <2>2
      <4> QED
        BY <4>1
    <3>2. q * d = c * q + e * q
      BY <3>1
    <3>3. e * q \in Nat /\ c * q \in Nat
      BY ProductNat
    <3> QED
      BY <1>6, <3>2, <3>3
  <2> QED
    BY <2>1, <2>2
<1> QED
  BY <1>1, <1>3, <1>4, <1>5, <1>7

\* A loop whose arguments are read begins where the meaning does, or fails with it.
LEMMA BeginLoopMeans ==
    ASSUME UInv, UInv', ~HasFailed, BeginLoop,
           NEW atoms, Completes(atoms), Completes(atoms)', Understood(atoms)
    PROVE  Understood(atoms)'
<1> USE DEF UInv, IInv
<1>1. /\ control = "form" /\ Active.form = "Loop" /\ ArgumentsRead
      /\ IF /\ Active.name \in DOMAIN Templates
            /\ IsFinite(Active.operands[1]) /\ Signed(Active.operands[1]) >= 0
            /\ Active.operands[1].magnitude < LoopCountCeiling * QuantaPerUnit
         THEN control' = "iterate" /\ UNCHANGED <<result, reported_error_count>>
         ELSE control' = "leave" /\ result' = Zero /\ ReportError
      /\ UNCHANGED <<text, body_scanners, activations, retired_cycle_count,
                     arena_bytes, committed_values>>
  BY DEF BeginLoop, Concluding, scanner_vars, file_vars
<1>2. /\ Active \in Activation /\ activations # <<>> /\ Active.operands[1] \in Double
  BY <1>1, ConfiguredType, OperandsObtained
<1>3. PICK a \in Activation, x \in Double : a = Active /\ x = a.operands[1]
  BY <1>2
<1>4. a.operands # <<>>
  <2>1. WellFormed(a) /\ a.stage > 2
    <3>1. a.stage > 5 /\ a.stage \in Nat
      BY <1>1, <1>3, OperandsObtained DEF Activation
    <3> QED
      BY <1>1, <1>3, <3>1, ActiveFormed DEF InActivation
  <2>2. Len(a.operands) >= 1
    BY <1>1, <1>3, <2>1 DEF WellFormed
  <2>3. Len(a.operands) # 0
    BY <2>2
  <2> QED
    BY <2>3, EmptySeq
<1>5. PICK g, limit, template :
         /\ g = Inner(Len(activations)) /\ limit = IterationsOf(a) /\ template = a.name
  OBVIOUS
<1>6. limit \in Nat
  BY <1>4, <1>5, IterationsType
<1> DEFINE Accepted == /\ template \in DOMAIN Templates
                       /\ IsFinite(x) /\ (x.negative => IsZero(x)) /\ limit < LoopCountCeiling
<1>7. Accepted <=> /\ Active.name \in DOMAIN Templates
                   /\ IsFinite(Active.operands[1]) /\ Signed(Active.operands[1]) >= 0
                   /\ Active.operands[1].magnitude < LoopCountCeiling * QuantaPerUnit
  BY <1>3, <1>5, CountAccepted DEF IterationsOf
<1>8. ASSUME Fitting
      PROVE  Outcome(atoms) = IF Accepted THEN Repeating(g, template, limit)[limit][Now(atoms, Zero)]
                                          ELSE Stopped
  <2>1. Outcome(atoms) = Conclusion(g, Configured(atoms), "Loop")
    BY <1>1, <1>5, <1>8, FormConcludes
  <2>2. /\ Configured(atoms).machine = Now(atoms, Zero)
        /\ Configured(atoms).values = a.operands /\ Configured(atoms).name = template
    BY <1>3, <1>5 DEF Configured
  <2>3. Failed(Now(atoms, Zero)) = Stopped
    BY NowType, ConstantTypes
  <2> QED
    BY <1>3, <1>5, <2>1, <2>2, <2>3 DEF Conclusion, PrimitiveOperations, IterationsOf
<1>9. CASE Accepted
  <2>1. control' = "iterate" /\ UNCHANGED <<result, reported_error_count>>
    BY <1>1, <1>7, <1>9
  <2>2. \A level : Left(atoms, level)' = Left(atoms, level)
    BY <1>1, NothingReadAnywhere
  <2>3. ASSUME Fitting PROVE Fitting' /\ Outcome(atoms)' = Outcome(atoms)
    <3>1. a.iteration = 0 /\ result = Zero
      BY <1>1, <1>3, <1>4, <2>3 DEF Fitting
    <3>2. Active' = a
      BY <1>1, <1>3 DEF Active
    <3>3. Now(atoms, result)' = Now(atoms, Zero)
      BY <1>1, <2>1, <2>2, <3>1 DEF Now, Running
    <3>4. Outcome(atoms)' = Repeating(g, template, limit)[limit - 0][Now(atoms, Zero)]
      BY <1>1, <1>5, <2>1, <3>1, <3>2, <3>3 DEF Outcome, Inner, IterationsOf
    <3>5. limit - 0 = limit
      BY <1>6
    <3>6. Fitting'
      BY <1>5, <1>6, <2>1, <3>1, <3>2 DEF Fitting, IterationsOf
    <3> QED
      BY <1>8, <1>9, <2>3, <3>4, <3>5, <3>6
  <2>4. ~HasFailed'
    BY <2>1 DEF HasFailed
  <2>5. /\ Pending' = Pending
        /\ \A i \in 1..Pending : activations'[i] = activations[i]
    BY <1>1, <1>2, <2>1, TopAtWork DEF InActivation
  <2>6. Len(Left(atoms, 0)') <= Len(Left(atoms, 0))
    BY <2>2, TextLeft
  <2> QED
    BY <1>1, <2>1, <2>2, <2>3, <2>4, <2>5, <2>6, GoesOn DEF InEvaluation, InActivation
<1>10. CASE ~Accepted
  <2>1. HasFailed'
    BY <1>1, <1>7, <1>10, NoneReported DEF ReportError, HasFailed
  <2> QED
    BY <1>1, <1>8, <1>10, <2>1, GoesWrong DEF InEvaluation, InActivation
<1> QED
  BY <1>9, <1>10

\* An iteration of a loop.
LEMMA IterateLoopMeans ==
    ASSUME UInv, UInv', ~HasFailed, IterateLoop,
           NEW atoms, Completes(atoms), Completes(atoms)', Understood(atoms)
    PROVE  Understood(atoms)'
<1> USE DEF UInv, IInv
<1>1. /\ control = "iterate" /\ Active.iteration < IterationLimit
      /\ body_scanners' = Append(body_scanners, [template |-> Active.name, position |-> 1])
      /\ callee'.frame = [template |-> Active.name,
                          arguments |-> IndexArguments(Active.name, Active.iteration)]
      /\ control' = "evaluate"
      /\ UpdateActive([Active EXCEPT !.iteration = @ + 1])
      /\ UNCHANGED <<text, retired_cycle_count, result,
                     reported_error_count, arena_bytes, committed_values>>
  BY DEF IterateLoop, EnterBody, file_vars, IndexArguments
<1>2. /\ activations # <<>> /\ Active \in Activation
      /\ Active = activations[Len(activations)]
      /\ Len(activations) \in Nat \ {0}
  BY <1>1, ActiveFormed, TopDestination DEF InActivation
<1>3. PICK n \in Nat \ {0} : n = Len(activations)
  BY <1>2
<1>4. PICK a \in Activation : a = Active /\ a = activations[n]
  BY <1>2, <1>3
<1>5. a.form = "Loop" /\ a.stage > 5 /\ a.name \in DOMAIN Templates
  BY <1>1, <1>4 DEF Formed
<1>6. PICK b \in Activation : b = [a EXCEPT !.iteration = @ + 1]
  BY IterationType
<1>7. /\ b.iteration = a.iteration + 1 /\ b.form = a.form /\ b.name = a.name
      /\ b.stage = a.stage /\ b.operands = a.operands /\ a.iteration \in Nat
  BY <1>6 DEF Activation
<1>8. /\ Len(activations') = n
      /\ \A i \in 1..n : i < n => activations'[i] = activations[i]
      /\ activations'[n] = b
  BY <1>1, <1>2, <1>3, <1>4, <1>6, TopUpdated
<1>9. Pending = n - 1 /\ Pending' = n /\ Pending + 1 = n
  BY <1>1, <1>3, <1>8 DEF Pending, InActivation
<1>10. HasBody(b)
  <2>1. Len(Steps(b.form)) = 5
    BY <1>5, <1>7, StepCounts, Zenon
  <2> QED
    BY <1>5, <1>7, <2>1 DEF HasBody
<1>11. /\ Len(body_scanners') = Len(body_scanners) + 1
       /\ \A level \in 0..Len(body_scanners) : Left(atoms, level)' = Left(atoms, level)
       /\ Left(atoms, Len(body_scanners))' = Templates[a.name].body
  <2>1. PICK template \in DOMAIN Templates : template = Active.name
    BY <1>4, <1>5
  <2>2. body_scanners' = Append(body_scanners, [template |-> template, position |-> 1])
    BY <1>1, <2>1
  <2> QED
    BY <1>1, <1>4, <2>1, <2>2, BodyLeft
<1>12. PICK limit \in Nat : limit = IterationsOf(a) /\ limit = IterationsOf(b)
  <2>1. a.operands # <<>>
    <3>1. WellFormed(a)
      BY <1>1, <1>4, ActiveFormed DEF InActivation
    <3>2. a.stage > 2
      <4>1. PICK s \in Nat : s = a.stage
        BY DEF Activation
      <4> QED
        BY <1>5, <4>1
    <3>3. Len(a.operands) >= 1
      BY <1>5, <3>1, <3>2 DEF WellFormed
    <3>4. Len(a.operands) # 0
      BY <3>3
    <3> QED
      BY <3>4, EmptySeq
  <2> QED
    BY <1>7, <2>1, IterationsType DEF IterationsOf
<1>13. a.iteration < limit
  BY <1>1, <1>4, <1>12 DEF IterationLimit, IterationsOf
<1>14. PICK x : x = Outcome(atoms)'
  OBVIOUS
<1>15. PICK left, cost, arenas, g, template, value :
         /\ left = Left(atoms, Len(body_scanners)) /\ cost = retired_cycle_count
         /\ arenas = arena_bytes /\ g = Inner(n) /\ template = a.name /\ value = result
  OBVIOUS
<1>16. Outcome(atoms) = Resumed(g, b, x, left)
  <2>1. Now(atoms, Zero)' = Running(Templates[template].body, Zero, cost, arenas)
    BY <1>1, <1>11, <1>15 DEF Now
  <2>2. x = g[<<Running(Templates[template].body, Zero, cost, arenas),
                [template |-> template, arguments |-> IndexArguments(template, a.iteration)]>>]
    BY <1>1, <1>4, <1>8, <1>14, <1>15, <2>1 DEF Outcome, Inner
  <2>3. PICK m \in Machine : m = Now(atoms, result) /\ m = Running(left, value, cost, arenas)
    BY <1>15, NowType DEF TypeOK, Now
  <2>4. ~m.failed
    BY <2>3, RunningIs
  <2>5. PICK i \in Nat \ {0} : i = limit - a.iteration
    BY <1>7, <1>13
  <2>6. Outcome(atoms) = Repeating(g, template, limit)[i][m]
    BY <1>1, <1>3, <1>4, <1>12, <1>15, <2>3, <2>5 DEF Outcome
  <2>7. Repeating(g, template, limit)[i][m] =
           Repeating(g, template, limit)[i - 1]
              [Body(g, m, template, IndexArguments(template, limit - i))]
    BY <2>4, RepeatingIs
  <2>8. limit - i = a.iteration /\ i - 1 = limit - b.iteration
    BY <1>7, <2>5
  <2>9. Body(g, m, template, IndexArguments(template, a.iteration)) = Restored(x, left)
    BY <2>2, <2>3, BodyIs
  <2>10. Outcome(atoms) = Repeating(g, template, limit)[limit - b.iteration][Restored(x, left)]
    BY <2>6, <2>7, <2>8, <2>9
  <2> QED
    BY <1>5, <1>7, <1>10, <1>12, <1>15, <2>10 DEF Resumed
<1>17. Timely(b)
  BY <1>5, <1>7, <1>10, <1>12, <1>13 DEF Timely
<1>18. Fitting' /\ ~HasFailed'
  BY <1>1 DEF Fitting, HasFailed
<1> QED
  BY <1>1, <1>8, <1>9, <1>10, <1>11, <1>14, <1>15, <1>16, <1>17, <1>18, GoesIn
     DEF InEvaluation, InActivation

\* A loop that has no iterations left comes to the value of the last.
LEMMA EndLoopMeans ==
    ASSUME UInv, UInv', ~HasFailed, EndLoop,
           NEW atoms, Completes(atoms), Completes(atoms)', Understood(atoms)
    PROVE  Understood(atoms)'
<1> USE DEF UInv, IInv
<1>1. /\ control = "iterate" /\ Active.iteration >= IterationLimit
      /\ control' = "leave" /\ result' = result
      /\ UNCHANGED <<text, body_scanners, activations, retired_cycle_count,
                     reported_error_count, arena_bytes, committed_values>>
  BY DEF EndLoop, Publish, scanner_vars
<1>2. Active \in Activation /\ activations # <<>>
  BY <1>1, ActiveFormed DEF InActivation
<1>3. PICK a \in Activation : a = Active
  BY <1>2
<1>4. \A level : Left(atoms, level)' = Left(atoms, level)
  BY <1>1, NothingReadAnywhere
<1>5. ASSUME Fitting PROVE Fitting' /\ Outcome(atoms)' = Outcome(atoms)
  <2>1. PICK limit, i : limit = IterationsOf(a) /\ i = a.iteration /\ i \in Nat
    BY DEF Activation
  <2>2. PICK m \in Machine : m = Now(atoms, result)
    BY NowType DEF TypeOK
  <2>3. a.operands # <<>>
    <3>1. WellFormed(a) /\ a.form = "Loop" /\ a.stage > 5
      BY <1>1, <1>3, ActiveFormed DEF InActivation, Formed
    <3>2. a.stage > 2
      <4>1. PICK s \in Nat : s = a.stage
        BY DEF Activation
      <4> QED
        BY <3>1, <4>1
    <3>3. Len(a.operands) >= 1
      BY <3>1, <3>2 DEF WellFormed
    <3>4. Len(a.operands) # 0
      BY <3>3
    <3> QED
      BY <3>4, EmptySeq
  <2>4. limit \in Nat
    BY <2>1, <2>3, IterationsType
  <2>5. limit - i = 0
    BY <1>1, <1>3, <1>5, <2>1, <2>4 DEF Fitting, IterationLimit, IterationsOf
  <2>6. PICK g, template : g = Inner(Len(activations)) /\ template = a.name
    OBVIOUS
  <2>7. Outcome(atoms) = Repeating(g, template, limit)[0][m]
    BY <1>1, <1>3, <2>1, <2>2, <2>5, <2>6 DEF Outcome
  <2>8. Repeating(g, template, limit)[0][m] = m
    <3>1. PICK z \in Nat : z = 0
      OBVIOUS
    <3> QED
      BY <3>1, RepeatingIs
  <2>9. Outcome(atoms)' = m
    BY <1>1, <1>4, <2>2 DEF Outcome, Now, Running
  <2>10. Fitting'
    BY <1>1 DEF Fitting
  <2> QED
    BY <2>7, <2>8, <2>9, <2>10
<1>6. ~HasFailed'
  BY <1>1 DEF HasFailed
<1>7. /\ Pending' = Pending
      /\ \A i \in 1..Pending : activations'[i] = activations[i]
  BY <1>1, <1>2, TopAtWork DEF InActivation
<1>8. Len(Left(atoms, 0)') <= Len(Left(atoms, 0))
  BY <1>4, TextLeft
<1> QED
  BY <1>1, <1>4, <1>5, <1>6, <1>7, <1>8, GoesOn DEF InEvaluation, InActivation

\* A scanner runs on a body while an activation waits for it.
LEMMA ReturnBodyMeans ==
    ASSUME UInv, UInv', ~HasFailed, ReturnBody,
           NEW atoms, Completes(atoms), Completes(atoms)', Understood(atoms)
    PROVE  Understood(atoms)'
<1> USE DEF UInv, IInv
<1>1. /\ control = "return" /\ activations # <<>> /\ ArgumentsRead
      /\ body_scanners' = Front(body_scanners)
      /\ control' = IF Active.form = "Loop" THEN "iterate" ELSE "leave"
      /\ UNCHANGED <<text, activations, result, retired_cycle_count,
                     reported_error_count, arena_bytes, committed_values>>
  BY DEF ReturnBody, file_vars
<1>2. /\ Active \in Activation
      /\ Active = activations[Len(activations)]
      /\ Len(activations) \in Nat \ {0}
  BY <1>1, TopDestination
<1>3. PICK n \in Nat \ {0} : n = Len(activations)
  BY <1>2
<1>4. PICK a \in Activation : a = Active /\ a = activations[n]
  BY <1>2, <1>3
<1>5. HasBody(a)
  BY <1>1, <1>4 DEF HasBody, ArgumentsRead
<1>6. control' \in {"iterate", "leave"}
  BY <1>1
<1>7. Pending = n /\ Pending' = n - 1
  BY <1>1, <1>3, <1>6 DEF Pending, InActivation
<1>8. body_scanners # <<>>
  <2>1. n \in InBody
    BY <1>1, <1>3, <1>4, <1>5 DEF InBody, Suspended
  <2>2. Cardinality(InBody) # 0
    BY <2>1, BodiesFinite, FS_EmptySet
  <2> QED
    BY <2>2, EmptySeq DEF Bodies
<1>9. PICK s \in Nat :
         /\ Len(body_scanners) = s + 1 /\ Len(body_scanners') = s
         /\ \A i \in 1..s : body_scanners'[i] = body_scanners[i]
  <2> DEFINE S == [template : DOMAIN Templates, position : Nat \ {0}]
  <2>1. PICK t \in Seq(S) : t = body_scanners
    BY DEF TypeOK
  <2> HIDE DEF S
  <2>2. /\ Len(t) \in Nat \ {0} /\ Len(Front(t)) = Len(t) - 1
        /\ \A i \in 1..(Len(t) - 1) : Front(t)[i] = t[i]
    BY <1>8, <2>1, PopTop
  <2>3. PICK s \in Nat : s = Len(t) - 1
    BY <2>2
  <2> QED
    BY <1>1, <2>1, <2>2, <2>3
<1>10. ASSUME NEW level \in 0..s PROVE Left(atoms, level)' = Left(atoms, level)
  <2>1. level = 0 \/ level \in 1..s
    BY <1>10
  <2> QED
    BY <1>1, <1>9, <2>1 DEF Left
<1>11. PICK left, value, cost, arenas, now, g :
         /\ left = Left(atoms, s) /\ value = result /\ cost = retired_cycle_count
         /\ arenas = arena_bytes /\ now = Now(atoms, result) /\ g = Inner(n)
  OBVIOUS
<1>12. Restored(now, left) = Now(atoms, result)'
  <2>1. PICK l : now = Running(l, value, cost, arenas)
    BY <1>11 DEF Now
  <2>2. Restored(now, left) = Running(left, value, cost, arenas)
    BY <2>1, RunningUpdates DEF Restored
  <2>3. Now(atoms, result)' = Running(left, value, cost, arenas)
    <3>1. s \in 0..s
      OBVIOUS
    <3> QED
      BY <1>1, <1>9, <1>10, <1>11, <3>1 DEF Now
  <2> QED
    BY <2>2, <2>3
<1>13. Outcome(atoms) = now
  BY <1>1, <1>11 DEF Outcome
<1>14. Active' = a
  BY <1>1, <1>4 DEF Active
<1>15. ASSUME Timely(a)
       PROVE  Fitting' /\ Outcome(atoms)' = Resumed(g, a, Outcome(atoms), left)
  <2>1. CASE a.form = "Loop"
    <3>1. control' = "iterate"
      BY <1>1, <1>4, <2>1
    <3>2. Fitting'
      BY <1>5, <1>14, <1>15, <2>1, <3>1 DEF Fitting, Timely
    <3>3. Outcome(atoms)' = Repeating(g, a.name, IterationsOf(a))
                               [IterationsOf(a) - a.iteration][Now(atoms, result)']
      BY <1>1, <1>3, <1>11, <1>14, <3>1 DEF Outcome, Inner
    <3>4. Resumed(g, a, now, left) = Repeating(g, a.name, IterationsOf(a))
                               [IterationsOf(a) - a.iteration][Restored(now, left)]
      BY <1>5, <2>1 DEF Resumed
    <3> QED
      BY <1>12, <1>13, <3>2, <3>3, <3>4
  <2>2. CASE a.form # "Loop"
    <3>1. control' = "leave"
      BY <1>1, <1>4, <2>2
    <3>2. Outcome(atoms)' = Now(atoms, result)'
      BY <3>1 DEF Outcome
    <3>3. Fitting'
      BY <3>1 DEF Fitting
    <3>4. Resumed(g, a, now, left) = Restored(now, left)
      BY <1>5, <2>2 DEF Resumed
    <3> QED
      BY <1>12, <1>13, <3>2, <3>3, <3>4
  <2> QED
    BY <2>1, <2>2
<1>16. ~HasFailed'
  BY <1>1 DEF HasFailed
<1>17. Outcome(atoms)' = Resumed(g, a, Outcome(atoms), left) =>
         Outcome(atoms)' = Resumed(Inner(Pending), activations[Pending], Outcome(atoms),
                                   Left(atoms, Len(body_scanners')))
  BY <1>4, <1>7, <1>9, <1>11
<1>18. \A level \in 0..Len(body_scanners) :
          level < Len(body_scanners') => Left(atoms, level)' = Left(atoms, level)
  BY <1>9, <1>10
<1>19. \A i \in 1..(Pending - 1) : activations'[i] = activations[i]
  BY <1>1
<1>20. Len(body_scanners)
          = Len(body_scanners') + IF HasBody(activations[Pending]) THEN 1 ELSE 0
  BY <1>4, <1>5, <1>7, <1>9
<1>21. control \in InEvaluation /\ control' \in InEvaluation
  BY <1>1, <1>6 DEF InEvaluation, InActivation
<1> QED
  BY <1>1, <1>4, <1>7, <1>15, <1>16, <1>17, <1>18, <1>19, <1>20, <1>21, GoesOut

-----------------------------------------------------------------------------
(* Values. *)

\* A handler that returns a value has come to that value.
LEMMA LeavesWith ==
    ASSUME UInv, UInv', ~HasFailed, control \in InActivation, control' = "leave",
           UNCHANGED <<activations, reported_error_count, committed_values>>,
           NEW atoms, Completes(atoms), Completes(atoms)', Understood(atoms),
           Len(body_scanners') = Len(body_scanners),
           \A level \in 0..Len(body_scanners) :
              level < Len(body_scanners) => Left(atoms, level)' = Left(atoms, level),
           Len(Left(atoms, 0)') <= Len(Left(atoms, 0)),
           NEW left, left = Left(atoms, Len(body_scanners))',
           Fitting => Outcome(atoms) = Running(left, result', retired_cycle_count', arena_bytes')
    PROVE  Understood(atoms)'
<1> USE DEF UInv, IInv
<1>1. activations # <<>>
  BY DEF Stacked
<1>2. /\ Pending' = Pending
      /\ \A i \in 1..Pending : activations'[i] = activations[i]
  BY <1>1, TopAtWork DEF InActivation
<1>3. ~HasFailed' /\ Fitting'
  BY DEF HasFailed, Fitting
<1>4. Outcome(atoms)' = Running(left, result', retired_cycle_count', arena_bytes')
  BY DEF Outcome, Now
<1> QED
  BY <1>2, <1>3, <1>4, GoesOn DEF InEvaluation, InActivation

\* The atom read decides what the expression is, and what it means.
LEMMA DispatchMeans ==
    ASSUME UInv, UInv', ~HasFailed, Dispatch,
           NEW atoms, Completes(atoms), Completes(atoms)', Understood(atoms)
    PROVE  Understood(atoms)'
<1> USE DEF UInv, IInv
<1>1. PICK atom \in NextAtoms :
         /\ control = "dispatch" /\ Consume(atom)
         /\ \/ DispatchLiteral(atom) \/ DispatchForm(atom) \/ DispatchParameter(atom)
            \/ DispatchIdentity(atom) \/ DispatchNothing(atom)
         /\ UNCHANGED <<committed_values, arena_bytes, retired_cycle_count>>
  BY DEF Dispatch
<1>2. /\ Len(body_scanners') = Len(body_scanners)
      /\ \A level \in 0..Len(body_scanners) :
            level < Len(body_scanners) => Left(atoms, level)' = Left(atoms, level)
      /\ Len(Left(atoms, 0)') <= Len(Left(atoms, 0))
  BY <1>1, AtomTaken
<1>3. /\ activations # <<>> /\ Active \in Activation /\ Active.stage = 1 /\ Active.form = ""
  BY <1>1, ActiveFormed DEF InActivation, Formed
<1>4. PICK m, rest, g, frame, name :
         /\ m = Now(atoms, Zero) /\ rest = Now(atoms, Zero)' /\ g = Inner(Len(activations))
         /\ frame = Active.frame /\ name = atom.name
  OBVIOUS
<1>5. NextOf(m) = atom /\ Rest(m) = rest
  BY <1>1, <1>4, AtomRead
<1>6. Failed(m) = Stopped
  BY <1>4, NowType, ConstantTypes
<1>7. PICK left, cost, arenas :
         /\ left = Left(atoms, Len(body_scanners))' /\ cost = retired_cycle_count'
         /\ arenas = arena_bytes'
  OBVIOUS
<1>8. \A value : Yield(rest, value) = Running(left, value, cost, arenas)
  <2>1. rest = Running(left, Zero, cost, arenas)
    BY <1>4, <1>7 DEF Now
  <2> QED
    BY <2>1, RunningUpdates
<1>9. PICK bound : bound = BoundParameters(name)
  OBVIOUS
<1>10. Outcome(atoms) = Expression(g, m, frame)
  BY <1>1, <1>4 DEF Outcome
<1>11. bound = {i \in 1..Len(frame.arguments) : Templates[frame.template].parameters[i] = name}
  BY <1>4, <1>9 DEF BoundParameters
<1>12. /\ atom.kind = "NUMERIC_LITERAL" =>
             Expression(g, m, frame) = IF IsNaN(atom.value) THEN Stopped ELSE Yield(rest, atom.value)
       /\ atom.kind # "NUMERIC_LITERAL" /\ atom.kind # "IDENTIFIER" =>
             Expression(g, m, frame) = Stopped
       /\ atom.kind = "IDENTIFIER" =>
             Expression(g, m, frame) =
                IF name \in Forms THEN FormMeaning(g, rest, name, frame)
                ELSE IF bound # {} THEN Yield(rest, frame.arguments[Min(bound)])
                ELSE IF name \in DOMAIN Templates THEN FormMeaning(g, rest, name, frame)
                ELSE IF name \in DOMAIN Identities THEN Yield(rest, Identities[name])
                ELSE Stopped
  BY <1>4, <1>5, <1>6, <1>11 DEF Expression
<1>13. ASSUME NEW value, Publish(value), UNCHANGED <<activations, reported_error_count>>,
              Expression(g, m, frame) = Yield(rest, value)
       PROVE  Understood(atoms)'
  <2>1. control' = "leave" /\ result' = value
    BY <1>13 DEF Publish
  <2>2. Outcome(atoms) = Running(left, result', retired_cycle_count', arena_bytes')
    BY <1>7, <1>8, <1>10, <1>13, <2>1
  <2> QED
    BY <1>1, <1>2, <1>7, <1>13, <2>1, <2>2, LeavesWith DEF InActivation
<1>14. ASSUME ReportError, Expression(g, m, frame) = Stopped
       PROVE  Understood(atoms)'
  <2>1. HasFailed'
    BY <1>14, NoneReported DEF ReportError, HasFailed
  <2> QED
    BY <1>1, <1>10, <1>14, <2>1, GoesWrong DEF InEvaluation, InActivation
<1>15. CASE DispatchLiteral(atom)
  BY <1>12, <1>13, <1>14, <1>15 DEF DispatchLiteral
<1>16. CASE DispatchNothing(atom)
  <2>1. Expression(g, m, frame) = Stopped
    BY <1>4, <1>9, <1>12, <1>16 DEF DispatchNothing
  <2> QED
    BY <1>14, <1>16, <2>1 DEF DispatchNothing
<1>17. CASE DispatchIdentity(atom)
  <2>1. Expression(g, m, frame) = Yield(rest, Identities[name])
    BY <1>4, <1>9, <1>12, <1>17 DEF DispatchIdentity
  <2> QED
    BY <1>4, <1>13, <1>17, <2>1 DEF DispatchIdentity
<1>18. CASE DispatchParameter(atom)
  <2>1. PICK first \in bound :
           /\ \A i \in bound : first <= i
           /\ Publish(frame.arguments[first])
    BY <1>4, <1>9, <1>18 DEF DispatchParameter
  <2>2. Min(bound) = first
    <3>1. bound \subseteq Int
      BY <1>11
    <3>2. ASSUME NEW x \in bound, \A y \in bound : x <= y PROVE x = first
      BY <2>1, <3>1, <3>2
    <3> QED
      BY <2>1, <3>2 DEF Min
  <2>3. Expression(g, m, frame) = Yield(rest, frame.arguments[first])
    <3>1. atom.kind = "IDENTIFIER" /\ name \notin Forms /\ bound # {}
      BY <1>4, <1>18, <2>1 DEF DispatchParameter
    <3>2. Expression(g, m, frame) = Yield(rest, frame.arguments[Min(bound)])
      BY <1>12, <3>1
    <3> QED
      BY <2>2, <3>2
  <2> QED
    BY <1>13, <1>18, <2>1, <2>3 DEF DispatchParameter
<1>19. CASE DispatchForm(atom)
  <2>1. /\ UpdateActive([Active EXCEPT !.form = name]) /\ control' = "form"
        /\ UNCHANGED <<result, reported_error_count>>
        /\ Expression(g, m, frame) = FormMeaning(g, rest, name, frame)
        /\ name \in Dispatchable
    BY <1>4, <1>9, <1>12, <1>19 DEF DispatchForm, Dispatchable
  <2>2. /\ Len(activations') = Len(activations)
        /\ Active' = [Active EXCEPT !.form = name]
        /\ \A i \in 1..Len(activations) :
              i < Len(activations) => activations'[i] = activations[i]
    BY <1>3, <2>1, TopUpdated
  <2>3. /\ Active'.form = name /\ Active'.frame = frame /\ Active'.stage = 1
        /\ Active'.operands = Active.operands /\ Active'.name = Active.name
        /\ Active'.iteration = Active.iteration
    BY <1>3, <1>4, <2>2 DEF Activation
  <2>4. /\ Pending' = Pending
        /\ \A i \in 1..Pending : activations'[i] = activations[i]
    BY <1>1, <1>3, <2>1, <2>2, TopAtWork DEF InActivation
  <2>5. PICK l \in Nat : l = Len(Steps(name))
    BY <2>1, StepsLength
  <2>6. Len(ArgumentList(name)) = l
    BY <2>1, <2>5, ListIsSteps
  <2>7. ASSUME Fitting PROVE Fitting' /\ Outcome(atoms)' = Outcome(atoms)
    <3>1. Active.operands = <<>> /\ Active.name = "" /\ Active.iteration = 0
      BY <1>1, <2>7 DEF Fitting
    <3>2. Outcome(atoms)' = Finishing(g, name, frame)[l + 1 - 1]
                               [[machine |-> rest, values |-> <<>>, name |-> ""]]
      BY <1>4, <2>1, <2>2, <2>3, <2>5, <3>1 DEF Outcome, Configured, Inner
    <3>3. l + 1 - 1 = l
      OBVIOUS
    <3>4. Outcome(atoms) = Finishing(g, name, frame)[l]
                               [[machine |-> rest, values |-> <<>>, name |-> ""]]
      BY <1>10, <2>1, <2>6 DEF FormMeaning
    <3>5. Fitting'
      <4>1. control' = "form"
        BY <2>1
      <4>2. Active'.stage <= Len(Steps(Active'.form)) + 1
        BY <2>3, <2>5
      <4>3. Active'.operands = <<>> /\ Active'.iteration = 0
        BY <2>3, <3>1
      <4> QED
        BY <4>1, <4>2, <4>3 DEF Fitting
    <3> QED
      BY <3>2, <3>3, <3>4, <3>5
  <2>8. ~HasFailed'
    BY <2>1 DEF HasFailed
  <2> QED
    BY <1>1, <1>2, <2>1, <2>4, <2>7, <2>8, GoesOn DEF InEvaluation, InActivation
<1> QED
  BY <1>1, <1>15, <1>16, <1>17, <1>18, <1>19

\* A reduction or a selection has the value and the cost of the meaning.
LEMMA ApplyPrimitiveMeans ==
    ASSUME UInv, UInv', ~HasFailed, ApplyPrimitive \/ SelectBranch,
           NEW atoms, Completes(atoms), Completes(atoms)', Understood(atoms)
    PROVE  Understood(atoms)'
<1> USE DEF UInv, IInv
<1>1. PICK value, latency :
         /\ control = "form" /\ ArgumentsRead /\ control' = "leave" /\ result' = value
         /\ retired_cycle_count' = retired_cycle_count + latency
         /\ \/ /\ Active.form \in PrimitiveOperations
               /\ value = llfpl_primitive_apply(Active.form, Active.operands[1], Active.operands[2])
               /\ latency = llfpl_primitive_nominal_latency(Active.form)
            \/ /\ Active.form = "Branch"
               /\ value = BranchSelection(Active.operands[1], Active.operands[2],
                                          Active.operands[3])
               /\ latency = BRANCH_COST
         /\ UNCHANGED <<text, body_scanners, activations, reported_error_count, arena_bytes,
                        committed_values>>
  BY DEF ApplyPrimitive, SelectBranch, Concluding, Publish, scanner_vars
<1>2. \A level : Left(atoms, level)' = Left(atoms, level)
  BY <1>1, NothingReadAnywhere
<1>3. PICK left, cost, arenas, form, g :
         /\ left = Left(atoms, Len(body_scanners)) /\ cost = retired_cycle_count
         /\ arenas = arena_bytes /\ form = Active.form /\ g = Inner(Len(activations))
  OBVIOUS
<1>4. ASSUME Fitting PROVE Outcome(atoms) = Running(left, value, cost + latency, arenas)
  <2>1. Outcome(atoms) = Conclusion(g, Configured(atoms), form)
    BY <1>1, <1>3, <1>4, FormConcludes
  <2>2. Configured(atoms).machine = Running(left, Zero, cost, arenas)
        /\ Configured(atoms).values = Active.operands
    BY <1>3 DEF Configured, Now
  <2>3. Conclusion(g, Configured(atoms), form)
           = Charge(Yield(Running(left, Zero, cost, arenas), value), latency)
    BY <1>1, <1>3, <2>2 DEF Conclusion, PrimitiveOperations
  <2>4. Charge(Yield(Running(left, Zero, cost, arenas), value), latency)
           = Running(left, value, cost + latency, arenas)
    BY RunningUpdates
  <2> QED
    BY <2>1, <2>3, <2>4
<1>5. Fitting => Outcome(atoms) = Running(left, result', retired_cycle_count', arena_bytes')
  BY <1>1, <1>3, <1>4
<1>6. left = Left(atoms, Len(body_scanners))'
  BY <1>1, <1>2, <1>3
<1>7. Len(Left(atoms, 0)') <= Len(Left(atoms, 0))
  BY <1>2, TextLeft
<1> QED
  BY <1>1, <1>2, <1>5, <1>6, <1>7, LeavesWith DEF InActivation

-----------------------------------------------------------------------------
(* Arena accesses. *)

\* The changes a store makes, to a machine and to the bytes of an arena: as the
\* code makes it, one byte after the other, and as the meaning has it.
WithArena(m, arena, bytes) == [m EXCEPT !.arenas[arena] = bytes]
Stored(bytes, offset, encoding) ==
    [[bytes EXCEPT ![offset + 1] = encoding[1]] EXCEPT ![offset + 2] = encoding[2]]
Changed(bytes, offset, encoding) ==
    [b \in DOMAIN bytes |->
        IF b \in {offset + 1, offset + 2} THEN encoding[b - offset] ELSE bytes[b]]

\* A machine whose arena changes.
LEMMA ArenaUpdate ==
    ASSUME NEW atoms, NEW value, NEW cost, NEW arenas, NEW arena, NEW bytes
    PROVE  WithArena(Running(atoms, value, cost, arenas), arena, bytes)
              = Running(atoms, value, cost, [arenas EXCEPT ![arena] = bytes])
<1>1. PICK failed : failed = FALSE
  OBVIOUS
<1>2. PICK m : m = [atoms |-> atoms, failed |-> failed, value |-> value,
                    cost |-> cost, arenas |-> arenas]
  OBVIOUS
<1>3. \A r : Running(atoms, value, cost, r)
                = [atoms |-> atoms, failed |-> failed, value |-> value,
                   cost |-> cost, arenas |-> r]
  BY <1>1 DEF Running
<1>4. m = Running(atoms, value, cost, arenas)
  BY <1>2, <1>3
<1>5. PICK r : r = [arenas EXCEPT ![arena] = bytes]
  OBVIOUS
<1>6. [m EXCEPT !.arenas[arena] = bytes]
         = [atoms |-> atoms, failed |-> failed, value |-> value, cost |-> cost, arenas |-> r]
  BY <1>2, <1>5
<1>7. [m EXCEPT !.arenas[arena] = bytes] = Running(atoms, value, cost, r)
  BY <1>3, <1>6
<1> QED
  BY <1>4, <1>5, <1>7 DEF WithArena

\* An access is refused where the meaning has it fail.
LEMMA OffsetAccepted ==
    ASSUME NEW x \in Double, NEW capacity \in Nat
    PROVE  IsByteOffset(x) /\ OffsetAdmitsAValue(capacity, ByteOffset(x)) <=>
              /\ IsFinite(x) /\ x.magnitude % QuantaPerUnit = 0
              /\ x.negative => IsZero(x)
              /\ x.magnitude \div QuantaPerUnit <= MaximumByteOffset
              /\ x.magnitude \div QuantaPerUnit + VALUE_WIDTH <= capacity
<1>1. PICK m \in Nat : m = x.magnitude
  BY FormatAssumption DEF Double, NaNCode
<1>2. PICK d \in Nat : d = m \div QuantaPerUnit
  BY QuotientNat, FormatAssumption
<1>3. ByteOffset(x) = d /\ x.magnitude \div QuantaPerUnit = d
  BY <1>1, <1>2 DEF ByteOffset
<1>4. OffsetAdmitsAValue(capacity, d) <=> d + VALUE_WIDTH <= capacity
  BY DEF OffsetAdmitsAValue, VALUE_WIDTH
<1>5. Signed(x) >= 0 <=> (x.negative => IsZero(x))
  BY CountAccepted
<1>6. IsByteOffset(x) <=> /\ IsFinite(x) /\ Signed(x) >= 0
                          /\ x.magnitude % QuantaPerUnit = 0 /\ d <= MaximumByteOffset
  BY <1>3 DEF IsByteOffset
<1> QED
  BY <1>3, <1>4, <1>5, <1>6

\* The two bytes stored are the bytes the meaning changes.
LEMMA BytesStored ==
    ASSUME NEW bytes \in Seq(Byte), NEW offset \in Nat,
           offset + 1 \in 1..Len(bytes), offset + 2 \in 1..Len(bytes), NEW encoding
    PROVE  Stored(bytes, offset, encoding) = Changed(bytes, offset, encoding)
<1>1. PICK n \in Nat : n = Len(bytes) /\ DOMAIN bytes = 1..n
  BY LenProperties
<1>2. bytes = [b \in 1..n |-> bytes[b]]
  BY <1>1
<1>3. PICK first, second, p, q : /\ first = encoding[1] /\ second = encoding[2]
                                 /\ p = offset + 1 /\ q = offset + 2
  OBVIOUS
<1>4. p \in 1..n /\ q \in 1..n /\ p # q
  BY <1>1, <1>3
<1>5. [[bytes EXCEPT ![p] = first] EXCEPT ![q] = second]
         = [b \in 1..n |-> IF b = q THEN second ELSE IF b = p THEN first ELSE bytes[b]]
  BY <1>1, <1>2, <1>4
<1>6. ASSUME NEW b \in 1..n
      PROVE  (IF b = q THEN second ELSE IF b = p THEN first ELSE bytes[b])
                = IF b \in {p, q} THEN encoding[b - offset] ELSE bytes[b]
  <2>1. b = p => b - offset = 1
    BY <1>3
  <2>2. b = q => b - offset = 2
    BY <1>3
  <2> QED
    BY <1>3, <1>4, <2>1, <2>2
<1> QED
  BY <1>1, <1>3, <1>5, <1>6 DEF Stored, Changed

\* An access that is refused stops the machine; one that is not reads or
\* writes the two bytes at its offset.
LEMMA AccessIs ==
    ASSUME TypeOK, NEW atoms, Completes(atoms), NEW form, Active.name \in DOMAIN ArenaCapacities,
           NEW values, values[1] \in Double
    PROVE  LET left == Left(atoms, Len(body_scanners))
               offset == ByteOffset(values[1])
               arena == Active.name
               bytes == arena_bytes[arena]
           IN  /\ ~Addressable(values[1]) => Accessed(Now(atoms, Zero), form, arena, values) = Stopped
               /\ Addressable(values[1]) /\ form = "read_offset" =>
                     Accessed(Now(atoms, Zero), form, arena, values)
                        = Running(left, LoadDouble(arena, offset), retired_cycle_count, arena_bytes)
               /\ Addressable(values[1]) /\ form # "read_offset" =>
                     Accessed(Now(atoms, Zero), form, arena, values)
                        = Running(left, values[2], retired_cycle_count,
                                  [arena_bytes EXCEPT ![arena] =
                                     [[@ EXCEPT ![offset + 1] = Encoding(values[2])[1]]
                                         EXCEPT ![offset + 2] = Encoding(values[2])[2]]])
<1>1. PICK left, cost, arenas, arena, m, x, d :
         /\ left = Left(atoms, Len(body_scanners)) /\ cost = retired_cycle_count
         /\ arenas = arena_bytes /\ arena = Active.name /\ m = Now(atoms, Zero)
         /\ x = values[1] /\ d = x.magnitude \div QuantaPerUnit /\ x \in Double
  OBVIOUS
<1>2. PICK bytes \in Seq(Byte) : bytes = arenas[arena]
  BY <1>1 DEF TypeOK
<1>3. m = Running(left, Zero, cost, arenas) /\ m.arenas = arenas
  BY <1>1, RunningIs DEF Now
<1>4. Failed(m) = Stopped
  BY <1>1, NowType, ConstantTypes
<1>5. ByteOffset(x) = d
  BY <1>1 DEF ByteOffset
<1>6. Len(bytes) \in Nat
  BY LenProperties
<1>7. Addressable(x) <=>
         /\ IsFinite(x) /\ x.magnitude % QuantaPerUnit = 0
         /\ x.negative => IsZero(x)
         /\ d <= MaximumByteOffset /\ d + VALUE_WIDTH <= Len(bytes)
  <2>1. Addressable(x) <=> IsByteOffset(x) /\ OffsetAdmitsAValue(Len(bytes), ByteOffset(x))
    BY <1>1, <1>2 DEF Addressable
  <2> QED
    BY <1>1, <1>6, <2>1, OffsetAccepted
<1>8. PICK accepted : accepted = Addressable(x)
  OBVIOUS
<1>9. Accessed(m, form, arena, values)
         = IF ~accepted THEN Failed(m)
           ELSE IF form = "read_offset" THEN Yield(m, Decoding(bytes[d + 1], bytes[d + 2]))
           ELSE Yield([m EXCEPT !.arenas[arena] =
                         [b \in DOMAIN bytes |->
                             IF b \in {d + 1, d + 2}
                             THEN Encoding(values[2])[b - d] ELSE bytes[b]]], values[2])
  BY <1>1, <1>2, <1>3, <1>7, <1>8 DEF Accessed
<1>10. CASE ~accepted
  BY <1>1, <1>4, <1>8, <1>9, <1>10
<1>11. CASE accepted /\ form = "read_offset"
  <2>1. Yield(m, Decoding(bytes[d + 1], bytes[d + 2]))
           = Running(left, Decoding(bytes[d + 1], bytes[d + 2]), cost, arenas)
    BY <1>3, RunningUpdates
  <2>2. LoadDouble(arena, ByteOffset(x)) = Decoding(bytes[d + 1], bytes[d + 2])
    BY <1>1, <1>2, <1>5 DEF LoadDouble
  <2> QED
    BY <1>1, <1>8, <1>9, <1>11, <2>1, <2>2
<1>12. CASE accepted /\ form # "read_offset"
  <2>1. PICK encoding, value : encoding = Encoding(values[2]) /\ value = values[2]
    OBVIOUS
  <2>2. /\ d + 1 \in 1..Len(bytes) /\ d + 2 \in 1..Len(bytes)
        /\ d \in Nat
    <3>1. x.magnitude \in Nat
      <4>1. x \in Double
        BY <1>1
      <4> QED
        BY <4>1, FormatAssumption DEF Double, NaNCode
    <3>2. d \in Nat
      BY <1>1, <3>1, QuotientNat, FormatAssumption
    <3> QED
      BY <1>1, <1>2, <1>5, <1>8, <1>12, <3>2, AddressableBytes
  <2>3. PICK changed : changed = Changed(bytes, d, encoding)
    OBVIOUS
  <2>4. Stored(bytes, d, encoding) = changed
    <3>1. PICK n \in Nat : n = d
      BY <2>2
    <3>2. n + 1 \in 1..Len(bytes) /\ n + 2 \in 1..Len(bytes)
      BY <2>2, <3>1
    <3> QED
      BY <2>3, <3>1, <3>2, BytesStored
  <2>5. WithArena(m, arena, changed)
           = Running(left, Zero, cost, [arenas EXCEPT ![arena] = changed])
    BY <1>3, ArenaUpdate
  <2>6. Yield(Running(left, Zero, cost, [arenas EXCEPT ![arena] = changed]), value)
           = Running(left, value, cost, [arenas EXCEPT ![arena] = changed])
    BY RunningUpdates
  <2>7. Accessed(m, form, arena, values)
           = Running(left, value, cost, [arenas EXCEPT ![arena] = changed])
    <3>1. Accessed(m, form, arena, values) = Yield(WithArena(m, arena, changed), value)
      BY <1>8, <1>9, <1>12, <2>1, <2>3 DEF WithArena, Changed
    <3> QED
      BY <2>5, <2>6, <3>1
  <2>8. [arenas EXCEPT ![arena] = [[@ EXCEPT ![d + 1] = encoding[1]] EXCEPT ![d + 2] = encoding[2]]]
           = [arenas EXCEPT ![arena] = changed]
    BY <1>2, <2>4 DEF Stored
  <2> QED
    BY <1>1, <1>5, <1>8, <1>12, <2>1, <2>7, <2>8
<1> QED
  BY <1>10, <1>11, <1>12

\* An arena form comes to the access it makes.
LEMMA AccessConcludes ==
    ASSUME IInv, Dispatched, Fitting, Concluding({"write_offset", "read_offset"}),
           NEW atoms, Completes(atoms)
    PROVE  Outcome(atoms) = Accessed(Now(atoms, Zero), Active.form, Active.name, Active.operands)
<1>1. control = "form" /\ Active.form \in {"write_offset", "read_offset"} /\ ArgumentsRead
  BY DEF Concluding
<1>2. PICK form, g, c : /\ form = Active.form /\ g = Inner(Len(activations))
                        /\ c = Configured(atoms)
  OBVIOUS
<1>3. Outcome(atoms) = Conclusion(g, c, form)
  BY <1>1, <1>2, FormConcludes
<1>4. /\ c.machine = Now(atoms, Zero) /\ c.values = Active.operands /\ c.name = Active.name
  BY <1>2 DEF Configured
<1>5. form \notin PrimitiveOperations /\ form # "Branch" /\ form \in {"write_offset", "read_offset"}
  BY <1>1, <1>2 DEF PrimitiveOperations
<1>6. Conclusion(g, c, form) = Accessed(c.machine, form, c.name, c.values)
  BY <1>5 DEF Conclusion
<1> QED
  BY <1>2, <1>3, <1>4, <1>6

\* An access to an arena has the value and the effect of the meaning, or both fail.
LEMMA ArenaMeans ==
    ASSUME UInv, UInv', ~HasFailed, WriteOffset \/ ReadOffset,
           NEW atoms, Completes(atoms), Completes(atoms)', Understood(atoms)
    PROVE  Understood(atoms)'
<1> USE DEF UInv, IInv
<1>1. PICK values, arena, form :
         /\ values = Active.operands /\ arena = Active.name /\ form = Active.form
  OBVIOUS
<1>2. /\ control = "form" /\ ArgumentsRead /\ control' = "leave"
      /\ Concluding({"write_offset", "read_offset"})
      /\ UNCHANGED <<text, body_scanners, activations, retired_cycle_count, committed_values>>
      /\ form \in {"write_offset", "read_offset"}
      /\ ~Addressable(values[1]) => ReportError /\ UNCHANGED arena_bytes
      /\ Addressable(values[1]) => UNCHANGED reported_error_count
      /\ Addressable(values[1]) /\ form = "read_offset" =>
            result' = LoadDouble(arena, ByteOffset(values[1])) /\ UNCHANGED arena_bytes
      /\ Addressable(values[1]) /\ form # "read_offset" =>
            result' = values[2] /\ StoreDouble(arena, ByteOffset(values[1]), values[2])
  <2>1. CASE WriteOffset
    BY <1>1, <2>1 DEF WriteOffset, Concluding, Publish, Fail, scanner_vars
  <2>2. CASE ReadOffset
    BY <1>1, <2>2 DEF ReadOffset, Concluding, Publish, Fail, scanner_vars
  <2> QED
    BY <2>1, <2>2
<1>3. Active.name \in DOMAIN ArenaCapacities /\ values[1] \in Double
  BY <1>1, <1>2, OperandsObtained
<1>4. \A level : Left(atoms, level)' = Left(atoms, level)
  BY <1>2, NothingReadAnywhere
<1>5. Fitting => Outcome(atoms) = Accessed(Now(atoms, Zero), form, arena, values)
  BY <1>1, <1>2, AccessConcludes
<1>6. PICK left : left = Left(atoms, Len(body_scanners))' /\ left = Left(atoms, Len(body_scanners))
  BY <1>2, <1>4
<1>7. CASE ~Addressable(values[1])
  <2>1. Fitting => Outcome(atoms) = Stopped
    BY <1>1, <1>3, <1>5, <1>7, AccessIs
  <2>2. HasFailed'
    BY <1>2, <1>7, NoneReported DEF ReportError, HasFailed
  <2> QED
    BY <1>2, <1>7, <2>1, <2>2, GoesWrong DEF InEvaluation, InActivation
<1>8. CASE Addressable(values[1])
  <2>1. Fitting => Outcome(atoms) = Running(left, result', retired_cycle_count', arena_bytes')
    <3>1. CASE form = "read_offset"
      <4>1. Accessed(Now(atoms, Zero), form, arena, values)
               = Running(left, LoadDouble(arena, ByteOffset(values[1])),
                         retired_cycle_count, arena_bytes)
        BY <1>1, <1>3, <1>6, <1>8, <3>1, AccessIs
      <4> QED
        BY <1>2, <1>5, <1>8, <3>1, <4>1
    <3>2. CASE form # "read_offset"
      <4>1. Accessed(Now(atoms, Zero), form, arena, values)
               = Running(left, values[2], retired_cycle_count,
                         [arena_bytes EXCEPT ![arena] =
                            [[@ EXCEPT ![ByteOffset(values[1]) + 1] = Encoding(values[2])[1]]
                                EXCEPT ![ByteOffset(values[1]) + 2] = Encoding(values[2])[2]]])
        BY <1>1, <1>3, <1>6, <1>8, <3>2, AccessIs
      <4>2. arena_bytes' = [arena_bytes EXCEPT ![arena] =
                            [[@ EXCEPT ![ByteOffset(values[1]) + 1] = Encoding(values[2])[1]]
                                EXCEPT ![ByteOffset(values[1]) + 2] = Encoding(values[2])[2]]]
        BY <1>2, <1>8, <3>2 DEF StoreDouble
      <4> QED
        BY <1>2, <1>5, <1>8, <3>2, <4>1, <4>2
    <3> QED
      BY <3>1, <3>2
  <2>2. Len(Left(atoms, 0)') <= Len(Left(atoms, 0))
    BY <1>4, TextLeft
  <2>3. Len(body_scanners') = Len(body_scanners)
    BY <1>2
  <2> QED
    BY <1>2, <1>4, <1>6, <1>8, <2>1, <2>2, <2>3, LeavesWith DEF InActivation
<1> QED
  BY <1>7, <1>8

-----------------------------------------------------------------------------
(* Directives. *)

\* Between expressions only the module's own scanner is left.
LEMMA BareAtRest ==
    ASSUME UInv, control \in AtRest
    PROVE  activations = <<>> /\ Len(activations) = 0
           /\ body_scanners = <<>> /\ Len(body_scanners) = 0
<1>1. activations = <<>> /\ Len(activations) = 0
  BY EmptySeq DEF UInv, IInv, Stacked
<1>2. InBody = {}
  BY <1>1 DEF InBody
<1>3. Len(body_scanners) = 0
  BY <1>2, FS_EmptySet DEF UInv, Bodies
<1> QED
  BY <1>1, <1>3, EmptySeq DEF UInv, IInv, TypeOK

\* A module that fails in this step means what it has done.
LEMMA ToldStopped ==
    ASSUME NEW atoms, Meaning(atoms) = [machine |-> Stopped, outputs |-> committed_values],
           HasFailed', UNCHANGED <<committed_values, arena_bytes, retired_cycle_count>>
    PROVE  Understood(atoms)'
<1>1. PICK meaning : meaning = Meaning(atoms)
  OBVIOUS
<1>2. meaning.machine = Stopped /\ meaning.outputs = committed_values
  BY <1>1
<1>3. /\ meaning.machine.failed = TRUE
      /\ meaning.machine.cost = retired_cycle_count
      /\ meaning.machine.arenas = arena_bytes
  BY <1>2 DEF Stopped
<1>4. HasFailed' = TRUE
  BY DEF HasFailed
<1>5. Told(atoms)'
  BY <1>1, <1>2, <1>3, <1>4 DEF Told
<1> QED
  BY <1>5 DEF Understood

\* The machine between expressions.
LEMMA MachineAtRest ==
    ASSUME UInv, NEW atoms, Completes(atoms), NEW value \in Double
    PROVE  /\ Now(atoms, value) \in Machine /\ ~Now(atoms, value).failed
           /\ Now(atoms, value).value = value
           /\ Now(atoms, value).cost = retired_cycle_count
           /\ Now(atoms, value).arenas = arena_bytes
           /\ Yield(Now(atoms, value), Zero) = Now(atoms, Zero)
           /\ Failed(Now(atoms, value)) = Stopped
           /\ committed_values \in Seq(Double)
<1>1. PICK left, cost, arenas : /\ left = Left(atoms, Len(body_scanners))
                                /\ cost = retired_cycle_count /\ arenas = arena_bytes
  OBVIOUS
<1>2. \A x : Now(atoms, x) = Running(left, x, cost, arenas)
  BY <1>1 DEF Now
<1>3. PICK zero : zero = Zero
  OBVIOUS
<1>4. LET m == Running(left, value, cost, arenas)
      IN  ~m.failed /\ m.value = value /\ m.cost = cost /\ m.arenas = arenas
  BY RunningIs
<1>5. Yield(Running(left, value, cost, arenas), zero) = Running(left, zero, cost, arenas)
  BY RunningUpdates
<1>6. Now(atoms, value) \in Machine /\ Failed(Now(atoms, value)) = Stopped
  BY NowType DEF UInv, IInv
<1>7. committed_values \in Seq(Double)
  BY DEF UInv, IInv, TypeOK
<1> QED
  BY <1>1, <1>2, <1>3, <1>4, <1>5, <1>6, <1>7

\* A directive that is read is one of the k still allowed.
LEMMA ReadDirectiveMeans ==
    ASSUME UInv, UInv', ~HasFailed, ReadDirective,
           NEW atoms, Completes(atoms), Completes(atoms)', Understood(atoms)
    PROVE  Understood(atoms)'
<1> USE DEF UInv, IInv
<1>1. PICK atom \in NextAtoms :
         /\ control = "directive" /\ Consume(atom)
         /\ \/ /\ atom = EndOfSource /\ control' = "halted"
               /\ UNCHANGED reported_error_count
            \/ /\ atom.kind = "IDENTIFIER" /\ atom.name = "Commit" /\ control' = "open"
               /\ UNCHANGED reported_error_count
            \/ /\ atom # EndOfSource
               /\ ~(atom.kind = "IDENTIFIER" /\ atom.name = "Commit")
               /\ ReportError
         /\ UNCHANGED <<committed_values, arena_bytes, retired_cycle_count>>
  BY DEF ReadDirective, file_vars
<1>2. PICK k \in Nat : Len(Left(atoms, 0)) < k /\ Foretold(atoms, k)
  BY <1>1 DEF Understood
<1>3. PICK m, rest, outputs : /\ m = Now(atoms, Zero) /\ rest = Now(atoms, Zero)'
                              /\ outputs = committed_values
  OBVIOUS
<1>4. Meaning(atoms) = Executing[k][[machine |-> m, outputs |-> outputs]]
  BY <1>1, <1>2, <1>3 DEF Foretold
<1>5. NextOf(m) = atom /\ Rest(m) = rest
  BY <1>1, <1>3, AtomRead
<1>6. /\ m \in Machine /\ ~m.failed /\ m.cost = retired_cycle_count
      /\ m.arenas = arena_bytes /\ Failed(m) = Stopped /\ outputs \in Seq(Double)
  BY <1>3, MachineAtRest, ConstantTypes
<1>7. Len(Left(atoms, 0)') < Len(Left(atoms, 0))
  BY <1>1, BareAtRest, AtomTaken DEF AtRest
<1>8. Len(Left(atoms, 0)) \in Nat /\ Len(Left(atoms, 0)') \in Nat
  BY TextLeft
<1>9. k # 0 /\ k - 1 \in Nat /\ Len(Left(atoms, 0)') < k - 1
  BY <1>2, <1>7, <1>8
<1>10. Executing[k][[machine |-> m, outputs |-> outputs]]
          = IF atom = EndOfSource THEN [machine |-> m, outputs |-> outputs]
            ELSE Executing[k - 1][Directive(m, outputs)]
  BY <1>5, <1>6, <1>9, ExecutingIs
<1>11. CASE atom = EndOfSource
  <2>1. control' = "halted" /\ UNCHANGED reported_error_count
    BY <1>1, <1>11 DEF EndOfSource, Punctuation
  <2>2. PICK meaning : meaning = Meaning(atoms)
    OBVIOUS
  <2>3. meaning.machine = m /\ meaning.outputs = outputs
    BY <1>4, <1>10, <1>11, <2>2
  <2>4. m.failed \in BOOLEAN
    BY <1>6 DEF Machine
  <2>5. HasFailed' = meaning.machine.failed
    BY <1>6, <2>1, <2>3, <2>4 DEF HasFailed
  <2>6. Told(atoms)'
    BY <1>1, <1>3, <1>6, <2>2, <2>3, <2>5 DEF Told
  <2> QED
    BY <2>1, <2>6 DEF Understood
<1>12. CASE atom.kind = "IDENTIFIER" /\ atom.name = "Commit"
  <2>1. atom # EndOfSource
    <3>1. EndOfSource.kind = "END_OF_SOURCE"
      BY DEF EndOfSource, Punctuation
    <3> QED
      BY <1>12, <3>1
  <2>2. control' = "open" /\ UNCHANGED reported_error_count
    BY <1>1, <1>12, <2>1
  <2>3. Directive(m, outputs) = Opened(rest, outputs)
    BY <1>5, <1>12 DEF Directive
  <2>4. Foretold(atoms, k - 1)'
    <3>1. Meaning(atoms) = Executing[k - 1][Opened(rest, outputs)]
      BY <1>4, <1>10, <2>1, <2>3
    <3> QED
      BY <1>1, <1>3, <2>2, <3>1 DEF Foretold, InEvaluation, InActivation
  <2>5. ~HasFailed'
    BY <2>2 DEF HasFailed
  <2> QED
    BY <1>9, <2>2, <2>4, <2>5 DEF Understood
<1>13. CASE atom # EndOfSource /\ ~(atom.kind = "IDENTIFIER" /\ atom.name = "Commit")
  <2>1. HasFailed'
    BY <1>1, <1>13, NoneReported DEF ReportError, HasFailed
  <2>2. Directive(m, outputs) = [machine |-> Stopped, outputs |-> outputs]
    BY <1>5, <1>6, <1>13 DEF Directive
  <2>3. Meaning(atoms) = [machine |-> Stopped, outputs |-> committed_values]
    <3>1. PICK j \in Nat : j = k - 1
      BY <1>9
    <3>2. Executing[j][[machine |-> Stopped, outputs |-> committed_values]]
             = [machine |-> Stopped, outputs |-> committed_values]
      BY StoppedEnds
    <3> QED
      BY <1>3, <1>4, <1>10, <1>13, <2>2, <3>1, <3>2
  <2> QED
    BY <1>1, <2>1, <2>3, ToldStopped
<1> QED
  BY <1>1, <1>11, <1>12, <1>13

\* A Commit whose parenthesis is there asks for the outermost evaluation.
LEMMA BeginCommitMeans ==
    ASSUME UInv, UInv', ~HasFailed, BeginCommit,
           NEW atoms, Completes(atoms), Completes(atoms)', Understood(atoms)
    PROVE  Understood(atoms)'
<1> USE DEF UInv, IInv
<1>1. /\ control = "open" /\ ExpectAtom("OPEN_PARENTHESIS", "evaluate", "halted")
      /\ callee'.frame = NoFrame
      /\ UNCHANGED <<activations, committed_values, arena_bytes, retired_cycle_count>>
  BY DEF BeginCommit, file_vars
<1>2. PICK k \in Nat : Len(Left(atoms, 0)) < k /\ Foretold(atoms, k)
  BY <1>1 DEF Understood
<1>3. PICK m, next, outputs : /\ m = Now(atoms, Zero) /\ next = Now(atoms, Zero)'
                              /\ outputs = committed_values
  OBVIOUS
<1>4. Meaning(atoms) = Executing[k][Opened(m, outputs)]
  BY <1>1, <1>2, <1>3 DEF Foretold
<1>5. /\ Len(body_scanners') = Len(body_scanners)
      /\ Len(Left(atoms, 0)') <= Len(Left(atoms, 0))
      /\ \/ control' = "evaluate" /\ ~HasFailed' /\ Skip(m, OPEN) = next
         \/ HasFailed' /\ Skip(m, OPEN) = Stopped
  BY <1>1, <1>3, Expectation, ConstantTypes DEF OPEN
<1>6. CASE control' = "evaluate" /\ ~HasFailed' /\ Skip(m, OPEN) = next
  <2>1. ~next.failed
    <3>1. ~Now(atoms, Zero)'.failed
      <4>1. PICK left, cost, arenas : /\ left = Left(atoms, Len(body_scanners))'
                                      /\ cost = retired_cycle_count' /\ arenas = arena_bytes'
        OBVIOUS
      <4>2. Now(atoms, Zero)' = Running(left, Zero, cost, arenas)
        BY <4>1 DEF Now
      <4> QED
        BY <4>2, RunningIs
    <3> QED
      BY <1>3, <3>1
  <2>2. PICK x : x = Evaluating[MaximumEvaluationDepth][<<next, NoFrame>>]
    OBVIOUS
  <2>3. Opened(m, outputs) = Committed(x, outputs)
    BY <1>6, <2>1, <2>2 DEF Opened
  <2>4. Len(activations') = 0 /\ Len(body_scanners') = 0
    BY <1>1, <1>5, BareAtRest DEF AtRest
  <2>5. MaximumEvaluationDepth - 0 = MaximumEvaluationDepth
    BY EvaluatorAssumption
  <2>6. x = Outcome(atoms)'
    BY <1>1, <1>3, <1>6, <2>2, <2>4, <2>5 DEF Outcome, Inner
  <2>7. Supports(atoms, k, x)'
    <3>1. PICK M, L : M = [i \in {0} |-> x] /\ L = [i \in {1} |-> 0]
      OBVIOUS
    <3>2. M[0] = x /\ L[1] = 0
      BY <3>1
    <3>3. Pending' = 0
      BY <1>6, <2>4 DEF Pending, InActivation
    <3>4. PICK stack, lefts : stack = activations' /\ lefts = Lefts(atoms)'
      OBVIOUS
    <3>5. Chain(stack, lefts, M, L, 0)
      <4>1. 1..0 = {} /\ 1..(0 + 1) = {1} /\ 0 <= 0
        OBVIOUS
      <4> QED
        BY <3>2, <4>1 DEF Chain
    <3>6. Meaning(atoms) = Executing[k][Committed(M[0], committed_values')]
      BY <1>1, <1>3, <1>4, <2>3, <3>2
    <3>7. L[0 + 1] = Len(body_scanners')
      BY <2>4, <3>2
    <3> QED
      BY <3>2, <3>3, <3>4, <3>5, <3>6, <3>7 DEF Supports
  <2>8. Foretold(atoms, k)'
    BY <1>6, <2>6, <2>7 DEF Foretold, InEvaluation, InActivation, Fitting
  <2>9. Len(Left(atoms, 0)') < k
    BY <1>2, <1>5, TextLeft
  <2> QED
    BY <1>6, <2>8, <2>9 DEF Understood
<1>7. CASE HasFailed' /\ Skip(m, OPEN) = Stopped
  <2>1. Opened(m, outputs) = [machine |-> Stopped, outputs |-> outputs]
    BY <1>7, StoppedUpdates DEF Opened
  <2>2. Meaning(atoms) = [machine |-> Stopped, outputs |-> committed_values]
    BY <1>3, <1>4, <2>1, StoppedEnds
  <2> QED
    BY <1>1, <1>7, <2>2, ToldStopped
<1> QED
  BY <1>5, <1>6, <1>7

\* The outermost evaluation is done: its machine is the one the Commit waits for.
LEMMA SynchroniseMeans ==
    ASSUME UInv, UInv', ~HasFailed, Synchronise,
           NEW atoms, Completes(atoms), Completes(atoms)', Understood(atoms)
    PROVE  Understood(atoms)'
<1> USE DEF UInv, IInv
<1>1. /\ control = "return" /\ activations = <<>> /\ control' = "close"
      /\ UNCHANGED <<text, body_scanners, result, retired_cycle_count, reported_error_count,
                     arena_bytes, committed_values>>
  BY DEF Synchronise, scanner_vars
<1>2. PICK k \in Nat : Len(Left(atoms, 0)) < k /\ Foretold(atoms, k)
  BY <1>1 DEF Understood
<1>3. Outcome(atoms) = Now(atoms, result)
  BY <1>1 DEF Outcome
<1>4. Supports(atoms, k, Now(atoms, result))
  BY <1>1, <1>2, <1>3 DEF Foretold, InEvaluation
<1>5. Pending = 0
  BY <1>1, EmptySeq DEF Pending, InActivation
<1>6. Meaning(atoms) = Executing[k][Committed(Now(atoms, result), committed_values)]
  BY <1>4, <1>5 DEF Supports
<1>7. Now(atoms, result)' = Now(atoms, result) /\ Left(atoms, 0)' = Left(atoms, 0)
  BY <1>1 DEF Now, Left
<1>8. Foretold(atoms, k)'
  BY <1>1, <1>6, <1>7 DEF Foretold, InEvaluation, InActivation
<1>9. ~HasFailed'
  BY <1>1 DEF HasFailed
<1> QED
  BY <1>1, <1>2, <1>7, <1>8, <1>9 DEF Understood

\* A Commit whose value is closed has an output.
LEMMA CloseCommitMeans ==
    ASSUME UInv, UInv', ~HasFailed, CloseCommit,
           NEW atoms, Completes(atoms), Completes(atoms)', Understood(atoms)
    PROVE  Understood(atoms)'
<1> USE DEF UInv, IInv
<1>1. /\ control = "close" /\ ExpectAtom("CLOSE_PARENTHESIS", "report", "halted")
      /\ UNCHANGED <<committed_values, arena_bytes, retired_cycle_count>>
  BY DEF CloseCommit, file_vars
<1>2. PICK k \in Nat : Len(Left(atoms, 0)) < k /\ Foretold(atoms, k)
  BY <1>1 DEF Understood
<1>3. PICK value \in Double : value = result
  BY DEF TypeOK
<1>4. PICK m, closed, outputs : /\ m = Now(atoms, value) /\ closed = Now(atoms, value)'
                                /\ outputs = committed_values
  OBVIOUS
<1>5. Meaning(atoms) = Executing[k][Committed(m, outputs)]
  BY <1>1, <1>2, <1>3, <1>4 DEF Foretold
<1>6. /\ Len(Left(atoms, 0)') <= Len(Left(atoms, 0))
      /\ \/ control' = "report" /\ ~HasFailed' /\ result' = result /\ Skip(m, CLOSE) = closed
         \/ HasFailed' /\ Skip(m, CLOSE) = Stopped
  BY <1>1, <1>4, Expectation DEF CLOSE
<1>7. m.value = value
  BY <1>4, MachineAtRest
<1>8. CASE control' = "report" /\ ~HasFailed' /\ result' = result /\ Skip(m, CLOSE) = closed
  <2>1. ~closed.failed /\ Yield(closed, Zero) = Now(atoms, Zero)'
    <3>1. PICK left, cost, arenas : /\ left = Left(atoms, Len(body_scanners))'
                                    /\ cost = retired_cycle_count' /\ arenas = arena_bytes'
      OBVIOUS
    <3>2. closed = Running(left, value, cost, arenas)
          /\ Now(atoms, Zero)' = Running(left, Zero, cost, arenas)
      BY <1>4, <3>1 DEF Now
    <3>3. ~Running(left, value, cost, arenas).failed
      BY RunningIs
    <3>4. Yield(Running(left, value, cost, arenas), Zero) = Running(left, Zero, cost, arenas)
      BY RunningUpdates
    <3> QED
      BY <3>2, <3>3, <3>4
  <2>2. Committed(m, outputs) = [machine |-> Now(atoms, Zero)', outputs |-> Append(outputs, value)]
    BY <1>7, <1>8, <2>1 DEF Committed
  <2>3. Foretold(atoms, k)'
    BY <1>1, <1>3, <1>4, <1>5, <1>8, <2>2 DEF Foretold, InEvaluation, InActivation
  <2>4. Len(Left(atoms, 0)') < k
    BY <1>2, <1>6, TextLeft
  <2> QED
    BY <1>8, <2>3, <2>4 DEF Understood
<1>9. CASE HasFailed' /\ Skip(m, CLOSE) = Stopped
  <2>1. Committed(m, outputs) = [machine |-> Stopped, outputs |-> outputs]
    BY <1>9, StoppedUpdates DEF Committed
  <2>2. Meaning(atoms) = [machine |-> Stopped, outputs |-> committed_values]
    BY <1>4, <1>5, <2>1, StoppedEnds
  <2> QED
    BY <1>1, <1>9, <2>2, ToldStopped
<1> QED
  BY <1>6, <1>8, <1>9

\* A value that is reported is that output.
LEMMA ReportCommitMeans ==
    ASSUME UInv, UInv', ~HasFailed, ReportCommit,
           NEW atoms, Completes(atoms), Completes(atoms)', Understood(atoms)
    PROVE  Understood(atoms)'
<1>1. /\ control = "report" /\ committed_values' = Append(committed_values, result)
      /\ control' = "directive"
      /\ UNCHANGED <<text, body_scanners, retired_cycle_count, reported_error_count, arena_bytes>>
  BY DEF ReportCommit, scanner_vars, file_vars
<1>2. PICK k \in Nat : Len(Left(atoms, 0)) < k /\ Foretold(atoms, k)
  BY <1>1 DEF Understood
<1>3. Meaning(atoms) = Executing[k][[machine |-> Now(atoms, Zero),
                                     outputs |-> Append(committed_values, result)]]
  BY <1>1, <1>2 DEF Foretold
<1>4. Now(atoms, Zero)' = Now(atoms, Zero) /\ Left(atoms, 0)' = Left(atoms, 0)
  BY <1>1 DEF Now, Left
<1>5. Foretold(atoms, k)'
  BY <1>1, <1>3, <1>4 DEF Foretold, InEvaluation, InActivation
<1>6. ~HasFailed'
  BY <1>1 DEF HasFailed
<1> QED
  BY <1>1, <1>2, <1>4, <1>5, <1>6 DEF Understood

-----------------------------------------------------------------------------
(* The invariant is inductive. *)

\* A step reads an atom, or leaves the text alone.
LEMMA TextGrows ==
    ASSUME Next
    PROVE  UNCHANGED text \/ \E atom \in NextAtoms : Consume(atom)
<1>1. CASE ReadDirective \/ Dispatch \/ ReadName
  BY <1>1 DEF ReadDirective, Dispatch, ReadName
<1>2. CASE BeginCommit \/ CloseCommit \/ ExpectPunctuation
  <2>1. PICK kind, accepted, rejected : ExpectAtom(kind, accepted, rejected)
    BY <1>2 DEF BeginCommit, CloseCommit, ExpectPunctuation
  <2> QED
    BY <2>1 DEF ExpectAtom, scanner_vars
<1>3. CASE Synchronise \/ ReportCommit \/ RefuseEvaluation \/ EnterActivation \/ LeaveActivation
  BY <1>3 DEF Synchronise, ReportCommit, RefuseEvaluation, EnterActivation, LeaveActivation,
              scanner_vars
<1>4. CASE EvaluateOperand \/ ReturnOperand \/ ApplyPrimitive \/ SelectBranch \/ WriteOffset
           \/ ReadOffset \/ BeginLoop \/ EndLoop
  BY <1>4 DEF EvaluateOperand, ReturnOperand, ApplyPrimitive, SelectBranch, WriteOffset,
              ReadOffset, BeginLoop, EndLoop, scanner_vars
<1>5. CASE InvokeTemplate \/ IterateLoop \/ ReturnBody \/ Halt
  BY <1>5 DEF InvokeTemplate, IterateLoop, ReturnBody, Halt, vars
<1> QED
  BY <1>1, <1>2, <1>3, <1>4, <1>5 DEF Next

\* A text that completes the atoms read by then completes those read so far.
LEMMA CompletesBefore ==
    ASSUME UInv, UInv', Next, NEW atoms, Completes(atoms)'
    PROVE  Completes(atoms)
<1>1. CASE UNCHANGED text
  BY <1>1, NothingRead
<1>2. CASE \E atom \in NextAtoms : Consume(atom)
  BY <1>2, AtomTaken DEF UInv, IInv
<1> QED
  BY <1>1, <1>2, TextGrows

\* After a failure, and after the end, nothing is told any more.
LEMMA NothingMore ==
    ASSUME UInv, UInv', Next, HasFailed \/ control = "halted"
    PROVE  /\ HasFailed' <=> HasFailed
           /\ HasFailed' \/ control' = "halted"
           /\ UNCHANGED <<committed_values, arena_bytes, retired_cycle_count>>
<1>1. CASE HasFailed
  BY <1>1, FailureLasts, NoEffectAfterFailure DEF UInv
<1>2. CASE ~HasFailed /\ control = "halted"
  <2>1. Halt
    BY <1>2 DEF Next, ReadDirective, BeginCommit, Synchronise, CloseCommit, ReportCommit,
         RefuseEvaluation, EnterActivation, LeaveActivation, Dispatch,
         ExpectPunctuation, EvaluateOperand, ReturnOperand, ReadName, ApplyPrimitive,
         SelectBranch, WriteOffset, ReadOffset, InvokeTemplate, BeginLoop, IterateLoop,
         EndLoop, ReturnBody, Concluding
  <2> QED
    BY <1>2, <2>1 DEF Halt, vars, HasFailed
<1> QED
  BY <1>1, <1>2

\* A state in which nothing changes.
LEMMA NothingChanges ==
    ASSUME UNCHANGED vars, NEW atoms
    PROVE  /\ Completes(atoms)' <=> Completes(atoms)
           /\ Understood(atoms) => Understood(atoms)'
<1> USE DEF vars
<1>1. Completes(atoms)' <=> Completes(atoms)
  BY DEF Completes
<1>2. (\A level : Left(atoms, level)' = Left(atoms, level)) /\ Active' = Active
  BY DEF Left, Active
<1>3. \A value : Now(atoms, value)' = Now(atoms, value)
  BY DEF Now, Left
<1>4. Outcome(atoms)' = Outcome(atoms)
  BY <1>2, <1>3 DEF Outcome, Configured, Inner
<1>5. Fitting' <=> Fitting
  BY <1>2 DEF Fitting
<1>6. Lefts(atoms)' = Lefts(atoms) /\ Pending' = Pending
  BY DEF Lefts, Left, Pending
<1>7. ASSUME NEW k, NEW m, Supports(atoms, k, m)
      PROVE  Supports(atoms, k, m)'
  BY <1>6, <1>7 DEF Supports
<1>8. Told(atoms) => Told(atoms)'
  BY DEF Told, HasFailed
<1>9. ASSUME NEW k, Foretold(atoms, k)
      PROVE  Foretold(atoms, k)'
  BY <1>3, <1>4, <1>5, <1>7, <1>9 DEF Foretold
<1>10. Understood(atoms) => Understood(atoms)'
  BY <1>2, <1>8, <1>9 DEF Understood, HasFailed
<1> QED
  BY <1>1, <1>10

\* Before the first directive the meaning of a text is what all of it means.
LEMMA MeaningInitially ==
    ASSUME Init
    PROVE  MInv
<1>1. UInv
  BY UnwindingInitially
<1>2. ASSUME NEW atoms, Completes(atoms)
      PROVE  Understood(atoms)
  <2>1. atoms \in Seq(Atom) /\ Len(atoms) \in Nat
    BY <1>2, LenProperties DEF Completes
  <2>2. Left(atoms, 0) = atoms /\ Len(body_scanners) = 0
    <3>1. Len(text) = 0 /\ Len(body_scanners) = 0
      BY EmptySeq DEF Init
    <3>2. Left(atoms, 0) = SubSeq(atoms, 1, Len(atoms))
      BY <3>1 DEF Left
    <3> QED
      BY <2>1, <3>1, <3>2, SubSeqFull
  <2>3. Now(atoms, Zero)
           = [atoms |-> atoms, failed |-> FALSE, value |-> Zero, cost |-> 0,
              arenas |-> [a \in DOMAIN ArenaCapacities |-> [b \in 1..ArenaCapacities[a] |-> 0]]]
    BY <2>2 DEF Now, Running, Init
  <2>4. Meaning(atoms) = Executing[Len(atoms) + 1]
                            [[machine |-> Now(atoms, Zero), outputs |-> committed_values]]
    BY <2>3 DEF Meaning, Init
  <2>5. PICK k \in Nat : k = Len(atoms) + 1
    BY <2>1
  <2>6. Foretold(atoms, k)
    BY <2>4, <2>5 DEF Foretold, InEvaluation, InActivation, Init
  <2>7. Len(Left(atoms, 0)) < k
    BY <2>1, <2>2, <2>5
  <2>8. ~HasFailed /\ control # "halted"
    BY DEF Init, HasFailed
  <2> QED
    BY <2>6, <2>7, <2>8 DEF Understood
<1> QED
  BY <1>1, <1>2 DEF MInv

\* Whatever the evaluator does, what the text means stays the same.
LEMMA MeaningInductive ==
    ASSUME MInv, [Next]_vars
    PROVE  MInv'
<1>1. UInv /\ UInv'
  BY UnwindingInductive DEF MInv
<1>2. SpillNeverExhausted
  BY <1>1, SpillsFit DEF UInv
<1>3. ASSUME NEW atoms, Completes(atoms)'
      PROVE  Understood(atoms)'
  <2>1. CASE UNCHANGED vars
    BY <1>3, <2>1, NothingChanges DEF MInv
  <2>2. CASE Next
    <3>1. Completes(atoms) /\ Understood(atoms)
      BY <1>1, <1>3, <2>2, CompletesBefore DEF MInv
    <3>2. CASE HasFailed \/ control = "halted"
      BY <1>1, <2>2, <3>1, <3>2, NothingMore, StaysTold
    <3>3. CASE ~HasFailed /\ control # "halted"
      <4>1. CASE ReadDirective \/ BeginCommit \/ Synchronise \/ CloseCommit \/ ReportCommit
        BY <1>1, <1>3, <3>1, <3>3, <4>1, ReadDirectiveMeans, BeginCommitMeans, SynchroniseMeans,
           CloseCommitMeans, ReportCommitMeans
      <4>2. CASE RefuseEvaluation \/ EnterActivation \/ LeaveActivation \/ Dispatch
        BY <1>1, <1>2, <1>3, <3>1, <3>3, <4>2, RefuseEvaluationMeans, EnterActivationMeans,
           LeaveActivationMeans, DispatchMeans
      <4>3. CASE ExpectPunctuation \/ EvaluateOperand \/ ReturnOperand \/ ReadName
        BY <1>1, <1>3, <3>1, <3>3, <4>3, ExpectPunctuationMeans, EvaluateOperandMeans,
           ReturnOperandMeans, ReadNameMeans
      <4>4. CASE ApplyPrimitive \/ SelectBranch \/ WriteOffset \/ ReadOffset
        BY <1>1, <1>3, <3>1, <3>3, <4>4, ApplyPrimitiveMeans, ArenaMeans
      <4>5. CASE InvokeTemplate \/ BeginLoop \/ IterateLoop \/ EndLoop \/ ReturnBody
        BY <1>1, <1>3, <3>1, <3>3, <4>5, InvokeTemplateMeans, BeginLoopMeans, IterateLoopMeans,
           EndLoopMeans, ReturnBodyMeans
      <4> QED
        BY <2>2, <3>3, <4>1, <4>2, <4>3, <4>4, <4>5 DEF Next, Halt
    <3> QED
      BY <3>2, <3>3
  <2> QED
    BY <2>1, <2>2
<1> QED
  BY <1>1, <1>3 DEF MInv

\* After every directive the outcome of what has been read is what it means.
LEMMA MeaningTold ==
    ASSUME MInv
    PROVE  OutcomeIsMeaning
<1>1. UInv /\ text \in Seq(Atom) /\ Len(text) \in Nat
  BY LenProperties DEF MInv, UInv, IInv, TypeOK
<1>2. Completes(text)
  BY <1>1 DEF Completes
<1>3. Understood(text)
  BY <1>2 DEF MInv
<1>4. CASE HasFailed \/ control = "halted"
  BY <1>3, <1>4 DEF Understood, Told, OutcomeIsMeaning
<1>5. CASE ~HasFailed /\ control = "directive"
  <2>1. PICK k \in Nat : Foretold(text, k)
    BY <1>3, <1>5 DEF Understood
  <2>2. PICK m, outputs : m = Now(text, Zero) /\ outputs = committed_values
    OBVIOUS
  <2>3. m \in Machine /\ ~m.failed /\ m.cost = retired_cycle_count /\ m.arenas = arena_bytes
        /\ outputs \in Seq(Double)
    BY <1>1, <1>2, <2>2, MachineAtRest, ConstantTypes
  <2>4. Len(body_scanners) = 0
    BY <1>1, <1>5, BareAtRest DEF AtRest
  <2>5. Left(text, 0) = <<>>
    <3>1. PICK p \in Nat \ {0} : p = Len(text) + 1
      BY <1>1
    <3>2. SubSeq(text, p, Len(text)) = <<>> <=> p > Len(text)
      BY <1>1, EndOfSequence
    <3> QED
      BY <1>1, <3>1, <3>2 DEF Left
  <2>6. NextOf(m) = EndOfSource
    <3>1. PICK cost, arenas, left : /\ cost = retired_cycle_count /\ arenas = arena_bytes
                                    /\ left = Left(text, 0)
      OBVIOUS
    <3>2. m = Running(left, Zero, cost, arenas)
      BY <2>2, <2>4, <3>1 DEF Now
    <3>3. m.atoms = <<>>
      BY <2>5, <3>1, <3>2, RunningIs
    <3> QED
      BY <3>3 DEF NextOf
  <2>7. Meaning(text) = [machine |-> m, outputs |-> outputs]
    BY <1>5, <2>1, <2>2, <2>3, <2>6, ExecutingIs DEF Foretold
  <2>8. PICK meaning : meaning = Meaning(text)
    OBVIOUS
  <2>9. meaning.machine = m /\ meaning.outputs = outputs
    BY <2>7, <2>8
  <2>10. m.failed \in BOOLEAN
    BY <2>3 DEF Machine
  <2>11. HasFailed = meaning.machine.failed
    BY <1>5, <2>3, <2>9, <2>10 DEF HasFailed
  <2> QED
    BY <2>2, <2>3, <2>8, <2>9, <2>11 DEF OutcomeIsMeaning
<1> QED
  BY <1>4, <1>5 DEF OutcomeIsMeaning

\* What is committed, stored and charged, and whether the module fails, is what
\* the text means, for every text, every set of declarations and every limit.
THEOREM TextHasItsMeaning == Spec => []OutcomeIsMeaning
<1>1. Init => MInv
  BY MeaningInitially
<1>2. MInv /\ [Next]_vars => MInv'
  BY MeaningInductive
<1>3. MInv => OutcomeIsMeaning
  BY MeaningTold
<1> QED
  BY <1>1, <1>2, <1>3, PTL DEF Spec

=============================================================================
