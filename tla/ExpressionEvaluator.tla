------------------------ MODULE ExpressionEvaluator ------------------------
(***************************************************************************)
(* The recursive-descent evaluator, run by the Commit directives of one    *)
(* module.  The C call stack is explicit: an activation stands for a call  *)
(* of evaluate_one_expression that has not returned, together with the     *)
(* handler it dispatched to, and `control` says which code runs next.      *)
(*                                                                         *)
(* The module text is unknown until the scanner reads it, so that the      *)
(* behaviours are those of every text over a vocabulary up to a length,    *)
(* well formed or not.  Templates, identities and arenas are those earlier *)
(* declarations left behind; a template body is followed by whatever atoms *)
(* follow it in the source.                                                *)
(***************************************************************************)
EXTENDS Binary64, SequencesExt

CONSTANTS
    RegisterCount,              \* LLFPL_VIRTUAL_REGISTER_COUNT
    SynchronisedRegisterCount,  \* LLFPL_SYNCHRONISED_REGISTER_COUNT
    MaximumEvaluationDepth,     \* LLFPL_MAXIMUM_EVALUATION_DEPTH
    MaximumByteOffset,          \* UINT32_MAX
    LoopCountCeiling,           \* 2^63
    HardwareSynchronisation,    \* hardware_synchronisation_is_enabled
    Names,                      \* spellings of identifiers
    Templates,                  \* name -> [parameters, body], from Map
    Identities,                 \* name -> value, from Identity
    ArenaCapacities,            \* name -> bytes, from Slab
    MaximumTextLength           \* vocabulary -> bound on the texts written in it

Forms == PrimitiveOperations \cup {"Branch", "Loop", "write_offset", "read_offset"}
AtomKinds == {"IDENTIFIER", "NUMERIC_LITERAL", "OPEN_PARENTHESIS", "CLOSE_PARENTHESIS",
              "ARGUMENT_SEPARATOR", "END_OF_SOURCE", "UNRECOGNISED"}

\* A literal's value is NaN for text that llfpl_numeric_parse_double rejects:
\* no literal spells a NaN.
Atom == [kind : AtomKinds, name : Names \cup {""}, value : Double]
Punctuation(kind) == [kind |-> kind, name |-> "", value |-> Zero]
EndOfSource == Punctuation("END_OF_SOURCE")

SPILL_STACK_CAPACITY == MaximumEvaluationDepth + 1

ASSUME EvaluatorAssumption ==
    /\ RegisterCount \in 1..16
    /\ SynchronisedRegisterCount \in Nat \ {0}
    /\ MaximumEvaluationDepth \in Nat
    /\ MaximumByteOffset \in Nat
    /\ LoopCountCeiling \in Nat
    /\ HardwareSynchronisation \in BOOLEAN

ASSUME DeclarationAssumption ==
    /\ Forms \cup {"Commit"} \subseteq Names
    /\ UNION DOMAIN MaximumTextLength \subseteq Atom
    /\ MaximumTextLength \in [DOMAIN MaximumTextLength -> Nat]
    /\ DOMAIN Templates \subseteq Names
    /\ \A name \in DOMAIN Templates :
          Templates[name] \in [parameters : Seq(Names), body : Seq(Atom)]
    /\ Identities \in [DOMAIN Identities -> Double]
    /\ ArenaCapacities \in [DOMAIN ArenaCapacities -> Nat]
    /\ DOMAIN ArenaCapacities \subseteq Names
    /\ \A name \in DOMAIN Templates \cup DOMAIN ArenaCapacities : name \notin Forms

VARIABLES
    text,                       \* atoms of the module read so far
    body_scanners,              \* scanners on template bodies, innermost last
    control,                    \* the code that runs next
    callee,                     \* arguments of the evaluate call being made
    activations,                \* unfinished expressions, innermost last
    result,                     \* value being returned
    register_values,
    spill_stack_values,         \* its live entries; the length is the depth
    dirty_register_mask,        \* as the set of its one bits
    silicon,                    \* architectural registers after a publication
    retired_cycle_count,
    current_evaluation_depth,
    reported_error_count,
    arena_bytes,
    committed_values            \* the result stream

scanner_vars == <<text, body_scanners>>
file_vars == <<register_values, spill_stack_values, dirty_register_mask, silicon,
               retired_cycle_count>>
vars == <<text, body_scanners, control, callee, activations, result, register_values,
          spill_stack_values, dirty_register_mask, silicon, retired_cycle_count,
          current_evaluation_depth, reported_error_count, arena_bytes, committed_values>>

Registers == 0..(RegisterCount - 1)
Frame == [template : Names \cup {""}, arguments : Seq(Double)]
NoFrame == [template |-> "", arguments |-> <<>>]
Call == [destination : Nat, frame : Frame]
Activation ==
    [form : Names \cup {""},    \* "" before dispatch, else a verb or a template
     destination : Nat,         \* logical; the first scratch register follows it
     spilled : BOOLEAN,
     frame : Frame,             \* the activation frame names resolve in
     stage : Nat \ {0},         \* next step of the form
     operands : Seq(Double),    \* argument values obtained so far
     name : Names \cup {""},    \* the arena or template operand
     iteration : Nat]           \* Loop iterations started
Controls == {"directive", "open", "evaluate", "dispatch", "form", "iterate", "leave",
             "return", "close", "report", "halted"}

TypeOK ==
    /\ text \in Seq(Atom)
    /\ body_scanners \in Seq([template : DOMAIN Templates, position : Nat \ {0}])
    /\ control \in Controls
    /\ callee \in Call
    /\ activations \in Seq(Activation)
    /\ result \in Double
    /\ register_values \in [Registers -> Double]
    /\ spill_stack_values \in Seq(Double)
    /\ dirty_register_mask \subseteq Registers
    /\ silicon \in [0..(SynchronisedRegisterCount - 1) -> Double]
    /\ retired_cycle_count \in Nat
    /\ current_evaluation_depth \in Nat
    /\ reported_error_count \in Nat
    /\ arena_bytes \in [DOMAIN ArenaCapacities -> Seq(Byte)]
    /\ committed_values \in Seq(Double)

Init ==
    /\ text = <<>>
    /\ body_scanners = <<>>
    /\ control = "directive"
    /\ callee = [destination |-> 0, frame |-> NoFrame]
    /\ activations = <<>>
    /\ result = Zero
    /\ register_values = [r \in Registers |-> Zero]
    /\ spill_stack_values = <<>>
    /\ dirty_register_mask = {}
    /\ silicon = [r \in 0..(SynchronisedRegisterCount - 1) |-> Zero]
    /\ retired_cycle_count = 0
    /\ current_evaluation_depth = 0
    /\ reported_error_count = 0
    /\ arena_bytes = [name \in DOMAIN ArenaCapacities |->
                         [b \in 1..ArenaCapacities[name] |-> 0]]
    /\ committed_values = <<>>

-----------------------------------------------------------------------------
(* The scanner, the diagnostics and the register file. *)

\* What llfpl_lexical_scanner_next can return on the scanner in use.
NextAtoms ==
    IF body_scanners = <<>>
    THEN {EndOfSource} \cup
            UNION {vocabulary \in DOMAIN MaximumTextLength :
                      /\ Range(text) \subseteq vocabulary
                      /\ Len(text) < MaximumTextLength[vocabulary]}
    ELSE LET scanner == Last(body_scanners)
             body == Templates[scanner.template].body
         IN  IF scanner.position <= Len(body) THEN {body[scanner.position]} ELSE {EndOfSource}

Consume(atom) ==
    IF body_scanners = <<>>
    THEN text' = Append(text, atom) /\ UNCHANGED body_scanners
    ELSE /\ body_scanners' = [body_scanners EXCEPT ![Len(body_scanners)].position = @ + 1]
         /\ UNCHANGED text

HasFailed == reported_error_count > 0
ReportError == reported_error_count' = reported_error_count + 1

\* Mutant: an expectation raised while unwinding reads and reports as usual.
ExpectAtom_WhileUnwinding(kind, accepted, rejected) ==
    \E atom \in NextAtoms :
       /\ Consume(atom)
       /\ IF atom.kind = kind
          THEN control' = accepted /\ UNCHANGED <<result, reported_error_count>>
          ELSE control' = rejected /\ result' = Zero /\ ReportError

\* Mutant: while unwinding the atom is read, though nothing is reported.
ExpectAtom_ScannerAdvances(kind, accepted, rejected) ==
    \E atom \in NextAtoms :
       /\ Consume(atom)
       /\ IF atom.kind = kind /\ ~HasFailed
          THEN control' = accepted /\ UNCHANGED <<result, reported_error_count>>
          ELSE /\ control' = rejected
               /\ result' = Zero
               /\ IF HasFailed THEN UNCHANGED reported_error_count ELSE ReportError

\* llfpl_expression_evaluator_expect_atom: nothing is read once the evaluation
\* has failed.
ExpectAtom(kind, accepted, rejected) ==
    \/ /\ HasFailed
       /\ control' = rejected
       /\ result' = Zero
       /\ UNCHANGED <<scanner_vars, reported_error_count>>
    \/ /\ ~HasFailed
       /\ \E atom \in NextAtoms :
             /\ Consume(atom)
             /\ IF atom.kind = kind
                THEN control' = accepted /\ UNCHANGED <<result, reported_error_count>>
                ELSE control' = rejected /\ result' = Zero /\ ReportError

PhysicalRegister(logical) == logical % RegisterCount

ExceedsBank(logical) == logical >= RegisterCount

\* Mutant: the dirty bit is that of the logical index.
WriteRegister_LogicalBit(logical, value) ==
    /\ register_values' = [register_values EXCEPT ![PhysicalRegister(logical)] = value]
    /\ dirty_register_mask' = dirty_register_mask \cup {logical}

WriteRegister(logical, value) ==
    /\ register_values' = [register_values EXCEPT ![PhysicalRegister(logical)] = value]
    /\ dirty_register_mask' = dirty_register_mask \cup {PhysicalRegister(logical)}

-----------------------------------------------------------------------------
(* Module execution, as far as Commit needs it. *)

ReadDirective ==
    /\ control = "directive"
    /\ \E atom \in NextAtoms :
          /\ Consume(atom)
          /\ \/ /\ atom = EndOfSource
                /\ control' = "halted"
                /\ UNCHANGED reported_error_count
             \/ /\ atom.kind = "IDENTIFIER" /\ atom.name = "Commit"
                /\ control' = "open"
                /\ UNCHANGED reported_error_count
             \/ /\ atom # EndOfSource
                /\ ~(atom.kind = "IDENTIFIER" /\ atom.name = "Commit")
                /\ control' = "halted"
                /\ ReportError
    /\ UNCHANGED <<callee, activations, result, file_vars, current_evaluation_depth,
                   arena_bytes, committed_values>>

BeginCommit ==
    /\ control = "open"
    /\ ExpectAtom("OPEN_PARENTHESIS", "evaluate", "halted")
    /\ callee' = [destination |-> 0, frame |-> NoFrame]
    /\ UNCHANGED <<activations, file_vars, current_evaluation_depth, arena_bytes,
                   committed_values>>

\* Mutant: the synchronised mask starts at bit one.
LowRegisterMoved_MaskShifted ==
    \E r \in dirty_register_mask : 0 < r /\ r <= SynchronisedRegisterCount

LowRegisterMoved == \E r \in dirty_register_mask : r < SynchronisedRegisterCount

\* The top-level evaluation has returned, successfully or not; a bank none of
\* whose low registers moved is not published again.
Synchronise ==
    /\ control = "return"
    /\ activations = <<>>
    /\ silicon' = IF HardwareSynchronisation /\ LowRegisterMoved
                  THEN [r \in DOMAIN silicon |->
                           IF r \in Registers THEN register_values[r] ELSE Zero]
                  ELSE silicon
    /\ dirty_register_mask' = IF HardwareSynchronisation THEN {} ELSE dirty_register_mask
    /\ control' = "close"
    /\ UNCHANGED <<scanner_vars, callee, activations, result, register_values,
                   spill_stack_values, retired_cycle_count, current_evaluation_depth,
                   reported_error_count, arena_bytes, committed_values>>

CloseCommit ==
    /\ control = "close"
    /\ ExpectAtom("CLOSE_PARENTHESIS", "report", "halted")
    /\ UNCHANGED <<callee, activations, file_vars, current_evaluation_depth, arena_bytes,
                   committed_values>>

ReportCommit ==
    /\ control = "report"
    /\ IF HasFailed
       THEN control' = "halted" /\ UNCHANGED <<result, committed_values>>
       ELSE /\ committed_values' = Append(committed_values, result)
            /\ control' = "directive"
            /\ result' = Zero
    /\ UNCHANGED <<scanner_vars, callee, activations, file_vars, current_evaluation_depth,
                   reported_error_count, arena_bytes>>

-----------------------------------------------------------------------------
(* llfpl_expression_evaluator_evaluate: guards on entry, restoration on exit. *)

DepthReached == current_evaluation_depth >= MaximumEvaluationDepth
SpillExhausted ==
    ExceedsBank(callee.destination) /\ Len(spill_stack_values) >= SPILL_STACK_CAPACITY

RefuseEvaluation ==
    /\ control = "evaluate"
    /\ HasFailed \/ DepthReached \/ SpillExhausted
    /\ IF HasFailed THEN UNCHANGED reported_error_count ELSE ReportError
    /\ result' = Zero
    /\ control' = "return"
    /\ UNCHANGED <<scanner_vars, callee, activations, file_vars,
                   current_evaluation_depth, arena_bytes, committed_values>>

EnterActivation ==
    /\ control = "evaluate"
    /\ ~HasFailed /\ ~DepthReached /\ ~SpillExhausted
    /\ spill_stack_values' =
          IF ExceedsBank(callee.destination)
          THEN Append(spill_stack_values,
                      register_values[PhysicalRegister(callee.destination)])
          ELSE spill_stack_values
    /\ current_evaluation_depth' = current_evaluation_depth + 1
    /\ activations' = Append(activations,
          [form |-> "", destination |-> callee.destination,
           spilled |-> ExceedsBank(callee.destination), frame |-> callee.frame,
           stage |-> 1, operands |-> <<>>, name |-> "", iteration |-> 0])
    /\ control' = "dispatch"
    /\ UNCHANGED <<scanner_vars, callee, result, register_values, dirty_register_mask, silicon,
                   retired_cycle_count, reported_error_count, arena_bytes, committed_values>>

Active == Last(activations)
UpdateActive(activation) ==
    activations' = [activations EXCEPT ![Len(activations)] = activation]

\* Mutant: the occupant is read back without lowering the spill stack.
LeaveActivation_SpillLeaks ==
    /\ control = "leave"
    /\ activations' = Front(activations)
    /\ current_evaluation_depth' = current_evaluation_depth - 1
    /\ IF Active.spilled /\ spill_stack_values # <<>>
       THEN WriteRegister(Active.destination, Last(spill_stack_values))
       ELSE UNCHANGED <<register_values, dirty_register_mask>>
    /\ control' = "return"
    /\ UNCHANGED <<scanner_vars, callee, result, silicon, retired_cycle_count,
                   spill_stack_values, reported_error_count, arena_bytes, committed_values>>

\* Mutant: the occupant is restored to the logical index, which the register
\* file ignores as out of range.
LeaveActivation_LogicalRestore ==
    /\ control = "leave"
    /\ activations' = Front(activations)
    /\ current_evaluation_depth' = current_evaluation_depth - 1
    /\ spill_stack_values' = IF Active.spilled /\ spill_stack_values # <<>>
                             THEN Front(spill_stack_values) ELSE spill_stack_values
    /\ control' = "return"
    /\ UNCHANGED <<scanner_vars, callee, result, register_values, dirty_register_mask, silicon,
                   retired_cycle_count, reported_error_count, arena_bytes, committed_values>>

\* Mutant: a failed evaluation returns early, skipping the restoration.
LeaveActivation_EarlyReturn ==
    /\ control = "leave"
    /\ activations' = Front(activations)
    /\ current_evaluation_depth' = current_evaluation_depth - 1
    /\ IF Active.spilled /\ spill_stack_values # <<>> /\ ~HasFailed
       THEN /\ WriteRegister(Active.destination, Last(spill_stack_values))
            /\ spill_stack_values' = Front(spill_stack_values)
       ELSE UNCHANGED <<register_values, dirty_register_mask, spill_stack_values>>
    /\ control' = "return"
    /\ UNCHANGED <<scanner_vars, callee, result, silicon, retired_cycle_count,
                   reported_error_count, arena_bytes, committed_values>>

LeaveActivation ==
    /\ control = "leave"
    /\ activations' = Front(activations)
    /\ current_evaluation_depth' = current_evaluation_depth - 1
    /\ IF Active.spilled /\ spill_stack_values # <<>>
       THEN /\ WriteRegister(Active.destination, Last(spill_stack_values))
            /\ spill_stack_values' = Front(spill_stack_values)
       ELSE UNCHANGED <<register_values, dirty_register_mask, spill_stack_values>>
    /\ control' = "return"
    /\ UNCHANGED <<scanner_vars, callee, result, silicon, retired_cycle_count,
                   reported_error_count, arena_bytes, committed_values>>

\* The handler returns `value`, having written it to its destination register.
Publish(value) ==
    /\ WriteRegister(Active.destination, value)
    /\ result' = value
    /\ control' = "leave"

\* The handler abandons the expression with 0.0 and writes no register.
Fail ==
    /\ result' = Zero
    /\ control' = "leave"
    /\ UNCHANGED <<register_values, dirty_register_mask>>

-----------------------------------------------------------------------------
(* evaluate_one_expression: the atom read decides what the expression is. *)

\* The parameters of the enclosing activation; the first of a name wins.
BoundParameters(name) ==
    LET frame == Active.frame
    IN  {i \in 1..Len(frame.arguments) : Templates[frame.template].parameters[i] = name}

DispatchLiteral(atom) ==
    /\ atom.kind = "NUMERIC_LITERAL"
    /\ IF IsNaN(atom.value) THEN Fail /\ ReportError
                            ELSE Publish(atom.value) /\ UNCHANGED reported_error_count
    /\ UNCHANGED activations

DispatchForm(atom) ==
    /\ atom.kind = "IDENTIFIER"
    /\ \/ atom.name \in Forms
       \/ BoundParameters(atom.name) = {} /\ atom.name \in DOMAIN Templates
    /\ UpdateActive([Active EXCEPT !.form = atom.name])
    /\ control' = "form"
    /\ UNCHANGED <<result, register_values, dirty_register_mask, reported_error_count>>

DispatchParameter(atom) ==
    /\ atom.kind = "IDENTIFIER"
    /\ atom.name \notin Forms
    /\ \E first \in BoundParameters(atom.name) :
          /\ \A i \in BoundParameters(atom.name) : first <= i
          /\ Publish(Active.frame.arguments[first])
    /\ UNCHANGED <<activations, reported_error_count>>

DispatchIdentity(atom) ==
    /\ atom.kind = "IDENTIFIER"
    /\ atom.name \in DOMAIN Identities \ (Forms \cup DOMAIN Templates)
    /\ BoundParameters(atom.name) = {}
    /\ Publish(Identities[atom.name])
    /\ UNCHANGED <<activations, reported_error_count>>

DispatchNothing(atom) ==
    /\ atom.kind # "NUMERIC_LITERAL"
    /\ atom.kind = "IDENTIFIER" =>
          /\ atom.name \notin Forms \cup DOMAIN Templates \cup DOMAIN Identities
          /\ BoundParameters(atom.name) = {}
    /\ Fail
    /\ ReportError
    /\ UNCHANGED activations

Dispatch ==
    /\ control = "dispatch"
    /\ \E atom \in NextAtoms :
          /\ Consume(atom)
          /\ \/ DispatchLiteral(atom)
             \/ DispatchForm(atom)
             \/ DispatchParameter(atom)
             \/ DispatchIdentity(atom)
             \/ DispatchNothing(atom)
    /\ UNCHANGED <<callee, spill_stack_values, silicon, retired_cycle_count,
                   current_evaluation_depth, arena_bytes, committed_values>>

-----------------------------------------------------------------------------
(* The handlers: each reads its argument list step by step, then concludes. *)

OPEN == "OPEN_PARENTHESIS"
CLOSE == "CLOSE_PARENTHESIS"
SEPARATOR == "ARGUMENT_SEPARATOR"

TemplateSteps(parameter_count) ==
    <<OPEN>> \o
    [i \in 1..(IF parameter_count = 0 THEN 0 ELSE 2 * parameter_count - 1) |->
        IF i % 2 = 1 THEN "EVALUATE" ELSE SEPARATOR]
    \o <<CLOSE>>

Steps(form) ==
    IF form \in PrimitiveOperations THEN <<OPEN, "EVALUATE", SEPARATOR, "EVALUATE", CLOSE>>
    ELSE IF form = "Branch"
    THEN <<OPEN, "EVALUATE", SEPARATOR, "EVALUATE", SEPARATOR, "EVALUATE", CLOSE>>
    ELSE IF form = "Loop" THEN <<OPEN, "EVALUATE", SEPARATOR, "NAME", CLOSE>>
    ELSE IF form = "write_offset"
    THEN <<OPEN, "NAME", SEPARATOR, "EVALUATE", SEPARATOR, "EVALUATE", CLOSE>>
    ELSE IF form = "read_offset" THEN <<OPEN, "NAME", SEPARATOR, "EVALUATE", CLOSE>>
    ELSE TemplateSteps(Len(Templates[form].parameters))

ArgumentsRead == Active.stage > Len(Steps(Active.form))
NextStep == Steps(Active.form)[Active.stage]
Advanced == [Active EXCEPT !.stage = @ + 1]

ExpectPunctuation ==
    /\ control = "form" /\ ~ArgumentsRead
    /\ NextStep \in {OPEN, SEPARATOR, CLOSE}
    /\ ExpectAtom(NextStep, "form", "leave")
    /\ UpdateActive(Advanced)
    /\ UNCHANGED <<callee, file_vars, current_evaluation_depth, arena_bytes, committed_values>>

\* The operands of a form stay live in adjacent scratch registers; the
\* arguments of a template are bound into its frame and share the first one.
OperandDestination ==
    Active.destination + 1 + IF Active.form \in Forms THEN Len(Active.operands) ELSE 0

EvaluateOperand ==
    /\ control = "form" /\ ~ArgumentsRead
    /\ NextStep = "EVALUATE"
    /\ callee' = [destination |-> OperandDestination, frame |-> Active.frame]
    /\ control' = "evaluate"
    /\ UNCHANGED <<scanner_vars, activations, result, file_vars, current_evaluation_depth,
                   reported_error_count, arena_bytes, committed_values>>

ReturnOperand ==
    /\ control = "return" /\ activations # <<>> /\ ~ArgumentsRead
    /\ UpdateActive([Advanced EXCEPT !.operands = Append(@, result)])
    /\ control' = "form"
    /\ result' = Zero
    /\ UNCHANGED <<scanner_vars, callee, file_vars, current_evaluation_depth,
                   reported_error_count, arena_bytes, committed_values>>

\* An arena must exist as soon as it is named; a Loop's template is looked up
\* after its argument list is closed.
ReadName ==
    /\ control = "form" /\ ~ArgumentsRead
    /\ NextStep = "NAME"
    /\ \E atom \in NextAtoms :
          /\ Consume(atom)
          /\ IF /\ atom.kind = "IDENTIFIER"
                /\ Active.form = "Loop" \/ atom.name \in DOMAIN ArenaCapacities
             THEN /\ UpdateActive([Advanced EXCEPT !.name = atom.name])
                  /\ UNCHANGED <<control, result, reported_error_count>>
             ELSE /\ control' = "leave"
                  /\ result' = Zero
                  /\ ReportError
                  /\ UNCHANGED activations
    /\ UNCHANGED <<callee, file_vars, current_evaluation_depth, arena_bytes, committed_values>>

Concluding(forms) == control = "form" /\ Active.form \in forms /\ ArgumentsRead

ApplyPrimitive ==
    /\ Concluding(PrimitiveOperations)
    /\ Publish(llfpl_primitive_apply(Active.form, Active.operands[1], Active.operands[2]))
    /\ retired_cycle_count' =
          retired_cycle_count + llfpl_primitive_nominal_latency(Active.form)
    /\ UNCHANGED <<scanner_vars, callee, activations, spill_stack_values, silicon,
                   current_evaluation_depth, reported_error_count, arena_bytes,
                   committed_values>>

BranchSelection(selector, consequent, alternative) ==
    Add(Multiply(selector, consequent), Multiply(Subtract(One, selector), alternative))

BRANCH_COST == 2 * llfpl_primitive_nominal_latency("multiply")
               + llfpl_primitive_nominal_latency("minus")
               + llfpl_primitive_nominal_latency("plus")

SelectBranch ==
    /\ Concluding({"Branch"})
    /\ Publish(BranchSelection(Active.operands[1], Active.operands[2], Active.operands[3]))
    /\ retired_cycle_count' = retired_cycle_count + BRANCH_COST
    /\ UNCHANGED <<scanner_vars, callee, activations, spill_stack_values, silicon,
                   current_evaluation_depth, reported_error_count, arena_bytes,
                   committed_values>>

-----------------------------------------------------------------------------
(* Arena access. *)

\* Mutant: a fractional offset is truncated instead of refused.
IsByteOffset_Truncating(x) ==
    /\ IsFinite(x) /\ Signed(x) >= 0
    /\ x.magnitude \div QuantaPerUnit <= MaximumByteOffset

IsByteOffset(x) ==
    /\ IsFinite(x) /\ Signed(x) >= 0
    /\ x.magnitude % QuantaPerUnit = 0
    /\ x.magnitude \div QuantaPerUnit <= MaximumByteOffset
ByteOffset(x) == x.magnitude \div QuantaPerUnit

\* The bounds test is a subtraction, guarded against a capacity below the width.
OffsetAdmitsAValue(capacity, offset) ==
    capacity >= VALUE_WIDTH /\ offset <= capacity - VALUE_WIDTH

Addressable(offset_value) ==
    /\ IsByteOffset(offset_value)
    /\ OffsetAdmitsAValue(Len(arena_bytes[Active.name]), ByteOffset(offset_value))

StoreDouble(arena, offset, value) ==
    arena_bytes' = [arena_bytes EXCEPT ![arena] =
                       [[@ EXCEPT ![offset + 1] = Encoding(value)[1]]
                           EXCEPT ![offset + 2] = Encoding(value)[2]]]

LoadDouble(arena, offset) ==
    Decoding(arena_bytes[arena][offset + 1], arena_bytes[arena][offset + 2])

WriteOffset ==
    /\ Concluding({"write_offset"})
    /\ LET offset == Active.operands[1]
           value == Active.operands[2]
       IN  IF Addressable(offset)
           THEN /\ StoreDouble(Active.name, ByteOffset(offset), value)
                /\ Publish(value)
                /\ UNCHANGED reported_error_count
           ELSE Fail /\ ReportError /\ UNCHANGED arena_bytes
    /\ UNCHANGED <<scanner_vars, callee, activations, spill_stack_values, silicon,
                   retired_cycle_count, current_evaluation_depth, committed_values>>

ReadOffset ==
    /\ Concluding({"read_offset"})
    /\ LET offset == Active.operands[1]
       IN  IF Addressable(offset)
           THEN Publish(LoadDouble(Active.name, ByteOffset(offset))) /\ UNCHANGED reported_error_count
           ELSE Fail /\ ReportError
    /\ UNCHANGED <<scanner_vars, callee, activations, spill_stack_values, silicon,
                   retired_cycle_count, current_evaluation_depth, arena_bytes,
                   committed_values>>

-----------------------------------------------------------------------------
(* Template bodies: evaluated from a fresh scanner on the recorded snapshot,  *)
(* in the callee's frame, with the invoking expression's own registers.       *)

EnterBody(template, arguments) ==
    /\ body_scanners' = Append(body_scanners, [template |-> template, position |-> 1])
    /\ callee' = [destination |-> Active.destination,
                  frame |-> [template |-> template, arguments |-> arguments]]
    /\ control' = "evaluate"

InvokeTemplate ==
    /\ Concluding(DOMAIN Templates)
    /\ EnterBody(Active.form, Active.operands)
    /\ UNCHANGED <<text, activations, result, file_vars, current_evaluation_depth,
                   reported_error_count, arena_bytes, committed_values>>

\* Loop: an unknown template, then an unusable count, is refused.
BeginLoop ==
    /\ Concluding({"Loop"})
    /\ LET count == Active.operands[1]
       IN  IF /\ Active.name \in DOMAIN Templates
              /\ IsFinite(count) /\ Signed(count) >= 0
              /\ count.magnitude < LoopCountCeiling * QuantaPerUnit
           THEN control' = "iterate" /\ UNCHANGED <<result, reported_error_count>>
           ELSE control' = "leave" /\ result' = Zero /\ ReportError
    /\ UNCHANGED <<scanner_vars, callee, activations, file_vars, current_evaluation_depth,
                   arena_bytes, committed_values>>

IterationLimit == Active.operands[1].magnitude \div QuantaPerUnit

\* Mutant: an iteration that finds a failure is tried again instead of ending.
IterateLoop_FailureRetried ==
    /\ control = "iterate" /\ Active.iteration < IterationLimit
    /\ EnterBody(Active.name,
                 IF Templates[Active.name].parameters = <<>>
                 THEN <<>> ELSE <<Natural(Active.iteration)>>)
    /\ UpdateActive([Active EXCEPT !.iteration = IF HasFailed THEN @ ELSE @ + 1])
    /\ UNCHANGED <<text, result, file_vars, current_evaluation_depth, reported_error_count,
                   arena_bytes, committed_values>>

\* Only the first parameter, if there is one, is bound to the iteration index.
IterateLoop ==
    /\ control = "iterate" /\ Active.iteration < IterationLimit /\ ~HasFailed
    /\ EnterBody(Active.name,
                 IF Templates[Active.name].parameters = <<>>
                 THEN <<>> ELSE <<Natural(Active.iteration)>>)
    /\ UpdateActive([Active EXCEPT !.iteration = @ + 1])
    /\ UNCHANGED <<text, result, file_vars, current_evaluation_depth, reported_error_count,
                   arena_bytes, committed_values>>

\* The last value is published even when the last iteration failed.
EndLoop ==
    /\ control = "iterate"
    /\ \/ Active.iteration < IterationLimit /\ HasFailed /\ Fail
       \/ Active.iteration >= IterationLimit /\ Publish(result)
    /\ UNCHANGED <<scanner_vars, callee, activations, spill_stack_values, silicon,
                   retired_cycle_count, current_evaluation_depth, reported_error_count,
                   arena_bytes, committed_values>>

ReturnBody ==
    /\ control = "return" /\ activations # <<>> /\ ArgumentsRead
    /\ body_scanners' = Front(body_scanners)
    /\ control' = IF Active.form = "Loop" THEN "iterate" ELSE "leave"
    /\ UNCHANGED <<text, callee, activations, result, file_vars, current_evaluation_depth,
                   reported_error_count, arena_bytes, committed_values>>

-----------------------------------------------------------------------------

\* The module is done; the interpreter executes nothing more.
Halt == control = "halted" /\ UNCHANGED vars

Next ==
    \/ ReadDirective \/ BeginCommit \/ Synchronise \/ CloseCommit \/ ReportCommit
    \/ RefuseEvaluation \/ EnterActivation \/ LeaveActivation
    \/ Dispatch \/ ExpectPunctuation \/ EvaluateOperand \/ ReturnOperand \/ ReadName
    \/ ApplyPrimitive \/ SelectBranch \/ WriteOffset \/ ReadOffset
    \/ InvokeTemplate \/ BeginLoop \/ IterateLoop \/ EndLoop \/ ReturnBody
    \/ Halt

\* The interpreter is one thread that runs until it is done.
Spec == Init /\ [][Next]_vars /\ WF_vars(Next)

-----------------------------------------------------------------------------
(* Properties. *)

\* The spill stack has room whenever an activation within the depth limit
\* reaches its register by wrapping: push_spill never refuses, whatever the
\* program does.
SpillNeverExhausted ==
    control = "evaluate" /\ ~HasFailed /\ ~DepthReached => ~SpillExhausted

\* Between two directives nothing of an evaluation is left behind, whether it
\* succeeded or was abandoned at any depth: no activation, body scanner or
\* spilled register, and the depth counter is back to zero.
BalancedAtRest ==
    control \in {"directive", "open", "close", "report", "halted"} =>
        /\ activations = <<>>
        /\ body_scanners = <<>>
        /\ spill_stack_values = <<>>
        /\ current_evaluation_depth = 0

\* The activations above the i-th that saved physical register r, and the
\* value r holds as far as the i-th activation is concerned: what the outermost
\* of them saved, or the register itself.
SaversOf(r, i) ==
    {j \in (i + 1)..Len(activations) :
        activations[j].spilled /\ PhysicalRegister(activations[j].destination) = r}
SpillSlot(j) == Cardinality({k \in 1..j : activations[k].spilled})
Occupant(r, i) ==
    IF SaversOf(r, i) = {} THEN register_values[r]
                           ELSE spill_stack_values[SpillSlot(Min(SaversOf(r, i)))]

\* No live value is ever overwritten: an operand obtained at a register of the
\* bank stays in it, or on the spill stack of the activation that borrowed the
\* register, until its form concludes.  (The count of a running Loop is no
\* longer live: the loop has taken its limit from it.)
LiveOperandsPreserved ==
    ~HasFailed =>
        \A i \in 1..Len(activations) :
            LET a == activations[i]
            IN  a.form \in Forms /\ a.iteration = 0 =>
                    \A k \in 1..Len(a.operands) :
                        a.destination + k < RegisterCount =>
                            Occupant(a.destination + k, i) = a.operands[k]

\* The one diagnostic that identifies the defect is not followed by reports of
\* its consequences, however deep the expression that is being unwound.
AtMostOneDiagnostic == reported_error_count <= 1

\* Once anything has gone wrong the rest of the text has no effect: no value is
\* committed, no arena is written, no cost is charged and nothing more is read.
NothingAfterFailure ==
    [][HasFailed => UNCHANGED <<committed_values, arena_bytes, retired_cycle_count, text>>]_vars

\* A value reported on the result stream is the value of the result register,
\* and the publication that precedes the report has put it in the silicon.
CommittedValuePublished ==
    [][committed_values' # committed_values =>
          /\ Last(committed_values') = register_values[0]
          /\ HardwareSynchronisation => Last(committed_values') = silicon[0]]_vars

\* The claim of the primitive's comment: when the reduction is charged both
\* operands are in the scratch registers they were given.
OperandsInspectable ==
    Concluding(PrimitiveOperations) =>
        \A k \in 1..2 :
            register_values[PhysicalRegister(Active.destination + k)] = Active.operands[k]

\* The claim of the language reference: a selector of exactly one or zero
\* selects exactly the value of an arm (the two zeros being one value).
BranchSelectsExactly ==
    Concluding({"Branch"}) =>
        \A k \in {2, 3} :
            Active.operands[1] = (IF k = 2 THEN One ELSE Zero) =>
                LET selected == BranchSelection(Active.operands[1], Active.operands[2],
                                                Active.operands[3])
                IN  Signed(selected) = Signed(Active.operands[k])

\* Every module halts: recursion is cut by the depth limit and loops are bounded.
Termination == <>(control = "halted")

=============================================================================
