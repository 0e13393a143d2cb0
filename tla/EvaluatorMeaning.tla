-------------------------- MODULE EvaluatorMeaning --------------------------
(***************************************************************************)
(* What a module of Commit directives means, without registers, spills,    *)
(* scanners or an explicit stack, and the claim that the evaluator computes *)
(* it.  A machine carries the atoms still to be read, the arenas, the cost *)
(* charged and the last value; nothing is done on a failed machine.  The   *)
(* meanings are functions of a number of steps, or of a depth, still       *)
(* allowed, so that they can be reasoned about.                            *)
(***************************************************************************)
EXTENDS ExpressionEvaluator

Machine == [atoms : Seq(Atom), failed : BOOLEAN, value : Double, cost : Nat,
            arenas : [DOMAIN ArenaCapacities -> Seq(Byte)]]

Failed(m) ==
    [atoms |-> <<>>, failed |-> TRUE, value |-> Zero, cost |-> m.cost, arenas |-> m.arenas]
Yield(m, value) == [m EXCEPT !.value = value]
Charge(m, cost) == [m EXCEPT !.cost = @ + cost]
Reading(m, atoms) == [m EXCEPT !.atoms = atoms]
NextOf(m) == IF m.atoms = <<>> THEN EndOfSource ELSE Head(m.atoms)
Rest(m) == IF m.atoms = <<>> THEN m ELSE Reading(m, Tail(m.atoms))

\* Reads one atom of the given kind.
Skip(m, kind) ==
    IF m.failed THEN m
    ELSE IF NextOf(m).kind = kind THEN Rest(m) ELSE Failed(m)

\* In the rest of this module g is the meaning of an expression: a function
\* from a machine and the frame the expression stands in to a machine.

\* The value of a template's body, which leaves the caller's text alone.
Restored(m, atoms) == IF m.failed THEN m ELSE Reading(m, atoms)
Body(g, m, template, arguments) ==
    Restored(g[<<Yield(Reading(m, Templates[template].body), Zero),
                 [template |-> template, arguments |-> arguments]>>], m.atoms)

\* A template that a loop repeats is given the index, if it has a parameter.
IndexArguments(template, index) ==
    IF Templates[template].parameters = <<>> THEN <<>> ELSE <<Natural(index)>>

\* The iterations of a loop: i of `limit` are left.
Repeating(g, template, limit) ==
    LET repeat[i \in Nat] ==
           [m \in Machine |->
               IF m.failed \/ i = 0 THEN m
               ELSE repeat[i - 1][Body(g, m, template, IndexArguments(template, limit - i))]]
    IN  repeat

-----------------------------------------------------------------------------
(* Forms: an argument list, then what the form makes of the arguments.     *)

\* The arguments of a form: the name of an arena or template, or a value.
Arguments(form) ==
    CASE form \in PrimitiveOperations -> <<"EVALUATE", "EVALUATE">>
      [] form = "Branch" -> <<"EVALUATE", "EVALUATE", "EVALUATE">>
      [] form = "Loop" -> <<"EVALUATE", "NAME">>
      [] form = "write_offset" -> <<"NAME", "EVALUATE", "EVALUATE">>
      [] form = "read_offset" -> <<"NAME", "EVALUATE">>
      [] OTHER -> [i \in 1..Len(Templates[form].parameters) |-> "EVALUATE"]

\* An argument list as it is written, between parentheses and with separators.
ArgumentList(form) ==
    LET count == Len(Arguments(form))
    IN  [s \in 1..(IF count = 0 THEN 2 ELSE 2 * count + 1) |->
            IF s = 1 THEN OPEN
            ELSE IF s = 2 * count + 1 \/ count = 0 THEN CLOSE
            ELSE IF s % 2 = 0 THEN Arguments(form)[s \div 2] ELSE SEPARATOR]

\* A configuration: a machine, and the arguments obtained so far.
Configuration == [machine : Machine, values : Seq(Double), name : Names \cup {""}]

Obtained(c, m) ==
    [machine |-> Yield(m, Zero), values |-> Append(c.values, m.value), name |-> c.name]

\* Reads an argument, or a piece of punctuation.
Read(g, c, form, frame, wanted) ==
    IF wanted = "EVALUATE" THEN Obtained(c, g[<<c.machine, frame>>])
    ELSE IF wanted = "NAME"
    THEN LET atom == NextOf(c.machine)
         IN  IF atom.kind = "IDENTIFIER" /\ (form = "Loop" \/ atom.name \in DOMAIN ArenaCapacities)
             THEN [machine |-> Rest(c.machine), values |-> c.values, name |-> atom.name]
             ELSE [machine |-> Failed(c.machine), values |-> c.values, name |-> c.name]
    ELSE [machine |-> Skip(c.machine, wanted), values |-> c.values, name |-> c.name]

Accessed(m, form, arena, values) ==
    LET offset == values[1].magnitude \div QuantaPerUnit
        bytes == m.arenas[arena]
    IN  IF ~(/\ IsFinite(values[1]) /\ values[1].magnitude % QuantaPerUnit = 0
             /\ values[1].negative => IsZero(values[1])
             /\ offset <= MaximumByteOffset /\ offset + VALUE_WIDTH <= Len(bytes))
        THEN Failed(m)
        ELSE IF form = "read_offset"
        THEN Yield(m, Decoding(bytes[offset + 1], bytes[offset + 2]))
        ELSE Yield([m EXCEPT !.arenas[arena] =
                       [b \in DOMAIN bytes |->
                           IF b \in {offset + 1, offset + 2}
                           THEN Encoding(values[2])[b - offset] ELSE bytes[b]]], values[2])

\* What a form makes of its arguments.
Conclusion(g, c, form) ==
    LET m == c.machine
        args == c.values
        limit == args[1].magnitude \div QuantaPerUnit
    IN  IF form \in PrimitiveOperations
        THEN Charge(Yield(m, llfpl_primitive_apply(form, args[1], args[2])),
                    llfpl_primitive_nominal_latency(form))
        ELSE IF form = "Branch"
        THEN Charge(Yield(m, BranchSelection(args[1], args[2], args[3])), BRANCH_COST)
        ELSE IF form \in {"write_offset", "read_offset"} THEN Accessed(m, form, c.name, args)
        ELSE IF form # "Loop" THEN Body(g, m, form, args)
        ELSE IF /\ c.name \in DOMAIN Templates
                /\ IsFinite(args[1]) /\ (args[1].negative => IsZero(args[1]))
                /\ limit < LoopCountCeiling
        THEN Repeating(g, c.name, limit)[limit][m]
        ELSE Failed(m)

\* The machine after a form of which the last k steps are left.
Finishing(g, form, frame) ==
    LET finish[k \in Nat] ==
           [c \in Configuration |->
               IF c.machine.failed THEN c.machine
               ELSE IF k = 0 THEN Conclusion(g, c, form)
               ELSE finish[k - 1][Read(g, c, form, frame,
                                       ArgumentList(form)[Len(ArgumentList(form)) + 1 - k])]]
    IN  finish

\* The meaning of the form whose name was just read.
FormMeaning(g, m, form, frame) ==
    Finishing(g, form, frame)[Len(ArgumentList(form))]
        [[machine |-> m, values |-> <<>>, name |-> ""]]

-----------------------------------------------------------------------------
(* Expressions and directives. *)

\* The expression at the head of m's atoms.
Expression(g, m, frame) ==
    LET atom == NextOf(m)
        name == atom.name
        rest == Rest(m)
        bound == {i \in 1..Len(frame.arguments) : Templates[frame.template].parameters[i] = name}
    IN  IF atom.kind = "NUMERIC_LITERAL"
        THEN IF IsNaN(atom.value) THEN Failed(m) ELSE Yield(rest, atom.value)
        ELSE IF atom.kind # "IDENTIFIER" THEN Failed(m)
        ELSE IF name \in Forms THEN FormMeaning(g, rest, name, frame)
        ELSE IF bound # {} THEN Yield(rest, frame.arguments[Min(bound)])
        ELSE IF name \in DOMAIN Templates THEN FormMeaning(g, rest, name, frame)
        ELSE IF name \in DOMAIN Identities THEN Yield(rest, Identities[name])
        ELSE Failed(m)

\* Expressions may be nested that deep.
Evaluating[depth \in Nat] ==
    [e \in Machine \X Frame |->
        IF depth = 0 THEN Failed(e[1]) ELSE Expression(Evaluating[depth - 1], e[1], e[2])]

\* A Commit whose expression has been evaluated, and one from its parenthesis.
Committed(m, outputs) ==
    LET closed == Skip(m, CLOSE)
    IN  [machine |-> Yield(closed, Zero),
         outputs |-> IF closed.failed THEN outputs ELSE Append(outputs, m.value)]
Opened(m, outputs) ==
    LET opened == Skip(m, OPEN)
    IN  Committed(IF opened.failed THEN opened
                  ELSE Evaluating[MaximumEvaluationDepth][<<opened, NoFrame>>], outputs)

Directive(m, outputs) ==
    IF NextOf(m).kind = "IDENTIFIER" /\ NextOf(m).name = "Commit" THEN Opened(Rest(m), outputs)
    ELSE [machine |-> Failed(m), outputs |-> outputs]

\* A module of at most k directives: they are executed until no atom is left or
\* one of them fails.
Executing[k \in Nat] ==
    [p \in [machine : Machine, outputs : Seq(Double)] |->
        IF p.machine.failed \/ k = 0 \/ NextOf(p.machine) = EndOfSource THEN p
        ELSE Executing[k - 1][Directive(p.machine, p.outputs)]]

\* A module of n atoms has fewer than n directives.
Meaning(atoms) ==
    Executing[Len(atoms) + 1]
        [[machine |-> [atoms |-> atoms, failed |-> FALSE, value |-> Zero, cost |-> 0,
                       arenas |-> [a \in DOMAIN ArenaCapacities |->
                                      [b \in 1..ArenaCapacities[a] |-> 0]]],
          outputs |-> <<>>]]

\* After every directive, and when the module ends, the values committed, the
\* arenas, the cost and the fact of a failure are those the text means: no
\* program can observe the register bank, the spills or the shared scanners.
OutcomeIsMeaning ==
    control \in {"directive", "halted"} =>
        LET meaning == Meaning(text)
        IN  /\ committed_values = meaning.outputs
            /\ arena_bytes = meaning.machine.arenas
            /\ retired_cycle_count = meaning.machine.cost
            /\ HasFailed = meaning.machine.failed

=============================================================================
