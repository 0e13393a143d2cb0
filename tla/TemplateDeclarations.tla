------------------------ MODULE TemplateDeclarations ------------------------
(***************************************************************************)
(* What Map promises: a declaration that has the form                      *)
(*     '(' name ( ',' parameter )* ',' body ')'                            *)
(* makes the name stand for the parameters and the body, for good; any     *)
(* other text makes no difference.                                         *)
(***************************************************************************)
EXTENDS Integers, Sequences, FiniteSets

CONSTANTS
    Atom,                       \* the atoms of texts
    DeclarableNames,            \* names a template or a parameter may have
    ParameterCapacity,
    TemplateCapacity

VARIABLES
    templates,                  \* name -> its parameters and its body
    consumed,                   \* the atoms the last call has read
    outcome                     \* what it returned, "PENDING" while it has not

vars == <<templates, consumed, outcome>>

Is(atom, kind) == atom.kind = kind

\* Parentheses opened less those closed among the first n atoms.
Depth(atoms, n) ==
    Cardinality({i \in 1..n : Is(atoms[i], "OPEN_PARENTHESIS")})
        - Cardinality({i \in 1..n : Is(atoms[i], "CLOSE_PARENTHESIS")})

\* An application ends with the parenthesis that closes its argument list.
IsApplication(body) ==
    /\ Len(body) >= 3
    /\ Is(body[1], "IDENTIFIER") /\ Is(body[2], "OPEN_PARENTHESIS")
    /\ \A n \in 2..Len(body) : ~Is(body[n], "END_OF_SOURCE")
    /\ \A n \in 2..(Len(body) - 1) : Depth(body, n) > 0
    /\ Depth(body, Len(body)) = 0

\* Whether a single atom means anything is left to the evaluation of the body.
IsBody(body) ==
    \/ Len(body) = 1 /\ ~Is(body[1], "END_OF_SOURCE") /\ ~Is(body[1], "UNRECOGNISED")
    \/ IsApplication(body)

Declared == DOMAIN templates

BodyOf(atoms, count) == SubSeq(atoms, 4 + 2 * count, Len(atoms) - 1)

\* The atoms declare a new template of `count` parameters.
Declares(atoms, count) ==
    /\ Len(atoms) > 4 + 2 * count
    /\ Is(atoms[1], "OPEN_PARENTHESIS")
    /\ Is(atoms[2], "IDENTIFIER")
    /\ atoms[2].name \in DeclarableNames \ Declared
    /\ Is(atoms[3], "ARGUMENT_SEPARATOR")
    /\ \A i \in 1..count :
          /\ Is(atoms[2 * i + 2], "IDENTIFIER")
          /\ atoms[2 * i + 2].name \in DeclarableNames
          /\ Is(atoms[2 * i + 3], "ARGUMENT_SEPARATOR")
    /\ IsBody(BodyOf(atoms, count))
    /\ Is(atoms[Len(atoms)], "CLOSE_PARENTHESIS")

IsDeclaration(atoms) == \E count \in 0..ParameterCapacity : Declares(atoms, count)

Init ==
    /\ templates = [name \in {} |-> 0]
    /\ consumed = <<>>
    /\ outcome = "OK"

\* A full segment refuses without reading.
Call ==
    /\ outcome # "PENDING"
    /\ consumed' = <<>>
    /\ outcome' = IF Cardinality(Declared) < TemplateCapacity
                  THEN "PENDING" ELSE "CAPACITY_EXCEEDED"
    /\ UNCHANGED templates

ReadOn ==
    /\ outcome = "PENDING"
    /\ consumed' \in Seq(Atom)
    /\ Len(consumed) <= Len(consumed')
    /\ consumed = SubSeq(consumed', 1, Len(consumed))

Read == ReadOn /\ UNCHANGED <<templates, outcome>>

\* What was read is the whole declaration and no more.
Declare ==
    /\ ReadOn
    /\ \E count \in 0..ParameterCapacity :
          /\ Declares(consumed', count)
          /\ templates' = [name \in Declared \cup {consumed'[2].name} |->
                              IF name \in Declared THEN templates[name]
                              ELSE [parameters |-> [i \in 1..count |-> consumed'[2 * i + 2].name],
                                    body |-> BodyOf(consumed', count)]]
    /\ outcome' = "OK"

Refuse ==
    /\ ReadOn
    /\ outcome' \in {"SYNTAX_ERROR", "SEMANTIC_ERROR", "CAPACITY_EXCEEDED"}
    /\ UNCHANGED templates

Next == Call \/ Read \/ Declare \/ Refuse

Spec == Init /\ [][Next]_vars

=============================================================================
