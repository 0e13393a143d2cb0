-------------------------- MODULE TemplateSegment --------------------------
(***************************************************************************)
(* Map: a declaration is read atom by atom into the next definition of the *)
(* segment, which becomes visible when its index is entered into an        *)
(* open-addressed table of names.  A declaration that fails leaves what it *)
(* has written in the definition, for the next one to overwrite.           *)
(***************************************************************************)
EXTENDS AtomText

CONSTANTS
    LLFPL_TEMPLATE_SEGMENT_CAPACITY,
    LLFPL_TEMPLATE_PARAMETER_CAPACITY,
    LLFPL_TEMPLATE_INDEX_SLOT_COUNT,
    HomeSlots                   \* name -> its hash modulo the slot count

Capacity == LLFPL_TEMPLATE_SEGMENT_CAPACITY
IndexSlots == 0..(LLFPL_TEMPLATE_INDEX_SLOT_COUNT - 1)

\* The half occupancy the header asserts leaves a slot free, which is all the
\* probe loops need.
ASSUME SegmentAssumption ==
    /\ LLFPL_TEMPLATE_SEGMENT_CAPACITY \in Nat
    /\ LLFPL_TEMPLATE_PARAMETER_CAPACITY \in Nat
    /\ LLFPL_TEMPLATE_INDEX_SLOT_COUNT \in Nat
    /\ LLFPL_TEMPLATE_SEGMENT_CAPACITY < LLFPL_TEMPLATE_INDEX_SLOT_COUNT
    /\ HomeSlots \in [StorableNames -> IndexSlots]

EMPTY_SLOT == Capacity          \* the index of no definition

VARIABLES
    definitions,
    definition_count,
    name_index,                 \* slot -> definition or EMPTY_SLOT
    sources,                    \* the texts the declared templates were read from
    control,                    \* what the call in progress reads next
    open_parenthesis_depth,
    outcome                     \* of the last call

segment_vars == <<definitions, definition_count, name_index, sources>>
vars == <<text_vars, segment_vars, control, open_parenthesis_depth, outcome>>

\* The fields a definition has after memset are those it has not been given.
Definition == [name : Seq(StorableNames), parameters : Seq(StorableNames), body_snapshot : Nat]
Blank == [name |-> <<>>, parameters |-> <<>>, body_snapshot |-> 0]
NameOf(i) == definitions[i].name[1]
Controls == {"idle", "open", "name", "separator", "parameters", "body", "arguments", "close"}
Failures == {"SYNTAX_ERROR", "SEMANTIC_ERROR", "CAPACITY_EXCEEDED"}

TypeOK ==
    /\ TextTypeOK
    /\ definitions \in [0..(Capacity - 1) -> Definition]
    /\ definition_count \in 0..Capacity
    /\ control # "idle" => definition_count < Capacity
    /\ name_index \in [IndexSlots -> 0..Capacity]
    /\ sources \in [0..(definition_count - 1) -> Seq(Atom)]
    /\ control \in Controls
    /\ open_parenthesis_depth \in Nat
    /\ outcome \in Failures \cup {"OK", "PENDING"}
    /\ outcome = "PENDING" <=> control # "idle"

Init ==
    /\ text = <<>> /\ cursor = 1
    /\ definitions = [i \in 0..(Capacity - 1) |-> Blank]
    /\ definition_count = 0
    /\ name_index = [slot \in IndexSlots |-> EMPTY_SLOT]
    /\ sources = [i \in {} |-> <<>>]
    /\ control = "idle"
    /\ open_parenthesis_depth = 0
    /\ outcome = "OK"

-----------------------------------------------------------------------------
(* The name index. *)

ProbeSlot(home, k) == (home + k) % LLFPL_TEMPLATE_INDEX_SLOT_COUNT

\* The first of the slots that the probe from home comes to, none if there is none.
FirstStop(home, slots) ==
    {ProbeSlot(home, k) : k \in
        {k \in IndexSlots : /\ ProbeSlot(home, k) \in slots
                            /\ \A j \in 0..(k - 1) : ProbeSlot(home, j) \notin slots}}

EmptySlots == {slot \in IndexSlots : name_index[slot] = EMPTY_SLOT}
SlotsOf(name) == {slot \in IndexSlots \ EmptySlots : NameOf(name_index[slot]) = name}

\* llfpl_template_segment_lookup: no template, or one.
Lookup(name) ==
    IF name \notin StorableNames THEN {}
    ELSE {name_index[slot] : slot \in FirstStop(HomeSlots[name], EmptySlots \cup SlotsOf(name))}
            \ {EMPTY_SLOT}

FreeSlot(name) == CHOOSE slot \in FirstStop(HomeSlots[name], EmptySlots) : TRUE

-----------------------------------------------------------------------------
(* Steps of a call. *)

Fail(status) ==
    /\ control' = "idle"
    /\ outcome' = status

Proceed(next_control) ==
    /\ control' = next_control
    /\ UNCHANGED outcome

This == definitions[definition_count]
Write(field, value) ==
    definitions' = [definitions EXCEPT ![definition_count][field] = value]
Untouched == UNCHANGED <<definition_count, name_index, sources>>

Lookaheads == IF control \in {"parameters", "body"} THEN 2 ELSE 1
Reading(place) == control = place /\ Settled(Lookaheads)

ReadText ==
    /\ control # "idle"
    /\ Settle(Lookaheads)
    /\ UNCHANGED <<segment_vars, control, open_parenthesis_depth, outcome>>

-----------------------------------------------------------------------------
(* llfpl_template_segment_define. *)

\* Mutant: the definition is not cleared.
Cleared_Not == UNCHANGED definitions
Cleared == definitions' = [definitions EXCEPT ![definition_count] = Blank]

SegmentFull == definition_count >= Capacity

Define ==
    /\ control = "idle"
    /\ text' = <<>> /\ cursor' = 1
    /\ IF SegmentFull
       THEN Fail("CAPACITY_EXCEEDED") /\ UNCHANGED definitions
       ELSE control' = "open" /\ outcome' = "PENDING" /\ Cleared
    /\ UNCHANGED <<open_parenthesis_depth>> /\ Untouched

Expects == [open |-> "OPEN_PARENTHESIS", separator |-> "ARGUMENT_SEPARATOR",
            close |-> "CLOSE_PARENTHESIS"]
Follows == [open |-> "name", separator |-> "parameters"]

ExpectAtom ==
    /\ control \in {"open", "separator"}
    /\ Settled(1)
    /\ Advance(1)
    /\ IF Reads(Expects[control]) THEN Proceed(Follows[control]) ELSE Fail("SYNTAX_ERROR")
    /\ UNCHANGED <<segment_vars, open_parenthesis_depth>>

\* llfpl_verb_is_reserved is the predicate Map is given.
IsReserved(name) == name \in VerbNames

RefuseName ==
    /\ Reading("name")
    /\ Advance(1)
    /\ \/ ~Reads("IDENTIFIER") /\ Fail("SYNTAX_ERROR") /\ UNCHANGED definitions
       \/ /\ Reads("IDENTIFIER") /\ IsReserved(NextAtom.name)
          /\ Fail("SEMANTIC_ERROR") /\ UNCHANGED definitions
       \/ /\ Reads("IDENTIFIER")
          /\ NextAtom.name \notin StorableNames /\ ~IsReserved(NextAtom.name)
          /\ Fail("CAPACITY_EXCEEDED") /\ UNCHANGED definitions
       \/ /\ Reads("IDENTIFIER")
          /\ NextAtom.name \in StorableNames /\ ~IsReserved(NextAtom.name)
          /\ Lookup(NextAtom.name) # {}
          /\ Fail("SEMANTIC_ERROR") /\ Write("name", <<NextAtom.name>>)
    /\ UNCHANGED open_parenthesis_depth /\ Untouched

TakeName ==
    /\ Reading("name")
    /\ Reads("IDENTIFIER")
    /\ NextAtom.name \in StorableNames /\ ~IsReserved(NextAtom.name)
    /\ Lookup(NextAtom.name) = {}
    /\ Advance(1)
    /\ Write("name", <<NextAtom.name>>)
    /\ Proceed("separator")
    /\ UNCHANGED open_parenthesis_depth /\ Untouched

\* A name and a separator after it are one more parameter.
AtParameter ==
    /\ Reading("parameters")
    /\ Reads("IDENTIFIER")
    /\ SecondAtom.kind = "ARGUMENT_SEPARATOR"

\* Mutant: one parameter fewer than there is room for.
ParametersFull_OffByOne == Len(This.parameters) + 1 >= LLFPL_TEMPLATE_PARAMETER_CAPACITY
ParametersFull == Len(This.parameters) >= LLFPL_TEMPLATE_PARAMETER_CAPACITY

RefuseParameter ==
    /\ AtParameter
    /\ \/ ParametersFull /\ Fail("CAPACITY_EXCEEDED")
       \/ ~ParametersFull /\ IsReserved(NextAtom.name) /\ Fail("SEMANTIC_ERROR")
       \/ /\ ~ParametersFull /\ ~IsReserved(NextAtom.name)
          /\ NextAtom.name \notin StorableNames
          /\ Fail("CAPACITY_EXCEEDED")
    /\ UNCHANGED <<text_vars, segment_vars, open_parenthesis_depth>>

TakeParameter ==
    /\ AtParameter
    /\ ~ParametersFull
    /\ NextAtom.name \in StorableNames /\ ~IsReserved(NextAtom.name)
    /\ Write("parameters", Append(This.parameters, NextAtom.name))
    /\ Advance(2)
    /\ UNCHANGED <<control, open_parenthesis_depth, outcome>> /\ Untouched

TakeSnapshot ==
    /\ Reading("parameters")
    /\ ~AtParameter
    /\ UNCHANGED text_vars
    /\ Write("body_snapshot", cursor)
    /\ Proceed("body")
    /\ UNCHANGED open_parenthesis_depth /\ Untouched

\* skip_one_expression.
RefuseBody ==
    /\ Reading("body")
    /\ Reads("END_OF_SOURCE") \/ Reads("UNRECOGNISED")
    /\ Advance(1)
    /\ Fail("SYNTAX_ERROR")
    /\ UNCHANGED <<segment_vars, open_parenthesis_depth>>

BeginBody ==
    /\ Reading("body")
    /\ ~Reads("END_OF_SOURCE") /\ ~Reads("UNRECOGNISED")
    /\ Advance(1)
    /\ Proceed(IF Reads("IDENTIFIER") /\ SecondAtom.kind = "OPEN_PARENTHESIS"
               THEN "arguments" ELSE "close")
    /\ open_parenthesis_depth' = 0
    /\ UNCHANGED segment_vars

DepthAfter ==
    CASE Reads("OPEN_PARENTHESIS") -> open_parenthesis_depth + 1
      [] Reads("CLOSE_PARENTHESIS") -> open_parenthesis_depth - 1
      [] OTHER -> open_parenthesis_depth

\* Mutant: the end of the source ends no argument list.
Unterminated_Never == FALSE
Unterminated == Reads("END_OF_SOURCE")

SkipArgument ==
    /\ Reading("arguments")
    /\ ~Unterminated
    /\ Advance(1)
    /\ open_parenthesis_depth' = DepthAfter
    /\ Proceed(IF DepthAfter > 0 THEN "arguments" ELSE "close")
    /\ UNCHANGED segment_vars

RefuseArguments ==
    /\ Reading("arguments")
    /\ Unterminated
    /\ Advance(1)
    /\ Fail("SYNTAX_ERROR")
    /\ UNCHANGED <<segment_vars, open_parenthesis_depth>>

RefuseClose ==
    /\ Reading("close")
    /\ ~Reads("CLOSE_PARENTHESIS")
    /\ Advance(1)
    /\ Fail("SYNTAX_ERROR")
    /\ UNCHANGED <<segment_vars, open_parenthesis_depth>>

Complete ==
    /\ Reading("close")
    /\ Reads("CLOSE_PARENTHESIS")
    /\ Advance(1)
    /\ name_index' = [name_index EXCEPT ![FreeSlot(This.name[1])] = definition_count]
    /\ definition_count' = definition_count + 1
    /\ sources' = [i \in 0..definition_count |->
                      IF i = definition_count THEN SubSeq(text, 1, cursor) ELSE sources[i]]
    /\ control' = "idle"
    /\ outcome' = "OK"
    /\ UNCHANGED <<definitions, open_parenthesis_depth>>

-----------------------------------------------------------------------------

Step ==
    \/ ReadText \/ ExpectAtom \/ RefuseName \/ TakeName
    \/ RefuseParameter \/ TakeParameter \/ TakeSnapshot
    \/ RefuseBody \/ BeginBody \/ SkipArgument \/ RefuseArguments
    \/ RefuseClose \/ Complete

Next == Define \/ Step

\* The module may hold no further declaration, but one that is begun is read.
Spec == Init /\ [][Next]_vars /\ WF_vars(Step)

-----------------------------------------------------------------------------
(* Properties. *)

Defined == 0..(definition_count - 1)

BodyOf(i) ==
    SubSeq(sources[i], definitions[i].body_snapshot, Len(sources[i]) - 1)

\* The templates that a lookup finds, and what the call in progress has read.
Templates ==
    [name \in {n \in StorableNames : Lookup(n) # {}} |->
        LET i == CHOOSE i \in Lookup(name) : TRUE
        IN  [parameters |-> definitions[i].parameters, body |-> BodyOf(i)]]
Consumed == SubSeq(text, 1, cursor - 1)

\* The segment, seen through its lookup, implements the declarations: the two
\* atoms of look-ahead find the parameters and the body the grammar means, what
\* the snapshot begins with is the body, and a declaration that fails leaves no
\* trace, not even in the definition the next one is written to.
Promise == INSTANCE TemplateDeclarations WITH
    DeclarableNames <- StorableNames \ VerbNames,
    ParameterCapacity <- LLFPL_TEMPLATE_PARAMETER_CAPACITY,
    TemplateCapacity <- LLFPL_TEMPLATE_SEGMENT_CAPACITY,
    consumed <- Consumed,
    templates <- Templates
Implements == Promise!Spec

\* The ends that turn the beginning of a declaration into one.
ShortestDeclaration(name, value) ==
    <<[kind |-> "OPEN_PARENTHESIS"], [kind |-> "IDENTIFIER", name |-> name],
      [kind |-> "ARGUMENT_SEPARATOR"], [kind |-> "NUMERIC_LITERAL", value |-> value],
      [kind |-> "CLOSE_PARENTHESIS"]>>
Completions ==
    {SubSeq(ShortestDeclaration(name, value), n, 5)
         : name \in Names, value \in Literals, n \in 1..6}
        \cup {[i \in 1..n |-> [kind |-> "CLOSE_PARENTHESIS"]]
                 : n \in 1..(open_parenthesis_depth + 2)}

\* No call fails while what it has read, its look-ahead included, is how a
\* declaration may begin.
LegalNeverRefused ==
    [][control # "idle" /\ outcome' \in Failures
          => \A completion \in Completions : ~Promise!IsDeclaration(text \o completion)]_vars

\* A call returns: probes, parameters and argument lists end.
EveryCallReturns == control # "idle" ~> control = "idle"

\* The claim of the grammar: the body of a template is an expression.
BodyIsExpression ==
    \A i \in Defined :
       sources[i][definitions[i].body_snapshot].kind \in {"IDENTIFIER", "NUMERIC_LITERAL"}

\* The claim of the language reference: no template or parameter has the name
\* of a directive.
NoDirectiveDeclared ==
    \A i \in Defined : NameOf(i) \notin DirectiveNames

=============================================================================
