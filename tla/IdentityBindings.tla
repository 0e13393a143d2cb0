-------------------------- MODULE IdentityBindings --------------------------
(***************************************************************************)
(* What the symbol table promises its callers: a set of names bound once   *)
(* and for all, whatever the names hash to.  One call is in progress at a  *)
(* time and takes effect in one step.                                      *)
(***************************************************************************)
EXTENDS FiniteSets, Integers

CONSTANTS
    Names,                  \* spellings of identifiers
    StorableNames,          \* those short enough to be stored
    Values,
    GuaranteedBindings      \* bindings that always fit

VARIABLES
    bindings,               \* bound names -> values
    request,                \* the last call
    outcome                 \* what it returned, Pending while it has not

vars == <<bindings, request, outcome>>

Request == [operation : {"bind"}, name : Names, value : Values]
               \cup [operation : {"resolve"}, name : Names]
Pending == [status |-> "PENDING"]
Outcome == [status : {"OK", "SEMANTIC_ERROR", "CAPACITY_EXCEEDED", "NOT_FOUND", "PENDING"}]
               \cup [status : {"OK"}, value : Values]

Bound == DOMAIN bindings

Init ==
    /\ bindings = [name \in {} |-> 0]
    /\ request = [operation |-> "resolve", name |-> CHOOSE name \in Names : TRUE]
    /\ outcome = [status |-> "NOT_FOUND"]

Call ==
    /\ outcome # Pending
    /\ request' \in Request
    /\ outcome' = Pending
    /\ UNCHANGED bindings

Executing(operation) == outcome = Pending /\ request.operation = operation
Returned(status) == outcome' = [status |-> status] /\ UNCHANGED request

\* A new name is bound; every earlier binding is kept.
Bind ==
    /\ Executing("bind")
    /\ request.name \in StorableNames \ Bound
    /\ bindings' = [name \in Bound \cup {request.name} |->
                       IF name = request.name THEN request.value ELSE bindings[name]]
    /\ Returned("OK")

\* A name that is bound stays bound to its value.
RefuseRebind ==
    /\ Executing("bind")
    /\ request.name \in Bound
    /\ Returned("SEMANTIC_ERROR")
    /\ UNCHANGED bindings

\* There may be no room, but never for the first GuaranteedBindings names.
RefuseForCapacity ==
    /\ Executing("bind")
    /\ request.name \notin StorableNames \/ Cardinality(Bound) > GuaranteedBindings
    /\ Returned("CAPACITY_EXCEEDED")
    /\ UNCHANGED bindings

\* Exactly the bound names resolve, each to its value.
Resolve ==
    /\ Executing("resolve")
    /\ IF request.name \in Bound
       THEN /\ outcome' = [status |-> "OK", value |-> bindings[request.name]]
            /\ UNCHANGED request
       ELSE Returned("NOT_FOUND")
    /\ UNCHANGED bindings

Next == Call \/ Bind \/ RefuseRebind \/ RefuseForCapacity \/ Resolve

Spec == Init /\ [][Next]_vars

=============================================================================
