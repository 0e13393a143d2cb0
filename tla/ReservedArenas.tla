--------------------------- MODULE ReservedArenas ---------------------------
(***************************************************************************)
(* What the arena registry promises: names stand for extents of memory,    *)
(* each from its reservation until all are released, whatever fails in     *)
(* between.                                                                *)
(***************************************************************************)
EXTENDS Integers, FiniteSets

CONSTANTS
    Names, StorableNames,
    ArenaCapacity,              \* arenas at most
    MaximumSize

VARIABLES
    extents,                    \* reserved names -> [address, capacity]
    request,                    \* arguments of the last reservation
    status                      \* what it returned

vars == <<extents, request, status>>

Reserved == DOMAIN extents

Init ==
    /\ extents = [name \in {} |-> 0]
    /\ status = "OK"

\* A name that is new gets the capacity that was asked for.
Reserve ==
    /\ request'.name \in StorableNames \ Reserved
    /\ request'.capacity \in 1..MaximumSize
    /\ Reserved' = Reserved \cup {request'.name}
    /\ \A name \in Reserved : extents'[name] = extents[name]
    /\ extents'[request'.name].capacity = request'.capacity
    /\ status' = "OK"

\* A refusal has its reason; memory may be exhausted at any time.
Refuse ==
    /\ UNCHANGED extents
    /\ CASE status' = "INVALID_ARGUMENT" -> request'.capacity \notin 1..MaximumSize
         [] status' = "CAPACITY_EXCEEDED" ->
               Cardinality(Reserved) = ArenaCapacity \/ request'.name \notin StorableNames
         [] status' = "SEMANTIC_ERROR" -> request'.name \in Reserved
         [] OTHER -> status' = "OUT_OF_MEMORY" /\ request'.name \notin Reserved

Release ==
    /\ Reserved' = {}
    /\ UNCHANGED <<request, status>>

Next == Reserve \/ Refuse \/ Release

Spec == Init /\ [][Next]_vars

=============================================================================
