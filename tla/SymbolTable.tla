---------------------------- MODULE SymbolTable ----------------------------
(***************************************************************************)
(* The coalesced-chaining hash table of identities.  Slots below           *)
(* PrimarySlots are homes, which names hash to; the others are the cellar, *)
(* which absorbs collisions.  A call takes one step for each record it     *)
(* examines.  Nothing is ever removed.                                     *)
(***************************************************************************)
EXTENDS Integers, FiniteSets

CONSTANTS
    Names,                  \* spellings of identifiers
    StorableNames,          \* those within LLFPL_MAXIMUM_IDENTIFIER_LENGTH
    Values,
    PrimarySlots,           \* LLFPL_SYMBOL_TABLE_PRIMARY_SLOTS
    TotalSlots,             \* LLFPL_SYMBOL_TABLE_TOTAL_SLOTS
    HomeSlots               \* name -> its hash modulo PrimarySlots

ASSUME SymbolTableAssumption ==
    /\ Names # {}
    /\ StorableNames \subseteq Names
    /\ PrimarySlots \in Nat \ {0}
    /\ TotalSlots \in Nat
    /\ PrimarySlots <= TotalSlots
    /\ HomeSlots \in [Names -> 0..(PrimarySlots - 1)]

Slots == 0..(TotalSlots - 1)

\* A link that is no slot.
CHAIN_TERMINATOR == TotalSlots

VARIABLES
    records,                    \* names and values of the slots that are occupied
    next_in_chain,              \* link of every slot
    occupied_record_count,
    next_cellar_candidate,
    control,                    \* where the call in progress stands
    request,                    \* its arguments
    chain_slot,                 \* the record it examines
    outcome                     \* what it returned; value_out is written with "OK" only

vars == <<records, next_in_chain, occupied_record_count, next_cellar_candidate, control,
          request, chain_slot, outcome>>
table_vars == <<records, next_in_chain, occupied_record_count, next_cellar_candidate>>

Record == [name : StorableNames, value : Values]
Request == [operation : {"bind"}, name : Names, value : Values]
               \cup [operation : {"resolve"}, name : Names]
Pending == [status |-> "PENDING"]
Outcome == [status : {"OK", "SEMANTIC_ERROR", "CAPACITY_EXCEEDED", "NOT_FOUND", "PENDING"}]
               \cup [status : {"OK"}, value : Values]
Controls == {"idle", "bind", "walk", "claim", "resolve", "probe"}

Occupied == DOMAIN records

TypeOK ==
    /\ Occupied \subseteq Slots
    /\ records \in [Occupied -> Record]
    /\ next_in_chain \in [Slots -> Slots \cup {CHAIN_TERMINATOR}]
    /\ occupied_record_count \in 0..TotalSlots
    /\ next_cellar_candidate \in PrimarySlots..TotalSlots
    /\ control \in Controls
    /\ request \in Request
    /\ control \in {"bind", "walk", "claim"} => request.operation = "bind"
    /\ control \in {"resolve", "probe"} => request.operation = "resolve"
    /\ chain_slot \in Slots \cup {CHAIN_TERMINATOR}
    /\ outcome \in Outcome
    /\ outcome = Pending <=> control # "idle"

\* The session starts as if a name had not been found.
Init ==
    /\ records = [slot \in {} |-> 0]
    /\ next_in_chain = [slot \in Slots |-> CHAIN_TERMINATOR]
    /\ occupied_record_count = 0
    /\ next_cellar_candidate = PrimarySlots
    /\ control = "idle"
    /\ request = [operation |-> "resolve", name |-> CHOOSE name \in Names : TRUE]
    /\ chain_slot = CHAIN_TERMINATOR
    /\ outcome = [status |-> "NOT_FOUND"]

Home == HomeSlots[request.name]

Return(answer) ==
    /\ control' = "idle"
    /\ outcome' = answer
    /\ chain_slot' = CHAIN_TERMINATOR
    /\ UNCHANGED request

Occupy(slot) ==
    /\ records' = [s \in Occupied \cup {slot} |->
                      IF s = slot THEN [name |-> request.name, value |-> request.value]
                      ELSE records[s]]
    /\ occupied_record_count' = occupied_record_count + 1

Follow(slot, next_control) ==
    /\ chain_slot' = slot
    /\ control' = next_control
    /\ UNCHANGED <<table_vars, request, outcome>>

-----------------------------------------------------------------------------

Call ==
    /\ control = "idle"
    /\ request' \in Request
    /\ control' = request'.operation
    /\ outcome' = Pending
    /\ UNCHANGED <<table_vars, chain_slot>>

-----------------------------------------------------------------------------
(* llfpl_symbol_table_bind_span. *)

Storable == request.name \in StorableNames
Full == occupied_record_count >= TotalSlots

RefuseBind ==
    /\ control = "bind"
    /\ ~Storable \/ Full
    /\ Return([status |-> "CAPACITY_EXCEEDED"])
    /\ UNCHANGED table_vars

BindAtHome ==
    /\ control = "bind"
    /\ Storable /\ ~Full
    /\ Home \notin Occupied
    /\ Occupy(Home)
    /\ Return([status |-> "OK"])
    /\ UNCHANGED <<next_in_chain, next_cellar_candidate>>

EnterChain ==
    /\ control = "bind"
    /\ Storable /\ ~Full
    /\ Home \in Occupied
    /\ Follow(Home, "walk")

RefuseRebind ==
    /\ control = "walk"
    /\ records[chain_slot].name = request.name
    /\ Return([status |-> "SEMANTIC_ERROR"])
    /\ UNCHANGED table_vars

\* Mutant: the loop is left before the last record of the chain is compared.
Walk_LastUncompared ==
    /\ control = "walk"
    /\ IF next_in_chain[chain_slot] = CHAIN_TERMINATOR
       THEN Follow(chain_slot, "claim")
       ELSE /\ records[chain_slot].name # request.name
            /\ Follow(next_in_chain[chain_slot], "walk")

Walk ==
    /\ control = "walk"
    /\ records[chain_slot].name # request.name
    /\ IF next_in_chain[chain_slot] = CHAIN_TERMINATOR
       THEN Follow(chain_slot, "claim")
       ELSE Follow(next_in_chain[chain_slot], "walk")

CellarExhausted == next_cellar_candidate >= TotalSlots

\* Mutant: the new record is linked to the head of the chain.
ClaimCellarSlot_LinkedAtHome ==
    /\ control = "claim"
    /\ ~CellarExhausted
    /\ next_cellar_candidate' = next_cellar_candidate + 1
    /\ Occupy(next_cellar_candidate)
    /\ next_in_chain' = [next_in_chain EXCEPT ![Home] = next_cellar_candidate]
    /\ Return([status |-> "OK"])

\* Mutant: the cursor rises only past slots that turn out to be taken, one of
\* which it finds again and again.
ClaimCellarSlot_CursorStays ==
    /\ control = "claim"
    /\ ~CellarExhausted
    /\ UNCHANGED next_cellar_candidate
    /\ IF next_cellar_candidate \in Occupied
       THEN UNCHANGED <<records, next_in_chain, occupied_record_count, control, request,
                        chain_slot, outcome>>
       ELSE /\ Occupy(next_cellar_candidate)
            /\ next_in_chain' = [next_in_chain EXCEPT ![chain_slot] = next_cellar_candidate]
            /\ Return([status |-> "OK"])

\* The candidate is tested for being free although it always is.
ClaimCellarSlot ==
    /\ control = "claim"
    /\ ~CellarExhausted
    /\ next_cellar_candidate' = next_cellar_candidate + 1
    /\ IF next_cellar_candidate \in Occupied
       THEN UNCHANGED <<records, next_in_chain, occupied_record_count, control, request,
                        chain_slot, outcome>>
       ELSE /\ Occupy(next_cellar_candidate)
            /\ next_in_chain' = [next_in_chain EXCEPT ![chain_slot] = next_cellar_candidate]
            /\ Return([status |-> "OK"])

RefuseForCellar ==
    /\ control = "claim"
    /\ CellarExhausted
    /\ Return([status |-> "CAPACITY_EXCEEDED"])
    /\ UNCHANGED table_vars

-----------------------------------------------------------------------------
(* llfpl_symbol_table_resolve_span. *)

RefuseResolve ==
    /\ control = "resolve"
    /\ ~Storable
    /\ Return([status |-> "NOT_FOUND"])
    /\ UNCHANGED table_vars

BeginProbe ==
    /\ control = "resolve"
    /\ Storable
    /\ Follow(Home, "probe")

Probe ==
    /\ control = "probe"
    /\ chain_slot \in Occupied
    /\ IF records[chain_slot].name = request.name
       THEN /\ Return([status |-> "OK", value |-> records[chain_slot].value])
            /\ UNCHANGED table_vars
       ELSE Follow(next_in_chain[chain_slot], "probe")

EndProbe ==
    /\ control = "probe"
    /\ chain_slot = CHAIN_TERMINATOR \/ chain_slot \notin Occupied
    /\ Return([status |-> "NOT_FOUND"])
    /\ UNCHANGED table_vars

-----------------------------------------------------------------------------

Step ==
    \/ RefuseBind \/ BindAtHome \/ EnterChain \/ RefuseRebind \/ Walk
    \/ ClaimCellarSlot \/ RefuseForCellar
    \/ RefuseResolve \/ BeginProbe \/ Probe \/ EndProbe

Next == Call \/ Step

\* The caller may make no call, but a call it has made is executed.
Spec == Init /\ [][Next]_vars /\ WF_vars(Step)

-----------------------------------------------------------------------------
(* Properties. *)

HomeOf(slot) == HomeSlots[records[slot].name]
Successors(slot) == {q \in Occupied : q > slot /\ HomeOf(q) = HomeOf(slot)}

\* The chain of a home begins in the home itself and leads upwards through all
\* the records with that home: no chain is cut, merged with another or closed
\* into a cycle, and none invades the homes of others, however the collisions
\* of different homes interleave in the cellar.
ChainsComplete ==
    \A s \in Occupied :
       /\ HomeOf(s) \in Occupied
       /\ s = HomeOf(s) \/ s >= PrimarySlots
       /\ IF Successors(s) = {}
          THEN next_in_chain[s] = CHAIN_TERMINATOR
          ELSE next_in_chain[s] \in Successors(s)
                  /\ \A q \in Successors(s) : next_in_chain[s] <= q

BoundNames == {records[s].name : s \in Occupied}

\* The table implements a set of immutable bindings.
Bindings == INSTANCE IdentityBindings WITH
    GuaranteedBindings <- TotalSlots - PrimarySlots,
    bindings <- [name \in BoundNames |->
                    records[CHOOSE s \in Occupied : records[s].name = name].value]
Implements == Bindings!Spec

\* A call returns: chains end.
EveryCallReturns == control # "idle" ~> control = "idle"

Returning(status) == control # "idle" /\ control' = "idle" /\ outcome'.status = status

\* The claim of the header: binding a bound name is a semantic error.
RebindIsSemanticError ==
    [][control = "bind" /\ request.name \in BoundNames => ~Returning("CAPACITY_EXCEEDED")]_vars

\* The claim of the language reference: a session holds TotalSlots identities.
EverySlotUsable ==
    [][Storable /\ Cardinality(Occupied) < TotalSlots => ~Returning("CAPACITY_EXCEEDED")]_vars

=============================================================================
