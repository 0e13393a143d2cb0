---------------------------- MODULE MemoryArena ----------------------------
(***************************************************************************)
(* The registry of arenas and the aligned allocation below it, on a memory *)
(* of addressed bytes that the rest of the process shares.  A reservation  *)
(* writes the name into the next slot, asks for storage and only then      *)
(* counts the slot.                                                        *)
(***************************************************************************)
EXTENDS Integers, FiniteSets

CONSTANTS
    Names, StorableNames,
    LLFPL_MEMORY_ARENA_REGISTRY_CAPACITY,
    LLFPL_MEMORY_ARENA_MAXIMUM_SIZE_IN_BYTES,
    WordSize,                   \* addresses and sizes are below it, and wrap at it
    PointerWidth,               \* sizeof(void *)
    Alignments,                 \* what a hardware probe may report
    RequestedSizes,             \* capacities asked for
    ForeignSizes                \* sizes of blocks that are no arenas

ASSUME ArenaAssumption ==
    /\ StorableNames \subseteq Names
    /\ LLFPL_MEMORY_ARENA_REGISTRY_CAPACITY \in Nat
    /\ LLFPL_MEMORY_ARENA_MAXIMUM_SIZE_IN_BYTES \in Nat
    /\ WordSize \in Nat \ {0}
    /\ PointerWidth \in Nat \ {0}
    /\ Alignments \subseteq Nat /\ RequestedSizes \subseteq Nat
    /\ ForeignSizes \subseteq Nat \ {0}

\* A size_t has more than 31 bits, a size is below 2^31 and an alignment below 2^16.
ASSUME RoundingAssumption ==
    \A alignment \in Alignments : LLFPL_MEMORY_ARENA_MAXIMUM_SIZE_IN_BYTES + alignment <= WordSize

Slots == 0..(LLFPL_MEMORY_ARENA_REGISTRY_CAPACITY - 1)
NULL == 0

VARIABLES
    arenas,                     \* the slots of the registry
    arena_count,
    alignment_in_bytes,         \* 0 until the registry is initialised
    heap,                       \* live blocks
    request, status             \* the last reservation and what it returned

registry_vars == <<arenas, arena_count, alignment_in_bytes>>
vars == <<registry_vars, heap, request, status>>

Arena == [name : StorableNames \cup {""}, base_address : 0..(WordSize - 1), capacity_in_bytes : Nat]
Empty == [name |-> "", base_address |-> NULL, capacity_in_bytes |-> 0]
Block == [address : 1..(WordSize - 1), size : 1..WordSize, owner : {"arena", "other"}]
Statuses == {"OK", "INVALID_ARGUMENT", "CAPACITY_EXCEEDED", "SEMANTIC_ERROR", "OUT_OF_MEMORY"}

TypeOK ==
    /\ arenas \in [Slots -> Arena]
    /\ arena_count \in 0..LLFPL_MEMORY_ARENA_REGISTRY_CAPACITY
    /\ alignment_in_bytes \in Alignments \cup {0}
    /\ heap \subseteq Block
    /\ request \in [name : Names, capacity : RequestedSizes]
    /\ status \in Statuses

Init ==
    /\ arenas = [i \in Slots |-> Empty]
    /\ arena_count = 0
    /\ alignment_in_bytes = 0
    /\ heap = {}
    /\ request \in [name : Names, capacity : RequestedSizes]
    /\ status = "OK"

-----------------------------------------------------------------------------
(* llfpl_aligned_allocate. *)

AlignmentIsValid(alignment) ==
    alignment >= PointerWidth /\ \E exponent \in 0..alignment : alignment = 2^exponent

\* Mutant: not rounded.
Rounded_Not(size, alignment) == size
Rounded(size, alignment) ==
    LET raised == (size + alignment - 1) % WordSize IN raised - (raised % alignment)

Allocatable(size, alignment) ==
    /\ AlignmentIsValid(alignment) /\ size # 0
    /\ Rounded(size, alignment) >= size

Bytes(block) == block.address..(block.address + block.size - 1)

\* The C library finds any free place on the boundary, if it does.
Placements(size, alignment, owner) ==
    {block \in [address : 1..(WordSize - 1), size : {size}, owner : {owner}] :
        /\ (block.address % alignment) = 0
        /\ block.address + size <= WordSize
        /\ \A other \in heap : Bytes(block) \cap Bytes(other) = {}}

-----------------------------------------------------------------------------
(* The registry. *)

Initialise(alignment) ==
    /\ arena_count = 0
    /\ AlignmentIsValid(alignment)
    /\ arenas' = [i \in Slots |-> Empty]
    /\ arena_count' = 0
    /\ alignment_in_bytes' = alignment
    /\ UNCHANGED <<heap, request, status>>

\* Mutant: the last arena is not released.
Released_AllButLast == 0..(arena_count - 2)
Released == 0..(arena_count - 1)

Release ==
    /\ alignment_in_bytes # 0
    /\ heap' = {block \in heap : \A i \in Released : block.address # arenas[i].base_address}
    /\ arenas' = [i \in Slots |->
                     IF i \in Released
                     THEN [arenas[i] EXCEPT !.base_address = NULL, !.capacity_in_bytes = 0]
                     ELSE arenas[i]]
    /\ arena_count' = 0
    /\ UNCHANGED <<alignment_in_bytes, request, status>>

\* The slots a lookup compares.
Visible == 0..(arena_count - 1)
Lookup(name) == {i \in Visible : arenas[i].name = name}

\* Mutant: a name may be reserved twice.
MayReserve_Again(name) == name \in StorableNames
MayReserve(name) == Lookup(name) = {} /\ name \in StorableNames

Asks(name, capacity) ==
    /\ alignment_in_bytes # 0
    /\ request' = [name |-> name, capacity |-> capacity]
    /\ UNCHANGED alignment_in_bytes

SizeIsValid(capacity) == capacity \in 1..LLFPL_MEMORY_ARENA_MAXIMUM_SIZE_IN_BYTES
RegistryIsFull == arena_count >= LLFPL_MEMORY_ARENA_REGISTRY_CAPACITY

Refuse(name, capacity) ==
    /\ Asks(name, capacity)
    /\ \/ ~SizeIsValid(capacity) /\ status' = "INVALID_ARGUMENT"
       \/ SizeIsValid(capacity) /\ RegistryIsFull /\ status' = "CAPACITY_EXCEEDED"
       \/ /\ SizeIsValid(capacity) /\ ~RegistryIsFull
          /\ Lookup(name) # {}
          /\ status' = "SEMANTIC_ERROR"
       \/ /\ SizeIsValid(capacity) /\ ~RegistryIsFull
          /\ name \notin StorableNames
          /\ status' = "CAPACITY_EXCEEDED"
    /\ UNCHANGED <<arenas, arena_count, heap>>

Admitted(name, capacity) ==
    /\ Asks(name, capacity)
    /\ SizeIsValid(capacity) /\ ~RegistryIsFull
    /\ MayReserve(name)

\* The name stays in the slot.
RefuseStorage(name, capacity) ==
    /\ Admitted(name, capacity)
    /\ arenas' = [arenas EXCEPT ![arena_count].name = name]
    /\ status' = IF Allocatable(capacity, alignment_in_bytes)
                 THEN "OUT_OF_MEMORY" ELSE "INVALID_ARGUMENT"
    /\ UNCHANGED <<arena_count, heap>>

Reserve(name, capacity) ==
    /\ Admitted(name, capacity)
    /\ Allocatable(capacity, alignment_in_bytes)
    /\ \E block \in Placements(Rounded(capacity, alignment_in_bytes), alignment_in_bytes, "arena") :
          /\ heap' = heap \cup {block}
          /\ arenas' = [arenas EXCEPT ![arena_count] =
                           [name |-> name, base_address |-> block.address,
                            capacity_in_bytes |-> capacity]]
    /\ arena_count' = arena_count + 1
    /\ status' = "OK"

-----------------------------------------------------------------------------
(* The rest of the process. *)

AllocateElsewhere ==
    /\ \E size \in ForeignSizes : \E block \in Placements(size, 1, "other") :
          heap' = heap \cup {block}
    /\ \A block \in heap : block.owner # "other"
    /\ UNCHANGED <<registry_vars, request, status>>

ReleaseElsewhere ==
    /\ \E block \in heap : block.owner = "other" /\ heap' = heap \ {block}
    /\ UNCHANGED <<registry_vars, request, status>>

-----------------------------------------------------------------------------

Next ==
    \/ \E alignment \in Alignments : Initialise(alignment)
    \/ Release
    \/ \E name \in Names, capacity \in RequestedSizes :
          Refuse(name, capacity) \/ RefuseStorage(name, capacity) \/ Reserve(name, capacity)
    \/ AllocateElsewhere \/ ReleaseElsewhere

Spec == Init /\ [][Next]_vars

-----------------------------------------------------------------------------
(* Properties. *)

Lines(first, size) == {byte \div alignment_in_bytes : byte \in first..(first + size - 1)}

\* An arena's bytes lie in a live block of its own, from a line's boundary on,
\* and no other block of the process has a byte in one of its lines.
ArenasOwnTheirLines ==
    \A i \in Visible : \E block \in heap :
       LET own == arenas[i]
       IN  /\ block.address = own.base_address /\ (block.address % alignment_in_bytes) = 0
           /\ own.capacity_in_bytes <= block.size
           /\ \A other \in heap \ {block} :
                 Lines(own.base_address, own.capacity_in_bytes)
                    \cap Lines(other.address, other.size) = {}

\* A block is held by exactly one arena from its allocation until the release,
\* and none outlives the registry.
NothingLeaked ==
    \A block \in heap : block.owner = "arena" =>
       Cardinality({i \in Visible : arenas[i].base_address = block.address}) = 1

\* The registry, seen through its lookup, implements the reserved arenas: a
\* refused reservation makes no difference although its name was written.
Promise == INSTANCE ReservedArenas WITH
    ArenaCapacity <- LLFPL_MEMORY_ARENA_REGISTRY_CAPACITY,
    MaximumSize <- LLFPL_MEMORY_ARENA_MAXIMUM_SIZE_IN_BYTES,
    extents <- [name \in {n \in StorableNames : Lookup(n) # {}} |->
                   LET i == CHOOSE i \in Lookup(name) : TRUE
                   IN  [address |-> arenas[i].base_address,
                        capacity |-> arenas[i].capacity_in_bytes]]
Implements == Promise!Spec

\* The claim of the header: to reserve a name that is reserved is a semantic
\* error, never a capacity error.
ReservedIsSemanticError ==
    [][Lookup(request'.name) # {} => status' # "CAPACITY_EXCEEDED"]_vars

\* The claim of the header: no arena is smaller than a value.
ArenasHoldAValue(width) == \A i \in Visible : arenas[i].capacity_in_bytes >= width

=============================================================================
