------------------------- MODULE InterpreterSession -------------------------
(***************************************************************************)
(* What a session owns and when: the blocks, mapped texts and descriptors  *)
(* the system hands out, and the pointers that hold them, from the first   *)
(* allocation of the constructor to the last release of the teardown.      *)
(* Every request to the system may be refused, and what is released may be *)
(* handed out again at once.                                               *)
(***************************************************************************)
EXTENDS Integers, FiniteSets

CONSTANTS
    Handles,                    \* addresses and descriptors the system may hand out
    NULL,
    LLFPL_MEMORY_ARENA_REGISTRY_CAPACITY,
    LLFPL_MAXIMUM_LOADED_MODULES,
    ReportedSizes,              \* cache line sizes a probe may report
    PointerWidth,               \* sizeof(void *)
    WidthLimit,                 \* UINT16_MAX
    LLFPL_FALLBACK_CACHE_LINE_SIZE_IN_BYTES,
    LLFPL_VIRTUAL_REGISTER_COUNT

IsPowerOfTwo(n) == \E exponent \in 0..n : n = 2^exponent

ASSUME SessionAssumption ==
    /\ NULL \notin Handles
    /\ LLFPL_MEMORY_ARENA_REGISTRY_CAPACITY \in Nat /\ LLFPL_MAXIMUM_LOADED_MODULES \in Nat
    /\ ReportedSizes \subseteq Int /\ PointerWidth \in Nat /\ WidthLimit \in Nat
    /\ LLFPL_VIRTUAL_REGISTER_COUNT \in 1..16
    /\ LLFPL_FALLBACK_CACHE_LINE_SIZE_IN_BYTES \in PointerWidth..WidthLimit
    /\ IsPowerOfTwo(LLFPL_FALLBACK_CACHE_LINE_SIZE_IN_BYTES)

VARIABLES
    stage,                      \* where the constructor, the session or the teardown is
    live,                       \* handles handed out and not given back
    pointers,                   \* what every pointer of the program holds
    arena_count, mapping_count,
    alignment_in_bytes,         \* of the probed topology
    status                      \* of the last constructor

vars == <<stage, live, pointers, arena_count, mapping_count, alignment_in_bytes, status>>

\* The pointers: locals, fields of the session, and the entries of its registries.
Local(name) == <<name, 0>>
ArenaBase(i) == <<"base_address", i>>
Text(i) == <<"text_begin", i>>
Descriptor(i) == <<"file_descriptor", i>>
Session == Local("session")
RegisterStorage == Local("register_storage")
Opened == Local("opened")
RegisterFile == {Local("register_values"), Local("spill_stack_values")}
SymbolTable == {Local("records")}
ArenaRegistry == {ArenaBase(i) : i \in 0..(arena_count - 1)}
MappingRegistry == {Text(i) : i \in 0..(mapping_count - 1)}
                      \cup {Descriptor(i) : i \in 0..(mapping_count - 1)}

Pointers ==
    {Session, RegisterStorage, Opened} \cup RegisterFile \cup SymbolTable
       \cup {ArenaBase(i) : i \in 0..(LLFPL_MEMORY_ARENA_REGISTRY_CAPACITY - 1)}
       \cup {Text(i) : i \in 0..(LLFPL_MAXIMUM_LOADED_MODULES - 1)}
       \cup {Descriptor(i) : i \in 0..(LLFPL_MAXIMUM_LOADED_MODULES - 1)}

Constructing == {"registers", "spill", "symbols", "arenas"}
Destroying == {"release symbols", "release registers", "release mappings", "free"}
Stages == {"none", "ready", "opened"} \cup Constructing \cup Destroying

TypeOK ==
    /\ stage \in Stages
    /\ live \subseteq Handles
    /\ pointers \in [Pointers -> Handles \cup {NULL}]
    /\ arena_count \in 0..LLFPL_MEMORY_ARENA_REGISTRY_CAPACITY
    /\ mapping_count \in 0..LLFPL_MAXIMUM_LOADED_MODULES
    /\ alignment_in_bytes \in Nat
    /\ status \in {"OK", "INVALID_ARGUMENT", "OUT_OF_MEMORY"}

Init ==
    /\ stage = "none"
    /\ live = {}
    /\ pointers = [p \in Pointers |-> NULL]
    /\ arena_count = 0 /\ mapping_count = 0
    /\ alignment_in_bytes = 0
    /\ status = "OK"

-----------------------------------------------------------------------------
(* The probe, and the tests of those it serves. *)

\* Mutant: a power of two is not asked for.
UsableLineSize_Any(size) == size \in PointerWidth..WidthLimit
UsableLineSize(size) == size \in PointerWidth..WidthLimit /\ IsPowerOfTwo(size)

\* The operating system's answer, the processor's, the fallback.
Probed(system, processor) ==
    IF UsableLineSize(system) THEN system
    ELSE IF UsableLineSize(processor) THEN processor
    ELSE LLFPL_FALLBACK_CACHE_LINE_SIZE_IN_BYTES

AlignmentIsValid == alignment_in_bytes >= PointerWidth /\ IsPowerOfTwo(alignment_in_bytes)
RegisterCountIsValid == LLFPL_VIRTUAL_REGISTER_COUNT \in 1..16

-----------------------------------------------------------------------------
(* The system hands out and takes back. *)

Acquire(p) ==
    \E handle \in Handles \ live :
       /\ live' = live \cup {handle}
       /\ pointers' = [pointers EXCEPT ![p] = handle]

Held(owners) == {pointers[p] : p \in owners}

GiveBack(owners) ==
    /\ live' = live \ Held(owners)
    /\ pointers' = [p \in Pointers |-> IF p \in owners THEN NULL ELSE pointers[p]]

\* The fields of the session go with it.
FreeSessionAnd(owners) ==
    /\ live' = live \ Held(owners \cup {Session})
    /\ pointers' = [p \in Pointers |-> NULL]

-----------------------------------------------------------------------------
(* llfpl_interpreter_session_create. *)

counts == <<arena_count, mapping_count>>

RefuseSession ==
    /\ stage = "none"
    /\ status' = "OUT_OF_MEMORY"
    /\ UNCHANGED <<stage, live, pointers, counts, alignment_in_bytes>>

AllocateSession ==
    /\ stage = "none"
    /\ Acquire(Session)
    /\ \E system, processor \in ReportedSizes : alignment_in_bytes' = Probed(system, processor)
    /\ stage' = "registers"
    /\ UNCHANGED <<counts, status>>

AllocateRegisters ==
    /\ stage = "registers"
    /\ RegisterCountIsValid /\ AlignmentIsValid
    /\ Acquire(RegisterStorage)
    /\ stage' = "spill"
    /\ UNCHANGED <<counts, alignment_in_bytes, status>>

\* The fields are assigned together, after the second allocation.
AllocateSpillStack ==
    /\ stage = "spill"
    /\ AlignmentIsValid
    /\ \E handle \in Handles \ live :
          /\ live' = live \cup {handle}
          /\ pointers' = [pointers EXCEPT
                ![RegisterStorage] = NULL,
                ![Local("register_values")] = pointers[RegisterStorage],
                ![Local("spill_stack_values")] = handle]
    /\ stage' = "symbols"
    /\ UNCHANGED <<counts, alignment_in_bytes, status>>

AllocateSymbols ==
    /\ stage = "symbols"
    /\ AlignmentIsValid
    /\ Acquire(Local("records"))
    /\ stage' = "arenas"
    /\ UNCHANGED <<counts, alignment_in_bytes, status>>

\* The last constructor that may refuse, and those that may not.
Complete ==
    /\ stage = "arenas"
    /\ AlignmentIsValid
    /\ stage' = "ready"
    /\ arena_count' = 0 /\ mapping_count' = 0
    /\ status' = "OK"
    /\ UNCHANGED <<live, pointers, alignment_in_bytes>>

\* What a constructor that refuses finds to be released.
\* Mutant: the register file is left when the symbol table refuses.
Undone_NoRegisters ==
    [registers |-> {}, spill |-> {RegisterStorage}, symbols |-> {},
     arenas |-> SymbolTable \cup RegisterFile][stage]
Undone ==
    [registers |-> {}, spill |-> {RegisterStorage}, symbols |-> RegisterFile,
     arenas |-> SymbolTable \cup RegisterFile][stage]

IsInvalid ==
    \/ ~AlignmentIsValid
    \/ stage = "registers" /\ ~RegisterCountIsValid

Refuse ==
    /\ stage \in Constructing
    /\ stage = "arenas" => IsInvalid
    /\ status' = IF IsInvalid THEN "INVALID_ARGUMENT" ELSE "OUT_OF_MEMORY"
    /\ FreeSessionAnd(Undone)
    /\ stage' = "none"
    /\ UNCHANGED <<counts, alignment_in_bytes>>

-----------------------------------------------------------------------------
(* A session that executes: arenas and texts. *)

ReserveArena ==
    /\ stage = "ready"
    /\ arena_count < LLFPL_MEMORY_ARENA_REGISTRY_CAPACITY
    /\ Acquire(ArenaBase(arena_count))
    /\ arena_count' = arena_count + 1
    /\ UNCHANGED <<stage, mapping_count, alignment_in_bytes, status>>

\* Mutant: one mapping more than there is room for.
MappingsFull_OffByOne == mapping_count > LLFPL_MAXIMUM_LOADED_MODULES
MappingsFull == mapping_count >= LLFPL_MAXIMUM_LOADED_MODULES

OpenSource ==
    /\ stage = "ready"
    /\ ~MappingsFull
    /\ Acquire(Opened)
    /\ stage' = "opened"
    /\ UNCHANGED <<counts, alignment_in_bytes, status>>

MapSource ==
    /\ stage = "opened"
    /\ \E handle \in Handles \ live :
          /\ live' = live \cup {handle}
          /\ pointers' = [pointers EXCEPT
                ![Opened] = NULL,
                ![Descriptor(mapping_count)] = pointers[Opened],
                ![Text(mapping_count)] = handle]
    /\ mapping_count' = mapping_count + 1
    /\ stage' = "ready"
    /\ UNCHANGED <<arena_count, alignment_in_bytes, status>>

\* The state cannot be read, the file is not regular or empty, or cannot be mapped.
\* Mutant: the descriptor stays open.
Declined_Open == {}
Declined == {Opened}

DeclineSource ==
    /\ stage = "opened"
    /\ GiveBack(Declined)
    /\ stage' = "ready"
    /\ UNCHANGED <<counts, alignment_in_bytes, status>>

-----------------------------------------------------------------------------
(* llfpl_interpreter_session_destroy. *)

ReleaseArenas ==
    /\ stage = "ready"
    /\ GiveBack(ArenaRegistry)
    /\ arena_count' = 0
    /\ stage' = "release symbols"
    /\ UNCHANGED <<mapping_count, alignment_in_bytes, status>>

ReleaseSymbols ==
    /\ stage = "release symbols"
    /\ GiveBack(SymbolTable)
    /\ stage' = "release registers"
    /\ UNCHANGED <<counts, alignment_in_bytes, status>>

ReleaseRegisters ==
    /\ stage = "release registers"
    /\ GiveBack(RegisterFile)
    /\ stage' = "release mappings"
    /\ UNCHANGED <<counts, alignment_in_bytes, status>>

ReleaseMappings ==
    /\ stage = "release mappings"
    /\ GiveBack(MappingRegistry)
    /\ mapping_count' = 0
    /\ stage' = "free"
    /\ UNCHANGED <<arena_count, alignment_in_bytes, status>>

FreeSession ==
    /\ stage = "free"
    /\ FreeSessionAnd({})
    /\ stage' = "none"
    /\ UNCHANGED <<counts, alignment_in_bytes, status>>

-----------------------------------------------------------------------------

Create == RefuseSession \/ AllocateSession \/ AllocateRegisters \/ AllocateSpillStack
             \/ AllocateSymbols \/ Complete \/ Refuse
Execute == ReserveArena \/ OpenSource \/ MapSource \/ DeclineSource
Destroy == ReleaseArenas \/ ReleaseSymbols \/ ReleaseRegisters \/ ReleaseMappings \/ FreeSession

Next == Create \/ Execute \/ Destroy

Spec == Init /\ [][Next]_vars

-----------------------------------------------------------------------------
(* Properties. *)

\* At every step of construction, execution and teardown each handle the
\* system handed out is held by exactly one pointer, and no pointer holds a
\* handle that was given back: nothing leaks, dangles or is released twice.
OwnedOnce ==
    /\ \A p \in Pointers : pointers[p] # NULL => pointers[p] \in live
    /\ \A handle \in live : \E p \in Pointers : pointers[p] = handle
    /\ \A p, q \in Pointers : pointers[p] = pointers[q] => p = q \/ pointers[p] = NULL

\* A constructor that refused and a session that was destroyed leave nothing.
NothingLeft == stage = "none" => live = {}

\* The tests of the probe are those of all it serves: only memory is refused.
OnlyMemoryRefused == status # "INVALID_ARGUMENT"

=============================================================================
