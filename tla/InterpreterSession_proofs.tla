--------------------- MODULE InterpreterSession_proofs ---------------------
(***************************************************************************)
(* For every number of handles, arenas and source files: whatever the      *)
(* system refuses, every handle has exactly one owner, and none is left    *)
(* when there is no session.  The argument counts nothing: at each stage   *)
(* only certain pointers may hold something, a pointer that acquires is    *)
(* one that holds nothing, and what a refusal or the teardown gives back   *)
(* is all that may be held.                                                *)
(*   Then the command line that asks for the session (CommandLine): what   *)
(* it means, and the list of directories that is made of it.               *)
(***************************************************************************)
EXTENDS InterpreterSession, CommandLineMeaning, FiniteSetTheorems, WellFoundedInduction, TLAPS

Owned == {p \in Pointers : pointers[p] # NULL}

\* The pointers that may hold something at a stage.
Allowed ==
    CASE stage = "none" -> {}
      [] stage = "registers" -> {Session}
      [] stage = "spill" -> {Session, RegisterStorage}
      [] stage = "symbols" -> {Session} \cup RegisterFile
      [] stage = "arenas" -> {Session} \cup RegisterFile \cup SymbolTable
      [] stage = "ready" ->
            {Session} \cup RegisterFile \cup SymbolTable \cup ArenaRegistry \cup MappingRegistry
      [] stage = "opened" ->
            {Session, Opened} \cup RegisterFile \cup SymbolTable
               \cup ArenaRegistry \cup MappingRegistry
      [] stage = "release symbols" ->
            {Session} \cup RegisterFile \cup SymbolTable \cup MappingRegistry
      [] stage = "release registers" -> {Session} \cup RegisterFile \cup MappingRegistry
      [] stage = "release mappings" -> {Session} \cup MappingRegistry
      [] OTHER -> {Session}

\* A file is opened only when there is room for its text.
RoomForOpened == stage = "opened" => mapping_count < LLFPL_MAXIMUM_LOADED_MODULES

IInv == TypeOK /\ OwnedOnce /\ Owned \subseteq Allowed /\ RoomForOpened

-----------------------------------------------------------------------------
(* The four ways the pointers change. *)

\* A pointer that holds nothing takes a fresh handle.
LEMMA AcquireKeeps ==
    ASSUME TypeOK, OwnedOnce, NEW p \in Pointers, p \notin Owned, Acquire(p)
    PROVE  /\ live' \subseteq Handles /\ pointers' \in [Pointers -> Handles \cup {NULL}]
           /\ OwnedOnce'
           /\ Owned' \subseteq Owned \cup {p}
<1>1. PICK handle \in Handles \ live :
          /\ live' = live \cup {handle}
          /\ pointers' = [pointers EXCEPT ![p] = handle]
  BY DEF Acquire
<1>2. handle # NULL /\ pointers[p] = NULL
  BY SessionAssumption DEF Owned
<1>3. /\ pointers'[p] = handle
      /\ \A q \in Pointers \ {p} : pointers'[q] = pointers[q]
  BY <1>1 DEF TypeOK
<1>4. live' \subseteq Handles /\ pointers' \in [Pointers -> Handles \cup {NULL}]
  BY <1>1 DEF TypeOK
<1>5. \A q \in Pointers : pointers'[q] # NULL => pointers'[q] \in live'
  BY <1>1, <1>3 DEF OwnedOnce
<1>6. \A h \in live' : \E q \in Pointers : pointers'[q] = h
  <2>1. TAKE h \in live'
  <2>2. CASE h = handle
    BY <2>2, <1>3
  <2>3. CASE h \in live
    <3>1. PICK q \in Pointers : pointers[q] = h
      BY <2>3 DEF OwnedOnce
    <3>2. q # p
      BY <2>3, <3>1, <1>2, SessionAssumption DEF TypeOK
    <3>3. QED
      BY <3>1, <3>2, <1>3
  <2>4. QED
    BY <2>1, <2>2, <2>3, <1>1
<1>7. \A q, r \in Pointers : pointers'[q] = pointers'[r] => q = r \/ pointers'[q] = NULL
  <2>1. \A q \in Pointers : pointers[q] # handle
    BY <1>1, <1>2 DEF OwnedOnce
  <2>2. QED
    BY <2>1, <1>3 DEF OwnedOnce
<1>8. Owned' \subseteq Owned \cup {p}
  BY <1>3 DEF Owned
<1>9. QED
  BY <1>4, <1>5, <1>6, <1>7, <1>8 DEF OwnedOnce

\* A local hands its handle to a field while another takes a fresh one.
LEMMA MoveKeeps ==
    ASSUME TypeOK, OwnedOnce,
           NEW p \in Pointers, NEW q \in Pointers \ {p}, NEW r \in Pointers \ {p, q},
           q \notin Owned, r \notin Owned,
           NEW handle \in Handles \ live,
           live' = live \cup {handle},
           pointers' = [pointers EXCEPT ![p] = NULL, ![q] = pointers[p], ![r] = handle]
    PROVE  /\ live' \subseteq Handles /\ pointers' \in [Pointers -> Handles \cup {NULL}]
           /\ OwnedOnce'
           /\ Owned' \subseteq (Owned \ {p}) \cup {q, r}
<1>1. handle # NULL /\ pointers[q] = NULL /\ pointers[r] = NULL
  BY SessionAssumption DEF Owned
<1>2. /\ pointers'[p] = NULL /\ pointers'[q] = pointers[p] /\ pointers'[r] = handle
      /\ \A s \in Pointers \ {p, q, r} : pointers'[s] = pointers[s]
  BY DEF TypeOK
<1>3. live' \subseteq Handles /\ pointers' \in [Pointers -> Handles \cup {NULL}]
  BY DEF TypeOK
<1>4. \A s \in Pointers : pointers'[s] # NULL => pointers'[s] \in live'
  <2>1. \A s \in Pointers : pointers[s] # NULL => pointers[s] \in live'
    BY DEF OwnedOnce
  <2>2. handle \in live'
    OBVIOUS
  <2>3. TAKE s \in Pointers
  <2>4. s = p \/ s = q \/ s = r \/ s \in Pointers \ {p, q, r}
    OBVIOUS
  <2>5. QED
    BY <2>1, <2>2, <2>4, <1>2
<1>5. \A h \in live' : \E s \in Pointers : pointers'[s] = h
  <2>1. TAKE h \in live'
  <2>2. CASE h = handle
    BY <2>2, <1>2
  <2>3. CASE h \in live
    <3>1. PICK s \in Pointers : pointers[s] = h
      BY <2>3 DEF OwnedOnce
    <3>2. h # NULL
      BY <2>3, SessionAssumption DEF TypeOK
    <3>3. CASE s = p
      BY <3>1, <3>3, <1>2
    <3>4. CASE s # p
      BY <3>1, <3>2, <3>4, <1>1, <1>2
    <3>5. QED
      BY <3>3, <3>4
  <2>4. QED
    BY <2>1, <2>2, <2>3
<1>6. \A s, t \in Pointers : pointers'[s] = pointers'[t] => s = t \/ pointers'[s] = NULL
  <2>1. \A s \in Pointers : pointers[s] # handle
    BY <1>1 DEF OwnedOnce
  <2>2. \A s \in Pointers \ {p, q, r} : pointers[s] = pointers[p] => pointers[s] = NULL
    BY DEF OwnedOnce
  <2>3. SUFFICES ASSUME NEW s \in Pointers, NEW t \in Pointers, s # t,
                        pointers'[s] = pointers'[t]
                 PROVE  pointers'[s] = NULL
    OBVIOUS
  <2>4. CASE s = p \/ t = p
    BY <2>3, <2>4, <1>2
  <2>5. CASE s = r \/ t = r
    <3>1. \A u \in Pointers \ {r} : pointers'[u] # handle
      BY <2>1, <1>1, <1>2
    <3>2. QED
      BY <2>3, <2>5, <3>1, <1>2
  <2>6. CASE s \notin {p, r} /\ t \notin {p, r}
    <3>1. CASE s = q
      BY <2>2, <2>3, <2>6, <3>1, <1>2
    <3>2. CASE t = q
      BY <2>2, <2>3, <2>6, <3>2, <1>2
    <3>3. CASE s # q /\ t # q
      <4>1. pointers[s] = pointers[t] /\ pointers'[s] = pointers[s]
        BY <2>3, <2>6, <3>3, <1>2
      <4>2. QED
        BY <2>3, <4>1 DEF OwnedOnce
    <3>4. QED
      BY <3>1, <3>2, <3>3
  <2>7. QED
    BY <2>4, <2>5, <2>6
<1>7. Owned' \subseteq (Owned \ {p}) \cup {q, r}
  BY <1>2 DEF Owned
<1>8. QED
  BY <1>3, <1>4, <1>5, <1>6, <1>7 DEF OwnedOnce

\* Owners give their handles back.
LEMMA GiveBackKeeps ==
    ASSUME TypeOK, OwnedOnce, NEW owners \in SUBSET Pointers, GiveBack(owners)
    PROVE  /\ live' \subseteq Handles /\ pointers' \in [Pointers -> Handles \cup {NULL}]
           /\ OwnedOnce'
           /\ Owned' \subseteq Owned \ owners
<1>1. /\ live' = live \ Held(owners)
      /\ \A p \in owners : pointers'[p] = NULL
      /\ \A p \in Pointers \ owners : pointers'[p] = pointers[p]
  BY DEF GiveBack
<1>2. live' \subseteq Handles /\ pointers' \in [Pointers -> Handles \cup {NULL}]
  BY DEF GiveBack, TypeOK
<1>3. \A p \in Pointers : pointers'[p] # NULL => pointers'[p] \in live'
  <2>1. SUFFICES ASSUME NEW p \in Pointers, pointers'[p] # NULL
                 PROVE  pointers'[p] \in live'
    OBVIOUS
  <2>2. p \notin owners /\ pointers'[p] = pointers[p] /\ pointers[p] # NULL
    BY <1>1, <2>1
  <2>3. pointers[p] \notin Held(owners)
    BY <2>2 DEF Held, OwnedOnce
  <2>4. QED
    BY <1>1, <2>2, <2>3 DEF OwnedOnce
<1>4. \A h \in live' : \E p \in Pointers : pointers'[p] = h
  <2>1. TAKE h \in live'
  <2>2. PICK p \in Pointers : pointers[p] = h
    BY <1>1 DEF OwnedOnce
  <2>3. p \notin owners
    BY <1>1, <2>2 DEF Held
  <2>4. QED
    BY <1>1, <2>2, <2>3
<1>5. \A p, q \in Pointers : pointers'[p] = pointers'[q] => p = q \/ pointers'[p] = NULL
  BY <1>1 DEF OwnedOnce
<1>6. Owned' \subseteq Owned \ owners
  BY <1>1 DEF Owned
<1>7. QED
  BY <1>2, <1>3, <1>4, <1>5, <1>6 DEF OwnedOnce

\* The session is freed with all that may still be held.
LEMMA FreeLeavesNothing ==
    ASSUME TypeOK, OwnedOnce, NEW owners \in SUBSET Pointers,
           Owned \subseteq owners \cup {Session}, FreeSessionAnd(owners)
    PROVE  /\ live' = {} /\ pointers' \in [Pointers -> Handles \cup {NULL}]
           /\ OwnedOnce'
           /\ Owned' = {}
<1>1. \A h \in live : h \in Held(owners \cup {Session})
  <2>1. TAKE h \in live
  <2>2. PICK p \in Pointers : pointers[p] = h
    BY DEF OwnedOnce
  <2>3. p \in Owned
    BY <2>2, SessionAssumption DEF TypeOK, Owned
  <2>4. QED
    BY <2>2, <2>3 DEF Held
<1>2. live' = {} /\ pointers' = [p \in Pointers |-> NULL]
  BY <1>1 DEF FreeSessionAnd
<1>3. QED
  BY <1>2 DEF OwnedOnce, Owned

-----------------------------------------------------------------------------
(* The pointers are different, and the registries name those below their   *)
(* counts.                                                                 *)

LEMMA PointersApart ==
    /\ {Session, RegisterStorage, Opened} \cup RegisterFile \cup SymbolTable \subseteq Pointers
    /\ Session \notin {RegisterStorage, Opened} \cup RegisterFile \cup SymbolTable
    /\ RegisterStorage \notin {Opened} \cup RegisterFile \cup SymbolTable
    /\ Opened \notin RegisterFile \cup SymbolTable
    /\ Local("register_values") # Local("spill_stack_values")
    /\ Local("records") \notin RegisterFile
  BY DEF Pointers, Session, RegisterStorage, Opened, RegisterFile, SymbolTable, Local

LEMMA RegistriesApart ==
    ASSUME TypeOK
    PROVE  /\ ArenaRegistry \subseteq Pointers
           /\ MappingRegistry \subseteq Pointers
           /\ \A i \in Nat :
                 /\ {ArenaBase(i), Text(i), Descriptor(i)}
                       \cap ({Session, RegisterStorage, Opened} \cup RegisterFile \cup SymbolTable) = {}
                 /\ ArenaBase(i) \notin MappingRegistry
                 /\ {Text(i), Descriptor(i)} \cap ArenaRegistry = {}
                 /\ Text(i) # Descriptor(i)
                 /\ i >= arena_count => ArenaBase(i) \notin ArenaRegistry
                 /\ i >= mapping_count => {Text(i), Descriptor(i)} \cap MappingRegistry = {}
<1> USE SessionAssumption DEF TypeOK
<1>1. ArenaRegistry \subseteq Pointers
  BY DEF ArenaRegistry, Pointers
<1>2. MappingRegistry \subseteq Pointers
  BY DEF MappingRegistry, Pointers
<1>3. SUFFICES ASSUME NEW i \in Nat
               PROVE  /\ {ArenaBase(i), Text(i), Descriptor(i)}
                            \cap ({Session, RegisterStorage, Opened}
                                    \cup RegisterFile \cup SymbolTable) = {}
                      /\ ArenaBase(i) \notin MappingRegistry
                      /\ {Text(i), Descriptor(i)} \cap ArenaRegistry = {}
                      /\ Text(i) # Descriptor(i)
                      /\ i >= arena_count => ArenaBase(i) \notin ArenaRegistry
                      /\ i >= mapping_count => {Text(i), Descriptor(i)} \cap MappingRegistry = {}
  BY <1>1, <1>2
<1>4. {ArenaBase(i), Text(i), Descriptor(i)}
         \cap ({Session, RegisterStorage, Opened} \cup RegisterFile \cup SymbolTable) = {}
  BY DEF ArenaBase, Text, Descriptor, Session, RegisterStorage, Opened, RegisterFile, SymbolTable, Local
<1>5. ArenaBase(i) \notin MappingRegistry /\ Text(i) # Descriptor(i)
  BY DEF MappingRegistry, ArenaBase, Text, Descriptor
<1>6. {Text(i), Descriptor(i)} \cap ArenaRegistry = {}
  BY DEF ArenaRegistry, ArenaBase, Text, Descriptor
<1>7. i >= arena_count => ArenaBase(i) \notin ArenaRegistry
  BY DEF ArenaRegistry, ArenaBase
<1>8. i >= mapping_count => {Text(i), Descriptor(i)} \cap MappingRegistry = {}
  BY DEF MappingRegistry, Text, Descriptor
<1>9. QED
  BY <1>4, <1>5, <1>6, <1>7, <1>8

-----------------------------------------------------------------------------
(* The invariant. *)

THEOREM InitIInv == Init => IInv
<1> SUFFICES ASSUME Init PROVE IInv
  OBVIOUS
<1>1. TypeOK
  BY SessionAssumption DEF Init, TypeOK, Stages
<1>2. OwnedOnce /\ Owned \subseteq Allowed
  BY DEF Init, OwnedOnce, Owned, Allowed
<1>3. RoomForOpened
  BY DEF Init, RoomForOpened
<1>4. QED
  BY <1>1, <1>2, <1>3 DEF IInv

LEMMA CreateKeeps == IInv /\ Create => IInv'
<1> SUFFICES ASSUME IInv, Create PROVE IInv'
  OBVIOUS
<1> USE DEF IInv, RoomForOpened
<1> DEFINE Typed == live' \subseteq Handles /\ pointers' \in [Pointers -> Handles \cup {NULL}]
<1>1. CASE RefuseSession
  <2>1. TypeOK'
    BY <1>1 DEF RefuseSession, TypeOK, counts
  <2>2. RoomForOpened' /\ OwnedOnce' /\ Owned' = Owned /\ Allowed' = Allowed
    BY <1>1 DEF RefuseSession, OwnedOnce, Owned, RoomForOpened, Allowed, counts, ArenaRegistry, MappingRegistry
  <2>3. QED
    BY <2>1, <2>2 DEF RoomForOpened
<1>2. CASE AllocateSession
  <2>1. stage = "none" /\ stage' = "registers"
    BY <1>2 DEF AllocateSession
  <2>2. Session \in Pointers /\ Session \notin Owned
    BY <2>1, PointersApart DEF Allowed
  <2>3. Typed /\ OwnedOnce' /\ Owned' \subseteq Owned \cup {Session}
    BY <1>2, <2>2, AcquireKeeps DEF AllocateSession
  <2>4. alignment_in_bytes' \in Nat
    BY <1>2, SessionAssumption DEF AllocateSession, Probed, UsableLineSize
  <2>5. TypeOK'
    BY <1>2, <2>1, <2>3, <2>4 DEF AllocateSession, TypeOK, counts, Stages, Constructing
  <2>6. Owned' \subseteq Allowed'
    BY <2>1, <2>3 DEF Allowed
  <2>7. QED
    BY <2>1, <2>3, <2>5, <2>6
<1>3. CASE AllocateRegisters
  <2>1. stage = "registers" /\ stage' = "spill"
    BY <1>3 DEF AllocateRegisters
  <2>2. RegisterStorage \in Pointers /\ RegisterStorage \notin Owned
    BY <2>1, PointersApart DEF Allowed
  <2>3. Typed /\ OwnedOnce' /\ Owned' \subseteq Owned \cup {RegisterStorage}
    BY <1>3, <2>2, AcquireKeeps DEF AllocateRegisters
  <2>4. TypeOK'
    BY <1>3, <2>1, <2>3 DEF AllocateRegisters, TypeOK, counts, Stages, Constructing
  <2>5. Owned' \subseteq Allowed'
    BY <2>1, <2>3 DEF Allowed
  <2>6. QED
    BY <2>1, <2>3, <2>4, <2>5
<1>4. CASE AllocateSpillStack
  <2>1. stage = "spill" /\ stage' = "symbols"
    BY <1>4 DEF AllocateSpillStack
  <2>2. PICK handle \in Handles \ live :
           /\ live' = live \cup {handle}
           /\ pointers' = [pointers EXCEPT
                 ![RegisterStorage] = NULL,
                 ![Local("register_values")] = pointers[RegisterStorage],
                 ![Local("spill_stack_values")] = handle]
    BY <1>4 DEF AllocateSpillStack
  <2>3. /\ RegisterStorage \in Pointers
        /\ Local("register_values") \in Pointers \ {RegisterStorage}
        /\ Local("spill_stack_values") \in Pointers \ {RegisterStorage, Local("register_values")}
        /\ Session \notin RegisterFile
    BY PointersApart DEF RegisterFile
  <2>4. Local("register_values") \notin Owned /\ Local("spill_stack_values") \notin Owned
    BY <2>1, <2>3, PointersApart DEF Allowed, RegisterFile
  <2>5. /\ Typed /\ OwnedOnce'
        /\ Owned' \subseteq (Owned \ {RegisterStorage})
                              \cup {Local("register_values"), Local("spill_stack_values")}
    BY <2>2, <2>3, <2>4, MoveKeeps
  <2>6. TypeOK'
    BY <1>4, <2>1, <2>5 DEF AllocateSpillStack, TypeOK, counts, Stages, Constructing
  <2>7. Owned' \subseteq Allowed'
    BY <2>1, <2>5 DEF Allowed, RegisterFile
  <2>8. QED
    BY <2>1, <2>5, <2>6, <2>7
<1>5. CASE AllocateSymbols
  <2>1. stage = "symbols" /\ stage' = "arenas"
    BY <1>5 DEF AllocateSymbols
  <2>2. Local("records") \in Pointers /\ Local("records") \notin Owned
    BY <2>1, PointersApart DEF Allowed, SymbolTable
  <2>3. Typed /\ OwnedOnce' /\ Owned' \subseteq Owned \cup {Local("records")}
    BY <1>5, <2>2, AcquireKeeps DEF AllocateSymbols
  <2>4. TypeOK'
    BY <1>5, <2>1, <2>3 DEF AllocateSymbols, TypeOK, counts, Stages, Constructing
  <2>5. Owned' \subseteq Allowed'
    BY <2>1, <2>3 DEF Allowed, SymbolTable
  <2>6. QED
    BY <2>1, <2>3, <2>4, <2>5
<1>6. CASE Complete
  <2>1. stage = "arenas" /\ stage' = "ready"
    BY <1>6 DEF Complete
  <2>2. TypeOK'
    BY <1>6, <2>1, SessionAssumption DEF Complete, TypeOK, Stages
  <2>3. OwnedOnce' /\ Owned' = Owned
    BY <1>6 DEF Complete, OwnedOnce, Owned
  <2>4. Owned' \subseteq Allowed'
    BY <2>1, <2>3 DEF Allowed
  <2>5. QED
    BY <2>1, <2>2, <2>3, <2>4
<1>7. CASE Refuse
  <2>1. stage \in Constructing /\ FreeSessionAnd(Undone) /\ stage' = "none"
    BY <1>7 DEF Refuse
  <2>2. Undone \subseteq Pointers /\ Owned \subseteq Undone \cup {Session}
    <3>1. CASE stage = "registers"
      BY <3>1 DEF Undone, Allowed
    <3>2. CASE stage = "spill"
      BY <3>2, PointersApart DEF Undone, Allowed
    <3>3. CASE stage = "symbols"
      BY <3>3, PointersApart DEF Undone, Allowed
    <3>4. CASE stage = "arenas"
      BY <3>4, PointersApart DEF Undone, Allowed
    <3>5. QED
      BY <2>1, <3>1, <3>2, <3>3, <3>4 DEF Constructing
  <2>3. /\ live' = {} /\ pointers' \in [Pointers -> Handles \cup {NULL}]
        /\ OwnedOnce' /\ Owned' = {}
    BY <2>1, <2>2, FreeLeavesNothing
  <2>4. TypeOK'
    BY <1>7, <2>1, <2>3 DEF Refuse, TypeOK, counts, Stages
  <2>5. QED
    BY <2>1, <2>3, <2>4
<1>8. QED
  BY <1>1, <1>2, <1>3, <1>4, <1>5, <1>6, <1>7 DEF Create

LEMMA ExecuteKeeps == IInv /\ Execute => IInv'
<1> SUFFICES ASSUME IInv, Execute PROVE IInv'
  OBVIOUS
<1> USE DEF IInv, RoomForOpened
<1> DEFINE Typed == live' \subseteq Handles /\ pointers' \in [Pointers -> Handles \cup {NULL}]
<1>a. arena_count \in Nat /\ mapping_count \in Nat
  BY SessionAssumption DEF TypeOK
<1>1. CASE ReserveArena
  <2>1. /\ stage = "ready" /\ stage' = "ready"
        /\ arena_count < LLFPL_MEMORY_ARENA_REGISTRY_CAPACITY
        /\ arena_count' = arena_count + 1 /\ mapping_count' = mapping_count
    BY <1>1 DEF ReserveArena
  <2>2. ArenaBase(arena_count) \in Pointers
    BY <1>a, <2>1, SessionAssumption DEF Pointers
  <2>3. ArenaBase(arena_count) \notin Owned
    BY <1>a, <2>1, RegistriesApart DEF Allowed
  <2>4. Typed /\ OwnedOnce' /\ Owned' \subseteq Owned \cup {ArenaBase(arena_count)}
    BY <1>1, <2>2, <2>3, AcquireKeeps DEF ReserveArena
  <2>5. TypeOK'
    BY <1>1, <1>a, <2>1, <2>4, SessionAssumption DEF ReserveArena, TypeOK, Stages
  <2>6. /\ ArenaRegistry \cup {ArenaBase(arena_count)} \subseteq ArenaRegistry'
        /\ MappingRegistry' = MappingRegistry
    BY <1>a, <2>1 DEF ArenaRegistry, MappingRegistry
  <2>7. Owned' \subseteq Allowed'
    BY <2>1, <2>4, <2>6 DEF Allowed
  <2>8. QED
    BY <2>1, <2>4, <2>5, <2>7
<1>2. CASE OpenSource
  <2>1. /\ stage = "ready" /\ stage' = "opened" /\ UNCHANGED counts
        /\ mapping_count' < LLFPL_MAXIMUM_LOADED_MODULES
    BY <1>2, <1>a, SessionAssumption DEF OpenSource, MappingsFull, counts
  <2>2. Opened \in Pointers /\ Opened \notin ArenaRegistry \cup MappingRegistry
    BY PointersApart DEF ArenaRegistry, MappingRegistry, Opened, Local, ArenaBase, Text, Descriptor
  <2>3. Opened \notin Owned
    BY <2>1, <2>2, PointersApart DEF Allowed
  <2>4. Typed /\ OwnedOnce' /\ Owned' \subseteq Owned \cup {Opened}
    BY <1>2, <2>2, <2>3, AcquireKeeps DEF OpenSource
  <2>5. TypeOK'
    BY <1>2, <2>1, <2>4 DEF OpenSource, TypeOK, Stages, counts
  <2>6. ArenaRegistry' = ArenaRegistry /\ MappingRegistry' = MappingRegistry
    BY <2>1 DEF ArenaRegistry, MappingRegistry, counts
  <2>7. Owned' \subseteq Allowed'
    BY <2>1, <2>4, <2>6 DEF Allowed
  <2>8. QED
    BY <2>1, <2>4, <2>5, <2>7
<1>3. CASE MapSource
  <2> DEFINE text == Text(mapping_count)
             descriptor == Descriptor(mapping_count)
  <2>1. mapping_count < LLFPL_MAXIMUM_LOADED_MODULES
    BY <1>3 DEF MapSource
  <2>2. IInv'
    <3>1. /\ stage = "opened" /\ stage' = "ready"
          /\ mapping_count' = mapping_count + 1 /\ arena_count' = arena_count
      BY <1>3 DEF MapSource
    <3>2. PICK handle \in Handles \ live :
             /\ live' = live \cup {handle}
             /\ pointers' = [pointers EXCEPT
                   ![Opened] = NULL, ![descriptor] = pointers[Opened], ![text] = handle]
      BY <1>3 DEF MapSource
    <3>3. text \in Pointers /\ descriptor \in Pointers
      BY <1>a, <2>1, SessionAssumption DEF Pointers
    <3>4. /\ text # descriptor /\ Opened \notin {text, descriptor}
          /\ text \notin Owned /\ descriptor \notin Owned
      BY <1>a, <3>1, RegistriesApart DEF Allowed
    <3>5. /\ Typed /\ OwnedOnce'
          /\ Owned' \subseteq (Owned \ {Opened}) \cup {descriptor, text}
      <4>1. Opened \in Pointers /\ descriptor \in Pointers \ {Opened}
            /\ text \in Pointers \ {Opened, descriptor}
        BY <3>3, <3>4, PointersApart
      <4> HIDE DEF text, descriptor
      <4>2. QED
        BY <3>2, <3>4, <4>1, MoveKeeps
    <3>6. TypeOK'
      BY <1>3, <1>a, <2>1, <3>1, <3>5, SessionAssumption DEF MapSource, TypeOK, Stages
    <3>7. /\ MappingRegistry \cup {text, descriptor} \subseteq MappingRegistry'
          /\ ArenaRegistry' = ArenaRegistry
      BY <1>a, <3>1 DEF ArenaRegistry, MappingRegistry
    <3>8. Owned' \subseteq Allowed'
      BY <3>1, <3>5, <3>7 DEF Allowed
    <3>9. QED
      BY <3>1, <3>5, <3>6, <3>8
  <2>3. QED
    BY <2>2
<1>4. CASE DeclineSource
  <2>1. stage = "opened" /\ stage' = "ready" /\ UNCHANGED counts
    BY <1>4 DEF DeclineSource
  <2>2. Typed /\ OwnedOnce' /\ Owned' \subseteq Owned \ {Opened}
    BY <1>4, PointersApart, GiveBackKeeps DEF DeclineSource, Declined
  <2>3. TypeOK'
    BY <1>4, <2>1, <2>2 DEF DeclineSource, TypeOK, Stages, counts
  <2>4. ArenaRegistry' = ArenaRegistry /\ MappingRegistry' = MappingRegistry
    BY <2>1 DEF ArenaRegistry, MappingRegistry, counts
  <2>5. Owned' \subseteq Allowed'
    BY <2>1, <2>2, <2>4 DEF Allowed
  <2>6. QED
    BY <2>1, <2>2, <2>3, <2>5
<1>5. QED
  BY <1>1, <1>2, <1>3, <1>4 DEF Execute

LEMMA DestroyKeeps == IInv /\ Destroy => IInv'
<1> SUFFICES ASSUME IInv, Destroy PROVE IInv'
  OBVIOUS
<1> USE DEF IInv, RoomForOpened
<1> DEFINE Typed == live' \subseteq Handles /\ pointers' \in [Pointers -> Handles \cup {NULL}]
<1>1. CASE ReleaseArenas
  <2>1. stage = "ready" /\ stage' = "release symbols" /\ mapping_count' = mapping_count
    BY <1>1 DEF ReleaseArenas
  <2>2. Typed /\ OwnedOnce' /\ Owned' \subseteq Owned \ ArenaRegistry
    BY <1>1, RegistriesApart, GiveBackKeeps DEF ReleaseArenas
  <2>3. TypeOK'
    <3>1. arena_count' \in 0..LLFPL_MEMORY_ARENA_REGISTRY_CAPACITY
      <4>1. arena_count' = 0
        BY <1>1 DEF ReleaseArenas
      <4>2. QED
        BY <4>1, SessionAssumption
    <3>2. mapping_count' \in 0..LLFPL_MAXIMUM_LOADED_MODULES
      BY <1>1, SessionAssumption DEF ReleaseArenas, TypeOK
    <3>3. QED
      BY <1>1, <2>1, <2>2, <3>1, <3>2 DEF ReleaseArenas, TypeOK, Stages, Destroying
  <2>4. MappingRegistry' = MappingRegistry
    BY <2>1 DEF MappingRegistry
  <2>5. Owned' \subseteq Allowed'
    BY <2>1, <2>2, <2>4 DEF Allowed
  <2>6. QED
    BY <2>1, <2>2, <2>3, <2>5
<1>2. CASE ReleaseSymbols
  <2>1. stage = "release symbols" /\ stage' = "release registers" /\ UNCHANGED counts
    BY <1>2 DEF ReleaseSymbols
  <2>2. Typed /\ OwnedOnce' /\ Owned' \subseteq Owned \ SymbolTable
    BY <1>2, PointersApart, GiveBackKeeps DEF ReleaseSymbols
  <2>3. TypeOK'
    BY <1>2, <2>1, <2>2 DEF ReleaseSymbols, TypeOK, Stages, Destroying, counts
  <2>4. MappingRegistry' = MappingRegistry
    BY <2>1 DEF MappingRegistry, counts
  <2>5. Owned' \subseteq Allowed'
    BY <2>1, <2>2, <2>4 DEF Allowed
  <2>6. QED
    BY <2>1, <2>2, <2>3, <2>5
<1>3. CASE ReleaseRegisters
  <2>1. stage = "release registers" /\ stage' = "release mappings" /\ UNCHANGED counts
    BY <1>3 DEF ReleaseRegisters
  <2>2. Typed /\ OwnedOnce' /\ Owned' \subseteq Owned \ RegisterFile
    BY <1>3, PointersApart, GiveBackKeeps DEF ReleaseRegisters
  <2>3. TypeOK'
    BY <1>3, <2>1, <2>2 DEF ReleaseRegisters, TypeOK, Stages, Destroying, counts
  <2>4. MappingRegistry' = MappingRegistry
    BY <2>1 DEF MappingRegistry, counts
  <2>5. Owned' \subseteq Allowed'
    BY <2>1, <2>2, <2>4 DEF Allowed
  <2>6. QED
    BY <2>1, <2>2, <2>3, <2>5
<1>4. CASE ReleaseMappings
  <2>1. stage = "release mappings" /\ stage' = "free"
    BY <1>4 DEF ReleaseMappings
  <2>2. Typed /\ OwnedOnce' /\ Owned' \subseteq Owned \ MappingRegistry
    BY <1>4, RegistriesApart, GiveBackKeeps DEF ReleaseMappings
  <2>3. TypeOK'
    <3>1. arena_count' \in 0..LLFPL_MEMORY_ARENA_REGISTRY_CAPACITY
      BY <1>4, SessionAssumption DEF ReleaseMappings, TypeOK
    <3>2. mapping_count' \in 0..LLFPL_MAXIMUM_LOADED_MODULES
      <4>1. mapping_count' = 0
        BY <1>4 DEF ReleaseMappings
      <4>2. QED
        BY <4>1, SessionAssumption
    <3>3. QED
      BY <1>4, <2>1, <2>2, <3>1, <3>2 DEF ReleaseMappings, TypeOK, Stages, Destroying
  <2>4. Owned' \subseteq Allowed'
    BY <2>1, <2>2 DEF Allowed
  <2>5. QED
    BY <2>1, <2>2, <2>3, <2>4
<1>5. CASE FreeSession
  <2>1. stage = "free" /\ stage' = "none" /\ FreeSessionAnd({})
    BY <1>5 DEF FreeSession
  <2>2. Owned \subseteq {} \cup {Session}
    BY <2>1 DEF Allowed
  <2>3. /\ live' = {} /\ pointers' \in [Pointers -> Handles \cup {NULL}]
        /\ OwnedOnce' /\ Owned' = {}
    BY <2>1, <2>2, FreeLeavesNothing
  <2>4. TypeOK'
    BY <1>5, <2>1, <2>3 DEF FreeSession, TypeOK, Stages, counts
  <2>5. QED
    BY <2>1, <2>3, <2>4
<1>6. QED
  BY <1>1, <1>2, <1>3, <1>4, <1>5 DEF Destroy

THEOREM StepIInv == IInv /\ [Next]_vars => IInv'
<1> SUFFICES ASSUME IInv, [Next]_vars PROVE IInv'
  OBVIOUS
<1>1. CASE UNCHANGED vars
  BY <1>1 DEF vars, IInv, TypeOK, OwnedOnce, Owned, Allowed, RoomForOpened, ArenaRegistry, MappingRegistry
<1>2. QED
  BY <1>1, CreateKeeps, ExecuteKeeps, DestroyKeeps DEF Next

\* The inductive invariant holds, whatever the system refuses.
THEOREM InvariantHolds == Spec => []IInv
  BY InitIInv, StepIInv, PTL DEF Spec

\* Every variable keeps its type: no registry counts past its capacity.
THEOREM TypeCorrect == Spec => []TypeOK
<1>1. IInv => TypeOK
  BY DEF IInv
<1>2. QED
  BY <1>1, InvariantHolds, PTL

\* Every handle that the system handed out has exactly one owner among the
\* pointers, at every step of construction, execution and teardown.
THEOREM OwnedOnceAlways == Spec => []OwnedOnce
<1>1. IInv => OwnedOnce
  BY DEF IInv
<1>2. QED
  BY <1>1, InvariantHolds, PTL

\* A refused constructor and a destroyed session leave nothing behind.
THEOREM NothingLeaks == Spec => []NothingLeft
<1>1. IInv => NothingLeft
  <2> SUFFICES ASSUME IInv, stage = "none" PROVE live = {}
    BY DEF NothingLeft
  <2>1. Owned = {}
    BY DEF IInv, Allowed
  <2>2. \A p \in Pointers : pointers[p] = NULL
    BY <2>1 DEF Owned
  <2>3. QED
    BY <2>2, SessionAssumption DEF IInv, OwnedOnce, TypeOK
<1>2. QED
  BY <1>1, InvariantHolds, PTL

-----------------------------------------------------------------------------
(* Whatever the probes report, what they serve accepts it. *)

Acceptable == status # "INVALID_ARGUMENT" /\ (stage \in Constructing => AlignmentIsValid)

LEMMA ProbedIsValid ==
    ASSUME NEW system \in ReportedSizes, NEW processor \in ReportedSizes
    PROVE  /\ Probed(system, processor) >= PointerWidth
           /\ IsPowerOfTwo(Probed(system, processor))
  BY SessionAssumption DEF Probed, UsableLineSize

\* No constructor is refused for anything but memory.
THEOREM OnlyMemoryIsRefused == Spec => []OnlyMemoryRefused
<1>1. Init => Acceptable
  BY DEF Init, Acceptable, Constructing
<1>2. Acceptable /\ [Next]_vars => Acceptable'
  <2> SUFFICES ASSUME Acceptable, [Next]_vars PROVE Acceptable'
    OBVIOUS
  <2>1. CASE AllocateSession
    <3>1. PICK system, processor \in ReportedSizes :
             alignment_in_bytes' = Probed(system, processor)
      BY <2>1 DEF AllocateSession
    <3>2. AlignmentIsValid'
      BY <3>1, ProbedIsValid DEF AlignmentIsValid, IsPowerOfTwo
    <3>3. status' = status
      BY <2>1 DEF AllocateSession
    <3>4. QED
      BY <3>2, <3>3 DEF Acceptable
  <2>2. CASE Refuse
    <3>1. AlignmentIsValid /\ RegisterCountIsValid
      BY <2>2, SessionAssumption DEF Refuse, Acceptable, RegisterCountIsValid
    <3>2. status' = "OUT_OF_MEMORY" /\ stage' = "none"
      BY <2>2, <3>1 DEF Refuse, IsInvalid
    <3>3. QED
      BY <3>2 DEF Acceptable, Constructing
  <2>3. CASE AllocateRegisters \/ AllocateSpillStack \/ AllocateSymbols \/ UNCHANGED vars
    <3>1. status' = status /\ alignment_in_bytes' = alignment_in_bytes /\ AlignmentIsValid'= AlignmentIsValid
      BY <2>3 DEF AllocateRegisters, AllocateSpillStack, AllocateSymbols, vars, AlignmentIsValid, IsPowerOfTwo
    <3>2. stage' \in Constructing => stage \in Constructing
      BY <2>3 DEF AllocateRegisters, AllocateSpillStack, AllocateSymbols, vars, Constructing
    <3>3. QED
      BY <3>1, <3>2 DEF Acceptable
  <2>4. CASE RefuseSession \/ Complete \/ Execute \/ Destroy
    <3>1. stage' \notin Constructing
      BY <2>4 DEF RefuseSession, Complete, Execute, ReserveArena, OpenSource, MapSource, DeclineSource,
         Destroy, ReleaseArenas, ReleaseSymbols, ReleaseRegisters, ReleaseMappings, FreeSession, Constructing
    <3>2. status' # "INVALID_ARGUMENT"
      BY <2>4 DEF RefuseSession, Complete, Execute, ReserveArena, OpenSource, MapSource, DeclineSource,
         Destroy, ReleaseArenas, ReleaseSymbols, ReleaseRegisters, ReleaseMappings, FreeSession, Acceptable
    <3>3. QED
      BY <3>1, <3>2 DEF Acceptable
  <2>5. QED
    BY <2>1, <2>2, <2>3, <2>4 DEF Next, Create
<1>3. Acceptable => OnlyMemoryRefused
  BY DEF Acceptable, OnlyMemoryRefused
<1>4. QED
  BY <1>1, <1>2, <1>3, PTL DEF Spec

-----------------------------------------------------------------------------
(* The command line.  Its last stages are the session's whole life, so its *)
(* stage is a variable of its own.                                         *)

\* A set of natural numbers has a least element.
LEMMA LeastNatural ==
    ASSUME NEW K, K \subseteq Nat, K # {}
    PROVE  \E m \in K : \A k \in K : m <= k
<1>1. PICK m \in K : \A k \in K : <<k, m>> \notin OpToRel(<, Nat)
  BY WFMin, NatLessThanWellFounded, Zenon
<1>2. \A k \in K : ~(k < m)
  BY <1>1 DEF OpToRel
<1> QED
  BY <1>2

\* A set of numbers up to a bound that holds with each the one before, and not
\* zero, is empty.
LEMMA NoneUpTo ==
    ASSUME NEW N \in Nat, NEW K, K \subseteq 0..N, 0 \notin K,
           \A n \in 1..N : n \in K => n - 1 \in K
    PROVE  K = {}
<1> SUFFICES ASSUME K # {} PROVE FALSE
  OBVIOUS
<1>1. PICK n \in K : \A k \in K : n <= k
  <2>1. K \subseteq Nat
    OBVIOUS
  <2> QED
    BY <2>1, LeastNatural
<1>2. n \in 1..N
  BY <1>1
<1>3. n - 1 \in K /\ ~(n <= n - 1)
  BY <1>1, <1>2
<1> QED
  BY <1>1, <1>3

-----------------------------------------------------------------------------
(* A list without the members of a set. *)

\* What is kept of each beginning of the list.
Kept(f, s, R) ==
    /\ f[0] = << >>
    /\ \A n \in 1..Len(s) :
          f[n] = IF s[n] \in R THEN f[n - 1] ELSE Append(f[n - 1], s[n])

LEMMA WithoutSteps ==
    ASSUME NEW V, NEW s \in Seq(V), NEW R
    PROVE  \E f \in [0..Len(s) -> Seq(V)] : Kept(f, s, R) /\ Without(s, R) = f[Len(s)]
<1> DEFINE Fits(f, n) ==
              /\ f[0] = << >>
              /\ \A i \in 1..n : f[i] = IF s[i] \in R THEN f[i - 1] ELSE Append(f[i - 1], s[i])
           Body(f) == [n \in 0..Len(s) |->
                         IF n = 0 THEN << >>
                         ELSE IF s[n] \in R THEN f[n - 1]
                         ELSE Append(f[n - 1], s[n])]
           Lacking == {n \in 0..Len(s) : ~\E f \in [0..n -> Seq(V)] : Fits(f, n)}
<1> Len(s) \in Nat
  OBVIOUS
<1>1. Lacking = {}
  <2> SUFFICES ASSUME Lacking # {} PROVE FALSE
    OBVIOUS
  <2>1. PICK n \in Lacking : \A k \in Lacking : n <= k
    <3>1. Lacking \subseteq Nat
      OBVIOUS
    <3> QED
      BY <3>1, LeastNatural
  <2>2. n # 0
    <3>1. [i \in 0..0 |-> << >>] \in [0..0 -> Seq(V)]
      OBVIOUS
    <3>2. Fits([i \in 0..0 |-> << >>], 0)
      OBVIOUS
    <3> HIDE DEF Fits
    <3> QED
      BY <3>1, <3>2
  <2>3. n \in Nat /\ n - 1 \in 0..Len(s) /\ n - 1 \notin Lacking /\ n \in 1..Len(s)
    <3>1. n \in 0..Len(s)
      OBVIOUS
    <3> HIDE DEF Lacking
    <3>2. n \in Nat /\ n - 1 \in 0..Len(s) /\ n \in 1..Len(s) /\ ~(n <= n - 1)
      BY <2>2, <3>1
    <3> QED
      BY <2>1, <3>2
  <2>4. PICK f \in [0..(n - 1) -> Seq(V)] : Fits(f, n - 1)
    BY <2>3
  <2> DEFINE g == [i \in 0..n |-> IF i < n THEN f[i]
                                  ELSE IF s[n] \in R THEN f[n - 1] ELSE Append(f[n - 1], s[n])]
  <2>5. f[n - 1] \in Seq(V) /\ s[n] \in V
    BY <2>3
  <2>6. Append(f[n - 1], s[n]) \in Seq(V)
    BY <2>5
  <2>7. g \in [0..n -> Seq(V)]
    BY <2>3, <2>5, <2>6
  <2>8. g[0] = << >>
    BY <2>3, <2>4
  <2>9. \A i \in 1..n : g[i] = IF s[i] \in R THEN g[i - 1] ELSE Append(g[i - 1], s[i])
    <3> TAKE i \in 1..n
    <3>1. CASE i = n
      <4>1. g[n - 1] = f[n - 1]
        BY <2>3
      <4>2. g[n] = IF s[n] \in R THEN f[n - 1] ELSE Append(f[n - 1], s[n])
        BY <2>3
      <4> QED
        BY <3>1, <4>1, <4>2
    <3>2. CASE i # n
      <4>1. i \in 1..(n - 1) /\ i - 1 \in 0..(n - 1) /\ i < n /\ i - 1 < n
        BY <2>3, <3>2
      <4>2. g[i] = f[i] /\ g[i - 1] = f[i - 1]
        BY <2>3, <4>1
      <4>3. f[i] = IF s[i] \in R THEN f[i - 1] ELSE Append(f[i - 1], s[i])
        BY <2>4, <4>1
      <4> HIDE DEF g
      <4> QED
        BY <4>2, <4>3
    <3> QED
      BY <3>1, <3>2
  <2>10. Fits(g, n)
    <3> HIDE DEF g
    <3> QED
      BY <2>8, <2>9
  <2> HIDE DEF Fits, g
  <2> QED
    BY <2>1, <2>7, <2>10
<1>2. PICK f \in [0..Len(s) -> Seq(V)] : Fits(f, Len(s))
  BY <1>1
<1>3. f = Body(f)
  <2>1. \A n \in 0..Len(s) : f[n] = Body(f)[n]
    <3> TAKE n \in 0..Len(s)
    <3>1. CASE n = 0
      BY <1>2, <3>1
    <3>2. CASE n # 0
      <4>1. n \in 1..Len(s)
        BY <3>2
      <4>2. f[n] = IF s[n] \in R THEN f[n - 1] ELSE Append(f[n - 1], s[n])
        BY <1>2, <4>1
      <4> QED
        BY <3>2, <4>2
    <3> QED
      BY <3>1, <3>2
  <2>2. f = [n \in 0..Len(s) |-> f[n]]
    OBVIOUS
  <2>3. Body(f) = [n \in 0..Len(s) |-> Body(f)[n]]
    OBVIOUS
  <2> HIDE DEF Body
  <2> QED
    BY <2>1, <2>2, <2>3, Zenon
<1> DEFINE c == CHOOSE h : h = Body(h)
<1>4. c = Body(c)
  <2> HIDE DEF Body
  <2> QED
    BY <1>3, Zenon
<1> HIDE DEF c
<1>5. c[0] = << >>
  BY <1>4
<1>6. \A n \in 1..Len(s) : c[n] = IF s[n] \in R THEN c[n - 1] ELSE Append(c[n - 1], s[n])
  <2> TAKE n \in 1..Len(s)
  <2>1. n \in 0..Len(s) /\ n # 0
    OBVIOUS
  <2>2. c[n] = Body(c)[n]
    BY <1>4, Zenon
  <2>3. Body(c)[n] = IF s[n] \in R THEN c[n - 1] ELSE Append(c[n - 1], s[n])
    BY <2>1
  <2> QED
    BY <2>2, <2>3, Zenon
<1> DEFINE Different == {n \in 0..Len(s) : c[n] # f[n]}
<1>7. Different = {}
  <2> SUFFICES ASSUME Different # {} PROVE FALSE
    OBVIOUS
  <2>1. PICK n \in Different : \A k \in Different : n <= k
    <3>1. Different \subseteq Nat
      OBVIOUS
    <3> QED
      BY <3>1, LeastNatural
  <2>2. n # 0
    BY <1>2, <1>5, <2>1
  <2>3. n \in 1..Len(s) /\ n - 1 \in 0..Len(s) /\ n - 1 \notin Different
    BY <2>1, <2>2
  <2>4. c[n - 1] = f[n - 1]
    BY <2>3
  <2>5. f[n] = IF s[n] \in R THEN f[n - 1] ELSE Append(f[n - 1], s[n])
    BY <1>2, <2>3
  <2>6. c[n] = IF s[n] \in R THEN c[n - 1] ELSE Append(c[n - 1], s[n])
    BY <1>6, <2>3
  <2> QED
    BY <2>1, <2>4, <2>5, <2>6
<1>8. Without(s, R) = c[Len(s)]
  BY DEF Without, c
<1>9. c[Len(s)] = f[Len(s)]
  BY <1>7
<1>10. Kept(f, s, R)
  BY <1>2 DEF Kept
<1> QED
  BY <1>8, <1>9, <1>10

\* What is left of a list is a list, and no longer.
LEMMA WithoutPart ==
    ASSUME NEW V, NEW s \in Seq(V), NEW R
    PROVE  Without(s, R) \in Seq(V) /\ Len(Without(s, R)) <= Len(s)
<1>1. PICK f \in [0..Len(s) -> Seq(V)] : Kept(f, s, R) /\ Without(s, R) = f[Len(s)]
  BY WithoutSteps
<1> DEFINE Bad == {n \in 0..Len(s) : ~(Len(f[n]) <= n)}
<1>2. Bad = {}
  <2>1. Len(s) \in Nat /\ Bad \subseteq 0..Len(s)
    OBVIOUS
  <2>2. 0 \notin Bad
    BY <1>1 DEF Kept
  <2>3. \A n \in 1..Len(s) : n \in Bad => n - 1 \in Bad
    <3> SUFFICES ASSUME NEW n \in 1..Len(s), n - 1 \notin Bad PROVE n \notin Bad
      OBVIOUS
    <3>0. Len(f[n - 1]) <= n - 1
      BY <2>1
    <3>1. /\ n \in 0..Len(s) /\ n - 1 \in 0..Len(s) /\ f[n - 1] \in Seq(V)
          /\ s[n] \in V /\ n \in Int /\ Len(f[n - 1]) \in Nat
      BY <2>1
    <3>2. f[n] = f[n - 1] \/ f[n] = Append(f[n - 1], s[n])
      BY <1>1 DEF Kept
    <3>3. Len(Append(f[n - 1], s[n])) = Len(f[n - 1]) + 1
      BY <3>1
    <3>4. Len(f[n]) <= n
      BY <3>0, <3>1, <3>2, <3>3
    <3> QED
      BY <3>4
  <2> HIDE DEF Bad
  <2> QED
    BY <2>1, <2>2, <2>3, NoneUpTo
<1>3. Len(s) \in 0..Len(s)
  OBVIOUS
<1> QED
  BY <1>1, <1>2, <1>3

\* One more of a list is kept or left out.
LEMMA WithoutNext ==
    ASSUME NEW V, NEW s \in Seq(V), NEW R, NEW k \in 1..Len(s)
    PROVE  Without(SubSeq(s, 1, k), R)
              = IF s[k] \in R THEN Without(SubSeq(s, 1, k - 1), R)
                ELSE Append(Without(SubSeq(s, 1, k - 1), R), s[k])
<1> DEFINE t == SubSeq(s, 1, k)
           u == SubSeq(s, 1, k - 1)
<1>1. /\ k \in Nat /\ k - 1 \in Nat
      /\ t \in Seq(V) /\ Len(t) = k /\ \A i \in 1..k : t[i] = s[i]
      /\ u \in Seq(V) /\ Len(u) = k - 1 /\ \A i \in 1..(k - 1) : u[i] = s[i]
  OBVIOUS
<1> HIDE DEF t, u
<1>2. PICK f \in [0..Len(t) -> Seq(V)] : Kept(f, t, R) /\ Without(t, R) = f[Len(t)]
  <2>1. t \in Seq(V)
    BY <1>1
  <2> QED
    BY <2>1, WithoutSteps
<1>3. PICK g \in [0..Len(u) -> Seq(V)] : Kept(g, u, R) /\ Without(u, R) = g[Len(u)]
  <2>1. u \in Seq(V)
    BY <1>1
  <2> QED
    BY <2>1, WithoutSteps
<1> DEFINE Bad == {n \in 0..(k - 1) : f[n] # g[n]}
<1>4. Bad = {}
  <2>1. 0 \notin Bad
    BY <1>2, <1>3 DEF Kept
  <2>2. \A n \in 1..(k - 1) : n \in Bad => n - 1 \in Bad
    <3>0. k - 1 \in Nat
      BY <1>1
    <3> SUFFICES ASSUME NEW n \in 1..(k - 1), f[n - 1] = g[n - 1] PROVE f[n] = g[n]
      BY <3>0
    <3>1. n \in 1..Len(t) /\ n \in 1..Len(u) /\ t[n] = u[n]
      <4>1. n \in 1..k /\ n \in 1..(k - 1)
        BY <3>0
      <4>2. t[n] = s[n] /\ u[n] = s[n]
        BY <1>1, <4>1
      <4>3. Len(t) = k /\ Len(u) = k - 1
        BY <1>1
      <4> QED
        BY <4>1, <4>2, <4>3
    <3> QED
      BY <1>2, <1>3, <3>1 DEF Kept
  <2>3. Bad \subseteq 0..(k - 1)
    OBVIOUS
  <2> HIDE DEF Bad
  <2> QED
    BY <1>1, <2>1, <2>2, <2>3, NoneUpTo
<1>5. f[k - 1] = g[k - 1]
  <2>1. k - 1 \in 0..(k - 1)
    BY <1>1
  <2> QED
    BY <1>4, <2>1
<1>6. f[k] = IF t[k] \in R THEN f[k - 1] ELSE Append(f[k - 1], t[k])
  <2>1. k \in 1..Len(t)
    BY <1>1
  <2> QED
    BY <1>2, <2>1 DEF Kept
<1>7. t[k] = s[k]
  BY <1>1
<1>8. Without(t, R) = IF s[k] \in R THEN Without(u, R) ELSE Append(Without(u, R), s[k])
  BY <1>1, <1>2, <1>3, <1>5, <1>6, <1>7
<1> QED
  BY <1>8 DEF t, u

LEMMA WithoutNone ==
    ASSUME NEW R PROVE Without(<< >>, R) = << >>
<1>1. << >> \in Seq({}) /\ Len(<< >>) = 0
  OBVIOUS
<1>2. PICK f \in [0..Len(<< >>) -> Seq({})] :
         Kept(f, << >>, R) /\ Without(<< >>, R) = f[Len(<< >>)]
  <2> DEFINE none == << >>
  <2>1. none \in Seq({})
    BY <1>1
  <2> HIDE DEF none
  <2>2. \E f \in [0..Len(none) -> Seq({})] : Kept(f, none, R) /\ Without(none, R) = f[Len(none)]
    BY <2>1, WithoutSteps
  <2> QED
    BY <2>2 DEF none
<1> QED
  BY <1>1, <1>2 DEF Kept

-----------------------------------------------------------------------------
(* Which arguments are values. *)

\* The unbroken row that ends before a position.
IsRow(n, i) ==
    /\ n \in 0..(i - 1)
    /\ \A j \in (i - n)..(i - 1) : SpelledAt(j) = "module-path"
    /\ n = i - 1 \/ SpelledAt(i - n - 1) # "module-path"

LEMMA RowIsThere ==
    ASSUME NEW i \in Nat \ {0}
    PROVE  IsRow(RowBefore(i), i)
<1> DEFINE Ends == {n \in 0..(i - 1) : n = i - 1 \/ SpelledAt(i - n - 1) # "module-path"}
<1>1. i - 1 \in Ends /\ Ends \subseteq Nat
  OBVIOUS
<1>2. PICK n \in Ends : \A m \in Ends : n <= m
  <2> HIDE DEF Ends
  <2> QED
    BY <1>1, LeastNatural
<1>3. ASSUME NEW j \in (i - n)..(i - 1) PROVE SpelledAt(j) = "module-path"
  <2>1. n \in 0..(i - 1)
    OBVIOUS
  <2> DEFINE m == i - 1 - j
  <2>2. m \in 0..(i - 1) /\ ~(n <= m) /\ i - m - 1 = j
    BY <2>1
  <2>3. m \notin Ends
    BY <1>2, <2>2
  <2>4. SpelledAt(i - m - 1) = "module-path"
    BY <2>2, <2>3
  <2> QED
    BY <2>2, <2>4
<1>4. IsRow(n, i)
  BY <1>3 DEF IsRow
<1>5. IsRow(CHOOSE k \in 0..(i - 1) : IsRow(k, i), i)
  <2>1. n \in 0..(i - 1)
    OBVIOUS
  <2> QED
    BY <1>4, <2>1
<1>6. RowBefore(i) = CHOOSE k \in 0..(i - 1) : IsRow(k, i)
  <2>1. \A k \in 0..(i - 1) : IsRow(k, i) <=>
           /\ \A j \in (i - k)..(i - 1) : SpelledAt(j) = "module-path"
           /\ k = i - 1 \/ SpelledAt(i - k - 1) # "module-path"
    BY DEF IsRow
  <2> QED
    BY <2>1 DEF RowBefore
<1> QED
  BY <1>5, <1>6

LEMMA RowIsOne ==
    ASSUME NEW i \in Nat \ {0}, NEW n, NEW m, IsRow(n, i), IsRow(m, i)
    PROVE  n = m
<1>1. n \in 0..(i - 1) /\ m \in 0..(i - 1)
  BY DEF IsRow
<1>2. ~(n < m)
  <2> SUFFICES ASSUME n < m PROVE FALSE
    OBVIOUS
  <2>1. n # i - 1 /\ i - n - 1 \in (i - m)..(i - 1)
    BY <1>1
  <2> QED
    BY <2>1 DEF IsRow
<1>3. ~(m < n)
  <2> SUFFICES ASSUME m < n PROVE FALSE
    OBVIOUS
  <2>1. m # i - 1 /\ i - m - 1 \in (i - n)..(i - 1)
    BY <1>1
  <2> QED
    BY <2>1 DEF IsRow
<1> QED
  BY <1>1, <1>2, <1>3

\* The first argument is no value; the one after a bare option is one unless
\* that option is a value itself.
LEMMA ValueAfterOption ==
    /\ ~IsValue(1)
    /\ \A i \in Nat \ {0} :
          IsValue(i + 1) <=> SpelledAt(i) = "module-path" /\ ~IsValue(i)
<1>1. ~IsValue(1)
  <2>1. RowBefore(1) = 0
    BY RowIsThere DEF IsRow
  <2> QED
    BY <2>1 DEF IsValue
<1>2. ASSUME NEW i \in Nat \ {0}
      PROVE  IsValue(i + 1) <=> SpelledAt(i) = "module-path" /\ ~IsValue(i)
  <2> DEFINE n == RowBefore(i)
             m == RowBefore(i + 1)
  <2>1. IsRow(n, i) /\ IsRow(m, i + 1)
    BY RowIsThere
  <2> HIDE DEF n, m
  <2>2. n \in 0..(i - 1) /\ m \in 0..i /\ i + 1 \in Nat \ {0}
    BY <2>1 DEF IsRow
  <2>3. CASE SpelledAt(i) = "module-path"
    <3>1. IsRow(n + 1, i + 1)
      <4>1. n + 1 \in 0..i
        BY <2>2
      <4>2. \A j \in ((i + 1) - (n + 1))..((i + 1) - 1) : SpelledAt(j) = "module-path"
        <5> TAKE j \in ((i + 1) - (n + 1))..((i + 1) - 1)
        <5>1. j = i \/ j \in (i - n)..(i - 1)
          BY <2>2
        <5> QED
          BY <2>1, <2>3, <5>1 DEF IsRow
      <4>3. n + 1 = (i + 1) - 1 \/ SpelledAt((i + 1) - (n + 1) - 1) # "module-path"
        <5>1. (i + 1) - (n + 1) - 1 = i - n - 1
          BY <2>2
        <5>2. n = i - 1 => n + 1 = (i + 1) - 1
          BY <2>2
        <5>3. n = i - 1 \/ SpelledAt(i - n - 1) # "module-path"
          BY <2>1 DEF IsRow
        <5> QED
          BY <5>1, <5>2, <5>3
      <4>4. n + 1 \in 0..((i + 1) - 1)
        BY <2>2
      <4> QED
        BY <4>2, <4>3, <4>4 DEF IsRow
    <3>2. m = n + 1
      BY <2>1, <2>2, <3>1, RowIsOne
    <3>3. ((n + 1) % 2) = 1 <=> ~((n % 2) = 1)
      BY <2>2
    <3> QED
      BY <2>3, <3>2, <3>3 DEF IsValue, n, m
  <2>4. CASE SpelledAt(i) # "module-path"
    <3>1. IsRow(0, i + 1)
      <4>1. (i + 1) - 0 - 1 = i /\ 0 \in 0..((i + 1) - 1) /\ ((i + 1) - 0)..((i + 1) - 1) = {}
        OBVIOUS
      <4> QED
        BY <2>4, <4>1 DEF IsRow
    <3>2. m = 0
      BY <2>1, <2>2, <3>1, RowIsOne
    <3> QED
      BY <2>4, <3>2 DEF IsValue, m
  <2> QED
    BY <2>3, <2>4
<1> QED
  BY <1>1, <1>2

-----------------------------------------------------------------------------
(* The types. *)

Directories == Values \cup {Discoverable[i] : i \in DOMAIN Discoverable}

OptionRecords ==
    [command : InformationalOptions \cup {"execute"}, source_path : Arguments \cup {"none"},
     flags : SUBSET Flags, module_directories : Seq(Values)]

CommandLineTypes ==
    /\ CommandLineTypeOK
    /\ options \in OptionRecords
    /\ discovered \in Seq(Directories) /\ search_directories \in Seq(Directories)

LEMMA OptionHasValue ==
    ASSUME CommandLineAssumption, CommandLineTypes, Reads, IsAttached \/ IsFollowed
    PROVE  OptionValue \in Values
<1>1. Argument \in Arguments
  BY DEF CommandLineTypes, CommandLineTypeOK, Reads, Argument
<1>2. CASE IsAttached
  BY <1>2 DEF OptionValue, IsAttached, Values
<1>3. CASE ~IsAttached
  <2>1. argument_index < Len(argument_values)
    BY <1>3 DEF IsFollowed
  <2>2. argument_values[argument_index + 1] \in Arguments
    BY <2>1 DEF CommandLineTypes, CommandLineTypeOK
  <2> QED
    BY <1>3, <2>2 DEF OptionValue, Values
<1> QED
  BY <1>2, <1>3

\* Adding a directory keeps the list within its limit.
LEMMA AddKeeps ==
    ASSUME CommandLineAssumption, CommandLineTypes, NEW directory \in Directories, Add(directory)
    PROVE  /\ search_directories' \in Seq(Directories)
           /\ Len(search_directories') <= LLFPL_MAXIMUM_MODULE_SEARCH_DIRECTORIES
<1>1. /\ search_directories \in Seq(Directories) /\ LLFPL_MAXIMUM_MODULE_SEARCH_DIRECTORIES \in Nat
      /\ Len(search_directories) <= LLFPL_MAXIMUM_MODULE_SEARCH_DIRECTORIES
  BY DEF CommandLineTypes, CommandLineTypeOK, CommandLineAssumption
<1>2. CASE CanAdd(directory)
  <2>1. Len(search_directories) < LLFPL_MAXIMUM_MODULE_SEARCH_DIRECTORIES
    BY <1>2 DEF CanAdd
  <2>2. search_directories' = Append(search_directories, directory)
    BY <1>2 DEF Add
  <2>3. /\ Append(search_directories, directory) \in Seq(Directories)
        /\ Len(Append(search_directories, directory)) = Len(search_directories) + 1
    BY <1>1
  <2> QED
    BY <1>1, <2>1, <2>2, <2>3
<1>3. CASE ~CanAdd(directory)
  BY <1>1, <1>3 DEF Add
<1> QED
  BY <1>2, <1>3

LEMMA TypesBegin ==
    ASSUME CommandLineAssumption, CommandLineInit
    PROVE  CommandLineTypes
<1>1. PICK n \in 0..MaximumArguments : argument_values \in [1..n -> Arguments]
  BY DEF CommandLineInit
<1>2. argument_values \in Seq(Arguments) /\ Len(argument_values) = n
  BY <1>1 DEF CommandLineAssumption
<1>3. << >> \in Seq(Values) /\ << >> \in Seq(Directories)
  OBVIOUS
<1>4. MaximumArguments \in Nat /\ LLFPL_MAXIMUM_MODULE_SEARCH_DIRECTORIES \in Nat
  BY DEF CommandLineAssumption
<1>5. options \in OptionRecords /\ options.module_directories = << >>
        /\ options.command = "execute" /\ options.source_path = "none" /\ options.flags = {}
  BY <1>3 DEF CommandLineInit, OptionRecords
<1>6. /\ argument_index = 1 /\ options_have_ended = FALSE /\ main_stage = "parsing"
      /\ discovered = << >> /\ search_directories = << >> /\ directory_index = 1
      /\ loaded = FALSE /\ reported_error_count = 0 /\ exit_status = -1
  BY DEF CommandLineInit, Unsettled
<1>7. Len(<< >>) = 0 /\ n \in Nat /\ n <= MaximumArguments
  BY <1>4
<1>8. Len(argument_values) <= MaximumArguments /\ argument_index \in 1..(Len(argument_values) + 1)
  BY <1>2, <1>6, <1>7
<1>9. /\ Len(options.module_directories) <= LLFPL_MAXIMUM_MODULE_SEARCH_DIRECTORIES
      /\ Len(search_directories) <= LLFPL_MAXIMUM_MODULE_SEARCH_DIRECTORIES
  BY <1>4, <1>5, <1>6, <1>7
<1>10. options.module_directories \in Seq(Values) /\ options.flags \subseteq Flags
  BY <1>3, <1>5
<1>11. CommandLineTypeOK
  <2>1. reported_error_count \in 0..1
    BY <1>6
  <2>2. loaded \in BOOLEAN /\ options_have_ended \in BOOLEAN
    BY <1>6, Zenon
  <2>3. exit_status \in Unsettled..2 /\ main_stage \in MainStages /\ directory_index \in Nat \ {0}
    BY <1>6 DEF Unsettled, MainStages
  <2>4. /\ options.command \in InformationalOptions \cup {"execute"}
        /\ options.source_path \in Arguments \cup {"none"}
    BY <1>5
  <2> QED
    BY <1>2, <1>8, <1>9, <1>10, <2>1, <2>2, <2>3, <2>4 DEF CommandLineTypeOK
<1> QED
  BY <1>3, <1>5, <1>6, <1>11 DEF CommandLineTypes

LEMMA TypesParse ==
    ASSUME CommandLineAssumption, CommandLineTypes,
           EndOptions \/ Inform \/ SetFlag \/ AddDirectory \/ RefuseDirectory
           \/ RefuseOption \/ TakeSource \/ RefuseSecondSource \/ FinishParsing
           \/ ExitWithoutSession \/ CreateSession
    PROVE  CommandLineTypes'
<1> USE DEF CommandLineTypes, CommandLineTypeOK, session_vars, parser_vars
<1>1. ASSUME Exit(2) PROVE CommandLineTypes'
  BY <1>1 DEF Exit, MainStages, Unsettled
<1>2. CASE EndOptions
  BY <1>2 DEF EndOptions, Continue, Reads
<1>3. CASE Inform
  <2>1. options'.command \in InformationalOptions
    BY <1>3 DEF Inform, Spells
  <2>2. options' \in OptionRecords /\ options'.module_directories = options.module_directories
    BY <1>3, <2>1 DEF Inform, OptionRecords
  <2>3. options'.source_path = options.source_path /\ options'.flags = options.flags
    BY <1>3, <2>1 DEF Inform, OptionRecords
  <2> QED
    BY <1>3, <2>1, <2>2, <2>3 DEF Inform, MainStages, Unsettled, LLFPL_EXIT_SUCCESS
<1>4. CASE SetFlag
  <2>1. Spelled[Argument] \in Flags
    BY <1>4 DEF SetFlag, Spells
  <2>2. options' \in OptionRecords /\ options'.module_directories = options.module_directories
    BY <1>4, <2>1 DEF SetFlag, OptionRecords
  <2>3. /\ options'.source_path = options.source_path /\ options'.command = options.command
        /\ options'.flags \subseteq Flags
    BY <1>4, <2>1 DEF SetFlag, OptionRecords
  <2> QED
    BY <1>4, <2>2, <2>3 DEF SetFlag, Continue, Reads
<1>5. CASE AddDirectory
  <2>1. OptionValue \in Values
    BY <1>5, OptionHasValue DEF AddDirectory
  <2>2. Len(options.module_directories) < LLFPL_MAXIMUM_MODULE_SEARCH_DIRECTORIES
    BY <1>5 DEF AddDirectory, DirectoriesFull, CommandLineAssumption
  <2>3. argument_index' \in 1..(Len(argument_values) + 1)
    <3>1. /\ argument_index \in 1..(Len(argument_values) + 1) /\ Len(argument_values) \in Nat
          /\ argument_index <= Len(argument_values)
      BY <1>5 DEF AddDirectory, Reads
    <3>2. \/ argument_index' = argument_index + 1
          \/ argument_index' = argument_index + 2 /\ argument_index < Len(argument_values)
      BY <1>5 DEF AddDirectory, Continue, IsFollowed
    <3> HIDE DEF CommandLineTypes, CommandLineTypeOK
    <3> QED
      BY <3>1, <3>2
  <2> DEFINE given == Append(options.module_directories, OptionValue)
  <2>4. given \in Seq(Values) /\ Len(given) = Len(options.module_directories) + 1
    BY <2>1 DEF OptionRecords
  <2>5. Len(options.module_directories) \in Nat /\ LLFPL_MAXIMUM_MODULE_SEARCH_DIRECTORIES \in Nat
    BY DEF OptionRecords, CommandLineAssumption
  <2>6. Len(given) <= LLFPL_MAXIMUM_MODULE_SEARCH_DIRECTORIES
    BY <2>2, <2>4, <2>5
  <2>7. options' = [options EXCEPT !.module_directories = given]
    BY <1>5 DEF AddDirectory
  <2> HIDE DEF given
  <2>8. options' \in OptionRecords /\ options'.module_directories = given
    BY <2>4, <2>7 DEF OptionRecords
  <2>9. /\ options'.source_path = options.source_path /\ options'.command = options.command
        /\ options'.flags = options.flags
    BY <2>7 DEF OptionRecords
  <2> QED
    <3>1. /\ UNCHANGED <<argument_values, options_have_ended, main_stage, exit_status>>
          /\ UNCHANGED session_vars
      BY <1>5 DEF AddDirectory, Continue
    <3>2. options'.module_directories \in Seq(Values)
          /\ Len(options'.module_directories) <= LLFPL_MAXIMUM_MODULE_SEARCH_DIRECTORIES
      BY <2>4, <2>6, <2>8
    <3>3. CommandLineTypeOK'
      BY <2>3, <2>9, <3>1, <3>2
    <3> QED
      BY <2>8, <3>1, <3>3
<1>6. CASE RefuseDirectory \/ RefuseOption \/ RefuseSecondSource \/ ExitWithoutSession
  BY <1>1, <1>6 DEF RefuseDirectory, RefuseOption, RefuseSecondSource,
       ExitWithoutSession, LLFPL_EXIT_USAGE_ERROR
<1>7. CASE TakeSource
  <2>1. Argument \in Arguments
    BY <1>7 DEF TakeSource, Reads, Argument
  <2>2. options' \in OptionRecords /\ options'.module_directories = options.module_directories
    BY <1>7, <2>1 DEF TakeSource, OptionRecords
  <2>3. /\ options'.source_path = Argument /\ options'.command = options.command
        /\ options'.flags = options.flags
    BY <1>7, <2>1 DEF TakeSource, OptionRecords
  <2> QED
    BY <1>7, <2>1, <2>2, <2>3 DEF TakeSource, Continue, Reads
<1>8. CASE FinishParsing
  BY <1>1, <1>8 DEF FinishParsing, LLFPL_EXIT_USAGE_ERROR, MainStages
<1>9. CASE CreateSession
  BY <1>9 DEF CreateSession, MainStages
<1> QED
  BY <1>2, <1>3, <1>4, <1>5, <1>6, <1>7, <1>8, <1>9

LEMMA TypesExecute ==
    ASSUME CommandLineAssumption, CommandLineTypes,
           \/ RegisterGiven \/ EndGiven \/ AddDefault \/ EndDefaults
           \/ ExecuteSource \/ UNCHANGED command_line_vars
    PROVE  CommandLineTypes'
<1> USE DEF CommandLineTypes, CommandLineTypeOK, session_vars, parser_vars
<1>1. CASE RegisterGiven
  <2>1. options.module_directories[directory_index] \in Directories
    BY <1>1 DEF RegisterGiven, Directories
  <2>2. /\ search_directories' \in Seq(Directories)
        /\ Len(search_directories') <= LLFPL_MAXIMUM_MODULE_SEARCH_DIRECTORIES
    BY <1>1, <2>1, AddKeeps DEF RegisterGiven
  <2> QED
    BY <1>1, <2>2 DEF RegisterGiven
<1>2. CASE AddDefault
  <2>1. Discoverable[directory_index] \in Directories
    BY <1>2 DEF AddDefault, Directories, CommandLineAssumption
  <2>2. /\ search_directories' \in Seq(Directories)
        /\ Len(search_directories') <= LLFPL_MAXIMUM_MODULE_SEARCH_DIRECTORIES
    BY <1>2, <2>1, AddKeeps DEF AddDefault
  <2>3. discovered' \in Seq(Directories)
    <3>1. \/ discovered' = discovered
          \/ discovered' = Append(discovered, Discoverable[directory_index])
      BY <1>2 DEF AddDefault
    <3>2. discovered \in Seq(Directories)
      OBVIOUS
    <3> DEFINE directory == Discoverable[directory_index]
    <3>3. directory \in Directories
      BY <2>1
    <3> HIDE DEF directory, CommandLineTypes, CommandLineTypeOK
    <3>4. Append(discovered, directory) \in Seq(Directories)
      BY <3>2, <3>3
    <3> QED
      BY <3>1, <3>2, <3>4 DEF directory
  <2> QED
    BY <1>2, <2>2, <2>3 DEF AddDefault
<1>3. CASE EndGiven \/ EndDefaults
  <2>1. /\ UNCHANGED parser_vars /\ main_stage' \in MainStages
        /\ UNCHANGED <<search_directories, discovered, loaded, reported_error_count, exit_status>>
    BY <1>3 DEF EndGiven, EndDefaults, MainStages
  <2>2. directory_index' \in Nat \ {0}
    <3>1. directory_index' = 1 \/ directory_index' = directory_index
      BY <1>3 DEF EndGiven, EndDefaults
    <3> QED
      BY <3>1
  <2> QED
    BY <2>1, <2>2
<1>4. CASE ExecuteSource
  BY <1>4 DEF ExecuteSource, ExitStatus, MainStages, Unsettled,
       LLFPL_EXIT_SUCCESS, LLFPL_EXIT_PROGRAM_ERROR
<1>5. CASE UNCHANGED command_line_vars
  BY <1>5 DEF command_line_vars
<1> QED
  BY <1>1, <1>2, <1>3, <1>4, <1>5

LEMMA TypesKept ==
    ASSUME CommandLineAssumption, CommandLineTypes, [CommandLineNext]_command_line_vars
    PROVE  CommandLineTypes'
BY TypesParse, TypesExecute DEF CommandLineNext, Terminating

-----------------------------------------------------------------------------
(* The list of search directories. *)

LEMMA LesserOfTwo ==
    ASSUME NEW a \in Nat, NEW b \in Nat
    PROVE  Min({a, b}) = IF a <= b THEN a ELSE b
<1> DEFINE least == IF a <= b THEN a ELSE b
<1>1. least \in {a, b} /\ \A y \in {a, b} : least <= y
  OBVIOUS
<1>2. \A x \in {a, b} : (\A y \in {a, b} : x <= y) => x = least
  OBVIOUS
<1> HIDE DEF least
<1>3. Min({a, b}) = least
  BY <1>1, <1>2 DEF Min
<1> QED
  BY <1>3 DEF least

\* Nothing is registered before the session exists; then the directories that
\* were given, up to the next, are in the list or reported.
Registering ==
    /\ main_stage \in {"parsing", "starting", "registering"} => discovered = << >>
    /\ main_stage \in {"parsing", "starting"} =>
          directory_index = 1 /\ search_directories = << >> /\ warnings = << >>
    /\ main_stage = "registering" =>
          LET passed == SubSeq(options.module_directories, 1, directory_index - 1)
          IN  /\ directory_index <= Len(options.module_directories) + 1
              /\ search_directories = Without(passed, OverlongDirectories)
              /\ warnings = Without(passed, Values \ OverlongDirectories)

ListInv == Registering /\ SearchedInOrder

LEMMA ListBegins ==
    ASSUME CommandLineInit PROVE ListInv
BY DEF CommandLineInit, ListInv, Registering, SearchedInOrder

\* As far as it is registered, a given directory is in the list or reported.
LEMMA GivenRegistered ==
    ASSUME CommandLineAssumption, CommandLineTypes, ListInv, RegisterGiven
    PROVE  ListInv'
<1> DEFINE given == options.module_directories
           k == directory_index
           Upto(n, set) == Without(SubSeq(given, 1, n), set)
<1>1. /\ given \in Seq(Values) /\ k \in 1..Len(given) /\ k - 1 \in Nat /\ k \in Nat
      /\ Len(given) <= LLFPL_MAXIMUM_MODULE_SEARCH_DIRECTORIES
      /\ LLFPL_MAXIMUM_MODULE_SEARCH_DIRECTORIES \in Nat /\ Len(given) \in Nat
  BY DEF CommandLineTypes, CommandLineTypeOK, CommandLineAssumption, RegisterGiven
<1>2. /\ discovered = << >>
      /\ search_directories = Upto(k - 1, OverlongDirectories)
      /\ warnings = Upto(k - 1, Values \ OverlongDirectories)
  BY DEF ListInv, Registering, RegisterGiven
<1>3. /\ options' = options /\ main_stage' = "registering" /\ discovered' = discovered
      /\ k' = k + 1
      /\ search_directories' = IF CanAdd(given[k]) THEN Append(search_directories, given[k])
                               ELSE search_directories
      /\ warnings' = IF CanAdd(given[k]) THEN warnings ELSE Append(warnings, given[k])
  BY DEF RegisterGiven, Add, parser_vars
<1>4. given[k] \in Values
  BY <1>1
<1> HIDE DEF given, k
<1>5. CanAdd(given[k]) <=> given[k] \notin OverlongDirectories
  <2>1. SubSeq(given, 1, k - 1) \in Seq(Values) /\ Len(SubSeq(given, 1, k - 1)) = k - 1
    BY <1>1
  <2>2. Len(search_directories) <= k - 1 /\ search_directories \in Seq(Values)
    BY <1>2, <2>1, WithoutPart
  <2>3. Len(search_directories) < LLFPL_MAXIMUM_MODULE_SEARCH_DIRECTORIES
    BY <1>1, <2>2
  <2> QED
    BY <2>3 DEF CanAdd
<1>6. \A set : Upto(k, set) = IF given[k] \in set THEN Upto(k - 1, set)
                              ELSE Append(Upto(k - 1, set), given[k])
  BY <1>1, WithoutNext
<1>7. /\ search_directories' = Upto(k, OverlongDirectories)
      /\ warnings' = Upto(k, Values \ OverlongDirectories)
  <2> HIDE DEF Upto
  <2> QED
    BY <1>2, <1>3, <1>4, <1>5, <1>6
<1>8. (k + 1) - 1 = k /\ k + 1 <= Len(given) + 1
  BY <1>1
<1>9. Registering'
  <2>1. given' = given
    BY <1>3 DEF given
  <2>2. /\ options'.module_directories = given /\ directory_index' = k + 1
        /\ directory_index' - 1 = k
    BY <1>3, <1>8 DEF given, k
  <2>3. /\ search_directories' = Without(SubSeq(given, 1, k), OverlongDirectories)
        /\ warnings' = Without(SubSeq(given, 1, k), Values \ OverlongDirectories)
    BY <1>7
  <2> QED
    BY <1>2, <1>3, <1>8, <2>2, <2>3 DEF Registering
<1> QED
  BY <1>3, <1>9 DEF ListInv, SearchedInOrder

\* Nothing has been discovered when the last of the given is registered.
LEMMA GivenEnds ==
    ASSUME CommandLineAssumption, CommandLineTypes, ListInv, EndGiven
    PROVE  ListInv'
<1> DEFINE given == options.module_directories
           kept == Without(given, OverlongDirectories)
           room == LLFPL_MAXIMUM_MODULE_SEARCH_DIRECTORIES - Len(kept)
<1>1. /\ given \in Seq(Values) /\ Len(given) \in Nat /\ directory_index \in Nat
      /\ Len(given) <= LLFPL_MAXIMUM_MODULE_SEARCH_DIRECTORIES
      /\ LLFPL_MAXIMUM_MODULE_SEARCH_DIRECTORIES \in Nat
      /\ main_stage = "registering" /\ directory_index > Len(given)
  BY DEF CommandLineTypes, CommandLineTypeOK, CommandLineAssumption, EndGiven
<1>2. /\ options' = options /\ main_stage' \in {"discovering", "executing"}
      /\ UNCHANGED <<search_directories, discovered, warnings>>
  BY DEF EndGiven, parser_vars
<1>3. SubSeq(given, 1, directory_index - 1) = given
  <2>1. directory_index <= Len(given) + 1
    BY <1>1 DEF ListInv, Registering
  <2>2. directory_index - 1 = Len(given)
    BY <1>1, <2>1
  <2>3. SubSeq(given, 1, Len(given)) = given
    BY <1>1
  <2> QED
    BY <2>2, <2>3
<1>4. /\ search_directories = kept /\ discovered = << >>
      /\ warnings = Without(given, Values \ OverlongDirectories)
  BY <1>1, <1>3 DEF ListInv, Registering
<1>5. kept \in Seq(Values) /\ Len(kept) <= Len(given)
  BY <1>1, WithoutPart
<1> HIDE DEF given, kept
<1>6. room \in Nat
  BY <1>1, <1>5
<1>7. Min({Len(discovered), room}) = 0
  <2>1. Len(discovered) = 0
    BY <1>4
  <2> HIDE DEF room
  <2> QED
    BY <1>6, <2>1, LesserOfTwo
<1>8. search_directories = kept \o SubSeq(discovered, 1, Min({Len(discovered), room}))
  <2>1. SubSeq(<< >>, 1, 0) = << >>
    OBVIOUS
  <2>2. kept \o << >> = kept
    BY <1>5
  <2>3. SubSeq(discovered, 1, Min({Len(discovered), room})) = << >>
    BY <1>4, <1>7, <2>1
  <2> QED
    BY <1>4, <2>2, <2>3
<1>9. SearchedInOrder'
  BY <1>2, <1>4, <1>8 DEF SearchedInOrder, given, kept
<1> QED
  BY <1>2, <1>9 DEF ListInv, Registering

\* A discovered directory is added as long as there is room.
LEMMA DefaultAdded ==
    ASSUME CommandLineAssumption, CommandLineTypes, ListInv, AddDefault
    PROVE  ListInv'
<1> DEFINE given == options.module_directories
           kept == Without(given, OverlongDirectories)
           limit == LLFPL_MAXIMUM_MODULE_SEARCH_DIRECTORIES
           room == limit - Len(kept)
           Part(list) == SubSeq(list, 1, Min({Len(list), room}))
           directory == Discoverable[directory_index]
<1>1. /\ given \in Seq(Values) /\ Len(given) \in Nat /\ limit \in Nat /\ Len(given) <= limit
      /\ discovered \in Seq(Directories) /\ Len(discovered) \in Nat
      /\ main_stage = "discovering" /\ main_stage' = "discovering"
  BY DEF CommandLineTypes, CommandLineTypeOK, CommandLineAssumption, AddDefault
<1>2. /\ search_directories = kept \o Part(discovered)
      /\ warnings = Without(given, Values \ OverlongDirectories)
  BY <1>1 DEF ListInv, SearchedInOrder
<1>3. options' = options /\ warnings' = warnings
  BY DEF AddDefault, parser_vars
<1>4. kept \in Seq(Directories) /\ Len(kept) <= Len(given)
  <2>1. kept \in Seq(Values) /\ Len(kept) <= Len(given)
    BY <1>1, WithoutPart
  <2> QED
    BY <2>1 DEF Directories
<1>5. directory \in Directories /\ directory \notin OverlongDirectories
  BY DEF CommandLineAssumption, CommandLineTypes, CommandLineTypeOK, AddDefault, Directories
<1> HIDE DEF given, kept, directory
<1>6. room \in Nat
  BY <1>1, <1>4
<1>7. search_directories' = kept \o Part(discovered')
  <2>1. CASE UNCHANGED <<discovered, search_directories>>
    BY <1>2, <2>1
  <2>2. CASE discovered' = Append(discovered, directory) /\ Add(directory)
    <3> DEFINE more == Append(discovered, directory)
               n == Len(discovered)
    <3>1. /\ n \in Nat /\ Len(more) = n + 1 /\ more \in Seq(Directories)
          /\ SubSeq(more, 1, n) = discovered /\ SubSeq(discovered, 1, n) = discovered
      BY <1>1, <1>5
    <3>2. Min({n, room}) = IF n <= room THEN n ELSE room
      BY <1>6, <3>1, LesserOfTwo
    <3>3. Min({n + 1, room}) = IF n + 1 <= room THEN n + 1 ELSE room
      BY <1>6, <3>1, LesserOfTwo
    <3> HIDE DEF room, n
    <3>4. CASE n < room
      <4>1. Min({n, room}) = n /\ Min({n + 1, room}) = n + 1
        BY <1>6, <3>1, <3>2, <3>3, <3>4
      <4>2. Part(discovered) = discovered
        BY <3>1, <4>1 DEF n
      <4>3. Part(more) = more
        <5>1. SubSeq(more, 1, Len(more)) = more
          BY <3>1
        <5> QED
          BY <3>1, <4>1, <5>1
      <4>4. Len(search_directories) < limit
        <5>1. Len(search_directories) = Len(kept) + n
          <6>1. Len(kept \o discovered) = Len(kept) + n
            BY <1>1, <1>4 DEF n
          <6>2. search_directories = kept \o discovered
            BY <1>2, <4>2
          <6> QED
            BY <6>1, <6>2
        <5>2. Len(kept) \in Nat /\ n < limit - Len(kept)
          BY <1>4, <3>4 DEF room
        <5> QED
          BY <1>1, <3>1, <5>1, <5>2
      <4>5. search_directories' = Append(kept \o discovered, directory)
        <5>1. CanAdd(directory)
          BY <1>5, <4>4 DEF CanAdd
        <5> QED
          BY <1>2, <2>2, <4>2, <5>1 DEF Add
      <4>6. Append(kept \o discovered, directory) = kept \o more
        <5> DEFINE joined == kept \o discovered
                   left == Append(joined, directory)
                   right == kept \o more
                   length == Len(kept) + n + 1
        <5> HIDE DEF Part, limit
        <5>1. kept \in Seq(Directories) /\ Len(kept) \in Nat
          BY <1>4
        <5>2. joined \in Seq(Directories) /\ Len(joined) = Len(kept) + n
          BY <1>1, <5>1 DEF n
        <5>3. left \in Seq(Directories) /\ Len(left) = length
          <6> HIDE DEF joined
          <6> QED
            BY <1>5, <5>2
        <5>4. right \in Seq(Directories) /\ Len(right) = length
          <6>1. more \in Seq(Directories) /\ Len(more) = n + 1 /\ n \in Nat
            BY <3>1
          <6> HIDE DEF more
          <6>2. kept \o more \in Seq(Directories)
            BY <5>1, <6>1
          <6>3. Len(kept \o more) = Len(kept) + Len(more)
            <7>1. kept \in Seq(Directories) /\ more \in Seq(Directories)
              BY <5>1, <6>1
            <7> QED
              BY <7>1
          <6> QED
            BY <5>1, <6>1, <6>2, <6>3
        <5>5. \A i \in 1..length : left[i] = right[i]
          BY <1>1, <1>5, <3>1, <5>1, <5>2 DEF n
        <5> HIDE DEF left, right, length
        <5>6. left = right
          BY <5>3, <5>4, <5>5
        <5> QED
          BY <5>6 DEF left, right, joined
      <4> QED
        BY <2>2, <4>3, <4>5, <4>6
    <3>5. CASE ~(n < room)
      <4>1. Min({n, room}) = room /\ Min({n + 1, room}) = room /\ room <= n
        BY <1>6, <3>1, <3>2, <3>3, <3>5
      <4>2. SubSeq(more, 1, room) = SubSeq(discovered, 1, room)
        BY <1>1, <1>5, <1>6, <4>1 DEF n
      <4>3. Part(more) = Part(discovered)
        BY <3>1, <4>1, <4>2 DEF n
      <4>4. ~(Len(search_directories) < limit)
        <5>1. /\ SubSeq(discovered, 1, room) \in Seq(Directories)
              /\ Len(SubSeq(discovered, 1, room)) = room
          BY <1>1, <1>6, <4>1 DEF n
        <5>2. Len(kept \o SubSeq(discovered, 1, room)) = Len(kept) + room
          BY <1>4, <5>1
        <5>3. Len(kept) + room = limit
          BY <1>1, <1>4 DEF room
        <5>4. search_directories = kept \o SubSeq(discovered, 1, room)
          BY <1>2, <4>1 DEF n
        <5>5. Len(search_directories) = limit
          BY <5>2, <5>3, <5>4
        <5>6. limit \in Nat
          BY <1>1
        <5> HIDE DEF limit
        <5> QED
          BY <5>5, <5>6
      <4>5. search_directories' = search_directories
        BY <2>2, <4>4 DEF Add, CanAdd
      <4> QED
        BY <1>2, <2>2, <4>3, <4>5
    <3> QED
      BY <3>4, <3>5
  <2> QED
    BY <2>1, <2>2 DEF AddDefault, directory
<1>8. SearchedInOrder'
  BY <1>2, <1>3, <1>7 DEF SearchedInOrder, given, kept
<1> QED
  BY <1>1, <1>8 DEF ListInv, Registering

LEMMA ListKept ==
    ASSUME CommandLineAssumption, CommandLineTypes, ListInv,
           [CommandLineNext]_command_line_vars
    PROVE  ListInv'
<1>1. CASE RegisterGiven \/ EndGiven \/ AddDefault
  BY <1>1, GivenRegistered, GivenEnds, DefaultAdded
<1>2. CASE EndDefaults \/ UNCHANGED command_line_vars
  BY <1>2 DEF EndDefaults, command_line_vars, parser_vars, session_vars,
     ListInv, Registering, SearchedInOrder
<1>3. CASE CreateSession
  <2>1. /\ UNCHANGED options /\ UNCHANGED session_vars
        /\ main_stage = "starting" /\ main_stage' = "registering"
    BY <1>3 DEF CreateSession, parser_vars
  <2>2. SubSeq(options.module_directories, 1, 0) = << >> /\ Len(options.module_directories) \in Nat
    BY DEF CommandLineTypes, CommandLineTypeOK
  <2>3. /\ discovered' = << >> /\ search_directories' = << >> /\ warnings' = << >>
        /\ directory_index' = 1
    BY <2>1 DEF ListInv, Registering, session_vars
  <2>4. /\ SubSeq(options'.module_directories, 1, directory_index' - 1) = << >>
        /\ directory_index' <= Len(options'.module_directories) + 1
    BY <2>1, <2>2, <2>3
  <2>5. Registering'
    BY <2>1, <2>3, <2>4, WithoutNone DEF Registering
  <2> QED
    BY <2>1, <2>5 DEF ListInv, SearchedInOrder
<1>4. CASE main_stage' \in {"parsing", "starting", "exited"} /\ UNCHANGED session_vars
           /\ main_stage = "parsing"
  BY <1>4 DEF ListInv, Registering, SearchedInOrder, session_vars
<1>5. CASE main_stage' = "exited"
  BY <1>5 DEF ListInv, Registering, SearchedInOrder
<1>6. ASSUME Exit(2) PROVE main_stage' = "exited"
  BY <1>6 DEF Exit
<1>7. ASSUME EndOptions \/ SetFlag \/ AddDirectory \/ TakeSource
      PROVE  /\ main_stage' \in {"parsing", "starting", "exited"} /\ UNCHANGED session_vars
             /\ main_stage = "parsing"
  BY <1>7 DEF EndOptions, SetFlag, AddDirectory, TakeSource, Continue, Reads
<1>8. ASSUME Inform \/ RefuseDirectory \/ RefuseOption \/ RefuseSecondSource
             \/ ExitWithoutSession \/ ExecuteSource
      PROVE  main_stage' = "exited"
  BY <1>6, <1>8 DEF Inform, RefuseDirectory, RefuseOption, RefuseSecondSource,
     ExitWithoutSession, ExecuteSource, LLFPL_EXIT_USAGE_ERROR
<1>9. ASSUME FinishParsing
      PROVE  \/ main_stage' = "exited"
             \/ /\ main_stage' \in {"parsing", "starting", "exited"} /\ UNCHANGED session_vars
                /\ main_stage = "parsing"
  BY <1>6, <1>9 DEF FinishParsing, LLFPL_EXIT_USAGE_ERROR
<1> QED
  BY <1>1, <1>2, <1>3, <1>4, <1>5, <1>7, <1>8, <1>9 DEF CommandLineNext, Terminating

-----------------------------------------------------------------------------
(* The marker, and the positions before another. *)

LEMMA LeastIsOne ==
    ASSUME NEW S, S \subseteq Nat, S # {}
    PROVE  Min(S) \in S /\ \A y \in S : Min(S) <= y
<1>1. \E x \in S : \A y \in S : x <= y
  BY LeastNatural
<1> QED
  BY <1>1 DEF Min

LEMMA LeastIs ==
    ASSUME NEW S, S \subseteq Nat, NEW m \in S, \A y \in S : m <= y
    PROVE  Min(S) = m
<1>1. Min(S) \in S /\ Min(S) <= m
  BY LeastIsOne
<1>2. Min(S) \in Nat /\ m \in Nat /\ m <= Min(S)
  BY <1>1
<1> QED
  BY <1>1, <1>2

LEMMA MarkerStands ==
    ASSUME CommandLineTypeOK
    PROVE  /\ Marker \in 1..(Len(argument_values) + 1)
           /\ Marker <= Len(argument_values) =>
                 SpelledAt(Marker) = "--" /\ ~IsValue(Marker)
           /\ \A i \in Positions :
                 SpelledAt(i) = "--" /\ ~IsValue(i) => Marker <= i
<1> DEFINE markers == {i \in Positions : SpelledAt(i) = "--" /\ ~IsValue(i)}
<1>1. Positions = 1..Len(argument_values) /\ Len(argument_values) \in Nat
  BY DEF CommandLineTypeOK, Positions
<1>2. Marker = IF markers = {} THEN Len(argument_values) + 1 ELSE Min(markers)
  BY DEF Marker
<1>3. CASE markers = {}
  BY <1>1, <1>2, <1>3
<1>4. CASE markers # {}
  <2>1. markers \subseteq Nat
    BY <1>1
  <2>2. Marker \in markers /\ \A i \in markers : Marker <= i
    <3> HIDE DEF markers
    <3> QED
      BY <1>2, <1>4, <2>1, LeastIsOne
  <2> QED
    BY <1>1, <2>2
<1> QED
  BY <1>3, <1>4

Before(S, k) == {i \in S : i < k}

LEMMA BeforeNext ==
    ASSUME NEW S, S \subseteq Nat, NEW k \in Nat
    PROVE  /\ k \in S => Before(S, k + 1) = Before(S, k) \cup {k}
           /\ k \notin S => Before(S, k + 1) = Before(S, k)
<1>1. \A i : i \in Before(S, k + 1) <=> i \in Before(S, k) \/ (i = k /\ k \in S)
  <2> TAKE i
  <2>1. CASE i \in S
    <3>1. i \in Nat
      BY <2>1
    <3>2. i < k + 1 <=> i < k \/ i = k
      BY <3>1
    <3> QED
      BY <2>1, <3>2 DEF Before
  <2>2. CASE i \notin S
    BY <2>2 DEF Before
  <2> QED
    BY <2>1, <2>2
<1> QED
  BY <1>1, Zenon

\* The positions that have a part to play.
LEMMA PartsArePositions ==
    ASSUME CommandLineTypeOK
    PROVE  /\ Positions = 1..Len(argument_values)
           /\ OptionsAt \subseteq Positions /\ Operands \subseteq Positions
           /\ DirectoryOptions \subseteq OptionsAt
           /\ Decisive \subseteq OptionsAt \cup Operands
BY DEF CommandLineTypeOK, Positions, OptionsAt, Operands, DirectoryOptions, Decisive,
   Informations, Mistakes

-----------------------------------------------------------------------------
(* The values in order. *)

LEMMA InOrderList ==
    ASSUME NEW P, IsFiniteSet(P)
    PROVE  Len(InOrder(P)) = Cardinality(P)
<1>1. Cardinality(P) \in Nat
  BY FS_CardinalityType
<1> DEFINE v(n) == ValueOf(CHOOSE i \in P : Cardinality({j \in P : j < i}) = n - 1)
<1>2. InOrder(P) = [n \in 1..Cardinality(P) |-> v(n)]
  BY <1>1 DEF InOrder
<1> HIDE DEF v
<1> QED
  BY <1>1, <1>2

LEMMA InOrderGrows ==
    ASSUME NEW P, P \subseteq Nat, IsFiniteSet(P), NEW k \in Nat, \A i \in P : i < k
    PROVE  InOrder(P \cup {k}) = Append(InOrder(P), ValueOf(k))
<1> DEFINE c == Cardinality(P)
           Q == P \cup {k}
           rank(S, i) == Cardinality({j \in S : j < i})
           at(S, n) == CHOOSE i \in S : Cardinality({j \in S : j < i}) = n - 1
<1>1. c \in Nat /\ Cardinality(Q) = c + 1
  <2>1. k \notin P
    OBVIOUS
  <2> QED
    BY <2>1, FS_CardinalityType, FS_AddElement
<1>2. {j \in Q : j < k} = P
  <2>1. \A j : j \in Q /\ j < k <=> j \in P
    <3>1. ~(k < k)
      OBVIOUS
    <3> QED
      BY <3>1, Zenon
  <2> QED
    BY <2>1, Zenon
<1>3. \A i \in P : {j \in Q : j < i} = {j \in P : j < i}
  OBVIOUS
<1>4. \A i \in P : rank(P, i) \in 0..(c - 1)
  <2> TAKE i \in P
  <2> DEFINE R == {j \in P : j < i}
  <2>1. R \subseteq P /\ R # P
    OBVIOUS
  <2> HIDE DEF R
  <2>2. Cardinality(R) < c /\ Cardinality(R) \in Nat
    <3>1. IsFiniteSet(R) /\ Cardinality(R) <= c /\ (Cardinality(R) = c => R = P)
      BY <2>1, FS_Subset
    <3>2. Cardinality(R) \in Nat
      BY <3>1, FS_CardinalityType
    <3> HIDE DEF c
    <3> QED
      BY <1>1, <2>1, <3>1, <3>2
  <2> QED
    BY <1>1, <2>2 DEF R
<1>5. \A n \in 1..c : at(Q, n) = at(P, n)
  <2> TAKE n \in 1..c
  <2>1. Cardinality({j \in Q : j < k}) # n - 1
    BY <1>1, <1>2
  <2>2. \A i : i \in Q /\ Cardinality({j \in Q : j < i}) = n - 1
                 <=> i \in P /\ Cardinality({j \in P : j < i}) = n - 1
    BY <1>3, <2>1
  <2> QED
    BY <2>2
<1>6. at(Q, c + 1) = k
  <2>1. Cardinality({j \in Q : j < k}) = (c + 1) - 1
    <3>1. c = (c + 1) - 1
      BY <1>1
    <3> QED
      BY <1>1, <1>2, <3>1
  <2>2. \A i \in Q : Cardinality({j \in Q : j < i}) = (c + 1) - 1 => i = k
    BY <1>1, <1>3, <1>4
  <2>3. k \in Q
    OBVIOUS
  <2> HIDE DEF Q, c
  <2> QED
    BY <2>1, <2>2, <2>3
<1> HIDE DEF at, rank
<1>7. InOrder(Q) = [n \in 1..(c + 1) |-> ValueOf(at(Q, n))]
  BY <1>1 DEF InOrder, at, rank
<1>8. InOrder(P) = [n \in 1..c |-> ValueOf(at(P, n))]
  BY <1>1 DEF InOrder, at
<1> HIDE DEF Q, c
<1>9. InOrder(Q) = Append(InOrder(P), ValueOf(k))
  <2>1. Len(InOrder(P)) = c
    BY <1>1, <1>8
  <2>2. \A n \in 1..c : InOrder(Q)[n] = InOrder(P)[n]
    BY <1>1, <1>5, <1>7, <1>8
  <2>3. InOrder(Q)[c + 1] = ValueOf(k)
    BY <1>1, <1>6, <1>7
  <2>4. Append(InOrder(P), ValueOf(k))
           = [n \in 1..(c + 1) |-> IF n = c + 1 THEN ValueOf(k) ELSE InOrder(P)[n]]
    BY <1>1, <1>8, <2>1
  <2> DEFINE last == ValueOf(k)
             longer == [n \in 1..(c + 1) |-> IF n = c + 1 THEN last ELSE InOrder(P)[n]]
  <2>5. \A n \in 1..(c + 1) : InOrder(Q)[n] = longer[n]
    BY <1>1, <2>2, <2>3
  <2>6. /\ InOrder(Q) = [n \in 1..(c + 1) |-> InOrder(Q)[n]]
        /\ longer = [n \in 1..(c + 1) |-> longer[n]]
    BY <1>7
  <2>7. InOrder(Q) = longer
    <3> HIDE DEF longer
    <3> QED
      BY <2>5, <2>6, Zenon
  <2> QED
    BY <2>4, <2>7
<1> QED
  BY <1>9 DEF Q

-----------------------------------------------------------------------------
(* The loop, and what was understood when it reaches an argument. *)

\* Nothing before the argument decides otherwise, and the options hold what
\* the arguments before it mean.
Understood ==
    /\ options_have_ended => Marker < argument_index
    /\ ~options_have_ended => argument_index <= Marker /\ ~IsValue(argument_index)
    /\ \A i \in Decisive : argument_index <= i
    /\ options.command = "execute"
    /\ \/ options.source_path = "none" /\ Before(Operands, argument_index) = {}
       \/ \E i \in Operands : /\ Before(Operands, argument_index) = {i}
                                 /\ options.source_path = argument_values[i]
    /\ options.flags
          = {SpelledAt(i) : i \in Before(OptionsAt, argument_index)} \cap Flags
    /\ options.module_directories = InOrder(Before(DirectoryOptions, argument_index))

LEMMA SameMeaning ==
    ASSUME argument_values' = argument_values
    PROVE  /\ Positions' = Positions /\ Marker' = Marker
           /\ \A i : IsValue(i)' <=> IsValue(i)
           /\ \A i : SpelledAt(i)' = SpelledAt(i)
           /\ OptionsAt' = OptionsAt /\ Operands' = Operands
           /\ DirectoryOptions' = DirectoryOptions
           /\ Informations' = Informations /\ Mistakes' = Mistakes
           /\ Decisive' = Decisive
           /\ \A P : InOrder(P)' = InOrder(P)
<1>1. Positions' = Positions
  BY DEF Positions
<1>2. \A i : SpelledAt(i)' = SpelledAt(i)
  BY DEF SpelledAt
<1>3. \A i : RowBefore(i)' = RowBefore(i)
  BY DEF RowBefore, SpelledAt
<1>4. \A i : IsValue(i)' <=> IsValue(i)
  BY <1>3 DEF IsValue
<1>5. Marker' = Marker
  BY <1>1, <1>2, <1>4 DEF Marker
<1>6. OptionsAt' = OptionsAt /\ Operands' = Operands
  BY <1>1, <1>4, <1>5 DEF OptionsAt, Operands
<1>7. DirectoryOptions' = DirectoryOptions /\ Informations' = Informations
  BY <1>2, <1>6 DEF DirectoryOptions, Informations
<1>8. \A i : (HasValue(i)' <=> HasValue(i)) /\ ValueOf(i)' = ValueOf(i)
  BY <1>1 DEF HasValue, ValueOf
<1>9. Mistakes' = Mistakes
  BY <1>2, <1>6, <1>7, <1>8 DEF Mistakes
<1>10. \A P : InOrder(P)' = InOrder(P)
  BY <1>8 DEF InOrder
<1> QED
  BY <1>1, <1>2, <1>4, <1>5, <1>6, <1>7, <1>9, <1>10 DEF Decisive

\* What the argument at hand is.
LEMMA ArgumentIs ==
    ASSUME CommandLineAssumption, CommandLineTypeOK, Understood, Reads
    PROVE  LET k == argument_index IN
           /\ k \in Positions /\ Argument = argument_values[k]
           /\ SpelledAt(k) = Spelled[Argument]
           /\ IsOption /\ Spelled[Argument] = "--" =>
                 k = Marker /\ k \notin OptionsAt /\ k \notin Operands
           /\ IsOption /\ Spelled[Argument] # "--" =>
                 k < Marker /\ k \in OptionsAt /\ k \notin Operands
           /\ ~IsOption => k \notin OptionsAt /\ k \in Operands
           /\ ~IsOption /\ ~options_have_ended => k < Marker
<1> DEFINE k == argument_index
<1>1. k \in 1..Len(argument_values) /\ k \in Positions
      /\ Positions = 1..Len(argument_values)
  BY PartsArePositions DEF CommandLineTypeOK, Reads
<1>2. Argument = argument_values[k] /\ Argument \in Arguments
      /\ SpelledAt(k) = Spelled[Argument]
  BY <1>1 DEF Argument, SpelledAt, CommandLineTypeOK
<1>3. Marker \in 1..(Len(argument_values) + 1) /\ Len(argument_values) \in Nat
  BY MarkerStands DEF CommandLineTypeOK
<1>4. CASE options_have_ended
  <2>1. Marker < k /\ ~IsOption
    BY <1>4 DEF Understood, IsOption
  <2>2. k \notin OptionsAt /\ k \in Operands
    BY <1>1, <1>3, <2>1 DEF OptionsAt, Operands
  <2> QED
    BY <1>1, <1>2, <1>4, <2>1, <2>2
<1>5. CASE ~options_have_ended
  <2>1. k <= Marker /\ ~IsValue(k)
    BY <1>5 DEF Understood
  <2>2. IsOption <=> Argument \in Introducing
    BY <1>5 DEF IsOption
  <2>3. CASE Spelled[Argument] = "--"
    <3>1. k = Marker
      BY <1>1, <1>2, <1>3, <2>1, <2>3, MarkerStands
    <3>2. k \notin OptionsAt /\ k \notin Operands
      BY <1>2, <1>3, <3>1 DEF OptionsAt, Operands
    <3>3. IsOption
      BY <1>2, <2>2, <2>3 DEF CommandLineAssumption
    <3> QED
      BY <1>1, <1>2, <2>3, <3>1, <3>2, <3>3
  <2>4. CASE Spelled[Argument] # "--"
    <3>1. k # Marker
      BY <1>1, <1>2, <2>4, MarkerStands
    <3>2. k < Marker
      BY <1>1, <1>3, <2>1, <3>1
    <3>3. ~(k > Marker)
      BY <1>1, <1>3, <3>2
    <3>4. IsOption => k \in OptionsAt /\ k \notin Operands
      BY <1>1, <1>2, <2>1, <2>2, <3>2, <3>3 DEF OptionsAt, Operands
    <3>5. ~IsOption => k \notin OptionsAt /\ k \in Operands
      BY <1>1, <1>2, <2>1, <2>2, <3>2, <3>3 DEF OptionsAt, Operands
    <3> QED
      BY <1>1, <1>2, <2>4, <3>2, <3>4, <3>5
  <2> QED
    BY <2>3, <2>4
<1> QED
  BY <1>4, <1>5

LEMMA DirectoriesCounted ==
    ASSUME CommandLineTypeOK, Understood
    PROVE  Cardinality({j \in DirectoryOptions : j < argument_index})
              = Len(options.module_directories)
<1> DEFINE P == Before(DirectoryOptions, argument_index)
<1>1. P \subseteq 1..Len(argument_values) /\ Len(argument_values) \in Int
  BY PartsArePositions DEF Before, CommandLineTypeOK
<1>2. IsFiniteSet(P)
  <2>1. IsFiniteSet(1..Len(argument_values))
    BY <1>1, FS_Interval
  <2> HIDE DEF P
  <2> QED
    BY <1>1, <2>1, FS_Subset
<1>3. Len(InOrder(P)) = Cardinality(P)
  <2> HIDE DEF P
  <2> QED
    BY <1>2, InOrderList
<1> QED
  BY <1>3 DEF Understood, Before

\* When the argument at hand decides, and how.
LEMMA DecidesWhen ==
    ASSUME CommandLineAssumption, CommandLineTypeOK, Understood
    PROVE  LET k == argument_index IN
           /\ k \in Informations <=>
                 k \in OptionsAt /\ SpelledAt(k) \in InformationalOptions
           /\ k \in Mistakes <=>
                 \/ /\ k \in OptionsAt /\ SpelledAt(k) = "none"
                    /\ argument_values[k] \notin DOMAIN Attached
                 \/ /\ k \in DirectoryOptions
                    /\ \/ ~HasValue(k) \/ ValueOf(k) = EMPTY
                       \/ Len(options.module_directories)
                             >= LLFPL_MAXIMUM_MODULE_SEARCH_DIRECTORIES
                 \/ k \in Operands /\ options.source_path # "none"
           /\ k \in Decisive => Min(Decisive) = k
<1> DEFINE k == argument_index
<1>1. k \in Informations <=>
         k \in OptionsAt /\ SpelledAt(k) \in InformationalOptions
  BY DEF Informations
<1>2. (\E j \in Operands : j < k) <=> options.source_path # "none"
  <2>1. CASE options.source_path = "none" /\ Before(Operands, k) = {}
    BY <2>1 DEF Before
  <2>2. CASE \E i \in Operands : /\ Before(Operands, k) = {i}
                                    /\ options.source_path = argument_values[i]
    <3>1. PICK i \in Operands : /\ Before(Operands, k) = {i}
                                   /\ options.source_path = argument_values[i]
      BY <2>2
    <3>2. i \in Positions /\ i < k
      BY <3>1, PartsArePositions DEF Before
    <3>3. argument_values[i] # "none"
      BY <3>2, PartsArePositions DEF CommandLineTypeOK, CommandLineAssumption
    <3> QED
      BY <3>1, <3>2, <3>3
  <2> QED
    BY <2>1, <2>2 DEF Understood
<1>3. Cardinality({j \in DirectoryOptions : j < k}) = Len(options.module_directories)
  BY DirectoriesCounted
<1>4. k \in Mistakes <=>
         \/ /\ k \in OptionsAt /\ SpelledAt(k) = "none"
            /\ argument_values[k] \notin DOMAIN Attached
         \/ k \in DirectoryOptions /\ (~HasValue(k) \/ ValueOf(k) = EMPTY)
         \/ /\ k \in DirectoryOptions
            /\ Len(options.module_directories) >= LLFPL_MAXIMUM_MODULE_SEARCH_DIRECTORIES
         \/ k \in Operands /\ \E j \in Operands : j < k
  BY <1>3 DEF Mistakes
<1>5. Decisive \subseteq Nat
  <2>1. Decisive \subseteq 1..Len(argument_values)
    BY PartsArePositions
  <2>2. \A i \in 1..Len(argument_values) : i \in Nat
    BY DEF CommandLineTypeOK
  <2> QED
    BY <2>1, <2>2
<1>6. k \in Decisive => Min(Decisive) = k
  BY <1>5, LeastIs DEF Understood
<1> QED
  BY <1>1, <1>2, <1>4, <1>6

\* Where the loop goes on.
LEMMA GoesOn ==
    ASSUME CommandLineTypeOK, Understood, argument_index \notin Decisive
    PROVE  /\ \A i \in Decisive : argument_index + 1 <= i
           /\ argument_index + 1 \notin Decisive =>
                 \A i \in Decisive : argument_index + 2 <= i
<1>1. argument_index \in Nat /\ Decisive \subseteq Nat
  <2>1. Decisive \subseteq 1..Len(argument_values)
    BY PartsArePositions
  <2>2. \A i \in 1..Len(argument_values) : i \in Nat
    BY DEF CommandLineTypeOK
  <2> QED
    BY <2>1, <2>2 DEF CommandLineTypeOK
<1>2. \A i \in Decisive : argument_index <= i /\ i # argument_index
  BY DEF Understood
<1>3. \A i \in Decisive : argument_index + 1 <= i
  BY <1>1, <1>2
<1> QED
  BY <1>1, <1>3

\* The parts before the next argument, when a value that is passed over has
\* none.
NextIs ==
    \/ argument_index' = argument_index + 1
    \/ /\ argument_index' = argument_index + 2
       /\ argument_index + 1 \notin OptionsAt \cup Operands

LEMMA NextParts ==
    ASSUME CommandLineTypeOK, NextIs
    PROVE  \A S \in {OptionsAt, Operands, DirectoryOptions} :
              /\ argument_index \in S =>
                    Before(S, argument_index') = Before(S, argument_index) \cup {argument_index}
              /\ argument_index \notin S =>
                    Before(S, argument_index') = Before(S, argument_index)
<1> TAKE S \in {OptionsAt, Operands, DirectoryOptions}
<1>1. S \subseteq Nat
  <2>1. S \subseteq 1..Len(argument_values)
    BY PartsArePositions
  <2>2. \A i \in 1..Len(argument_values) : i \in Nat
    BY DEF CommandLineTypeOK
  <2> QED
    BY <2>1, <2>2
<1>2. argument_index \in Nat
  BY DEF CommandLineTypeOK
<1>3. CASE argument_index' = argument_index + 1
  BY <1>1, <1>2, <1>3, BeforeNext
<1>4. CASE /\ argument_index' = argument_index + 2
           /\ argument_index + 1 \notin OptionsAt \cup Operands
  <2>1. argument_index + 1 \notin S /\ argument_index + 1 \in Nat
        /\ argument_index' = (argument_index + 1) + 1
    BY <1>2, <1>4, PartsArePositions
  <2>2. Before(S, argument_index') = Before(S, argument_index + 1)
    BY <1>1, <2>1, BeforeNext
  <2> QED
    BY <1>1, <1>2, <2>2, BeforeNext
<1> QED
  BY <1>3, <1>4 DEF NextIs

\* What a step that reads on must have made of its argument.
ReadOn ==
    LET k == argument_index IN
    /\ argument_values' = argument_values /\ NextIs
    /\ k \notin Decisive
    /\ options_have_ended' => Marker < argument_index'
    /\ ~options_have_ended' => argument_index' <= Marker /\ ~IsValue(argument_index')
    /\ options'.command = "execute"
    /\ k \in Operands =>
          options.source_path = "none" /\ options'.source_path = argument_values[k]
    /\ k \notin Operands => options'.source_path = options.source_path
    /\ k \in OptionsAt =>
          options'.flags = options.flags \cup ({SpelledAt(k)} \cap Flags)
    /\ k \notin OptionsAt => options'.flags = options.flags
    /\ k \in DirectoryOptions =>
          options'.module_directories = Append(options.module_directories, ValueOf(k))
    /\ k \notin DirectoryOptions =>
          options'.module_directories = options.module_directories

LEMMA UnderstoodReadOn ==
    ASSUME CommandLineAssumption, CommandLineTypeOK, Understood, ReadOn
    PROVE  Understood'
<1> DEFINE k == argument_index
           n == argument_index'
           O == OptionsAt
           D == DirectoryOptions
<1>1. /\ Marker' = Marker /\ O' = O /\ Operands' = Operands
      /\ D' = D /\ Decisive' = Decisive
      /\ \A i : SpelledAt(i)' = SpelledAt(i)
      /\ \A P : InOrder(P)' = InOrder(P)
      /\ \A i : IsValue(i)' <=> IsValue(i)
  BY SameMeaning DEF ReadOn
<1>2. NextIs /\ k \notin Decisive /\ argument_values' = argument_values
  BY DEF ReadOn
<1>3. \A i \in Decisive : n <= i
  <2>1. CASE n = k + 1
    BY <1>2, <2>1, GoesOn
  <2>2. CASE n = k + 2 /\ k + 1 \notin Decisive
    BY <1>2, <2>2, GoesOn
  <2> QED
    BY <1>2, <2>1, <2>2, PartsArePositions DEF NextIs
<1>4. \A S \in {O, Operands, D} :
         /\ k \in S => Before(S, n) = Before(S, k) \cup {k}
         /\ k \notin S => Before(S, n) = Before(S, k)
  BY <1>2, NextParts
<1>5. \/ options'.source_path = "none" /\ Before(Operands, n) = {}
      \/ \E i \in Operands : /\ Before(Operands, n) = {i}
                                /\ options'.source_path = argument_values[i]
  <2>1. CASE k \in Operands
    <3>1. options.source_path = "none" /\ options'.source_path = argument_values[k]
      BY <2>1 DEF ReadOn
    <3>2. \A i \in Operands : argument_values[i] # "none"
      BY PartsArePositions DEF CommandLineTypeOK, CommandLineAssumption
    <3>3. Before(Operands, k) = {}
      BY <3>1, <3>2 DEF Understood
    <3>4. Before(Operands, n) = {k}
      BY <1>4, <2>1, <3>3
    <3> QED
      BY <2>1, <3>1, <3>4
  <2>2. CASE k \notin Operands
    <3>1. /\ options'.source_path = options.source_path
          /\ Before(Operands, n) = Before(Operands, k)
      BY <1>4, <2>2 DEF ReadOn
    <3> QED
      BY <3>1 DEF Understood
  <2> QED
    BY <2>1, <2>2
<1>6. options'.flags = {SpelledAt(i) : i \in Before(O, n)} \cap Flags
  <2>1. options.flags = {SpelledAt(i) : i \in Before(O, k)} \cap Flags
    BY DEF Understood
  <2>2. CASE k \in O
    <3>1. options'.flags = options.flags \cup ({SpelledAt(k)} \cap Flags)
      BY <2>2 DEF ReadOn
    <3>2. Before(O, n) = Before(O, k) \cup {k}
      BY <1>4, <2>2
    <3> DEFINE B == Before(O, k)
    <3> HIDE DEF B
    <3>3. {SpelledAt(i) : i \in B \cup {k}}
             = {SpelledAt(i) : i \in B} \cup {SpelledAt(k)}
      OBVIOUS
    <3> QED
      BY <2>1, <3>1, <3>2, <3>3 DEF B
  <2>3. CASE k \notin O
    <3>1. options'.flags = options.flags
      BY <2>3 DEF ReadOn
    <3>2. Before(O, n) = Before(O, k)
      BY <1>4, <2>3
    <3> QED
      BY <2>1, <3>1, <3>2
  <2> QED
    BY <2>2, <2>3
<1>7. options'.module_directories = InOrder(Before(D, n))
  <2>1. options.module_directories = InOrder(Before(D, k))
    BY DEF Understood
  <2>2. CASE k \in D
    <3>1. options'.module_directories = Append(options.module_directories, ValueOf(k))
      BY <2>2 DEF ReadOn
    <3>2. Before(D, n) = Before(D, k) \cup {k}
      BY <1>4, <2>2
    <3>3. Before(D, k) \subseteq 1..Len(argument_values) /\ Len(argument_values) \in Nat
          /\ k \in Nat
      BY PartsArePositions DEF Before, CommandLineTypeOK
    <3>4. \A i \in Before(D, k) : i < k
      BY DEF Before
    <3> HIDE DEF D
    <3>5. IsFiniteSet(Before(D, k)) /\ Before(D, k) \subseteq Nat
      <4>1. IsFiniteSet(1..Len(argument_values))
        BY <3>3, FS_Interval
      <4>2. IsFiniteSet(Before(D, k))
        BY <3>3, <4>1, FS_Subset
      <4>3. \A i \in 1..Len(argument_values) : i \in Nat
        BY <3>3
      <4> QED
        BY <3>3, <4>2, <4>3
    <3>6. InOrder(Before(D, k) \cup {k}) = Append(InOrder(Before(D, k)), ValueOf(k))
      BY <3>3, <3>4, <3>5, InOrderGrows
    <3> QED
      BY <2>1, <3>1, <3>2, <3>6
  <2>3. CASE k \notin D
    <3>1. options'.module_directories = options.module_directories
      BY <2>3 DEF ReadOn
    <3>2. Before(D, n) = Before(D, k)
      BY <1>4, <2>3
    <3> QED
      BY <2>1, <3>1, <3>2
  <2> QED
    BY <2>2, <2>3
<1>8. /\ options_have_ended' => Marker < n
      /\ ~options_have_ended' => n <= Marker /\ ~IsValue(n)
      /\ options'.command = "execute"
  BY DEF ReadOn
<1>9. /\ Before(OptionsAt, argument_index)' = Before(O, n)
      /\ Before(Operands, argument_index)' = Before(Operands, n)
      /\ Before(DirectoryOptions, argument_index)' = Before(D, n)
  BY <1>1 DEF Before
<1>10. IsValue(argument_index)' <=> IsValue(n)
  BY <1>2, SameMeaning DEF IsValue, RowBefore, SpelledAt
<1>11. {SpelledAt(i) : i \in Before(O, n)}
          = {SpelledAt(i)' : i \in Before(O, n)}
  BY <1>1
<1> HIDE DEF O, D
<1> QED
  BY <1>1, <1>2, <1>3, <1>5, <1>6, <1>7, <1>8, <1>9, <1>10, <1>11 DEF Understood, O, D

-----------------------------------------------------------------------------
(* The steps of the loop. *)

LEMMA ReadsEnd ==
    ASSUME CommandLineAssumption, CommandLineTypeOK, Understood, EndOptions
    PROVE  ReadOn
<1> DEFINE k == argument_index
<1>1. /\ Reads /\ IsOption /\ Spelled[Argument] = "--"
      /\ argument_values' = argument_values /\ k' = k + 1 /\ options' = options
      /\ options_have_ended'
  BY DEF EndOptions, Spells, Continue
<1>2. k = Marker /\ k \notin OptionsAt /\ k \notin Operands /\ k \in Nat
  BY <1>1, ArgumentIs DEF CommandLineTypeOK
<1>3. k \notin DirectoryOptions /\ k \notin Decisive
  BY <1>2, PartsArePositions
<1> QED
  BY <1>1, <1>2, <1>3 DEF ReadOn, NextIs, Understood

\* The next argument when this one was no bare option that takes it.
LEMMA NextIsNoValue ==
    ASSUME CommandLineAssumption, CommandLineTypeOK, Understood, Reads,
           options_have_ended' = options_have_ended, argument_index' = argument_index + 1,
           IsOption => Spelled[Argument] \notin {"--", "module-path"}
    PROVE  /\ options_have_ended' => Marker < argument_index'
           /\ ~options_have_ended' => argument_index' <= Marker /\ ~IsValue(argument_index')
<1> DEFINE k == argument_index
<1>1. k \in Nat \ {0} /\ Marker \in Nat
  BY MarkerStands DEF CommandLineTypeOK
<1>2. CASE options_have_ended
  BY <1>1, <1>2 DEF Understood
<1>3. CASE ~options_have_ended
  <2>1. k < Marker /\ SpelledAt(k) = Spelled[Argument]
    BY <1>3, ArgumentIs
  <2>2. Spelled[Argument] # "module-path"
    <3>1. Argument \in Arguments
      BY DEF Reads, CommandLineTypeOK, Argument
    <3>2. ~IsOption => Argument \notin Introducing
      BY <1>3 DEF IsOption
    <3> QED
      BY <3>1, <3>2 DEF CommandLineAssumption
  <2>3. ~IsValue(k + 1)
    BY <1>1, <2>1, <2>2, ValueAfterOption
  <2>4. k + 1 <= Marker
    BY <1>1, <2>1
  <2> QED
    BY <1>3, <2>3, <2>4
<1> QED
  BY <1>2, <1>3

LEMMA ReadsFlag ==
    ASSUME CommandLineAssumption, CommandLineTypes, Understood, SetFlag
    PROVE  ReadOn
<1> DEFINE k == argument_index
<1>1. /\ Reads /\ IsOption /\ Spelled[Argument] \in Flags
      /\ argument_values' = argument_values /\ k' = k + 1
      /\ options' = [options EXCEPT !.flags = @ \cup {Spelled[Argument]}]
      /\ options_have_ended' = options_have_ended /\ CommandLineTypeOK
  BY DEF SetFlag, Spells, Continue, CommandLineTypes
<1>2. Spelled[Argument] \notin {"none", "--", "module-path"} \cup InformationalOptions
  BY <1>1 DEF Flags, InformationalOptions
<1>3. /\ k \in OptionsAt /\ k \notin Operands
      /\ Argument = argument_values[k] /\ SpelledAt(k) = Spelled[Argument]
  BY <1>1, <1>2, ArgumentIs
<1>4. k \notin DirectoryOptions
  BY <1>2, <1>3 DEF DirectoryOptions, CommandLineAssumption
<1>5. k \notin Informations /\ k \notin Mistakes
  BY <1>1, <1>2, <1>3, <1>4, DecidesWhen
<1>6. /\ options_have_ended' => Marker < argument_index'
      /\ ~options_have_ended' => argument_index' <= Marker /\ ~IsValue(argument_index')
  BY <1>1, <1>2, NextIsNoValue
<1>7. /\ options'.command = options.command /\ options'.source_path = options.source_path
      /\ options'.module_directories = options.module_directories
      /\ options'.flags = options.flags \cup {Spelled[Argument]}
  BY <1>1 DEF CommandLineTypes, OptionRecords
<1>8. options.command = "execute" /\ k \notin Decisive
  BY <1>5 DEF Understood, Decisive
<1>9. {SpelledAt(k)} \cap Flags = {Spelled[Argument]}
  BY <1>1, <1>3
<1> QED
  BY <1>1, <1>3, <1>4, <1>6, <1>7, <1>8, <1>9 DEF ReadOn, NextIs

LEMMA ReadsSource ==
    ASSUME CommandLineAssumption, CommandLineTypes, Understood, TakeSource
    PROVE  ReadOn
<1> DEFINE k == argument_index
<1>1. /\ Reads /\ ~IsOption /\ options.source_path = "none"
      /\ argument_values' = argument_values /\ k' = k + 1
      /\ options' = [options EXCEPT !.source_path = Argument]
      /\ options_have_ended' = options_have_ended /\ CommandLineTypeOK
  BY DEF TakeSource, Continue, CommandLineTypes
<1>2. /\ k \notin OptionsAt /\ k \in Operands /\ Argument = argument_values[k]
  BY <1>1, ArgumentIs
<1>3. k \notin DirectoryOptions
  BY <1>1, <1>2, PartsArePositions
<1>4. k \notin Informations /\ k \notin Mistakes
  BY <1>1, <1>2, <1>3, DecidesWhen
<1>5. /\ options_have_ended' => Marker < argument_index'
      /\ ~options_have_ended' => argument_index' <= Marker /\ ~IsValue(argument_index')
  BY <1>1, NextIsNoValue
<1>6. /\ options'.command = options.command /\ options'.source_path = argument_values[k]
      /\ options'.module_directories = options.module_directories
      /\ options'.flags = options.flags
  BY <1>1, <1>2 DEF CommandLineTypes, OptionRecords
<1>7. options.command = "execute" /\ k \notin Decisive
  BY <1>4 DEF Understood, Decisive
<1> QED
  BY <1>1, <1>2, <1>3, <1>5, <1>6, <1>7 DEF ReadOn, NextIs

\* What an option that names a directory is.
LEMMA DirectoryOptionIs ==
    ASSUME CommandLineAssumption, CommandLineTypeOK, Understood, Reads,
           IsAttached \/ Spells({"module-path"})
    PROVE  LET k == argument_index IN
           /\ k \in OptionsAt /\ k \in DirectoryOptions /\ k \notin Operands
           /\ k \notin Informations /\ SpelledAt(k) \notin Flags
           /\ k \in Mistakes <=>
                 \/ ~(IsAttached \/ IsFollowed)
                 \/ OptionValue = EMPTY \/ DirectoriesFull
           /\ IsAttached \/ IsFollowed => ValueOf(k) = OptionValue
           /\ SpelledAt(k) = IF IsAttached THEN "none" ELSE "module-path"
           /\ IsFollowed => ~IsAttached
<1> DEFINE k == argument_index
<1>1. IsOption /\ (~IsAttached => Spelled[Argument] = "module-path")
  BY DEF IsAttached, Spells
<1>2. Argument = argument_values[k] /\ SpelledAt(k) = Spelled[Argument]
      /\ k \in Positions /\ Positions = 1..Len(argument_values)
  BY ArgumentIs, PartsArePositions
<1>3. IsAttached <=> Argument \in DOMAIN Attached
  BY <1>1 DEF IsAttached
<1>4. /\ Spelled[Argument] = IF IsAttached THEN "none" ELSE "module-path"
      /\ Spelled[Argument] \notin {"--"} \cup InformationalOptions \cup Flags
  BY <1>1, <1>3 DEF CommandLineAssumption, InformationalOptions, Flags
<1>5. k \in OptionsAt /\ k \notin Operands
  BY <1>1, <1>4, ArgumentIs
<1>6. k \in DirectoryOptions
  BY <1>1, <1>2, <1>3, <1>5 DEF DirectoryOptions
<1>7. IsFollowed <=> ~IsAttached /\ k < Len(argument_values)
  BY <1>1, <1>4 DEF IsFollowed, Spells
<1>8. k + 1 \in Positions <=> k < Len(argument_values)
  BY <1>2 DEF CommandLineTypeOK
<1>9. HasValue(k) <=> IsAttached \/ IsFollowed
  BY <1>2, <1>3, <1>7, <1>8 DEF HasValue
<1>10. ValueOf(k) = OptionValue
  BY <1>2, <1>3 DEF ValueOf, OptionValue
<1>11. DirectoriesFull <=>
          Len(options.module_directories) >= LLFPL_MAXIMUM_MODULE_SEARCH_DIRECTORIES
  BY DEF DirectoriesFull
<1>12. k \notin Informations
  BY <1>2, <1>4, DecidesWhen
<1>13. k \in Mistakes <=>
          \/ ~(IsAttached \/ IsFollowed)
          \/ OptionValue = EMPTY \/ DirectoriesFull
  <2>1. ~(SpelledAt(k) = "none" /\ argument_values[k] \notin DOMAIN Attached)
    BY <1>2, <1>3, <1>4
  <2> QED
    BY <1>5, <1>6, <1>9, <1>10, <1>11, <2>1, DecidesWhen
<1> QED
  BY <1>2, <1>4, <1>5, <1>6, <1>7, <1>10, <1>12, <1>13

LEMMA ReadsDirectory ==
    ASSUME CommandLineAssumption, CommandLineTypes, Understood, AddDirectory
    PROVE  ReadOn
<1> DEFINE k == argument_index
<1>1. /\ Reads /\ (IsAttached \/ IsFollowed)
      /\ OptionValue # EMPTY /\ ~DirectoriesFull
      /\ argument_values' = argument_values
      /\ k' = k + (IF IsFollowed THEN 2 ELSE 1)
      /\ options' = [options EXCEPT !.module_directories = Append(@, OptionValue)]
      /\ options_have_ended' = options_have_ended /\ CommandLineTypeOK
  BY DEF AddDirectory, Continue, CommandLineTypes
<1>2. IsAttached \/ Spells({"module-path"})
  BY <1>1 DEF IsFollowed
<1>3. /\ k \in OptionsAt /\ k \in DirectoryOptions /\ k \notin Operands
      /\ k \notin Informations /\ SpelledAt(k) \notin Flags
      /\ k \notin Mistakes /\ ValueOf(k) = OptionValue
      /\ SpelledAt(k) = IF IsAttached THEN "none" ELSE "module-path"
      /\ IsFollowed => ~IsAttached
  BY <1>1, <1>2, DirectoryOptionIs
<1>4. IsOption /\ ~options_have_ended
  BY <1>2 DEF IsAttached, Spells, IsOption
<1>5. k < Marker /\ SpelledAt(k) = Spelled[Argument] /\ ~IsValue(k)
  BY <1>1, <1>3, <1>4, ArgumentIs DEF Understood
<1>6. k \in Nat \ {0} /\ Marker \in 1..(Len(argument_values) + 1)
      /\ Len(argument_values) \in Nat
  BY <1>1, MarkerStands DEF CommandLineTypeOK
<1>7. NextIs /\ k' <= Marker /\ ~IsValue(k')
  <2>1. CASE ~IsFollowed
    <3>1. IsAttached /\ k' = k + 1
      BY <1>1, <2>1
    <3>2. SpelledAt(k) # "module-path"
      BY <1>3, <3>1
    <3>3. ~IsValue(k + 1)
      BY <1>6, <3>2, ValueAfterOption
    <3>4. k + 1 <= Marker
      BY <1>5, <1>6
    <3> QED
      BY <3>1, <3>3, <3>4 DEF NextIs
  <2>2. CASE IsFollowed
    <3>1. SpelledAt(k) = "module-path" /\ k < Len(argument_values) /\ k' = k + 2
      BY <1>1, <1>3, <2>2 DEF IsFollowed
    <3>2. IsValue(k + 1)
      BY <1>5, <1>6, <3>1, ValueAfterOption
    <3>3. ~IsValue(k + 2)
      <4>1. k + 1 \in Nat \ {0} /\ (k + 1) + 1 = k + 2
        BY <1>6
      <4> QED
        BY <3>2, <4>1, ValueAfterOption
    <3>4. k + 1 # Marker
      <4>1. k + 1 <= Len(argument_values)
        BY <1>6, <3>1
      <4> QED
        BY <1>1, <3>2, <4>1, MarkerStands
    <3>5. k + 2 <= Marker /\ ~(k + 1 > Marker)
      BY <1>5, <1>6, <3>4
    <3>6. k + 1 \notin OptionsAt \cup Operands
      BY <3>2, <3>5 DEF OptionsAt, Operands
    <3> QED
      BY <3>1, <3>3, <3>5, <3>6 DEF NextIs
  <2> QED
    BY <2>1, <2>2
<1>8. /\ options'.command = options.command /\ options'.source_path = options.source_path
      /\ options'.module_directories = Append(options.module_directories, OptionValue)
      /\ options'.flags = options.flags
  BY <1>1 DEF CommandLineTypes, OptionRecords
<1>9. options.command = "execute" /\ k \notin Decisive
  BY <1>3 DEF Understood, Decisive
<1>10. {SpelledAt(k)} \cap Flags = {}
  BY <1>3
<1> QED
  BY <1>1, <1>3, <1>4, <1>7, <1>8, <1>9, <1>10 DEF ReadOn

-----------------------------------------------------------------------------
(* The theorems. *)

\* What is executed was asked for.
Asked ==
    main_stage \notin {"parsing", "exited"} =>
       /\ options.command = "execute" /\ options.source_path # "none"
       /\ argument_index > Len(argument_values)

ParserInv ==
    /\ main_stage = "parsing" => Understood
    /\ Asked
    /\ ParsedAsMeant

LEMMA NothingUnderstood ==
    ASSUME CommandLineAssumption, CommandLineTypes, CommandLineInit
    PROVE  Understood
<1>1. /\ argument_index = 1 /\ ~options_have_ended
      /\ options = [command |-> "execute", source_path |-> "none", flags |-> {},
                    module_directories |-> << >>]
  BY DEF CommandLineInit
<1>2. \A S \in {OptionsAt, Operands, DirectoryOptions, Decisive} :
         S \subseteq 1..Len(argument_values)
  BY PartsArePositions DEF CommandLineTypes
<1>3. \A S \in {OptionsAt, Operands, DirectoryOptions} : Before(S, 1) = {}
  BY <1>2 DEF Before, CommandLineTypes, CommandLineTypeOK
<1>4. \A i \in Decisive : 1 <= i
  BY <1>2 DEF CommandLineTypes, CommandLineTypeOK
<1>5. InOrder({}) = << >>
  <2>1. Cardinality({}) = 0
    BY FS_EmptySet
  <2>2. 1..0 = {}
    OBVIOUS
  <2> QED
    BY <2>1, <2>2 DEF InOrder
<1>6. 1 <= Marker
  BY MarkerStands DEF CommandLineTypes, CommandLineTypeOK
<1>7. ~IsValue(1)
  BY ValueAfterOption
<1> QED
  BY <1>1, <1>3, <1>4, <1>5, <1>6, <1>7 DEF Understood

LEMMA ParserBegins ==
    ASSUME CommandLineAssumption, CommandLineTypes, CommandLineInit
    PROVE  ParserInv
BY NothingUnderstood DEF ParserInv, Asked, ParsedAsMeant, CommandLineInit

\* A step of the loop that goes on.
LEMMA ParserReadsOn ==
    ASSUME CommandLineAssumption, CommandLineTypes, ParserInv,
           EndOptions \/ SetFlag \/ AddDirectory \/ TakeSource
    PROVE  ParserInv'
<1>1. main_stage = "parsing" /\ main_stage' = "parsing"
  BY DEF EndOptions, SetFlag, AddDirectory, TakeSource, Continue, Reads
<1>2. Understood /\ CommandLineTypeOK
  BY <1>1 DEF ParserInv, CommandLineTypes
<1>3. ReadOn
  BY <1>2, ReadsEnd, ReadsFlag, ReadsDirectory, ReadsSource
<1>4. Understood'
  BY <1>2, <1>3, UnderstoodReadOn
<1> QED
  BY <1>1, <1>4 DEF ParserInv, Asked, ParsedAsMeant

LEMMA ParserInforms ==
    ASSUME CommandLineAssumption, CommandLineTypes, ParserInv, Inform
    PROVE  ParserInv'
<1> DEFINE k == argument_index
<1>1. /\ Reads /\ IsOption /\ Spelled[Argument] \in InformationalOptions
      /\ options' = [options EXCEPT !.command = Spelled[Argument]]
      /\ argument_values' = argument_values /\ main_stage' = "exited"
  BY DEF Inform, Spells
<1>2. Understood /\ CommandLineTypeOK
  BY <1>1 DEF ParserInv, CommandLineTypes, Reads
<1>3. Spelled[Argument] \notin {"--", "execute"}
  BY <1>1 DEF InformationalOptions
<1>4. k \in OptionsAt /\ SpelledAt(k) = Spelled[Argument]
  BY <1>1, <1>2, <1>3, ArgumentIs
<1>5. k \in Informations
  BY <1>1, <1>2, <1>4, DecidesWhen
<1>6. k \in Decisive /\ Min(Decisive) = k
  BY <1>2, <1>5, DecidesWhen DEF Decisive
<1>7. options'.command = SpelledAt(k)
  BY <1>1, <1>4 DEF CommandLineTypes, OptionRecords
<1>8. /\ Decisive' = Decisive /\ Informations' = Informations
      /\ \A i : SpelledAt(i)' = SpelledAt(i)
  BY <1>1, SameMeaning
<1>9. Min(Decisive)' = k /\ SpelledAt(Min(Decisive))' = SpelledAt(k)
  BY <1>1, <1>6, <1>8 DEF Min, SpelledAt
<1>10. ParsedAsMeant'
  BY <1>1, <1>3, <1>4, <1>5, <1>6, <1>7, <1>8, <1>9 DEF ParsedAsMeant
<1> QED
  BY <1>1, <1>10 DEF ParserInv, Asked

\* A refusal at an argument that is a mistake.
LEMMA ParserRefuses ==
    ASSUME CommandLineAssumption, CommandLineTypes, ParserInv,
           RefuseDirectory \/ RefuseOption \/ RefuseSecondSource
    PROVE  ParserInv'
<1> DEFINE k == argument_index
<1>1. /\ Reads /\ main_stage' = "exited"
      /\ options' = options /\ argument_values' = argument_values
  BY DEF RefuseDirectory, RefuseOption, RefuseSecondSource, Exit, parser_vars
<1>2. Understood /\ CommandLineTypeOK
  BY <1>1 DEF ParserInv, CommandLineTypes, Reads
<1>3. k \in Mistakes
  <2>1. CASE RefuseDirectory
    <3>1. IsAttached \/ Spells({"module-path"})
      BY <2>1 DEF RefuseDirectory, IsFollowed
    <3>2. \/ ~(IsAttached \/ IsFollowed)
          \/ OptionValue = EMPTY \/ DirectoriesFull
      <4>1. Spells({"module-path"}) => ~IsAttached
        BY DEF Spells, IsAttached, CommandLineAssumption
      <4> QED
        BY <2>1, <4>1 DEF RefuseDirectory
    <3> QED
      BY <1>1, <1>2, <3>1, <3>2, DirectoryOptionIs
  <2>2. CASE RefuseOption
    <3>1. IsOption /\ Spelled[Argument] = "none" /\ Argument \notin DOMAIN Attached
      BY <2>2 DEF RefuseOption, Spells, IsAttached
    <3>2. /\ k \in OptionsAt /\ SpelledAt(k) = "none"
          /\ Argument = argument_values[k]
      BY <1>1, <1>2, <3>1, ArgumentIs
    <3> QED
      BY <1>2, <3>1, <3>2, DecidesWhen
  <2>3. CASE RefuseSecondSource
    <3>1. ~IsOption /\ options.source_path # "none"
      BY <2>3 DEF RefuseSecondSource
    <3>2. k \in Operands
      BY <1>1, <1>2, <3>1, ArgumentIs
    <3> QED
      BY <1>2, <3>1, <3>2, DecidesWhen
  <2> QED
    BY <2>1, <2>2, <2>3
<1>4. k \in Decisive /\ Min(Decisive) = k
  BY <1>2, <1>3, DecidesWhen DEF Decisive
<1>5. /\ Decisive' = Decisive /\ Mistakes' = Mistakes
  BY <1>1, SameMeaning
<1>6. Min(Decisive)' = k
  BY <1>4, <1>5 DEF Min
<1>7. options'.command = "execute"
  BY <1>1, <1>2 DEF Understood
<1>8. ParsedAsMeant'
  BY <1>1, <1>3, <1>4, <1>5, <1>6, <1>7 DEF ParsedAsMeant
<1> QED
  BY <1>1, <1>8 DEF ParserInv, Asked

\* The end of the arguments.
LEMMA ParserFinishes ==
    ASSUME CommandLineAssumption, CommandLineTypes, ParserInv, FinishParsing
    PROVE  ParserInv'
<1> DEFINE k == argument_index
<1>1. /\ options' = options /\ argument_values' = argument_values /\ argument_index' = k
      /\ main_stage = "parsing" /\ k > Len(argument_values)
      /\ main_stage' = IF options.source_path = "none" THEN "exited" ELSE "starting"
  BY DEF FinishParsing, Exit, parser_vars
<1>2. Understood /\ CommandLineTypeOK
  BY <1>1 DEF ParserInv, CommandLineTypes
<1>3. k \in Nat /\ Len(argument_values) \in Nat
  BY <1>2 DEF CommandLineTypeOK
<1>4. \A S \in {OptionsAt, Operands, DirectoryOptions, Decisive} :
         S \subseteq 1..Len(argument_values)
  BY <1>2, PartsArePositions
<1>5. Decisive = {}
  <2>1. \A i \in Decisive : k <= i
    BY <1>2 DEF Understood
  <2> QED
    BY <1>1, <1>3, <1>4, <2>1
<1>6. \A S \in {OptionsAt, Operands, DirectoryOptions} : Before(S, k) = S
  <2> TAKE S \in {OptionsAt, Operands, DirectoryOptions}
  <2>1. \A i \in S : i < k
    BY <1>1, <1>3, <1>4
  <2> QED
    BY <2>1 DEF Before
<1>7. /\ Decisive' = Decisive /\ Operands' = Operands
      /\ OptionsAt' = OptionsAt /\ DirectoryOptions' = DirectoryOptions
      /\ \A i : SpelledAt(i)' = SpelledAt(i)
      /\ \A P : InOrder(P)' = InOrder(P)
  BY <1>1, SameMeaning
<1>8. options'.command = "execute"
  BY <1>1, <1>2 DEF Understood
<1>9. \/ options.source_path = "none" /\ Operands = {}
      \/ \E i \in Operands : Operands = {i} /\ options.source_path = argument_values[i]
  BY <1>2, <1>6 DEF Understood
<1>10. CASE options.source_path = "none"
  <2>1. Operands = {}
    <3>1. \A i \in Operands : argument_values[i] # "none"
      BY <1>2, <1>4 DEF CommandLineTypeOK, CommandLineAssumption
    <3> QED
      BY <1>9, <1>10, <3>1
  <2>2. ParsedAsMeant'
    BY <1>1, <1>5, <1>7, <1>8, <1>10, <2>1 DEF ParsedAsMeant
  <2> QED
    BY <1>1, <1>10, <2>2 DEF ParserInv, Asked
<1>11. CASE options.source_path # "none"
  <2>1. PICK i \in Operands :
           Operands = {i} /\ options.source_path = argument_values[i]
    BY <1>9, <1>11
  <2>2. Cardinality(Operands) = 1
    BY <2>1, FS_Singleton
  <2>3. Cardinality(Operands)' = 1
    <3>1. Cardinality(Operands') = 1
      BY <1>7, <2>2
    <3> QED
      BY <3>1
  <2>4. /\ options.flags = {SpelledAt(j) : j \in OptionsAt} \cap Flags
        /\ options.module_directories = InOrder(DirectoryOptions)
    BY <1>2, <1>6 DEF Understood
  <2>5. options'.flags = {SpelledAt(j)' : j \in OptionsAt'} \cap Flags
    BY <1>1, <1>7, <2>4
  <2>6. options'.module_directories = InOrder(DirectoryOptions)'
    <3>1. InOrder(DirectoryOptions)' = InOrder(DirectoryOptions)
      BY <1>1, <1>7 DEF InOrder, ValueOf
    <3> QED
      BY <1>1, <2>4, <3>1
  <2>7. \A j \in Operands' : options'.source_path = argument_values'[j]
    BY <1>1, <1>7, <2>1
  <2>8. ParsedAsMeant'
    BY <1>1, <1>5, <1>7, <1>8, <1>11, <2>3, <2>5, <2>6, <2>7 DEF ParsedAsMeant
  <2> QED
    BY <1>1, <1>3, <1>8, <1>11, <2>8 DEF ParserInv, Asked
<1> QED
  BY <1>10, <1>11

\* After the arguments nothing is read any more.
LEMMA ParserRests ==
    ASSUME CommandLineAssumption, CommandLineTypes, ParserInv,
           \/ ExitWithoutSession \/ CreateSession \/ RegisterGiven \/ EndGiven
           \/ AddDefault \/ EndDefaults \/ ExecuteSource
    PROVE  ParserInv'
<1>1. /\ UNCHANGED <<argument_values, argument_index, options>>
      /\ main_stage \in {"starting", "registering", "discovering", "executing"}
  BY DEF ExitWithoutSession, CreateSession, RegisterGiven, EndGiven, AddDefault,
     EndDefaults, ExecuteSource, Exit, parser_vars
<1>2. /\ options.command = "execute" /\ options.source_path # "none"
      /\ argument_index > Len(argument_values)
  BY <1>1 DEF ParserInv, Asked
<1>3. CASE ExitWithoutSession
  <2>1. main_stage = "starting" /\ main_stage' = "exited"
    BY <1>3 DEF ExitWithoutSession, Exit
  <2>2. Decisive = {}
    BY <2>1 DEF ParserInv, ParsedAsMeant
  <2>3. Decisive' = {}
    BY <1>1, <2>2, SameMeaning
  <2> QED
    BY <1>1, <1>2, <2>1, <2>3 DEF ParserInv, Asked, ParsedAsMeant
<1>4. CASE CreateSession \/ RegisterGiven \/ EndGiven \/ AddDefault \/ EndDefaults
  <2>1. main_stage' \in {"registering", "discovering", "executing"}
    BY <1>4 DEF CreateSession, RegisterGiven, EndGiven, AddDefault, EndDefaults
  <2> QED
    BY <1>1, <1>2, <2>1 DEF ParserInv, Asked, ParsedAsMeant
<1>5. CASE ExecuteSource
  <2>1. main_stage' = "exited" /\ exit_status' # 2
    BY <1>5 DEF ExecuteSource, ExitStatus, LLFPL_EXIT_SUCCESS,
       LLFPL_EXIT_PROGRAM_ERROR
  <2> QED
    BY <1>1, <1>2, <2>1 DEF ParserInv, Asked, ParsedAsMeant, LLFPL_EXIT_USAGE_ERROR
<1> QED
  BY <1>3, <1>4, <1>5

LEMMA ParserIdle ==
    ASSUME ParserInv, UNCHANGED command_line_vars
    PROVE  ParserInv'
<1>1. /\ UNCHANGED <<argument_values, argument_index, options, options_have_ended>>
      /\ UNCHANGED <<main_stage, exit_status>>
  BY DEF command_line_vars
<1>2. /\ Positions' = Positions /\ Marker' = Marker
      /\ OptionsAt' = OptionsAt /\ Operands' = Operands
      /\ DirectoryOptions' = DirectoryOptions
      /\ Informations' = Informations /\ Mistakes' = Mistakes
      /\ Decisive' = Decisive
      /\ \A i : SpelledAt(i)' = SpelledAt(i)
  BY <1>1, SameMeaning
<1>3. /\ InOrder(DirectoryOptions)' = InOrder(DirectoryOptions)
      /\ InOrder(Before(DirectoryOptions, argument_index))'
            = InOrder(Before(DirectoryOptions, argument_index))
  BY <1>1, <1>2 DEF InOrder, ValueOf, Before
<1>4. IsValue(argument_index)' <=> IsValue(argument_index)
  BY <1>1 DEF IsValue, RowBefore, SpelledAt
<1>5. Min(Decisive)' = Min(Decisive)
      /\ SpelledAt(Min(Decisive))' = SpelledAt(Min(Decisive))
      /\ Cardinality(Operands)' = Cardinality(Operands)
  <2>1. Min(Decisive)' = Min(Decisive)
    BY <1>2 DEF Min
  <2>2. Cardinality(Operands)' = Cardinality(Operands)
    BY <1>2
  <2> QED
    BY <1>1, <2>1, <2>2 DEF SpelledAt
<1>6. Understood => Understood'
  <2>1. /\ Before(OptionsAt, argument_index)' = Before(OptionsAt, argument_index)
        /\ Before(Operands, argument_index)' = Before(Operands, argument_index)
    BY <1>1, <1>2 DEF Before
  <2>2. {SpelledAt(i) : i \in Before(OptionsAt, argument_index)}
           = {SpelledAt(i)' : i \in Before(OptionsAt, argument_index)}
    BY <1>2
  <2> QED
    BY <1>1, <1>2, <1>3, <1>4, <2>1, <2>2 DEF Understood
<1>7. ParsedAsMeant => ParsedAsMeant'
  <2>1. {SpelledAt(i) : i \in OptionsAt} = {SpelledAt(i)' : i \in OptionsAt}
    BY <1>2
  <2> QED
    BY <1>1, <1>2, <1>3, <1>5, <2>1 DEF ParsedAsMeant
<1> QED
  BY <1>1, <1>6, <1>7 DEF ParserInv, Asked

LEMMA ParserKept ==
    ASSUME CommandLineAssumption, CommandLineTypes, ParserInv, [CommandLineNext]_command_line_vars
    PROVE  ParserInv'
BY ParserReadsOn, ParserInforms, ParserRefuses, ParserFinishes, ParserRests, ParserIdle
DEF CommandLineNext, Terminating

\* The types of CommandLine, for every list of arguments over any spellings.
THEOREM CommandLineTyped == CommandLineSpec => []CommandLineTypeOK
<1>1. CommandLineInit => CommandLineTypes
  BY CommandLineAssumption, TypesBegin
<1>2. CommandLineTypes /\ [CommandLineNext]_command_line_vars => CommandLineTypes'
  BY CommandLineAssumption, TypesKept
<1>3. CommandLineTypes => CommandLineTypeOK
  BY DEF CommandLineTypes
<1> QED
  BY <1>1, <1>2, <1>3, PTL DEF CommandLineSpec

\* The loop with its one argument of look-ahead understands every command line
\* as all of its arguments say together: for every list of arguments, every
\* set of spellings and any room for directories.
THEOREM CommandLineParsedAsMeant == CommandLineSpec => []ParsedAsMeant
<1> DEFINE Inv == CommandLineTypes /\ ParserInv
<1>1. CommandLineInit => Inv
  BY CommandLineAssumption, TypesBegin, ParserBegins
<1>2. Inv /\ [CommandLineNext]_command_line_vars => Inv'
  BY CommandLineAssumption, TypesKept, ParserKept
<1>3. Inv => ParsedAsMeant
  BY DEF ParserInv
<1> QED
  BY <1>1, <1>2, <1>3, PTL DEF CommandLineSpec

\* The directories are searched in the order in which they were given, and
\* those that were discovered after them, whatever is ignored or dropped.
THEOREM CommandLineSearchedInOrder == CommandLineSpec => []SearchedInOrder
<1> DEFINE Inv == CommandLineTypes /\ ListInv
<1>1. CommandLineInit => Inv
  BY CommandLineAssumption, TypesBegin, ListBegins
<1>2. Inv /\ [CommandLineNext]_command_line_vars => Inv'
  BY CommandLineAssumption, TypesKept, ListKept
<1>3. Inv => SearchedInOrder
  BY DEF ListInv
<1> QED
  BY <1>1, <1>2, <1>3, PTL DEF CommandLineSpec

=============================================================================
