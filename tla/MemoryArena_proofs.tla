------------------------- MODULE MemoryArena_proofs -------------------------
(***************************************************************************)
(* The registry of arenas leaks nothing, hands out whole lines and         *)
(* implements the reserved arenas, for every capacity, every alignment and *)
(* every placement of the blocks by the C library.                         *)
(***************************************************************************)
EXTENDS MemoryArena, FiniteSetTheorems, TLAPS

-----------------------------------------------------------------------------
(* The inductive invariant. *)

BlockOf(i) ==
    [address |-> arenas[i].base_address,
     size |-> Rounded(arenas[i].capacity_in_bytes, alignment_in_bytes),
     owner |-> "arena"]

\* No byte is in two live blocks.
Disjoint == \A b, c \in heap : b # c => Bytes(b) \cap Bytes(c) = {}

\* A visible arena has a storable name and lies in a live block cut for it.
Holding ==
    \A i \in Visible :
       /\ arenas[i].name \in StorableNames
       /\ arenas[i].capacity_in_bytes # 0
       /\ arenas[i].capacity_in_bytes <= Rounded(arenas[i].capacity_in_bytes, alignment_in_bytes)
       /\ (arenas[i].base_address % alignment_in_bytes) = 0
       /\ BlockOf(i) \in heap

\* No two visible arenas have the same name or the same block.
Distinct ==
    \A i, j \in Visible :
       arenas[i].name = arenas[j].name \/ arenas[i].base_address = arenas[j].base_address => i = j

\* A block that was cut for an arena is still held by one.
Held == \A block \in heap : block.owner = "arena" => \E i \in Visible : BlockOf(i) = block

\* Only an initialised registry has arenas, and its alignment was validated.
Prepared ==
    /\ arena_count # 0 => alignment_in_bytes # 0
    /\ alignment_in_bytes # 0 => AlignmentIsValid(alignment_in_bytes)

ReservedNames == {name \in StorableNames : Lookup(name) # {}}

\* There are as many reserved names as visible arenas.
Counted == IsFiniteSet(ReservedNames) /\ Cardinality(ReservedNames) = arena_count

IInv == TypeOK /\ Prepared /\ Disjoint /\ Holding /\ Distinct /\ Held /\ Counted

-----------------------------------------------------------------------------
(* Arithmetic of lines. *)

\* Quotient and remainder of a division.
LEMMA DivMod ==
    ASSUME NEW n \in Int, NEW a \in Nat \ {0}
    PROVE  /\ n \div a \in Int /\ (n % a) \in 0..(a - 1)
           /\ n = a * (n \div a) + (n % a)
OBVIOUS

\* A multiple has no remainder.
LEMMA Multiple == ASSUME NEW q \in Int, NEW a \in Nat \ {0} PROVE (a * q) % a = 0
OBVIOUS

\* Multiples are ordered as their quotients are.
LEMMA Monotone ==
    ASSUME NEW k \in Int, NEW m \in Int, NEW a \in Nat \ {0}
    PROVE  (k <= m => a * k <= a * m) /\ (a * k < a * m => k < m)
OBVIOUS

\* A size is rounded to a whole number of lines of the address space.
LEMMA Rounding ==
    ASSUME NEW size \in Nat, NEW alignment \in Nat \ {0}
    PROVE  /\ Rounded(size, alignment) \in 0..(WordSize - 1)
           /\ Rounded(size, alignment) % alignment = 0
<1> DEFINE raised == (size + alignment - 1) % WordSize
<1>1. raised \in 0..(WordSize - 1)
  BY ArenaAssumption, DivMod
<1> HIDE DEF raised
<1>2. /\ raised \div alignment \in Int /\ (raised % alignment) \in 0..(alignment - 1)
      /\ raised = alignment * (raised \div alignment) + (raised % alignment)
  BY <1>1, DivMod
<1>3. 0 <= raised \div alignment
  BY <1>1, <1>2, Monotone
<1>4. Rounded(size, alignment) = raised - (raised % alignment)
  BY DEF Rounded, raised
<1>5. Rounded(size, alignment) = alignment * (raised \div alignment)
  BY <1>2, <1>4
<1>6. 0 <= alignment * (raised \div alignment)
  BY <1>2, <1>3, Monotone
<1>7. Rounded(size, alignment) \in 0..(WordSize - 1)
  BY <1>1, <1>2, <1>4, <1>5, <1>6, ArenaAssumption
<1> QED
  BY <1>2, <1>5, <1>7, Multiple

\* Nothing wraps for the sizes and alignments of the program.
LEMMA RoundedUp ==
    ASSUME NEW alignment \in Alignments, alignment # 0,
           NEW size \in 1..LLFPL_MEMORY_ARENA_MAXIMUM_SIZE_IN_BYTES
    PROVE  Rounded(size, alignment) >= size
<1>0. alignment \in Nat \ {0} /\ size \in Nat /\ WordSize \in Nat
  BY ArenaAssumption
<1>1. size + alignment - 1 \in 0..(WordSize - 1)
  BY <1>0, ArenaAssumption, RoundingAssumption
<1>2. (size + alignment - 1) % WordSize = size + alignment - 1
  BY <1>1, ArenaAssumption
<1> DEFINE raised == size + alignment - 1
<1>3. (raised % alignment) \in 0..(alignment - 1)
  <2>1. raised \in Int
    BY <1>0
  <2> QED
    BY <1>0, <2>1, DivMod
<1>4. Rounded(size, alignment) = raised - (raised % alignment)
  BY <1>2 DEF Rounded
<1> QED
  BY <1>0, <1>3, <1>4

\* A line that begins in a block of whole lines ends in it.
LEMMA SameLine ==
    ASSUME NEW base \in Nat, NEW size \in Nat, NEW a \in Nat \ {0},
           base % a = 0, size % a = 0,
           NEW byte \in base..(base + size - 1), NEW other \in Nat,
           byte \div a = other \div a
    PROVE  other \in base..(base + size - 1)
<1> DEFINE k == base \div a
           m == size \div a
           q == byte \div a
<1>0. byte \in Int
  OBVIOUS
<1>1. k \in Int /\ m \in Int /\ q \in Int /\ base = a * k /\ size = a * m
  BY <1>0, DivMod
<1>2. byte = a * q + (byte % a) /\ (byte % a) \in 0..(a - 1)
  BY <1>0, DivMod
<1>3. other = a * q + (other % a) /\ (other % a) \in 0..(a - 1)
  <2>1. other \in Int /\ q = other \div a
    OBVIOUS
  <2> QED
    BY <2>1, DivMod
<1> HIDE DEF k, m, q
<1>4. a * (q + 1) = a * q + a /\ a * (k + m) = a * k + a * m
  BY <1>1
<1>5. a * k < a * (q + 1) /\ a * q < a * (k + m)
  BY <1>1, <1>2, <1>4
<1>6. k < q + 1 /\ q < k + m
  BY <1>1, <1>5, Monotone
<1>7. k <= q /\ q + 1 <= k + m
  BY <1>1, <1>6
<1>8. a * k <= a * q /\ a * (q + 1) <= a * (k + m)
  BY <1>1, <1>7, Monotone
<1> QED
  BY <1>1, <1>3, <1>4, <1>8

-----------------------------------------------------------------------------
(* The invariant is inductive. *)

\* Clearing two fields of a record.
LEMMA Cleared ==
    ASSUME NEW N, NEW V, NEW C,
           NEW a \in [name : N, base_address : V, capacity_in_bytes : C],
           NEW v \in V, NEW c \in C
    PROVE  [a EXCEPT !.base_address = v, !.capacity_in_bytes = c]
              \in [name : N, base_address : V, capacity_in_bytes : C]
OBVIOUS

\* Slots are numbers, and the visible ones are slots.
LEMMA VisibleSlots ==
    ASSUME TypeOK
    PROVE  /\ Visible \subseteq Slots /\ \A i \in Slots : i \in Int
           /\ arena_count \in Nat /\ arena_count \notin Visible
           /\ \A i \in Visible : arenas[i] \in Arena
           /\ ~RegistryIsFull => arena_count \in Slots
           /\ arena_count = 0 => Visible = {}
  BY ArenaAssumption DEF TypeOK, Visible, Slots, RegistryIsFull

\* A block the C library places is apart from every live one.
LEMMA PlacedApart ==
    ASSUME IInv, NEW size \in 1..WordSize, NEW alignment \in Nat \ {0},
           NEW owner \in {"arena", "other"}, NEW block \in Placements(size, alignment, owner)
    PROVE  /\ block \in Block /\ block.size = size /\ block.owner = owner
           /\ (block.address % alignment) = 0
           /\ \A other \in heap : other.address # block.address
           /\ \A b, c \in heap \cup {block} : b # c => Bytes(b) \cap Bytes(c) = {}
<1>1. /\ block \in [address : 1..(WordSize - 1), size : {size}, owner : {owner}]
      /\ (block.address % alignment) = 0
      /\ \A other \in heap : Bytes(block) \cap Bytes(other) = {}
  BY DEF Placements
<1>2. block \in Block /\ block.size = size /\ block.owner = owner
  BY <1>1 DEF Block
<1>3. ASSUME NEW b \in Block PROVE b.address \in Bytes(b)
  BY ArenaAssumption DEF Block, Bytes
<1>4. \A other \in heap : other.address # block.address
  BY <1>1, <1>2, <1>3 DEF IInv, TypeOK
<1>5. \A b, c \in heap \cup {block} : b # c => Bytes(b) \cap Bytes(c) = {}
  BY <1>1 DEF IInv, Disjoint
<1> QED
  BY <1>1, <1>2, <1>4, <1>5

\* A step that leaves the visible arenas and their blocks alone keeps what is
\* said of them.
LEMMA ArenasKept ==
    ASSUME IInv, UNCHANGED <<arena_count, alignment_in_bytes>>,
           \A i \in Visible : arenas'[i] = arenas[i],
           \A block : block.owner = "arena" => (block \in heap' <=> block \in heap)
    PROVE  /\ Prepared' /\ Holding' /\ Distinct' /\ Held' /\ Counted'
           /\ Visible' = Visible /\ ReservedNames' = ReservedNames
           /\ \A name : Lookup(name)' = Lookup(name)
<1>1. Visible' = Visible
  BY DEF Visible
<1>2. \A name : Lookup(name)' = Lookup(name)
  BY <1>1 DEF Lookup
<1>3. ReservedNames' = ReservedNames
  BY <1>2 DEF ReservedNames
<1>4. \A i \in Visible : BlockOf(i)' = BlockOf(i) /\ BlockOf(i).owner = "arena"
  BY DEF BlockOf
<1>5. Holding'
  BY <1>1, <1>4 DEF IInv, Holding
<1>6. Distinct'
  BY <1>1 DEF IInv, Distinct
<1>7. Held'
  BY <1>1, <1>4 DEF IInv, Held
<1> QED
  BY <1>1, <1>2, <1>3, <1>5, <1>6, <1>7 DEF IInv, Counted, Prepared

\* The empty registry satisfies the invariant.
LEMMA InitInv == Init => IInv
<1> SUFFICES ASSUME Init PROVE IInv
  OBVIOUS
<1>1. Empty \in Arena /\ 0 \in 0..LLFPL_MEMORY_ARENA_REGISTRY_CAPACITY
  BY ArenaAssumption DEF Empty, Arena, NULL
<1>2. TypeOK
  BY <1>1 DEF Init, TypeOK, Statuses
<1>3. Visible = {} /\ ReservedNames = {}
  BY <1>2, VisibleSlots DEF Init, ReservedNames, Lookup
<1>4. Counted
  BY <1>3, FS_EmptySet DEF Init, Counted
<1> QED
  BY <1>2, <1>3, <1>4 DEF Init, IInv, Prepared, Disjoint, Holding, Distinct, Held

\* A registry is initialised when it has no arenas.
LEMMA InitialiseKeeps ==
    ASSUME IInv, NEW alignment \in Alignments, Initialise(alignment)
    PROVE  IInv'
<1>1. Empty \in Arena
  BY ArenaAssumption DEF Empty, Arena, NULL
<1>2. TypeOK'
  BY <1>1 DEF Initialise, IInv, TypeOK
<1>3. Visible = {} /\ Visible' = {} /\ arena_count = 0 /\ arena_count' = 0 /\ heap' = heap
  BY ArenaAssumption DEF Initialise, Visible
<1>4. ReservedNames = {} /\ ReservedNames' = {}
  BY <1>3 DEF ReservedNames, Lookup
<1>5. Counted'
  BY <1>3, <1>4 DEF IInv, Counted
<1>6. Prepared'
  <2>1. AlignmentIsValid(alignment) /\ alignment_in_bytes' = alignment
    BY DEF Initialise
  <2>2. AlignmentIsValid(alignment_in_bytes')
    BY <2>1
  <2> QED
    BY <1>3, <2>2 DEF Prepared, AlignmentIsValid
<1> QED
  BY <1>2, <1>3, <1>5, <1>6 DEF IInv, Disjoint, Holding, Distinct, Held

\* The release frees the block of every arena, so none is left.
LEMMA ReleaseKeeps == IInv /\ Release => IInv'
<1> SUFFICES ASSUME IInv, Release PROVE IInv'
  OBVIOUS
<1>1. heap' \subseteq heap /\ arena_count' = 0
  BY DEF Release
<1>2. TypeOK'
  <2>1. ASSUME NEW a \in Arena
        PROVE  [a EXCEPT !.base_address = NULL, !.capacity_in_bytes = 0] \in Arena
    <3>1. NULL \in 0..(WordSize - 1) /\ 0 \in Nat
      BY ArenaAssumption DEF NULL
    <3> QED
      BY <3>1, Cleared DEF Arena
  <2>2. arenas' \in [Slots -> Arena]
    BY <2>1 DEF Release, IInv, TypeOK
  <2>3. UNCHANGED <<alignment_in_bytes, request, status>>
    BY DEF Release
  <2>4. arena_count' \in 0..LLFPL_MEMORY_ARENA_REGISTRY_CAPACITY
    BY <1>1, ArenaAssumption
  <2> QED
    BY <1>1, <2>2, <2>3, <2>4 DEF IInv, TypeOK
<1>3. Visible' = {} /\ ReservedNames' = {}
  BY <1>1 DEF Visible, ReservedNames, Lookup
<1>4. Held'
  <2>1. ASSUME NEW block \in heap', block.owner = "arena" PROVE FALSE
    <3>1. PICK i \in Visible : BlockOf(i) = block
      BY <1>1, <2>1 DEF IInv, Held
    <3>2. block.address = arenas[i].base_address
      BY <3>1 DEF BlockOf
    <3> QED
      BY <3>1, <3>2 DEF Release, Released, Visible
  <2> QED
    BY <2>1 DEF Held
<1>5. Counted'
  BY <1>1, <1>3, FS_EmptySet DEF Counted
<1>6. Prepared'
  <2>1. alignment_in_bytes' = alignment_in_bytes
    BY DEF Release
  <2> QED
    BY <1>1, <2>1 DEF IInv, Prepared, AlignmentIsValid
<1> QED
  BY <1>1, <1>2, <1>3, <1>4, <1>5, <1>6 DEF IInv, Disjoint, Holding, Distinct

\* A refusal changes nothing.
LEMMA RefuseKeeps ==
    ASSUME IInv, NEW name \in Names, NEW capacity \in RequestedSizes, Refuse(name, capacity)
    PROVE  IInv'
<1>1. /\ UNCHANGED <<arenas, arena_count, alignment_in_bytes, heap>>
      /\ request' = [name |-> name, capacity |-> capacity]
  BY DEF Refuse, Asks
<1>2. status' \in Statuses
  BY DEF Refuse, Statuses
<1>3. TypeOK'
  BY <1>1, <1>2 DEF IInv, TypeOK
<1> QED
  BY <1>1, <1>3, ArenasKept DEF IInv, Disjoint

\* The name that stays in the slot is not seen.
LEMMA RefuseStorageKeeps ==
    ASSUME IInv, NEW name \in Names, NEW capacity \in RequestedSizes,
           RefuseStorage(name, capacity)
    PROVE  /\ IInv'
           /\ \A i \in Visible : arenas'[i] = arenas[i]
<1>1. /\ UNCHANGED <<arena_count, alignment_in_bytes, heap>>
      /\ request' = [name |-> name, capacity |-> capacity]
      /\ arenas' = [arenas EXCEPT ![arena_count].name = name]
      /\ name \in StorableNames /\ ~RegistryIsFull
      /\ status' \in Statuses
  BY DEF RefuseStorage, Admitted, Asks, MayReserve, Statuses
<1>2. arena_count \in Slots /\ Visible \subseteq Slots /\ arena_count \notin Visible
  BY <1>1, VisibleSlots DEF IInv
<1>3. \A i \in Visible : arenas'[i] = arenas[i]
  BY <1>1, <1>2 DEF IInv, TypeOK
<1>4. arenas' \in [Slots -> Arena]
  <2>1. ASSUME NEW a \in Arena PROVE [a EXCEPT !.name = name] \in Arena
    BY <1>1 DEF Arena
  <2>2. arenas \in [Slots -> Arena]
    BY DEF IInv, TypeOK
  <2>3. arenas' = [arenas EXCEPT ![arena_count] = [arenas[arena_count] EXCEPT !.name = name]]
    BY <1>1
  <2> QED
    BY <1>2, <2>1, <2>2, <2>3
<1>5. TypeOK'
  BY <1>1, <1>4 DEF IInv, TypeOK
<1>6. /\ Prepared' /\ Holding' /\ Distinct' /\ Held' /\ Counted'
  BY <1>1, <1>3, ArenasKept
<1> QED
  BY <1>1, <1>3, <1>5, <1>6 DEF IInv, Disjoint

\* What a reservation does: a block of whole lines for the next slot.
LEMMA Reserving ==
    ASSUME IInv, NEW name \in Names, NEW capacity \in RequestedSizes, Reserve(name, capacity)
    PROVE  \E block \in Block :
              /\ block \in Placements(Rounded(capacity, alignment_in_bytes),
                                     alignment_in_bytes, "arena")
              /\ heap' = heap \cup {block}
              /\ block = [address |-> block.address,
                          size |-> Rounded(capacity, alignment_in_bytes), owner |-> "arena"]
              /\ (block.address % alignment_in_bytes) = 0
              /\ \A other \in heap : other.address # block.address
              /\ Disjoint'
              /\ arenas'[arena_count] = [name |-> name, base_address |-> block.address,
                                         capacity_in_bytes |-> capacity]
              /\ arenas' \in [Slots -> Arena]
              /\ \A i \in Visible : arenas'[i] = arenas[i]
              /\ Visible' = Visible \cup {arena_count}
<1> DEFINE size == Rounded(capacity, alignment_in_bytes)
<1>1. PICK block \in Placements(size, alignment_in_bytes, "arena") :
         /\ heap' = heap \cup {block}
         /\ arenas' = [arenas EXCEPT ![arena_count] =
                          [name |-> name, base_address |-> block.address,
                           capacity_in_bytes |-> capacity]]
  BY DEF Reserve
<1>2. /\ alignment_in_bytes \in Nat \ {0} /\ capacity \in Nat /\ capacity # 0
      /\ size >= capacity /\ name \in StorableNames /\ ~RegistryIsFull
  BY ArenaAssumption DEF Reserve, Admitted, Asks, Allocatable, MayReserve, IInv, TypeOK
<1>3. size \in 1..WordSize
  BY <1>2, Rounding, ArenaAssumption
<1> HIDE DEF size
<1>4. /\ block \in Block /\ block.size = size /\ block.owner = "arena"
      /\ (block.address % alignment_in_bytes) = 0
      /\ \A other \in heap : other.address # block.address
      /\ \A b, c \in heap \cup {block} : b # c => Bytes(b) \cap Bytes(c) = {}
  BY <1>1, <1>2, <1>3, PlacedApart
<1>5. block = [address |-> block.address, size |-> size, owner |-> "arena"]
  BY <1>4 DEF Block
<1>6. /\ arena_count \in Slots /\ Visible \subseteq Slots /\ arena_count \notin Visible
      /\ arena_count \in Nat
  BY <1>2, VisibleSlots DEF IInv
<1> DEFINE fresh == [name |-> name, base_address |-> block.address,
                     capacity_in_bytes |-> capacity]
<1>7. fresh \in Arena
  <2>1. block.address \in 0..(WordSize - 1)
    BY <1>4, ArenaAssumption DEF Block
  <2> QED
    BY <1>2, <2>1 DEF Arena
<1>8. arenas' = [arenas EXCEPT ![arena_count] = fresh]
  BY <1>1
<1> HIDE DEF fresh
<1>9. /\ arenas' \in [Slots -> Arena] /\ arenas'[arena_count] = fresh
      /\ \A i \in Visible : arenas'[i] = arenas[i]
  BY <1>6, <1>7, <1>8 DEF IInv, TypeOK
<1>10. Visible' = Visible \cup {arena_count}
  <2>1. arena_count' = arena_count + 1
    BY DEF Reserve
  <2> QED
    BY <1>6, <2>1 DEF Visible
<1>11. Disjoint'
  BY <1>1, <1>4 DEF Disjoint, Bytes
<1> QED
  BY <1>1, <1>4, <1>5, <1>9, <1>10, <1>11 DEF size, fresh

\* A reservation makes one more arena visible, with a block and a name of its own.
LEMMA ReserveKeeps ==
    ASSUME IInv, NEW name \in Names, NEW capacity \in RequestedSizes, Reserve(name, capacity)
    PROVE  /\ IInv'
           /\ ReservedNames' = ReservedNames \cup {name}
<1>1. PICK block \in Block :
         /\ heap' = heap \cup {block}
         /\ block = [address |-> block.address,
                     size |-> Rounded(capacity, alignment_in_bytes), owner |-> "arena"]
         /\ (block.address % alignment_in_bytes) = 0
         /\ \A other \in heap : other.address # block.address
         /\ Disjoint'
         /\ arenas'[arena_count] = [name |-> name, base_address |-> block.address,
                                    capacity_in_bytes |-> capacity]
         /\ arenas' \in [Slots -> Arena]
         /\ \A i \in Visible : arenas'[i] = arenas[i]
         /\ Visible' = Visible \cup {arena_count}
  BY Reserving
<1>2. /\ arena_count' = arena_count + 1 /\ arena_count \in Nat /\ arena_count \notin Visible
      /\ alignment_in_bytes # 0 /\ alignment_in_bytes' = alignment_in_bytes
      /\ request' = [name |-> name, capacity |-> capacity] /\ status' = "OK"
      /\ capacity # 0 /\ capacity \in Nat /\ capacity <= Rounded(capacity, alignment_in_bytes)
      /\ name \in StorableNames /\ Lookup(name) = {} /\ ~RegistryIsFull
      /\ Rounded(capacity, alignment_in_bytes) \in Int
  <2>1. alignment_in_bytes \in Nat \ {0} /\ capacity \in Nat /\ capacity # 0
    BY ArenaAssumption DEF Reserve, Admitted, Asks, Allocatable, IInv, TypeOK
  <2>2. Rounded(capacity, alignment_in_bytes) \in Int
    BY <2>1, Rounding
  <2> QED
    BY <2>1, <2>2, VisibleSlots DEF Reserve, Admitted, Asks, Allocatable, MayReserve, IInv
<1>3. PICK n : n = arena_count
  OBVIOUS
<1>4. /\ arenas'[n].name = name /\ arenas'[n].base_address = block.address
      /\ arenas'[n].capacity_in_bytes = capacity
      /\ n \notin Visible /\ Visible' = Visible \cup {n}
  BY <1>1, <1>2, <1>3
<1>5. TypeOK'
  <2>1. arena_count' \in 0..LLFPL_MEMORY_ARENA_REGISTRY_CAPACITY
    BY <1>2, ArenaAssumption DEF IInv, TypeOK, RegistryIsFull
  <2> QED
    BY <1>1, <1>2, <2>1 DEF IInv, TypeOK, Statuses
<1>6. BlockOf(n)' = block
  BY <1>1, <1>2, <1>4 DEF BlockOf, Rounded
<1>7. \A i \in Visible : BlockOf(i)' = BlockOf(i)
  BY <1>1, <1>2 DEF BlockOf
<1>8. Holding'
  <2>1. ASSUME NEW i \in Visible
        PROVE  /\ arenas'[i].name \in StorableNames
               /\ arenas'[i].capacity_in_bytes # 0
               /\ arenas'[i].capacity_in_bytes
                     <= Rounded(arenas'[i].capacity_in_bytes, alignment_in_bytes)
               /\ (arenas'[i].base_address % alignment_in_bytes) = 0
               /\ BlockOf(i)' \in heap'
    BY <1>1, <1>7 DEF IInv, Holding
  <2>2. /\ arenas'[n].name \in StorableNames
        /\ arenas'[n].capacity_in_bytes # 0
        /\ arenas'[n].capacity_in_bytes
              <= Rounded(arenas'[n].capacity_in_bytes, alignment_in_bytes)
        /\ (arenas'[n].base_address % alignment_in_bytes) = 0
        /\ BlockOf(n)' \in heap'
    BY <1>1, <1>2, <1>4, <1>6
  <2> QED
    BY <1>2, <1>4, <2>1, <2>2 DEF Holding, Rounded
<1>9. Distinct'
  <2>1. ASSUME NEW i \in Visible
        PROVE  arenas'[i].name # name /\ arenas'[i].base_address # block.address
    <3>1. arenas'[i] = arenas[i] /\ BlockOf(i) \in heap
      BY <1>1 DEF IInv, Holding
    <3>2. BlockOf(i).address = arenas[i].base_address
      BY DEF BlockOf
    <3> QED
      BY <1>1, <1>2, <3>1, <3>2 DEF Lookup
  <2> QED
    BY <1>1, <1>4, <2>1 DEF IInv, Distinct
<1>10. Held'
  BY <1>1, <1>4, <1>6, <1>7 DEF IInv, Held
<1>11. ReservedNames' = ReservedNames \cup {name}
  <2>1. ASSUME NEW other \in StorableNames
        PROVE  Lookup(other)' # {} <=> (Lookup(other) # {} \/ other = name)
    BY <1>1, <1>4 DEF Lookup
  <2> QED
    BY <1>2, <2>1 DEF ReservedNames
<1>12. Counted'
  <2>1. name \notin ReservedNames
    BY <1>2 DEF ReservedNames
  <2> QED
    BY <1>2, <1>11, <2>1, FS_AddElement DEF IInv, Counted
<1>13. Prepared'
  BY <1>2 DEF IInv, Prepared, AlignmentIsValid
<1> QED
  BY <1>1, <1>5, <1>8, <1>9, <1>10, <1>11, <1>12, <1>13 DEF IInv

\* Blocks of the rest of the process come and go beside those of the arenas.
LEMMA ElsewhereKeeps ==
    ASSUME IInv, AllocateElsewhere \/ ReleaseElsewhere
    PROVE  /\ IInv'
           /\ UNCHANGED <<registry_vars, request, status>>
<1>1. UNCHANGED <<arenas, arena_count, alignment_in_bytes, request, status>>
  BY DEF AllocateElsewhere, ReleaseElsewhere, registry_vars
<1>2. ASSUME heap' \subseteq Block, Disjoint',
             \A block : block.owner = "arena" => (block \in heap' <=> block \in heap)
      PROVE  IInv'
  <2>1. TypeOK'
    BY <1>1, <1>2 DEF IInv, TypeOK
  <2> QED
    BY <1>1, <1>2, <2>1, ArenasKept DEF IInv
<1>3. ASSUME AllocateElsewhere PROVE IInv'
  <2>1. PICK size \in ForeignSizes : \E block \in Placements(size, 1, "other") :
           heap' = heap \cup {block}
    BY <1>3 DEF AllocateElsewhere
  <2>2. PICK block \in Placements(size, 1, "other") : heap' = heap \cup {block}
    BY <2>1
  <2>3. size \in 1..WordSize
    BY <2>2, ArenaAssumption DEF Placements
  <2>4. /\ block \in Block /\ block.owner = "other"
        /\ \A b, c \in heap \cup {block} : b # c => Bytes(b) \cap Bytes(c) = {}
    BY <2>2, <2>3, PlacedApart
  <2>5. heap' \subseteq Block
    BY <2>2, <2>4 DEF IInv, TypeOK
  <2>6. Disjoint'
    BY <2>2, <2>4 DEF Disjoint, Bytes
  <2> QED
    BY <1>2, <2>2, <2>4, <2>5, <2>6
<1>4. ASSUME ReleaseElsewhere PROVE IInv'
  <2>1. PICK block \in heap : block.owner = "other" /\ heap' = heap \ {block}
    BY <1>4 DEF ReleaseElsewhere
  <2>2. heap' \subseteq Block
    BY <2>1 DEF IInv, TypeOK
  <2>3. Disjoint'
    BY <2>1 DEF IInv, Disjoint, Bytes
  <2> QED
    BY <1>2, <2>1, <2>2, <2>3
<1> QED
  BY <1>1, <1>3, <1>4 DEF registry_vars

\* Every step keeps the invariant.
LEMMA Inductive == IInv /\ [Next]_vars => IInv'
<1> SUFFICES ASSUME IInv, [Next]_vars PROVE IInv'
  OBVIOUS
<1>1. CASE UNCHANGED vars
  BY <1>1, ArenasKept DEF vars, registry_vars, IInv, TypeOK, Disjoint, Bytes
<1>2. CASE \E alignment \in Alignments : Initialise(alignment)
  BY <1>2, InitialiseKeeps
<1>3. CASE Release
  BY <1>3, ReleaseKeeps
<1>4. ASSUME NEW name \in Names, NEW capacity \in RequestedSizes,
             Refuse(name, capacity) \/ RefuseStorage(name, capacity) \/ Reserve(name, capacity)
      PROVE  IInv'
  BY <1>4, RefuseKeeps, RefuseStorageKeeps, ReserveKeeps
<1>5. CASE AllocateElsewhere \/ ReleaseElsewhere
  BY <1>5, ElsewhereKeeps
<1> QED
  BY <1>1, <1>2, <1>3, <1>4, <1>5 DEF Next

\* The invariant holds of every reachable state.
THEOREM InvariantHolds == Spec => []IInv
  BY InitInv, Inductive, PTL DEF Spec

\* Every variable keeps its type: no block reaches beyond the address space and
\* no arena is counted for which there is no slot.
THEOREM TypeCorrect == Spec => []TypeOK
<1>1. IInv => TypeOK
  BY DEF IInv
<1> QED
  BY <1>1, InvariantHolds, PTL

-----------------------------------------------------------------------------
(* What the invariant shows. *)

\* Two visible arenas would share a block only if they were the same.
THEOREM NothingIsLeaked == Spec => []NothingLeaked
<1>1. IInv => NothingLeaked
  <2> SUFFICES ASSUME IInv, NEW block \in heap, block.owner = "arena"
               PROVE  Cardinality({i \in Visible : arenas[i].base_address = block.address}) = 1
    BY DEF NothingLeaked
  <2>1. PICK i \in Visible : BlockOf(i) = block
    BY DEF IInv, Held
  <2>2. arenas[i].base_address = block.address
    BY <2>1 DEF BlockOf
  <2>3. {j \in Visible : arenas[j].base_address = block.address} = {i}
    BY <2>1, <2>2 DEF IInv, Distinct
  <2> QED
    BY <2>3, FS_Singleton
<1> QED
  BY <1>1, InvariantHolds, PTL

\* An arena's block is made of whole lines, so a line it touches is its own.
THEOREM LinesAreOwned == Spec => []ArenasOwnTheirLines
<1>1. IInv => ArenasOwnTheirLines
  <2> SUFFICES ASSUME IInv, NEW i \in Visible
               PROVE  \E block \in heap :
                         LET own == arenas[i]
                         IN  /\ block.address = own.base_address
                             /\ (block.address % alignment_in_bytes) = 0
                             /\ own.capacity_in_bytes <= block.size
                             /\ \A other \in heap \ {block} :
                                   Lines(own.base_address, own.capacity_in_bytes)
                                      \cap Lines(other.address, other.size) = {}
    BY DEF ArenasOwnTheirLines
  <2> DEFINE base == arenas[i].base_address
             capacity == arenas[i].capacity_in_bytes
             size == Rounded(capacity, alignment_in_bytes)
  <2>1. PICK block \in heap : block = BlockOf(i)
    BY DEF IInv, Holding
  <2>2. block.address = base /\ block.size = size
    BY <2>1 DEF BlockOf
  <2>3. alignment_in_bytes \in Nat \ {0}
    BY ArenaAssumption DEF IInv, TypeOK, Prepared, Visible
  <2>4. base \in Nat /\ capacity \in Nat /\ capacity <= size /\ base % alignment_in_bytes = 0
    <3>1. arenas[i] \in Arena
      BY VisibleSlots DEF IInv
    <3>2. base \in Nat /\ capacity \in Nat
      <4>1. ASSUME NEW a \in Arena PROVE a.base_address \in Nat /\ a.capacity_in_bytes \in Nat
        <5>1. a.base_address \in 0..(WordSize - 1) /\ a.capacity_in_bytes \in Nat
          BY DEF Arena
        <5> QED
          BY <5>1, ArenaAssumption
      <4> QED
        BY <3>1, <4>1
    <3> QED
      BY <3>2 DEF IInv, Holding
  <2>5. size \in Nat /\ size % alignment_in_bytes = 0
    BY <2>3, <2>4, Rounding, ArenaAssumption
  <2> HIDE DEF base, capacity, size
  <2>6. ASSUME NEW other \in heap \ {block}, NEW line,
               line \in Lines(base, capacity), line \in Lines(other.address, other.size)
        PROVE  FALSE
    <3>1. other \in Block
      BY DEF IInv, TypeOK
    <3>2. PICK byte \in base..(base + capacity - 1) : line = byte \div alignment_in_bytes
      BY <2>6 DEF Lines
    <3>3. PICK foreign \in Bytes(other) : line = foreign \div alignment_in_bytes
      BY <2>6 DEF Lines, Bytes
    <3>4. byte \in base..(base + size - 1) /\ foreign \in Nat
      BY <2>4, <2>5, <3>1, <3>2, <3>3, ArenaAssumption DEF Bytes, Block
    <3>5. foreign \in base..(base + size - 1)
      BY <2>3, <2>4, <2>5, <3>2, <3>3, <3>4, SameLine
    <3>6. foreign \in Bytes(block)
      BY <2>2, <3>5 DEF Bytes
    <3> QED
      BY <3>3, <3>6 DEF IInv, Disjoint
  <2> QED
    BY <2>2, <2>4, <2>6 DEF base, capacity, size
<1> QED
  BY <1>1, InvariantHolds, PTL

-----------------------------------------------------------------------------
(* The refinement of ReservedArenas. *)

Extents ==
    [name \in ReservedNames |->
        LET i == CHOOSE i \in Lookup(name) : TRUE
        IN  [address |-> arenas[i].base_address, capacity |-> arenas[i].capacity_in_bytes]]

\* The extents are those of the visible arenas.
LEMMA ExtentOfArena ==
    ASSUME IInv, NEW i \in Visible
    PROVE  /\ arenas[i].name \in ReservedNames
           /\ Extents[arenas[i].name] = [address |-> arenas[i].base_address,
                                         capacity |-> arenas[i].capacity_in_bytes]
<1>1. Lookup(arenas[i].name) = {i}
  BY DEF IInv, Distinct, Lookup
<1>2. arenas[i].name \in ReservedNames
  BY <1>1 DEF IInv, Holding, ReservedNames
<1>3. (CHOOSE j \in Lookup(arenas[i].name) : TRUE) = i
  BY <1>1
<1> QED
  BY <1>2, <1>3 DEF Extents

\* A reserved name is the name of a visible arena.
LEMMA ArenaOfExtent ==
    ASSUME NEW name \in ReservedNames
    PROVE  \E i \in Visible : arenas[i].name = name
  BY DEF ReservedNames, Lookup

\* What is not seen makes no difference to the extents.
LEMMA ExtentsKept ==
    ASSUME IInv, UNCHANGED <<arena_count, alignment_in_bytes>>,
           \A i \in Visible : arenas'[i] = arenas[i], heap' = heap
    PROVE  Extents' = Extents
<1>1. ReservedNames' = ReservedNames /\ \A name : Lookup(name)' = Lookup(name)
  BY ArenasKept
<1>2. ASSUME NEW name \in ReservedNames
      PROVE  (CHOOSE i \in Lookup(name) : TRUE) \in Visible
  <2>1. (CHOOSE i \in Lookup(name) : TRUE) \in Lookup(name)
    BY DEF ReservedNames
  <2> QED
    BY <2>1 DEF Lookup
<1>3. ASSUME NEW name \in ReservedNames
      PROVE  arenas'[CHOOSE i \in Lookup(name) : TRUE] = arenas[CHOOSE i \in Lookup(name) : TRUE]
  BY <1>2
<1>4. Extents' = [name \in ReservedNames |->
                     LET i == CHOOSE i \in Lookup(name) : TRUE
                     IN  [address |-> arenas'[i].base_address,
                          capacity |-> arenas'[i].capacity_in_bytes]]
  BY <1>1 DEF Extents
<1> QED
  BY <1>3, <1>4 DEF Extents

\* As many extents as arenas: when the registry is full, so is the promise.
LEMMA FullRegistry ==
    ASSUME IInv, RegistryIsFull
    PROVE  Promise!Cardinality(ReservedNames) = LLFPL_MEMORY_ARENA_REGISTRY_CAPACITY
<1>1. Cardinality(ReservedNames) = LLFPL_MEMORY_ARENA_REGISTRY_CAPACITY
  BY ArenaAssumption DEF IInv, TypeOK, Counted, RegistryIsFull
<1>2. Promise!Cardinality(ReservedNames) = Cardinality(ReservedNames)
  BY DEF Cardinality, Promise!Cardinality
<1> QED
  BY <1>1, <1>2

\* A refusal of the registry is one the promise allows.
LEMMA RefuseImplements ==
    ASSUME IInv, NEW name \in Names, NEW capacity \in RequestedSizes, Refuse(name, capacity)
    PROVE  Promise!Refuse
<1>1. /\ UNCHANGED <<arenas, arena_count, alignment_in_bytes, heap>>
      /\ request'.name = name /\ request'.capacity = capacity
  BY DEF Refuse, Asks
<1>2. Extents' = Extents
  BY <1>1, ExtentsKept
<1>3. DOMAIN Extents = ReservedNames
  BY DEF Extents
<1>4. \/ status' = "INVALID_ARGUMENT" /\ capacity \notin 1..LLFPL_MEMORY_ARENA_MAXIMUM_SIZE_IN_BYTES
      \/ /\ status' = "CAPACITY_EXCEEDED"
         /\ \/ Promise!Cardinality(ReservedNames) = LLFPL_MEMORY_ARENA_REGISTRY_CAPACITY
            \/ name \notin StorableNames
      \/ status' = "SEMANTIC_ERROR" /\ name \in ReservedNames
  <2>1. Lookup(name) # {} => name \in ReservedNames
    BY DEF Lookup, ReservedNames, IInv, Holding
  <2> QED
    BY <2>1, FullRegistry DEF Refuse, SizeIsValid
<1> QED
  BY <1>1, <1>2, <1>3, <1>4 DEF Promise!Refuse, Promise!Reserved, Extents, ReservedNames

\* A name written into a slot that is not counted makes no difference, and no
\* size in range is refused because its rounding wrapped.
LEMMA RefuseStorageImplements ==
    ASSUME IInv, NEW name \in Names, NEW capacity \in RequestedSizes,
           RefuseStorage(name, capacity)
    PROVE  Promise!Refuse
<1>1. /\ UNCHANGED <<arena_count, alignment_in_bytes, heap>>
      /\ request'.name = name
      /\ alignment_in_bytes # 0
      /\ capacity \in 1..LLFPL_MEMORY_ARENA_MAXIMUM_SIZE_IN_BYTES
      /\ Lookup(name) = {}
  BY DEF RefuseStorage, Admitted, Asks, MayReserve, SizeIsValid
<1>2. Extents' = Extents
  BY <1>1, ExtentsKept, RefuseStorageKeeps
<1>3. DOMAIN Extents = ReservedNames /\ name \notin ReservedNames
  BY <1>1 DEF Extents, ReservedNames
<1>4. Rounded(capacity, alignment_in_bytes) >= capacity
  BY <1>1, RoundedUp DEF IInv, TypeOK
<1>5. Allocatable(capacity, alignment_in_bytes)
  BY <1>1, <1>4 DEF Allocatable, IInv, Prepared
<1>6. status' = "OUT_OF_MEMORY"
  BY <1>5 DEF RefuseStorage
<1> QED
  BY <1>1, <1>2, <1>3, <1>6 DEF Promise!Refuse, Promise!Reserved, Extents, ReservedNames

\* A reservation adds the extent that was asked for and keeps the others.
LEMMA ReserveImplements ==
    ASSUME IInv, NEW name \in Names, NEW capacity \in RequestedSizes, Reserve(name, capacity)
    PROVE  Promise!Reserve
<1>1. /\ request'.name = name /\ request'.capacity = capacity /\ status' = "OK"
      /\ capacity \in 1..LLFPL_MEMORY_ARENA_MAXIMUM_SIZE_IN_BYTES
      /\ name \in StorableNames /\ name \notin ReservedNames
  BY DEF Reserve, Admitted, Asks, MayReserve, SizeIsValid, ReservedNames
<1>2. IInv' /\ ReservedNames' = ReservedNames \cup {name}
  BY ReserveKeeps
<1>3. /\ arenas'[arena_count].name = name /\ arenas'[arena_count].capacity_in_bytes = capacity
      /\ \A i \in Visible : arenas'[i] = arenas[i]
      /\ Visible' = Visible \cup {arena_count}
  <2>1. PICK block \in Block :
           /\ arenas'[arena_count] = [name |-> name, base_address |-> block.address,
                                      capacity_in_bytes |-> capacity]
           /\ \A i \in Visible : arenas'[i] = arenas[i]
           /\ Visible' = Visible \cup {arena_count}
    BY Reserving
  <2> QED
    BY <2>1
<1>4. ASSUME NEW i \in Visible'
      PROVE  Extents'[arenas'[i].name] = [address |-> arenas'[i].base_address,
                                          capacity |-> arenas'[i].capacity_in_bytes]
  <2>0. PICK key : key = arenas'[i].name
    OBVIOUS
  <2>1. Lookup(key)' = {i}
    BY <1>2, <2>0 DEF IInv, Distinct, Lookup
  <2>2. key \in ReservedNames'
    BY <1>2, <2>0, <2>1 DEF IInv, Holding, ReservedNames
  <2>3. (CHOOSE j \in Lookup(key)' : TRUE) = i
    BY <2>1
  <2>4. Extents'[key] = [address |-> arenas'[i].base_address,
                         capacity |-> arenas'[i].capacity_in_bytes]
    BY <2>2, <2>3 DEF Extents
  <2> QED
    BY <2>0, <2>4
<1>5. Extents'[name].capacity = capacity
  <2>1. PICK n \in Visible' : n = arena_count
    BY <1>3
  <2> QED
    <3>1. Extents'[arenas'[n].name] = [address |-> arenas'[n].base_address,
                                       capacity |-> arenas'[n].capacity_in_bytes]
      BY <1>4, <2>1
    <3>2. arenas'[n].name = name /\ arenas'[n].capacity_in_bytes = capacity
      BY <1>3, <2>1
    <3> QED
      BY <3>1, <3>2
<1>6. ASSUME NEW other \in ReservedNames PROVE Extents'[other] = Extents[other]
  <2>1. PICK i \in Visible : arenas[i].name = other
    BY ArenaOfExtent
  <2>2. arenas'[i] = arenas[i] /\ i \in Visible'
    BY <1>3
  <2> QED
    BY <1>4, <2>1, <2>2, ExtentOfArena
<1>7. DOMAIN Extents = ReservedNames /\ DOMAIN Extents' = ReservedNames'
  BY DEF Extents
<1> QED
  BY <1>1, <1>2, <1>5, <1>6, <1>7 DEF Promise!Reserve, Promise!Reserved, Extents, ReservedNames

\* The registry implements the reserved arenas: a name stands for its extent
\* from the reservation until the release, whatever is refused in between.
THEOREM ImplementsReservedArenas == Spec => Implements
<1>1. Init => Promise!Init
  <2> SUFFICES ASSUME Init PROVE Promise!Init
    OBVIOUS
  <2>1. Visible = {}
    BY DEF Init, Visible
  <2>2. {n \in StorableNames : Lookup(n) # {}} = {}
    BY <2>1 DEF Lookup
  <2> QED
    BY <2>2 DEF Promise!Init, Init
<1>2. IInv /\ [Next]_vars => [Promise!Next]_(Promise!vars)
  <2> SUFFICES ASSUME IInv, [Next]_vars PROVE [Promise!Next]_(Promise!vars)
    OBVIOUS
  <2>1. ASSUME Extents' = Extents, UNCHANGED <<request, status>>
        PROVE  UNCHANGED Promise!vars
    BY <2>1 DEF Promise!vars, Extents, ReservedNames
  <2>2. CASE UNCHANGED vars
    BY <2>1, <2>2, ExtentsKept DEF vars, registry_vars
  <2>3. ASSUME NEW alignment \in Alignments, Initialise(alignment)
        PROVE  UNCHANGED Promise!vars
    <3>1. ReservedNames = {} /\ ReservedNames' = {} /\ UNCHANGED <<request, status>>
      BY <2>3 DEF Initialise, ReservedNames, Lookup, Visible
    <3>2. Extents' = Extents
      BY <3>1 DEF Extents
    <3> QED
      BY <2>1, <3>1, <3>2
  <2>4. CASE Release
    <3>1. arena_count' = 0 /\ UNCHANGED <<request, status>>
      BY <2>4 DEF Release
    <3>2. ReservedNames' = {}
      BY <3>1 DEF Visible, ReservedNames, Lookup
    <3>3. DOMAIN Extents' = {}
      BY <3>2 DEF Extents
    <3>4. Promise!Release
      BY <3>1, <3>3 DEF Promise!Release, Promise!Reserved, Extents, ReservedNames
    <3> QED
      BY <3>4 DEF Promise!Next
  <2>5. ASSUME NEW name \in Names, NEW capacity \in RequestedSizes,
               Refuse(name, capacity) \/ RefuseStorage(name, capacity)
                  \/ Reserve(name, capacity)
        PROVE  Promise!Next
    BY <2>5, RefuseImplements, RefuseStorageImplements, ReserveImplements DEF Promise!Next
  <2>6. CASE AllocateElsewhere \/ ReleaseElsewhere
    <3>1. UNCHANGED <<registry_vars, request, status>>
      BY <2>6, ElsewhereKeeps
    <3>2. Extents' = Extents
      BY <3>1 DEF registry_vars, Extents, ReservedNames, Lookup, Visible
    <3> QED
      BY <2>1, <3>1, <3>2
  <2> QED
    BY <2>2, <2>3, <2>4, <2>5, <2>6 DEF Next
<1> QED
  BY <1>1, <1>2, InvariantHolds, PTL DEF Spec, Implements, Promise!Spec

=============================================================================
