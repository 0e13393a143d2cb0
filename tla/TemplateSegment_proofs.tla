----------------------- MODULE TemplateSegment_proofs -----------------------
(***************************************************************************)
(* The segment implements the declarations, and refuses none that is       *)
(* legal: for every vocabulary, every hash function, every size of the     *)
(* segment, of its index and of a parameter list, and texts of any length. *)
(***************************************************************************)
EXTENDS TemplateSegment, FiniteSetTheorems, SequenceTheorems, TLAPS

-----------------------------------------------------------------------------
(* Numbers. *)

\* A set of natural numbers has a least element: of the intervals that end in
\* one of them, one contains no other.
LEMMA LeastNatural ==
    ASSUME NEW K, K \subseteq Nat, K # {}
    PROVE  \E m \in K : \A k \in K : m <= k
<1> DEFINE Below == {0..k : k \in K}
<1>1. Below \subseteq FiniteSubsetsOf(Nat) /\ Below # {}
  <2>1. ASSUME NEW k \in K PROVE 0..k \in FiniteSubsetsOf(Nat)
    <3>1. 0 \in Int /\ k \in Int /\ 0..k \in SUBSET Nat
      OBVIOUS
    <3>2. IsFiniteSet(0..k)
      BY <3>1, FS_Interval
    <3> QED
      BY <3>1, <3>2 DEF FiniteSubsetsOf
  <2> QED
    BY <2>1
<1>2. PICK x \in Below : \A y \in Below : ~(<<y, x>> \in StrictSubsetOrdering(Nat))
  BY <1>1, FS_StrictSubsetOrderingWellFounded, WFMin
<1>3. PICK m \in K : x = 0..m
  BY <1>2
<1>4. ASSUME NEW k \in K, k < m PROVE FALSE
  <2>1. 0..k \in Below /\ 0..k \subseteq 0..m /\ m \in 0..m /\ m \notin 0..k
    BY <1>4
  <2>2. 0..k \in SUBSET Nat /\ 0..m \in SUBSET Nat
    OBVIOUS
  <2>3. <<0..k, 0..m>> \in StrictSubsetOrdering(Nat)
    BY <2>1, <2>2 DEF StrictSubsetOrdering
  <2> QED
    BY <1>2, <1>3, <2>1, <2>3
<1> QED
  BY <1>4

\* Remainders below the modulus are their own.
LEMMA Remainders ==
    ASSUME NEW a \in Nat, NEW n \in Nat, 0 < n
    PROVE  /\ a % n \in 0..(n - 1)
           /\ a < n => a % n = a
           /\ n <= a /\ a < 2 * n => a % n = a - n
OBVIOUS

-----------------------------------------------------------------------------
(* The name index. *)

\* Every definition has a slot of its own, which the probe from its home comes to
\* before any empty one.
Indexed ==
    /\ \A slot \in IndexSlots : name_index[slot] \in Defined \cup {EMPTY_SLOT}
    /\ \A s, t \in IndexSlots \ EmptySlots : name_index[s] = name_index[t] => s = t
    /\ \A d \in Defined : \E k \in IndexSlots :
          /\ name_index[ProbeSlot(HomeSlots[NameOf(d)], k)] = d
          /\ \A j \in 0..(k - 1) : ProbeSlot(HomeSlots[NameOf(d)], j) \notin EmptySlots

\* No name is defined twice.
Named ==
    /\ \A d \in Defined : NameOf(d) \in StorableNames
    /\ \A d, e \in Defined : NameOf(d) = NameOf(e) => d = e

-----------------------------------------------------------------------------
(* The declaration that is being read. *)

Kind(i) == text[i].kind

\* The name and the parameters are written into the definition as they are read.
AfterName == {"separator", "parameters", "body", "arguments", "close"}
AfterParameters == {"body", "arguments", "close"}
BodyStart == 4 + 2 * Len(This.parameters)

\* The atoms of the body the cursor is past.
Taken == SubSeq(text, BodyStart, cursor - 1)

\* No call reads on past the end of the source.
WithinSource ==
    /\ cursor <= Len(text) + 1
    /\ \A i \in 1..(cursor - 1) : Kind(i) # "END_OF_SOURCE"

Introduced ==
    /\ control = "open" => cursor = 1
    /\ control = "name" => cursor = 2
    /\ control = "separator" => cursor = 3
    /\ control \in AfterName \cup {"name"} => Kind(1) = "OPEN_PARENTHESIS"
    /\ control \in AfterName =>
          /\ Kind(2) = "IDENTIFIER" /\ text[2].name = NameOf(definition_count)
          /\ NameOf(definition_count) \in StorableNames \ VerbNames
          /\ \A d \in Defined : NameOf(d) # NameOf(definition_count)

\* Count parameters are followed by the comma that each has.
ParametersRead ==
    \A i \in 1..Len(This.parameters) :
       /\ Kind(2 * i + 2) = "IDENTIFIER" /\ text[2 * i + 2].name = This.parameters[i]
       /\ This.parameters[i] \in StorableNames \ VerbNames
       /\ Kind(2 * i + 3) = "ARGUMENT_SEPARATOR"

Collected ==
    /\ control # "idle" => Len(This.parameters) <= LLFPL_TEMPLATE_PARAMETER_CAPACITY
    /\ control \in {"open", "name", "separator"} => This.parameters = << >>
    /\ control \in {"parameters", "body"} => cursor = BodyStart
    /\ control \in {"parameters"} \cup AfterParameters =>
          Kind(3) = "ARGUMENT_SEPARATOR" /\ ParametersRead
    /\ control \in AfterParameters =>
          /\ This.body_snapshot = BodyStart /\ BodyStart <= Len(text)
          /\ Kind(BodyStart) = "IDENTIFIER" =>
                BodyStart < Len(text) /\ Kind(BodyStart + 1) # "ARGUMENT_SEPARATOR"

\* Within an argument list the depth counts the parentheses that are open; at the
\* end the atoms are a body, and a name before a parenthesis is no body alone.
Skimmed ==
    /\ control \in {"arguments", "close"} => BodyStart < cursor
    /\ control = "arguments" =>
          /\ BodyStart < Len(text)
          /\ Kind(BodyStart) = "IDENTIFIER" /\ Kind(BodyStart + 1) = "OPEN_PARENTHESIS"
          /\ open_parenthesis_depth = Promise!Depth(Taken, Len(Taken))
          /\ \A n \in 2..Len(Taken) : Promise!Depth(Taken, n) > 0
    /\ control = "close" =>
          \/ /\ cursor = BodyStart + 1
             /\ Kind(BodyStart) \notin {"END_OF_SOURCE", "UNRECOGNISED"}
             /\ Kind(BodyStart) = "IDENTIFIER" => Kind(BodyStart + 1) # "OPEN_PARENTHESIS"
          \/ Promise!IsApplication(Taken)

IInv ==
    /\ TypeOK /\ Indexed /\ Named
    /\ WithinSource /\ Introduced /\ Collected /\ Skimmed

-----------------------------------------------------------------------------
(* Probes and lookups. *)

\* A probe stays within the index.
LEMMA ProbeWithin ==
    ASSUME NEW home \in IndexSlots, NEW k \in IndexSlots
    PROVE  ProbeSlot(home, k) \in IndexSlots
<1>1. home + k \in Nat /\ 0 < LLFPL_TEMPLATE_INDEX_SLOT_COUNT
  BY SegmentAssumption DEF IndexSlots
<1> QED
  BY <1>1, Remainders, SegmentAssumption DEF ProbeSlot, IndexSlots

\* A probe comes to every slot.
LEMMA ProbeReaches ==
    ASSUME NEW home \in IndexSlots, NEW slot \in IndexSlots
    PROVE  \E k \in IndexSlots : ProbeSlot(home, k) = slot
<1> DEFINE n == LLFPL_TEMPLATE_INDEX_SLOT_COUNT
           k == IF home <= slot THEN slot - home ELSE slot - home + n
<1>1. n \in Nat /\ 0 < n /\ home \in 0..(n - 1) /\ slot \in 0..(n - 1)
  BY SegmentAssumption DEF IndexSlots
<1>2. k \in 0..(n - 1) /\ home + k \in Nat
      /\ (home + k = slot \/ (home + k = slot + n /\ n <= home + k /\ home + k < 2 * n))
  BY <1>1
<1> HIDE DEF n, k
<1>3. (home + k) % n = slot
  BY <1>1, <1>2, Remainders
<1> QED
  BY <1>2, <1>3 DEF ProbeSlot, IndexSlots, n

\* The first stop of a probe is one slot, if there is one at all to stop at.
LEMMA FirstStopIsOne ==
    ASSUME NEW home \in IndexSlots, NEW slots, NEW k \in IndexSlots,
           ProbeSlot(home, k) \in slots,
           \A j \in 0..(k - 1) : ProbeSlot(home, j) \notin slots
    PROVE  FirstStop(home, slots) = {ProbeSlot(home, k)}
<1>1. ASSUME NEW l \in IndexSlots, ProbeSlot(home, l) \in slots,
             \A j \in 0..(l - 1) : ProbeSlot(home, j) \notin slots
      PROVE  l = k
  <2>1. k \in Nat /\ l \in Nat
    BY DEF IndexSlots
  <2>2. ~(k < l) /\ ~(l < k)
    BY <1>1, <2>1
  <2> QED
    BY <2>1, <2>2
<1> QED
  BY <1>1 DEF FirstStop

LEMMA FirstStopExists ==
    ASSUME NEW home \in IndexSlots, NEW slots, NEW slot \in IndexSlots \cap slots
    PROVE  \E k \in IndexSlots :
              /\ ProbeSlot(home, k) \in slots
              /\ \A j \in 0..(k - 1) : ProbeSlot(home, j) \notin slots
<1> DEFINE K == {k \in IndexSlots : ProbeSlot(home, k) \in slots}
<1>1. K \subseteq Nat /\ K # {}
  <2>1. IndexSlots \subseteq Nat
    BY DEF IndexSlots
  <2> QED
    BY <2>1, ProbeReaches
<1>2. PICK k \in K : \A l \in K : k <= l
  BY <1>1, LeastNatural
<1>3. ASSUME NEW j \in 0..(k - 1) PROVE ProbeSlot(home, j) \notin slots
  <2>1. j \in IndexSlots /\ j < k
    BY <1>1, <1>2, SegmentAssumption DEF IndexSlots
  <2> QED
    BY <1>2, <2>1
<1> QED
  BY <1>2, <1>3

\* The index is never full: it has more slots than there are definitions.
LEMMA IndexNeverFull ==
    ASSUME Indexed, definition_count \in 0..Capacity
    PROVE  \E slot \in IndexSlots : slot \in EmptySlots
<1> SUFFICES ASSUME \A slot \in IndexSlots : slot \notin EmptySlots PROVE FALSE
  OBVIOUS
<1> DEFINE f == [slot \in IndexSlots |-> name_index[slot]]
<1>1. \A slot \in IndexSlots : name_index[slot] \in Defined
  BY DEF Indexed, EmptySlots
<1>2. f \in [IndexSlots -> Defined]
  BY <1>1
<1>3. /\ IsFiniteSet(IndexSlots) /\ Cardinality(IndexSlots) = LLFPL_TEMPLATE_INDEX_SLOT_COUNT
      /\ IsFiniteSet(Defined) /\ Cardinality(Defined) = definition_count
  <2>1. definition_count \in Nat
    BY SegmentAssumption DEF Capacity
  <2>2. IsFiniteSet(0..(LLFPL_TEMPLATE_INDEX_SLOT_COUNT - 1))
        /\ Cardinality(0..(LLFPL_TEMPLATE_INDEX_SLOT_COUNT - 1)) = LLFPL_TEMPLATE_INDEX_SLOT_COUNT
    BY FS_Interval, SegmentAssumption
  <2>3. IsFiniteSet(0..(definition_count - 1))
        /\ Cardinality(0..(definition_count - 1)) = definition_count
    BY <2>1, FS_Interval
  <2> QED
    BY <2>2, <2>3 DEF IndexSlots, Defined
<1>4. definition_count < LLFPL_TEMPLATE_INDEX_SLOT_COUNT
  BY SegmentAssumption DEF Capacity
<1>5. PICK s, t \in IndexSlots : s # t /\ f[s] = f[t]
  <2> HIDE DEF f
  <2>1. Cardinality(Defined) < Cardinality(IndexSlots)
    BY <1>3, <1>4
  <2> QED
    BY <1>2, <1>3, <2>1, FS_PigeonHole
<1> QED
  BY <1>5 DEF Indexed

\* A lookup finds the definition that has the name, and nothing else.
LEMMA LookupFinds ==
    ASSUME Indexed, Named, definition_count \in 0..Capacity, NEW d \in Defined
    PROVE  Lookup(NameOf(d)) = {d}
<1>1. EMPTY_SLOT \notin Defined
  BY SegmentAssumption DEF EMPTY_SLOT, Defined, Capacity
<1>2. PICK k \in IndexSlots :
         /\ name_index[ProbeSlot(HomeSlots[NameOf(d)], k)] = d
         /\ \A j \in 0..(k - 1) : ProbeSlot(HomeSlots[NameOf(d)], j) \notin EmptySlots
  BY DEF Indexed
<1>3. NameOf(d) \in StorableNames /\ HomeSlots[NameOf(d)] \in IndexSlots
  BY SegmentAssumption DEF Named
<1> DEFINE home == HomeSlots[NameOf(d)]
           stops == EmptySlots \cup SlotsOf(NameOf(d))
<1>4. ProbeSlot(home, k) \in IndexSlots \ EmptySlots
  BY <1>1, <1>2, <1>3, ProbeWithin DEF EmptySlots
<1>5. SlotsOf(NameOf(d)) = {ProbeSlot(home, k)}
  <2>1. ProbeSlot(home, k) \in SlotsOf(NameOf(d))
    BY <1>2, <1>4 DEF SlotsOf
  <2>2. ASSUME NEW slot \in SlotsOf(NameOf(d)) PROVE slot = ProbeSlot(home, k)
    <3>1. slot \in IndexSlots \ EmptySlots /\ NameOf(name_index[slot]) = NameOf(d)
      BY <2>2 DEF SlotsOf
    <3>2. name_index[slot] \in Defined
      BY <3>1 DEF Indexed, EmptySlots
    <3>3. name_index[slot] = d
      BY <3>1, <3>2 DEF Named
    <3> QED
      BY <1>2, <1>4, <3>1, <3>3 DEF Indexed
  <2> QED
    BY <2>1, <2>2
<1>6. \E l \in IndexSlots :
         /\ ProbeSlot(home, l) \in stops
         /\ \A j \in 0..(l - 1) : ProbeSlot(home, j) \notin stops
  <2>1. ProbeSlot(home, k) \in IndexSlots \cap stops
    BY <1>4, <1>5
  <2> QED
    BY <1>3, <2>1, FirstStopExists
<1>7. PICK l \in IndexSlots :
         /\ ProbeSlot(home, l) \in stops
         /\ \A j \in 0..(l - 1) : ProbeSlot(home, j) \notin stops
  BY <1>6
<1>8. ProbeSlot(home, l) = ProbeSlot(home, k)
  <2>1. k \in Nat /\ l \in Nat
    BY DEF IndexSlots
  <2>2. ~(k < l)
    BY <1>5, <1>7, <2>1
  <2>3. l < k => ProbeSlot(home, l) \notin EmptySlots
    BY <1>2, <2>1
  <2> QED
    BY <1>4, <1>5, <1>7, <2>1, <2>2, <2>3
<1>9. FirstStop(home, stops) = {ProbeSlot(home, k)}
  BY <1>3, <1>7, <1>8, FirstStopIsOne
<1> QED
  BY <1>1, <1>2, <1>3, <1>9 DEF Lookup

LEMMA LookupMisses ==
    ASSUME Indexed, NEW name, \A d \in Defined : NameOf(d) # name
    PROVE  Lookup(name) = {}
<1>1. SlotsOf(name) = {}
  BY DEF SlotsOf, Indexed, EmptySlots
<1>2. FirstStop(HomeSlots[name], EmptySlots \cup SlotsOf(name)) \subseteq EmptySlots
  BY <1>1 DEF FirstStop
<1> QED
  BY <1>2 DEF Lookup, EmptySlots

\* A new name is entered into the first empty slot of its probe.
LEMMA FreeSlotIsFirst ==
    ASSUME Indexed, definition_count \in 0..Capacity, NEW name \in StorableNames
    PROVE  \E k \in IndexSlots :
              /\ FreeSlot(name) = ProbeSlot(HomeSlots[name], k)
              /\ FreeSlot(name) \in EmptySlots
              /\ \A j \in 0..(k - 1) : ProbeSlot(HomeSlots[name], j) \notin EmptySlots
<1>1. HomeSlots[name] \in IndexSlots
  BY SegmentAssumption
<1>2. PICK slot \in IndexSlots : slot \in EmptySlots
  BY IndexNeverFull
<1>3. PICK k \in IndexSlots :
         /\ ProbeSlot(HomeSlots[name], k) \in EmptySlots
         /\ \A j \in 0..(k - 1) : ProbeSlot(HomeSlots[name], j) \notin EmptySlots
  BY <1>1, <1>2, FirstStopExists
<1>4. FirstStop(HomeSlots[name], EmptySlots) = {ProbeSlot(HomeSlots[name], k)}
  BY <1>1, <1>3, FirstStopIsOne
<1> QED
  BY <1>3, <1>4 DEF FreeSlot

-----------------------------------------------------------------------------
(* The text. *)

\* Atoms that are not the end of the source are in the text.
LEMMA AtomRead ==
    ASSUME TextTypeOK, ~Reads("END_OF_SOURCE")
    PROVE  cursor \in 1..Len(text) /\ NextAtom = text[cursor] /\ Len(text) \in Nat
<1>1. DOMAIN text = 1..Len(text) /\ Len(text) \in Nat
  BY LenProperties DEF TextTypeOK
<1> QED
  BY <1>1 DEF Reads, NextAtom, AtomAt, EndOfSource

\* An atom that was looked at is in the text, and so is the one after it unless it
\* is the end of the source.
LEMMA LookedAt ==
    ASSUME TextTypeOK, WithinSource, NEW count \in 1..2, Settled(count)
    PROVE  /\ cursor \in 1..Len(text) /\ NextAtom = text[cursor] /\ Len(text) \in Nat
           /\ count = 2 /\ Kind(cursor) # "END_OF_SOURCE" =>
                cursor + 1 \in 1..Len(text) /\ SecondAtom = text[cursor + 1]
<1>1. DOMAIN text = 1..Len(text) /\ Len(text) \in Nat /\ cursor \in Nat \ {0}
  BY LenProperties DEF TextTypeOK
<1>2. CASE Len(text) >= cursor + count - 1
  BY <1>1, <1>2 DEF NextAtom, SecondAtom, AtomAt
<1>3. CASE ~(Len(text) >= cursor + count - 1)
  <2>1. text # << >> /\ text[Len(text)] = EndOfSource
    BY <1>1, <1>3 DEF Settled
  <2>2. Len(text) # 0
    BY <2>1, EmptySeq DEF TextTypeOK
  <2>3. Kind(Len(text)) = "END_OF_SOURCE"
    BY <2>1 DEF Kind, EndOfSource
  <2>4. cursor <= Len(text)
    BY <1>1, <2>2, <2>3 DEF WithinSource
  <2>5. count \in {1, 2} /\ (count = 2 => cursor = Len(text))
    <3>1. \A l, c \in Nat, k \in 1..2 : ~(l >= c + k - 1) /\ c <= l => k \in {1, 2} /\ (k = 2 => c = l)
      OBVIOUS
    <3> QED
      BY <1>1, <1>3, <2>4, <3>1
  <2>6. cursor \in 1..Len(text) /\ cursor \in DOMAIN text
    BY <1>1, <2>4
  <2> QED
    BY <1>1, <2>3, <2>5, <2>6 DEF NextAtom, AtomAt
<1> QED
  BY <1>1, <1>2, <1>3

\* Looking at one more atom keeps the ones before it.
LEMMA TextGrows ==
    ASSUME TextTypeOK, NEW count, Settle(count)
    PROVE  /\ TextTypeOK' /\ cursor' = cursor /\ Len(text) \in Nat /\ Len(text') = Len(text) + 1
           /\ \A i \in 1..Len(text) : text'[i] = text[i]
<1>1. PICK atom \in {EndOfSource} \cup UNION Continuable : text' = Append(text, atom)
  BY DEF Settle
<1>2. atom \in Atom
  <2>1. EndOfSource \in Atom
    BY DEF EndOfSource, Atom
  <2> QED
    BY <1>1, <2>1, TextAssumption DEF Continuable
<1>3. text' \in Seq(Atom) /\ Len(text') = Len(text) + 1
      /\ \A i \in 1..Len(text) : text'[i] = text[i]
  BY <1>1, <1>2, AppendProperties DEF TextTypeOK
<1> QED
  BY <1>3, LenProperties DEF TextTypeOK, Settle

\* Reading on never passes the end of the source.
LEMMA ReadingOn ==
    ASSUME TextTypeOK, WithinSource, Advance(1)
    PROVE  /\ TextTypeOK' /\ WithinSource' /\ text' = text
           /\ ~Reads("END_OF_SOURCE") => cursor' = cursor + 1
<1>1. text' = text /\ Len(text) \in Nat /\ cursor \in Nat \ {0}
  BY LenProperties DEF TextTypeOK, Advance
<1>2. CASE Reads("END_OF_SOURCE")
  <2>1. cursor' = cursor
    BY <1>2 DEF Advance
  <2> QED
    BY <1>1, <1>2, <2>1 DEF TextTypeOK, WithinSource, Kind
<1>3. CASE ~Reads("END_OF_SOURCE")
  <2>1. cursor' = cursor + 1 /\ cursor \in 1..Len(text) /\ NextAtom = text[cursor]
    BY <1>3, AtomRead DEF Advance
  <2>2. Kind(cursor) # "END_OF_SOURCE"
    BY <1>3, <2>1 DEF Reads, Kind
  <2>3. ASSUME NEW i \in 1..cursor PROVE Kind(i) # "END_OF_SOURCE"
    <3>1. i \in 1..(cursor - 1) \/ i = cursor
      BY <1>1
    <3> QED
      BY <2>2, <3>1 DEF WithinSource
  <2> QED
    BY <1>1, <2>1, <2>3 DEF TextTypeOK, WithinSource, Kind
<1> QED
  BY <1>2, <1>3

\* What a slice of the text contains.
LEMMA SliceIs ==
    ASSUME NEW s \in Seq(Atom), NEW a \in Nat \ {0}, NEW c \in Nat, a <= c, c <= Len(s) + 1
    PROVE  /\ SubSeq(s, a, c - 1) \in Seq(Atom) /\ Len(SubSeq(s, a, c - 1)) = c - a
           /\ \A i \in 1..(c - a) : SubSeq(s, a, c - 1)[i] = s[a + i - 1]
<1>1. Len(s) \in Nat
  BY LenProperties
<1>2. \A i \in a..(c - 1) : s[i] \in Atom
  BY <1>1, ElementOfSeq
<1>3. a \in Int /\ c - 1 \in Int /\ (a <= c - 1 \/ a = c)
  OBVIOUS
<1> HIDE DEF Atom
<1> QED
  BY <1>2, <1>3, SubSeqProperties

-----------------------------------------------------------------------------
(* The depth of parentheses. *)

\* It depends on the atoms it counts.
LEMMA DepthOfPrefix ==
    ASSUME NEW s, NEW t, NEW n \in Nat, \A i \in 1..n : s[i] = t[i]
    PROVE  Promise!Depth(s, n) = Promise!Depth(t, n)
<1>1. /\ {i \in 1..n : Promise!Is(s[i], "OPEN_PARENTHESIS")}
           = {i \in 1..n : Promise!Is(t[i], "OPEN_PARENTHESIS")}
      /\ {i \in 1..n : Promise!Is(s[i], "CLOSE_PARENTHESIS")}
           = {i \in 1..n : Promise!Is(t[i], "CLOSE_PARENTHESIS")}
  OBVIOUS
<1> QED
  BY <1>1 DEF Promise!Depth

\* One more element that is counted, or is not.
Occurrences(s, n, kind) == {i \in 1..n : s[i].kind = kind}

LEMMA CountNext ==
    ASSUME NEW s, NEW n \in Nat, NEW kind
    PROVE  /\ Cardinality(Occurrences(s, n, kind)) \in Nat
           /\ Cardinality(Occurrences(s, n + 1, kind))
                = Cardinality(Occurrences(s, n, kind)) + IF s[n + 1].kind = kind THEN 1 ELSE 0
<1> DEFINE before == Occurrences(s, n, kind)
<1>1. IsFiniteSet(before) /\ Cardinality(before) \in Nat
  <2>1. IsFiniteSet(1..n)
    <3>1. 1 \in Int /\ n \in Int
      OBVIOUS
    <3> QED
      BY <3>1, FS_Interval
  <2>2. before \in SUBSET (1..n)
    BY DEF Occurrences
  <2>3. IsFiniteSet(before)
    <3> HIDE DEF before
    <3> QED
      BY <2>1, <2>2, FS_Subset
  <2> QED
    BY <2>3, FS_CardinalityType
<1>2. Occurrences(s, n + 1, kind) = IF s[n + 1].kind = kind THEN before \cup {n + 1} ELSE before
  BY DEF Occurrences
<1>3. n + 1 \notin before
  BY DEF Occurrences
<1>4. Cardinality(before \cup {n + 1}) = Cardinality(before) + 1
  <2> HIDE DEF before
  <2> QED
    BY <1>1, <1>3, FS_AddElement
<1> QED
  BY <1>1, <1>2, <1>4

LEMMA DepthOfNext ==
    ASSUME NEW s, NEW n \in Nat
    PROVE  /\ Promise!Depth(s, n) \in Int
           /\ Promise!Depth(s, n + 1) =
                CASE s[n + 1].kind = "OPEN_PARENTHESIS" -> Promise!Depth(s, n) + 1
                  [] s[n + 1].kind = "CLOSE_PARENTHESIS" -> Promise!Depth(s, n) - 1
                  [] OTHER -> Promise!Depth(s, n)
<1> DEFINE opened(k) == Cardinality(Occurrences(s, k, "OPEN_PARENTHESIS"))
           closed(k) == Cardinality(Occurrences(s, k, "CLOSE_PARENTHESIS"))
<1>1. \A k \in Nat : Promise!Depth(s, k) = opened(k) - closed(k)
  BY DEF Promise!Depth, Promise!Is, Promise!Cardinality, Cardinality, Occurrences
<1>2. /\ opened(n) \in Nat
      /\ opened(n + 1) = opened(n) + IF s[n + 1].kind = "OPEN_PARENTHESIS" THEN 1 ELSE 0
  BY CountNext
<1>3. /\ closed(n) \in Nat
      /\ closed(n + 1) = closed(n) + IF s[n + 1].kind = "CLOSE_PARENTHESIS" THEN 1 ELSE 0
  BY CountNext
<1>4. n + 1 \in Nat
  OBVIOUS
<1> HIDE DEF opened, closed
<1> QED
  BY <1>1, <1>2, <1>3, <1>4

\* A single atom that is no parenthesis opens nothing.
LEMMA DepthOfOne ==
    ASSUME NEW s, s[1].kind \notin {"OPEN_PARENTHESIS", "CLOSE_PARENTHESIS"}
    PROVE  Promise!Depth(s, 1) = 0
<1>1. /\ {i \in 1..1 : s[i].kind = "OPEN_PARENTHESIS"} = {}
      /\ {i \in 1..1 : s[i].kind = "CLOSE_PARENTHESIS"} = {}
  OBVIOUS
<1>2. Cardinality({}) = 0
  BY FS_EmptySet
<1>3. Promise!Depth(s, 1) = Cardinality({}) - Cardinality({})
  BY <1>1 DEF Promise!Depth, Promise!Is, Promise!Cardinality, Cardinality
<1> QED
  BY <1>2, <1>3

-----------------------------------------------------------------------------
(* The invariant is inductive. *)

\* The definition that is being written is none that is defined.
LEMMA ThisIs ==
    ASSUME TypeOK, control # "idle"
    PROVE  /\ definition_count \in 0..(Capacity - 1) /\ definition_count \notin Defined
           /\ Defined \subseteq 0..(Capacity - 1)
           /\ This \in Definition /\ This.parameters \in Seq(StorableNames)
           /\ Len(This.parameters) \in Nat /\ BodyStart \in Nat /\ 4 <= BodyStart
<1>1. /\ definition_count \in 0..(Capacity - 1) /\ definition_count \notin Defined
      /\ Defined \subseteq 0..(Capacity - 1)
  BY SegmentAssumption DEF TypeOK, Capacity, Defined
<1>2. This \in Definition
  BY <1>1 DEF TypeOK, This
<1>3. This.parameters \in Seq(StorableNames)
  BY <1>2 DEF Definition
<1>4. Len(This.parameters) \in Nat
  BY <1>3, LenProperties
<1> QED
  BY <1>1, <1>2, <1>3, <1>4 DEF BodyStart

\* The atoms the invariant speaks of are behind the cursor.
LEMMA Positions ==
    ASSUME IInv
    PROVE  /\ cursor \in Nat /\ Len(text) \in Nat /\ cursor <= Len(text) + 1
           /\ control = "name" => 2 <= cursor
           /\ control \in AfterName => 3 <= cursor
           /\ control \in {"parameters"} \cup AfterParameters =>
                 BodyStart \in Nat /\ 4 <= BodyStart /\ BodyStart <= cursor
           /\ control \in {"arguments", "close"} => BodyStart < cursor
<1>1. cursor \in Nat /\ Len(text) \in Nat /\ cursor <= Len(text) + 1
  BY LenProperties DEF IInv, TypeOK, TextTypeOK, WithinSource
<1>2. control # "idle" => BodyStart \in Nat /\ 4 <= BodyStart
  BY ThisIs DEF IInv
<1>3. control \in {"parameters"} \cup AfterParameters => BodyStart <= cursor
  BY <1>1, <1>2 DEF IInv, Collected, Skimmed, AfterParameters
<1>4. control \in AfterName => 3 <= cursor
  <2>1. control = "separator" \/ control \in {"parameters"} \cup AfterParameters \/ control \notin AfterName
    BY DEF AfterName, AfterParameters
  <2>2. control = "separator" => 3 <= cursor
    BY DEF IInv, Introduced
  <2>3. control \in {"parameters"} \cup AfterParameters => 3 <= cursor
    BY <1>1, <1>2, <1>3 DEF AfterParameters
  <2> QED
    BY <2>1, <2>2, <2>3
<1> QED
  BY <1>1, <1>2, <1>3, <1>4 DEF IInv, Introduced, Skimmed, AfterParameters

\* What is written into a definition that is not defined changes no lookup.
LEMMA LookupsKept ==
    ASSUME Indexed, Named, definition_count' = definition_count, name_index' = name_index,
           \A d \in Defined : definitions'[d] = definitions[d]
    PROVE  /\ Indexed' /\ Named' /\ Defined' = Defined
           /\ \A name : Lookup(name)' = Lookup(name)
<1>1. Defined' = Defined /\ EmptySlots' = EmptySlots
  BY DEF Defined, EmptySlots
<1>2. \A d \in Defined : NameOf(d)' = NameOf(d)
  BY DEF NameOf
<1>3. Indexed'
  BY <1>1, <1>2 DEF Indexed
<1>4. Named'
  BY <1>1, <1>2 DEF Named
<1>5. ASSUME NEW name PROVE Lookup(name)' = Lookup(name)
  <2>1. ASSUME NEW slot \in IndexSlots \ EmptySlots
        PROVE  definitions'[name_index[slot]] = definitions[name_index[slot]]
    BY DEF Indexed, EmptySlots
  <2>2. SlotsOf(name)' = SlotsOf(name)
    BY <1>1, <2>1 DEF SlotsOf, NameOf
  <2> QED
    BY <1>1, <2>2 DEF Lookup
<1> QED
  BY <1>1, <1>3, <1>4, <1>5

\* Nothing is read before the first call.
LEMMA InitInv == Init => IInv
<1> SUFFICES ASSUME Init PROVE IInv
  OBVIOUS
<1>1. definition_count = 0 /\ Defined = {}
  BY DEF Init, Defined
<1>2. Blank \in Definition
  <2>1. << >> \in Seq(StorableNames)
    OBVIOUS
  <2> QED
    BY <2>1 DEF Blank, Definition
<1>3. TypeOK
  <2>1. << >> \in Seq(Atom)
    OBVIOUS
  <2>2. 0..(definition_count - 1) = {}
    BY <1>1
  <2> QED
    BY <1>1, <1>2, <2>1, <2>2, SegmentAssumption
       DEF Init, TypeOK, TextTypeOK, Controls, Failures, EMPTY_SLOT, Capacity
<1>4. Indexed /\ Named
  BY <1>1 DEF Init, Indexed, Named, EmptySlots
<1>5. WithinSource
  BY DEF Init, WithinSource
<1> QED
  BY <1>3, <1>4, <1>5
     DEF Init, IInv, Introduced, Collected, Skimmed, AfterName, AfterParameters

\* A call that fails leaves the invariant of an idle segment.
LEMMA FailingKeeps ==
    ASSUME IInv, NEW status \in Failures, Fail(status),
           TextTypeOK', WithinSource', UNCHANGED <<definition_count, name_index, sources>>,
           definitions' \in [0..(Capacity - 1) -> Definition],
           \A d \in Defined : definitions'[d] = definitions[d],
           open_parenthesis_depth' = open_parenthesis_depth
    PROVE  IInv'
<1>1. control' = "idle" /\ outcome' = status
  BY DEF Fail
<1>2. Indexed' /\ Named'
  BY LookupsKept DEF IInv
<1>3. TypeOK'
  BY <1>1 DEF IInv, TypeOK, Controls, Failures
<1> QED
  BY <1>1, <1>2, <1>3
     DEF IInv, Introduced, Collected, Skimmed, AfterName, AfterParameters

\* Reading on keeps the types.
LEMMA ProceedingKeeps ==
    ASSUME IInv, control # "idle", NEW next_control \in Controls \ {"idle"}, Proceed(next_control),
           TextTypeOK', UNCHANGED <<definition_count, name_index, sources>>,
           definitions' \in [0..(Capacity - 1) -> Definition],
           \A d \in Defined : definitions'[d] = definitions[d],
           open_parenthesis_depth' \in Nat
    PROVE  TypeOK' /\ Indexed' /\ Named'
<1>1. control' = next_control /\ outcome' = outcome
  BY DEF Proceed
<1>2. Indexed' /\ Named'
  BY LookupsKept DEF IInv
<1>3. TypeOK'
  BY <1>1 DEF IInv, TypeOK, Controls, Failures
<1> QED
  BY <1>2, <1>3

\* Looking at one more atom changes nothing else.
LEMMA ReadTextKeeps == IInv /\ ReadText => IInv'
<1> SUFFICES ASSUME IInv, ReadText PROVE IInv'
  OBVIOUS
<1>1. /\ control # "idle" /\ Settle(Lookaheads) /\ TextTypeOK
      /\ UNCHANGED <<definitions, definition_count, name_index, sources, control,
                     open_parenthesis_depth, outcome>>
  BY DEF ReadText, segment_vars, IInv, TypeOK
<1>2. /\ TextTypeOK' /\ cursor' = cursor /\ Len(text) \in Nat /\ Len(text') = Len(text) + 1
      /\ \A i \in 1..Len(text) : text'[i] = text[i]
  BY <1>1, TextGrows
<1>3. \A i \in 1..Len(text) : Kind(i)' = Kind(i)
  BY <1>2 DEF Kind
<1>4. Indexed' /\ Named' /\ Defined' = Defined
  BY <1>1, LookupsKept DEF IInv
<1>5. TypeOK'
  BY <1>1, <1>2 DEF IInv, TypeOK
<1>6. WithinSource'
  BY <1>2, <1>3, Positions DEF IInv, WithinSource
<1>7. This' = This /\ BodyStart' = BodyStart
  BY <1>1 DEF This, BodyStart
<1>8. Introduced'
  <2>1. control = "name" => 1 <= Len(text)
    BY <1>2, Positions
  <2>2. control \in AfterName => 2 <= Len(text)
    BY <1>2, Positions
  <2>3. /\ control \in AfterName \cup {"name"} => Kind(1)' = Kind(1)
        /\ control \in AfterName => Kind(2)' = Kind(2) /\ text'[2] = text[2]
    BY <1>2, <1>3, <2>1, <2>2 DEF AfterName
  <2>4. \A d : NameOf(d)' = NameOf(d)
    BY <1>1 DEF NameOf
  <2> QED
    BY <1>1, <1>2, <1>4, <2>3, <2>4 DEF IInv, Introduced
<1>9. Collected'
  <2>1. CASE control \in {"parameters"} \cup AfterParameters
    <3>1. Len(This.parameters) \in Nat /\ BodyStart \in Nat /\ BodyStart = 4 + 2 * Len(This.parameters)
      BY <1>1, ThisIs DEF IInv, BodyStart
    <3>2. BodyStart <= Len(text) + 1
      BY <1>2, <2>1, <3>1, Positions
    <3>3. Kind(3)' = Kind(3)
      BY <1>2, <1>3, <3>1, <3>2
    <3>4. ASSUME NEW i \in 1..Len(This.parameters)
          PROVE  /\ text'[2 * i + 2] = text[2 * i + 2]
                 /\ Kind(2 * i + 2)' = Kind(2 * i + 2) /\ Kind(2 * i + 3)' = Kind(2 * i + 3)
      <4>1. 2 * i + 2 \in 1..Len(text) /\ 2 * i + 3 \in 1..Len(text)
        BY <1>2, <3>1, <3>2
      <4> QED
        BY <1>2, <1>3, <4>1
    <3>5. ParametersRead => ParametersRead'
      BY <1>7, <3>4 DEF ParametersRead
    <3>6. BodyStart <= Len(text) => Kind(BodyStart)' = Kind(BodyStart)
      BY <1>3, <1>7, <3>1
    <3>7. BodyStart < Len(text) => Kind(BodyStart + 1)' = Kind(BodyStart + 1)
      BY <1>2, <1>3, <1>7, <3>1
    <3>8. Len(text) < Len(text')
      BY <1>2
    <3>9. BodyStart <= Len(text) => BodyStart <= Len(text')
      BY <1>2, <3>1
    <3>10. BodyStart < Len(text) => BodyStart < Len(text')
      BY <1>2, <3>1
    <3> QED
      BY <1>1, <1>2, <1>7, <2>1, <3>3, <3>5, <3>6, <3>7, <3>9, <3>10
         DEF IInv, Collected, AfterParameters
  <2>2. CASE control \notin {"parameters"} \cup AfterParameters
    BY <1>1, <1>2, <1>7, <2>2 DEF IInv, Collected, AfterParameters
  <2> QED
    BY <2>1, <2>2
<1>10. Skimmed'
  <2>1. CASE control \in {"arguments", "close"}
    <3>1. BodyStart \in Nat \ {0} /\ BodyStart < cursor /\ cursor <= Len(text) + 1 /\ cursor \in Nat
      BY <2>1, Positions DEF AfterParameters
    <3>2. BodyStart <= cursor /\ cursor <= Len(text') + 1 /\ text \in Seq(Atom) /\ text' \in Seq(Atom)
      BY <1>1, <1>2, <3>1 DEF TextTypeOK
    <3>3. Taken' = Taken
      <4>1. /\ Taken \in Seq(Atom) /\ Len(Taken) = cursor - BodyStart
            /\ \A i \in 1..(cursor - BodyStart) : Taken[i] = text[BodyStart + i - 1]
        BY <3>1, <3>2, SliceIs DEF Taken
      <4>2. /\ Taken' \in Seq(Atom) /\ Len(Taken') = cursor - BodyStart
            /\ \A i \in 1..(cursor - BodyStart) : Taken'[i] = text'[BodyStart + i - 1]
        <5>1. Taken' = SubSeq(text', BodyStart, cursor - 1)
          BY <1>2, <1>7 DEF Taken
        <5> QED
          BY <3>1, <3>2, <5>1, SliceIs
      <4>3. \A i \in 1..(cursor - BodyStart) : text'[BodyStart + i - 1] = text[BodyStart + i - 1]
        BY <1>2, <3>1
      <4> QED
        BY <4>1, <4>2, <4>3, SeqEqual
    <3>4. Kind(BodyStart)' = Kind(BodyStart)
      BY <1>2, <1>3, <1>7, <3>1
    <3>5. BodyStart < Len(text) => Kind(BodyStart + 1)' = Kind(BodyStart + 1)
      BY <1>2, <1>3, <1>7, <3>1
    <3>6. BodyStart < Len(text) => BodyStart < Len(text')
      BY <1>2, <3>1
    <3>7. control = "close" /\ Kind(BodyStart) = "IDENTIFIER" => BodyStart < Len(text)
      BY DEF IInv, Collected, AfterParameters
    <3> QED
      BY <1>1, <1>2, <1>7, <2>1, <3>3, <3>4, <3>5, <3>6, <3>7 DEF IInv, Skimmed
  <2>2. CASE control \notin {"arguments", "close"}
    BY <1>1, <2>2 DEF Skimmed
  <2> QED
    BY <2>1, <2>2
<1> QED
  BY <1>4, <1>5, <1>6, <1>8, <1>9, <1>10 DEF IInv

\* A call begins with a cleared definition and an empty text.
LEMMA DefineKeeps == IInv /\ Define => IInv'
<1> SUFFICES ASSUME IInv, Define PROVE IInv'
  OBVIOUS
<1>1. /\ control = "idle" /\ text' = << >> /\ cursor' = 1
      /\ UNCHANGED <<open_parenthesis_depth, definition_count, name_index, sources>>
  BY DEF Define, Untouched
<1>2. TextTypeOK' /\ WithinSource'
  <2>1. << >> \in Seq(Atom) /\ Len(<< >>) = 0
    OBVIOUS
  <2> QED
    BY <1>1, <2>1 DEF TextTypeOK, WithinSource
<1>3. CASE SegmentFull
  <2>1. Fail("CAPACITY_EXCEEDED") /\ UNCHANGED definitions
    BY <1>3 DEF Define
  <2> QED
    BY <1>1, <1>2, <2>1, FailingKeeps DEF IInv, TypeOK, Failures
<1>4. CASE ~SegmentFull
  <2>1. /\ control' = "open" /\ outcome' = "PENDING"
        /\ definitions' = [definitions EXCEPT ![definition_count] = Blank]
    BY <1>4 DEF Define, Cleared
  <2>2. definition_count \in 0..(Capacity - 1)
    BY <1>4, SegmentAssumption DEF SegmentFull, IInv, TypeOK, Capacity
  <2>3. Blank \in Definition
    <3>1. << >> \in Seq(StorableNames)
      OBVIOUS
    <3> QED
      BY <3>1 DEF Blank, Definition
  <2>4. \A d \in Defined : definitions'[d] = definitions[d]
    BY <2>1, <2>2, SegmentAssumption DEF Defined, Capacity, IInv, TypeOK
  <2>5. Indexed' /\ Named'
    BY <1>1, <2>4, LookupsKept DEF IInv
  <2>6. TypeOK'
    BY <1>1, <1>2, <2>1, <2>2, <2>3, SegmentAssumption
       DEF IInv, TypeOK, Controls, Failures, Capacity
  <2>7. This' = Blank
    BY <1>1, <2>1, <2>2 DEF This, IInv, TypeOK
  <2>8. This'.parameters = << >> /\ Len(<< >>) = 0
    BY <2>7 DEF Blank
  <2> QED
    BY <1>1, <1>2, <2>1, <2>5, <2>6, <2>8, SegmentAssumption
       DEF IInv, Introduced, Collected, Skimmed, AfterName, AfterParameters
<1> QED
  BY <1>3, <1>4

\* The opening parenthesis, and the comma after the name.
LEMMA ExpectAtomKeeps == IInv /\ ExpectAtom => IInv'
<1> SUFFICES ASSUME IInv, ExpectAtom PROVE IInv'
  OBVIOUS
<1>1. /\ control \in {"open", "separator"} /\ Settled(1) /\ Advance(1)
      /\ UNCHANGED <<definitions, definition_count, name_index, sources, open_parenthesis_depth>>
  BY DEF ExpectAtom, segment_vars
<1>2. /\ TextTypeOK' /\ WithinSource' /\ text' = text
      /\ ~Reads("END_OF_SOURCE") => cursor' = cursor + 1
  BY <1>1, ReadingOn DEF IInv, TypeOK
<1>3. NextAtom = text[cursor]
  BY <1>1, LookedAt DEF IInv, TypeOK
<1>4. CASE ~Reads(Expects[control])
  BY <1>1, <1>2, <1>4, FailingKeeps DEF ExpectAtom, IInv, TypeOK, Failures
<1>5. CASE Reads(Expects[control])
  <2>1. Proceed(Follows[control])
    BY <1>5 DEF ExpectAtom
  <2>2. Follows[control] \in Controls \ {"idle"} /\ Follows[control] \in {"name", "parameters"}
    BY <1>1 DEF Follows, Controls
  <2>3. TypeOK' /\ Indexed' /\ Named'
    BY <1>1, <1>2, <2>1, <2>2, ProceedingKeeps DEF IInv, TypeOK
  <2>4. This' = This /\ BodyStart' = BodyStart /\ Defined' = Defined
        /\ (\A d : NameOf(d)' = NameOf(d)) /\ (\A i : Kind(i)' = Kind(i))
    BY <1>1, <1>2 DEF This, BodyStart, Defined, NameOf, Kind
  <2>5. CASE control = "open"
    <3>1. Reads("OPEN_PARENTHESIS") /\ cursor = 1 /\ control' = "name"
      BY <1>5, <2>1, <2>5 DEF Expects, Follows, Proceed, IInv, Introduced
    <3>2. cursor' = 2 /\ Kind(1) = "OPEN_PARENTHESIS"
      BY <1>2, <1>3, <3>1 DEF Reads, Kind
    <3> QED
      BY <1>2, <2>3, <2>4, <2>5, <3>1, <3>2
         DEF IInv, Introduced, Collected, Skimmed, AfterName, AfterParameters
  <2>6. CASE control = "separator"
    <3>1. Reads("ARGUMENT_SEPARATOR") /\ cursor = 3 /\ control' = "parameters"
      BY <1>5, <2>1, <2>6 DEF Expects, Follows, Proceed, IInv, Introduced
    <3>2. cursor' = 4 /\ Kind(3) = "ARGUMENT_SEPARATOR"
      BY <1>2, <1>3, <3>1 DEF Reads, Kind
    <3>3. This.parameters = << >> /\ Len(<< >>) = 0
      BY <2>6 DEF IInv, Collected
    <3>4. BodyStart = 4 /\ ParametersRead'
      BY <2>4, <3>3 DEF BodyStart, ParametersRead
    <3>5. Introduced'
      BY <1>1, <1>2, <2>4, <2>6, <3>1, <3>2 DEF IInv, Introduced, AfterName
    <3>6. Collected'
      BY <1>2, <2>4, <2>6, <3>1, <3>2, <3>3, <3>4, SegmentAssumption
         DEF IInv, Collected, AfterParameters
    <3> QED
      BY <1>2, <2>3, <3>1, <3>5, <3>6 DEF IInv, Skimmed
  <2> QED
    BY <1>1, <2>5, <2>6
<1> QED
  BY <1>4, <1>5

\* The name is written into the definition that is being read.
LEMMA NameWritten ==
    ASSUME IInv, control # "idle", NEW name \in StorableNames, Write("name", <<name>>)
    PROVE  /\ definitions' \in [0..(Capacity - 1) -> Definition]
           /\ definitions' = [definitions EXCEPT ![definition_count] = [This EXCEPT !.name = <<name>>]]
           /\ \A d \in Defined : definitions'[d] = definitions[d]
<1>1. /\ definition_count \in 0..(Capacity - 1) /\ definition_count \notin Defined
      /\ Defined \subseteq 0..(Capacity - 1) /\ This \in Definition
  BY ThisIs DEF IInv
<1>2. definitions' = [definitions EXCEPT ![definition_count] = [This EXCEPT !.name = <<name>>]]
  BY DEF Write, This
<1>3. [This EXCEPT !.name = <<name>>] \in Definition
  <2>1. <<name>> \in Seq(StorableNames)
    OBVIOUS
  <2> QED
    BY <1>1, <2>1 DEF Definition
<1> QED
  BY <1>1, <1>2, <1>3 DEF IInv, TypeOK

LEMMA RefuseNameKeeps == IInv /\ RefuseName => IInv'
<1> SUFFICES ASSUME IInv, RefuseName PROVE IInv'
  OBVIOUS
<1>1. /\ control = "name" /\ Advance(1)
      /\ UNCHANGED <<definition_count, name_index, sources, open_parenthesis_depth>>
  BY DEF RefuseName, Reading, Untouched
<1>2. TextTypeOK' /\ WithinSource'
  BY <1>1, ReadingOn DEF IInv, TypeOK
<1>3. \/ UNCHANGED definitions
      \/ NextAtom.name \in StorableNames /\ Write("name", <<NextAtom.name>>)
  BY DEF RefuseName
<1>4. /\ definitions' \in [0..(Capacity - 1) -> Definition]
      /\ \A d \in Defined : definitions'[d] = definitions[d]
  BY <1>1, <1>3, NameWritten DEF IInv, TypeOK
<1>5. \E status \in Failures : Fail(status)
  BY DEF RefuseName, Failures
<1> QED
  BY <1>1, <1>2, <1>4, <1>5, FailingKeeps

LEMMA TakeNameKeeps == IInv /\ TakeName => IInv'
<1> SUFFICES ASSUME IInv, TakeName PROVE IInv'
  OBVIOUS
<1> DEFINE name == NextAtom.name
<1>1. /\ control = "name" /\ Settled(1) /\ Advance(1) /\ Reads("IDENTIFIER")
      /\ name \in StorableNames \ VerbNames /\ Lookup(name) = {}
      /\ Write("name", <<name>>) /\ Proceed("separator")
      /\ UNCHANGED <<definition_count, name_index, sources, open_parenthesis_depth>>
  BY DEF TakeName, Reading, Lookaheads, Untouched, IsReserved
<1>2. /\ TextTypeOK' /\ WithinSource' /\ text' = text /\ cursor' = cursor + 1
  BY <1>1, ReadingOn DEF IInv, TypeOK, Reads
<1>3. NextAtom = text[cursor] /\ cursor = 2
  BY <1>1, LookedAt DEF IInv, TypeOK, Introduced
<1>4. /\ definitions' \in [0..(Capacity - 1) -> Definition]
      /\ definitions' = [definitions EXCEPT ![definition_count] = [This EXCEPT !.name = <<name>>]]
      /\ \A d \in Defined : definitions'[d] = definitions[d]
  BY <1>1, NameWritten
<1>5. TypeOK' /\ Indexed' /\ Named'
  BY <1>1, <1>2, <1>4, ProceedingKeeps DEF Controls, IInv, TypeOK
<1>6. definition_count \in 0..(Capacity - 1) /\ This \in Definition
  BY <1>1, ThisIs DEF IInv
<1>7. This' = [This EXCEPT !.name = <<name>>]
  BY <1>1, <1>4, <1>6 DEF This, IInv, TypeOK
<1>8. This'.name = <<name>> /\ This'.parameters = << >> /\ Len(<< >>) = 0
  BY <1>1, <1>6, <1>7 DEF Definition, IInv, Collected
<1>9. NameOf(definition_count)' = name
  BY <1>1, <1>8 DEF NameOf, This
<1>10. \A d \in Defined : NameOf(d) # name
  <2>1. \A d \in Defined : Lookup(NameOf(d)) # {}
    BY LookupFinds DEF IInv, TypeOK
  <2> QED
    BY <1>1, <2>1
<1>11. /\ Defined' = Defined /\ \A d \in Defined : NameOf(d)' = NameOf(d)
  BY <1>1, <1>4 DEF Defined, NameOf
<1>12. Kind(1)' = "OPEN_PARENTHESIS" /\ Kind(2)' = "IDENTIFIER" /\ text'[2].name = name
  BY <1>1, <1>2, <1>3 DEF Kind, Reads, IInv, Introduced
<1>13. Introduced'
  <2> HIDE DEF name
  <2>1. \A d \in Defined' : NameOf(d)' # name
    BY <1>10, <1>11
  <2>2. control' = "separator" /\ cursor' = 3
    BY <1>1, <1>2, <1>3 DEF Proceed
  <2>3. NameOf(definition_count)' \in StorableNames \ VerbNames
        /\ \A d \in Defined' : NameOf(d)' # NameOf(definition_count)'
    BY <1>1, <1>9, <2>1
  <2> QED
    BY <1>9, <1>12, <2>2, <2>3 DEF Introduced
<1>14. Collected' /\ Skimmed'
  BY <1>1, <1>8, SegmentAssumption DEF Proceed, Collected, Skimmed, AfterParameters
<1> QED
  BY <1>2, <1>5, <1>13, <1>14 DEF IInv

LEMMA RefuseParameterKeeps == IInv /\ RefuseParameter => IInv'
<1> SUFFICES ASSUME IInv, RefuseParameter PROVE IInv'
  OBVIOUS
<1>1. UNCHANGED <<text, cursor, definitions, definition_count, name_index, sources,
                  open_parenthesis_depth>>
  BY DEF RefuseParameter, text_vars, segment_vars
<1>2. TextTypeOK' /\ WithinSource'
  BY <1>1 DEF IInv, TypeOK, TextTypeOK, WithinSource, Kind
<1>3. \E status \in Failures : Fail(status)
  BY DEF RefuseParameter, Failures
<1> QED
  BY <1>1, <1>2, <1>3, FailingKeeps DEF IInv, TypeOK

\* A parameter is a name and the comma behind it.
LEMMA TakeParameterKeeps == IInv /\ TakeParameter => IInv'
<1> SUFFICES ASSUME IInv, TakeParameter PROVE IInv'
  OBVIOUS
<1> DEFINE name == NextAtom.name
           parameters == This.parameters
<1>1. /\ control = "parameters" /\ Settled(2) /\ Reads("IDENTIFIER")
      /\ SecondAtom.kind = "ARGUMENT_SEPARATOR" /\ Advance(2)
      /\ name \in StorableNames \ VerbNames /\ ~ParametersFull
      /\ Write("parameters", Append(parameters, name))
      /\ UNCHANGED <<control, outcome, definition_count, name_index, sources,
                     open_parenthesis_depth>>
  BY DEF TakeParameter, AtParameter, Reading, Lookaheads, Untouched, IsReserved
<1>2. /\ definition_count \in 0..(Capacity - 1) /\ definition_count \notin Defined
      /\ Defined \subseteq 0..(Capacity - 1)
      /\ This \in Definition /\ parameters \in Seq(StorableNames) /\ Len(parameters) \in Nat
  BY <1>1, ThisIs DEF IInv
<1>3. cursor = BodyStart /\ BodyStart = 4 + 2 * Len(parameters)
  BY <1>1 DEF IInv, Collected, BodyStart
<1>4. /\ cursor \in 1..Len(text) /\ NextAtom = text[cursor] /\ Len(text) \in Nat
      /\ Kind(cursor) = "IDENTIFIER"
  BY <1>1, LookedAt DEF IInv, TypeOK, Kind, Reads
<1>5. cursor + 1 \in 1..Len(text) /\ Kind(cursor + 1) = "ARGUMENT_SEPARATOR"
  BY <1>1, <1>4, LookedAt DEF IInv, TypeOK, Kind
<1>6. text' = text /\ cursor' = cursor + 2
  BY <1>1 DEF Advance, Reads
<1>7. TextTypeOK'
  BY <1>6 DEF IInv, TypeOK, TextTypeOK
<1>8. WithinSource'
  <2>1. ASSUME NEW i \in 1..(cursor + 1) PROVE Kind(i) # "END_OF_SOURCE"
    <3>1. i \in 1..(cursor - 1) \/ i = cursor \/ i = cursor + 1
      BY <1>4
    <3> QED
      BY <1>4, <1>5, <3>1 DEF IInv, WithinSource
  <2> QED
    BY <1>4, <1>5, <1>6, <2>1 DEF WithinSource, Kind
<1>9. /\ Append(parameters, name) \in Seq(StorableNames)
      /\ Len(Append(parameters, name)) = Len(parameters) + 1
      /\ \A i \in 1..Len(parameters) : Append(parameters, name)[i] = parameters[i]
      /\ Append(parameters, name)[Len(parameters) + 1] = name
  BY <1>1, <1>2, AppendProperties
<1>10. definitions' = [definitions EXCEPT
                          ![definition_count] = [This EXCEPT !.parameters = Append(parameters, name)]]
  BY <1>1 DEF Write, This
<1>11. [This EXCEPT !.parameters = Append(parameters, name)] \in Definition
  <2> HIDE DEF name, parameters
  <2> QED
    BY <1>2, <1>9 DEF Definition
<1>12. /\ definitions' \in [0..(Capacity - 1) -> Definition]
       /\ \A d \in Defined : definitions'[d] = definitions[d]
  BY <1>2, <1>10, <1>11 DEF IInv, TypeOK
<1>13. This' = [This EXCEPT !.parameters = Append(parameters, name)]
  BY <1>1, <1>2, <1>10 DEF This, IInv, TypeOK
<1>14. This'.parameters = Append(parameters, name) /\ This'.name = This.name
  BY <1>2, <1>13 DEF Definition
<1>15. TypeOK'
  BY <1>1, <1>7, <1>12 DEF IInv, TypeOK
<1>16. Indexed' /\ Named' /\ Defined' = Defined
  BY <1>1, <1>12, LookupsKept DEF IInv
<1>17. Introduced'
  <2>1. \A d \in Defined : NameOf(d)' = NameOf(d)
    BY <1>12 DEF NameOf
  <2>2. NameOf(definition_count)' = NameOf(definition_count)
    BY <1>14 DEF NameOf, This
  <2>3. \A i : Kind(i)' = Kind(i)
    BY <1>6 DEF Kind
  <2> QED
    BY <1>1, <1>6, <1>16, <2>1, <2>2, <2>3 DEF IInv, Introduced, AfterName
<1>18. Collected'
  <2>1. BodyStart' = BodyStart + 2
    BY <1>2, <1>3, <1>9, <1>14 DEF BodyStart
  <2>2. Len(parameters) + 1 <= LLFPL_TEMPLATE_PARAMETER_CAPACITY
    BY <1>1, <1>2, SegmentAssumption DEF ParametersFull
  <2>3. Kind(3)' = "ARGUMENT_SEPARATOR"
    BY <1>1, <1>6 DEF IInv, Collected, Kind
  <2>4. ASSUME NEW i \in 1..(Len(parameters) + 1)
        PROVE  /\ Kind(2 * i + 2) = "IDENTIFIER"
               /\ text[2 * i + 2].name = Append(parameters, name)[i]
               /\ Append(parameters, name)[i] \in StorableNames \ VerbNames
               /\ Kind(2 * i + 3) = "ARGUMENT_SEPARATOR"
    <3>1. CASE i \in 1..Len(parameters)
      BY <1>1, <1>9, <3>1 DEF IInv, Collected, ParametersRead
    <3>2. CASE i = Len(parameters) + 1
      <4>1. 2 * i + 2 = cursor /\ 2 * i + 3 = cursor + 1
        BY <1>2, <1>3, <3>2
      <4> QED
        BY <1>1, <1>4, <1>5, <1>9, <3>2, <4>1
    <3> QED
      BY <1>2, <3>1, <3>2
  <2>5. ParametersRead'
    <3> HIDE DEF name, parameters
    <3>1. Len(This'.parameters) = Len(parameters) + 1
      BY <1>9, <1>14
    <3> QED
      BY <1>6, <1>14, <2>4, <3>1 DEF ParametersRead, Kind
  <2>6. control' = "parameters" /\ cursor' = BodyStart'
    BY <1>1, <1>3, <1>6, <2>1
  <2>7. Len(This'.parameters) <= LLFPL_TEMPLATE_PARAMETER_CAPACITY
    BY <1>9, <1>14, <2>2
  <2> QED
    BY <2>3, <2>5, <2>6, <2>7 DEF Collected, AfterParameters
<1>19. Skimmed'
  BY <1>1 DEF Skimmed
<1> QED
  BY <1>8, <1>15, <1>16, <1>17, <1>18, <1>19 DEF IInv

\* Where no parameter is, the body begins.
LEMMA TakeSnapshotKeeps == IInv /\ TakeSnapshot => IInv'
<1> SUFFICES ASSUME IInv, TakeSnapshot PROVE IInv'
  OBVIOUS
<1>1. /\ control = "parameters" /\ Settled(2) /\ ~AtParameter
      /\ text' = text /\ cursor' = cursor
      /\ Write("body_snapshot", cursor) /\ Proceed("body")
      /\ UNCHANGED <<definition_count, name_index, sources, open_parenthesis_depth>>
  BY DEF TakeSnapshot, Reading, Lookaheads, Untouched, text_vars
<1>2. /\ definition_count \in 0..(Capacity - 1) /\ definition_count \notin Defined
      /\ Defined \subseteq 0..(Capacity - 1) /\ This \in Definition
  BY <1>1, ThisIs DEF IInv
<1>3. cursor = BodyStart
  BY <1>1 DEF IInv, Collected
<1>4. /\ cursor \in 1..Len(text) /\ NextAtom = text[cursor] /\ Len(text) \in Nat
      /\ Kind(cursor) # "END_OF_SOURCE" =>
           cursor + 1 \in 1..Len(text) /\ SecondAtom = text[cursor + 1]
  BY <1>1, LookedAt DEF IInv, TypeOK
<1>5. Kind(cursor) = "IDENTIFIER" =>
         cursor < Len(text) /\ Kind(cursor + 1) # "ARGUMENT_SEPARATOR"
  BY <1>1, <1>4 DEF AtParameter, Reading, Lookaheads, Reads, Kind
<1>6. TextTypeOK' /\ WithinSource' /\ \A i : Kind(i)' = Kind(i)
  BY <1>1 DEF IInv, TypeOK, TextTypeOK, WithinSource, Kind
<1>7. definitions' = [definitions EXCEPT ![definition_count] = [This EXCEPT !.body_snapshot = cursor]]
  BY <1>1 DEF Write, This
<1>8. [This EXCEPT !.body_snapshot = cursor] \in Definition
  BY <1>2, <1>4 DEF Definition
<1>9. /\ definitions' \in [0..(Capacity - 1) -> Definition]
      /\ \A d \in Defined : definitions'[d] = definitions[d]
  BY <1>2, <1>7, <1>8 DEF IInv, TypeOK
<1>10. This' = [This EXCEPT !.body_snapshot = cursor]
  BY <1>1, <1>2, <1>7 DEF This, IInv, TypeOK
<1>11. /\ This'.parameters = This.parameters /\ This'.name = This.name
       /\ This'.body_snapshot = cursor
  BY <1>2, <1>10 DEF Definition
<1>12. TypeOK' /\ Indexed' /\ Named'
  BY <1>1, <1>6, <1>9, ProceedingKeeps DEF Controls, IInv, TypeOK
<1>13. Defined' = Defined /\ BodyStart' = BodyStart
  BY <1>1, <1>11 DEF Defined, BodyStart
<1>14. Introduced'
  <2>1. \A d \in Defined : NameOf(d)' = NameOf(d)
    BY <1>9 DEF NameOf
  <2>2. NameOf(definition_count)' = NameOf(definition_count)
    BY <1>11 DEF NameOf, This
  <2> QED
    BY <1>1, <1>6, <1>13, <2>1, <2>2 DEF Proceed, IInv, Introduced, AfterName
<1>15. Collected'
  <2>1. ParametersRead'
    BY <1>1, <1>6, <1>11 DEF IInv, Collected, ParametersRead
  <2>2. BodyStart' <= Len(text')
    BY <1>1, <1>3, <1>4, <1>13
  <2> QED
    BY <1>1, <1>3, <1>5, <1>6, <1>11, <1>13, <2>1, <2>2
       DEF Proceed, IInv, Collected, AfterParameters
<1>16. Skimmed'
  BY <1>1 DEF Proceed, Skimmed
<1> QED
  BY <1>6, <1>12, <1>14, <1>15, <1>16 DEF IInv

\* Every refusal past the parameters reads one atom and leaves the segment alone.
LEMMA RefusalKeeps ==
    ASSUME IInv, Advance(1), Fail("SYNTAX_ERROR"),
           UNCHANGED <<segment_vars, open_parenthesis_depth>>
    PROVE  IInv'
<1>1. UNCHANGED <<definitions, definition_count, name_index, sources, open_parenthesis_depth>>
  BY DEF segment_vars
<1>2. TextTypeOK' /\ WithinSource'
  BY ReadingOn DEF IInv, TypeOK
<1> QED
  BY <1>1, <1>2, FailingKeeps DEF IInv, TypeOK, Failures

LEMMA RefusalsKeep == IInv /\ (RefuseBody \/ RefuseArguments \/ RefuseClose) => IInv'
BY RefusalKeeps DEF RefuseBody, RefuseArguments, RefuseClose

\* Going on within the body leaves what is known of the header.
LEMMA WithinBody ==
    ASSUME IInv, control \in {"body", "arguments"}, Advance(1), ~Reads("END_OF_SOURCE"),
           NEW next_control \in {"arguments", "close"}, Proceed(next_control),
           UNCHANGED segment_vars, open_parenthesis_depth' \in Nat
    PROVE  /\ TypeOK' /\ Indexed' /\ Named' /\ WithinSource' /\ Introduced' /\ Collected'
           /\ BodyStart' = BodyStart /\ text' = text /\ cursor' = cursor + 1
           /\ \A i : Kind(i)' = Kind(i)
           /\ BodyStart \in Nat \ {0} /\ BodyStart <= cursor /\ cursor \in 1..Len(text)
           /\ NextAtom = text[cursor]
           /\ Len(text) \in Nat /\ text \in Seq(Atom)
<1>1. UNCHANGED <<definitions, definition_count, name_index, sources>>
  BY DEF segment_vars
<1>2. /\ TextTypeOK' /\ WithinSource' /\ text' = text /\ cursor' = cursor + 1
      /\ text \in Seq(Atom)
  BY ReadingOn DEF IInv, TypeOK, TextTypeOK
<1>3. cursor \in 1..Len(text) /\ NextAtom = text[cursor] /\ Len(text) \in Nat
  BY AtomRead DEF IInv, TypeOK
<1>4. TypeOK' /\ Indexed' /\ Named'
  BY <1>1, <1>2, ProceedingKeeps DEF Controls, IInv, TypeOK
<1>5. /\ BodyStart' = BodyStart /\ This' = This /\ Defined' = Defined
      /\ (\A i : Kind(i)' = Kind(i)) /\ (\A d : NameOf(d)' = NameOf(d))
  BY <1>1, <1>2 DEF BodyStart, This, Defined, Kind, NameOf
<1>6. BodyStart \in Nat \ {0} /\ BodyStart <= cursor
  BY Positions DEF AfterParameters
<1>7. control' = next_control
  BY DEF Proceed
<1>8. Introduced'
  BY <1>1, <1>2, <1>5, <1>7 DEF IInv, Introduced, AfterName
<1>9. Collected'
  <2>1. ParametersRead'
    BY <1>2, <1>5 DEF IInv, Collected, ParametersRead, AfterParameters
  <2> QED
    BY <1>2, <1>5, <1>7, <2>1 DEF IInv, Collected, AfterParameters
<1> QED
  BY <1>2, <1>3, <1>4, <1>5, <1>6, <1>8, <1>9

\* A body is an atom, or begins with a name before a parenthesis.
LEMMA BeginBodyKeeps == IInv /\ BeginBody => IInv'
<1> SUFFICES ASSUME IInv, BeginBody PROVE IInv'
  OBVIOUS
<1> DEFINE applies == Reads("IDENTIFIER") /\ SecondAtom.kind = "OPEN_PARENTHESIS"
           next_control == IF applies THEN "arguments" ELSE "close"
<1>1. /\ control = "body" /\ Settled(2) /\ Advance(1)
      /\ ~Reads("END_OF_SOURCE") /\ ~Reads("UNRECOGNISED")
      /\ Proceed(next_control) /\ open_parenthesis_depth' = 0 /\ UNCHANGED segment_vars
  BY DEF BeginBody, Reading, Lookaheads
<1>2. next_control \in {"arguments", "close"}
  OBVIOUS
<1> HIDE DEF next_control
<1>3. /\ TypeOK' /\ Indexed' /\ Named' /\ WithinSource' /\ Introduced' /\ Collected'
      /\ BodyStart' = BodyStart /\ text' = text /\ cursor' = cursor + 1
      /\ (\A i : Kind(i)' = Kind(i))
      /\ BodyStart \in Nat \ {0} /\ cursor \in 1..Len(text) /\ NextAtom = text[cursor]
      /\ Len(text) \in Nat /\ text \in Seq(Atom)
  BY <1>1, <1>2, WithinBody
<1>4. cursor = BodyStart
  BY <1>1 DEF IInv, Collected
<1>5. Kind(cursor) \notin {"END_OF_SOURCE", "UNRECOGNISED"}
      /\ (Reads("IDENTIFIER") <=> Kind(cursor) = "IDENTIFIER")
  BY <1>1, <1>3 DEF Reads, Kind
<1>6. cursor + 1 \in 1..Len(text) /\ SecondAtom = text[cursor + 1]
  BY <1>1, <1>5, LookedAt DEF IInv, TypeOK
<1>7. SecondAtom.kind = Kind(BodyStart + 1)
  BY <1>4, <1>6 DEF Kind
<1>8. CASE applies
  <2>1. control' = "arguments"
    BY <1>1, <1>8 DEF Proceed, next_control
  <2>2. /\ Taken' \in Seq(Atom) /\ Len(Taken') = 1 /\ Taken'[1] = text[BodyStart]
    <3>1. Taken' = SubSeq(text, BodyStart, (BodyStart + 1) - 1)
      BY <1>3, <1>4 DEF Taken
    <3>2. BodyStart + 1 \in Nat /\ BodyStart <= BodyStart + 1 /\ BodyStart + 1 <= Len(text) + 1
      BY <1>3, <1>4
    <3>3. /\ Taken' \in Seq(Atom) /\ Len(Taken') = (BodyStart + 1) - BodyStart
          /\ \A i \in 1..((BodyStart + 1) - BodyStart) : Taken'[i] = text[BodyStart + i - 1]
      BY <1>3, <3>1, <3>2, SliceIs
    <3>4. PICK start \in Nat : start = BodyStart
      BY <1>3
    <3>5. 1 \in 1..((start + 1) - start) /\ start + 1 - 1 = start /\ (start + 1) - start = 1
      BY <3>4
    <3> HIDE DEF applies, Atom
    <3>6. Len(Taken') = 1 /\ Taken'[1] = text[start]
      BY <3>3, <3>4, <3>5
    <3> QED
      BY <3>3, <3>4, <3>6
  <2>3. Kind(BodyStart) = "IDENTIFIER"
    BY <1>4, <1>5, <1>8
  <2>4. Promise!Depth(Taken', 1) = 0
    BY <2>2, <2>3, DepthOfOne DEF Kind
  <2>5. BodyStart < Len(text)
    BY <1>3, <1>4, <1>6
  <2>6. BodyStart < cursor + 1
    BY <1>3, <1>4
  <2>7. Kind(BodyStart + 1) = "OPEN_PARENTHESIS"
    BY <1>7, <1>8
  <2>8. \A n \in 2..1 : Promise!Depth(Taken', n) > 0
    OBVIOUS
  <2>9. Skimmed'
    BY <1>1, <1>3, <2>1, <2>2, <2>3, <2>4, <2>5, <2>6, <2>7, <2>8 DEF Skimmed
  <2> QED
    BY <1>3, <2>9 DEF IInv
<1>9. CASE ~applies
  <2>1. control' = "close"
    BY <1>1, <1>9 DEF Proceed, next_control
  <2>2. BodyStart < cursor' /\ cursor' = BodyStart + 1
    BY <1>3, <1>4
  <2>3. Kind(BodyStart) = "IDENTIFIER" => Kind(BodyStart + 1) # "OPEN_PARENTHESIS"
    BY <1>4, <1>5, <1>7, <1>9
  <2>4. Skimmed'
    BY <1>3, <1>4, <1>5, <2>1, <2>2, <2>3 DEF Skimmed
  <2> QED
    BY <1>3, <2>4 DEF IInv
<1> QED
  BY <1>8, <1>9

\* An argument list is followed to the parenthesis that closes it, and then it is
\* the application the grammar means.
LEMMA SkipArgumentKeeps == IInv /\ SkipArgument => IInv'
<1> SUFFICES ASSUME IInv, SkipArgument PROVE IInv'
  OBVIOUS
<1> DEFINE next_control == IF DepthAfter > 0 THEN "arguments" ELSE "close"
           taken == cursor - BodyStart
<1>1. /\ control = "arguments" /\ Advance(1) /\ ~Reads("END_OF_SOURCE")
      /\ Proceed(next_control) /\ open_parenthesis_depth' = DepthAfter /\ UNCHANGED segment_vars
  BY DEF SkipArgument, Reading, Unterminated
<1>2. next_control \in {"arguments", "close"}
  OBVIOUS
<1>3. /\ cursor \in 1..Len(text) /\ NextAtom = text[cursor] /\ Len(text) \in Nat
      /\ text \in Seq(Atom)
  BY <1>1, AtomRead DEF IInv, TypeOK, TextTypeOK
<1>4. BodyStart \in Nat \ {0} /\ BodyStart < cursor /\ taken \in Nat /\ 1 <= taken
  BY <1>1, <1>3, Positions DEF AfterParameters
<1>5. /\ Taken \in Seq(Atom) /\ Len(Taken) = taken
      /\ \A i \in 1..taken : Taken[i] = text[BodyStart + i - 1]
  <2>1. BodyStart <= cursor /\ cursor <= Len(text) + 1 /\ cursor \in Nat
    BY <1>3, <1>4
  <2> QED
    BY <1>3, <1>4, <2>1, SliceIs DEF Taken
<1> DEFINE longer == SubSeq(text, BodyStart, (cursor + 1) - 1)
<1>6. /\ longer \in Seq(Atom) /\ Len(longer) = taken + 1
      /\ \A i \in 1..(taken + 1) : longer[i] = text[BodyStart + i - 1]
  <2>1. BodyStart <= cursor + 1 /\ cursor + 1 <= Len(text) + 1 /\ cursor + 1 \in Nat
        /\ (cursor + 1) - BodyStart = taken + 1
    BY <1>3, <1>4
  <2> QED
    BY <1>3, <1>4, <2>1, SliceIs
<1> HIDE DEF longer, next_control, taken
<1>7. /\ BodyStart < Len(text) /\ Kind(BodyStart) = "IDENTIFIER"
      /\ Kind(BodyStart + 1) = "OPEN_PARENTHESIS"
      /\ open_parenthesis_depth = Promise!Depth(Taken, taken)
      /\ \A n \in 2..taken : Promise!Depth(Taken, n) > 0
  BY <1>1, <1>5 DEF IInv, Skimmed
<1>8. /\ longer[taken + 1] = text[cursor] /\ longer[1] = text[BodyStart]
      /\ longer[2] = text[BodyStart + 1]
  <2>1. taken + 1 \in 1..(taken + 1) /\ 1 \in 1..(taken + 1) /\ 2 \in 1..(taken + 1)
        /\ BodyStart + (taken + 1) - 1 = cursor /\ BodyStart + 1 - 1 = BodyStart
        /\ BodyStart + 2 - 1 = BodyStart + 1
    BY <1>3, <1>4 DEF taken
  <2> QED
    BY <1>6, <2>1
<1>9. \A n \in 1..taken : Promise!Depth(longer, n) = Promise!Depth(Taken, n)
  <2> SUFFICES ASSUME NEW n \in 1..taken PROVE Promise!Depth(longer, n) = Promise!Depth(Taken, n)
    OBVIOUS
  <2>1. n \in Nat /\ \A i \in 1..n : longer[i] = Taken[i]
    BY <1>4, <1>5, <1>6
  <2> QED
    BY <2>1, DepthOfPrefix
<1>10. DepthAfter = Promise!Depth(longer, taken + 1)
  <2>1. Promise!Depth(longer, taken) = open_parenthesis_depth
    BY <1>4, <1>7, <1>9
  <2>2. longer[taken + 1].kind = NextAtom.kind
    BY <1>3, <1>8
  <2> QED
    BY <1>4, <2>1, <2>2, DepthOfNext DEF DepthAfter, Reads
<1>11. DepthAfter \in Nat /\ (taken = 1 => DepthAfter > 0)
  <2>1. open_parenthesis_depth \in Nat
    BY DEF IInv, TypeOK
  <2>2. CASE taken = 1
    <3>1. cursor = BodyStart + 1
      BY <1>3, <1>4, <2>2 DEF taken
    <3>2. Reads("OPEN_PARENTHESIS")
      BY <1>3, <1>7, <3>1 DEF Reads, Kind
    <3> QED
      BY <2>1, <3>2 DEF DepthAfter, Reads
  <2>3. CASE taken # 1
    <3>1. taken \in 2..taken
      BY <1>4, <2>3
    <3>2. open_parenthesis_depth > 0
      BY <1>7, <3>1
    <3> QED
      BY <2>1, <2>3, <3>2 DEF DepthAfter
  <2> QED
    BY <2>2, <2>3
<1>12. /\ TypeOK' /\ Indexed' /\ Named' /\ WithinSource' /\ Introduced' /\ Collected'
       /\ BodyStart' = BodyStart /\ text' = text /\ cursor' = cursor + 1
       /\ \A i : Kind(i)' = Kind(i)
  BY <1>1, <1>2, <1>11, WithinBody
<1>13. Taken' = longer /\ Len(Taken') = taken + 1
  BY <1>6, <1>12 DEF Taken, longer
<1>14. CASE DepthAfter > 0
  <2>1. control' = "arguments"
    BY <1>1, <1>14 DEF Proceed, next_control
  <2>2. ASSUME NEW n \in 2..(taken + 1) PROVE Promise!Depth(longer, n) > 0
    <3>1. n \in 2..taken \/ n = taken + 1
      BY <1>4
    <3>2. CASE n \in 2..taken
      BY <1>4, <1>7, <1>9, <3>2
    <3>3. CASE n = taken + 1
      BY <1>10, <1>14, <3>3
    <3> QED
      BY <3>1, <3>2, <3>3
  <2>3. BodyStart < cursor + 1
    BY <1>3, <1>4
  <2>4. Skimmed'
    BY <1>1, <1>7, <1>10, <1>12, <1>13, <2>1, <2>2, <2>3 DEF Skimmed
  <2> QED
    BY <1>12, <2>4 DEF IInv
<1>15. CASE ~(DepthAfter > 0)
  <2>1. control' = "close"
    BY <1>1, <1>15 DEF Proceed, next_control
  <2>2. DepthAfter = 0 /\ taken # 1 /\ taken + 1 >= 3 /\ (taken + 1) - 1 = taken
    BY <1>4, <1>11, <1>15
  <2>3. ASSUME NEW n \in 2..(taken + 1) PROVE longer[n].kind # "END_OF_SOURCE"
    <3>1. n \in 1..(taken + 1) /\ BodyStart + n - 1 \in 1..((cursor + 1) - 1)
      BY <1>3, <1>4 DEF taken
    <3>2. Kind(BodyStart + n - 1) # "END_OF_SOURCE"
      BY <1>12, <3>1 DEF WithinSource
    <3> QED
      BY <1>6, <3>1, <3>2 DEF Kind
  <2>4. \A n \in 2..taken : Promise!Depth(longer, n) > 0
    BY <1>4, <1>7, <1>9
  <2>5. Promise!IsApplication(longer)
    BY <1>6, <1>7, <1>8, <1>10, <2>2, <2>3, <2>4 DEF Promise!IsApplication, Promise!Is, Kind
  <2>6. BodyStart < cursor + 1
    BY <1>3, <1>4
  <2>7. Promise!IsApplication(Taken)'
    BY <1>13, <2>5 DEF Promise!IsApplication, Promise!Is
  <2>8. Skimmed'
    BY <1>12, <2>1, <2>6, <2>7 DEF Skimmed
  <2> QED
    BY <1>12, <2>8 DEF IInv
<1> QED
  BY <1>14, <1>15

\* A complete declaration is entered where the probe for its name ends.
LEMMA CompleteKeeps == IInv /\ Complete => IInv'
<1> SUFFICES ASSUME IInv, Complete PROVE IInv'
  OBVIOUS
<1> DEFINE name == NameOf(definition_count)
           home == HomeSlots[name]
           slot == FreeSlot(name)
<1>1. /\ control = "close" /\ Advance(1) /\ Reads("CLOSE_PARENTHESIS")
      /\ name_index' = [name_index EXCEPT ![slot] = definition_count]
      /\ definition_count' = definition_count + 1
      /\ sources' = [i \in 0..definition_count |->
                        IF i = definition_count THEN SubSeq(text, 1, cursor) ELSE sources[i]]
      /\ control' = "idle" /\ outcome' = "OK"
      /\ UNCHANGED <<definitions, open_parenthesis_depth>>
  BY DEF Complete, Reading, NameOf, This
<1>2. /\ definition_count \in 0..(Capacity - 1) /\ definition_count \notin Defined
      /\ Capacity \in Nat
  BY <1>1, ThisIs, SegmentAssumption DEF IInv, Capacity
<1>3. name \in StorableNames /\ \A d \in Defined : NameOf(d) # name
  BY <1>1 DEF IInv, Introduced, AfterName
<1>4. /\ TextTypeOK' /\ WithinSource' /\ cursor \in 1..Len(text) /\ Len(text) \in Nat
  BY <1>1, ReadingOn, AtomRead DEF IInv, TypeOK, Reads
<1>5. PICK k \in IndexSlots :
         /\ slot = ProbeSlot(home, k) /\ slot \in EmptySlots
         /\ \A j \in 0..(k - 1) : ProbeSlot(home, j) \notin EmptySlots
  BY <1>3, FreeSlotIsFirst DEF IInv, TypeOK
<1>6. slot \in IndexSlots /\ name_index \in [IndexSlots -> 0..Capacity]
  BY <1>5 DEF EmptySlots, IInv, TypeOK
<1>7. Defined' = Defined \cup {definition_count}
  BY <1>1, <1>2 DEF Defined
<1>8. \A d : NameOf(d)' = NameOf(d)
  BY <1>1 DEF NameOf
<1> HIDE DEF name, home, slot
<1>9. \A s \in IndexSlots :
         name_index'[s] = IF s = slot THEN definition_count ELSE name_index[s]
  BY <1>1, <1>6
<1>10. EmptySlots' = EmptySlots \ {slot}
  BY <1>2, <1>9 DEF EmptySlots, EMPTY_SLOT
<1>11. Named'
  <2>1. \A d \in Defined' : NameOf(d) \in StorableNames
    BY <1>3, <1>7 DEF IInv, Named, name
  <2>2. \A d, e \in Defined' : NameOf(d) = NameOf(e) => d = e
    BY <1>3, <1>7 DEF IInv, Named, name
  <2> QED
    BY <1>8, <2>1, <2>2 DEF Named
<1>12. Indexed'
  <2>1. \A s \in IndexSlots : name_index'[s] \in Defined' \cup {EMPTY_SLOT}
    BY <1>7, <1>9 DEF IInv, Indexed
  <2>2. ASSUME NEW s \in IndexSlots \ EmptySlots', NEW t \in IndexSlots \ EmptySlots',
               name_index'[s] = name_index'[t]
        PROVE  s = t
    <3>1. \A u \in IndexSlots \ EmptySlots : name_index[u] # definition_count
      BY <1>2 DEF IInv, Indexed, EmptySlots
    <3> QED
      BY <1>9, <1>10, <2>2, <3>1 DEF IInv, Indexed
  <2>3. ASSUME NEW d \in Defined'
        PROVE  \E l \in IndexSlots :
                  /\ name_index'[ProbeSlot(HomeSlots[NameOf(d)], l)] = d
                  /\ \A j \in 0..(l - 1) : ProbeSlot(HomeSlots[NameOf(d)], j) \notin EmptySlots'
    <3>1. CASE d \in Defined
      <4>1. PICK l \in IndexSlots :
               /\ name_index[ProbeSlot(HomeSlots[NameOf(d)], l)] = d
               /\ \A j \in 0..(l - 1) : ProbeSlot(HomeSlots[NameOf(d)], j) \notin EmptySlots
        BY <3>1 DEF IInv, Indexed
      <4>2. HomeSlots[NameOf(d)] \in IndexSlots
        BY <3>1, SegmentAssumption DEF IInv, Named
      <4>3. ProbeSlot(HomeSlots[NameOf(d)], l) \in IndexSlots
        BY <4>2, ProbeWithin
      <4>4. ProbeSlot(HomeSlots[NameOf(d)], l) # slot
        <5>1. name_index[slot] = EMPTY_SLOT /\ EMPTY_SLOT \notin Defined
          BY <1>2, <1>5 DEF EmptySlots, EMPTY_SLOT, Defined
        <5> QED
          BY <3>1, <4>1, <5>1
      <4> QED
        BY <1>9, <1>10, <4>1, <4>3, <4>4
    <3>2. CASE d = definition_count
      <4>1. HomeSlots[NameOf(d)] = home
        BY <3>2 DEF home, name
      <4>2. name_index'[ProbeSlot(home, k)] = d
        BY <1>5, <1>6, <1>9, <3>2
      <4> QED
        BY <1>5, <1>10, <4>1, <4>2
    <3> QED
      BY <1>7, <3>1, <3>2
  <2> QED
    BY <1>8, <2>1, <2>2, <2>3 DEF Indexed
<1>13. TypeOK'
  <2>1. name_index' \in [IndexSlots -> 0..Capacity]
    BY <1>1, <1>2, <1>6
  <2>2. SubSeq(text, 1, cursor) \in Seq(Atom)
    <3>1. text \in Seq(Atom) /\ cursor + 1 \in Nat /\ 1 <= cursor + 1 /\ cursor + 1 <= Len(text) + 1
          /\ 1 \in Nat \ {0} /\ (cursor + 1) - 1 = cursor
      BY <1>4 DEF IInv, TypeOK, TextTypeOK
    <3>2. SubSeq(text, 1, (cursor + 1) - 1) \in Seq(Atom)
      BY <3>1, SliceIs
    <3> QED
      BY <3>1, <3>2
  <2>3. sources' \in [0..(definition_count' - 1) -> Seq(Atom)]
    <3>1. definition_count' - 1 = definition_count
          /\ \A i \in 0..definition_count : i # definition_count => i \in 0..(definition_count - 1)
      BY <1>1, <1>2
    <3> HIDE DEF Atom
    <3> QED
      BY <1>1, <2>2, <3>1 DEF IInv, TypeOK
  <2> QED
    BY <1>1, <1>2, <1>4, <2>1, <2>3 DEF IInv, TypeOK, Controls, Failures
<1> QED
  BY <1>1, <1>4, <1>11, <1>12, <1>13
     DEF IInv, Introduced, Collected, Skimmed, AfterName, AfterParameters

\* What holds of one step holds of every behaviour.
LEMMA StepKeepsInv == IInv /\ [Next]_vars => IInv'
<1> SUFFICES ASSUME IInv, [Next]_vars PROVE IInv'
  OBVIOUS
<1>1. CASE UNCHANGED vars
  <2>1. /\ UNCHANGED <<text, cursor, definitions, definition_count, name_index, sources,
                       control, open_parenthesis_depth, outcome>>
    BY <1>1 DEF vars, text_vars, segment_vars
  <2>2. TypeOK' /\ WithinSource'
    BY <2>1 DEF IInv, TypeOK, TextTypeOK, WithinSource, Kind
  <2>3. Indexed' /\ Named'
    BY <2>1, LookupsKept DEF IInv
  <2>4. /\ This' = This /\ BodyStart' = BodyStart /\ Taken' = Taken /\ Defined' = Defined
        /\ (\A i : Kind(i)' = Kind(i)) /\ (\A d : NameOf(d)' = NameOf(d))
    BY <2>1 DEF This, BodyStart, Taken, Defined, Kind, NameOf
  <2>5. Introduced'
    BY <2>1, <2>4 DEF IInv, Introduced
  <2>6. Collected'
    BY <2>1, <2>4 DEF IInv, Collected, ParametersRead
  <2>7. Skimmed'
    BY <2>1, <2>4 DEF IInv, Skimmed
  <2> QED
    BY <2>2, <2>3, <2>5, <2>6, <2>7 DEF IInv
<1>2. CASE Define
  BY <1>2, DefineKeeps
<1>3. CASE ReadText \/ ExpectAtom \/ RefuseName \/ TakeName
  BY <1>3, ReadTextKeeps, ExpectAtomKeeps, RefuseNameKeeps, TakeNameKeeps
<1>4. CASE RefuseParameter \/ TakeParameter \/ TakeSnapshot
  BY <1>4, RefuseParameterKeeps, TakeParameterKeeps, TakeSnapshotKeeps
<1>5. CASE RefuseBody \/ BeginBody \/ SkipArgument \/ RefuseArguments \/ RefuseClose
  BY <1>5, RefusalsKeep, BeginBodyKeeps, SkipArgumentKeeps
<1>6. CASE Complete
  BY <1>6, CompleteKeeps
<1> QED
  BY <1>1, <1>2, <1>3, <1>4, <1>5, <1>6 DEF Next, Step

\* The inductive invariant: every definition has a slot that the probe from its
\* home reaches before any empty one, no name has two, and the definition that is
\* being written says of the atoms behind the cursor what the grammar says.
THEOREM InvariantHolds == Spec => []IInv
BY InitInv, StepKeepsInv, PTL DEF Spec

\* Every variable keeps its type: a call in progress has a definition to write to,
\* the depth never goes below zero and every slot holds a definition or none.
THEOREM TypeCorrect == Spec => []TypeOK
<1>1. IInv => TypeOK
  BY DEF IInv
<1> QED
  BY <1>1, InvariantHolds, PTL

-----------------------------------------------------------------------------
(* The segment implements the declarations. *)

\* The templates are the definitions, by their names.
TemplatesSeen ==
    /\ DOMAIN Templates = {NameOf(d) : d \in Defined}
    /\ \A d \in Defined :
          Templates[NameOf(d)] = [parameters |-> definitions[d].parameters, body |-> BodyOf(d)]

LEMMA TemplatesAre == IInv => TemplatesSeen
<1> SUFFICES ASSUME IInv PROVE TemplatesSeen
  OBVIOUS
<1>1. \A d \in Defined : Lookup(NameOf(d)) = {d} /\ NameOf(d) \in StorableNames
  BY LookupFinds DEF IInv, TypeOK, Named
<1>2. \A name : (\A d \in Defined : NameOf(d) # name) => Lookup(name) = {}
  BY LookupMisses DEF IInv
<1>3. {n \in StorableNames : Lookup(n) # {}} = {NameOf(d) : d \in Defined}
  BY <1>1, <1>2
<1>4. DOMAIN Templates = {NameOf(d) : d \in Defined}
  BY <1>3 DEF Templates
<1>5. ASSUME NEW d \in Defined
      PROVE  Templates[NameOf(d)] = [parameters |-> definitions[d].parameters, body |-> BodyOf(d)]
  <2>1. NameOf(d) \in {n \in StorableNames : Lookup(n) # {}}
    BY <1>1
  <2>2. (CHOOSE i \in Lookup(NameOf(d)) : TRUE) = d
    BY <1>1
  <2> QED
    BY <2>1, <2>2 DEF Templates
<1> QED
  BY <1>4, <1>5 DEF TemplatesSeen

\* They are told apart by their names, so there are as many as definitions.
LEMMA TemplateCount ==
    ASSUME IInv
    PROVE  Cardinality(DOMAIN Templates) = definition_count
<1> DEFINE f == [d \in Defined |-> NameOf(d)]
           T == DOMAIN Templates
<1>1. T = {NameOf(d) : d \in Defined}
  BY TemplatesAre DEF TemplatesSeen
<1>2. f \in Surjection(Defined, T) /\ f \in Injection(Defined, T)
  <2>1. f \in [Defined -> T]
    BY <1>1
  <2>2. \A t \in T : \E d \in Defined : f[d] = t
    BY <1>1
  <2>3. \A d, e \in Defined : f[d] = f[e] => d = e
    BY DEF IInv, Named
  <2>4. \A d, e \in Defined : f[d] = f[e] => d = e
    BY <2>3
  <2> HIDE DEF f, T
  <2>5. f \in Surjection(Defined, T)
    BY <2>1, <2>2 DEF Surjection
  <2>6. f \in Injection(Defined, T)
    BY <2>1, <2>4 DEF Injection, IsInjective
  <2> QED
    BY <2>5, <2>6
<1>3. IsFiniteSet(Defined) /\ Cardinality(Defined) = definition_count
  <2>1. definition_count \in Nat
    BY SegmentAssumption DEF IInv, TypeOK, Capacity
  <2>2. 0 \in Int /\ definition_count - 1 \in Int
    BY <2>1
  <2>3. IsFiniteSet(0..(definition_count - 1))
        /\ Cardinality(0..(definition_count - 1)) = definition_count
    BY <2>1, <2>2, FS_Interval
  <2> QED
    BY <2>3 DEF Defined
<1> HIDE DEF f, T
<1>4. Cardinality(T) = Cardinality(Defined)
  BY <1>2, <1>3, FS_Surjection
<1> QED
  BY <1>3, <1>4 DEF T

\* All but the last step of a call only read, and write into no definition but the
\* one in progress.
Steps == Step /\ ~Complete

LEMMA SegmentKept ==
    ASSUME IInv, Steps
    PROVE  /\ control # "idle" /\ outcome = "PENDING"
           /\ outcome' \in {outcome} \cup Failures
           /\ UNCHANGED <<definition_count, name_index, sources>>
           /\ \A d \in Defined : definitions'[d] = definitions[d]
<1>1. control # "idle"
  BY DEF Steps, Step, ReadText, ExpectAtom, RefuseName, TakeName, RefuseParameter, TakeParameter,
         TakeSnapshot, RefuseBody, BeginBody, SkipArgument, RefuseArguments, RefuseClose,
         AtParameter, Reading
<1>2. definition_count \notin Defined /\ Defined \subseteq 0..(Capacity - 1)
  BY <1>1, ThisIs DEF IInv
<1>3. ASSUME UNCHANGED segment_vars
      PROVE  /\ UNCHANGED <<definition_count, name_index, sources>>
             /\ \A d \in Defined : definitions'[d] = definitions[d]
  BY <1>3 DEF segment_vars
<1>4. ASSUME NEW field, NEW value, Write(field, value), Untouched
      PROVE  /\ UNCHANGED <<definition_count, name_index, sources>>
             /\ \A d \in Defined : definitions'[d] = definitions[d]
  BY <1>2, <1>4 DEF Write, Untouched, IInv, TypeOK
<1>5. CASE \/ ReadText \/ ExpectAtom \/ RefuseParameter \/ RefuseBody
           \/ BeginBody \/ SkipArgument \/ RefuseArguments \/ RefuseClose
  <2>1. UNCHANGED segment_vars
    BY <1>5 DEF ReadText, ExpectAtom, RefuseParameter, RefuseBody, BeginBody, SkipArgument,
                RefuseArguments, RefuseClose
  <2>2. outcome' \in {outcome} \cup Failures
    BY <1>5 DEF ReadText, ExpectAtom, RefuseParameter, RefuseBody, BeginBody, SkipArgument,
                RefuseArguments, RefuseClose, Proceed, Fail, Failures
  <2> QED
    BY <1>1, <1>3, <2>1, <2>2 DEF IInv, TypeOK
<1>6. CASE RefuseName
  <2>1. UNCHANGED definitions \/ Write("name", <<NextAtom.name>>)
    BY <1>6 DEF RefuseName
  <2>2. Untouched /\ outcome' \in Failures
    BY <1>6 DEF RefuseName, Fail, Failures
  <2> QED
    BY <1>1, <1>4, <2>1, <2>2 DEF IInv, TypeOK, Untouched
<1>7. CASE TakeName
  <2>1. Untouched /\ Write("name", <<NextAtom.name>>) /\ outcome' = outcome
    BY <1>7 DEF TakeName, Proceed
  <2> QED
    BY <1>1, <1>4, <2>1 DEF IInv, TypeOK
<1>8. CASE TakeParameter
  <2>1. /\ Untouched /\ Write("parameters", Append(This.parameters, NextAtom.name))
        /\ outcome' = outcome
    BY <1>8 DEF TakeParameter
  <2> QED
    BY <1>1, <1>4, <2>1 DEF IInv, TypeOK
<1>9. CASE TakeSnapshot
  <2>1. Untouched /\ Write("body_snapshot", cursor) /\ outcome' = outcome
    BY <1>9 DEF TakeSnapshot, Proceed
  <2> QED
    BY <1>1, <1>4, <2>1 DEF IInv, TypeOK
<1> QED
  BY <1>5, <1>6, <1>7, <1>8, <1>9 DEF Steps, Step

\* What a call writes before it is complete changes no template.
LEMMA TemplatesKept ==
    ASSUME IInv, UNCHANGED <<definition_count, name_index, sources>>,
           \A d \in Defined : definitions'[d] = definitions[d]
    PROVE  Templates' = Templates
<1>1. \A name : Lookup(name)' = Lookup(name)
  BY LookupsKept DEF IInv
<1>2. ASSUME NEW name \in StorableNames, Lookup(name) # {}
      PROVE  LET i == CHOOSE i \in Lookup(name) : TRUE IN i \in Defined
  <2>1. PICK d \in Defined : NameOf(d) = name
    BY <1>2, LookupMisses DEF IInv
  <2>2. Lookup(name) = {d}
    BY <2>1, LookupFinds DEF IInv, TypeOK
  <2> QED
    BY <2>2
<1> DEFINE Seen == {n \in StorableNames : Lookup(n) # {}}
           The(name) == CHOOSE i \in Lookup(name) : TRUE
           Value(d) == [parameters |-> definitions[d].parameters,
                        body |-> SubSeq(sources[d], definitions[d].body_snapshot, Len(sources[d]) - 1)]
           Written(d) == [parameters |-> definitions'[d].parameters,
                          body |-> SubSeq(sources[d], definitions'[d].body_snapshot,
                                          Len(sources[d]) - 1)]
<1>3. Templates = [name \in Seen |-> Value(The(name))]
  BY DEF Templates, BodyOf
<1>4. Templates' = [name \in Seen |-> Written(The(name))]
  BY <1>1 DEF Templates, BodyOf
<1>5. \A d \in Defined : Value(d) = Written(d)
  OBVIOUS
<1>6. \A name \in Seen : The(name) \in Defined
  BY <1>2
<1> HIDE DEF Seen, The, Value, Written
<1> QED
  BY <1>3, <1>4, <1>5, <1>6

\* What has been read of a text that only grows begins with what had been.
LEMMA PrefixRead ==
    ASSUME NEW s \in Seq(Atom), NEW t \in Seq(Atom), NEW c \in Nat \ {0}, NEW d \in Nat \ {0},
           c <= d, c <= Len(s) + 1, d <= Len(t) + 1, \A i \in 1..Len(s) : t[i] = s[i]
    PROVE  /\ SubSeq(t, 1, d - 1) \in Seq(Atom)
           /\ Len(SubSeq(s, 1, c - 1)) <= Len(SubSeq(t, 1, d - 1))
           /\ SubSeq(s, 1, c - 1) = SubSeq(SubSeq(t, 1, d - 1), 1, Len(SubSeq(s, 1, c - 1)))
<1> DEFINE before == SubSeq(s, 1, c - 1)
           now == SubSeq(t, 1, d - 1)
           again == SubSeq(now, 1, c - 1)
<1>1. Len(s) \in Nat /\ Len(t) \in Nat /\ 1 \in Nat \ {0} /\ 1 <= c /\ 1 <= d
  BY LenProperties
<1>2. /\ before \in Seq(Atom) /\ Len(before) = c - 1
      /\ \A i \in 1..(c - 1) : before[i] = s[1 + i - 1]
  BY <1>1, SliceIs
<1>3. /\ now \in Seq(Atom) /\ Len(now) = d - 1
      /\ \A i \in 1..(d - 1) : now[i] = t[1 + i - 1]
  BY <1>1, SliceIs
<1> HIDE DEF before, now
<1>4. c <= Len(now) + 1
  BY <1>3
<1>5. /\ again \in Seq(Atom) /\ Len(again) = c - 1
      /\ \A i \in 1..(c - 1) : again[i] = now[1 + i - 1]
  BY <1>1, <1>3, <1>4, SliceIs
<1> HIDE DEF again
<1>6. \A i \in 1..(c - 1) : again[i] = before[i]
  <2> SUFFICES ASSUME NEW i \in 1..(c - 1) PROVE again[i] = before[i]
    OBVIOUS
  <2>1. i \in 1..(d - 1) /\ i \in 1..Len(s) /\ 1 + i - 1 = i
    BY <1>1
  <2> QED
    BY <1>2, <1>3, <1>5, <2>1
<1>7. before = again
  <2> HIDE DEF Atom
  <2> QED
    BY <1>2, <1>5, <1>6, SeqEqual
<1>8. Len(before) <= Len(now)
  BY <1>2, <1>3
<1> QED
  BY <1>2, <1>3, <1>7, <1>8 DEF before, now, again

\* A call reads on, within the text and never back.
LEMMA ReadsOn ==
    ASSUME IInv, IInv', Step
    PROVE  /\ outcome = "PENDING" /\ Promise!ReadOn
           /\ cursor <= cursor' /\ \A i \in 1..Len(text) : text'[i] = text[i]
<1>1. control # "idle"
  BY DEF Step, ReadText, ExpectAtom, RefuseName, TakeName, RefuseParameter, TakeParameter,
         TakeSnapshot, RefuseBody, BeginBody, SkipArgument, RefuseArguments, RefuseClose, Complete,
         AtParameter, Reading
<1>2. /\ cursor \in Nat \ {0} /\ text \in Seq(Atom) /\ cursor <= Len(text) + 1
      /\ cursor' \in Nat \ {0} /\ text' \in Seq(Atom) /\ cursor' <= Len(text') + 1
  BY DEF IInv, TypeOK, TextTypeOK, WithinSource
<1>3. PICK t, d : t = text' /\ d = cursor'
  OBVIOUS
<1>4. \A n \in Nat : n <= n
  OBVIOUS
<1>5. cursor <= d /\ \A i \in 1..Len(text) : t[i] = text[i]
  <2>1. CASE ReadText
    <3>1. Settle(Lookaheads) /\ TextTypeOK
      BY <2>1 DEF ReadText, IInv, TypeOK
    <3>2. d = cursor /\ \A i \in 1..Len(text) : t[i] = text[i]
      BY <1>3, <3>1, TextGrows
    <3> QED
      BY <1>2, <1>4, <3>2
  <2>2. CASE RefuseParameter \/ TakeSnapshot
    <3>1. d = cursor /\ t = text
      BY <1>3, <2>2 DEF RefuseParameter, TakeSnapshot, text_vars
    <3> QED
      BY <1>2, <1>4, <3>1
  <2>3. CASE Advance(1) \/ Advance(2)
    <3>1. PICK n \in {0, 1, 2} : cursor' = cursor + n /\ text' = text
      <4>1. \E n \in {1, 2} : Advance(n)
        BY <2>3
      <4>2. cursor + 0 = cursor
        BY <1>2
      <4> QED
        BY <4>1, <4>2 DEF Advance
    <3>2. d = cursor + n /\ t = text /\ cursor <= cursor + n
      BY <1>2, <1>3, <3>1
    <3> QED
      BY <1>2, <1>4, <3>2
  <2>4. \/ ReadText \/ RefuseParameter \/ TakeSnapshot \/ Advance(1) \/ Advance(2)
    BY DEF Step, ExpectAtom, RefuseName, TakeName, TakeParameter,
           RefuseBody, BeginBody, SkipArgument, RefuseArguments, RefuseClose, Complete
  <2> QED
    BY <2>1, <2>2, <2>3, <2>4
<1>6. /\ Consumed = SubSeq(text, 1, cursor - 1)
      /\ Consumed' = SubSeq(t, 1, d - 1)
  BY <1>3 DEF Consumed
<1>7. /\ Consumed' \in Seq(Atom) /\ Len(Consumed) <= Len(Consumed')
      /\ Consumed = SubSeq(Consumed', 1, Len(Consumed))
  <2>1. d \in Nat \ {0} /\ t \in Seq(Atom) /\ d <= Len(t) + 1
    BY <1>2, <1>3
  <2> QED
    BY <1>2, <1>5, <1>6, <2>1, PrefixRead
<1>8. outcome = "PENDING"
  BY <1>1 DEF IInv, TypeOK
<1> QED
  BY <1>3, <1>5, <1>7, <1>8 DEF Promise!ReadOn

\* What a complete declaration makes the name stand for is what its atoms say.
LEMMA CompleteDeclares ==
    ASSUME IInv, IInv', Complete
    PROVE  Promise!Declare
<1> DEFINE count == Len(This.parameters)
           name == NameOf(definition_count)
           atoms == SubSeq(text, 1, cursor)
<1>1. /\ control = "close" /\ Advance(1) /\ Reads("CLOSE_PARENTHESIS")
      /\ definition_count' = definition_count + 1
      /\ sources' = [i \in 0..definition_count |->
                        IF i = definition_count THEN atoms ELSE sources[i]]
      /\ control' = "idle" /\ outcome' = "OK" /\ definitions' = definitions
  BY DEF Complete, Reading
<1>2. /\ definition_count \in 0..(Capacity - 1) /\ definition_count \notin Defined
      /\ Capacity \in Nat /\ This \in Definition
      /\ This.parameters \in Seq(StorableNames) /\ count \in Nat
      /\ BodyStart \in Nat /\ 4 <= BodyStart /\ BodyStart = 4 + 2 * count
  BY <1>1, ThisIs, SegmentAssumption DEF IInv, Capacity, BodyStart
<1>3. /\ cursor \in 1..Len(text) /\ NextAtom = text[cursor] /\ Len(text) \in Nat
      /\ text \in Seq(Atom) /\ text' = text /\ cursor' = cursor + 1
  BY <1>1, ReadingOn, AtomRead DEF IInv, TypeOK, TextTypeOK, Reads
<1>4. BodyStart < cursor
  BY <1>1, Positions
<1>5. Promise!ReadOn /\ Consumed' = atoms
  <2>1. Promise!ReadOn
    BY ReadsOn DEF Step
  <2>2. Consumed' = SubSeq(text, 1, (cursor + 1) - 1) /\ (cursor + 1) - 1 = cursor
    BY <1>3 DEF Consumed
  <2> QED
    BY <2>1, <2>2
<1>6. /\ atoms \in Seq(Atom) /\ Len(atoms) = cursor
      /\ \A i \in 1..cursor : atoms[i] = text[i]
  <2>1. /\ 1 \in Nat \ {0} /\ 1 <= cursor + 1 /\ cursor + 1 <= Len(text) + 1
        /\ cursor + 1 \in Nat /\ (cursor + 1) - 1 = cursor
    BY <1>3
  <2>2. /\ SubSeq(text, 1, (cursor + 1) - 1) \in Seq(Atom)
        /\ Len(SubSeq(text, 1, (cursor + 1) - 1)) = (cursor + 1) - 1
        /\ \A i \in 1..((cursor + 1) - 1) : SubSeq(text, 1, (cursor + 1) - 1)[i] = text[1 + i - 1]
    BY <1>3, <2>1, SliceIs
  <2> QED
    BY <1>3, <2>1, <2>2
<1>7. Promise!BodyOf(atoms, count) = Taken
  <2>1. Promise!BodyOf(atoms, count) = SubSeq(atoms, BodyStart, cursor - 1)
    BY <1>2, <1>6 DEF Promise!BodyOf
  <2>2. BodyStart \in Nat \ {0} /\ BodyStart <= cursor /\ cursor <= Len(text) + 1
        /\ cursor <= Len(atoms) + 1 /\ cursor \in Nat
    BY <1>2, <1>3, <1>4, <1>6
  <2>3. /\ Taken \in Seq(Atom) /\ Len(Taken) = cursor - BodyStart
        /\ \A i \in 1..(cursor - BodyStart) : Taken[i] = text[BodyStart + i - 1]
    BY <1>3, <2>2, SliceIs DEF Taken
  <2> HIDE DEF atoms
  <2>4. /\ SubSeq(atoms, BodyStart, cursor - 1) \in Seq(Atom)
        /\ Len(SubSeq(atoms, BodyStart, cursor - 1)) = cursor - BodyStart
        /\ \A i \in 1..(cursor - BodyStart) :
              SubSeq(atoms, BodyStart, cursor - 1)[i] = atoms[BodyStart + i - 1]
    BY <1>6, <2>2, SliceIs
  <2>5. \A i \in 1..(cursor - BodyStart) : atoms[BodyStart + i - 1] = text[BodyStart + i - 1]
    <3> SUFFICES ASSUME NEW i \in 1..(cursor - BodyStart)
                 PROVE  atoms[BodyStart + i - 1] = text[BodyStart + i - 1]
      OBVIOUS
    <3>1. BodyStart + i - 1 \in 1..cursor
      BY <1>3, <2>2
    <3> QED
      BY <1>6, <3>1
  <2> HIDE DEF Atom
  <2> QED
    BY <2>1, <2>3, <2>4, <2>5, SeqEqual
<1> HIDE DEF atoms, count, name
<1>8. Promise!IsBody(Taken)
  <2>1. CASE Promise!IsApplication(Taken)
    BY <2>1 DEF Promise!IsBody
  <2>2. CASE /\ cursor = BodyStart + 1
             /\ Kind(BodyStart) \notin {"END_OF_SOURCE", "UNRECOGNISED"}
    <3>1. /\ BodyStart \in Nat \ {0} /\ BodyStart <= BodyStart + 1 /\ BodyStart + 1 <= Len(text) + 1
          /\ BodyStart + 1 \in Nat /\ (BodyStart + 1) - BodyStart = 1
      BY <1>2, <1>3, <2>2
    <3>2. /\ Len(Taken) = (BodyStart + 1) - BodyStart
          /\ \A i \in 1..((BodyStart + 1) - BodyStart) : Taken[i] = text[BodyStart + i - 1]
      BY <1>3, <2>2, <3>1, SliceIs DEF Taken
    <3>3. Len(Taken) = 1 /\ Taken[1] = text[BodyStart]
      BY <3>1, <3>2
    <3> QED
      BY <2>2, <3>3 DEF Promise!IsBody, Promise!Is, Kind
  <2> QED
    BY <1>1, <2>1, <2>2 DEF IInv, Skimmed
<1>9. /\ Kind(1) = "OPEN_PARENTHESIS" /\ Kind(2) = "IDENTIFIER" /\ text[2].name = name
      /\ name \in StorableNames \ VerbNames /\ \A d \in Defined : NameOf(d) # name
      /\ Kind(3) = "ARGUMENT_SEPARATOR"
  BY <1>1 DEF IInv, Introduced, Collected, AfterName, AfterParameters, name
<1>10. /\ count <= LLFPL_TEMPLATE_PARAMETER_CAPACITY /\ ParametersRead
       /\ This.body_snapshot = BodyStart
  BY <1>1 DEF IInv, Collected, AfterParameters, count
<1>11. atoms[1] = text[1] /\ atoms[2] = text[2] /\ atoms[3] = text[3] /\ atoms[cursor] = text[cursor]
  BY <1>2, <1>3, <1>4, <1>6
<1>12. ASSUME NEW i \in 1..count
       PROVE  atoms[2 * i + 2] = text[2 * i + 2] /\ atoms[2 * i + 3] = text[2 * i + 3]
  <2>1. 2 * i + 2 \in 1..cursor /\ 2 * i + 3 \in 1..cursor
    BY <1>2, <1>3, <1>4
  <2> QED
    BY <1>6, <2>1
<1>13. Promise!Declared = {NameOf(d) : d \in Defined}
  BY TemplatesAre DEF TemplatesSeen, Promise!Declared
<1>14. Promise!Declares(atoms, count)
  <2>1. Len(atoms) > 4 + 2 * count /\ atoms[Len(atoms)] = text[cursor]
    BY <1>2, <1>3, <1>4, <1>6, <1>11
  <2>2. name \in (StorableNames \ VerbNames) \ Promise!Declared
    BY <1>9, <1>13
  <2>3. \A i \in 1..count :
           /\ atoms[2 * i + 2].kind = "IDENTIFIER"
           /\ atoms[2 * i + 2].name \in StorableNames \ VerbNames
           /\ atoms[2 * i + 3].kind = "ARGUMENT_SEPARATOR"
    BY <1>10, <1>12 DEF ParametersRead, Kind, count
  <2>4. text[cursor].kind = "CLOSE_PARENTHESIS"
    BY <1>1, <1>3 DEF Reads
  <2> QED
    BY <1>7, <1>8, <1>9, <1>11, <2>1, <2>2, <2>3, <2>4 DEF Promise!Declares, Promise!Is, Kind
<1>15. /\ DOMAIN Templates' = {NameOf(d) : d \in Defined} \cup {name}
       /\ \A d \in Defined : Templates'[NameOf(d)] = Templates[NameOf(d)]
       /\ Templates'[name] = [parameters |-> This.parameters, body |-> Taken]
  <2>1. TemplatesSeen /\ TemplatesSeen'
    BY TemplatesAre, PTL
  <2>2. Defined' = Defined \cup {definition_count}
    BY <1>1, <1>2 DEF Defined
  <2>3. (\A d : NameOf(d)' = NameOf(d)) /\ \A d \in Defined : sources'[d] = sources[d]
    <3>1. \A d \in Defined : d \in 0..definition_count /\ d # definition_count
      BY <1>2 DEF Defined
    <3> QED
      BY <1>1, <3>1 DEF NameOf
  <2>4. \A d \in Defined : BodyOf(d)' = BodyOf(d)
    BY <1>1, <2>3 DEF BodyOf
  <2>5. BodyOf(definition_count)
          = SubSeq(sources[definition_count], This.body_snapshot, Len(sources[definition_count]) - 1)
    BY DEF BodyOf, This
  <2>6. PICK n : n = definition_count
    OBVIOUS
  <2>7. BodyOf(n)' = Taken
    <3>1. sources'[n] = atoms
      BY <1>1, <1>2, <2>6
    <3>2. BodyOf(n)' = SubSeq(atoms, BodyStart, cursor - 1)
      BY <1>1, <1>6, <1>10, <2>6, <3>1 DEF BodyOf, This
    <3> QED
      BY <1>2, <1>6, <1>7, <3>2 DEF Promise!BodyOf
  <2>8. \A d \in Defined' : Templates'[NameOf(d)']
                               = [parameters |-> definitions'[d].parameters, body |-> BodyOf(d)']
    BY <2>1 DEF TemplatesSeen
  <2>9. Templates'[name] = [parameters |-> This.parameters, body |-> Taken]
    <3>1. n \in Defined' /\ NameOf(n)' = name /\ definitions'[n].parameters = This.parameters
      BY <1>1, <2>2, <2>3, <2>6 DEF name, This
    <3> QED
      BY <2>7, <2>8, <3>1
  <2>10. \A d \in Defined : Templates'[NameOf(d)] = Templates[NameOf(d)]
    <3> SUFFICES ASSUME NEW d \in Defined PROVE Templates'[NameOf(d)] = Templates[NameOf(d)]
      OBVIOUS
    <3>1. d \in Defined' /\ NameOf(d)' = NameOf(d) /\ definitions'[d] = definitions[d]
      BY <1>1, <2>2, <2>3
    <3>2. Templates'[NameOf(d)'] = [parameters |-> definitions'[d].parameters, body |-> BodyOf(d)']
      BY <2>8, <3>1
    <3>3. Templates[NameOf(d)] = [parameters |-> definitions[d].parameters, body |-> BodyOf(d)]
      BY <2>1 DEF TemplatesSeen
    <3>4. BodyOf(d)' = BodyOf(d)
      BY <2>4
    <3> QED
      BY <3>1, <3>2, <3>3, <3>4
  <2>11. DOMAIN Templates' = {NameOf(d)' : d \in Defined'}
    BY <2>1 DEF TemplatesSeen
  <2>12. DOMAIN Templates' = {NameOf(d) : d \in Defined} \cup {name}
    BY <2>2, <2>3, <2>11 DEF name
  <2> QED
    BY <2>9, <2>10, <2>12
<1>16. This.parameters = [i \in 1..count |-> atoms[2 * i + 2].name]
  <2>1. \A i \in 1..count : This.parameters[i] = atoms[2 * i + 2].name
    BY <1>10, <1>12 DEF ParametersRead, count
  <2>2. This.parameters = [i \in 1..count |-> This.parameters[i]]
    BY <1>2, LenProperties DEF count
  <2> QED
    BY <2>1, <2>2
<1> DEFINE Value(n) == IF n \in Promise!Declared THEN Templates[n]
                       ELSE [parameters |-> [i \in 1..count |-> atoms[2 * i + 2].name],
                             body |-> Promise!BodyOf(atoms, count)]
<1>17. Templates' = [n \in Promise!Declared \cup {atoms[2].name} |-> Value(n)]
  <2>1. atoms[2].name = name
    BY <1>9, <1>11
  <2>2. ASSUME NEW n \in Promise!Declared \cup {name} PROVE Templates'[n] = Value(n)
    <3>1. CASE n \in Promise!Declared
      <4>1. PICK d \in Defined : n = NameOf(d)
        BY <1>13, <3>1
      <4>2. Templates'[n] = Templates[n]
        BY <1>15, <4>1
      <4>3. Value(n) = Templates[n]
        BY <3>1
      <4> QED
        BY <4>2, <4>3
    <3>2. CASE n \notin Promise!Declared
      <4>1. n = name
        BY <2>2, <3>2
      <4>2. Templates'[n] = [parameters |-> This.parameters, body |-> Taken]
        BY <1>15, <4>1
      <4>3. Value(n) = [parameters |-> [i \in 1..count |-> atoms[2 * i + 2].name],
                        body |-> Promise!BodyOf(atoms, count)]
        BY <3>2
      <4> HIDE DEF Value, count
      <4> QED
        BY <1>7, <1>16, <4>2, <4>3
    <3> QED
      BY <3>1, <3>2
  <2>3. DOMAIN Templates' = Promise!Declared \cup {name}
    BY <1>13, <1>15
  <2>4. Templates' = [n \in DOMAIN Templates' |-> Templates'[n]]
    BY DEF Templates
  <2> HIDE DEF Value
  <2> QED
    BY <2>1, <2>2, <2>3, <2>4
<1>18. count \in 0..LLFPL_TEMPLATE_PARAMETER_CAPACITY
  BY <1>2, <1>10, SegmentAssumption
<1> QED
  BY <1>1, <1>5, <1>14, <1>17, <1>18 DEF Promise!Declare


\* The declarations begin with none.
LEMMA InitDeclares == Init => Promise!Init
<1> SUFFICES ASSUME Init PROVE Promise!Init
  OBVIOUS
<1>1. IInv /\ Defined = {}
  BY InitInv DEF Init, Defined
<1>2. DOMAIN Templates = {}
  BY <1>1, TemplatesAre DEF TemplatesSeen
<1>3. Templates = [name \in {} |-> 0]
  <2>1. Templates = [name \in DOMAIN Templates |-> Templates[name]]
    BY DEF Templates
  <2> HIDE DEF Templates
  <2> QED
    BY <1>2, <2>1
<1>4. Consumed = << >>
  BY DEF Init, Consumed
<1> QED
  BY <1>3, <1>4 DEF Init, Promise!Init

\* Every step of a call is one of the declarations, or none.
LEMMA StepImplements == IInv /\ IInv' /\ [Next]_vars => [Promise!Next]_(Promise!vars)
<1> SUFFICES ASSUME IInv, IInv', [Next]_vars PROVE [Promise!Next]_(Promise!vars)
  OBVIOUS
<1>1. CASE UNCHANGED vars
  <2>1. /\ UNCHANGED <<text, cursor, definitions, definition_count, name_index, sources, outcome>>
    BY <1>1 DEF vars, text_vars, segment_vars
  <2>2. Templates' = Templates
    BY <2>1, TemplatesKept
  <2> QED
    BY <2>1, <2>2 DEF Consumed, Promise!vars
<1>2. CASE Define
  <2>1. /\ control = "idle" /\ text' = << >> /\ cursor' = 1
        /\ UNCHANGED <<definition_count, name_index, sources>>
        /\ outcome' = IF SegmentFull THEN "CAPACITY_EXCEEDED" ELSE "PENDING"
        /\ definitions' = definitions \/ (~SegmentFull /\ Cleared)
    BY <1>2 DEF Define, Untouched, Fail
  <2>2. outcome # "PENDING"
    BY <2>1 DEF IInv, TypeOK
  <2>3. Consumed' = << >>
    BY <2>1 DEF Consumed
  <2>4. definition_count \in 0..Capacity /\ Capacity \in Nat
    BY SegmentAssumption DEF IInv, TypeOK, Capacity
  <2>5. \A d \in Defined : definitions'[d] = definitions[d]
    <3>1. definition_count \notin Defined /\ Defined \subseteq 0..(Capacity - 1)
      BY <2>4 DEF Defined
    <3>2. DOMAIN definitions = 0..(Capacity - 1)
      BY DEF IInv, TypeOK
    <3> QED
      BY <2>1, <3>1, <3>2 DEF Cleared
  <2>6. Templates' = Templates
    BY <2>1, <2>5, TemplatesKept
  <2>7. Cardinality(Promise!Declared) = definition_count
    BY TemplateCount DEF Promise!Declared
  <2>8. SegmentFull <=> ~(Cardinality(Promise!Declared) < LLFPL_TEMPLATE_SEGMENT_CAPACITY)
    BY <2>4, <2>7 DEF SegmentFull, Capacity
  <2>9. Promise!Call
    BY <2>1, <2>2, <2>3, <2>6, <2>8 DEF Promise!Call, Promise!Cardinality, Cardinality
  <2> QED
    BY <2>9 DEF Promise!Next
<1>3. CASE Complete
  BY <1>3, CompleteDeclares DEF Promise!Next
<1>4. CASE Steps
  <2>1. Promise!ReadOn
    BY <1>4, ReadsOn DEF Steps
  <2>2. /\ outcome' \in {outcome} \cup Failures
        /\ UNCHANGED <<definition_count, name_index, sources>>
        /\ \A d \in Defined : definitions'[d] = definitions[d]
    BY <1>4, SegmentKept
  <2>3. Templates' = Templates
    BY <2>2, TemplatesKept
  <2>4. CASE outcome' = outcome
    BY <2>1, <2>3, <2>4 DEF Promise!Read, Promise!Next
  <2>5. CASE outcome' \in Failures
    BY <2>1, <2>3, <2>5 DEF Promise!Refuse, Promise!Next, Failures
  <2> QED
    BY <2>2, <2>4, <2>5
<1> QED
  BY <1>1, <1>2, <1>3, <1>4 DEF Next, Steps

\* The segment, seen through its lookup, implements the declarations.
THEOREM ImplementsDeclarations == Spec => Implements
BY InitDeclares, StepImplements, InvariantHolds, PTL DEF Spec, Implements, Promise!Spec


-----------------------------------------------------------------------------
(* No declaration that is legal is refused. *)

\* The atoms begin with those that were looked at.
Begin(atoms) ==
    /\ atoms \in Seq(Atom) /\ Len(text) <= Len(atoms)
    /\ \A i \in 1..Len(text) : atoms[i] = text[i]

LEMMA CompletionsBegin ==
    ASSUME TextTypeOK, NEW completion \in Completions
    PROVE  Begin(text \o completion)
<1>1. ASSUME NEW name \in Names, NEW value \in Literals, NEW n \in 1..6
      PROVE  SubSeq(ShortestDeclaration(name, value), n, 5) \in Seq(Atom)
  <2>1. /\ ShortestDeclaration(name, value) \in Seq(Atom)
        /\ Len(ShortestDeclaration(name, value)) = 5
    <3>1. /\ [kind |-> "OPEN_PARENTHESIS"] \in Atom
          /\ [kind |-> "IDENTIFIER", name |-> name] \in Atom
          /\ [kind |-> "ARGUMENT_SEPARATOR"] \in Atom
          /\ [kind |-> "NUMERIC_LITERAL", value |-> value] \in Atom
          /\ [kind |-> "CLOSE_PARENTHESIS"] \in Atom
      BY DEF Atom
    <3> HIDE DEF Atom
    <3> QED
      BY <3>1 DEF ShortestDeclaration
  <2>2. n \in Nat \ {0} /\ 6 \in Nat /\ n <= 6 /\ 6 <= 5 + 1 /\ 6 - 1 = 5
    OBVIOUS
  <2>3. SubSeq(ShortestDeclaration(name, value), n, 6 - 1) \in Seq(Atom)
    BY <2>1, <2>2, SliceIs
  <2> QED
    BY <2>2, <2>3
<1>2. ASSUME NEW n \in 1..(open_parenthesis_depth + 2)
      PROVE  [i \in 1..n |-> [kind |-> "CLOSE_PARENTHESIS"]] \in Seq(Atom)
  <2>1. n \in Nat \/ 1..n = {}
    OBVIOUS
  <2>2. [kind |-> "CLOSE_PARENTHESIS"] \in Atom
    BY DEF Atom
  <2> HIDE DEF Atom
  <2>3. [i \in 1..n |-> [kind |-> "CLOSE_PARENTHESIS"]] \in [1..n -> Atom]
    BY <2>2
  <2> QED
    BY <2>1, <2>3
<1>3. completion \in Seq(Atom)
  <2>1. \/ \E name \in Names, value \in Literals, n \in 1..6 :
             completion = SubSeq(ShortestDeclaration(name, value), n, 5)
        \/ \E n \in 1..(open_parenthesis_depth + 2) :
             completion = [i \in 1..n |-> [kind |-> "CLOSE_PARENTHESIS"]]
    BY DEF Completions
  <2> QED
    BY <1>1, <1>2, <2>1
<1>4. text \in Seq(Atom)
  BY DEF TextTypeOK
<1> HIDE DEF Atom
<1>5. text \o completion \in Seq(Atom) /\ Len(text) \in Nat /\ Len(completion) \in Nat
      /\ Len(text \o completion) = Len(text) + Len(completion)
  BY <1>3, <1>4, ConcatProperties, LenProperties
<1>6. \A i \in 1..Len(text) : (text \o completion)[i] = text[i]
  BY <1>3, <1>4, ConcatProperties, LenProperties
<1> QED
  BY <1>5, <1>6 DEF Begin

\* The body of a declaration is what is between its parameters and its end.
LEMMA DeclaredBody ==
    ASSUME NEW atoms \in Seq(Atom), NEW count \in Nat, Promise!Declares(atoms, count),
           NEW start \in Nat, start = 4 + 2 * count
    PROVE  /\ Len(atoms) \in Nat /\ start < Len(atoms)
           /\ Len(Promise!BodyOf(atoms, count)) = Len(atoms) - start
           /\ \A i \in 1..(Len(atoms) - start) : Promise!BodyOf(atoms, count)[i] = atoms[start + i - 1]
           /\ atoms[Len(atoms)].kind = "CLOSE_PARENTHESIS"
           /\ \/ Len(atoms) = start + 1 /\ atoms[start].kind \notin {"END_OF_SOURCE", "UNRECOGNISED"}
              \/ /\ Promise!IsApplication(Promise!BodyOf(atoms, count)) /\ start + 2 < Len(atoms)
                 /\ atoms[start].kind = "IDENTIFIER" /\ atoms[start + 1].kind = "OPEN_PARENTHESIS"
<1> DEFINE body == Promise!BodyOf(atoms, count)
<1>1. Len(atoms) \in Nat /\ start < Len(atoms) /\ start \in Nat \ {0}
  BY LenProperties DEF Promise!Declares
<1>2. /\ Len(body) = Len(atoms) - start
      /\ \A i \in 1..(Len(atoms) - start) : body[i] = atoms[start + i - 1]
  <2>1. body = SubSeq(atoms, start, Len(atoms) - 1)
    BY DEF Promise!BodyOf
  <2>2. PICK n \in Nat : n = Len(atoms) /\ start <= n
    BY <1>1
  <2>3. n <= Len(atoms) + 1
    BY <2>2
  <2>4. /\ Len(SubSeq(atoms, start, n - 1)) = n - start
        /\ \A i \in 1..(n - start) : SubSeq(atoms, start, n - 1)[i] = atoms[start + i - 1]
    BY <1>1, <2>2, <2>3, SliceIs
  <2> HIDE DEF body
  <2> QED
    BY <2>1, <2>2, <2>4
<1> HIDE DEF body
<1>3. Promise!IsBody(body) /\ atoms[Len(atoms)].kind = "CLOSE_PARENTHESIS"
  BY DEF Promise!Declares, Promise!Is, body
<1>4. body[1] = atoms[start]
  BY <1>1, <1>2
<1>5. CASE Len(body) = 1 /\ body[1].kind \notin {"END_OF_SOURCE", "UNRECOGNISED"}
  <2>1. \A n \in Nat : n - start = 1 => n = start + 1
    OBVIOUS
  <2>2. Len(atoms) = start + 1
    BY <1>1, <1>2, <1>5, <2>1
  <2> QED
    BY <1>1, <1>2, <1>3, <1>4, <1>5, <2>2 DEF body
<1>6. CASE Promise!IsApplication(body)
  <2>1. Len(body) >= 3 /\ body[1].kind = "IDENTIFIER" /\ body[2].kind = "OPEN_PARENTHESIS"
    BY <1>6 DEF Promise!IsApplication, Promise!Is
  <2>2. start + 2 < Len(atoms) /\ 2 \in 1..(Len(atoms) - start) /\ start + 2 - 1 = start + 1
    BY <1>1, <1>2, <2>1
  <2>3. body[2] = atoms[start + 1]
    BY <1>2, <2>2
  <2> QED
    BY <1>1, <1>2, <1>3, <1>4, <1>6, <2>1, <2>2, <2>3 DEF body
<1> QED
  BY <1>3, <1>5, <1>6 DEF Promise!IsBody, Promise!Is

\* What DeclaredBody says of a declaration, the positions counted from the
\* start of its body.
BodyFrom(start, atoms, body) ==
    /\ Len(atoms) \in Nat /\ start < Len(atoms)
    /\ Len(body) = Len(atoms) - start
    /\ \A i \in 1..(Len(atoms) - start) : body[i] = atoms[start + i - 1]
    /\ atoms[Len(atoms)].kind = "CLOSE_PARENTHESIS"
    /\ \/ Len(atoms) = start + 1 /\ atoms[start].kind \notin {"END_OF_SOURCE", "UNRECOGNISED"}
       \/ /\ Promise!IsApplication(body)
          /\ atoms[start].kind = "IDENTIFIER" /\ atoms[start + 1].kind = "OPEN_PARENTHESIS"

LEMMA BodyIsFrom ==
    ASSUME NEW atoms \in Seq(Atom), NEW count \in Nat, Promise!Declares(atoms, count),
           NEW start \in Nat, start = 4 + 2 * count
    PROVE  BodyFrom(start, atoms, Promise!BodyOf(atoms, count))
<1> HIDE DEF Atom
<1>1. /\ Len(atoms) \in Nat /\ start < Len(atoms)
      /\ Len(Promise!BodyOf(atoms, count)) = Len(atoms) - start
      /\ \A i \in 1..(Len(atoms) - start) : Promise!BodyOf(atoms, count)[i] = atoms[start + i - 1]
      /\ atoms[Len(atoms)].kind = "CLOSE_PARENTHESIS"
      /\ \/ Len(atoms) = start + 1 /\ atoms[start].kind \notin {"END_OF_SOURCE", "UNRECOGNISED"}
         \/ /\ Promise!IsApplication(Promise!BodyOf(atoms, count)) /\ start + 2 < Len(atoms)
            /\ atoms[start].kind = "IDENTIFIER" /\ atoms[start + 1].kind = "OPEN_PARENTHESIS"
  BY DeclaredBody
<1> QED
  BY <1>1 DEF BodyFrom

\* A name that a separator follows is a parameter: it is no body, and does not
\* begin one.
LEMMA ParametersAreCounted ==
    ASSUME NEW atoms \in Seq(Atom), NEW count \in Nat, Promise!Declares(atoms, count),
           NEW m \in Nat
    PROVE  /\ (\A i \in 1..m : atoms[2 * i + 3].kind = "ARGUMENT_SEPARATOR") => m <= count
           /\ (\/ atoms[4 + 2 * m].kind # "IDENTIFIER"
               \/ atoms[4 + 2 * m + 1].kind # "ARGUMENT_SEPARATOR") => count <= m
<1>1. ASSUME \A i \in 1..m : atoms[2 * i + 3].kind = "ARGUMENT_SEPARATOR", count < m
      PROVE  FALSE
  <2>1. PICK start \in Nat : start = 4 + 2 * count
    OBVIOUS
  <2>2. PICK i \in 1..m : 2 * i + 3 = start + 1
    <3>1. count + 1 \in 1..m /\ 2 * (count + 1) + 3 = start + 1
      BY <1>1, <2>1
    <3> QED
      BY <3>1
  <2>3. atoms[start + 1].kind = "ARGUMENT_SEPARATOR"
    BY <1>1, <2>2
  <2>4. \/ atoms[start + 1].kind = "CLOSE_PARENTHESIS"
        \/ atoms[start + 1].kind = "OPEN_PARENTHESIS"
    BY <2>1, DeclaredBody
  <2> QED
    BY <2>3, <2>4
<1>2. ASSUME m < count
      PROVE  /\ atoms[4 + 2 * m].kind = "IDENTIFIER"
             /\ atoms[4 + 2 * m + 1].kind = "ARGUMENT_SEPARATOR"
  <2>1. m + 1 \in 1..count /\ 2 * (m + 1) + 2 = 4 + 2 * m /\ 2 * (m + 1) + 3 = 4 + 2 * m + 1
    BY <1>2
  <2>2. /\ atoms[2 * (m + 1) + 2].kind = "IDENTIFIER"
        /\ atoms[2 * (m + 1) + 3].kind = "ARGUMENT_SEPARATOR"
    BY <2>1 DEF Promise!Declares, Promise!Is
  <2> QED
    BY <2>1, <2>2
<1> QED
  BY <1>1, <1>2


\* In the body of a declaration the parameters are the ones that were taken.
LEMMA ParametersAreTaken ==
    ASSUME IInv, control \in {"parameters"} \cup AfterParameters,
           NEW atoms, Begin(atoms), NEW count \in Nat, Promise!Declares(atoms, count)
    PROVE  /\ Len(This.parameters) \in Nat /\ Len(This.parameters) <= count
           /\ control \in AfterParameters => count = Len(This.parameters)
<1> DEFINE m == Len(This.parameters)
<1>1. atoms \in Seq(Atom) /\ m \in Nat /\ BodyStart = 4 + 2 * m
  BY ThisIs DEF IInv, Begin, AfterParameters, BodyStart
<1>2. /\ cursor \in Nat /\ Len(text) \in Nat /\ cursor <= Len(text) + 1
      /\ BodyStart \in Nat /\ 4 <= BodyStart /\ BodyStart <= cursor
  BY Positions
<1>3. m <= count
  <2>1. ASSUME NEW i \in 1..m PROVE atoms[2 * i + 3].kind = "ARGUMENT_SEPARATOR"
    <3>1. PICK p \in 1..Len(text) : p = 2 * i + 3
      <4>1. 2 * i + 3 \in 1..Len(text)
        BY <1>1, <1>2
      <4> QED
        BY <4>1
    <3>2. text[p].kind = "ARGUMENT_SEPARATOR"
      BY <3>1 DEF IInv, Collected, ParametersRead, Kind
    <3> QED
      BY <3>1, <3>2 DEF Begin
  <2> HIDE DEF m
  <2> QED
    BY <1>1, <2>1, ParametersAreCounted
<1>4. ASSUME control \in AfterParameters PROVE count <= m
  <2>1. /\ BodyStart <= Len(text)
        /\ Kind(BodyStart) = "IDENTIFIER" =>
              BodyStart < Len(text) /\ Kind(BodyStart + 1) # "ARGUMENT_SEPARATOR"
    BY <1>4 DEF IInv, Collected
  <2>2. BodyStart \in 1..Len(text) /\ (BodyStart < Len(text) => BodyStart + 1 \in 1..Len(text))
    BY <1>2, <2>1
  <2>3. atoms[BodyStart].kind = "IDENTIFIER" => atoms[BodyStart + 1].kind # "ARGUMENT_SEPARATOR"
    BY <2>1, <2>2 DEF Begin, Kind
  <2> HIDE DEF m
  <2> QED
    BY <1>1, <2>3, ParametersAreCounted
<1>5. \A k \in Nat : k <= count /\ count <= k => count = k
  OBVIOUS
<1> QED
  BY <1>1, <1>3, <1>4, <1>5

\* The atom that is read next is that of the declaration.
LEMMA NextIs ==
    ASSUME IInv, NEW atoms, Begin(atoms), NEW count \in 1..2, Settled(count)
    PROVE  /\ cursor \in 1..Len(text) /\ NextAtom = atoms[cursor]
           /\ count = 2 /\ NextAtom.kind # "END_OF_SOURCE" =>
                 cursor + 1 \in 1..Len(text) /\ SecondAtom = atoms[cursor + 1]
<1>1. /\ cursor \in 1..Len(text) /\ NextAtom = text[cursor]
      /\ count = 2 /\ Kind(cursor) # "END_OF_SOURCE" =>
            cursor + 1 \in 1..Len(text) /\ SecondAtom = text[cursor + 1]
  BY LookedAt DEF IInv, TypeOK
<1> QED
  BY <1>1 DEF Begin, Kind

LEMMA ExpectedIsThere ==
    ASSUME IInv, ExpectAtom, outcome' \in Failures, outcome = "PENDING",
           NEW atoms, Begin(atoms), NEW count \in Nat, Promise!Declares(atoms, count)
    PROVE  FALSE
<1>1. /\ control \in {"open", "separator"} /\ Settled(1) /\ NextAtom.kind # Expects[control]
  BY DEF ExpectAtom, Proceed, Failures, Reads
<1>2. NextAtom = atoms[cursor]
  BY <1>1, NextIs
<1>3. atoms[1].kind = "OPEN_PARENTHESIS" /\ atoms[3].kind = "ARGUMENT_SEPARATOR"
  BY DEF Promise!Declares, Promise!Is
<1>4. (control = "open" => cursor = 1) /\ (control = "separator" => cursor = 3)
  BY DEF IInv, Introduced
<1> QED
  BY <1>1, <1>2, <1>3, <1>4 DEF Expects

LEMMA NameIsDeclarable ==
    ASSUME IInv, RefuseName,
           NEW atoms, Begin(atoms), NEW count \in Nat, Promise!Declares(atoms, count)
    PROVE  FALSE
<1>1. /\ control = "name" /\ Settled(1)
      /\ \/ ~Reads("IDENTIFIER") \/ NextAtom.name \in VerbNames
         \/ NextAtom.name \notin StorableNames \/ Lookup(NextAtom.name) # {}
  BY DEF RefuseName, Reading, Lookaheads, IsReserved
<1>2. NextAtom = atoms[2]
  BY <1>1, NextIs DEF IInv, Introduced
<1>3. /\ atoms[2].kind = "IDENTIFIER"
      /\ atoms[2].name \in (StorableNames \ VerbNames) \ DOMAIN Templates
  BY DEF Promise!Declares, Promise!Is, Promise!Declared
<1>4. \A n \in StorableNames : Lookup(n) # {} => n \in DOMAIN Templates
  BY DEF Templates
<1> QED
  BY <1>1, <1>2, <1>3, <1>4 DEF Reads

LEMMA ParameterIsDeclarable ==
    ASSUME IInv, RefuseParameter, NEW atoms, Begin(atoms),
           NEW count \in 0..LLFPL_TEMPLATE_PARAMETER_CAPACITY, Promise!Declares(atoms, count)
    PROVE  FALSE
<1> DEFINE m == Len(This.parameters)
<1>1. /\ control = "parameters" /\ Settled(2) /\ NextAtom.kind = "IDENTIFIER"
      /\ SecondAtom.kind = "ARGUMENT_SEPARATOR"
      /\ \/ m >= LLFPL_TEMPLATE_PARAMETER_CAPACITY
         \/ NextAtom.name \in VerbNames \/ NextAtom.name \notin StorableNames
  BY DEF RefuseParameter, AtParameter, Reading, Lookaheads, Reads, IsReserved, ParametersFull
<1>2. /\ cursor \in 1..Len(text) /\ NextAtom = atoms[cursor]
      /\ cursor + 1 \in 1..Len(text) /\ SecondAtom = atoms[cursor + 1]
  BY <1>1, NextIs
<1>3. count \in Nat /\ LLFPL_TEMPLATE_PARAMETER_CAPACITY \in Nat
      /\ count <= LLFPL_TEMPLATE_PARAMETER_CAPACITY
  BY SegmentAssumption
<1>4. m \in Nat /\ m <= count
  BY <1>1, <1>3, ParametersAreTaken
<1>5. cursor = 4 + 2 * m /\ atoms \in Seq(Atom)
  BY <1>1 DEF IInv, Collected, BodyStart, Begin
<1> HIDE DEF m
<1>6. m + 1 <= count
  <2>1. ASSUME NEW i \in 1..(m + 1) PROVE atoms[2 * i + 3].kind = "ARGUMENT_SEPARATOR"
    <3>1. CASE i = m + 1
      <4>1. 2 * i + 3 = cursor + 1
        BY <1>4, <1>5, <3>1
      <4> QED
        BY <1>1, <1>2, <4>1
    <3>2. CASE i \in 1..m
      <4>1. PICK p \in 1..Len(text) : p = 2 * i + 3
        <5>1. Len(text) \in Nat
          BY Positions
        <5>2. 2 * i + 3 \in 1..Len(text)
          BY <1>2, <1>4, <1>5, <3>2, <5>1
        <5> QED
          BY <5>2
      <4>2. text[p].kind = "ARGUMENT_SEPARATOR"
        BY <1>1, <3>2, <4>1 DEF IInv, Collected, ParametersRead, Kind, m
      <4> QED
        BY <4>1, <4>2 DEF Begin
    <3> QED
      BY <1>4, <3>1, <3>2
  <2>2. m + 1 \in Nat
    BY <1>4
  <2> QED
    BY <1>3, <1>5, <2>1, <2>2, ParametersAreCounted
<1>7. PICK i \in 1..count : i = m + 1
  <2>1. m + 1 \in 1..count
    BY <1>3, <1>4, <1>6
  <2> QED
    BY <2>1
<1>8. 2 * i + 2 = cursor /\ ~(m >= LLFPL_TEMPLATE_PARAMETER_CAPACITY)
  BY <1>3, <1>4, <1>5, <1>6, <1>7
<1>9. atoms[2 * i + 2].name \in StorableNames \ VerbNames
  BY <1>7 DEF Promise!Declares
<1> QED
  BY <1>1, <1>2, <1>8, <1>9

LEMMA BodyBegins ==
    ASSUME IInv, RefuseBody,
           NEW atoms, Begin(atoms), NEW count \in Nat, Promise!Declares(atoms, count)
    PROVE  FALSE
<1>1. /\ control = "body" /\ Settled(2)
      /\ NextAtom.kind = "END_OF_SOURCE" \/ NextAtom.kind = "UNRECOGNISED"
  BY DEF RefuseBody, Reading, Lookaheads, Reads
<1>2. NextAtom = atoms[cursor] /\ cursor = BodyStart /\ BodyStart \in Nat /\ atoms \in Seq(Atom)
  BY <1>1, NextIs, Positions DEF IInv, Collected, Begin, AfterParameters
<1>3. BodyStart = 4 + 2 * count
  BY <1>1, ParametersAreTaken DEF BodyStart, AfterParameters
<1>4. \/ atoms[BodyStart].kind \notin {"END_OF_SOURCE", "UNRECOGNISED"}
      \/ atoms[BodyStart].kind = "IDENTIFIER"
  <2> HIDE DEF Atom
  <2>1. BodyFrom(BodyStart, atoms, Promise!BodyOf(atoms, count))
    BY <1>2, <1>3, BodyIsFrom
  <2> QED
    BY <2>1 DEF BodyFrom
<1> QED
  BY <1>1, <1>2, <1>4


\* The arguments end before the source does.
LEMMA ArgumentsEnd ==
    ASSUME IInv, RefuseArguments,
           NEW atoms, Begin(atoms), NEW count \in Nat, Promise!Declares(atoms, count)
    PROVE  FALSE
<1> DEFINE body == Promise!BodyOf(atoms, count)
<1>1. control = "arguments" /\ Settled(1) /\ NextAtom.kind = "END_OF_SOURCE"
  BY DEF RefuseArguments, Reading, Lookaheads, Unterminated, Reads
<1>2. /\ cursor \in 1..Len(text) /\ NextAtom = atoms[cursor] /\ atoms \in Seq(Atom)
      /\ Len(text) \in Nat /\ Len(text) <= Len(atoms) /\ BodyStart \in Nat /\ BodyStart < cursor
  BY <1>1, NextIs, Positions DEF Begin, AfterParameters
<1>3. BodyStart = 4 + 2 * count
  BY <1>1, ParametersAreTaken DEF BodyStart, AfterParameters
<1>4. /\ Len(atoms) \in Nat /\ Len(body) = Len(atoms) - BodyStart
      /\ \A i \in 1..(Len(atoms) - BodyStart) : body[i] = atoms[BodyStart + i - 1]
      /\ atoms[Len(atoms)].kind = "CLOSE_PARENTHESIS"
      /\ \/ Len(atoms) = BodyStart + 1
         \/ Promise!IsApplication(body)
  <2> HIDE DEF Atom
  <2>1. BodyFrom(BodyStart, atoms, body)
    BY <1>2, <1>3, BodyIsFrom
  <2> HIDE DEF body
  <2> QED
    BY <2>1 DEF BodyFrom
<1> HIDE DEF body
<1>5. cursor # Len(atoms)
  BY <1>1, <1>2, <1>4
<1>6. cursor < Len(atoms)
  BY <1>2, <1>4, <1>5
<1>7. Promise!IsApplication(body)
  BY <1>2, <1>4, <1>6
<1>8. PICK i \in 2..Len(body) : body[i] = atoms[cursor]
  <2>1. /\ cursor - BodyStart + 1 \in 2..(Len(atoms) - BodyStart)
        /\ BodyStart + (cursor - BodyStart + 1) - 1 = cursor
    BY <1>2, <1>4, <1>6
  <2>2. PICK j \in 2..(Len(atoms) - BodyStart) : BodyStart + j - 1 = cursor
    BY <2>1
  <2> QED
    BY <1>4, <2>2
<1> QED
  BY <1>1, <1>2, <1>7, <1>8 DEF Promise!IsApplication, Promise!Is

\* Of two argument lists that begin alike, neither ends before the other.
LEMMA ApplicationsEndAlike ==
    ASSUME NEW s, NEW t, NEW m \in Nat, NEW n \in Nat, Len(s) = m, Len(t) = n,
           Promise!IsApplication(s), Promise!IsApplication(t), m < n,
           \A i \in 1..m : s[i] = t[i]
    PROVE  FALSE
<1>1. m \in 2..(n - 1)
  BY DEF Promise!IsApplication
<1>2. Promise!Depth(t, m) > 0 /\ Promise!Depth(s, m) = 0
  BY <1>1 DEF Promise!IsApplication
<1>3. Promise!Depth(s, m) = Promise!Depth(t, m)
  BY DepthOfPrefix
<1> QED
  BY <1>2, <1>3

\* The declaration ends where its body does.
LEMMA EndIsThere ==
    ASSUME IInv, RefuseClose,
           NEW atoms, Begin(atoms), NEW count \in Nat, Promise!Declares(atoms, count)
    PROVE  FALSE
<1> DEFINE body == Promise!BodyOf(atoms, count)
<1>1. control = "close" /\ Settled(1) /\ NextAtom.kind # "CLOSE_PARENTHESIS"
  BY DEF RefuseClose, Reading, Lookaheads, Reads
<1>2. /\ cursor \in 1..Len(text) /\ NextAtom = atoms[cursor] /\ atoms \in Seq(Atom)
      /\ Len(text) \in Nat /\ Len(text) <= Len(atoms) /\ text \in Seq(Atom)
      /\ BodyStart \in Nat /\ 4 <= BodyStart /\ BodyStart < cursor
      /\ \A i \in 1..Len(text) : atoms[i] = text[i]
  BY <1>1, NextIs, Positions DEF Begin, AfterParameters, IInv, TypeOK, TextTypeOK
<1>3. BodyStart = 4 + 2 * count
  BY <1>1, ParametersAreTaken DEF BodyStart, AfterParameters
<1>4. /\ Len(atoms) \in Nat /\ Len(body) = Len(atoms) - BodyStart /\ BodyStart < Len(atoms)
      /\ \A i \in 1..(Len(atoms) - BodyStart) : body[i] = atoms[BodyStart + i - 1]
      /\ atoms[Len(atoms)].kind = "CLOSE_PARENTHESIS"
      /\ \/ Len(atoms) = BodyStart + 1
         \/ /\ Promise!IsApplication(body)
            /\ atoms[BodyStart].kind = "IDENTIFIER" /\ atoms[BodyStart + 1].kind = "OPEN_PARENTHESIS"
  <2>1. atoms \in Seq(Atom) /\ BodyStart \in Nat
    BY <1>2
  <2> HIDE DEF Atom
  <2>2. BodyFrom(BodyStart, atoms, body)
    BY <1>3, <2>1, BodyIsFrom
  <2> HIDE DEF body
  <2> QED
    BY <2>2 DEF BodyFrom
<1>5. cursor # Len(atoms)
  BY <1>1, <1>2, <1>4
<1>6. /\ Len(Taken) = cursor - BodyStart
      /\ \A i \in 1..(cursor - BodyStart) : Taken[i] = text[BodyStart + i - 1]
  <2>1. BodyStart \in Nat \ {0} /\ BodyStart <= cursor /\ cursor <= Len(text) + 1 /\ cursor \in Nat
    BY <1>2
  <2> QED
    BY <1>2, <2>1, SliceIs DEF Taken
<1> HIDE DEF body
<1>7. text[BodyStart] = atoms[BodyStart] /\ text[BodyStart + 1] = atoms[BodyStart + 1]
  <2>1. BodyStart \in 1..Len(text) /\ BodyStart + 1 \in 1..Len(text)
    BY <1>2
  <2> QED
    BY <1>2, <2>1
<1>8. CASE /\ cursor = BodyStart + 1
           /\ Kind(BodyStart) = "IDENTIFIER" => Kind(BodyStart + 1) # "OPEN_PARENTHESIS"
  BY <1>4, <1>5, <1>7, <1>8 DEF Kind
<1>9. CASE Promise!IsApplication(Taken)
  <2>1. PICK m \in Nat, n \in Nat : m = cursor - BodyStart /\ n = Len(atoms) - BodyStart
    <3>1. cursor - BodyStart \in Nat /\ Len(atoms) - BodyStart \in Nat
      BY <1>2, <1>4
    <3> QED
      BY <3>1
  <2>2. ASSUME NEW i \in Nat \ {0}, i <= m, i <= n PROVE Taken[i] = body[i]
    <3>1. PICK p \in 1..Len(text) : p = BodyStart + i - 1
      <4>1. BodyStart + i - 1 \in 1..Len(text)
        BY <1>2, <2>1, <2>2
      <4> QED
        BY <4>1
    <3>2. i \in 1..(cursor - BodyStart) /\ i \in 1..(Len(atoms) - BodyStart)
      BY <2>1, <2>2
    <3> QED
      BY <1>2, <1>4, <1>6, <3>1, <3>2
  <2>3. m # n
    BY <1>2, <1>4, <1>5, <2>1
  <2>4. Taken[2].kind = "OPEN_PARENTHESIS" /\ m >= 3
    BY <1>6, <1>9, <2>1 DEF Promise!IsApplication, Promise!Is
  <2>5. Taken[2] = text[BodyStart + 1]
    <3>1. 2 \in 1..(cursor - BodyStart) /\ BodyStart + 2 - 1 = BodyStart + 1
      BY <1>2, <2>1, <2>4
    <3> QED
      BY <1>6, <3>1
  <2>6. Len(atoms) # BodyStart + 1
    BY <1>4, <1>7, <2>4, <2>5
  <2>7. Promise!IsApplication(body)
    BY <1>4, <2>6
  <2>8. CASE m < n
    <3>1. \A i \in 1..m : Taken[i] = body[i]
      BY <2>2, <2>8
    <3> QED
      BY <1>4, <1>6, <1>9, <2>1, <2>7, <2>8, <3>1, ApplicationsEndAlike
  <2>9. CASE n < m
    <3>1. \A i \in 1..n : body[i] = Taken[i]
      BY <2>2, <2>9
    <3> QED
      BY <1>4, <1>6, <1>9, <2>1, <2>7, <2>9, <3>1, ApplicationsEndAlike
  <2> QED
    BY <2>3, <2>8, <2>9
<1> QED
  BY <1>1, <1>8, <1>9 DEF IInv, Skimmed

\* A call that fails has read what no declaration begins with, whatever were to
\* follow it.
LEMMA RefusedIsIllegal ==
    ASSUME IInv, [Next]_vars, control # "idle", outcome' \in Failures,
           NEW atoms, Begin(atoms)
    PROVE  ~Promise!IsDeclaration(atoms)
<1> SUFFICES ASSUME NEW count \in 0..LLFPL_TEMPLATE_PARAMETER_CAPACITY,
                    Promise!Declares(atoms, count)
             PROVE  FALSE
  BY DEF Promise!IsDeclaration
<1>1. count \in Nat /\ outcome = "PENDING"
  BY SegmentAssumption DEF IInv, TypeOK
<1>2. outcome' # outcome /\ outcome' # "OK"
  BY <1>1 DEF Failures
<1>3. ~(UNCHANGED vars \/ Define \/ ReadText \/ TakeName \/ TakeParameter \/ TakeSnapshot
         \/ BeginBody \/ SkipArgument \/ Complete)
  BY <1>2 DEF vars, Define, ReadText, TakeName, TakeParameter, TakeSnapshot, BeginBody,
              SkipArgument, Complete, Proceed
<1>4. CASE ExpectAtom
  BY <1>1, <1>4, ExpectedIsThere
<1>5. CASE RefuseName
  BY <1>1, <1>5, NameIsDeclarable
<1>6. CASE RefuseParameter
  BY <1>6, ParameterIsDeclarable
<1>7. CASE RefuseBody
  BY <1>1, <1>7, BodyBegins
<1>8. CASE RefuseArguments
  BY <1>1, <1>8, ArgumentsEnd
<1>9. CASE RefuseClose
  BY <1>1, <1>9, EndIsThere
<1> QED
  BY <1>3, <1>4, <1>5, <1>6, <1>7, <1>8, <1>9 DEF Next, Step

\* No call fails while what it has read, its look-ahead included, is how a
\* declaration may begin.
THEOREM LegalIsNeverRefused == Spec => LegalNeverRefused
<1>1. ASSUME IInv, [Next]_vars, control # "idle", outcome' \in Failures,
             NEW completion \in Completions
      PROVE  ~Promise!IsDeclaration(text \o completion)
  BY <1>1, CompletionsBegin, RefusedIsIllegal DEF IInv, TypeOK
<1>2. IInv /\ [Next]_vars =>
         [control # "idle" /\ outcome' \in Failures
            => \A completion \in Completions : ~Promise!IsDeclaration(text \o completion)]_vars
  BY <1>1
<1> QED
  BY <1>2, InvariantHolds, PTL DEF Spec, LegalNeverRefused

=============================================================================
