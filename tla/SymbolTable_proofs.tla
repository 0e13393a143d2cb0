------------------------- MODULE SymbolTable_proofs -------------------------
(***************************************************************************)
(* Type correctness of the symbol table, completeness of its chains, and   *)
(* its refinement of IdentityBindings, for every set of names, every hash  *)
(* and every size of the two zones.                                        *)
(***************************************************************************)
EXTENDS SymbolTable, FiniteSetTheorems, TLAPS

-----------------------------------------------------------------------------
(* The inductive invariant. *)

\* The cursor stands above every record, and a slot not yet used ends a chain.
Fresh ==
    /\ \A s \in Occupied : s < next_cellar_candidate
    /\ \A s \in Slots \ Occupied : next_in_chain[s] = CHAIN_TERMINATOR

\* A name is in one record at most.
Distinct ==
    \A s, q \in Occupied : records[s].name = records[q].name => s = q

\* The first record is in a home, every later one in a home or a cellar slot.
Counted ==
    /\ IsFiniteSet(BoundNames)
    /\ occupied_record_count = Cardinality(BoundNames)
    /\ next_cellar_candidate - PrimarySlots <= occupied_record_count
    /\ Occupied # {} => next_cellar_candidate - PrimarySlots < occupied_record_count

\* The records of the chain below the one being examined have other names.
Passed ==
    \A q \in Occupied :
       q < chain_slot /\ HomeOf(q) = Home => records[q].name # request.name

Walking ==
    control \in {"walk", "claim"} =>
       /\ Storable /\ ~Full
       /\ chain_slot \in Occupied
       /\ HomeOf(chain_slot) = Home
       /\ Passed

Claiming ==
    control = "claim" =>
       /\ next_in_chain[chain_slot] = CHAIN_TERMINATOR
       /\ records[chain_slot].name # request.name

Probing ==
    control = "probe" =>
       /\ Storable
       /\ Passed
       /\ chain_slot \in Occupied => HomeOf(chain_slot) = Home
       /\ chain_slot \notin Occupied => request.name \notin BoundNames

IInv ==
    /\ TypeOK /\ ChainsComplete
    /\ Fresh /\ Distinct /\ Counted
    /\ Walking /\ Claiming /\ Probing

-----------------------------------------------------------------------------
(* Facts about the operators. *)

\* What occupying a free slot does to the records and the bound names.
LEMMA Occupying ==
    ASSUME IInv, NEW slot \in Slots, slot \notin Occupied, Occupy(slot),
           control # "idle", request.operation = "bind", Storable, ~Full,
           request.name \notin BoundNames
    PROVE  /\ Occupied' = Occupied \cup {slot}
           /\ records'[slot] = [name |-> request.name, value |-> request.value]
           /\ \A s \in Occupied : records'[s] = records[s]
           /\ records' \in [Occupied' -> Record]
           /\ BoundNames' = BoundNames \cup {request.name}
           /\ Distinct'
           /\ IsFiniteSet(BoundNames')
           /\ occupied_record_count' = Cardinality(BoundNames')
           /\ occupied_record_count' = occupied_record_count + 1
           /\ occupied_record_count' \in 0..TotalSlots
<1>1. Occupied' = Occupied \cup {slot}
  BY DEF Occupy, Occupied
<1>2. records'[slot] = [name |-> request.name, value |-> request.value]
  BY DEF Occupy, Occupied
<1>3. \A s \in Occupied : records'[s] = records[s]
  BY DEF Occupy, Occupied
<1>4. request.name \in StorableNames /\ request.value \in Values
  BY DEF IInv, TypeOK, Request, Storable
<1>5. records' \in [Occupied' -> Record]
  <2>1. [name |-> request.name, value |-> request.value] \in Record
    BY <1>4 DEF Record
  <2>2. records' = [s \in Occupied \cup {slot} |->
                      IF s = slot THEN [name |-> request.name, value |-> request.value]
                      ELSE records[s]]
    BY DEF Occupy
  <2>3. records \in [Occupied -> Record]
    BY DEF IInv, TypeOK
  <2> QED
    BY <1>1, <2>1, <2>2, <2>3
<1>6. records'[slot].name = request.name
  BY <1>2
<1>7. BoundNames' = BoundNames \cup {request.name}
  BY <1>1, <1>3, <1>6 DEF BoundNames
<1>8. Distinct'
  BY <1>1, <1>3, <1>6 DEF IInv, Distinct, BoundNames
<1>9. IsFiniteSet(BoundNames') /\ Cardinality(BoundNames') = Cardinality(BoundNames) + 1
  BY <1>7, FS_AddElement DEF IInv, Counted
<1>10. occupied_record_count' = occupied_record_count + 1
  BY DEF Occupy
<1>11. occupied_record_count' \in 0..TotalSlots
  BY <1>10, SymbolTableAssumption DEF IInv, TypeOK, Full
<1> QED
  BY <1>1, <1>2, <1>3, <1>5, <1>7, <1>8, <1>9, <1>10, <1>11 DEF IInv, Counted

\* A step that leaves the table alone keeps what is said of the table alone.
LEMMA TableKept ==
    ASSUME IInv, UNCHANGED table_vars
    PROVE  /\ ChainsComplete' /\ Fresh' /\ Distinct' /\ Counted'
           /\ BoundNames' = BoundNames /\ Occupied' = Occupied
           /\ \A s \in Slots : HomeOf(s)' = HomeOf(s)
  BY DEF IInv, table_vars, ChainsComplete, Fresh, Distinct, Counted, BoundNames, Occupied,
         HomeOf, Successors

\* A record's home is a primary slot, occupied by a record with that home.
LEMMA Homes ==
    ASSUME IInv
    PROVE  /\ \A name \in Names : HomeSlots[name] \in 0..(PrimarySlots - 1)
           /\ \A s \in Occupied : HomeOf(s) \in 0..(PrimarySlots - 1)
           /\ \A s \in Occupied : s < PrimarySlots => HomeOf(s) = s
           /\ request.name \in Names /\ Home \in 0..(PrimarySlots - 1)
           /\ Home \in Slots
           /\ Home \in Occupied => HomeOf(Home) = Home
           /\ Home \notin Occupied => request.name \notin BoundNames
<1>1. \A name \in Names : HomeSlots[name] \in 0..(PrimarySlots - 1)
  BY SymbolTableAssumption
<1>2. \A s \in Occupied : records[s].name \in Names
  BY SymbolTableAssumption DEF IInv, TypeOK, Record
<1>3. \A s \in Occupied : HomeOf(s) \in 0..(PrimarySlots - 1)
  BY <1>1, <1>2 DEF HomeOf
<1>4. \A s \in Occupied : s \in 0..(TotalSlots - 1)
  BY DEF IInv, TypeOK, Slots
<1>5. ASSUME NEW s \in Occupied, s < PrimarySlots
      PROVE  HomeOf(s) = s
  BY <1>4, <1>5, SymbolTableAssumption DEF IInv, ChainsComplete
<1>6. request.name \in Names /\ Home \in 0..(PrimarySlots - 1)
  BY <1>1 DEF IInv, TypeOK, Request, Home
<1>7. Home \in Slots
  BY <1>6, SymbolTableAssumption DEF Slots
<1>8. Home \in Occupied => HomeOf(Home) = Home
  BY <1>5, <1>6, SymbolTableAssumption
<1>9. Home \notin Occupied => request.name \notin BoundNames
  BY DEF IInv, ChainsComplete, BoundNames, HomeOf, Home
<1> QED
  BY <1>1, <1>3, <1>5, <1>6, <1>7, <1>8, <1>9

-----------------------------------------------------------------------------
(* The invariant is inductive. *)

\* The empty table satisfies the invariant.
LEMMA InitInv == Init => IInv
<1> SUFFICES ASSUME Init PROVE IInv
  OBVIOUS
<1>1. Occupied = {} /\ BoundNames = {}
  BY DEF Init, Occupied, BoundNames
<1>2. request \in Request /\ outcome \in Outcome /\ outcome # Pending
  BY SymbolTableAssumption DEF Init, Request, Outcome, Pending
<1>3. TypeOK
  BY <1>1, <1>2, SymbolTableAssumption DEF Init, TypeOK, Slots, CHAIN_TERMINATOR, Controls
<1>4. Counted
  BY <1>1, FS_EmptySet, SymbolTableAssumption DEF Init, Counted
<1> QED
  BY <1>1, <1>3, <1>4 DEF IInv, Init, ChainsComplete, Fresh, Distinct, Walking, Claiming, Probing

\* Binding in a free home starts a chain of one record.
LEMMA BindAtHomeKeeps == IInv /\ BindAtHome => IInv'
<1> SUFFICES ASSUME IInv, BindAtHome PROVE IInv'
  OBVIOUS
<1> USE DEF IInv
<1>1. Home \in Slots /\ Home \in 0..(PrimarySlots - 1) /\ request.name \notin BoundNames
  BY Homes DEF BindAtHome
<1>2. /\ Occupied' = Occupied \cup {Home}
      /\ records'[Home] = [name |-> request.name, value |-> request.value]
      /\ \A s \in Occupied : records'[s] = records[s]
      /\ records' \in [Occupied' -> Record]
      /\ BoundNames' = BoundNames \cup {request.name}
      /\ Distinct'
      /\ IsFiniteSet(BoundNames')
      /\ occupied_record_count' = Cardinality(BoundNames')
      /\ occupied_record_count' = occupied_record_count + 1
      /\ occupied_record_count' \in 0..TotalSlots
  <2>1. request.operation = "bind" /\ control # "idle" /\ Home \notin Occupied
    BY DEF BindAtHome, TypeOK
  <2> QED
    BY <1>1, <2>1, Occupying DEF BindAtHome
<1>3. /\ UNCHANGED <<next_in_chain, next_cellar_candidate, request>>
      /\ control' = "idle" /\ chain_slot' = CHAIN_TERMINATOR
      /\ outcome' = [status |-> "OK"]
  BY DEF BindAtHome, Return
<1>4. TypeOK'
  <2>1. outcome' \in Outcome /\ outcome' # Pending
    BY <1>3 DEF Outcome, Pending
  <2> QED
    BY <1>1, <1>2, <1>3, <2>1 DEF TypeOK, Controls
<1>0. PICK h \in Slots : h = Home
  BY <1>1
<1>5. HomeOf(h)' = h /\ \A s \in Occupied : HomeOf(s)' = HomeOf(s)
  <2>1. HomeOf(h)' = h
    BY <1>2, <1>0 DEF HomeOf, Home
  <2> QED
    BY <2>1, <1>2 DEF HomeOf
<1>6. Fresh'
  BY <1>1, <1>2, <1>3, SymbolTableAssumption DEF Fresh, TypeOK
<1>7. Counted'
  BY <1>2, <1>3, SymbolTableAssumption DEF Counted, TypeOK
<1>8. ChainsComplete'
  <2>1. h \notin Occupied /\ Occupied' = Occupied \cup {h}
    BY <1>0, <1>2 DEF BindAtHome
  <2>2. \A s \in Occupied : HomeOf(s) # h
    BY <2>1 DEF ChainsComplete
  <2>3. ASSUME NEW s \in Occupied PROVE Successors(s)' = Successors(s)
    <3>1. Successors(s)' = {q \in Occupied \cup {h} : q > s /\ HomeOf(q)' = HomeOf(s)'}
      BY <2>1 DEF Successors
    <3>2. \A q \in Occupied : HomeOf(q)' = HomeOf(q)
      BY <1>5
    <3>3. HomeOf(h)' # HomeOf(s)'
      BY <1>5, <2>2
    <3> QED
      BY <3>1, <3>2, <3>3 DEF Successors
  <2>4. Successors(h)' = {}
    <3>1. ~(h > h)
      BY DEF Slots
    <3>2. ASSUME NEW q \in Occupied PROVE HomeOf(q)' # HomeOf(h)'
      BY <1>5, <2>2
    <3> QED
      BY <2>1, <3>1, <3>2 DEF Successors
  <2>5. next_in_chain[h] = CHAIN_TERMINATOR
    BY <2>1 DEF Fresh
  <2>6. ASSUME NEW s \in Occupied
        PROVE  /\ HomeOf(s)' \in Occupied'
               /\ s = HomeOf(s)' \/ s >= PrimarySlots
               /\ IF Successors(s)' = {}
                  THEN next_in_chain'[s] = CHAIN_TERMINATOR
                  ELSE next_in_chain'[s] \in Successors(s)'
                          /\ \A q \in Successors(s)' : next_in_chain'[s] <= q
    BY <1>2, <1>3, <1>5, <2>3 DEF ChainsComplete
  <2>7. ASSUME NEW s \in Occupied'
        PROVE  /\ HomeOf(s)' \in Occupied'
               /\ s = HomeOf(s)' \/ s >= PrimarySlots
               /\ IF Successors(s)' = {}
                  THEN next_in_chain'[s] = CHAIN_TERMINATOR
                  ELSE next_in_chain'[s] \in Successors(s)'
                          /\ \A q \in Successors(s)' : next_in_chain'[s] <= q
    <3>1. CASE s \in Occupied
      BY <3>1, <2>6
    <3>2. CASE s = h
      BY <3>2, <1>3, <1>5, <2>1, <2>4, <2>5
    <3> QED
      BY <2>1, <3>1, <3>2
  <2> QED
    BY <2>7 DEF ChainsComplete, CHAIN_TERMINATOR
<1> QED
  BY <1>2, <1>3, <1>4, <1>6, <1>7, <1>8 DEF Walking, Claiming, Probing

\* A record claimed from the cellar becomes the last of its chain.
LEMMA ClaimCellarSlotKeeps == IInv /\ ClaimCellarSlot => IInv'
<1> SUFFICES ASSUME IInv, ClaimCellarSlot PROVE IInv'
  OBVIOUS
<1> USE DEF IInv
<1>1. PICK n \in Slots : n = next_cellar_candidate
  BY SymbolTableAssumption DEF ClaimCellarSlot, CellarExhausted, TypeOK, Slots
<1>2. /\ n \notin Occupied /\ n >= PrimarySlots
      /\ \A s \in Occupied : s < n
      /\ \A s \in Slots : s \in Nat
  BY <1>1, SymbolTableAssumption DEF Fresh, TypeOK, Slots
<1>3. PICK c \in Occupied : c = chain_slot
  BY DEF Walking, ClaimCellarSlot
<1>4. PICK h \in Occupied : h = Home
  BY Homes, <1>3 DEF Walking, ClaimCellarSlot, ChainsComplete
<1>5. /\ HomeOf(c) = h
      /\ next_in_chain[c] = CHAIN_TERMINATOR
      /\ Successors(c) = {}
  <2>1. HomeOf(c) = h /\ next_in_chain[c] = CHAIN_TERMINATOR
    BY <1>3, <1>4 DEF Walking, Claiming, ClaimCellarSlot
  <2>2. \A q \in Successors(c) : q # CHAIN_TERMINATOR
    BY SymbolTableAssumption DEF Successors, TypeOK, CHAIN_TERMINATOR, Slots
  <2> QED
    BY <2>1, <2>2 DEF ChainsComplete
<1>6. \A q \in Occupied : HomeOf(q) = h => q <= c
  BY <1>5, <1>2 DEF Successors, TypeOK
<1>7. request.name \notin BoundNames
  BY <1>2, <1>3, <1>4, <1>6 DEF Walking, Claiming, Passed, ClaimCellarSlot, BoundNames, HomeOf, Home,
                               TypeOK
<1>8. /\ Occupy(n)
      /\ next_in_chain' = [next_in_chain EXCEPT ![c] = n]
      /\ next_cellar_candidate' = n + 1
      /\ UNCHANGED request
      /\ control' = "idle" /\ chain_slot' = CHAIN_TERMINATOR
      /\ outcome' = [status |-> "OK"]
  BY <1>1, <1>2, <1>3 DEF ClaimCellarSlot, Return
<1>9. /\ Occupied' = Occupied \cup {n}
      /\ records'[n] = [name |-> request.name, value |-> request.value]
      /\ \A s \in Occupied : records'[s] = records[s]
      /\ records' \in [Occupied' -> Record]
      /\ Distinct'
      /\ IsFiniteSet(BoundNames')
      /\ occupied_record_count' = Cardinality(BoundNames')
      /\ occupied_record_count' = occupied_record_count + 1
      /\ occupied_record_count' \in 0..TotalSlots
  <2>1. request.operation = "bind" /\ control # "idle" /\ Storable /\ ~Full
    BY DEF ClaimCellarSlot, TypeOK, Walking
  <2> QED
    BY <1>2, <1>7, <1>8, <2>1, Occupying
<1>10. TypeOK'
  <2>1. outcome' \in Outcome /\ outcome' # Pending
    BY <1>8 DEF Outcome, Pending
  <2>2. Occupied' \subseteq Slots
    BY <1>9 DEF TypeOK
  <2>3. next_in_chain' \in [Slots -> Slots \cup {CHAIN_TERMINATOR}]
    BY <1>8 DEF TypeOK
  <2>4. next_cellar_candidate' \in PrimarySlots..TotalSlots
    BY <1>2, <1>8, SymbolTableAssumption DEF Slots
  <2> QED
    BY <1>8, <1>9, <2>1, <2>2, <2>3, <2>4 DEF TypeOK, Controls
<1>11. Fresh'
  BY <1>2, <1>8, <1>9 DEF Fresh, TypeOK
<1>12. Counted'
  BY <1>1, <1>3, <1>8, <1>9, SymbolTableAssumption DEF Counted, TypeOK
<1>13. HomeOf(n)' = h /\ \A s \in Occupied : HomeOf(s)' = HomeOf(s)
  <2>1. HomeOf(n)' = h
    BY <1>9, <1>4 DEF HomeOf, Home
  <2> QED
    BY <2>1, <1>9 DEF HomeOf
<1>14. ChainsComplete'
  <2> DEFINE Joined(s) ==
               /\ HomeOf(s)' \in Occupied'
               /\ s = HomeOf(s)' \/ s >= PrimarySlots
               /\ IF Successors(s)' = {}
                  THEN next_in_chain'[s] = CHAIN_TERMINATOR
                  ELSE next_in_chain'[s] \in Successors(s)'
                          /\ \A q \in Successors(s)' : next_in_chain'[s] <= q
  <2>1. \A s : Successors(s)' = {q \in Occupied \cup {n} : q > s /\ HomeOf(q)' = HomeOf(s)'}
    BY <1>9 DEF Successors
  <2>2. ASSUME NEW s \in Occupied, HomeOf(s) # h PROVE Joined(s)
    <3>1. Successors(s)' = Successors(s)
      BY <2>1, <2>2, <1>13 DEF Successors
    <3>2. next_in_chain'[s] = next_in_chain[s]
      BY <1>5, <1>8, <2>2 DEF TypeOK
    <3> QED
      BY <1>9, <1>13, <3>1, <3>2 DEF ChainsComplete
  <2>3. ASSUME NEW s \in Occupied, HomeOf(s) = h, s # c PROVE Joined(s)
    <3>1. Successors(s)' = Successors(s) \cup {n}
      BY <2>1, <2>3, <1>2, <1>13 DEF Successors
    <3>2. next_in_chain'[s] = next_in_chain[s]
      BY <1>8, <2>3 DEF TypeOK
    <3>3. c \in Successors(s)
      BY <1>2, <1>5, <1>6, <2>3 DEF Successors, TypeOK
    <3>4. /\ next_in_chain[s] \in Successors(s)
          /\ \A q \in Successors(s) : next_in_chain[s] <= q
      BY <3>3 DEF ChainsComplete
    <3>5. next_in_chain[s] <= n
      BY <1>2, <3>4 DEF Successors, TypeOK
    <3>6. HomeOf(s)' \in Occupied' /\ (s = HomeOf(s)' \/ s >= PrimarySlots)
      BY <1>9, <1>13 DEF ChainsComplete
    <3> QED
      BY <3>1, <3>2, <3>4, <3>5, <3>6
  <2>4. Joined(c)
    <3>1. Successors(c)' = {n}
      BY <2>1, <1>2, <1>5, <1>13 DEF Successors
    <3>2. next_in_chain'[c] = n
      BY <1>8 DEF TypeOK
    <3>3. HomeOf(c)' \in Occupied' /\ (c = HomeOf(c)' \/ c >= PrimarySlots)
      BY <1>9, <1>13 DEF ChainsComplete
    <3> QED
      BY <1>2, <3>1, <3>2, <3>3
  <2>5. Joined(n)
    <3>1. Successors(n)' = {}
      BY <2>1, <1>2 DEF TypeOK
    <3>2. next_in_chain'[n] = CHAIN_TERMINATOR
      BY <1>2, <1>8 DEF Fresh, TypeOK
    <3> QED
      BY <1>2, <1>4, <1>9, <1>13, <3>1, <3>2
  <2>6. \A s \in Occupied' : Joined(s)
    BY <2>2, <2>3, <2>4, <2>5, <1>9
  <2> QED
    BY <2>6 DEF ChainsComplete, CHAIN_TERMINATOR
<1> QED
  BY <1>8, <1>9, <1>10, <1>11, <1>12, <1>14 DEF Walking, Claiming, Probing

\* Past a record with another name, either the chain ends and the name is not
\* bound, or the link leads to the next record of the chain.
LEMMA NextRecord ==
    ASSUME IInv, chain_slot \in Occupied, HomeOf(chain_slot) = Home, Passed,
           records[chain_slot].name # request.name
    PROVE  LET following == next_in_chain[chain_slot] IN
           /\ following = CHAIN_TERMINATOR => request.name \notin BoundNames
           /\ following # CHAIN_TERMINATOR => following \in Occupied /\ HomeOf(following) = Home
           /\ \A q \in Occupied :
                 q < following /\ HomeOf(q) = Home => records[q].name # request.name
           /\ following \in Slots \cup {CHAIN_TERMINATOR}
<1> DEFINE following == next_in_chain[chain_slot]
<1>1. \A q \in Occupied : q \in Int /\ q < CHAIN_TERMINATOR
  BY SymbolTableAssumption DEF IInv, TypeOK, Slots, CHAIN_TERMINATOR
<1>2. \A q \in Occupied : HomeOf(q) = Home /\ q <= chain_slot => records[q].name # request.name
  BY <1>1 DEF Passed
<1>3. \A q \in Occupied : HomeOf(q) = Home /\ q > chain_slot => q \in Successors(chain_slot)
  BY DEF Successors
<1>4. following \in Slots \cup {CHAIN_TERMINATOR}
  BY DEF IInv, TypeOK
<1>5. CASE Successors(chain_slot) = {}
  <2>1. following = CHAIN_TERMINATOR
    BY <1>5 DEF IInv, ChainsComplete
  <2>2. \A q \in Occupied : HomeOf(q) = Home => records[q].name # request.name
    BY <1>1, <1>2, <1>3, <1>5
  <2>3. request.name \notin BoundNames
    BY <2>2 DEF BoundNames, HomeOf, Home
  <2> QED
    BY <1>4, <2>1, <2>2, <2>3
<1>6. CASE Successors(chain_slot) # {}
  <2>1. following \in Successors(chain_slot)
        /\ \A q \in Successors(chain_slot) : following <= q
    BY <1>6 DEF IInv, ChainsComplete
  <2>2. following \in Occupied /\ HomeOf(following) = Home
    BY <2>1 DEF Successors
  <2>3. \A q \in Occupied :
           q < following /\ HomeOf(q) = Home => records[q].name # request.name
    BY <1>1, <1>2, <1>3, <2>1, <2>2
  <2>4. following # CHAIN_TERMINATOR
    BY <1>1, <2>2
  <2> QED
    BY <1>4, <2>2, <2>3, <2>4
<1> QED
  BY <1>5, <1>6

\* A call examines records without changing any, and returns what it found.
LEMMA TableKeptKeeps ==
    IInv /\ Next /\ ~BindAtHome /\ ~ClaimCellarSlot => IInv'
<1> SUFFICES ASSUME IInv, Next, ~BindAtHome, ~ClaimCellarSlot PROVE IInv'
  OBVIOUS
<1>1. UNCHANGED table_vars
  BY DEF Next, Step, Call, RefuseBind, EnterChain, RefuseRebind, Walk, RefuseForCellar,
         RefuseResolve, BeginProbe, Probe, EndProbe, Follow
<1>2. ChainsComplete' /\ Fresh' /\ Distinct' /\ Counted' /\ Occupied' = Occupied
      /\ BoundNames' = BoundNames
  BY <1>1, TableKept
<1>3. (Full <=> Full') /\ records' = records /\ next_in_chain' = next_in_chain
      /\ occupied_record_count' = occupied_record_count
      /\ next_cellar_candidate' = next_cellar_candidate
  BY <1>1 DEF table_vars, Full
<1>4. \A s : HomeOf(s)' = HomeOf(s)
  BY <1>3 DEF HomeOf
<1>5. ASSUME control' = "idle", chain_slot' = CHAIN_TERMINATOR, UNCHANGED request,
             outcome' \in Outcome, outcome' # Pending
      PROVE  IInv'
  BY <1>2, <1>3, <1>5 DEF IInv, TypeOK, Controls, Walking, Claiming, Probing
<1>6. ASSUME NEW status \in {"OK", "SEMANTIC_ERROR", "CAPACITY_EXCEEDED", "NOT_FOUND"},
             Return([status |-> status])
      PROVE  IInv'
  BY <1>5, <1>6 DEF Return, Outcome, Pending
<1>7. ASSUME NEW slot, NEW next_control, Follow(slot, next_control)
      PROVE  /\ chain_slot' = slot /\ control' = next_control
             /\ UNCHANGED <<request, outcome>>
             /\ Home' = Home /\ (Storable <=> Storable')
  BY <1>7 DEF Follow, Home, Storable
<1>8. CASE Call
  <2>1. /\ request' \in Request /\ control' = request'.operation
        /\ outcome' = Pending /\ chain_slot' = chain_slot
    BY <1>8 DEF Call
  <2>2. request'.operation \in {"bind", "resolve"}
    BY <2>1 DEF Request
  <2>3. outcome' \in Outcome
    BY <2>1 DEF Outcome, Pending
  <2> QED
    BY <1>2, <1>3, <2>1, <2>2, <2>3 DEF IInv, TypeOK, Controls, Walking, Claiming, Probing
<1>9. CASE RefuseBind
  BY <1>6, <1>9 DEF RefuseBind
<1>10. CASE RefuseRebind
  BY <1>6, <1>10 DEF RefuseRebind
<1>11. CASE RefuseForCellar
  BY <1>6, <1>11 DEF RefuseForCellar
<1>12. CASE RefuseResolve
  BY <1>6, <1>12 DEF RefuseResolve
<1>13. CASE EndProbe
  BY <1>6, <1>13 DEF EndProbe
<1>14. CASE EnterChain
  <2>1. Follow(Home, "walk") /\ Storable /\ ~Full /\ Home \in Occupied /\ control = "bind"
    BY <1>14 DEF EnterChain
  <2>2. TypeOK'
    BY <1>2, <1>3, <1>7, <2>1, Homes DEF IInv, TypeOK, Controls
  <2>3. HomeOf(Home) = Home /\ Home \in 0..(PrimarySlots - 1)
    BY <2>1, Homes
  <2>4. \A q \in Occupied : q < Home => HomeOf(q) # Home
    BY <2>3, Homes, SymbolTableAssumption DEF IInv, TypeOK, Slots
  <2>5. Walking'
    BY <1>2, <1>3, <1>4, <1>7, <2>1, <2>3, <2>4 DEF Walking, Passed
  <2> QED
    BY <1>2, <1>7, <2>1, <2>2, <2>5 DEF IInv, Claiming, Probing
<1>15. CASE Walk
  <2>1. /\ control = "walk" /\ Storable /\ ~Full /\ Passed /\ chain_slot \in Occupied
        /\ HomeOf(chain_slot) = Home /\ records[chain_slot].name # request.name
    BY <1>15 DEF IInv, Walk, Walking
  <2>2. CASE next_in_chain[chain_slot] = CHAIN_TERMINATOR
    <3>1. Follow(chain_slot, "claim")
      BY <1>15, <2>2 DEF Walk
    <3>2. TypeOK'
      BY <1>2, <1>3, <1>7, <2>1, <3>1 DEF IInv, TypeOK, Controls
    <3>3. Walking' /\ Claiming'
      BY <1>2, <1>3, <1>4, <1>7, <2>1, <2>2, <3>1 DEF Walking, Claiming, Passed
    <3> QED
      BY <1>2, <1>7, <3>1, <3>2, <3>3 DEF IInv, Probing
  <2>3. CASE next_in_chain[chain_slot] # CHAIN_TERMINATOR
    <3>1. Follow(next_in_chain[chain_slot], "walk")
      BY <1>15, <2>3 DEF Walk
    <3>2. TypeOK'
      BY <1>2, <1>3, <1>7, <2>1, <3>1, NextRecord DEF IInv, TypeOK, Controls
    <3>3. Walking'
      BY <1>2, <1>3, <1>4, <1>7, <2>1, <2>3, <3>1, NextRecord DEF Walking, Passed
    <3> QED
      BY <1>2, <1>7, <3>1, <3>2, <3>3 DEF IInv, Claiming, Probing
  <2> QED
    BY <2>2, <2>3
<1>16. CASE BeginProbe
  <2>1. Follow(Home, "probe") /\ Storable /\ control = "resolve"
    BY <1>16 DEF BeginProbe
  <2>2. TypeOK'
    BY <1>2, <1>3, <1>7, <2>1, Homes DEF IInv, TypeOK, Controls
  <2>3. \A q \in Occupied : q < Home => HomeOf(q) # Home
    BY Homes, SymbolTableAssumption DEF IInv, TypeOK, Slots
  <2>4. Probing'
    BY <1>2, <1>3, <1>4, <1>7, <2>1, <2>3, Homes DEF Probing, Passed
  <2> QED
    BY <1>2, <1>7, <2>1, <2>2, <2>4 DEF IInv, Walking, Claiming
<1>17. CASE Probe
  <2>1. /\ control = "probe" /\ Storable /\ Passed /\ chain_slot \in Occupied
        /\ HomeOf(chain_slot) = Home
    BY <1>17 DEF IInv, Probe, Probing
  <2>2. CASE records[chain_slot].name = request.name
    <3>1. Return([status |-> "OK", value |-> records[chain_slot].value])
      BY <1>17, <2>2 DEF Probe
    <3>2. records[chain_slot].value \in Values
      BY <2>1 DEF IInv, TypeOK, Record
    <3>3. [status |-> "OK", value |-> records[chain_slot].value] \in Outcome \ {Pending}
      BY <3>2 DEF Outcome, Pending
    <3> QED
      BY <1>5, <3>1, <3>3 DEF Return
  <2>3. CASE records[chain_slot].name # request.name
    <3>1. Follow(next_in_chain[chain_slot], "probe")
      BY <1>17, <2>3 DEF Probe
    <3>2. TypeOK'
      BY <1>2, <1>3, <1>7, <2>1, <2>3, <3>1, NextRecord DEF IInv, TypeOK, Controls
    <3>3. Probing'
      BY <1>1, <1>2, <1>3, <1>4, <1>7, <2>1, <2>3, <3>1, NextRecord, SymbolTableAssumption
         DEF Probing, Passed, CHAIN_TERMINATOR, TypeOK, IInv, Slots
    <3> QED
      BY <1>2, <1>7, <3>1, <3>2, <3>3 DEF IInv, Walking, Claiming
  <2> QED
    BY <2>2, <2>3
<1> QED
  BY <1>8, <1>9, <1>10, <1>11, <1>12, <1>13, <1>14, <1>15, <1>16, <1>17 DEF Next, Step

-----------------------------------------------------------------------------
(* The theorems. *)

\* Every reachable state satisfies the inductive invariant.
THEOREM InvariantHolds == Spec => []IInv
<1>1. Init => IInv
  BY InitInv
<1>2. IInv /\ [Next]_vars => IInv'
  <2> SUFFICES ASSUME IInv, [Next]_vars PROVE IInv'
    OBVIOUS
  <2>1. CASE Next
    BY <2>1, BindAtHomeKeeps, ClaimCellarSlotKeeps, TableKeptKeeps
  <2>2. CASE UNCHANGED vars
    BY <2>2 DEF vars, IInv, TypeOK, ChainsComplete, Fresh, Distinct, Counted, Walking, Claiming,
                Probing, Passed, Full, Storable, Home, HomeOf, Successors, Occupied, BoundNames
  <2> QED
    BY <2>1, <2>2
<1> QED
  BY <1>1, <1>2, PTL DEF Spec

\* Every variable keeps its type: the cellar cursor never passes the end of the
\* table, the number of records never passes the number of slots.
THEOREM TypeCorrect == Spec => []TypeOK
<1>1. IInv => TypeOK
  BY DEF IInv
<1> QED
  BY <1>1, InvariantHolds, PTL

\* No chain is ever cut, merged or closed into a cycle.
THEOREM ChainsAreComplete == Spec => []ChainsComplete
<1>1. IInv => ChainsComplete
  BY DEF IInv
<1> QED
  BY <1>1, InvariantHolds, PTL

-----------------------------------------------------------------------------
(* The refinement of IdentityBindings. *)

Mapped == [name \in BoundNames |->
              records[CHOOSE s \in Occupied : records[s].name = name].value]

\* A bound name is mapped to the value of the one record that holds it.
LEMMA MappedRecord ==
    ASSUME Distinct, NEW s \in Occupied
    PROVE  records[s].name \in BoundNames /\ Mapped[records[s].name] = records[s].value
<1>1. (CHOOSE q \in Occupied : records[q].name = records[s].name) = s
  BY DEF Distinct
<1> QED
  BY <1>1 DEF Mapped, BoundNames

\* Occupying a record adds its name and value to the abstract bindings and
\* keeps the others.
LEMMA MappedGrows ==
    ASSUME IInv, IInv', NEW slot \in Slots, slot \notin Occupied, Occupy(slot),
           control # "idle", request.operation = "bind", Storable, ~Full,
           request.name \notin BoundNames
    PROVE  Mapped' = [name \in BoundNames \cup {request.name} |->
                         IF name = request.name THEN request.value ELSE Mapped[name]]
<1>1. /\ Occupied' = Occupied \cup {slot}
      /\ records'[slot] = [name |-> request.name, value |-> request.value]
      /\ \A s \in Occupied : records'[s] = records[s]
      /\ BoundNames' = BoundNames \cup {request.name}
      /\ Distinct'
  BY Occupying
<1>2. ASSUME NEW s \in Occupied'
      PROVE  Mapped'[records'[s].name] = records'[s].value
  <2>1. (CHOOSE q \in Occupied' : records'[q].name = records'[s].name) = s
    BY <1>1, <1>2 DEF Distinct
  <2>2. records'[s].name \in BoundNames'
    BY <1>2 DEF BoundNames
  <2> QED
    BY <2>1, <2>2 DEF Mapped
<1>3. Mapped'[request.name] = request.value
  BY <1>1, <1>2
<1>4. ASSUME NEW name \in BoundNames PROVE Mapped'[name] = Mapped[name]
  <2>1. PICK s \in Occupied : records[s].name = name
    BY DEF BoundNames
  <2> QED
    BY <1>1, <1>2, <2>1, MappedRecord DEF IInv
<1>5. Mapped' = [name \in BoundNames' |-> Mapped'[name]]
  BY DEF Mapped
<1> QED
  BY <1>1, <1>3, <1>4, <1>5

\* A refusal for want of room comes after at least TotalSlots - PrimarySlots
\* bindings and one more.
LEMMA Roomy ==
    ASSUME IInv, Full \/ (control = "claim" /\ CellarExhausted)
    PROVE  Cardinality(BoundNames) > TotalSlots - PrimarySlots
<1>1. CASE Full
  BY <1>1, SymbolTableAssumption DEF IInv, TypeOK, Counted, Full
<1>2. CASE control = "claim" /\ CellarExhausted
  <2>1. Occupied # {}
    BY <1>2 DEF IInv, Walking
  <2> QED
    BY <1>2, <2>1, SymbolTableAssumption DEF IInv, TypeOK, Counted, CellarExhausted
<1> QED
  BY <1>1, <1>2

\* The hash table implements immutable bindings: every call takes effect in one
\* step and answers as if names did not collide.
THEOREM ImplementsBindings == Spec => Implements
<1>1. Init => Bindings!Init
  <2> SUFFICES ASSUME Init PROVE Bindings!Init
    OBVIOUS
  <2>1. BoundNames = {}
    BY DEF Init, BoundNames, Occupied
  <2> QED
    BY <2>1 DEF Bindings!Init, Init
<1>2. IInv /\ IInv' /\ [Next]_vars => [Bindings!Next]_(Bindings!vars)
  <2> SUFFICES ASSUME IInv, IInv', [Next]_vars PROVE [Bindings!Next]_(Bindings!vars)
    OBVIOUS
  <2> USE DEF Bindings!Next, Bindings!vars, Bindings!Pending, Pending
  <2>1. ASSUME UNCHANGED table_vars PROVE Mapped' = Mapped
    BY <2>1 DEF Mapped, BoundNames, Occupied, table_vars
  <2>2. CASE UNCHANGED vars
    BY <2>1, <2>2 DEF vars, table_vars, Mapped
  <2>3. CASE Call
    <3>1. control = "idle" /\ outcome # Pending
      BY <2>3 DEF Call, IInv, TypeOK
    <3>2. Bindings!Call
      BY <2>1, <2>3, <3>1 DEF Call, Bindings!Call, Bindings!Request, Request, Mapped
    <3> QED
      BY <3>2
  <2>4. CASE Step
    <3>1. outcome = Pending
      BY <2>4 DEF IInv, TypeOK, Step, RefuseBind, BindAtHome, EnterChain, RefuseRebind, Walk,
                  ClaimCellarSlot, RefuseForCellar, RefuseResolve, BeginProbe, Probe, EndProbe
    <3>2. CASE RefuseBind \/ RefuseForCellar
      <4>1. /\ request.operation = "bind" /\ UNCHANGED table_vars
            /\ Return([status |-> "CAPACITY_EXCEEDED"])
        BY <3>2 DEF RefuseBind, RefuseForCellar, IInv, TypeOK
      <4>2. request.name \notin StorableNames
              \/ Cardinality(BoundNames) > TotalSlots - PrimarySlots
        BY <3>2, Roomy DEF RefuseBind, RefuseForCellar, Storable
      <4>3. Bindings!Cardinality(Bindings!Bound) = Cardinality(BoundNames)
        <5>1. Bindings!Bound = BoundNames
          BY DEF Bindings!Bound
        <5>2. Bindings!Cardinality(BoundNames) = Cardinality(BoundNames)
          BY DEF Cardinality, Bindings!Cardinality
        <5> QED
          BY <5>1, <5>2
      <4>4. Bindings!RefuseForCapacity
        BY <2>1, <3>1, <4>1, <4>2, <4>3
           DEF Bindings!RefuseForCapacity, Bindings!Executing, Bindings!Returned, Return, Mapped
      <4> QED
        BY <4>4
    <3>3. CASE RefuseRebind
      <4>1. /\ request.operation = "bind" /\ UNCHANGED table_vars
            /\ Return([status |-> "SEMANTIC_ERROR"])
            /\ request.name \in BoundNames
        BY <3>3 DEF RefuseRebind, IInv, TypeOK, Walking, BoundNames
      <4>2. Bindings!RefuseRebind
        BY <2>1, <3>1, <4>1
           DEF Bindings!RefuseRebind, Bindings!Executing, Bindings!Returned, Bindings!Bound,
               Return, Mapped
      <4> QED
        BY <4>2
    <3>4. ASSUME NEW slot \in Slots, slot \notin Occupied, Occupy(slot), control # "idle",
                 request.operation = "bind", Storable, ~Full, request.name \notin BoundNames,
                 Return([status |-> "OK"])
          PROVE  Bindings!Bind
      <4>1. Mapped' = [name \in BoundNames \cup {request.name} |->
                          IF name = request.name THEN request.value ELSE Mapped[name]]
        BY <3>4, MappedGrows
      <4> QED
        BY <3>1, <3>4, <4>1
           DEF Bindings!Bind, Bindings!Executing, Bindings!Returned, Bindings!Bound, Return,
               Storable, Mapped
    <3>5. CASE BindAtHome
      <4>1. /\ Home \in Slots /\ request.name \notin BoundNames
            /\ control # "idle" /\ request.operation = "bind"
        BY <3>5, Homes DEF BindAtHome, IInv, TypeOK
      <4>2. Bindings!Bind
        BY <3>4, <3>5, <4>1 DEF BindAtHome
      <4> QED
        BY <4>2
    <3>6. CASE ClaimCellarSlot
      <4>1. /\ control = "claim" /\ request.operation = "bind" /\ Storable /\ ~Full
            /\ next_cellar_candidate \in Slots
            /\ next_cellar_candidate \notin Occupied
        BY <3>6, SymbolTableAssumption
           DEF ClaimCellarSlot, CellarExhausted, IInv, TypeOK, Walking, Fresh, Slots
      <4>2. request.name \notin BoundNames
        <5>1. /\ chain_slot \in Occupied /\ HomeOf(chain_slot) = Home /\ Passed
              /\ records[chain_slot].name # request.name
              /\ next_in_chain[chain_slot] = CHAIN_TERMINATOR
          BY <4>1 DEF IInv, Walking, Claiming
        <5> QED
          BY <5>1, NextRecord
      <4>3. Bindings!Bind
        BY <3>4, <3>6, <4>1, <4>2 DEF ClaimCellarSlot
      <4> QED
        BY <4>3
    <3>7. CASE EnterChain \/ Walk \/ BeginProbe
      BY <2>1, <3>7 DEF EnterChain, Walk, BeginProbe, Follow, Mapped
    <3>8. CASE RefuseResolve \/ EndProbe
      <4>1. /\ request.operation = "resolve" /\ UNCHANGED table_vars
            /\ Return([status |-> "NOT_FOUND"])
        BY <3>8 DEF RefuseResolve, EndProbe, IInv, TypeOK
      <4>2. request.name \notin BoundNames
        BY <3>8, SymbolTableAssumption
           DEF RefuseResolve, EndProbe, IInv, TypeOK, Probing, BoundNames, Record, Storable,
               CHAIN_TERMINATOR, Slots
      <4>3. Bindings!Resolve
        BY <2>1, <3>1, <4>1, <4>2
           DEF Bindings!Resolve, Bindings!Executing, Bindings!Returned, Bindings!Bound,
               Return, Mapped
      <4> QED
        BY <4>3
    <3>9. CASE Probe
      <4>1. chain_slot \in Occupied /\ request.operation = "resolve"
        BY <3>9 DEF Probe, IInv, TypeOK
      <4>2. CASE records[chain_slot].name = request.name
        <5>1. /\ Return([status |-> "OK", value |-> records[chain_slot].value])
              /\ UNCHANGED table_vars
          BY <3>9, <4>2 DEF Probe
        <5>2. request.name \in BoundNames /\ Mapped[request.name] = records[chain_slot].value
          BY <4>1, <4>2, MappedRecord DEF IInv
        <5>3. Bindings!Resolve
          BY <2>1, <3>1, <4>1, <5>1, <5>2
             DEF Bindings!Resolve, Bindings!Executing, Bindings!Bound, Return, Mapped
        <5> QED
          BY <5>3
      <4>3. CASE records[chain_slot].name # request.name
        BY <2>1, <3>9, <4>3 DEF Probe, Follow, Mapped
      <4> QED
        BY <4>2, <4>3
    <3> QED
      BY <2>4, <3>2, <3>3, <3>5, <3>6, <3>7, <3>8, <3>9 DEF Step
  <2> QED
    BY <2>2, <2>3, <2>4 DEF Next
<1> QED
  BY <1>1, <1>2, InvariantHolds, PTL DEF Spec, Implements, Bindings!Spec

=============================================================================
