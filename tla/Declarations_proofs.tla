------------------------ MODULE Declarations_proofs ------------------------
(***************************************************************************)
(* A declaration takes effect as a whole or not at all, a legal one is     *)
(* refused only for want of room, and no module reports twice: for every   *)
(* vocabulary, every set of values, every limit and any number of modules. *)
(***************************************************************************)
EXTENDS Declarations, FiniteSetTheorems, SequenceTheorems, TLAPS

-----------------------------------------------------------------------------
(* The inductive invariant. *)

\* The cursor is behind the first atoms of a directive, and each had its place.
Behind(offset) ==
    \E k \in Nat :
       /\ cursor = 6 * k + 1 + offset /\ 6 * k + offset <= Len(text)
       /\ \A i \in 1..offset : Fits(k, i)

\* What is read next tells what was read.
Placed ==
    /\ control = "keyword" => Behind(0)
    /\ control = "open" => Behind(1)
    /\ control = "name" => Behind(2)
    /\ control = "separator" => Behind(3)
    /\ control = "expression" => Behind(4)
    /\ control = "close" /\ ~HasFailed => Behind(5)
    /\ control = "declare" => Behind(6)

\* The value is that of the directive's expression, unless it was reported.
Valued == control \in {"close", "declare"} /\ ~HasFailed => value = Written(Current)

\* The errors of the session, counted against its modules: only the closing
\* parenthesis is still expected after the module has reported.
Tallied ==
    /\ control \in {"keyword", "open"} => error_count < module_count
    /\ control \in {"name", "separator", "expression", "declare"} => error_count = 0
    /\ control = "close" => error_count \in 0..1
    /\ control # "idle" => module_count > 0

IInv == TypeOK /\ IsFiniteSet(DOMAIN arenas) /\ Placed /\ Valued /\ Tallied /\ ReportedOnce

-----------------------------------------------------------------------------
(* The text. *)

\* What is not the end of the source is an atom of the text.
LEMMA AtomRead ==
    ASSUME TextTypeOK, ~Reads("END_OF_SOURCE"), Advance(1)
    PROVE  /\ cursor \in 1..Len(text) /\ NextAtom = text[cursor]
           /\ cursor' = cursor + 1 /\ text' = text
<1>1. DOMAIN text = 1..Len(text)
  BY LenProperties DEF TextTypeOK
<1>2. cursor \in DOMAIN text /\ NextAtom = text[cursor]
  BY DEF Reads, NextAtom, AtomAt, EndOfSource
<1> QED
  BY <1>1, <1>2 DEF Advance

\* The cursor stays where it is or moves on.
LEMMA CursorMoves ==
    ASSUME TextTypeOK, Advance(1)
    PROVE  TextTypeOK' /\ text' = text /\ cursor' \in {cursor, cursor + 1}
  BY DEF TextTypeOK, Advance

\* Looking at one more atom keeps the ones before it.
LEMMA TextGrows ==
    ASSUME TextTypeOK, Settle(1)
    PROVE  /\ TextTypeOK' /\ cursor' = cursor /\ Len(text) < Len(text')
           /\ \A i \in 1..Len(text) : text'[i] = text[i]
<1>1. PICK atom \in {EndOfSource} \cup UNION Continuable : text' = Append(text, atom)
  BY DEF Settle
<1>2. atom \in Atom
  <2>1. EndOfSource \in Atom
    BY DEF EndOfSource, Atom
  <2> QED
    BY <1>1, <2>1, TextAssumption DEF Continuable
<1>3. text' \in Seq(Atom) /\ Len(text') = Len(text) + 1
      /\ \A i \in 1..Len(text) : text'[i] = text[i]
  BY <1>1, <1>2, AppendProperties DEF TextTypeOK
<1> QED
  BY <1>3, LenProperties DEF TextTypeOK, Settle

\* The place an atom has depends on the atom and the bound names.
LEMMA FitsKept ==
    ASSUME TextTypeOK, NEW k \in Nat, NEW offset \in 0..6, 6 * k + offset <= Len(text),
           \A i \in 1..Len(text) : text'[i] = text[i],
           bindings' = bindings
    PROVE  \A i \in 1..offset : (Fits(k, i) <=> Fits(k, i)') /\ AtomOf(k, i)' = AtomOf(k, i)
<1> SUFFICES ASSUME NEW i \in 1..offset
             PROVE  (Fits(k, i) <=> Fits(k, i)') /\ AtomOf(k, i)' = AtomOf(k, i)
  OBVIOUS
<1>1. 6 * k + i \in 1..Len(text)
  BY LenProperties DEF TextTypeOK
<1>2. AtomOf(k, i)' = AtomOf(k, i)
  BY <1>1 DEF AtomOf
<1> QED
  BY <1>2 DEF Fits, IsDirective

\* The directive behind some of whose atoms the cursor is.
LEMMA CurrentIs ==
    ASSUME NEW k \in Nat, NEW offset \in 1..6, cursor = 6 * k + 1 + offset
    PROVE  Current = k
  BY DEF Current

\* Looking ahead leaves the cursor behind what was read.
LEMMA BehindKept ==
    ASSUME TextTypeOK, NEW offset \in 0..6, Behind(offset), cursor' = cursor,
           Len(text) <= Len(text'), Len(text') \in Nat,
           \A i \in 1..Len(text) : text'[i] = text[i], bindings' = bindings
    PROVE  Behind(offset)'
<1>1. PICK k \in Nat : /\ cursor = 6 * k + 1 + offset /\ 6 * k + offset <= Len(text)
                       /\ \A i \in 1..offset : Fits(k, i)
  BY DEF Behind
<1>2. \A i \in 1..offset : Fits(k, i)'
  BY <1>1, FitsKept
<1>3. 6 * k + offset <= Len(text')
  BY <1>1, LenProperties DEF TextTypeOK
<1> QED
  BY <1>1, <1>2, <1>3 DEF Behind

\* An atom that has its place is one more.
LEMMA OneMore ==
    ASSUME TextTypeOK, NEW offset \in 0..5, Behind(offset),
           ~Reads("END_OF_SOURCE"), Advance(1), bindings' = bindings,
           \A k \in Nat : cursor = 6 * k + (offset + 1) => Fits(k, offset + 1)
    PROVE  Behind(offset + 1)'
<1>1. PICK k \in Nat : /\ cursor = 6 * k + 1 + offset /\ 6 * k + offset <= Len(text)
                       /\ \A i \in 1..offset : Fits(k, i)
  BY DEF Behind
<1>2. cursor \in 1..Len(text) /\ cursor' = cursor + 1 /\ text' = text /\ Len(text) \in Nat
  BY AtomRead, LenProperties DEF TextTypeOK
<1>3. Fits(k, offset + 1)
  BY <1>1
<1>4. \A i \in 1..(offset + 1) : Fits(k, i)
  <2> SUFFICES ASSUME NEW i \in 1..(offset + 1) PROVE Fits(k, i)
    OBVIOUS
  <2>1. i \in 1..offset \/ i = offset + 1
    OBVIOUS
  <2> QED
    BY <1>1, <1>3, <2>1
<1>5. 6 * k + (offset + 1) <= Len(text) /\ cursor' = 6 * k + 1 + (offset + 1)
  BY <1>1, <1>2
<1>6. \A i \in 1..(offset + 1) : Fits(k, i)'
  <2>1. offset + 1 \in 0..6 /\ \A i \in 1..Len(text) : text'[i] = text[i]
    BY <1>2
  <2>2. \A i \in 1..(offset + 1) : (Fits(k, i) <=> Fits(k, i)')
    BY <1>5, <2>1, FitsKept
  <2> QED
    BY <1>4, <2>2
<1> QED
  BY <1>2, <1>5, <1>6 DEF Behind

-----------------------------------------------------------------------------
(* The invariant is inductive. *)

\* Nothing is read before the first module.
LEMMA InitInv == Init => IInv
<1> SUFFICES ASSUME Init PROVE IInv
  OBVIOUS
<1>1. value \in Literals
  BY DeclarationsAssumption DEF Init
<1>2. TextTypeOK
  BY DEF Init, TextTypeOK
<1>3. DOMAIN bindings = {} /\ DOMAIN arenas = {}
  BY DEF Init
<1>4. IsFiniteSet(DOMAIN arenas) /\ Cardinality(DOMAIN arenas) = 0
  BY <1>3, FS_EmptySet
<1>5. TypeOK
  BY <1>1, <1>2, <1>3, <1>4, DeclarationsAssumption DEF Init, TypeOK, TextTypeOK, Controls
<1> QED
  BY <1>4, <1>5 DEF Init, IInv, Placed, Valued, Tallied, ReportedOnce, Failures

\* A report ends the module, and nothing was reported in it before.
LEMMA Reported ==
    ASSUME IInv, NEW result \in Failures, Report(result), Declared, value' = value, TextTypeOK',
           control # "idle", error_count < module_count
    PROVE  IInv'
<1>1. /\ control' = "idle" /\ status' = result /\ module_count' = module_count
      /\ error_count' = error_count + 1 /\ UNCHANGED <<bindings, arenas>>
  BY DEF Report, Return, Declared
<1>2. TypeOK'
  BY <1>1 DEF IInv, TypeOK, TextTypeOK, Controls, Failures
<1> QED
  BY <1>1, <1>2 DEF IInv, TypeOK, Placed, Valued, Tallied, ReportedOnce, HasFailed

\* Reading on within a module keeps the types and the counts.
LEMMA Proceeding ==
    ASSUME IInv, NEW next_control \in Controls \ {"idle"}, Proceed(next_control),
           Declared, value' \in Literals, TextTypeOK', control # "idle"
    PROVE  /\ TypeOK' /\ IsFiniteSet(DOMAIN arenas') /\ ReportedOnce'
  BY DEF IInv, Proceed, Declared, TypeOK, Controls, ReportedOnce, HasFailed

\* Looking at one more atom changes nothing else.
LEMMA ReadTextKeeps == IInv /\ ReadText => IInv'
<1> SUFFICES ASSUME IInv, ReadText PROVE IInv'
  OBVIOUS
<1>1. /\ UNCHANGED <<bindings, arenas, control, value, error_count, module_count, status>>
      /\ TextTypeOK /\ Settle(1) /\ control \notin {"idle", "declare"}
  BY DEF ReadText, Declared, IInv, TypeOK
<1>2. /\ TextTypeOK' /\ cursor' = cursor /\ Len(text) < Len(text')
      /\ \A i \in 1..Len(text) : text'[i] = text[i]
  BY <1>1, TextGrows
<1>3. Len(text) \in Nat /\ Len(text') \in Nat
  BY <1>1, <1>2, LenProperties DEF TextTypeOK
<1>4. ASSUME NEW offset \in 0..6, Behind(offset) PROVE Behind(offset)'
  BY <1>1, <1>2, <1>3, <1>4, BehindKept
<1>5. Placed'
  BY <1>1, <1>4 DEF IInv, Placed, HasFailed
<1>6. Valued'
  <2>1. CASE control = "close" /\ ~HasFailed
    <3>1. PICK k \in Nat : cursor = 6 * k + 1 + 5 /\ 6 * k + 5 <= Len(text)
      BY <2>1 DEF IInv, Placed, Behind
    <3>2. Current = k /\ Current' = k
      BY <1>2, <3>1 DEF Current
    <3>3. AtomOf(k, 5)' = AtomOf(k, 5)
      BY <1>2, <3>1, LenProperties DEF AtomOf
    <3>4. value = Written(k)
      BY <2>1, <3>2 DEF IInv, Valued
    <3> QED
      BY <1>1, <3>2, <3>3, <3>4 DEF Valued, Written
  <2> QED
    BY <1>1, <2>1 DEF Valued, HasFailed
<1> QED
  BY <1>1, <1>2, <1>5, <1>6 DEF IInv, TypeOK, Tallied, ReportedOnce, HasFailed

\* A module begins with a keyword.
LEMMA ExecuteModuleKeeps == IInv /\ ExecuteModule => IInv'
<1> SUFFICES ASSUME IInv, ExecuteModule PROVE IInv'
  OBVIOUS
<1>1. /\ UNCHANGED <<bindings, arenas, value, error_count>>
      /\ control' = "keyword" /\ status' = "PENDING" /\ module_count' = module_count + 1
      /\ text' = <<>> /\ cursor' = 1 /\ module_count < MaximumModules
  BY DEF ExecuteModule, Declared
<1>2. TextTypeOK' /\ Len(text') = 0
  BY <1>1, EmptySeq DEF TextTypeOK
<1>3. TypeOK'
  BY <1>1, <1>2, DeclarationsAssumption DEF IInv, TypeOK, TextTypeOK, Controls
<1>4. Behind(0)'
  BY <1>1, <1>2 DEF Behind
<1>5. error_count' < module_count'
  BY <1>1 DEF IInv, TypeOK, ReportedOnce
<1> QED
  BY <1>1, <1>3, <1>4, <1>5
     DEF IInv, TypeOK, Placed, Valued, Tallied, ReportedOnce, Failures, HasFailed

\* A keyword begins a directive, or ends the module.
LEMMA ReadKeywordKeeps == IInv /\ ReadKeyword => IInv'
<1> SUFFICES ASSUME IInv, ReadKeyword PROVE IInv'
  OBVIOUS
<1>1. /\ control = "keyword" /\ Advance(1) /\ Declared /\ value' = value /\ TextTypeOK
      /\ bindings' = bindings /\ error_count < module_count
  BY DEF ReadKeyword, At, IInv, TypeOK, Declared, Tallied
<1>2. TextTypeOK'
  BY <1>1, CursorMoves
<1>3. CASE Reads("END_OF_SOURCE") /\ Return("OK") /\ UNCHANGED error_count
  <2>1. /\ control' = "idle" /\ status' = "OK"
        /\ UNCHANGED <<module_count, error_count, bindings, arenas>>
    BY <1>1, <1>3 DEF Return, Declared
  <2> QED
    BY <1>1, <1>2, <2>1
       DEF IInv, TypeOK, Controls, Failures, Placed, Valued, Tallied, ReportedOnce, HasFailed
<1>4. CASE IsDirective(NextAtom) /\ Proceed("open")
  <2>1. ~Reads("END_OF_SOURCE")
    BY <1>4 DEF IsDirective, Reads
  <2>2. ASSUME NEW k \in Nat, cursor = 6 * k + (0 + 1) PROVE Fits(k, 0 + 1)
    BY <1>1, <1>4, <2>1, <2>2, AtomRead DEF Fits, AtomOf
  <2>3. Behind(0)
    BY <1>1 DEF IInv, Placed
  <2>4. Behind(0 + 1)'
    BY <1>1, <2>1, <2>2, <2>3, OneMore
  <2>5. TypeOK' /\ IsFiniteSet(DOMAIN arenas') /\ ReportedOnce'
    BY <1>1, <1>2, <1>4, Proceeding DEF Controls, IInv, TypeOK
  <2> QED
    BY <1>1, <1>4, <2>4, <2>5 DEF IInv, Proceed, Placed, Valued, Tallied
<1>5. CASE Report("SYNTAX_ERROR")
  BY <1>1, <1>2, <1>5, Reported DEF Failures
<1> QED
  BY <1>3, <1>4, <1>5 DEF ReadKeyword

\* An expected atom has its place; any other is reported, unless the expression
\* was.
LEMMA ExpectAtomKeeps == IInv /\ ExpectAtom => IInv'
<1> SUFFICES ASSUME IInv, ExpectAtom PROVE IInv'
  OBVIOUS
<1>1. /\ control \in {"open", "separator", "close"}
      /\ Declared /\ value' = value /\ TextTypeOK /\ bindings' = bindings
      /\ value \in Literals /\ error_count \in Nat /\ arenas' = arenas
  BY DEF ExpectAtom, Expects, IInv, TypeOK, Declared
<1>2. CASE Unwinding
  <2>1. /\ UNCHANGED <<text_vars, error_count, module_count>>
        /\ control' = "idle" /\ status' = "SYNTAX_ERROR"
    BY <1>2 DEF ExpectAtom, Return
  <2>2. TypeOK'
    BY <1>1, <2>1 DEF IInv, TypeOK, TextTypeOK, text_vars, Controls, Failures
  <2> QED
    BY <1>1, <1>2, <2>1, <2>2
       DEF IInv, TypeOK, Placed, Valued, Tallied, ReportedOnce, Failures, HasFailed, Unwinding
<1>3. CASE ~Unwinding
  <2>1. /\ Advance(1) /\ error_count = 0 /\ error_count < module_count /\ ~HasFailed
        /\ module_count \in Nat
    BY <1>1, <1>3, DeclarationsAssumption
       DEF ExpectAtom, Unwinding, HasFailed, IInv, TypeOK, Tallied
  <2>2. TextTypeOK'
    BY <1>1, <2>1, CursorMoves
  <2>3. CASE Report("SYNTAX_ERROR")
    BY <1>1, <2>1, <2>2, <2>3, Reported DEF Failures
  <2>4. CASE control = "open" /\ Reads("OPEN_PARENTHESIS") /\ Proceed("name")
    <3>1. ~Reads("END_OF_SOURCE")
      BY <2>4 DEF Reads
    <3>2. ASSUME NEW k \in Nat, cursor = 6 * k + (1 + 1) PROVE Fits(k, 1 + 1)
      BY <1>1, <2>1, <2>4, <3>1, <3>2, AtomRead DEF Fits, AtomOf, Reads
    <3>3. Behind(1 + 1)'
      BY <1>1, <2>1, <2>4, <3>1, <3>2, OneMore DEF IInv, Placed
    <3>4. TypeOK' /\ IsFiniteSet(DOMAIN arenas') /\ ReportedOnce'
      BY <1>1, <2>2, <2>4, Proceeding DEF Controls
    <3> QED
      BY <2>1, <2>4, <3>3, <3>4 DEF IInv, Proceed, Placed, Valued, Tallied
  <2>5. CASE control = "separator" /\ Reads("ARGUMENT_SEPARATOR") /\ Proceed("expression")
    <3>1. ~Reads("END_OF_SOURCE")
      BY <2>5 DEF Reads
    <3>2. ASSUME NEW k \in Nat, cursor = 6 * k + (3 + 1) PROVE Fits(k, 3 + 1)
      BY <1>1, <2>1, <2>5, <3>1, <3>2, AtomRead DEF Fits, AtomOf, Reads
    <3>3. Behind(3 + 1)'
      BY <1>1, <2>1, <2>5, <3>1, <3>2, OneMore DEF IInv, Placed
    <3>4. TypeOK' /\ IsFiniteSet(DOMAIN arenas') /\ ReportedOnce'
      BY <1>1, <2>2, <2>5, Proceeding DEF Controls
    <3> QED
      BY <2>1, <2>5, <3>3, <3>4 DEF IInv, Proceed, Placed, Valued, Tallied
  <2>6. CASE control = "close" /\ Reads("CLOSE_PARENTHESIS") /\ Proceed("declare")
    <3>1. ~Reads("END_OF_SOURCE")
      BY <2>6 DEF Reads
    <3>2. ASSUME NEW k \in Nat, cursor = 6 * k + (5 + 1) PROVE Fits(k, 5 + 1)
      BY <1>1, <2>1, <2>6, <3>1, <3>2, AtomRead DEF Fits, AtomOf, Reads
    <3>3. Behind(5 + 1)'
      BY <1>1, <2>1, <2>6, <3>1, <3>2, OneMore DEF IInv, Placed
    <3>4. TypeOK' /\ IsFiniteSet(DOMAIN arenas') /\ ReportedOnce'
      BY <1>1, <2>2, <2>6, Proceeding DEF Controls
    <3>5. Valued'
      <4>1. PICK k \in Nat : cursor = 6 * k + 1 + 5
        BY <2>1, <2>6 DEF IInv, Placed, Behind
      <4>2. cursor' = cursor + 1 /\ text' = text
        BY <1>1, <2>1, <3>1, AtomRead
      <4>3. Current = k /\ Current' = k
        BY <4>1, <4>2 DEF Current
      <4>4. value = Written(k)
        BY <2>1, <2>6, <4>3 DEF IInv, Valued
      <4> QED
        BY <1>1, <4>2, <4>3, <4>4 DEF Valued, Written, AtomOf
    <3> QED
      BY <2>1, <2>6, <3>3, <3>4, <3>5 DEF IInv, Proceed, Placed, Tallied
  <2> QED
    BY <1>1, <1>3, <2>3, <2>4, <2>5, <2>6 DEF ExpectAtom, Expects, Follows
<1> QED
  BY <1>2, <1>3

\* A name has its place unless it is reserved or too long.
LEMMA ReadNameKeeps == IInv /\ ReadName => IInv'
<1> SUFFICES ASSUME IInv, ReadName PROVE IInv'
  OBVIOUS
<1>1. /\ control = "name" /\ Advance(1) /\ Declared /\ value' = value /\ TextTypeOK
      /\ value \in Literals /\ error_count = 0 /\ bindings' = bindings
      /\ error_count < module_count
  BY DeclarationsAssumption DEF ReadName, At, IInv, TypeOK, Declared, Tallied
<1>2. TextTypeOK'
  BY <1>1, CursorMoves
<1>3. CASE \E result \in Failures : Report(result)
  BY <1>1, <1>2, <1>3, Reported
<1>4. CASE /\ Reads("IDENTIFIER") /\ ~IsReserved(NextAtom.name)
           /\ NextAtom.name \in StorableNames /\ Proceed("separator")
  <2>1. ~Reads("END_OF_SOURCE")
    BY <1>4 DEF Reads
  <2>2. ASSUME NEW k \in Nat, cursor = 6 * k + (2 + 1) PROVE Fits(k, 2 + 1)
    BY <1>1, <1>4, <2>1, <2>2, AtomRead DEF Fits, AtomOf, Reads, IsReserved
  <2>3. Behind(2 + 1)'
    BY <1>1, <2>1, <2>2, OneMore DEF IInv, Placed
  <2>4. TypeOK' /\ IsFiniteSet(DOMAIN arenas') /\ ReportedOnce'
    BY <1>1, <1>2, <1>4, Proceeding DEF Controls
  <2> QED
    BY <1>1, <1>4, <2>3, <2>4 DEF IInv, Proceed, Placed, Valued, Tallied
<1> QED
  BY <1>3, <1>4 DEF ReadName, Failures

\* The value of an expression is its own, or an error is counted.
LEMMA EvaluateKeeps == IInv /\ Evaluate => IInv'
<1> SUFFICES ASSUME IInv, Evaluate PROVE IInv'
  OBVIOUS
<1>1. /\ control = "expression" /\ Advance(1) /\ Declared /\ TextTypeOK
      /\ control' = "close" /\ UNCHANGED <<bindings, arenas, module_count, status>>
      /\ error_count = 0 /\ module_count > 0
  BY DEF Evaluate, At, IInv, TypeOK, Declared, Tallied
<1>2. TextTypeOK'
  BY <1>1, CursorMoves
<1>3. value' \in Literals /\ error_count' \in {0, 1}
  <2>1. ASSUME Reads("NUMERIC_LITERAL") PROVE NextAtom.value \in Literals
    <3>1. NextAtom \in Atom
      BY <1>1, <2>1, AtomRead DEF TextTypeOK, Reads
    <3> QED
      BY <2>1, <3>1 DEF Atom, Reads
  <2>2. error_count' \in {0, 1}
    BY <1>1 DEF Evaluate
  <2>3. value \in Literals /\ \A name \in DOMAIN bindings : bindings[name] \in Literals
    BY DEF IInv, TypeOK
  <2> QED
    BY <2>1, <2>2, <2>3 DEF Evaluate
<1>4. TypeOK' /\ ReportedOnce'
  BY <1>1, <1>2, <1>3, DeclarationsAssumption
     DEF IInv, TypeOK, Controls, Failures, ReportedOnce, HasFailed
<1>5. ASSUME error_count' = 0
      PROVE  Behind(5)' /\ value' = Written(Current)'
  <2>1. \/ Reads("NUMERIC_LITERAL") /\ value' = NextAtom.value
        \/ /\ Reads("IDENTIFIER") /\ NextAtom.name \in DOMAIN bindings
           /\ value' = bindings[NextAtom.name]
    BY <1>1, <1>5 DEF Evaluate
  <2>2. ~Reads("END_OF_SOURCE")
    BY <2>1 DEF Reads
  <2>3. /\ cursor \in 1..Len(text) /\ NextAtom = text[cursor]
        /\ cursor' = cursor + 1 /\ text' = text
    BY <1>1, <2>2, AtomRead
  <2>4. ASSUME NEW k \in Nat, cursor = 6 * k + (4 + 1) PROVE Fits(k, 4 + 1)
    BY <2>1, <2>3, <2>4 DEF Fits, AtomOf, Reads
  <2>5. Behind(4 + 1)'
    BY <1>1, <2>2, <2>4, OneMore DEF IInv, Placed
  <2>6. PICK k \in Nat : cursor = 6 * k + 1 + 4
    BY <1>1 DEF IInv, Placed, Behind
  <2>7. Current' = k /\ AtomOf(k, 5) = NextAtom /\ AtomOf(k, 5)' = AtomOf(k, 5)
    BY <2>3, <2>6 DEF Current, AtomOf
  <2>8. value' = Written(k)'
    BY <1>1, <2>1, <2>7 DEF Written, Reads
  <2> QED
    BY <2>5, <2>7, <2>8 DEF Written
<1>6. Placed' /\ Valued'
  BY <1>1, <1>3, <1>5 DEF Placed, Valued, HasFailed
<1>7. Tallied'
  BY <1>1, <1>3 DEF Tallied
<1> QED
  BY <1>1, <1>4, <1>6, <1>7 DEF IInv

\* A complete directive: what it declares, and that nothing failed before.
LEMMA Complete ==
    ASSUME IInv, control = "declare"
    PROVE  \E k \in Nat :
              /\ cursor = 6 * k + 7 /\ 6 * k + 6 <= Len(text)
              /\ Current = k /\ MayDeclare(k)
              /\ Keyword = AtomOf(k, 1).name /\ Keyword \in DirectiveNames
              /\ Name = AtomOf(k, 3).name
              /\ Name \in StorableNames \ (VerbNames \cup DirectiveNames)
              /\ value = Written(k)
              /\ error_count = 0 /\ ~HasFailed /\ error_count < module_count
<1>1. PICK k \in Nat : /\ cursor = 6 * k + 1 + 6 /\ 6 * k + 6 <= Len(text)
                       /\ \A i \in 1..6 : Fits(k, i)
  BY DEF IInv, Placed, Behind
<1>2. Current = k
  BY <1>1 DEF Current
<1>3. Keyword = AtomOf(k, 1).name /\ Name = AtomOf(k, 3).name
  BY <1>1 DEF Keyword, Name, AtomOf
<1>4. Fits(k, 1) /\ Fits(k, 3)
  BY <1>1
<1>5. /\ Keyword \in DirectiveNames
      /\ Name \in StorableNames \ (VerbNames \cup DirectiveNames)
  BY <1>3, <1>4 DEF Fits, IsDirective
<1>6. error_count = 0 /\ ~HasFailed /\ error_count < module_count
  BY DeclarationsAssumption DEF IInv, Tallied, HasFailed, TypeOK
<1>7. value = Written(k)
  BY <1>2, <1>6 DEF IInv, Valued
<1>8. MayDeclare(k)
  BY <1>1 DEF MayDeclare
<1> QED
  BY <1>1, <1>2, <1>3, <1>5, <1>6, <1>7, <1>8

\* The next directive follows at once.
LEMMA NextDirective ==
    ASSUME IInv, control = "declare", Proceed("keyword"), UNCHANGED <<text_vars, value>>,
           TypeOK', IsFiniteSet(DOMAIN arenas')
    PROVE  IInv'
<1>1. PICK k \in Nat : cursor = 6 * k + 7 /\ 6 * k + 6 <= Len(text)
  BY Complete
<1>2. error_count < module_count /\ error_count = 0
  BY Complete
<1>3. cursor = 6 * (k + 1) + 1 + 0 /\ 6 * (k + 1) + 0 <= Len(text) /\ k + 1 \in Nat
  BY <1>1
<1>4. cursor' = cursor /\ text' = text
  BY DEF text_vars
<1>5. Behind(0)'
  BY <1>3, <1>4 DEF Behind
<1>6. ReportedOnce'
  BY DEF Proceed, IInv, ReportedOnce, HasFailed
<1> QED
  BY <1>2, <1>5, <1>6 DEF IInv, Proceed, Placed, Valued, Tallied

\* An identity is bound to the value, or its declaration is reported.
LEMMA BindIdentityKeeps == IInv /\ BindIdentity => IInv'
<1> SUFFICES ASSUME IInv, BindIdentity PROVE IInv'
  OBVIOUS
<1>1. /\ control = "declare" /\ UNCHANGED <<text_vars, value, arenas>>
      /\ error_count < module_count
      /\ Name \in StorableNames \ (VerbNames \cup DirectiveNames)
  BY Complete DEF BindIdentity
<1>2. TextTypeOK' /\ value \in Literals
  BY <1>1 DEF IInv, TypeOK, TextTypeOK, text_vars
<1>3. CASE bindings' = Extended(bindings, Name, value) /\ Proceed("keyword")
  <2>1. /\ DOMAIN bindings' = DOMAIN bindings \cup {Name}
        /\ \A name \in DOMAIN bindings' : bindings'[name] \in Literals
    BY <1>2, <1>3 DEF Extended, IInv, TypeOK
  <2>2. TypeOK'
    BY <1>1, <1>2, <1>3, <2>1 DEF IInv, TypeOK, TextTypeOK, Proceed, Controls
  <2> QED
    BY <1>1, <1>3, <2>2, NextDirective DEF IInv
<1>4. CASE UNCHANGED bindings /\ \E result \in Failures : Report(result)
  BY <1>1, <1>2, <1>4, Reported DEF Declared
<1> QED
  BY <1>3, <1>4 DEF BindIdentity, Failures

\* A size that is refused is reported.
LEMMA RefuseSlabKeeps == IInv /\ RefuseSlab => IInv'
<1> SUFFICES ASSUME IInv, RefuseSlab PROVE IInv'
  OBVIOUS
<1>1. /\ control = "declare" /\ UNCHANGED <<text_vars, value, bindings, arenas>>
      /\ error_count < module_count
      /\ \E result \in Failures : Report(result)
  BY Complete DEF RefuseSlab, Failures
<1>2. TextTypeOK'
  BY <1>1 DEF IInv, TypeOK, TextTypeOK, text_vars
<1> QED
  BY <1>1, <1>2, Reported DEF Declared

\* What is a capacity is a whole number of bytes within the limit.
LEMMA Capacity ==
    ASSUME NEW number \in Literals
    PROVE  /\ IsCapacity(number) =>
                 /\ number \div 2 \in 1..LLFPL_MEMORY_ARENA_MAXIMUM_SIZE_IN_BYTES
                 /\ 2 * (number \div 2) = number
           /\ ~IsCapacity(number) =>
                 \A size \in 1..LLFPL_MEMORY_ARENA_MAXIMUM_SIZE_IN_BYTES : number # 2 * size
<1>1. ASSUME IsCapacity(number)
      PROVE  /\ number \div 2 \in 1..LLFPL_MEMORY_ARENA_MAXIMUM_SIZE_IN_BYTES
             /\ 2 * (number \div 2) = number
  BY <1>1, DeclarationsAssumption DEF IsCapacity
<1>2. ASSUME NEW size \in 1..LLFPL_MEMORY_ARENA_MAXIMUM_SIZE_IN_BYTES, number = 2 * size
      PROVE  IsCapacity(number)
  <2>1. number \in 2..(2 * LLFPL_MEMORY_ARENA_MAXIMUM_SIZE_IN_BYTES) /\ number % 2 = 0
    BY <1>2, DeclarationsAssumption
  <2>2. number \notin {NaN, Infinity}
    BY <1>2, DeclarationsAssumption
  <2> QED
    BY <2>1, <2>2 DEF IsCapacity
<1> QED
  BY <1>1, <1>2

\* A reserved arena is one more, and there was room for it.
LEMMA ReserveArenaKeeps == IInv /\ ReserveArena => IInv'
<1> SUFFICES ASSUME IInv, ReserveArena PROVE IInv'
  OBVIOUS
<1>1. /\ control = "declare" /\ UNCHANGED <<text_vars, value, bindings>>
      /\ Name \in StorableNames \ (VerbNames \cup DirectiveNames)
      /\ Name \notin DOMAIN arenas /\ ~RegistryIsFull /\ IsCapacity(value)
      /\ arenas' = Extended(arenas, Name, value \div 2) /\ Proceed("keyword")
  BY Complete DEF ReserveArena
<1>2. TextTypeOK' /\ value \in Literals
  BY <1>1 DEF IInv, TypeOK, TextTypeOK, text_vars
<1>3. value \div 2 \in 1..LLFPL_MEMORY_ARENA_MAXIMUM_SIZE_IN_BYTES
  BY <1>1, <1>2, Capacity
<1>4. /\ DOMAIN arenas' = DOMAIN arenas \cup {Name}
      /\ \A name \in DOMAIN arenas' : arenas'[name] \in 1..LLFPL_MEMORY_ARENA_MAXIMUM_SIZE_IN_BYTES
  BY <1>1, <1>3 DEF Extended, IInv, TypeOK
<1>5. /\ IsFiniteSet(DOMAIN arenas')
      /\ Cardinality(DOMAIN arenas') <= LLFPL_MEMORY_ARENA_REGISTRY_CAPACITY
  <2>1. /\ IsFiniteSet(DOMAIN arenas')
        /\ Cardinality(DOMAIN arenas') = Cardinality(DOMAIN arenas) + 1
    BY <1>1, <1>4, FS_AddElement DEF IInv
  <2>2. Cardinality(DOMAIN arenas) \in Nat
    BY FS_CardinalityType DEF IInv
  <2> QED
    BY <1>1, <2>1, <2>2, DeclarationsAssumption DEF RegistryIsFull
<1>6. TypeOK'
  BY <1>1, <1>2, <1>4, <1>5 DEF IInv, TypeOK, TextTypeOK, Proceed, Controls
<1> QED
  BY <1>1, <1>5, <1>6, NextDirective

\* Every step keeps the invariant.
LEMMA Inductive == IInv /\ [Next]_vars => IInv'
<1> SUFFICES ASSUME IInv, [Next]_vars PROVE IInv'
  OBVIOUS
<1>1. CASE UNCHANGED vars
  BY <1>1 DEF vars, text_vars, IInv, TypeOK, TextTypeOK, Placed, Behind, Fits, IsDirective, AtomOf,
              Valued, Written, Current, Tallied, ReportedOnce, HasFailed
<1>2. CASE Next
  BY <1>2, ReadTextKeeps, ExecuteModuleKeeps, ReadKeywordKeeps, ExpectAtomKeeps, ReadNameKeeps,
     EvaluateKeeps, BindIdentityKeeps, RefuseSlabKeeps, ReserveArenaKeeps DEF Next
<1> QED
  BY <1>1, <1>2

\* The invariant holds of every reachable state.
THEOREM InvariantHolds == Spec => []IInv
  BY InitInv, Inductive, PTL DEF Spec

\* Every variable keeps its type: no reserved or overlong name is ever declared,
\* and no more arenas than there are slots.
THEOREM TypeCorrect == Spec => []TypeOK
<1>1. IInv => TypeOK
  BY DEF IInv
<1> QED
  BY <1>1, InvariantHolds, PTL

\* A module that fails has reported, exactly once.
THEOREM FailuresAreReportedOnce == Spec => []ReportedOnce
<1>1. IInv => ReportedOnce
  BY DEF IInv
<1> QED
  BY <1>1, InvariantHolds, PTL

-----------------------------------------------------------------------------
(* What a step may do. *)

\* Only a complete directive without an error before it declares.
LEMMA OnlyCompleteDeclares ==
    ASSUME [Next]_vars, <<bindings', arenas'>> # <<bindings, arenas>>
    PROVE  \/ /\ BindIdentity /\ Name \notin DOMAIN bindings
              /\ bindings' = Extended(bindings, Name, value)
           \/ ReserveArena
<1>1. ~UNCHANGED vars
  BY DEF vars
<1>2. ~ReadText /\ ~ExecuteModule /\ ~ReadKeyword /\ ~ExpectAtom /\ ~ReadName /\ ~Evaluate
  BY DEF ReadText, ExecuteModule, ReadKeyword, ExpectAtom, ReadName, Evaluate, Declared
<1>3. ~RefuseSlab
  BY DEF RefuseSlab
<1>4. BindIdentity => bindings' = Extended(bindings, Name, value) /\ Name \notin DOMAIN bindings
  BY DEF BindIdentity
<1> QED
  BY <1>1, <1>2, <1>3, <1>4 DEF Next

\* What is declared is added to what was.
LEMMA ExtendedGrows ==
    ASSUME NEW declared, NEW name, name \notin DOMAIN declared, NEW entry
    PROVE  /\ Grows(declared, Extended(declared, name, entry), name)
           /\ Extended(declared, name, entry)[name] = entry
  BY DEF Grows, Extended

\* All or nothing: whatever changes the declared data is a whole legal
\* declaration with the value that is written, and no error came before it.
THEOREM DeclaredAsWritten == Spec => EffectsAreWritten
<1>1. ASSUME IInv, [Next]_vars, <<bindings', arenas'>> # <<bindings, arenas>>
      PROVE  /\ ~HasFailed
             /\ 6 * Current + 6 = cursor - 1 /\ MayDeclare(Current)
             /\ IF AtomOf(Current, 1).name = "Identity"
                THEN /\ Grows(bindings, bindings', AtomOf(Current, 3).name) /\ arenas' = arenas
                     /\ bindings'[AtomOf(Current, 3).name] = Written(Current)
                ELSE /\ Grows(arenas, arenas', AtomOf(Current, 3).name) /\ bindings' = bindings
                     /\ arenas'[AtomOf(Current, 3).name] \in 1..LLFPL_MEMORY_ARENA_MAXIMUM_SIZE_IN_BYTES
                     /\ 2 * arenas'[AtomOf(Current, 3).name] = Written(Current)
                     /\ Cardinality(DOMAIN arenas') <= LLFPL_MEMORY_ARENA_REGISTRY_CAPACITY
  <2>1. control = "declare"
    BY <1>1, OnlyCompleteDeclares DEF BindIdentity, ReserveArena
  <2>2. PICK k \in Nat :
           /\ cursor = 6 * k + 7 /\ Current = k /\ MayDeclare(k) /\ ~HasFailed
           /\ Keyword = AtomOf(k, 1).name /\ Name = AtomOf(k, 3).name
           /\ value = Written(k)
    BY <1>1, <2>1, Complete
  <2>3. 6 * Current + 6 = cursor - 1
    BY <2>2
  <2>4. CASE /\ BindIdentity /\ bindings' = Extended(bindings, Name, value)
             /\ Name \notin DOMAIN bindings
    <3>1. Keyword = "Identity" /\ arenas' = arenas
      BY <2>4 DEF BindIdentity
    <3>2. Grows(bindings, bindings', Name) /\ bindings'[Name] = value
      BY <2>4, ExtendedGrows
    <3> QED
      BY <2>2, <2>3, <3>1, <3>2
  <2>5. CASE ReserveArena
    <3>1. /\ Keyword = "Slab" /\ bindings' = bindings /\ IsCapacity(value)
          /\ Name \notin DOMAIN arenas /\ arenas' = Extended(arenas, Name, value \div 2)
      BY <2>5 DEF ReserveArena
    <3>2. Grows(arenas, arenas', Name) /\ arenas'[Name] = value \div 2
      BY <3>1, ExtendedGrows
    <3>3. /\ 2 * arenas'[Name] = value
          /\ arenas'[Name] \in 1..LLFPL_MEMORY_ARENA_MAXIMUM_SIZE_IN_BYTES
      BY <1>1, <3>1, <3>2, Capacity DEF IInv, TypeOK
    <3>4. Cardinality(DOMAIN arenas') <= LLFPL_MEMORY_ARENA_REGISTRY_CAPACITY
      BY <1>1, Inductive DEF IInv, TypeOK
    <3> QED
      BY <2>2, <2>3, <3>1, <3>2, <3>3, <3>4
  <2> QED
    BY <1>1, <2>4, <2>5, OnlyCompleteDeclares
<1>2. IInv /\ [Next]_vars =>
        [LET name == AtomOf(Current, 3).name
             isIdentity == AtomOf(Current, 1).name = "Identity"
         IN  <<bindings', arenas'>> # <<bindings, arenas>> =>
                /\ ~HasFailed
                /\ 6 * Current + 6 = cursor - 1 /\ MayDeclare(Current)
                /\ IF isIdentity
                   THEN /\ Grows(bindings, bindings', name) /\ arenas' = arenas
                        /\ bindings'[name] = Written(Current)
                   ELSE /\ Grows(arenas, arenas', name) /\ bindings' = bindings
                        /\ arenas'[name] \in 1..LLFPL_MEMORY_ARENA_MAXIMUM_SIZE_IN_BYTES
                        /\ 2 * arenas'[name] = Written(Current)
                        /\ Cardinality(DOMAIN arenas') <= LLFPL_MEMORY_ARENA_REGISTRY_CAPACITY]_vars
  BY <1>1
<1> QED
  BY <1>2, InvariantHolds, PTL DEF Spec, EffectsAreWritten

\* The end of the source has no place in a declaration.
LEMMA EndFitsNowhere ==
    ASSUME NEW k \in Nat, NEW i \in 1..6, Fits(k, i)
    PROVE  AtomOf(k, i) # EndOfSource
<1>1. i \in {1, 2, 3, 4, 5, 6}
  OBVIOUS
<1>2. AtomOf(k, i).kind # "END_OF_SOURCE"
  BY <1>1 DEF Fits, IsDirective
<1>3. EndOfSource.kind = "END_OF_SOURCE"
  BY DEF EndOfSource
<1> QED
  BY <1>2, <1>3

\* A directive one of whose atoms has not its place is no declaration, also
\* when the source ends before it is complete.
LEMMA NoDeclaration ==
    ASSUME TextTypeOK, NEW offset \in 0..5, Behind(offset), Settled(1), Advance(1),
           offset = 0 => ~Reads("END_OF_SOURCE"),
           \A k \in Nat : cursor = 6 * k + (offset + 1) /\ cursor \in 1..Len(text)
                             => ~Fits(k, offset + 1)
    PROVE  ~MayDeclare((cursor' - 2) \div 6)
<1>1. PICK k \in Nat : /\ cursor = 6 * k + 1 + offset /\ 6 * k + offset <= Len(text)
                       /\ \A i \in 1..offset : Fits(k, i)
  BY DEF Behind
<1>2. DOMAIN text = 1..Len(text) /\ Len(text) \in Nat /\ cursor \in Nat
  BY LenProperties DEF TextTypeOK
<1>3. (cursor' - 2) \div 6 = k
  <2>1. CASE Reads("END_OF_SOURCE")
    <3>1. cursor' = cursor /\ offset # 0
      BY <2>1 DEF Advance
    <3> QED
      BY <1>1, <3>1
  <2>2. CASE ~Reads("END_OF_SOURCE")
    <3>1. cursor' = cursor + 1
      BY <2>2 DEF Advance
    <3> QED
      BY <1>1, <3>1
  <2> QED
    BY <2>1, <2>2
<1>4. cursor \in 1..Len(text)
  <2>1. CASE Reads("END_OF_SOURCE")
    <3> SUFFICES ASSUME cursor \notin 1..Len(text) PROVE FALSE
      OBVIOUS
    <3>0. Len(text) < cursor
      BY <1>1, <1>2
    <3>1. Len(text) = 6 * k + offset
      <4>1. cursor = 6 * k + 1 + offset /\ 6 * k + offset <= Len(text)
        BY <1>1
      <4>2. PICK length \in Nat : length = Len(text)
        BY <1>2
      <4> QED
        BY <3>0, <4>1, <4>2
    <3>2. text[Len(text)] = EndOfSource
      <4>1. ~(Len(text) >= cursor + 1 - 1)
        BY <1>2, <3>0
      <4> QED
        BY <4>1 DEF Settled
    <3>3. offset \in 1..offset /\ offset \in 1..6
      BY <2>1
    <3>4. AtomOf(k, offset) = EndOfSource /\ Fits(k, offset)
      BY <1>1, <3>1, <3>2, <3>3 DEF AtomOf
    <3> QED
      BY <3>3, <3>4, EndFitsNowhere
  <2>2. CASE ~Reads("END_OF_SOURCE")
    BY <2>2, AtomRead
  <2> QED
    BY <2>1, <2>2
<1>5. ~Fits(k, offset + 1) /\ 6 * k + (offset + 1) <= Len(text) /\ offset + 1 \in 1..6
  <2>1. cursor = 6 * k + (offset + 1)
    BY <1>1
  <2> QED
    BY <1>4, <2>1
<1> QED
  BY <1>3, <1>5 DEF MayDeclare

\* While a directive is read, an error means that it is no declaration.
LEMMA ReadingErrs ==
    ASSUME IInv, ReadKeyword \/ ExpectAtom \/ ReadName \/ Evaluate, error_count' > error_count
    PROVE  ~MayDeclare((cursor' - 2) \div 6)
<1>1. TextTypeOK /\ error_count \in Nat
  BY DEF IInv, TypeOK
<1>2. ASSUME cursor \in 1..Len(text) PROVE NextAtom = text[cursor]
  BY <1>1, <1>2, LenProperties DEF TextTypeOK, NextAtom, AtomAt
<1>3. CASE ReadKeyword
  <2>1. /\ Behind(0) /\ Settled(1) /\ Advance(1)
        /\ ~Reads("END_OF_SOURCE") /\ ~IsDirective(NextAtom)
    BY <1>1, <1>3 DEF ReadKeyword, Proceed, At, IInv, Placed
  <2>2. ASSUME NEW k \in Nat, cursor = 6 * k + (0 + 1) /\ cursor \in 1..Len(text)
        PROVE  ~Fits(k, 0 + 1)
    BY <1>2, <2>1, <2>2 DEF Fits, AtomOf
  <2> QED
    BY <1>1, <2>1, <2>2, NoDeclaration
<1>4. CASE ExpectAtom
  <2>1. /\ Settled(1) /\ Advance(1) /\ ~HasFailed /\ ~Reads(Expects[control])
        /\ control \in {"open", "separator", "close"}
    BY <1>1, <1>4 DEF ExpectAtom, Expects, Proceed, Unwinding
  <2>2. CASE control = "open"
    <3>1. ASSUME NEW k \in Nat, cursor = 6 * k + (1 + 1) /\ cursor \in 1..Len(text)
          PROVE  ~Fits(k, 1 + 1)
      BY <1>2, <2>1, <2>2, <3>1 DEF Fits, AtomOf, Reads, Expects
    <3> QED
      BY <1>1, <2>1, <2>2, <3>1, NoDeclaration DEF IInv, Placed
  <2>3. CASE control = "separator"
    <3>1. ASSUME NEW k \in Nat, cursor = 6 * k + (3 + 1) /\ cursor \in 1..Len(text)
          PROVE  ~Fits(k, 3 + 1)
      BY <1>2, <2>1, <2>3, <3>1 DEF Fits, AtomOf, Reads, Expects
    <3> QED
      BY <1>1, <2>1, <2>3, <3>1, NoDeclaration DEF IInv, Placed
  <2>4. CASE control = "close"
    <3>1. ASSUME NEW k \in Nat, cursor = 6 * k + (5 + 1) /\ cursor \in 1..Len(text)
          PROVE  ~Fits(k, 5 + 1)
      BY <1>2, <2>1, <2>4, <3>1 DEF Fits, AtomOf, Reads, Expects
    <3> QED
      BY <1>1, <2>1, <2>4, <3>1, NoDeclaration DEF IInv, Placed
  <2> QED
    BY <2>1, <2>2, <2>3, <2>4
<1>5. CASE ReadName
  <2>1. /\ Behind(2) /\ Settled(1) /\ Advance(1)
        /\ ~Reads("IDENTIFIER") \/ IsReserved(NextAtom.name) \/ NextAtom.name \notin StorableNames
    BY <1>1, <1>5 DEF ReadName, Proceed, At, IInv, Placed
  <2>2. ASSUME NEW k \in Nat, cursor = 6 * k + (2 + 1) /\ cursor \in 1..Len(text)
        PROVE  ~Fits(k, 2 + 1)
    BY <1>2, <2>1, <2>2 DEF Fits, AtomOf, Reads, IsReserved
  <2> QED
    BY <1>1, <2>1, <2>2, NoDeclaration
<1>6. CASE Evaluate
  <2>1. /\ Behind(4) /\ Settled(1) /\ Advance(1)
        /\ ~Reads("NUMERIC_LITERAL")
        /\ ~(Reads("IDENTIFIER") /\ NextAtom.name \in DOMAIN bindings)
    BY <1>1, <1>6 DEF Evaluate, At, IInv, Placed
  <2>2. ASSUME NEW k \in Nat, cursor = 6 * k + (4 + 1) /\ cursor \in 1..Len(text)
        PROVE  ~Fits(k, 4 + 1)
    BY <1>2, <2>1, <2>2 DEF Fits, AtomOf, Reads
  <2> QED
    BY <1>1, <2>1, <2>2, NoDeclaration
<1> QED
  BY <1>3, <1>4, <1>5, <1>6

\* A complete declaration is refused for a name that is taken, for a size that
\* is no capacity, or for want of room.
LEMMA DeclaringErrs ==
    ASSUME IInv, BindIdentity \/ RefuseSlab \/ ReserveArena, error_count' > error_count,
           NEW k, k = (cursor' - 2) \div 6
    PROVE  /\ control = "declare"
           /\ \/ IsTaken(k) /\ status' = "SEMANTIC_ERROR"
              \/ /\ AtomOf(k, 1).name = "Slab"
                 /\ \A size \in 1..LLFPL_MEMORY_ARENA_MAXIMUM_SIZE_IN_BYTES :
                       Written(k) # 2 * size
              \/ MayLackRoom(k) /\ status' = "CAPACITY_EXCEEDED"
              \/ status' = "OUT_OF_MEMORY"
<1>1. /\ control = "declare" /\ error_count \in Nat /\ value \in Literals
      /\ cursor' = cursor
  BY DEF BindIdentity, RefuseSlab, ReserveArena, IInv, TypeOK, text_vars
<1>2. Keyword = AtomOf(k, 1).name /\ Name = AtomOf(k, 3).name /\ value = Written(k)
  BY <1>1, Complete DEF Current
<1>3. CASE BindIdentity
  <2>1. /\ Keyword = "Identity"
        /\ \/ Name \in DOMAIN bindings /\ status' = "SEMANTIC_ERROR"
           \/ Cardinality(DOMAIN bindings) > GuaranteedBindings /\ status' = "CAPACITY_EXCEEDED"
    BY <1>1, <1>3 DEF BindIdentity, Proceed, Report, Return
  <2> QED
    BY <1>1, <1>2, <2>1 DEF IsTaken, MayLackRoom
<1>4. CASE RefuseSlab
  <2>1. Keyword = "Slab" /\ Keyword # "Identity"
    BY <1>4 DEF RefuseSlab
  <2>2. CASE ~IsCapacity(value)
    BY <1>1, <1>2, <2>1, <2>2, Capacity
  <2>3. CASE RegistryIsFull /\ status' = "CAPACITY_EXCEEDED"
    <3>1. Cardinality(DOMAIN arenas) = LLFPL_MEMORY_ARENA_REGISTRY_CAPACITY
      BY <2>3, FS_CardinalityType, DeclarationsAssumption DEF IInv, TypeOK, RegistryIsFull
    <3> QED
      BY <1>1, <1>2, <2>1, <2>3, <3>1 DEF MayLackRoom
  <2>4. CASE Name \in DOMAIN arenas /\ status' = "SEMANTIC_ERROR"
    BY <1>1, <1>2, <2>1, <2>4 DEF IsTaken
  <2>5. CASE status' = "OUT_OF_MEMORY"
    BY <1>1, <2>5
  <2> QED
    BY <1>4, <2>2, <2>3, <2>4, <2>5 DEF RefuseSlab, Report, Return
<1>5. CASE ReserveArena
  BY <1>1, <1>5 DEF ReserveArena, Proceed
<1> QED
  BY <1>3, <1>4, <1>5

\* A legal declaration is refused only for a name that is taken or for want of
\* room, after whatever was declared before.
THEOREM LegalIsNeverRefused == Spec => LegalNeverRefused
<1>1. IInv /\ [Next]_vars =>
        [error_count' > error_count =>
            LET k == (cursor' - 2) \div 6
            IN  \/ ~MayDeclare(k)
                \/ control = "declare" /\ IsTaken(k) /\ status' = "SEMANTIC_ERROR"
                \/ /\ control = "declare" /\ AtomOf(k, 1).name = "Slab"
                   /\ \A size \in 1..LLFPL_MEMORY_ARENA_MAXIMUM_SIZE_IN_BYTES :
                         Written(k) # 2 * size
                \/ control = "declare" /\ MayLackRoom(k) /\ status' = "CAPACITY_EXCEEDED"
                \/ status' = "OUT_OF_MEMORY"]_vars
  <2> SUFFICES ASSUME IInv, Next, error_count' > error_count, NEW k, k = (cursor' - 2) \div 6
               PROVE  \/ ~MayDeclare(k)
                      \/ control = "declare" /\ IsTaken(k) /\ status' = "SEMANTIC_ERROR"
                      \/ /\ control = "declare" /\ AtomOf(k, 1).name = "Slab"
                         /\ \A size \in 1..LLFPL_MEMORY_ARENA_MAXIMUM_SIZE_IN_BYTES :
                               Written(k) # 2 * size
                      \/ control = "declare" /\ MayLackRoom(k) /\ status' = "CAPACITY_EXCEEDED"
                      \/ status' = "OUT_OF_MEMORY"
    OBVIOUS
  <2>1. error_count \in Nat
    BY DEF IInv, TypeOK
  <2>2. ~ReadText /\ ~ExecuteModule
    BY <2>1 DEF ReadText, ExecuteModule
  <2>3. CASE ReadKeyword \/ ExpectAtom \/ ReadName \/ Evaluate
    BY <2>3, ReadingErrs
  <2>4. CASE BindIdentity \/ RefuseSlab \/ ReserveArena
    BY <2>4, DeclaringErrs
  <2> QED
    BY <2>2, <2>3, <2>4 DEF Next
<1> QED
  BY <1>1, InvariantHolds, PTL DEF Spec, LegalNeverRefused

=============================================================================
