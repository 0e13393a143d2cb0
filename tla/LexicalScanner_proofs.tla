------------------------ MODULE LexicalScanner_proofs ------------------------
(***************************************************************************)
(* The scanner on texts of any length over any alphabet: what is skipped,  *)
(* where an atom is placed, that it is the longest token there is, and the *)
(* path that is read across atoms.                                         *)
(***************************************************************************)
EXTENDS LexicalScanner, FiniteSetTheorems, SequenceTheorems, TLAPS

-----------------------------------------------------------------------------
(* Numbers. *)

\* A set of natural numbers has a least element.
LEMMA LeastNatural ==
    ASSUME NEW K, K \subseteq Nat, K # {}
    PROVE  \E m \in K : \A k \in K : m <= k
<1>1. PICK m \in K : \A k \in K : <<k, m>> \notin OpToRel(<, Nat)
  BY WFMin, NatLessThanWellFounded, Zenon
<1>2. \A k \in K : ~(k < m)
  BY <1>1 DEF OpToRel
<1> QED
  BY <1>2

\* One that is bounded has a greatest.
LEMMA GreatestNatural ==
    ASSUME NEW n \in Nat, NEW K, K \subseteq 0..n, K # {}
    PROVE  \E m \in K : \A k \in K : k <= m
<1> DEFINE Below == {n - k : k \in K}
<1>1. Below \subseteq Nat /\ Below # {}
  <2>1. \A k \in K : n - k \in Nat
    OBVIOUS
  <2> QED
    BY <2>1
<1>2. PICK least \in Below : \A b \in Below : least <= b
  BY <1>1, LeastNatural
<1>3. PICK m \in K : least = n - m
  BY <1>2
<1>4. ASSUME NEW k \in K PROVE k <= m
  <2>1. n - k \in Below /\ k \in Nat /\ m \in Nat
    OBVIOUS
  <2>2. n - m <= n - k
    BY <1>2, <1>3, <2>1
  <2> QED
    BY <2>1, <2>2
<1> QED
  BY <1>4

\* What Min chooses.
LEMMA MinIs ==
    ASSUME NEW K, K \subseteq Nat, K # {}
    PROVE  Min(K) \in K /\ \A k \in K : Min(K) <= k
BY LeastNatural DEF Min

\* What Max chooses of a bounded set.
LEMMA MaxIs ==
    ASSUME NEW n \in Nat, NEW K, K \subseteq 0..n, K # {}
    PROVE  Max(K) \in K /\ \A k \in K : k <= Max(K)
<1>1. \E m \in K : \A k \in K : m >= k
  <2>1. PICK m \in K : \A k \in K : k <= m
    BY GreatestNatural
  <2> QED
    BY <2>1
<1>2. Max(K) \in K /\ \A k \in K : Max(K) >= k
  BY <1>1 DEF Max
<1> QED
  BY <1>2

-----------------------------------------------------------------------------
(* Characters and runs of them. *)

Sourced == source \in Seq(Characters)

\* A character of the source, or none beyond its end.
LEMMA CharacterIs ==
    ASSUME Sourced, NEW i \in Nat \ {0}
    PROVE  /\ Len(source) \in Nat
           /\ CharacterAt(i) \in Characters \cup {NoCharacter}
           /\ CharacterAt(i) # NoCharacter => i \in 1..Len(source)
           /\ i \in 1..Len(source) => CharacterAt(i) = source[i] /\ source[i] \in Characters
           /\ i = Len(source) + 1 => CharacterAt(i) = NoCharacter
BY ElementOfSeq, LenProperties DEF Sourced, CharacterAt

\* A run ends at the first character that is not in the set.
LEMMA PastRunIs ==
    ASSUME Sourced, NEW set, NoCharacter \notin set, NEW i \in Positions
    PROVE  /\ PastRun(i, set) \in i..(Len(source) + 1) /\ PastRun(i, set) \in Positions
           /\ \A j \in i..(PastRun(i, set) - 1) : j \in 1..Len(source) /\ source[j] \in set
           /\ CharacterAt(PastRun(i, set)) \notin set
<1> DEFINE stops == {j \in i..(Len(source) + 1) : CharacterAt(j) \notin set}
<1>1. Len(source) \in Nat /\ i \in Nat \ {0} /\ i <= Len(source) + 1
  BY LenProperties DEF Sourced, Positions
<1>2. stops \subseteq Nat /\ Len(source) + 1 \in stops
  BY <1>1, CharacterIs
<1>3. PICK p \in stops : p = Min(stops) /\ \A j \in stops : p <= j
  BY <1>2, MinIs
<1>4. PastRun(i, set) = p
  BY <1>3 DEF PastRun
<1>5. p \in i..(Len(source) + 1) /\ CharacterAt(p) \notin set
  BY <1>3
<1>6. ASSUME NEW j \in i..(p - 1) PROVE j \in 1..Len(source) /\ source[j] \in set
  <2>1. j \in i..(Len(source) + 1) /\ j \notin stops /\ j \in Nat \ {0} /\ j \in 1..Len(source)
    BY <1>1, <1>3, <1>5
  <2>2. CharacterAt(j) \in set
    BY <2>1
  <2> QED
    BY <2>1, <2>2, CharacterIs
<1>7. p \in Positions
  BY <1>1, <1>5 DEF Positions
<1> HIDE DEF stops
<1> QED
  BY <1>4, <1>5, <1>6, <1>7

\* It comes as far as the characters are in the set.
LEMMA PastRunReaches ==
    ASSUME Sourced, NEW set, NoCharacter \notin set, NEW i \in Positions,
           NEW j \in i..(Len(source) + 1), \A k \in i..(j - 1) : source[k] \in set
    PROVE  /\ j <= PastRun(i, set)
           /\ CharacterAt(j) \notin set => PastRun(i, set) = j
<1>1. Len(source) \in Nat /\ i \in Nat \ {0} /\ j \in Nat \ {0}
  BY LenProperties DEF Sourced, Positions
<1>2. PICK p \in i..(Len(source) + 1) :
         /\ p = PastRun(i, set) /\ CharacterAt(p) \notin set
         /\ \A k \in i..(p - 1) : k \in 1..Len(source) /\ source[k] \in set
  BY PastRunIs
<1>3. j <= p
  <2>1. ASSUME p < j PROVE FALSE
    <3>1. p \in i..(j - 1) /\ p \in 1..Len(source) /\ p \in Nat \ {0}
      BY <1>1, <2>1
    <3> QED
      BY <1>2, <3>1, CharacterIs
  <2> QED
    BY <1>1, <2>1
<1>4. ASSUME CharacterAt(j) \notin set, j < p PROVE FALSE
  <2>1. j \in i..(p - 1)
    BY <1>1, <1>4
  <2> QED
    BY <1>1, <1>2, <1>4, <2>1, CharacterIs
<1> QED
  BY <1>1, <1>2, <1>3, <1>4


\* The characters that have a meaning of their own are of no class, and differ.
LEMMA MarksDiffer ==
    /\ Hyphen # NoCharacter /\ Hyphen \notin Punctuation /\ Point \notin Punctuation
    /\ Point # Hyphen /\ Point \notin Signs /\ Closing # Opening
    /\ Hyphen \in Signs /\ Opening \in Punctuation /\ Closing \in Punctuation
    /\ Closing \notin Signs /\ Closing \notin ExponentMarks
    /\ \A mark \in Punctuation : mark # Point /\ mark \notin Signs /\ mark \notin ExponentMarks
    /\ \A mark \in ExponentMarks : mark # Point /\ mark # Hyphen /\ mark \notin Signs
    /\ \A c \in Trimmed : c # Closing /\ c # NoCharacter
    /\ NoCharacter \notin Signs \cup ExponentMarks \cup Punctuation \cup {Point}
<1>1. /\ Hyphen # NoCharacter /\ Hyphen \notin Punctuation /\ Point \notin Punctuation
      /\ Point # Hyphen /\ Point \notin Signs /\ Closing # Opening
  BY Zenon DEF Hyphen, NoCharacter, Punctuation, Point, Opening, Closing, Signs
<1>2. Hyphen \in Signs /\ Opening \in Punctuation /\ Closing \in Punctuation
  BY Zenon DEF Punctuation, Signs
<1>3. Closing \notin Signs /\ Closing \notin ExponentMarks
  BY Zenon DEF Closing, Signs, Hyphen, ExponentMarks
<1>4. \A mark \in Punctuation : mark # Point /\ mark \notin Signs /\ mark \notin ExponentMarks
  BY Zenon DEF Punctuation, Opening, Closing, Point, Signs, Hyphen, ExponentMarks
<1>5. \A mark \in ExponentMarks : mark # Point /\ mark # Hyphen /\ mark \notin Signs
  BY Zenon DEF ExponentMarks, Point, Hyphen, Signs
<1>6. \A c \in Trimmed : c # Closing /\ c # NoCharacter
  BY Zenon DEF Trimmed, Closing, NoCharacter
<1>7. NoCharacter \notin Signs \cup ExponentMarks \cup Punctuation \cup {Point}
  BY Zenon DEF NoCharacter, Signs, Hyphen, ExponentMarks, Punctuation, Opening, Closing, Point
<1> QED
  BY <1>1, <1>2, <1>3, <1>4, <1>5, <1>6, <1>7

\* The classes of characters differ from each other and from the marks.
LEMMA ClassesDiffer ==
    /\ \A c \in Spaces : c \notin Digits /\ c \notin Heads /\ c \notin Bodies
    /\ \A c \in Punctuation \cup Signs \cup {Point} :
          c \notin Spaces /\ c \notin Digits /\ c \notin Heads /\ c \notin Bodies
    /\ \A c \in ExponentMarks : c \notin Spaces /\ c \notin Digits
    /\ \A c \in Digits : c \notin Heads
    /\ NoCharacter \notin Spaces \cup Digits \cup Heads \cup Bodies
    /\ LineBreak \in Spaces /\ LineBreak \in Characters
BY ScannerAssumption DEF Bodies

-----------------------------------------------------------------------------
(* What is skipped. *)

Onward(f, i) ==
    IF CharacterAt(i) \in Spaces THEN f[i + 1]
    ELSE IF OpensComment(i) THEN f[PastRun(i, Characters \ {LineBreak})]
    ELSE i

\* Skipping goes on, within the source; a comment ends with its line.
LEMMA SkippingGoesOn ==
    ASSUME Sourced, NEW i \in Positions
    PROVE  /\ CharacterAt(i) \in Spaces => i + 1 \in Positions /\ source[i] \in Spaces
           /\ OpensComment(i) =>
                LET past == PastRun(i, Characters \ {LineBreak}) IN
                /\ past \in Positions /\ i + 1 < past
                /\ source[i] = Hyphen /\ source[i + 1] = Hyphen
                /\ \A j \in i..(past - 1) : source[j] # LineBreak
           /\ i = Len(source) + 1 => CharacterAt(i) \notin Spaces /\ ~OpensComment(i)
<1>1. i \in Nat \ {0} /\ i + 1 \in Nat \ {0} /\ Len(source) \in Nat /\ i <= Len(source) + 1
  BY LenProperties DEF Sourced, Positions
<1>2. ASSUME CharacterAt(i) \in Spaces PROVE i + 1 \in Positions /\ source[i] \in Spaces
  <2>1. i \in 1..Len(source) /\ CharacterAt(i) = source[i]
    BY <1>1, <1>2, CharacterIs, ClassesDiffer
  <2> QED
    BY <1>1, <1>2, <2>1 DEF Positions
<1>3. ASSUME OpensComment(i), NEW past, past = PastRun(i, Characters \ {LineBreak})
      PROVE  /\ past \in Positions /\ i + 1 < past
             /\ source[i] = Hyphen /\ source[i + 1] = Hyphen
             /\ \A j \in i..(past - 1) : source[j] # LineBreak
  <2>1. CharacterAt(i) = Hyphen /\ CharacterAt(i + 1) = Hyphen
    BY <1>3 DEF OpensComment
  <2>2. Hyphen # NoCharacter /\ Hyphen # LineBreak
    BY MarksDiffer, ClassesDiffer
  <2>3. /\ i \in 1..Len(source) /\ i + 1 \in 1..Len(source)
        /\ source[i] = Hyphen /\ source[i + 1] = Hyphen /\ Hyphen \in Characters
    BY <1>1, <2>1, <2>2, CharacterIs
  <2>4. NoCharacter \notin Characters \ {LineBreak}
    BY ScannerAssumption
  <2>5. past \in Positions /\ \A j \in i..(past - 1) : source[j] \in Characters \ {LineBreak}
    BY <1>3, <2>4, PastRunIs
  <2>6. i + 2 \in i..(Len(source) + 1) /\ \A k \in i..((i + 2) - 1) : k = i \/ k = i + 1
    BY <1>1, <2>3
  <2>7. \A k \in i..((i + 2) - 1) : source[k] \in Characters \ {LineBreak}
    BY <2>2, <2>3, <2>6
  <2>8. i + 2 <= past
    BY <1>3, <2>4, <2>6, <2>7, PastRunReaches
  <2>9. past \in Nat
    BY <2>5 DEF Positions
  <2> QED
    BY <1>1, <2>3, <2>5, <2>8, <2>9
<1>4. ASSUME i = Len(source) + 1 PROVE CharacterAt(i) \notin Spaces /\ ~OpensComment(i)
  BY <1>1, <1>4, CharacterIs, ClassesDiffer, MarksDiffer DEF OpensComment
<1> QED
  BY <1>2, <1>3, <1>4

\* The recursion ends: of the positions from which on it is defined, the first is
\* the first of all.
LEMMA SkippedIs ==
    ASSUME Sourced
    PROVE  \A i \in Positions : Skipped[i] = Onward(Skipped, i)
<1> DEFINE N == Len(source) + 1
           Defines(f, k) == f = [i \in k..N |-> Onward(f, i)]
           K == {k \in Positions : \E f : Defines(f, k)}
<1>1. N \in Nat \ {0} /\ Positions = 1..N /\ N \in Positions
  BY LenProperties DEF Sourced, Positions
<1>2. N \in K
  <2> DEFINE last == [i \in N..N |-> N]
  <2>1. N..N = {N} /\ last[N] = N
    BY <1>1
  <2>2. Onward(last, N) = N
    BY <1>1, SkippingGoesOn DEF Onward
  <2>3. Defines(last, N)
    <3> HIDE DEF N
    <3> QED
      BY <2>1, <2>2
  <2> QED
    BY <1>1, <2>3
<1>3. PICK m \in K : \A k \in K : m <= k
  <2>1. K \subseteq Nat
    BY <1>1
  <2> QED
    BY <1>2, <2>1, LeastNatural
<1>4. PICK f : Defines(f, m)
  BY <1>3
<1>5. m = 1
  <2> SUFFICES ASSUME m # 1 PROVE FALSE
    OBVIOUS
  <2> DEFINE n == m - 1
             g == [i \in n..N |-> IF i = n THEN Onward(f, n) ELSE f[i]]
  <2>1. m \in 2..N /\ n \in Positions /\ n \in Nat \ {0} /\ n < m
    BY <1>1, <1>3
  <2>2. \A i \in m..N : i \in n..N /\ g[i] = f[i] /\ i \in Positions
    BY <1>1, <2>1
  <2>3. \A i \in n..N : i \in Positions /\ (i = n \/ i \in m..N)
    BY <1>1, <2>1
  <2>4. ASSUME NEW i \in n..N PROVE Onward(g, i) = Onward(f, i)
    <3>1. CharacterAt(i) \in Spaces => i + 1 \in m..N
      <4>1. CharacterAt(i) \in Spaces => i + 1 \in Positions
        BY <2>3, SkippingGoesOn
      <4> QED
        BY <1>1, <2>1, <2>4, <4>1
    <3>2. OpensComment(i) => PastRun(i, Characters \ {LineBreak}) \in m..N
      <4>1. PICK past : past = PastRun(i, Characters \ {LineBreak})
        OBVIOUS
      <4>2. OpensComment(i) => past \in Positions /\ i + 1 < past
        BY <2>3, <4>1, SkippingGoesOn
      <4>3. OpensComment(i) => past \in m..N
        BY <1>1, <2>1, <2>4, <4>2
      <4> QED
        BY <4>1, <4>3
    <3> QED
      BY <2>2, <3>1, <3>2 DEF Onward
  <2>5. ASSUME NEW i \in n..N PROVE g[i] = Onward(g, i)
    <3>1. CASE i = n
      BY <2>4, <3>1
    <3>2. CASE i \in m..N
      BY <1>4, <2>2, <2>4, <3>2
    <3> QED
      BY <2>3, <3>1, <3>2
  <2>6. Defines(g, n)
    BY <2>5
  <2>7. n \in K
    BY <2>1, <2>6
  <2> QED
    BY <1>3, <2>1, <2>7
<1>6. f = [i \in Positions |-> Onward(f, i)]
  BY <1>1, <1>4, <1>5
<1> QED
  BY <1>6 DEF Skipped, Onward


\* Insignificant texts that follow each other are one.
LEMMA InsignificantJoins ==
    ASSUME NEW first \in Nat, NEW mid \in Nat, NEW past \in Nat, first <= mid, mid <= past,
           IsInsignificant(first, mid), IsInsignificant(mid, past)
    PROVE  IsInsignificant(first, past)
<1> SUFFICES ASSUME NEW i \in first..(past - 1), source[i] \notin Spaces
             PROVE  \E j \in first..i : /\ j < past - 1 /\ source[j] = Hyphen /\ source[j + 1] = Hyphen
                                        /\ \A k \in j..i : source[k] # LineBreak
  BY DEF IsInsignificant
<1>1. CASE i \in first..(mid - 1)
  <2>1. PICK j \in first..i : /\ j < mid - 1 /\ source[j] = Hyphen /\ source[j + 1] = Hyphen
                              /\ \A k \in j..i : source[k] # LineBreak
    BY <1>1 DEF IsInsignificant
  <2>2. j < past - 1
    BY <2>1
  <2> QED
    BY <2>1, <2>2
<1>2. CASE i \in mid..(past - 1)
  <2>1. PICK j \in mid..i : /\ j < past - 1 /\ source[j] = Hyphen /\ source[j + 1] = Hyphen
                            /\ \A k \in j..i : source[k] # LineBreak
    BY <1>2 DEF IsInsignificant
  <2>2. j \in first..i
    BY <2>1
  <2> QED
    BY <2>1, <2>2
<1> QED
  BY <1>1, <1>2

\* What is skipped is insignificant, and ends where an atom begins.
LEMMA SkippedIsInsignificant ==
    ASSUME Sourced, NEW i \in Positions
    PROVE  /\ Skipped[i] \in Positions /\ i <= Skipped[i]
           /\ IsInsignificant(i, Skipped[i])
           /\ CharacterAt(Skipped[i]) \notin Spaces /\ ~OpensComment(Skipped[i])
<1> DEFINE Good(k) == /\ Skipped[k] \in Positions /\ k <= Skipped[k]
                      /\ IsInsignificant(k, Skipped[k])
                      /\ CharacterAt(Skipped[k]) \notin Spaces /\ ~OpensComment(Skipped[k])
           Bad == {k \in Positions : ~Good(k)}
<1>1. Len(source) \in Nat /\ Positions = 1..(Len(source) + 1)
  BY LenProperties DEF Sourced, Positions
<1> SUFFICES ASSUME Bad # {} PROVE FALSE
  OBVIOUS
<1>2. PICK m \in Bad : \A k \in Bad : k <= m
  <2>1. Len(source) + 1 \in Nat /\ Bad \subseteq 0..(Len(source) + 1)
    BY <1>1
  <2> QED
    BY <2>1, GreatestNatural
<1>3. m \in Positions /\ m \in Nat \ {0} /\ Skipped[m] = Onward(Skipped, m)
  BY <1>1, <1>2, SkippedIs
<1>4. \A n \in Positions : m < n => Good(n)
  BY <1>1, <1>2
<1> HIDE DEF Bad
<1>5. ASSUME NEW n \in Positions, m < n, IsInsignificant(m, n), Skipped[m] = Skipped[n]
      PROVE  Good(m)
  <2>1. Good(n)
    BY <1>4, <1>5
  <2>2. n \in Nat /\ Skipped[n] \in Nat /\ m <= n /\ m <= Skipped[n]
    BY <1>1, <1>3, <1>5, <2>1
  <2>3. IsInsignificant(m, Skipped[n])
    BY <1>3, <1>5, <2>1, <2>2, InsignificantJoins
  <2> QED
    BY <1>5, <2>1, <2>2, <2>3
<1>6. CASE CharacterAt(m) \in Spaces
  <2>1. m + 1 \in Positions /\ source[m] \in Spaces /\ m < m + 1
    BY <1>3, <1>6, SkippingGoesOn
  <2>2. \A k \in m..((m + 1) - 1) : k = m
    BY <1>3
  <2>3. IsInsignificant(m, m + 1)
    BY <2>1, <2>2 DEF IsInsignificant
  <2>4. Skipped[m] = Skipped[m + 1]
    BY <1>3, <1>6 DEF Onward
  <2> QED
    BY <1>2, <1>5, <2>1, <2>3, <2>4 DEF Bad
<1>7. CASE CharacterAt(m) \notin Spaces /\ OpensComment(m)
  <2>1. PICK past : past = PastRun(m, Characters \ {LineBreak})
    OBVIOUS
  <2>2. /\ past \in Positions /\ m + 1 < past /\ source[m] = Hyphen /\ source[m + 1] = Hyphen
        /\ \A j \in m..(past - 1) : source[j] # LineBreak
    BY <1>3, <1>7, <2>1, SkippingGoesOn
  <2>3. past \in Nat /\ m < past - 1 /\ m < past
    BY <1>1, <1>3, <2>2
  <2>4. ASSUME NEW j \in m..(past - 1)
        PROVE  m \in m..j /\ \A k \in m..j : k \in m..(past - 1)
    BY <1>3, <2>3
  <2>5. IsInsignificant(m, past)
    BY <2>2, <2>3, <2>4 DEF IsInsignificant
  <2>6. Skipped[m] = Skipped[past]
    BY <1>3, <1>7, <2>1 DEF Onward
  <2> QED
    BY <1>2, <1>5, <2>2, <2>3, <2>5, <2>6 DEF Bad
<1>8. CASE CharacterAt(m) \notin Spaces /\ ~OpensComment(m)
  <2>1. Skipped[m] = m
    BY <1>3, <1>8 DEF Onward
  <2>2. IsInsignificant(m, m)
    BY <1>3 DEF IsInsignificant
  <2> QED
    BY <1>2, <1>3, <1>8, <2>1, <2>2 DEF Bad
<1> QED
  BY <1>6, <1>7, <1>8


-----------------------------------------------------------------------------
(* Where an atom ends. *)

Whole(i) == PastRun(i, Digits)
Fraction(i) == IF CharacterAt(Whole(i)) = Point THEN PastRun(Whole(i) + 1, Digits) ELSE Whole(i)

\* Neither the end of the source nor a point is a digit.
LEMMA DigitsIs == NoCharacter \notin Digits /\ Point \notin Digits
BY ClassesDiffer

\* A fraction is digits, with a point among them or at an end.
LEMMA FractionIs ==
    ASSUME Sourced, NEW i \in Positions
    PROVE  /\ Whole(i) \in Positions /\ i <= Whole(i)
           /\ Fraction(i) \in Positions /\ Whole(i) <= Fraction(i)
           /\ \A j \in i..(Whole(i) - 1) : j \in 1..Len(source) /\ source[j] \in Digits
           /\ \/ CharacterAt(Whole(i)) # Point /\ Fraction(i) = Whole(i)
              \/ /\ Whole(i) \in 1..Len(source) /\ source[Whole(i)] = Point
                 /\ Whole(i) + 1 \in Positions /\ Whole(i) < Fraction(i)
                 /\ Fraction(i) = PastRun(Whole(i) + 1, Digits)
                 /\ \A j \in (Whole(i) + 1)..(Fraction(i) - 1) :
                       j \in 1..Len(source) /\ source[j] \in Digits
           /\ CharacterAt(Fraction(i)) \notin Digits
<1>1. Len(source) \in Nat /\ Positions = 1..(Len(source) + 1)
  BY LenProperties DEF Sourced, Positions
<1>2. PICK whole \in Positions :
         /\ whole = Whole(i) /\ i <= whole /\ CharacterAt(whole) \notin Digits
         /\ \A j \in i..(whole - 1) : j \in 1..Len(source) /\ source[j] \in Digits
  <2>1. /\ Whole(i) \in i..(Len(source) + 1) /\ Whole(i) \in Positions
        /\ \A j \in i..(Whole(i) - 1) : j \in 1..Len(source) /\ source[j] \in Digits
        /\ CharacterAt(Whole(i)) \notin Digits
    BY PastRunIs, DigitsIs DEF Whole
  <2> QED
    BY <1>1, <2>1
<1>3. CASE CharacterAt(whole) # Point
  <2>1. Fraction(i) = whole /\ whole <= whole
    BY <1>1, <1>2, <1>3 DEF Fraction
  <2> QED
    BY <1>2, <1>3, <2>1
<1>4. CASE CharacterAt(whole) = Point
  <2>1. whole \in 1..Len(source) /\ source[whole] = Point
    <3>1. whole \in Nat \ {0} /\ CharacterAt(whole) # NoCharacter
      BY <1>1, <1>4, MarksDiffer
    <3> QED
      BY <1>4, <3>1, CharacterIs
  <2>2. whole + 1 \in Positions
    BY <1>1, <2>1
  <2>3. PICK past \in Positions :
           /\ past = PastRun(whole + 1, Digits) /\ whole + 1 <= past
           /\ CharacterAt(past) \notin Digits
           /\ \A j \in (whole + 1)..(past - 1) : j \in 1..Len(source) /\ source[j] \in Digits
    <3>1. /\ PastRun(whole + 1, Digits) \in (whole + 1)..(Len(source) + 1)
          /\ PastRun(whole + 1, Digits) \in Positions
          /\ \A j \in (whole + 1)..(PastRun(whole + 1, Digits) - 1) :
                j \in 1..Len(source) /\ source[j] \in Digits
          /\ CharacterAt(PastRun(whole + 1, Digits)) \notin Digits
      BY <2>2, PastRunIs, DigitsIs
    <3> QED
      BY <1>1, <3>1
  <2>4. Fraction(i) = past
    BY <1>2, <1>4, <2>3 DEF Fraction
  <2>5. whole <= past /\ whole < past
    BY <1>1, <2>1, <2>3
  <2> QED
    BY <1>2, <2>1, <2>2, <2>3, <2>4, <2>5
<1> QED
  BY <1>3, <1>4

\* A mantissa ends where its fraction does, if there is a digit in it.
LEMMA MantissaIs ==
    ASSUME Sourced, NEW i \in Positions
    PROVE  /\ PastMantissa(i) \in Positions /\ i <= PastMantissa(i)
           /\ \A j \in i..(PastMantissa(i) - 1) :
                 j \in 1..Len(source) /\ source[j] \in Digits \cup {Point}
           /\ PastMantissa(i) \in {i, Fraction(i)}
           /\ i < PastMantissa(i) => /\ PastMantissa(i) = Fraction(i)
                                     /\ \E j \in i..(Fraction(i) - 1) : source[j] \in Digits
           /\ (\E j \in i..(Fraction(i) - 1) : source[j] \in Digits) => PastMantissa(i) = Fraction(i)
<1>1. Len(source) \in Nat /\ Positions = 1..(Len(source) + 1)
  BY LenProperties DEF Sourced, Positions
<1>2. PICK whole \in Positions, past \in Positions :
         whole = Whole(i) /\ past = Fraction(i) /\ i <= whole /\ whole <= past
  BY FractionIs
<1>3. PastMantissa(i) = IF \E j \in i..(past - 1) : source[j] \in Digits THEN past ELSE i
  BY <1>2 DEF PastMantissa, Fraction, Whole
<1>4. ASSUME NEW j \in i..(past - 1) PROVE j \in 1..Len(source) /\ source[j] \in Digits \cup {Point}
  <2>1. j \in i..(whole - 1) \/ j = whole \/ j \in (whole + 1)..(past - 1)
    BY <1>1, <1>2
  <2>2. j = whole => whole < past
    BY <1>1, <1>2
  <2>3. whole < past => source[whole] = Point /\ whole \in 1..Len(source)
    <3>1. \/ past = whole
          \/ whole \in 1..Len(source) /\ source[whole] = Point
      BY <1>2, FractionIs
    <3> QED
      BY <1>1, <3>1
  <2>4. j \in i..(whole - 1) => j \in 1..Len(source) /\ source[j] \in Digits
    BY <1>2, FractionIs
  <2>5. j \in (whole + 1)..(past - 1) => j \in 1..Len(source) /\ source[j] \in Digits
    <3>1. j \in (whole + 1)..(past - 1) => whole < past
      BY <1>1, <1>2
    <3> QED
      BY <1>2, <3>1, FractionIs
  <2> QED
    BY <2>1, <2>2, <2>3, <2>4, <2>5
<1>5. i <= past /\ i <= i /\ \A j \in i..(i - 1) : FALSE
  BY <1>1, <1>2
<1> QED
  BY <1>1, <1>2, <1>3, <1>4, <1>5

\* An exponent is a mark, perhaps a sign, and digits.
ExponentDigits(i) == IF CharacterAt(i + 1) \in Signs THEN i + 2 ELSE i + 1

\* It ends where its digits do, if there are any.
LEMMA ExponentIs ==
    ASSUME Sourced, NEW i \in Positions
    PROVE  /\ PastExponent(i) \in Positions /\ i <= PastExponent(i)
           /\ \/ /\ PastExponent(i) = i
                 /\ ~(CharacterAt(i) \in ExponentMarks /\ CharacterAt(ExponentDigits(i)) \in Digits)
              \/ /\ i \in 1..Len(source) /\ source[i] \in ExponentMarks
                 /\ ExponentDigits(i) \in 1..Len(source) /\ ExponentDigits(i) < PastExponent(i)
                 /\ \/ ExponentDigits(i) = i + 1
                    \/ /\ ExponentDigits(i) = i + 2
                       /\ i + 1 \in 1..Len(source) /\ source[i + 1] \in Signs
                 /\ PastExponent(i) = PastRun(ExponentDigits(i), Digits)
                 /\ \A j \in ExponentDigits(i)..(PastExponent(i) - 1) :
                       j \in 1..Len(source) /\ source[j] \in Digits
<1>1. Len(source) \in Nat /\ Positions = 1..(Len(source) + 1) /\ i \in Nat \ {0}
  BY LenProperties DEF Sourced, Positions
<1>2. PICK digits \in {i + 1, i + 2} :
         /\ digits = ExponentDigits(i)
         /\ digits = i + 2 => CharacterAt(i + 1) \in Signs
         /\ CharacterAt(i + 1) \in Signs => digits = i + 2
  BY <1>1 DEF ExponentDigits
<1>3. CASE ~(CharacterAt(i) \in ExponentMarks /\ CharacterAt(digits) \in Digits)
  <2>1. PastExponent(i) = i
    BY <1>2, <1>3 DEF PastExponent, ExponentDigits
  <2> QED
    BY <1>1, <1>2, <1>3, <2>1
<1>4. CASE CharacterAt(i) \in ExponentMarks /\ CharacterAt(digits) \in Digits
  <2>1. i \in 1..Len(source) /\ source[i] \in ExponentMarks
    BY <1>1, <1>4, CharacterIs, MarksDiffer
  <2>2. digits \in 1..Len(source) /\ source[digits] \in Digits
    <3>1. digits \in Nat \ {0} /\ CharacterAt(digits) # NoCharacter
      BY <1>1, <1>4, DigitsIs
    <3> QED
      BY <1>4, <3>1, CharacterIs
  <2>3. PastExponent(i) = PastRun(digits, Digits)
    BY <1>2, <1>4 DEF PastExponent, ExponentDigits
  <2>4. digits \in Positions
    BY <1>1, <2>2
  <2>5. PICK past \in digits..(Len(source) + 1) :
           /\ past = PastRun(digits, Digits) /\ past \in Positions
           /\ \A j \in digits..(past - 1) : j \in 1..Len(source) /\ source[j] \in Digits
           /\ CharacterAt(past) \notin Digits
    BY <2>4, PastRunIs, DigitsIs
  <2>6. digits < past /\ i <= past
    BY <1>1, <1>2, <1>4, <2>2, <2>5
  <2>7. digits = i + 2 => i + 1 \in 1..Len(source) /\ source[i + 1] \in Signs
    <3>1. digits = i + 2 => i + 1 \in 1..Len(source) /\ i + 1 \in Nat \ {0}
      BY <1>1, <2>2
    <3> QED
      BY <1>2, <3>1, CharacterIs
  <2> QED
    BY <1>2, <2>1, <2>2, <2>3, <2>5, <2>6, <2>7
<1> QED
  BY <1>3, <1>4


\* A literal is a sign or none, a mantissa and an exponent or none.
Unsigned(i) == IF CharacterAt(i) = Hyphen THEN i + 1 ELSE i
Numerals == Digits \cup Signs \cup ExponentMarks \cup {Point}

\* A sign is a character of the source.
LEMMA UnsignedIs ==
    ASSUME Sourced, NEW i \in Positions
    PROVE  /\ Unsigned(i) \in Positions
           /\ \/ CharacterAt(i) # Hyphen /\ Unsigned(i) = i
              \/ Unsigned(i) = i + 1 /\ i \in 1..Len(source) /\ source[i] = Hyphen
<1>1. Len(source) \in Nat /\ Positions = 1..(Len(source) + 1) /\ i \in Nat \ {0}
  BY LenProperties DEF Sourced, Positions
<1>2. CASE CharacterAt(i) = Hyphen
  <2>1. i \in 1..Len(source) /\ source[i] = Hyphen
    BY <1>1, <1>2, CharacterIs, MarksDiffer
  <2> QED
    BY <1>1, <1>2, <2>1 DEF Unsigned
<1> QED
  BY <1>1, <1>2 DEF Unsigned

\* It ends where its exponent does, and consists of numerals.
LEMMA LiteralIs ==
    ASSUME Sourced, NEW i \in Positions
    PROVE  /\ PastLiteral(i) \in Positions /\ i <= PastLiteral(i)
           /\ \/ PastLiteral(i) = i /\ PastMantissa(Unsigned(i)) = Unsigned(i)
              \/ /\ i < PastLiteral(i) /\ Unsigned(i) < PastMantissa(Unsigned(i))
                 /\ PastMantissa(Unsigned(i)) \in Positions
                 /\ PastLiteral(i) = PastExponent(PastMantissa(Unsigned(i)))
           /\ \A j \in i..(PastLiteral(i) - 1) : j \in 1..Len(source) /\ source[j] \in Numerals
<1>1. Len(source) \in Nat /\ Positions = 1..(Len(source) + 1) /\ i \in Nat \ {0}
  BY LenProperties DEF Sourced, Positions
<1>2. PICK unsigned \in Positions :
         /\ unsigned = Unsigned(i)
         /\ \/ unsigned = i
            \/ unsigned = i + 1 /\ i \in 1..Len(source) /\ source[i] = Hyphen
  BY UnsignedIs
<1>3. PICK mantissa \in Positions :
         /\ mantissa = PastMantissa(unsigned) /\ unsigned <= mantissa
         /\ \A j \in unsigned..(mantissa - 1) :
               j \in 1..Len(source) /\ source[j] \in Digits \cup {Point}
  BY MantissaIs
<1>4. PastLiteral(i) = IF mantissa = unsigned THEN i ELSE PastExponent(mantissa)
  BY <1>2, <1>3 DEF PastLiteral, Unsigned
<1>5. CASE mantissa = unsigned
  BY <1>1, <1>2, <1>3, <1>4, <1>5
<1>6. CASE mantissa # unsigned
  <2>1. PICK past \in Positions :
           /\ past = PastExponent(mantissa) /\ mantissa <= past
           /\ \/ past = mantissa
              \/ \E digits \in {mantissa + 1, mantissa + 2} :
                    /\ mantissa \in 1..Len(source) /\ source[mantissa] \in ExponentMarks
                    /\ digits = mantissa + 2 =>
                          mantissa + 1 \in 1..Len(source) /\ source[mantissa + 1] \in Signs
                    /\ \A j \in digits..(past - 1) :
                          j \in 1..Len(source) /\ source[j] \in Digits
    <3>1. PICK past, digits :
             /\ past \in Positions /\ past = PastExponent(mantissa) /\ mantissa <= past
             /\ digits = ExponentDigits(mantissa)
             /\ \/ past = mantissa
                \/ /\ mantissa \in 1..Len(source) /\ source[mantissa] \in ExponentMarks
                   /\ \/ digits = mantissa + 1
                      \/ /\ digits = mantissa + 2
                         /\ mantissa + 1 \in 1..Len(source) /\ source[mantissa + 1] \in Signs
                   /\ \A j \in digits..(past - 1) : j \in 1..Len(source) /\ source[j] \in Digits
      BY <1>3, ExponentIs
    <3>2. CASE past = mantissa
      BY <3>1, <3>2
    <3>3. CASE past # mantissa
      <4>1. digits \in {mantissa + 1, mantissa + 2}
        BY <3>1, <3>3
      <4>2. mantissa + 2 # mantissa + 1
        BY <1>1, <1>3
      <4> QED
        BY <3>1, <3>3, <4>1, <4>2
    <3> QED
      BY <3>2, <3>3
  <2>2. ASSUME NEW j \in i..(past - 1) PROVE j \in 1..Len(source) /\ source[j] \in Numerals
    <3>1. CASE j < unsigned
      <4>1. j = i /\ i \in 1..Len(source) /\ source[i] = Hyphen
        BY <1>1, <1>2, <2>2, <3>1
      <4> QED
        BY <4>1, MarksDiffer DEF Numerals
    <3>2. CASE j \in unsigned..(mantissa - 1)
      BY <1>3, <3>2 DEF Numerals
    <3>3. CASE mantissa <= j
      <4>1. PICK digits \in {mantissa + 1, mantissa + 2} :
               /\ mantissa \in 1..Len(source) /\ source[mantissa] \in ExponentMarks
               /\ digits = mantissa + 2 =>
                     mantissa + 1 \in 1..Len(source) /\ source[mantissa + 1] \in Signs
               /\ \A k \in digits..(past - 1) : k \in 1..Len(source) /\ source[k] \in Digits
        BY <1>1, <2>1, <2>2, <3>3
      <4>2. \/ j = mantissa
            \/ j = mantissa + 1 /\ digits = mantissa + 2
            \/ j \in digits..(past - 1)
        BY <1>1, <2>1, <2>2, <3>3, <4>1
      <4> QED
        BY <4>1, <4>2 DEF Numerals
    <3> QED
      BY <1>1, <1>2, <1>3, <2>1, <2>2, <3>1, <3>2, <3>3
  <2>3. unsigned < mantissa /\ i < past /\ i <= past
    BY <1>1, <1>2, <1>3, <1>6, <2>1
  <2> QED
    BY <1>2, <1>3, <1>4, <1>6, <2>1, <2>2, <2>3
<1> QED
  BY <1>5, <1>6

\* A numeral is no white space, no parenthesis and no comma; what begins with one
\* of them is no literal.
LEMMA NumeralsAre == \A c \in Numerals : c \notin Spaces /\ c \notin Punctuation
<1>1. \A c \in Digits : c \notin Spaces /\ c \notin Punctuation
  BY ClassesDiffer
<1>2. \A c \in Signs \cup ExponentMarks \cup {Point} : c \notin Spaces /\ c \notin Punctuation
  BY ClassesDiffer, MarksDiffer
<1> QED
  BY <1>1, <1>2 DEF Numerals

\* The kinds of atom that are named differ from each other and from a character.
LEMMA KindsDiffer ==
    /\ \A kind \in {"IDENTIFIER", "NUMERIC_LITERAL", "END_OF_SOURCE", "UNRECOGNISED", "none"} :
          kind \notin Punctuation /\ kind # Closing
    /\ "END_OF_SOURCE" \notin {"IDENTIFIER", "NUMERIC_LITERAL", "UNRECOGNISED", "none"}
    /\ "IDENTIFIER" \notin {"NUMERIC_LITERAL", "UNRECOGNISED", "none"}
    /\ "NUMERIC_LITERAL" \notin {"UNRECOGNISED", "none"} /\ "UNRECOGNISED" # "none"
BY Zenon DEF Punctuation, Opening, Closing

-----------------------------------------------------------------------------
(* The atom that is taken. *)

TakenAt(i, kind, past) ==
    \/ kind = "END_OF_SOURCE" /\ i = Len(source) + 1 /\ past = i
    \/ /\ i \in 1..Len(source)
       /\ \/ kind = "IDENTIFIER" /\ source[i] \in Heads /\ past = PastRun(i, Bodies)
          \/ /\ source[i] \notin Heads
             /\ \/ kind = "NUMERIC_LITERAL" /\ past = PastLiteral(i) /\ i < PastLiteral(i)
                \/ /\ PastLiteral(i) = i /\ past = i + 1
                   /\ \/ kind = source[i] /\ source[i] \in Punctuation
                      \/ kind = "UNRECOGNISED" /\ source[i] \notin Punctuation

\* An atom is taken in one of five ways, and none but the last is empty.
LEMMA TakenIs ==
    ASSUME Sourced, NEW i \in Positions
    PROVE  \E past \in Positions : \E kind \in Kinds :
              /\ AtomFrom(i) = [kind |-> kind, text_begin |-> i, text_length |-> past - i]
              /\ TakenAt(i, kind, past)
              /\ i <= past /\ (i <= Len(source) => i < past)
<1>1. Len(source) \in Nat /\ Positions = 1..(Len(source) + 1) /\ i \in Nat \ {0}
  BY LenProperties DEF Sourced, Positions
<1>2. PastLiteral(i) \in Positions /\ i <= PastLiteral(i)
  BY LiteralIs
<1>3. CASE i > Len(source)
  <2>1. AtomFrom(i) = [kind |-> "END_OF_SOURCE", text_begin |-> i, text_length |-> i - i]
    BY <1>3 DEF AtomFrom, Atom
  <2>2. TakenAt(i, "END_OF_SOURCE", i) /\ "END_OF_SOURCE" \in Kinds
    BY <1>1, <1>3 DEF TakenAt, Kinds
  <2> QED
    BY <1>1, <1>3, <2>1, <2>2
<1>4. CASE ~(i > Len(source)) /\ source[i] \in Heads
  <2>1. AtomFrom(i) = [kind |-> "IDENTIFIER", text_begin |-> i,
                       text_length |-> PastRun(i, Bodies) - i]
    BY <1>4 DEF AtomFrom, Atom
  <2>2. i \in 1..Len(source)
    BY <1>1, <1>4
  <2>3. TakenAt(i, "IDENTIFIER", PastRun(i, Bodies)) /\ "IDENTIFIER" \in Kinds
    BY <1>4, <2>2 DEF TakenAt, Kinds
  <2>4. NoCharacter \notin Bodies /\ source[i] \in Bodies
    BY <1>4, ClassesDiffer DEF Bodies
  <2>5. i + 1 \in i..(Len(source) + 1) /\ \A k \in i..((i + 1) - 1) : k = i
    BY <1>1, <2>2
  <2>6. PastRun(i, Bodies) \in Positions /\ i + 1 <= PastRun(i, Bodies)
    BY <2>4, <2>5, PastRunIs, PastRunReaches
  <2>7. i <= PastRun(i, Bodies) /\ i < PastRun(i, Bodies)
    BY <1>1, <2>6
  <2> QED
    BY <2>1, <2>3, <2>6, <2>7
<1>5. CASE ~(i > Len(source)) /\ source[i] \notin Heads /\ PastLiteral(i) > i
  <2>1. AtomFrom(i) = [kind |-> "NUMERIC_LITERAL", text_begin |-> i,
                       text_length |-> PastLiteral(i) - i]
    BY <1>5 DEF AtomFrom, Atom
  <2>2. i \in 1..Len(source) /\ i < PastLiteral(i)
    BY <1>1, <1>2, <1>5
  <2>3. TakenAt(i, "NUMERIC_LITERAL", PastLiteral(i)) /\ "NUMERIC_LITERAL" \in Kinds
    BY <1>5, <2>2 DEF TakenAt, Kinds
  <2> QED
    BY <1>2, <2>1, <2>2, <2>3
<1>6. CASE ~(i > Len(source)) /\ source[i] \notin Heads /\ ~(PastLiteral(i) > i)
  <2>1. i \in 1..Len(source) /\ PastLiteral(i) = i /\ i + 1 \in Positions /\ i < i + 1 /\ i <= i + 1
    BY <1>1, <1>2, <1>6
  <2>2. CASE source[i] \in Punctuation
    <3>1. AtomFrom(i) = [kind |-> source[i], text_begin |-> i, text_length |-> (i + 1) - i]
      BY <1>6, <2>2 DEF AtomFrom, Atom
    <3>2. TakenAt(i, source[i], i + 1) /\ source[i] \in Kinds
      BY <1>6, <2>1, <2>2 DEF TakenAt, Kinds
    <3> QED
      BY <2>1, <3>1, <3>2
  <2>3. CASE source[i] \notin Punctuation
    <3>1. AtomFrom(i) = [kind |-> "UNRECOGNISED", text_begin |-> i, text_length |-> (i + 1) - i]
      BY <1>6, <2>3 DEF AtomFrom, Atom
    <3>2. TakenAt(i, "UNRECOGNISED", i + 1) /\ "UNRECOGNISED" \in Kinds
      BY <1>6, <2>1, <2>3 DEF TakenAt, Kinds
    <3> QED
      BY <2>1, <3>1, <3>2
  <2> QED
    BY <2>2, <2>3
<1> QED
  BY <1>3, <1>4, <1>5, <1>6

\* No atom but a white-space character extends over a line, and none but the closing
\* parenthesis has one in it.
LEMMA TakenHasNoBreak ==
    ASSUME Sourced, NEW i \in Positions, CharacterAt(i) \notin Spaces,
           NEW kind, NEW past \in Positions, TakenAt(i, kind, past)
    PROVE  /\ \A j \in i..(past - 1) : j \in 1..Len(source) /\ source[j] # LineBreak
           /\ kind # Closing => \A j \in i..(past - 1) : source[j] # Closing
           /\ kind = Closing => i \in 1..Len(source) /\ source[i] = Closing /\ past = i + 1
<1>1. Len(source) \in Nat /\ Positions = 1..(Len(source) + 1) /\ i \in Nat \ {0}
  BY LenProperties DEF Sourced, Positions
<1>2. LineBreak \in Spaces /\ Closing \in Punctuation
  BY ClassesDiffer, MarksDiffer
<1>3. CASE kind = "END_OF_SOURCE" /\ past = i
  <2>1. kind # Closing
    BY <1>3, KindsDiffer
  <2>2. \A j \in i..(past - 1) : FALSE
    BY <1>1, <1>3
  <2> QED
    BY <2>1, <2>2
<1>4. CASE i \in 1..Len(source) /\ kind = "IDENTIFIER" /\ past = PastRun(i, Bodies)
  <2>1. kind # Closing
    BY <1>4, KindsDiffer
  <2>2. NoCharacter \notin Bodies /\ \A c \in Bodies : c # LineBreak /\ c # Closing
    BY <1>2, ClassesDiffer
  <2>3. \A j \in i..(past - 1) : j \in 1..Len(source) /\ source[j] \in Bodies
    BY <1>4, <2>2, PastRunIs
  <2> QED
    BY <2>1, <2>2, <2>3
<1>5. CASE i \in 1..Len(source) /\ kind = "NUMERIC_LITERAL" /\ past = PastLiteral(i)
  <2>1. kind # Closing
    BY <1>5, KindsDiffer
  <2>2. \A j \in i..(past - 1) : j \in 1..Len(source) /\ source[j] \in Numerals
    BY <1>5, LiteralIs
  <2> QED
    BY <1>2, <2>1, <2>2, NumeralsAre
<1>6. CASE /\ i \in 1..Len(source) /\ past = i + 1
           /\ \/ kind = source[i] /\ source[i] \in Punctuation
              \/ kind = "UNRECOGNISED" /\ source[i] \notin Punctuation
  <2>1. \A j \in i..(past - 1) : j = i
    BY <1>1, <1>6
  <2>2. source[i] # LineBreak
    BY <1>1, <1>2, <1>6, CharacterIs
  <2>3. "UNRECOGNISED" # Closing
    BY KindsDiffer
  <2> QED
    BY <1>2, <1>6, <2>1, <2>2, <2>3
<1> QED
  BY <1>3, <1>4, <1>5, <1>6 DEF TakenAt

-----------------------------------------------------------------------------
(* Lines. *)

Breaks(first, past) == {j \in first..(past - 1) : source[j] = LineBreak}
LineAt(i) == Cardinality(Breaks(1, i)) + 1
LineBeginAt(i) == IF Breaks(1, i) = {} THEN 1 ELSE Max(Breaks(1, i)) + 1

\* A line begins at or before each of its characters, and is numbered at most as high.
LEMMA LinesAre ==
    ASSUME NEW i \in Nat \ {0}
    PROVE  /\ IsFiniteSet(Breaks(1, i)) /\ LineAt(i) \in 1..i /\ LineBeginAt(i) \in 1..i
           /\ Breaks(1, i) # {} => \A j \in Breaks(1, i) : j < LineBeginAt(i)
           /\ Cardinality(Breaks(1, i)) \in Nat
<1>1. Breaks(1, i) \in SUBSET (1..(i - 1))
  BY DEF Breaks
<1>2. IsFiniteSet(1..(i - 1)) /\ Cardinality(1..(i - 1)) = i - 1
  <2>1. 1 \in Int /\ i - 1 \in Int
    OBVIOUS
  <2>2. IsFiniteSet(1..(i - 1)) /\ Cardinality(1..(i - 1)) = IF 1 > i - 1 THEN 0 ELSE (i - 1) - 1 + 1
    BY <2>1, FS_Interval
  <2> QED
    BY <2>2
<1>3. PICK n : n = Cardinality(Breaks(1, i))
  OBVIOUS
<1>4. IsFiniteSet(Breaks(1, i)) /\ n \in Nat /\ n <= i - 1
  BY <1>1, <1>2, <1>3, FS_Subset, FS_CardinalityType
<1>5. LineAt(i) \in 1..i
  BY <1>3, <1>4 DEF LineAt
<1>6. CASE Breaks(1, i) = {}
  BY <1>3, <1>4, <1>5, <1>6 DEF LineBeginAt
<1>7. CASE Breaks(1, i) # {}
  <2>1. i \in Nat /\ Breaks(1, i) \subseteq 0..i
    BY <1>1
  <2>2. Max(Breaks(1, i)) \in Breaks(1, i) /\ \A j \in Breaks(1, i) : j <= Max(Breaks(1, i))
    BY <1>7, <2>1, MaxIs
  <2>3. LineBeginAt(i) = Max(Breaks(1, i)) + 1
    BY <1>7 DEF LineBeginAt
  <2>4. PICK m \in Breaks(1, i) : m = Max(Breaks(1, i)) /\ \A j \in Breaks(1, i) : j <= m
    BY <2>2
  <2>5. m \in 1..(i - 1) /\ \A j \in Breaks(1, i) : j \in 1..(i - 1)
    BY <1>1, <2>4
  <2>6. m + 1 \in 1..i /\ \A j \in Breaks(1, i) : j < m + 1
    BY <2>4, <2>5
  <2> QED
    BY <1>3, <1>4, <1>5, <2>3, <2>4, <2>6
<1> QED
  BY <1>6, <1>7

\* What lies in between is counted once, and its last line break begins the line.
LEMMA LinesGoOn ==
    ASSUME NEW i \in Nat \ {0}, NEW k \in Nat, i <= k
    PROVE  /\ LineAt(k) = LineAt(i) + Cardinality(Breaks(i, k))
           /\ LineBeginAt(k) = IF Breaks(i, k) = {} THEN LineBeginAt(i) ELSE Max(Breaks(i, k)) + 1
<1>1. k \in Nat \ {0}
  OBVIOUS
<1>2. /\ Breaks(1, k) = Breaks(1, i) \cup Breaks(i, k) /\ Breaks(1, i) \cap Breaks(i, k) = {}
      /\ Breaks(i, k) \in SUBSET Breaks(1, k)
  BY DEF Breaks
<1>3. LineAt(k) = LineAt(i) + Cardinality(Breaks(i, k))
  <2>1. IsFiniteSet(Breaks(1, k)) /\ IsFiniteSet(Breaks(1, i))
    BY <1>1, LinesAre
  <2>2. IsFiniteSet(Breaks(i, k))
    BY <1>2, <2>1, FS_Subset
  <2>3. Cardinality(Breaks(1, k)) = Cardinality(Breaks(1, i)) + Cardinality(Breaks(i, k))
                                     - Cardinality(Breaks(1, i) \cap Breaks(i, k))
    BY <1>2, <2>1, <2>2, FS_Union
  <2>4. Cardinality(Breaks(1, i) \cap Breaks(i, k)) = 0
    BY <1>2, FS_EmptySet
  <2>5. Cardinality(Breaks(1, i)) \in Nat /\ Cardinality(Breaks(i, k)) \in Nat
    BY <2>1, <2>2, FS_CardinalityType
  <2> HIDE DEF Breaks
  <2> QED
    BY <2>3, <2>4, <2>5 DEF LineAt
<1>4. CASE Breaks(i, k) = {}
  BY <1>2, <1>3, <1>4 DEF LineBeginAt
<1>5. CASE Breaks(i, k) # {}
  <2>1. Breaks(1, k) # {} /\ Breaks(1, k) \subseteq 0..k /\ Breaks(i, k) \subseteq 0..k
    BY <1>2, <1>5 DEF Breaks
  <2>2. Max(Breaks(1, k)) \in Breaks(1, k) /\ \A j \in Breaks(1, k) : j <= Max(Breaks(1, k))
    BY <2>1, MaxIs
  <2>3. Max(Breaks(i, k)) \in Breaks(i, k) /\ \A j \in Breaks(i, k) : j <= Max(Breaks(i, k))
    BY <1>5, <2>1, MaxIs
  <2>4. PICK m \in Breaks(1, k) : m = Max(Breaks(1, k)) /\ \A j \in Breaks(1, k) : j <= m
    BY <2>2
  <2>5. PICK n \in Breaks(i, k) : n = Max(Breaks(i, k)) /\ \A j \in Breaks(i, k) : j <= n
    BY <2>3
  <2>6. n \in Breaks(1, k) /\ m \in Nat /\ n \in Nat /\ i <= n
    BY <1>2, <2>4, <2>5 DEF Breaks
  <2>7. m \in Breaks(i, k)
    <3>1. n <= m
      BY <2>4, <2>6
    <3>2. m \in Breaks(1, i) => m < i
      BY DEF Breaks
    <3> QED
      BY <1>2, <2>4, <2>6, <3>1, <3>2
  <2>8. m = n
    <3>1. n <= m /\ m <= n
      BY <2>4, <2>5, <2>6, <2>7
    <3> QED
      BY <2>6, <3>1
  <2> QED
    BY <1>3, <1>5, <2>1, <2>4, <2>5, <2>8 DEF LineBeginAt
<1> QED
  BY <1>4, <1>5

-----------------------------------------------------------------------------
(* The invariant. *)

\* The lines are counted up to the cursor.
Counted == line_number = LineAt(cursor) /\ current_line_begin = LineBeginAt(cursor)

\* The last atom is the one that begins where it does, behind what is skipped.
Placed ==
    /\ atom.asked \in Positions /\ atom.text_begin \in Positions /\ atom.asked <= atom.text_begin
    /\ IsInsignificant(atom.asked, atom.text_begin)
    /\ atom.line_number = LineAt(atom.text_begin)
    /\ atom.column_number = atom.text_begin - LineBeginAt(atom.text_begin) + 1
    /\ atom.kind # "none" =>
          /\ CharacterAt(atom.text_begin) \notin Spaces /\ ~OpensComment(atom.text_begin)
          /\ \E past \in Positions :
                /\ TakenAt(atom.text_begin, atom.kind, past)
                /\ atom.text_length = past - atom.text_begin
                /\ atom.text_begin <= past
                /\ atom.text_begin <= Len(source) => atom.text_begin < past

\* No closing parenthesis but in a comment has been passed by a reader of a path.
Reading ==
    specification.state = "reading" =>
       /\ specification \in [state : {"reading"}, begin : Positions]
       /\ specification.begin <= cursor
       /\ \A i \in specification.begin..(cursor - 1) :
             source[i] = Closing => Commented(specification.begin, i)

IInv == TypeOK /\ Counted /\ Placed /\ Reading /\ PathIsVerbatim

\* What taking an atom does.
Takes(begin, kind, past) ==
    /\ begin \in Positions /\ past \in Positions /\ kind \in Kinds
    /\ cursor <= begin /\ begin <= past /\ (begin <= Len(source) => begin < past)
    /\ IsInsignificant(cursor, begin)
    /\ CharacterAt(begin) \notin Spaces /\ ~OpensComment(begin)
    /\ TakenAt(begin, kind, past)

\* Taking an atom counts the lines that are skipped; none ends in the atom.
LEMMA AtomIsTaken ==
    ASSUME TypeOK, Counted, TakeAtom
    PROVE  \E begin, kind, past :
              /\ Takes(begin, kind, past) /\ cursor' = past
              /\ line_number' = LineAt(begin) /\ line_number' = LineAt(past)
              /\ current_line_begin' = LineBeginAt(begin) /\ current_line_begin' = LineBeginAt(past)
              /\ atom' = [kind |-> kind, asked |-> cursor, text_begin |-> begin,
                          text_length |-> past - begin, line_number |-> LineAt(begin),
                          column_number |-> begin - LineBeginAt(begin) + 1]
<1>1. /\ Sourced /\ cursor \in Positions /\ Len(source) \in Nat
      /\ Positions = 1..(Len(source) + 1)
  BY LenProperties DEF TypeOK, Sourced, Positions
<1>2. PICK begin \in Positions :
         /\ begin = Skipped[cursor] /\ cursor <= begin /\ IsInsignificant(cursor, begin)
         /\ CharacterAt(begin) \notin Spaces /\ ~OpensComment(begin)
  BY <1>1, SkippedIsInsignificant
<1>3. PICK past \in Positions, kind \in Kinds :
         /\ AtomFrom(begin) = [kind |-> kind, text_begin |-> begin, text_length |-> past - begin]
         /\ TakenAt(begin, kind, past)
         /\ begin <= past /\ (begin <= Len(source) => begin < past)
  BY <1>1, TakenIs
<1>4. Takes(begin, kind, past)
  BY <1>2, <1>3 DEF Takes
<1>5. cursor \in Nat \ {0} /\ begin \in Nat \ {0} /\ past \in Nat
  BY <1>1
<1>6. LineAt(begin) = LineAt(cursor) + Cardinality(Breaks(cursor, begin))
      /\ LineBeginAt(begin) = IF Breaks(cursor, begin) = {} THEN LineBeginAt(cursor)
                              ELSE Max(Breaks(cursor, begin)) + 1
  BY <1>2, <1>5, LinesGoOn
<1>7. BreaksBefore(begin) = Breaks(cursor, begin)
  BY DEF BreaksBefore, Breaks
<1>8. line_number' = LineAt(begin) /\ current_line_begin' = LineBeginAt(begin)
  BY <1>2, <1>6, <1>7 DEF TakeAtom, LineBegin, Counted
<1>9. LineAt(past) = LineAt(begin) /\ LineBeginAt(past) = LineBeginAt(begin)
  <2>1. Breaks(begin, past) = {}
    BY <1>1, <1>2, <1>3, TakenHasNoBreak DEF Breaks
  <2>2. Cardinality(Breaks(begin, past)) = 0
    BY <2>1, FS_EmptySet
  <2>3. LineAt(begin) \in Nat
    BY <1>5, LinesAre
  <2>4. LineAt(past) = LineAt(begin) + Cardinality(Breaks(begin, past))
        /\ LineBeginAt(past) = IF Breaks(begin, past) = {} THEN LineBeginAt(begin)
                               ELSE Max(Breaks(begin, past)) + 1
    BY <1>3, <1>5, LinesGoOn
  <2> QED
    BY <2>1, <2>2, <2>3, <2>4
<1>10. cursor' = past
  <2>1. cursor' = begin + (past - begin)
    BY <1>2, <1>3 DEF TakeAtom
  <2> QED
    BY <1>5, <2>1
<1>11. atom' = [kind |-> kind, asked |-> cursor, text_begin |-> begin,
                text_length |-> past - begin, line_number |-> LineAt(begin),
                column_number |-> begin - LineBeginAt(begin) + 1]
  BY <1>2, <1>3, <1>8 DEF TakeAtom
<1> QED
  BY <1>4, <1>8, <1>9, <1>10, <1>11

\* The source does not change, and with it nothing of an atom of it.
LEMMA TakenStays ==
    ASSUME UNCHANGED source, NEW i, NEW kind, NEW past
    PROVE  /\ TakenAt(i, kind, past) => TakenAt(i, kind, past)'
           /\ \A begin, what : begin = i /\ what = kind /\ TakenAt(i, kind, past)'
                 => TakenAt(begin, what, past)'
<1>1. \A j : CharacterAt(j)' = CharacterAt(j)
  BY DEF CharacterAt
<1>2. \A j, set : PastRun(j, set)' = PastRun(j, set)
  BY <1>1 DEF PastRun
<1>3. \A j : PastMantissa(j)' = PastMantissa(j)
  BY <1>1, <1>2 DEF PastMantissa
<1>4. \A j : PastExponent(j)' = PastExponent(j)
  BY <1>1, <1>2 DEF PastExponent
<1>5. \A j : PastLiteral(j)' = PastLiteral(j)
  BY <1>1, <1>3, <1>4 DEF PastLiteral
<1>6. TakenAt(i, kind, past) => TakenAt(i, kind, past)'
  BY <1>2, <1>5 DEF TakenAt
<1> QED
  BY <1>6

\* An atom is taken at a position, with a line and a column of the source.
LEMMA TakeAtomKeepsInv ==
    ASSUME TypeOK, Counted, TakeAtom, UNCHANGED source, specification'.state \in SpecificationStates
    PROVE  TypeOK' /\ Counted' /\ Placed'
<1>1. Len(source) \in Nat /\ Positions = 1..(Len(source) + 1) /\ cursor \in Positions
  BY LenProperties DEF TypeOK, Positions
<1>2. PICK begin, kind, past :
         /\ Takes(begin, kind, past) /\ cursor' = past
         /\ line_number' = LineAt(begin) /\ line_number' = LineAt(past)
         /\ current_line_begin' = LineBeginAt(begin) /\ current_line_begin' = LineBeginAt(past)
         /\ atom' = [kind |-> kind, asked |-> cursor, text_begin |-> begin,
                     text_length |-> past - begin, line_number |-> LineAt(begin),
                     column_number |-> begin - LineBeginAt(begin) + 1]
  BY AtomIsTaken
<1>3. begin \in Positions /\ past \in Positions /\ kind \in Kinds /\ cursor <= begin /\ begin <= past
  BY <1>2 DEF Takes
<1>4. begin \in Nat \ {0} /\ past \in Nat \ {0}
  BY <1>1, <1>3
<1>5. LineAt(begin) \in 1..begin /\ LineBeginAt(begin) \in 1..begin
  BY <1>4, LinesAre
<1>6. Positions' = Positions
  BY DEF Positions
<1>7. TypeOK'
  <2>1. LineAt(begin) \in Positions /\ LineBeginAt(begin) \in Positions
    BY <1>1, <1>3, <1>5
  <2>2. begin - LineBeginAt(begin) + 1 \in Positions /\ past - begin \in 0..Len(source)
    BY <1>1, <1>3, <1>5
  <2>3. atom' \in [kind : Kinds \cup {"none"}, asked : Positions, text_begin : Positions,
                   text_length : 0..Len(source), line_number : Positions,
                   column_number : Positions]
    BY <1>1, <1>2, <1>3, <2>1, <2>2
  <2>4. source' \in Seq(Characters)
    BY DEF TypeOK
  <2>5. cursor' \in Positions /\ line_number' \in Positions /\ current_line_begin' \in Positions
    BY <1>2, <1>3, <2>1
  <2> QED
    BY <1>6, <2>3, <2>4, <2>5 DEF TypeOK
<1>8. Counted'
  BY <1>2 DEF Counted, LineAt, LineBeginAt, Breaks
<1>9. Placed'
  <2>1. CharacterAt(begin)' = CharacterAt(begin) /\ OpensComment(begin)' = OpensComment(begin)
    BY DEF CharacterAt, OpensComment
  <2>2. TakenAt(begin, kind, past) => TakenAt(begin, kind, past)'
    BY TakenStays
  <2>3. IsInsignificant(cursor, begin)
    BY <1>2 DEF Takes
  <2>4. /\ (atom.asked)' \in Positions' /\ (atom.text_begin)' \in Positions'
        /\ (atom.asked)' <= (atom.text_begin)'
    BY <1>1, <1>2, <1>3, <1>6
  <2>5. IsInsignificant(atom.asked, atom.text_begin)'
    BY <1>2, <2>3 DEF IsInsignificant
  <2>6. /\ (atom.line_number = LineAt(atom.text_begin))'
        /\ (atom.column_number = atom.text_begin - LineBeginAt(atom.text_begin) + 1)'
    BY <1>2 DEF LineAt, LineBeginAt, Breaks
  <2>7. CharacterAt(begin)' \notin Spaces /\ ~OpensComment(begin)'
    BY <1>2, <2>1 DEF Takes
  <2>8. (CharacterAt(atom.text_begin) \notin Spaces /\ ~OpensComment(atom.text_begin))'
    BY <1>2, <2>7 DEF CharacterAt, OpensComment
  <2>9. TakenAt(begin, kind, past)' /\ begin <= past /\ (begin <= Len(source) => begin < past)
    BY <1>2, <2>2 DEF Takes
  <2>10. (\E p \in Positions : /\ TakenAt(atom.text_begin, atom.kind, p)
                               /\ atom.text_length = p - atom.text_begin
                               /\ atom.text_begin <= p
                               /\ atom.text_begin <= Len(source) => atom.text_begin < p)'
    <3>1. (atom.text_begin)' = begin /\ (atom.kind)' = kind
      BY <1>2
    <3>2. TakenAt(atom.text_begin, atom.kind, past)'
      BY <2>9, <3>1, TakenStays
    <3> QED
      BY <1>2, <1>3, <1>6, <2>9, <3>2
  <2> QED
    BY <2>4, <2>5, <2>6, <2>8, <2>10 DEF Placed
<1> QED
  BY <1>7, <1>8, <1>9

\* What is skipped closes nothing that is no comment.
LEMMA SkippedClosesNothing ==
    ASSUME NEW first \in Nat \ {0}, NEW begin \in Nat \ {0}, NEW past \in Nat \ {0},
           first <= begin, begin <= past, IsInsignificant(begin, past)
    PROVE  \A i \in begin..(past - 1) : source[i] = Closing => Commented(first, i)
<1> SUFFICES ASSUME NEW i \in begin..(past - 1), source[i] = Closing PROVE Commented(first, i)
  OBVIOUS
<1>1. Closing \notin Spaces /\ Closing # Hyphen
  BY MarksDiffer, ClassesDiffer
<1>2. PICK j \in begin..i : j < past - 1 /\ source[j] = Hyphen /\ source[j + 1] = Hyphen
  BY <1>1 DEF IsInsignificant
<1>3. j # i /\ j + 1 # i
  BY <1>1, <1>2
<1>4. j \in first..(i - 2)
  BY <1>2, <1>3
<1> QED
  BY <1>2, <1>4 DEF Commented

\* It holds of a text that nothing was read of.
LEMMA InitInv == Init => IInv
<1> SUFFICES ASSUME Init PROVE IInv
  OBVIOUS
<1>1. source \in Seq(Characters) /\ Len(source) \in Nat
  <2>1. PICK alphabet \in DOMAIN MaximumLength : \E length \in 0..MaximumLength[alphabet] :
           source \in [1..length -> alphabet]
    BY DEF Init
  <2>2. MaximumLength[alphabet] \in Nat
    BY ScannerAssumption
  <2>3. PICK length \in Nat : source \in [1..length -> alphabet]
    BY <2>1, <2>2
  <2>4. source \in [1..length -> Characters]
    BY <2>1, <2>3 DEF Characters
  <2> QED
    BY <2>3, <2>4, LenProperties
<1>2. /\ cursor = 1 /\ line_number = 1 /\ current_line_begin = 1 /\ specification = None
      /\ atom = [kind |-> "none", asked |-> 1, text_begin |-> 1, text_length |-> 0,
                 line_number |-> 1, column_number |-> 1]
  BY DEF Init
<1>3. Positions = 1..(Len(source) + 1) /\ 1 \in Positions
  BY <1>1 DEF Positions
<1>4. TypeOK
  <2>1. atom \in [kind : Kinds \cup {"none"}, asked : Positions, text_begin : Positions,
                  text_length : 0..Len(source), line_number : Positions,
                  column_number : Positions]
    BY <1>1, <1>2, <1>3
  <2>2. specification.state \in SpecificationStates
    BY <1>2 DEF None, SpecificationStates
  <2> QED
    BY <1>1, <1>2, <1>3, <2>1, <2>2 DEF TypeOK
<1>5. LineAt(1) = 1 /\ LineBeginAt(1) = 1
  <2>1. LineAt(1) \in 1..1 /\ LineBeginAt(1) \in 1..1
    BY LinesAre
  <2> QED
    BY <2>1
<1>6. Counted
  BY <1>2, <1>5 DEF Counted
<1>7. Placed
  <2>1. IsInsignificant(1, 1)
    BY DEF IsInsignificant
  <2> QED
    BY <1>2, <1>3, <1>5, <2>1 DEF Placed
<1>8. Reading /\ PathIsVerbatim
  <2>1. specification.state = "none" /\ FirstClosing = {}
    BY <1>2 DEF FirstClosing, None
  <2>2. specification.state # "reading" /\ specification.state # "read"
    BY <2>1
  <2>3. Reading
    BY <1>2, <2>2 DEF Reading
  <2>4. PathIsVerbatim
    BY <2>1, <2>2 DEF PathIsVerbatim
  <2> QED
    BY <2>3, <2>4
<1> QED
  BY <1>4, <1>6, <1>7, <1>8 DEF IInv

-----------------------------------------------------------------------------
(* The path of a Require. *)

\* A part of the source, up to the position before past.
Slice(first, past) == SubSeq(source, first, past - 1)

\* It is as long as it is said to be, of the characters of the source.
LEMMA SliceIs ==
    ASSUME Sourced, NEW first \in Positions, NEW past \in first..(Len(source) + 1)
    PROVE  /\ Slice(first, past) \in Seq(Characters) /\ Len(Slice(first, past)) = past - first
           /\ \A i \in 1..(past - first) : Slice(first, past)[i] = source[first + i - 1]
<1>1. Len(source) \in Nat /\ first \in Nat \ {0} /\ first <= past /\ past \in Nat
  BY LenProperties DEF Sourced, Positions
<1>2. \A i \in first..(past - 1) : source[i] \in Characters
  <2>1. \A i \in first..(past - 1) : i \in 1..Len(source)
    BY <1>1
  <2> QED
    BY <2>1, ElementOfSeq DEF Sourced
<1>3. first \in Int /\ past - 1 \in Int
  BY <1>1
<1>4. /\ SubSeq(source, first, past - 1) \in Seq(Characters)
      /\ Len(SubSeq(source, first, past - 1))
            = IF first <= past - 1 THEN (past - 1) - first + 1 ELSE 0
      /\ \A i \in 1..((past - 1) - first + 1) :
            SubSeq(source, first, past - 1)[i] = source[first + i - 1]
  BY <1>2, <1>3, SubSeqProperties
<1>5. (past - 1) - first + 1 = past - first
  BY <1>1
<1>6. Len(SubSeq(source, first, past - 1)) = past - first
  BY <1>1, <1>4
<1> QED
  BY <1>4, <1>5, <1>6 DEF Slice

\* A part of a part.
LEMMA SliceOfSlice ==
    ASSUME Sourced, NEW first \in Positions, NEW past \in first..(Len(source) + 1),
           NEW begin \in first..past, NEW end \in begin..past
    PROVE  SubSeq(Slice(first, past), begin - first + 1, end - first) = Slice(begin, end)
<1>1. Len(source) \in Nat /\ first \in Nat \ {0} /\ past \in Nat /\ begin \in Positions /\ end \in Nat
  BY LenProperties DEF Sourced, Positions
<1>2. PICK part : part = Slice(first, past)
  OBVIOUS
<1>3. /\ part \in Seq(Characters) /\ Len(part) = past - first
      /\ \A i \in 1..(past - first) : part[i] = source[first + i - 1]
  BY <1>2, SliceIs
<1>4. PICK m \in Int, n \in Int : m = begin - first + 1 /\ n = end - first
  BY <1>1
<1>5. \A i \in m..n : part[i] \in Characters
  <2>1. \A i \in m..n : i \in 1..Len(part)
    BY <1>1, <1>3, <1>4
  <2> QED
    BY <1>3, <2>1, ElementOfSeq
<1>6. /\ SubSeq(part, m, n) \in Seq(Characters)
      /\ Len(SubSeq(part, m, n)) = IF m <= n THEN n - m + 1 ELSE 0
      /\ \A i \in 1..(n - m + 1) : SubSeq(part, m, n)[i] = part[m + i - 1]
  BY <1>5, SubSeqProperties
<1>7. end \in begin..(Len(source) + 1)
  BY <1>1
<1>8. /\ Slice(begin, end) \in Seq(Characters) /\ Len(Slice(begin, end)) = end - begin
      /\ \A i \in 1..(end - begin) : Slice(begin, end)[i] = source[begin + i - 1]
  BY <1>1, <1>7, SliceIs
<1>9. Len(SubSeq(part, m, n)) = end - begin
  BY <1>1, <1>4, <1>6
<1>10. ASSUME NEW i \in 1..(end - begin) PROVE SubSeq(part, m, n)[i] = source[begin + i - 1]
  <2>1. i \in 1..(n - m + 1) /\ m + i - 1 \in 1..(past - first)
    BY <1>1, <1>4
  <2>2. SubSeq(part, m, n)[i] = source[first + (m + i - 1) - 1]
    BY <1>3, <1>6, <2>1
  <2>3. first + (m + i - 1) - 1 = begin + i - 1
    BY <1>1, <1>4
  <2> QED
    BY <2>2, <2>3
<1>11. SubSeq(part, m, n) = Slice(begin, end)
  <2>1. PICK s : s = SubSeq(part, m, n)
    OBVIOUS
  <2>2. PICK t : t = Slice(begin, end)
    OBVIOUS
  <2>3. s \in Seq(Characters) /\ t \in Seq(Characters) /\ Len(s) = Len(t)
        /\ \A i \in 1..Len(s) : s[i] = t[i]
    BY <1>6, <1>8, <1>9, <1>10, <2>1, <2>2
  <2>4. s = t
    BY <2>3, SeqEqual
  <2> QED
    BY <2>1, <2>2, <2>4
<1> QED
  BY <1>2, <1>4, <1>11

\* What is cut off the ends of a path is white space, and what is left has none there.
LEMMA PathIs ==
    ASSUME Sourced, NEW begin \in Positions, NEW end \in begin..Len(source),
           source[end] = Closing,
           NEW first, first = PastRun(begin, Trimmed),
           NEW last, last = LastOfPath(first, end),
           SubSeq(source, first, last) # << >>
    PROVE  /\ first \in begin..(end - 1) /\ last \in first..(end - 1)
           /\ \A i \in begin..(first - 1) : source[i] \in Trimmed
           /\ \A i \in (last + 1)..(end - 1) : source[i] \in Trimmed
           /\ source[first] \notin Trimmed /\ source[last] \notin Trimmed
<1>1. /\ Len(source) \in Nat /\ Positions = 1..(Len(source) + 1)
      /\ begin \in Nat \ {0} /\ end \in Nat \ {0} /\ end \in 1..Len(source)
  BY LenProperties DEF Sourced, Positions
<1>2. NoCharacter \notin Trimmed /\ Closing \notin Trimmed
  BY MarksDiffer
<1>3. /\ first \in begin..(Len(source) + 1)
      /\ \A j \in begin..(first - 1) : source[j] \in Trimmed
      /\ CharacterAt(first) \notin Trimmed
  BY <1>2, PastRunIs
<1>4. first <= end
  <2>1. end < first => end \in begin..(first - 1)
    BY <1>1, <1>3
  <2> QED
    BY <1>1, <1>2, <1>3, <2>1
<1> DEFINE kept == {j \in first..(end - 1) : source[j] \notin Trimmed}
<1>5. last = IF kept = {} THEN first - 1 ELSE Max(kept)
  BY DEF LastOfPath
<1>6. first \in Int
  BY <1>1, <1>3
<1>7. kept # {}
  <2> SUFFICES ASSUME kept = {} PROVE FALSE
    OBVIOUS
  <2>1. last = first - 1 /\ last \in Int /\ last < first
    BY <1>5, <1>6
  <2> QED
    BY <1>6, <2>1, SubSeqEmpty
<1>8. end \in Nat /\ kept \subseteq 0..end
  BY <1>1, <1>3
<1>9. last \in kept /\ \A j \in kept : j <= last
  <2>1. Max(kept) \in kept /\ \A j \in kept : j <= Max(kept)
    BY <1>7, <1>8, MaxIs
  <2> QED
    BY <1>5, <1>7, <2>1
<1>10. ASSUME NEW i \in (last + 1)..(end - 1) PROVE source[i] \in Trimmed
  <2>1. i \in first..(end - 1) /\ ~(i <= last)
    BY <1>1, <1>3, <1>9
  <2> QED
    BY <1>9, <2>1
<1>11. last \in first..(end - 1) /\ source[last] \notin Trimmed /\ first \in begin..(end - 1)
  BY <1>1, <1>3, <1>9
<1>12. CharacterAt(first) = source[first]
  BY <1>1, <1>11 DEF CharacterAt
<1> QED
  BY <1>3, <1>10, <1>11, <1>12

\* What is read is the path up to the closing parenthesis.
Trims(between, path) ==
    \E n, k \in 0..Len(between) :
       /\ between = SubSeq(between, 1, n) \o path \o SubSeq(between, k + 1, Len(between))
       /\ Every(SubSeq(between, 1, n), Trimmed)
       /\ Every(SubSeq(between, k + 1, Len(between)), Trimmed)
       /\ path[1] \notin Trimmed /\ path[Len(path)] \notin Trimmed

\* A path without white space at its ends is what is trimmed from the text.
LEMMA PathIsWhatIsBetween ==
    ASSUME Sourced, NEW begin \in Positions, NEW end \in begin..Len(source),
           NEW first \in begin..(end - 1), NEW last \in first..(end - 1),
           \A i \in begin..(first - 1) : source[i] \in Trimmed,
           \A i \in (last + 1)..(end - 1) : source[i] \in Trimmed,
           source[first] \notin Trimmed, source[last] \notin Trimmed,
           NEW path, path = SubSeq(source, first, last)
    PROVE  Trims(SubSeq(source, begin, end - 1), path)
<1>1. /\ Len(source) \in Nat /\ Positions = 1..(Len(source) + 1)
      /\ begin \in Nat \ {0} /\ end \in Nat \ {0} /\ end \in 1..Len(source)
  BY LenProperties DEF Sourced, Positions
<1>2. /\ end \in begin..(Len(source) + 1) /\ begin \in begin..end /\ first \in begin..end
      /\ last + 1 \in first..end /\ last + 1 \in begin..end /\ end \in (last + 1)..end
      /\ first \in Positions /\ last + 1 \in Positions
      /\ last + 1 \in first..(Len(source) + 1) /\ first \in begin..(Len(source) + 1)
      /\ end \in (last + 1)..(Len(source) + 1)
  BY <1>1
<1>3. PICK n \in Nat, k \in Nat : n = first - begin /\ k = last + 1 - begin
  BY <1>1
<1>4. PICK between : between = Slice(begin, end)
  OBVIOUS
<1>5. between \in Seq(Characters) /\ Len(between) = end - begin
  BY <1>2, <1>4, SliceIs
<1>6. n \in 0..Len(between) /\ k \in 0..Len(between)
  BY <1>1, <1>3, <1>5
<1>7. \A from \in begin..end : \A to \in from..end :
          SubSeq(between, from - begin + 1, to - begin) = Slice(from, to)
  <2>1. end \in begin..(Len(source) + 1)
    BY <1>2
  <2> QED
    BY <1>4, <2>1, SliceOfSlice
<1>8. SubSeq(between, 1, n) = Slice(begin, first)
  <2>1. SubSeq(Slice(begin, end), begin - begin + 1, first - begin) = Slice(begin, first)
    BY <1>2, SliceOfSlice
  <2>2. begin - begin + 1 = 1
    BY <1>1
  <2> QED
    BY <1>3, <1>4, <2>1, <2>2
<1>9. SubSeq(between, k + 1, Len(between)) = Slice(last + 1, end)
  <2>1. PICK next : next = last + 1
    OBVIOUS
  <2>2. next \in begin..end /\ end \in next..end /\ next - begin = k
    BY <1>2, <1>3, <2>1
  <2>3. SubSeq(between, next - begin + 1, end - begin) = Slice(next, end)
    BY <1>7, <2>2
  <2> QED
    BY <1>4, <1>5, <2>1, <2>2, <2>3
<1>10. path = Slice(first, last + 1)
  <2>1. (last + 1) - 1 = last
    BY <1>1
  <2> QED
    BY <2>1 DEF Slice
<1>11. between = Slice(begin, first) \o Slice(first, last + 1) \o Slice(last + 1, end)
  <2>1. SubSeq(between, 1, n) \o SubSeq(between, n + 1, k) = SubSeq(between, 1, k)
    <3>1. 1 \in 1..(Len(between) + 1) /\ n \in (1 - 1)..Len(between) /\ k \in n..Len(between)
      BY <1>1, <1>3, <1>5, <1>6
    <3> QED
      BY <1>5, <3>1, ConcatAdjacentSubSeq
  <2>2. SubSeq(between, 1, k) \o SubSeq(between, k + 1, Len(between))
           = SubSeq(between, 1, Len(between))
    <3>1. 1 \in 1..(Len(between) + 1) /\ k \in (1 - 1)..Len(between)
          /\ Len(between) \in k..Len(between)
      BY <1>5, <1>6
    <3> QED
      BY <1>5, <3>1, ConcatAdjacentSubSeq
  <2>3. SubSeq(between, 1, Len(between)) = between
    BY <1>5, SubSeqFull
  <2>4. SubSeq(between, n + 1, k) = Slice(first, last + 1)
    <3>1. PICK next : next = last + 1
      OBVIOUS
    <3>2. next \in first..end /\ next - begin = k /\ first - begin = n
      BY <1>2, <1>3, <3>1
    <3>3. SubSeq(between, first - begin + 1, next - begin) = Slice(first, next)
      BY <1>2, <1>7, <3>2
    <3> QED
      BY <1>4, <3>1, <3>2, <3>3
  <2> QED
    BY <1>8, <1>9, <2>1, <2>2, <2>3, <2>4
<1>12. Every(Slice(begin, first), Trimmed)
  <2>1. /\ Slice(begin, first) \in Seq(Characters) /\ Len(Slice(begin, first)) = first - begin
        /\ \A i \in 1..(first - begin) : Slice(begin, first)[i] = source[begin + i - 1]
    BY <1>2, SliceIs
  <2>2. DOMAIN Slice(begin, first) = 1..(first - begin)
    BY <2>1, LenProperties
  <2>3. \A i \in 1..(first - begin) : begin + i - 1 \in begin..(first - 1)
    BY <1>1
  <2> QED
    BY <2>1, <2>2, <2>3 DEF Every
<1>13. Every(Slice(last + 1, end), Trimmed)
  <2>1. /\ Slice(last + 1, end) \in Seq(Characters) /\ Len(Slice(last + 1, end)) = end - (last + 1)
        /\ \A i \in 1..(end - (last + 1)) : Slice(last + 1, end)[i] = source[(last + 1) + i - 1]
    BY <1>2, SliceIs
  <2>2. DOMAIN Slice(last + 1, end) = 1..(end - (last + 1))
    BY <2>1, LenProperties
  <2>3. \A i \in 1..(end - (last + 1)) : (last + 1) + i - 1 \in (last + 1)..(end - 1)
    BY <1>1
  <2> QED
    BY <2>1, <2>2, <2>3 DEF Every
<1>14. path[1] \notin Trimmed
       /\ path[Len(path)] \notin Trimmed
  <2>1. /\ Len(Slice(first, last + 1)) = (last + 1) - first
        /\ \A i \in 1..((last + 1) - first) : Slice(first, last + 1)[i] = source[first + i - 1]
    BY <1>2, SliceIs
  <2>2. 1 \in 1..((last + 1) - first) /\ (last + 1) - first \in 1..((last + 1) - first)
        /\ first + 1 - 1 = first /\ first + ((last + 1) - first) - 1 = last
    BY <1>1
  <2>3. Slice(first, last + 1)[1] = source[first]
        /\ Slice(first, last + 1)[(last + 1) - first] = source[last]
    BY <2>1, <2>2
  <2> QED
    BY <1>10, <2>1, <2>3
<1>15. SubSeq(source, begin, end - 1) = between
  BY <1>4 DEF Slice
<1> QED
  BY <1>6, <1>8, <1>9, <1>10, <1>11, <1>12, <1>13, <1>14, <1>15 DEF Trims

\* Reading an atom of a path: it ends the source, goes on or ends the path.
LEMMA ReadKeepsInv ==
    ASSUME IInv, ReadSpecification
    PROVE  IInv'
<1>1. /\ TypeOK /\ Counted /\ TakeAtom /\ UNCHANGED source /\ specification.state = "reading"
      /\ specification \in [state : {"reading"}, begin : Positions]
      /\ specification.begin <= cursor
      /\ \A i \in specification.begin..(cursor - 1) :
            source[i] = Closing => Commented(specification.begin, i)
  BY DEF IInv, Reading, ReadSpecification
<1>2. PICK open : open = specification.begin
  OBVIOUS
<1>3. /\ Sourced /\ Len(source) \in Nat /\ Positions = 1..(Len(source) + 1)
      /\ cursor \in Positions /\ open \in Positions
  BY <1>1, <1>2, LenProperties DEF TypeOK, Sourced, Positions
<1>4. PICK begin, kind, past :
         /\ Takes(begin, kind, past) /\ cursor' = past
         /\ atom' = [kind |-> kind, asked |-> cursor, text_begin |-> begin,
                     text_length |-> past - begin, line_number |-> LineAt(begin),
                     column_number |-> begin - LineBeginAt(begin) + 1]
  BY <1>1, AtomIsTaken
<1>5. /\ begin \in Positions /\ past \in Positions /\ cursor <= begin /\ begin <= past
      /\ IsInsignificant(cursor, begin) /\ CharacterAt(begin) \notin Spaces
      /\ TakenAt(begin, kind, past)
  BY <1>4 DEF Takes
<1>6. (atom.kind)' = kind /\ (atom.text_begin)' = begin
  BY <1>4
<1>7. PICK first, last : first = PastRun(open, Trimmed) /\ last = LastOfPath(first, begin)
  OBVIOUS
<1>8. PICK path : path = SubSeq(source, first, last)
  OBVIOUS
<1>9. \/ kind = "END_OF_SOURCE" /\ specification' = [specification EXCEPT !.state = "unterminated"]
      \/ kind # "END_OF_SOURCE" /\ kind # Closing /\ specification' = specification
      \/ kind = Closing /\ specification' = [specification EXCEPT !.state = "empty"]
      \/ kind = Closing /\ specification' = [specification EXCEPT !.state = "overlong"]
      \/ /\ kind = Closing /\ path # << >>
         /\ specification' = [state |-> "read", begin |-> specification.begin, path |-> path]
  <2>1. specification' = IF kind = "END_OF_SOURCE"
              THEN [specification EXCEPT !.state = "unterminated"]
              ELSE IF kind # Closing THEN specification
              ELSE IF path = << >> THEN [specification EXCEPT !.state = "empty"]
              ELSE IF Len(path) + 1 > SpecificationCapacity
              THEN [specification EXCEPT !.state = "overlong"]
              ELSE [state |-> "read", begin |-> specification.begin, path |-> path]
    <3>1. PathUpTo(begin) = path
      BY <1>2, <1>7, <1>8 DEF PathUpTo
    <3> QED
      BY <1>6, <3>1 DEF ReadSpecification
  <2> QED
    BY <2>1
<1>10. /\ (specification.state)' \in {"unterminated", "reading", "empty", "overlong", "read"}
       /\ (specification.begin)' = open
       /\ (specification.state)' = "unterminated" => kind = "END_OF_SOURCE"
       /\ (specification.state)' = "reading" => kind # Closing /\ specification' = specification
       /\ (specification.state)' = "read" =>
             kind = Closing /\ path # << >> /\ (specification.path)' = path
  <2>1. PICK old : old = specification /\ old \in [state : {"reading"}, begin : Positions]
    BY <1>1
  <2>2. \A state : [old EXCEPT !.state = state].state = state
                   /\ [old EXCEPT !.state = state].begin = open
    BY <1>2, <2>1
  <2>3. old.state = "reading" /\ old.begin = open
    BY <1>2, <2>1
  <2>4. CASE kind = "END_OF_SOURCE" /\ specification' = [specification EXCEPT !.state = "unterminated"]
    BY <2>1, <2>2, <2>4
  <2>5. CASE kind # Closing /\ specification' = specification
    BY <2>1, <2>3, <2>5
  <2>6. CASE specification' = [specification EXCEPT !.state = "empty"]
    BY <2>1, <2>2, <2>6
  <2>7. CASE specification' = [specification EXCEPT !.state = "overlong"]
    BY <2>1, <2>2, <2>7
  <2>8. CASE /\ kind = Closing /\ path # << >>
             /\ specification' = [state |-> "read", begin |-> specification.begin, path |-> path]
    BY <1>2, <2>8
  <2> QED
    BY <1>9, <2>4, <2>5, <2>6, <2>7, <2>8
<1>11. TypeOK' /\ Counted' /\ Placed'
  <2>1. (specification.state)' \in SpecificationStates
    BY <1>10 DEF SpecificationStates
  <2> QED
    BY <1>1, <2>1, TakeAtomKeepsInv
<1>12. \A i \in open..(begin - 1) : source[i] = Closing => Commented(open, i)
  <2>1. open \in Nat \ {0} /\ cursor \in Nat \ {0} /\ begin \in Nat \ {0}
    BY <1>3, <1>5
  <2>2. open <= cursor
    BY <1>1, <1>2
  <2>3. \A i \in cursor..(begin - 1) : source[i] = Closing => Commented(open, i)
    BY <1>5, <2>1, <2>2, SkippedClosesNothing
  <2>4. \A i \in open..(begin - 1) : i \in open..(cursor - 1) \/ i \in cursor..(begin - 1)
    BY <2>1
  <2> QED
    BY <1>1, <1>2, <2>3, <2>4
<1>13. /\ \A j \in begin..(past - 1) : j \in 1..Len(source)
       /\ kind # Closing => \A j \in begin..(past - 1) : source[j] # Closing
       /\ kind = Closing => begin \in 1..Len(source) /\ source[begin] = Closing /\ past = begin + 1
  BY <1>3, <1>5, TakenHasNoBreak
<1>14. Reading'
  <2> SUFFICES ASSUME (specification.state)' = "reading"
               PROVE  /\ specification' \in [state : {"reading"}, begin : Positions']
                      /\ (specification.begin)' <= cursor'
                      /\ \A i \in (specification.begin)'..(cursor' - 1) :
                            source'[i] = Closing => Commented((specification.begin), i)'
    BY DEF Reading
  <2>1. kind # Closing /\ specification' = specification /\ Positions' = Positions
    BY <1>1, <1>10 DEF Positions
  <2>2. \A i \in open..(past - 1) : i \in open..(begin - 1) \/ i \in begin..(past - 1)
    BY <1>3, <1>5
  <2>3. \A i \in open..(past - 1) : source[i] = Closing => Commented(open, i)
    BY <1>12, <1>13, <2>1, <2>2
  <2>4. open <= past
    BY <1>1, <1>2, <1>3, <1>5
  <2>5. \A i : Commented(open, i) => Commented(specification.begin, i)'
    BY <1>1, <1>2, <2>1 DEF Commented
  <2> QED
    BY <1>1, <1>2, <1>4, <2>1, <2>3, <2>4, <2>5
<1>15. PathIsVerbatim'
  <2>1. (FirstClosing)' \subseteq {i \in open..Len(source) :
                   source[i] = Closing /\ \A j \in open..(i - 1) : source[j] # Closing}
    BY <1>1, <1>10 DEF FirstClosing
  <2>2. ASSUME NEW i, Commented(open, i) PROVE Commented(specification.begin, i)'
    BY <1>1, <1>10, <2>2 DEF Commented
  <2>3. CASE (specification.state)' = "unterminated"
    <3>1. begin = Len(source) + 1
      <4>1. kind = "END_OF_SOURCE" /\ kind \notin Punctuation
        BY <1>10, <2>3, KindsDiffer
      <4> QED
        BY <1>5, <4>1, KindsDiffer DEF TakenAt
    <3>2. \A i \in open..Len(source) : i \in open..(begin - 1)
      BY <1>3, <3>1
    <3>3. \A closing \in (FirstClosing)' : Commented(specification.begin, closing)'
      BY <1>12, <2>1, <2>2, <3>2
    <3> QED
      BY <2>3, <3>3 DEF PathIsVerbatim
  <2>4. CASE (specification.state)' \in {"reading", "empty", "overlong"}
    BY <2>4 DEF PathIsVerbatim
  <2>5. CASE (specification.state)' = "read"
    <3>1. /\ kind = Closing /\ path # << >> /\ (specification.path)' = path
          /\ begin \in 1..Len(source) /\ source[begin] = Closing /\ past = begin + 1
      BY <1>10, <1>13, <2>5
    <3>2. begin \in open..Len(source)
      BY <1>1, <1>2, <1>3, <1>5, <3>1
    <3>3. (FirstClosing)' # {}
      <4> DEFINE closings == {i \in open..Len(source) : source[i] = Closing}
      <4>1. closings \subseteq Nat /\ begin \in closings
        BY <1>3, <3>1, <3>2
      <4>2. PICK m \in closings : \A k \in closings : m <= k
        BY <4>1, LeastNatural
      <4>3. \A j \in open..(m - 1) : source[j] # Closing
        <5>1. \A j \in open..(m - 1) : j \in open..Len(source) /\ ~(m <= j)
          BY <1>3, <4>2
        <5> QED
          BY <4>2, <5>1
      <4>4. m \in open..Len(source) /\ source[m] = Closing
        BY <4>2
      <4>5. (specification # None)'
        <5>1. (specification.state)' # "none"
          BY <2>5
        <5> QED
          BY <5>1 DEF None
      <4>6. m \in (FirstClosing)'
        BY <1>1, <1>10, <4>3, <4>4, <4>5 DEF FirstClosing
      <4> QED
        BY <4>6
    <3>4. ASSUME NEW closing \in (FirstClosing)', ~Commented(specification.begin, closing)'
          PROVE  IsPathUpTo(closing)' /\ cursor' = closing + 1
      <4>1. closing = begin
        <5>1. closing \in open..Len(source) /\ source[closing] = Closing
              /\ \A j \in open..(closing - 1) : source[j] # Closing
          BY <2>1
        <5>2. ~(closing < begin)
          <6>1. closing < begin => closing \in open..(begin - 1)
            BY <1>3, <1>5, <5>1
          <6> QED
            BY <1>12, <2>2, <3>4, <5>1, <6>1
        <5>3. ~(begin < closing)
          <6>1. begin < closing => begin \in open..(closing - 1)
            BY <1>3, <3>2, <5>1
          <6> QED
            BY <3>1, <5>1, <6>1
        <5> QED
          BY <1>3, <3>2, <5>1, <5>2, <5>3
      <4>2. /\ first \in open..(begin - 1) /\ last \in first..(begin - 1)
            /\ \A i \in open..(first - 1) : source[i] \in Trimmed
            /\ \A i \in (last + 1)..(begin - 1) : source[i] \in Trimmed
            /\ source[first] \notin Trimmed /\ source[last] \notin Trimmed
        BY <1>3, <1>7, <1>8, <3>1, <3>2, PathIs
      <4>3. IsPathUpTo(begin)'
        <5>1. (specification.begin)' = open /\ (specification.path)' = SubSeq(source, first, last)
          BY <1>8, <1>10, <3>1
        <5>2. Trims(SubSeq(source, open, begin - 1), SubSeq(source, first, last))
          BY <1>3, <3>1, <3>2, <4>2, PathIsWhatIsBetween
        <5> QED
          BY <1>1, <5>1, <5>2 DEF IsPathUpTo, Trims
      <4>4. IsPathUpTo(closing)'
        BY <4>1, <4>3 DEF IsPathUpTo
      <4> QED
        BY <1>3, <1>4, <3>1, <4>1, <4>4
    <3>5. (specification.state)' # "unterminated"
      BY <2>5
    <3> QED
      BY <3>3, <3>4, <3>5 DEF PathIsVerbatim
  <2> QED
    BY <1>10, <2>3, <2>4, <2>5
<1> QED
  BY <1>11, <1>14, <1>15 DEF IInv

\* An atom that is asked for outside a path begins no path.
LEMMA AskKeepsInv ==
    ASSUME IInv, AskAtom
    PROVE  IInv'
<1>1. TypeOK /\ Counted /\ TakeAtom /\ UNCHANGED source /\ specification' = None
  BY DEF IInv, AskAtom
<1>2. (specification.state)' = "none"
  BY <1>1 DEF None
<1>3. TypeOK' /\ Counted' /\ Placed'
  <2>1. (specification.state)' \in SpecificationStates
    BY <1>2 DEF SpecificationStates
  <2> QED
    BY <1>1, <2>1, TakeAtomKeepsInv
<1>4. (specification.state)' # "reading" /\ (specification.state)' # "read"
  BY <1>2
<1>5. Reading'
  BY <1>4 DEF Reading
<1>6. PathIsVerbatim'
  <2>1. (FirstClosing)' = {}
    BY <1>1 DEF FirstClosing
  <2> QED
    BY <1>4, <2>1 DEF PathIsVerbatim
<1> QED
  BY <1>3, <1>5, <1>6 DEF IInv

\* The last atom stays in its place as long as it stays the last.
LEMMA UnchangedPlaced ==
    ASSUME Placed, UNCHANGED <<source, atom>>
    PROVE  Placed'
<1>1. Positions' = Positions
  BY DEF Positions
<1>2. \A i : CharacterAt(i)' = CharacterAt(i)
  BY DEF CharacterAt
<1>3. /\ (atom.asked)' \in Positions' /\ (atom.text_begin)' \in Positions'
      /\ (atom.asked)' <= (atom.text_begin)'
      /\ IsInsignificant(atom.asked, atom.text_begin)'
      /\ (atom.line_number = LineAt(atom.text_begin))'
      /\ (atom.column_number = atom.text_begin - LineBeginAt(atom.text_begin) + 1)'
  BY <1>1 DEF Placed, IsInsignificant, LineAt, LineBeginAt, Breaks
<1>4. CASE atom.kind = "none"
  BY <1>3, <1>4 DEF Placed
<1>5. CASE atom.kind # "none"
  <2>1. /\ CharacterAt(atom.text_begin) \notin Spaces /\ ~OpensComment(atom.text_begin)
        /\ \E past \in Positions :
              /\ TakenAt(atom.text_begin, atom.kind, past)
              /\ atom.text_length = past - atom.text_begin
              /\ atom.text_begin <= past
              /\ atom.text_begin <= Len(source) => atom.text_begin < past
    BY <1>5 DEF Placed
  <2>2. (CharacterAt(atom.text_begin) \notin Spaces /\ ~OpensComment(atom.text_begin))'
    BY <2>1 DEF CharacterAt, OpensComment
  <2>3. (\E past \in Positions :
              /\ TakenAt(atom.text_begin, atom.kind, past)
              /\ atom.text_length = past - atom.text_begin
              /\ atom.text_begin <= past
              /\ atom.text_begin <= Len(source) => atom.text_begin < past)'
    <3>1. PICK past \in Positions :
              /\ TakenAt(atom.text_begin, atom.kind, past)
              /\ atom.text_length = past - atom.text_begin
              /\ atom.text_begin <= past
              /\ atom.text_begin <= Len(source) => atom.text_begin < past
      BY <2>1
    <3>2. PICK begin, kind : begin = atom.text_begin /\ kind = atom.kind
      OBVIOUS
    <3>3. TakenAt(begin, kind, past)'
      BY <3>1, <3>2, TakenStays
    <3>4. (atom.text_begin)' = begin /\ (atom.kind)' = kind
      BY <3>2
    <3>5. TakenAt(atom.text_begin, atom.kind, past)'
      BY <3>3, <3>4, TakenStays
    <3> QED
      BY <1>1, <3>1, <3>5
  <2> QED
    BY <1>3, <2>2, <2>3 DEF Placed
<1> QED
  BY <1>4, <1>5

\* A path begins at the cursor.
LEMMA BeginKeepsInv ==
    ASSUME IInv, BeginSpecification
    PROVE  IInv'
<1>1. /\ TypeOK /\ Counted /\ Placed /\ specification' = [state |-> "reading", begin |-> cursor]
      /\ UNCHANGED <<source, cursor, line_number, current_line_begin, atom>>
  BY DEF IInv, BeginSpecification
<1>2. cursor \in Nat /\ cursor \in Positions /\ Positions' = Positions
  BY <1>1, LenProperties DEF TypeOK, Positions
<1>3. (specification.state)' = "reading" /\ (specification.begin)' = cursor
  BY <1>1
<1>4. TypeOK'
  <2>1. "reading" \in SpecificationStates
    BY DEF SpecificationStates
  <2> QED
    BY <1>1, <1>2, <1>3, <2>1 DEF TypeOK
<1>5. Counted'
  BY <1>1 DEF Counted, LineAt, LineBeginAt, Breaks
<1>6. Placed'
  BY <1>1, UnchangedPlaced
<1>7. Reading'
  <2>1. (specification \in [state : {"reading"}, begin : Positions])'
    BY <1>1, <1>2
  <2>2. \A i \in cursor..(cursor - 1) : FALSE
    BY <1>2
  <2> QED
    BY <1>1, <1>2, <1>3, <2>1, <2>2 DEF Reading
<1>8. PathIsVerbatim'
  <2>1. (specification.state)' # "read" /\ (specification.state)' # "unterminated"
    BY <1>3
  <2> QED
    BY <2>1 DEF PathIsVerbatim
<1> QED
  BY <1>4, <1>5, <1>6, <1>7, <1>8 DEF IInv

\* Every step keeps the invariant.
LEMMA StepKeepsInv == IInv /\ [Next]_vars => IInv'
<1> SUFFICES ASSUME IInv, [Next]_vars PROVE IInv'
  OBVIOUS
<1>1. CASE AskAtom
  BY <1>1, AskKeepsInv
<1>2. CASE BeginSpecification
  BY <1>2, BeginKeepsInv
<1>3. CASE ReadSpecification
  BY <1>3, ReadKeepsInv
<1>4. CASE UNCHANGED vars
  <2>1. UNCHANGED <<source, cursor, line_number, current_line_begin, atom, specification>>
    BY <1>4 DEF vars
  <2>2. TypeOK' /\ Counted'
    BY <2>1 DEF IInv, TypeOK, Counted, LineAt, LineBeginAt, Breaks, Positions
  <2>3. Placed'
    BY <2>1, UnchangedPlaced DEF IInv
  <2>4. Reading' /\ PathIsVerbatim'
    BY <2>1 DEF IInv, Reading, PathIsVerbatim, Positions, Commented, FirstClosing, IsPathUpTo
  <2> QED
    BY <2>2, <2>3, <2>4 DEF IInv
<1> QED
  BY <1>1, <1>2, <1>3, <1>4 DEF Next

-----------------------------------------------------------------------------
(* What holds of the scanner. *)

\* Every behaviour keeps the invariant.
THEOREM InvariantHolds == Spec => []IInv
BY InitInv, StepKeepsInv, PTL DEF Spec

\* The cursor and the atoms stay within the source, whatever is asked of the
\* scanner (llfpl_lexical_scanner_next).
THEOREM TypeCorrect == Spec => []TypeOK
<1>1. IInv => TypeOK
  BY DEF IInv
<1> QED
  BY <1>1, InvariantHolds, PTL

\* Nothing but white space and comments is skipped (skip_insignificant_text).
THEOREM NothingIsSkipped == Spec => []NothingSkipped
<1>1. IInv => NothingSkipped
  <2> SUFFICES ASSUME IInv PROVE NothingSkipped
    OBVIOUS
  <2>1. /\ TypeOK /\ Placed /\ Sourced
    BY DEF IInv, TypeOK, Sourced
  <2>2. /\ Len(source) \in Nat /\ Positions = 1..(Len(source) + 1)
        /\ atom.text_begin \in Positions
    BY <2>1, LenProperties DEF Placed, Sourced, Positions
  <2>3. CASE atom.kind = "none"
    BY <2>1, <2>3 DEF NothingSkipped, Placed
  <2>4. CASE atom.kind # "none"
    <3>1. PICK past \in Positions :
             /\ CharacterAt(atom.text_begin) \notin Spaces /\ ~OpensComment(atom.text_begin)
             /\ TakenAt(atom.text_begin, atom.kind, past)
      BY <2>1, <2>4 DEF Placed
    <3>2. atom.kind = "END_OF_SOURCE" => atom.text_begin = Len(source) + 1
      BY <3>1, KindsDiffer DEF TakenAt
    <3>3. atom.kind # "END_OF_SOURCE" => atom.text_begin \in 1..Len(source)
      BY <3>1 DEF TakenAt
    <3>4. atom.kind # "END_OF_SOURCE" => source[atom.text_begin] \notin Spaces
      BY <2>2, <3>1, <3>3 DEF CharacterAt
    <3> QED
      BY <2>1, <3>1, <3>2, <3>4 DEF NothingSkipped, Placed
  <2> QED
    BY <2>3, <2>4
<1> QED
  BY <1>1, InvariantHolds, PTL

\* An atom has the line and the column of its first character (emit_atom).
THEOREM AtomsArePlacedExactly == Spec => []PlacedExactly
<1>1. IInv => PlacedExactly
  <2> SUFFICES ASSUME IInv PROVE PlacedExactly
    OBVIOUS
  <2>1. PICK begin : begin = atom.text_begin
    OBVIOUS
  <2>2. /\ begin \in Nat \ {0} /\ atom.line_number = LineAt(begin)
        /\ atom.column_number = begin - LineBeginAt(begin) + 1
    BY <2>1, LenProperties DEF IInv, TypeOK, Positions, Placed
  <2>3. PICK before : before = Breaks(1, begin)
    OBVIOUS
  <2>4. before = {j \in 1..(atom.text_begin - 1) : source[j] = LineBreak}
    BY <2>1, <2>3 DEF Breaks
  <2>5. atom.line_number = Cardinality(before) + 1
    BY <2>2, <2>3 DEF LineAt
  <2>6. atom.column_number = begin - (IF before = {} THEN 0 ELSE Max(before))
    <3>1. CASE before = {}
      BY <2>2, <2>3, <3>1 DEF LineBeginAt
    <3>2. CASE before # {}
      <4>1. before \subseteq 0..begin /\ begin \in Nat
        BY <2>2, <2>3 DEF Breaks
      <4>2. Max(before) \in before
        BY <3>2, <4>1, MaxIs
      <4>3. PICK m \in Nat : m = Max(before)
        <5>1. \A j \in before : j \in Nat
          BY <4>1
        <5> QED
          BY <4>2, <5>1
      <4>4. LineBeginAt(begin) = m + 1
        BY <2>3, <3>2, <4>3 DEF LineBeginAt
      <4> QED
        BY <2>2, <3>2, <4>3, <4>4
    <3> QED
      BY <3>1, <3>2
  <2> QED
    BY <2>1, <2>4, <2>5, <2>6 DEF PlacedExactly
<1> QED
  BY <1>1, InvariantHolds, PTL

\* The path of a Require is the text up to the parenthesis that closes it, but for
\* the white space around it and unless a comment is in it
\* (consume_module_specification).
THEOREM PathsAreVerbatim == Spec => []PathIsVerbatim
<1>1. IInv => PathIsVerbatim
  BY DEF IInv
<1> QED
  BY <1>1, InvariantHolds, PTL

-----------------------------------------------------------------------------
(* The grammar of a part of the source. *)

DigitsTo(first, past) == first < past /\ \A j \in first..(past - 1) : source[j] \in Digits

\* A part of the source is in a set when its characters are.
LEMMA EveryIs ==
    ASSUME Sourced, NEW first \in Positions, NEW past \in first..(Len(source) + 1), NEW set
    PROVE  /\ Every(Slice(first, past), set) <=> \A j \in first..(past - 1) : source[j] \in set
           /\ IsDigits(Slice(first, past)) <=> DigitsTo(first, past)
           /\ Slice(first, past) = << >> <=> first = past
<1>1. Len(source) \in Nat /\ first \in Nat \ {0} /\ past \in Nat /\ first <= past
  BY LenProperties DEF Sourced, Positions
<1>2. PICK part : part = Slice(first, past)
  OBVIOUS
<1>3. /\ part \in Seq(Characters) /\ Len(part) = past - first
      /\ \A i \in 1..(past - first) : part[i] = source[first + i - 1]
  BY <1>2, SliceIs
<1>4. DOMAIN part = 1..(past - first)
  BY <1>3, LenProperties
<1>5. \A s : Every(part, s) <=> \A j \in first..(past - 1) : source[j] \in s
  <2> SUFFICES ASSUME NEW s
               PROVE  Every(part, s) <=> \A j \in first..(past - 1) : source[j] \in s
    OBVIOUS
  <2>1. ASSUME Every(part, s), NEW j \in first..(past - 1) PROVE source[j] \in s
    <3>1. PICK i \in 1..(past - first) : j = first + i - 1
      <4>1. j - first + 1 \in 1..(past - first) /\ j = first + (j - first + 1) - 1
        BY <1>1
      <4> QED
        BY <4>1
    <3> QED
      BY <1>3, <1>4, <2>1, <3>1 DEF Every
  <2>2. ASSUME \A j \in first..(past - 1) : source[j] \in s PROVE Every(part, s)
    <3>1. \A i \in 1..(past - first) : first + i - 1 \in first..(past - 1)
      BY <1>1
    <3> QED
      BY <1>3, <1>4, <2>2, <3>1 DEF Every
  <2> QED
    BY <2>1, <2>2
<1>6. part = << >> <=> first = past
  <2>1. part = << >> => Len(part) = 0
    BY EmptySeq
  <2>2. Len(part) = 0 => part = << >>
    BY <1>3, EmptySeq
  <2> QED
    BY <1>1, <1>3, <2>1, <2>2
<1>7. IsDigits(part) <=> DigitsTo(first, past)
  <2>1. part # << >> <=> first < past
    BY <1>1, <1>6
  <2> QED
    BY <1>5, <2>1 DEF IsDigits, DigitsTo
<1> QED
  BY <1>2, <1>5, <1>6, <1>7

MantissaTo(first, past) ==
    /\ first < past
    /\ \/ DigitsTo(first, past)
       \/ \E point \in first..(past - 1) :
             /\ source[point] = Point /\ first + 1 < past
             /\ \A j \in first..(point - 1) : source[j] \in Digits
             /\ \A j \in (point + 1)..(past - 1) : source[j] \in Digits

\* A part of the source is a mantissa when it is digits, perhaps with a point.
LEMMA MantissaOfSlice ==
    ASSUME Sourced, NEW first \in Positions, NEW past \in first..(Len(source) + 1)
    PROVE  IsMantissa(Slice(first, past)) <=> MantissaTo(first, past)
<1>1. /\ Len(source) \in Nat /\ first \in Nat \ {0} /\ past \in Nat /\ first <= past
      /\ Positions = 1..(Len(source) + 1)
  BY LenProperties DEF Sourced, Positions
<1>2. PICK part : part = Slice(first, past)
  OBVIOUS
<1>3. /\ part \in Seq(Characters) /\ Len(part) = past - first
      /\ \A i \in 1..(past - first) : part[i] = source[first + i - 1]
  BY <1>2, SliceIs
<1>4. DOMAIN part = 1..(past - first)
  BY <1>3, LenProperties
<1>5. IsDigits(part) <=> DigitsTo(first, past)
  BY <1>2, EveryIs
<1>6. \A from \in first..past : \A to \in from..past :
         SubSeq(part, from - first + 1, to - first) = Slice(from, to)
  BY <1>2, SliceOfSlice
<1>7. ASSUME NEW i \in 1..(past - first), NEW point \in first..(past - 1), point = first + i - 1
      PROVE  /\ Every(SubSeq(part, 1, i - 1), Digits)
                   <=> \A j \in first..(point - 1) : source[j] \in Digits
             /\ Every(SubSeq(part, i + 1, Len(part)), Digits)
                   <=> \A j \in (point + 1)..(past - 1) : source[j] \in Digits
             /\ part[i] = source[point]
  <2>1. SubSeq(part, 1, i - 1) = Slice(first, point)
    <3>1. first \in first..past /\ point \in first..past
          /\ first - first + 1 = 1 /\ point - first = i - 1
      BY <1>1, <1>7
    <3> QED
      BY <1>6, <3>1
  <2>2. SubSeq(part, i + 1, Len(part)) = Slice(point + 1, past)
    <3>1. PICK next : next = point + 1
      OBVIOUS
    <3>2. next \in first..past /\ past \in next..past /\ next - first + 1 = i + 1
      BY <1>1, <1>7, <3>1
    <3>3. SubSeq(part, next - first + 1, past - first) = Slice(next, past)
      BY <1>6, <3>2
    <3> QED
      BY <1>3, <3>1, <3>2, <3>3
  <2>3. point \in first..(Len(source) + 1) /\ point + 1 \in Positions
        /\ past \in (point + 1)..(Len(source) + 1)
    BY <1>1, <1>7
  <2>4. Every(Slice(first, point), Digits) <=> \A j \in first..(point - 1) : source[j] \in Digits
    BY <2>3, EveryIs
  <2>5. Every(Slice(point + 1, past), Digits)
           <=> \A j \in (point + 1)..(past - 1) : source[j] \in Digits
    BY <2>3, EveryIs
  <2> QED
    BY <1>3, <1>7, <2>1, <2>2, <2>4, <2>5
<1>8. ASSUME IsMantissa(part), ~IsDigits(part) PROVE MantissaTo(first, past)
  <2>1. PICK i \in 1..(past - first) :
           /\ part[i] = Point
           /\ Every(SubSeq(part, 1, i - 1), Digits)
           /\ Every(SubSeq(part, i + 1, Len(part)), Digits)
           /\ Len(part) > 1
    BY <1>4, <1>8 DEF IsMantissa
  <2>2. PICK point \in first..(past - 1) : point = first + i - 1
    BY <1>1
  <2>3. first + 1 < past /\ first < past
    BY <1>1, <1>3, <2>1
  <2> QED
    BY <1>7, <2>1, <2>2, <2>3 DEF MantissaTo
<1>9. ASSUME MantissaTo(first, past), ~DigitsTo(first, past) PROVE IsMantissa(part)
  <2>1. PICK point \in first..(past - 1) :
             /\ source[point] = Point /\ first + 1 < past
             /\ \A j \in first..(point - 1) : source[j] \in Digits
             /\ \A j \in (point + 1)..(past - 1) : source[j] \in Digits
    BY <1>9 DEF MantissaTo
  <2>2. PICK i \in 1..(past - first) : point = first + i - 1
    <3>1. point - first + 1 \in 1..(past - first) /\ point = first + (point - first + 1) - 1
      BY <1>1
    <3> QED
      BY <3>1
  <2>3. Len(part) > 1
    BY <1>1, <1>3, <2>1
  <2> QED
    BY <1>4, <1>7, <2>1, <2>2, <2>3 DEF IsMantissa
<1>10. DigitsTo(first, past) => MantissaTo(first, past)
  BY DEF DigitsTo, MantissaTo
<1>11. IsDigits(part) => IsMantissa(part)
  BY DEF IsMantissa
<1> QED
  BY <1>2, <1>5, <1>8, <1>9, <1>10, <1>11

\* What follows the first character of a part.
LEMMA TailOfSlice ==
    ASSUME Sourced, NEW first \in Positions, NEW past \in first..(Len(source) + 1), first < past
    PROVE  Tail(Slice(first, past)) = Slice(first + 1, past)
<1>1. Len(source) \in Nat /\ first \in Nat \ {0} /\ past \in Nat /\ first <= past
  BY LenProperties DEF Sourced, Positions
<1>2. first \in 1..Len(source) /\ past - 1 \in first..Len(source)
  BY <1>1
<1> QED
  BY <1>2, HeadTailOfSubSeq DEF Slice, Sourced

ExponentTo(first, past) ==
    \/ first = past
    \/ /\ first < past /\ source[first] \in ExponentMarks
       /\ \/ DigitsTo(first + 1, past)
          \/ first + 1 < past /\ source[first + 1] \in Signs /\ DigitsTo(first + 2, past)

\* A part of the source is an exponent when it is empty, or a mark and digits, perhaps
\* with a sign.
LEMMA ExponentOfSlice ==
    ASSUME Sourced, NEW first \in Positions, NEW past \in first..(Len(source) + 1)
    PROVE  IsExponent(Slice(first, past)) <=> ExponentTo(first, past)
<1>1. /\ Len(source) \in Nat /\ first \in Nat \ {0} /\ past \in Nat /\ first <= past
      /\ Positions = 1..(Len(source) + 1)
  BY LenProperties DEF Sourced, Positions
<1>2. PICK part : part = Slice(first, past)
  OBVIOUS
<1>3. /\ part \in Seq(Characters) /\ Len(part) = past - first
      /\ \A i \in 1..(past - first) : part[i] = source[first + i - 1]
  BY <1>2, SliceIs
<1>4. part = << >> <=> first = past
  BY <1>2, EveryIs
<1>5. CASE first = past
  BY <1>2, <1>4, <1>5 DEF IsExponent, ExponentTo
<1>6. CASE first < past
  <2>1. part # << >> /\ part[1] = source[first]
    <3>1. 1 \in 1..(past - first) /\ first + 1 - 1 = first
      BY <1>1, <1>6
    <3> QED
      BY <1>1, <1>3, <1>4, <1>6, <3>1
  <2>2. Tail(part) = Slice(first + 1, past) /\ (IsDigits(Tail(part)) <=> DigitsTo(first + 1, past))
    <3>1. PICK next \in Positions : next = first + 1 /\ past \in next..(Len(source) + 1)
      BY <1>1, <1>6
    <3>2. Tail(part) = Slice(next, past)
      BY <1>1, <1>2, <1>6, <3>1, TailOfSlice
    <3>3. IsDigits(Slice(next, past)) <=> DigitsTo(next, past)
      BY <3>1, EveryIs
    <3> QED
      BY <3>1, <3>2, <3>3
  <2>3. Len(part) > 1 <=> first + 1 < past
    BY <1>1, <1>3
  <2>4. ASSUME first + 1 < past
        PROVE  /\ part[2] = source[first + 1]
               /\ IsDigits(Tail(Tail(part))) <=> DigitsTo(first + 2, past)
    <3>1. 2 \in 1..(past - first) /\ first + 2 - 1 = first + 1
      BY <1>1, <2>4
    <3>2. PICK next \in Positions : next = first + 1 /\ past \in next..(Len(source) + 1)
      BY <1>1, <2>4
    <3>3. Tail(Slice(next, past)) = Slice(next + 1, past)
      BY <2>4, <3>2, TailOfSlice
    <3>4. PICK after \in Positions :
             after = first + 2 /\ after = next + 1 /\ past \in after..(Len(source) + 1)
      BY <1>1, <2>4, <3>2
    <3>5. IsDigits(Slice(after, past)) <=> DigitsTo(after, past)
      BY <3>4, EveryIs
    <3> QED
      BY <1>3, <2>2, <3>1, <3>2, <3>3, <3>4, <3>5
  <2>5. ~(first = past)
    BY <1>1, <1>6
  <2>6. IsExponent(part) <=>
           /\ source[first] \in ExponentMarks
           /\ \/ DigitsTo(first + 1, past)
              \/ first + 1 < past /\ source[first + 1] \in Signs /\ DigitsTo(first + 2, past)
    BY <2>1, <2>2, <2>3, <2>4 DEF IsExponent
  <2> QED
    BY <1>2, <1>6, <2>5, <2>6 DEF ExponentTo
<1> QED
  BY <1>1, <1>5, <1>6

\* A part of the source is a literal when it is a mantissa and an exponent, behind
\* the sign if there is one.
LEMMA LiteralOfSlice ==
    ASSUME Sourced, NEW first \in Positions, NEW past \in first..(Len(source) + 1)
    PROVE  IsLiteral(Slice(first, past)) <=>
              \E mid \in Unsigned(first)..past :
                 MantissaTo(Unsigned(first), mid) /\ ExponentTo(mid, past)
<1>1. /\ Len(source) \in Nat /\ first \in Nat \ {0} /\ past \in Nat /\ first <= past
      /\ Positions = 1..(Len(source) + 1)
  BY LenProperties DEF Sourced, Positions
<1>2. PICK part : part = Slice(first, past)
  OBVIOUS
<1>3. PICK unsigned \in Positions :
         /\ unsigned = Unsigned(first)
         /\ \/ CharacterAt(first) # Hyphen /\ unsigned = first
            \/ unsigned = first + 1 /\ first \in 1..Len(source) /\ source[first] = Hyphen
  BY UnsignedIs
<1>4. part = << >> <=> first = past
  BY <1>2, EveryIs
<1>5. first < past => part[1] = source[first] /\ CharacterAt(first) = source[first]
  <2>1. first < past => 1 \in 1..(past - first) /\ first + 1 - 1 = first /\ first \in 1..Len(source)
    BY <1>1
  <2>2. \A i \in 1..(past - first) : part[i] = source[first + i - 1]
    BY <1>2, SliceIs
  <2> QED
    BY <1>1, <2>1, <2>2, CharacterIs
<1>6. first < past => Tail(part) = Slice(first + 1, past)
  BY <1>2, TailOfSlice
<1>7. ASSUME NEW begin \in Positions, begin <= past, NEW mid \in begin..past
      PROVE  /\ Len(Slice(begin, past)) = past - begin
             /\ IsMantissa(SubSeq(Slice(begin, past), 1, mid - begin)) <=> MantissaTo(begin, mid)
             /\ IsExponent(SubSeq(Slice(begin, past), mid - begin + 1, Len(Slice(begin, past))))
                   <=> ExponentTo(mid, past)
  <2>1. past \in begin..(Len(source) + 1) /\ mid \in begin..(Len(source) + 1) /\ mid \in Positions
        /\ past \in mid..(Len(source) + 1)
    BY <1>1, <1>7
  <2>2. Len(Slice(begin, past)) = past - begin
    BY <2>1, SliceIs
  <2>3. SubSeq(Slice(begin, past), 1, mid - begin) = Slice(begin, mid)
    <3>1. SubSeq(Slice(begin, past), begin - begin + 1, mid - begin) = Slice(begin, mid)
      <4>1. begin \in begin..past
        BY <1>1, <1>7
      <4> QED
        BY <2>1, <4>1, SliceOfSlice
    <3>2. begin - begin + 1 = 1
      BY <1>1
    <3> QED
      BY <3>1, <3>2
  <2>4. SubSeq(Slice(begin, past), mid - begin + 1, past - begin) = Slice(mid, past)
    <3>1. past \in mid..past
      BY <1>1, <1>7
    <3> QED
      BY <2>1, <3>1, SliceOfSlice
  <2>5. IsMantissa(Slice(begin, mid)) <=> MantissaTo(begin, mid)
    BY <2>1, MantissaOfSlice
  <2>6. IsExponent(Slice(mid, past)) <=> ExponentTo(mid, past)
    BY <2>1, ExponentOfSlice
  <2> QED
    BY <2>2, <2>3, <2>4, <2>5, <2>6
<1>8. ASSUME IsLiteral(part)
      PROVE  \E mid \in unsigned..past : MantissaTo(unsigned, mid) /\ ExponentTo(mid, past)
  <2>1. PICK text \in IF part # << >> /\ part[1] = Hyphen THEN {part, Tail(part)} ELSE {part} :
           \E n \in 1..Len(text) : /\ IsMantissa(SubSeq(text, 1, n))
                                   /\ IsExponent(SubSeq(text, n + 1, Len(text)))
    BY <1>8 DEF IsLiteral
  <2>2. PICK begin \in Positions :
           /\ begin <= past /\ text = Slice(begin, past)
           /\ begin = first \/ begin = unsigned
    <3>1. CASE text = part
      BY <1>1, <1>2, <3>1
    <3>2. CASE text = Tail(part) /\ part # << >> /\ part[1] = Hyphen
      <4>1. first < past
        BY <1>1, <1>4, <3>2
      <4>2. unsigned = first + 1
        BY <1>3, <1>5, <3>2, <4>1
      <4> QED
        BY <1>1, <1>6, <3>2, <4>1, <4>2
    <3> QED
      BY <2>1, <3>1, <3>2
  <2>3. PICK n \in 1..Len(text) : /\ IsMantissa(SubSeq(text, 1, n))
                                  /\ IsExponent(SubSeq(text, n + 1, Len(text)))
    BY <2>1
  <2>4. PICK mid \in begin..past : mid - begin = n
    <3>1. Len(text) = past - begin
      <4>1. past \in begin..past
        BY <1>1, <2>2
      <4> QED
        BY <1>7, <2>2, <4>1
    <3>2. begin + n \in begin..past /\ (begin + n) - begin = n
      BY <1>1, <2>2, <2>3, <3>1
    <3> QED
      BY <3>2
  <2>5. MantissaTo(begin, mid) /\ ExponentTo(mid, past)
    BY <1>7, <2>2, <2>3, <2>4
  <2>6. begin = unsigned
    <3> SUFFICES ASSUME begin # unsigned PROVE FALSE
      OBVIOUS
    <3>1. begin = first /\ unsigned = first + 1 /\ source[begin] = Hyphen
      BY <1>3, <2>2
    <3>2. Hyphen \notin Digits /\ Point # Hyphen
      BY ClassesDiffer, MarksDiffer
    <3>3. CASE DigitsTo(begin, mid)
      <4>1. begin \in begin..(mid - 1)
        BY <1>1, <3>3 DEF DigitsTo
      <4> QED
        BY <3>1, <3>2, <3>3, <4>1 DEF DigitsTo
    <3>4. CASE \E point \in begin..(mid - 1) :
                  /\ source[point] = Point
                  /\ \A j \in begin..(point - 1) : source[j] \in Digits
      <4>1. PICK point \in begin..(mid - 1) :
                  /\ source[point] = Point
                  /\ \A j \in begin..(point - 1) : source[j] \in Digits
        BY <3>4
      <4>2. point = begin \/ begin \in begin..(point - 1)
        BY <1>1
      <4> QED
        BY <3>1, <3>2, <4>1, <4>2
    <3> QED
      BY <2>5, <3>3, <3>4 DEF MantissaTo
  <2> QED
    BY <2>5, <2>6
<1>9. ASSUME NEW mid \in unsigned..past, MantissaTo(unsigned, mid), ExponentTo(mid, past)
      PROVE  IsLiteral(part)
  <2>1. unsigned < mid /\ unsigned <= past /\ first < past
    BY <1>1, <1>3, <1>9 DEF MantissaTo
  <2>2. PICK text : text = Slice(unsigned, past)
    OBVIOUS
  <2>3. text \in IF part # << >> /\ part[1] = Hyphen THEN {part, Tail(part)} ELSE {part}
    <3>1. part # << >>
      BY <1>1, <1>4, <2>1
    <3>2. CASE unsigned = first
      BY <1>2, <2>2, <3>2
    <3>3. CASE unsigned = first + 1 /\ source[first] = Hyphen
      BY <1>5, <1>6, <2>1, <2>2, <3>1, <3>3
    <3> QED
      BY <1>3, <3>2, <3>3
  <2>4. PICK n : n = mid - unsigned
    OBVIOUS
  <2>5. Len(text) = past - unsigned /\ IsMantissa(SubSeq(text, 1, n))
        /\ IsExponent(SubSeq(text, n + 1, Len(text)))
    BY <1>7, <1>9, <2>1, <2>2, <2>4
  <2>6. n \in 1..Len(text)
    BY <1>1, <1>3, <1>9, <2>1, <2>4, <2>5
  <2> QED
    BY <2>3, <2>5, <2>6 DEF IsLiteral
<1> QED
  BY <1>2, <1>3, <1>8, <1>9

-----------------------------------------------------------------------------
(* The literal that is taken is one, and none is longer. *)

\* A mantissa reaches no further than the one that is measured.
LEMMA MantissaEnds ==
    ASSUME Sourced, NEW i \in Positions, NEW past \in i..(Len(source) + 1), MantissaTo(i, past)
    PROVE  past <= PastMantissa(i)
<1>1. /\ Len(source) \in Nat /\ Positions = 1..(Len(source) + 1)
      /\ i \in Nat \ {0} /\ past \in Nat \ {0} /\ i < past
  BY LenProperties DEF Sourced, Positions, MantissaTo
<1>2. NoCharacter \notin Digits /\ Point \notin Digits
  BY DigitsIs
<1>3. CASE DigitsTo(i, past)
  <2>1. past <= Whole(i)
    BY <1>2, <1>3, PastRunReaches DEF DigitsTo, Whole
  <2>2. Whole(i) \in Positions /\ Fraction(i) \in Positions /\ Whole(i) <= Fraction(i)
    BY FractionIs
  <2>3. i \in i..(Fraction(i) - 1) /\ source[i] \in Digits
    BY <1>1, <1>3, <2>1, <2>2 DEF DigitsTo
  <2>4. PastMantissa(i) = Fraction(i)
    BY <2>3, MantissaIs
  <2> QED
    BY <1>1, <2>1, <2>2, <2>4
<1>4. CASE \E point \in i..(past - 1) :
             /\ source[point] = Point /\ i + 1 < past
             /\ \A j \in i..(point - 1) : source[j] \in Digits
             /\ \A j \in (point + 1)..(past - 1) : source[j] \in Digits
  <2>1. PICK point \in i..(past - 1) :
             /\ source[point] = Point /\ i + 1 < past
             /\ \A j \in i..(point - 1) : source[j] \in Digits
             /\ \A j \in (point + 1)..(past - 1) : source[j] \in Digits
    BY <1>4
  <2>2. point \in i..(Len(source) + 1) /\ point \in Nat \ {0} /\ point \in 1..Len(source)
    BY <1>1
  <2>3. CharacterAt(point) = Point
    BY <2>1, <2>2, CharacterIs
  <2>4. Whole(i) = point
    BY <1>2, <2>1, <2>2, <2>3, PastRunReaches DEF Whole
  <2>5. PICK next \in Positions : next = point + 1 /\ past \in next..(Len(source) + 1)
    BY <1>1, <2>2
  <2>6. past <= PastRun(next, Digits)
    BY <1>2, <2>1, <2>5, PastRunReaches
  <2>7. Fraction(i) = PastRun(next, Digits)
    BY <2>3, <2>4, <2>5 DEF Fraction
  <2>8. Fraction(i) \in Positions
    BY FractionIs
  <2>9. PICK j \in i..(past - 1) : source[j] \in Digits
    <3>1. CASE point = i
      <4>1. i + 1 \in (point + 1)..(past - 1) /\ i + 1 \in i..(past - 1)
        BY <1>1, <2>1, <3>1
      <4> QED
        BY <2>1, <4>1
    <3>2. CASE point # i
      <4>1. i \in i..(point - 1) /\ i \in i..(past - 1)
        BY <1>1, <2>2, <3>2
      <4> QED
        BY <2>1, <4>1
    <3> QED
      BY <3>1, <3>2
  <2>10. j \in i..(Fraction(i) - 1)
    BY <1>1, <2>6, <2>7, <2>8
  <2>11. PastMantissa(i) = Fraction(i)
    BY <2>9, <2>10, MantissaIs
  <2> QED
    BY <2>6, <2>7, <2>11
<1> QED
  BY <1>3, <1>4 DEF MantissaTo

\* What is measured is a mantissa.
LEMMA MantissaIsOne ==
    ASSUME Sourced, NEW i \in Positions, i < PastMantissa(i)
    PROVE  MantissaTo(i, PastMantissa(i))
<1>1. Len(source) \in Nat /\ Positions = 1..(Len(source) + 1) /\ i \in Nat \ {0}
  BY LenProperties DEF Sourced, Positions
<1>2. PICK past \in Positions :
         past = PastMantissa(i) /\ past = Fraction(i) /\ i < past
         /\ \E j \in i..(past - 1) : source[j] \in Digits
  BY MantissaIs
<1>3. PICK whole \in Positions :
         /\ whole = Whole(i) /\ i <= whole /\ whole <= past
         /\ \A j \in i..(whole - 1) : source[j] \in Digits
         /\ \/ past = whole
            \/ /\ source[whole] = Point /\ whole < past
               /\ \A j \in (whole + 1)..(past - 1) : source[j] \in Digits
  BY <1>2, FractionIs
<1>4. CASE past = whole
  BY <1>2, <1>3, <1>4 DEF MantissaTo, DigitsTo
<1>5. CASE /\ source[whole] = Point /\ whole < past
           /\ \A j \in (whole + 1)..(past - 1) : source[j] \in Digits
  <2>1. whole \in i..(past - 1)
    BY <1>1, <1>3, <1>5
  <2>2. i + 1 < past
    <3>1. PICK j \in i..(past - 1) : source[j] \in Digits
      BY <1>2
    <3>2. j # whole
      BY <1>5, <3>1, DigitsIs
    <3> QED
      BY <1>1, <2>1, <3>2
  <2> QED
    BY <1>2, <1>3, <1>5, <2>1, <2>2 DEF MantissaTo
<1> QED
  BY <1>3, <1>4, <1>5

\* A mantissa and an exponent reach no further than the exponent that is measured behind
\* the mantissa that is measured.
LEMMA ExponentEnds ==
    ASSUME Sourced, NEW mid \in Positions, NEW mantissa \in Positions, mid <= mantissa,
           \A j \in mid..(mantissa - 1) : source[j] \in Digits \cup {Point},
           NEW past \in mid..(Len(source) + 1), ExponentTo(mid, past)
    PROVE  past <= PastExponent(mantissa)
<1>1. /\ Len(source) \in Nat /\ Positions = 1..(Len(source) + 1)
      /\ mid \in Nat \ {0} /\ mantissa \in Nat \ {0} /\ past \in Nat \ {0}
  BY LenProperties DEF Sourced, Positions
<1>2. PastExponent(mantissa) \in Positions /\ mantissa <= PastExponent(mantissa)
  BY ExponentIs
<1>3. CASE mid = past
  BY <1>1, <1>2, <1>3
<1>4. CASE /\ mid < past /\ source[mid] \in ExponentMarks
           /\ \/ DigitsTo(mid + 1, past)
              \/ mid + 1 < past /\ source[mid + 1] \in Signs /\ DigitsTo(mid + 2, past)
  <2>1. mid = mantissa
    <3>1. source[mid] \notin Digits /\ source[mid] # Point
      BY <1>4, ClassesDiffer, MarksDiffer
    <3>2. mid < mantissa => mid \in mid..(mantissa - 1)
      BY <1>1
    <3> QED
      BY <1>1, <3>1, <3>2
  <2>2. CharacterAt(mid) = source[mid]
    <3>1. mid \in 1..Len(source)
      BY <1>1, <1>4
    <3> QED
      BY <1>1, <3>1, CharacterIs
  <2>3. mid + 1 < past => CharacterAt(mid + 1) = source[mid + 1]
    <3>1. mid + 1 < past => mid + 1 \in 1..Len(source) /\ mid + 1 \in Nat \ {0}
      BY <1>1
    <3> QED
      BY <3>1, CharacterIs
  <2>4. ASSUME NEW digits \in {mid + 1, mid + 2}, digits = ExponentDigits(mid),
               DigitsTo(digits, past)
        PROVE  past <= PastExponent(mantissa)
    <3>1. digits \in Positions /\ past \in digits..(Len(source) + 1) /\ digits \in Nat \ {0}
          /\ digits \in digits..(past - 1) /\ digits \in 1..Len(source)
      BY <1>1, <2>4 DEF DigitsTo
    <3>2. past <= PastRun(digits, Digits)
      BY <2>4, <3>1, DigitsIs, PastRunReaches DEF DigitsTo
    <3>3. CharacterAt(digits) \in Digits
      BY <2>4, <3>1, CharacterIs DEF DigitsTo
    <3>4. PastExponent(mid) = PastRun(digits, Digits)
      BY <1>4, <2>2, <2>4, <3>3 DEF PastExponent, ExponentDigits
    <3> QED
      BY <2>1, <3>2, <3>4
  <2>5. CASE DigitsTo(mid + 1, past)
    <3>1. mid + 1 < past /\ mid + 1 \in (mid + 1)..(past - 1)
      BY <1>1, <2>5 DEF DigitsTo
    <3>2. source[mid + 1] \in Digits
      BY <2>5, <3>1 DEF DigitsTo
    <3>3. CharacterAt(mid + 1) \notin Signs
      BY <2>3, <3>1, <3>2, ClassesDiffer
    <3>4. ExponentDigits(mid) = mid + 1
      BY <3>3 DEF ExponentDigits
    <3> QED
      BY <2>4, <2>5, <3>4
  <2>6. CASE mid + 1 < past /\ source[mid + 1] \in Signs /\ DigitsTo(mid + 2, past)
    <3>1. ExponentDigits(mid) = mid + 2
      BY <2>3, <2>6 DEF ExponentDigits
    <3> QED
      BY <2>4, <2>6, <3>1
  <2> QED
    BY <1>4, <2>5, <2>6
<1> QED
  BY <1>3, <1>4 DEF ExponentTo

\* What is measured is an exponent.
LEMMA ExponentIsOne ==
    ASSUME Sourced, NEW i \in Positions
    PROVE  ExponentTo(i, PastExponent(i))
<1>1. Len(source) \in Nat /\ Positions = 1..(Len(source) + 1) /\ i \in Nat \ {0}
  BY LenProperties DEF Sourced, Positions
<1>2. PICK past, digits :
         /\ past \in Positions /\ past = PastExponent(i) /\ digits = ExponentDigits(i)
         /\ \/ past = i
            \/ /\ i \in 1..Len(source) /\ source[i] \in ExponentMarks
               /\ digits < past
               /\ \/ digits = i + 1
                  \/ digits = i + 2 /\ source[i + 1] \in Signs
               /\ \A j \in digits..(past - 1) : source[j] \in Digits
  <2>1. PICK past, digits :
         past = PastExponent(i) /\ digits = ExponentDigits(i)
    OBVIOUS
  <2> QED
    BY <2>1, ExponentIs
<1>3. CASE past = i
  BY <1>2, <1>3 DEF ExponentTo
<1>4. CASE past # i
  <2>1. DigitsTo(digits, past)
    BY <1>2, <1>4 DEF DigitsTo
  <2>2. i < past /\ (digits = i + 2 => i + 1 < past)
    BY <1>1, <1>2, <1>4
  <2> QED
    BY <1>1, <1>2, <1>4, <2>1, <2>2 DEF ExponentTo
<1> QED
  BY <1>3, <1>4

-----------------------------------------------------------------------------
(* The longest token. *)

\* A literal that begins at a position ends at the latest where the measured one does.
LEMMA LiteralsEnd ==
    ASSUME Sourced, NEW i \in Positions, NEW past \in i..(Len(source) + 1),
           IsLiteral(Slice(i, past))
    PROVE  i < past /\ past <= PastLiteral(i)
<1>1. /\ Len(source) \in Nat /\ Positions = 1..(Len(source) + 1)
      /\ i \in Nat \ {0} /\ past \in Nat \ {0}
  BY LenProperties DEF Sourced, Positions
<1>2. PICK unsigned \in Positions : unsigned = Unsigned(i) /\ i <= unsigned
  BY <1>1, UnsignedIs
<1>3. PICK mid \in unsigned..past : MantissaTo(unsigned, mid) /\ ExponentTo(mid, past)
  BY <1>2, LiteralOfSlice
<1>4. unsigned < mid /\ mid \in unsigned..(Len(source) + 1) /\ mid \in Positions
      /\ past \in mid..(Len(source) + 1)
  BY <1>1, <1>2, <1>3 DEF MantissaTo
<1>5. PICK mantissa \in Positions :
         /\ mantissa = PastMantissa(unsigned) /\ unsigned <= mantissa
         /\ \A j \in unsigned..(mantissa - 1) : source[j] \in Digits \cup {Point}
  BY MantissaIs
<1>6. mid <= mantissa
  BY <1>3, <1>4, <1>5, MantissaEnds
<1>7. \A j \in mid..(mantissa - 1) : source[j] \in Digits \cup {Point}
  <2>1. \A j \in mid..(mantissa - 1) : j \in unsigned..(mantissa - 1)
    BY <1>1, <1>4
  <2> QED
    BY <1>5, <2>1
<1>8. past <= PastExponent(mantissa)
  BY <1>3, <1>4, <1>6, <1>7, ExponentEnds
<1>9. mantissa # unsigned
  BY <1>1, <1>4, <1>6
<1>10. PastLiteral(i) = PastExponent(mantissa)
  BY <1>2, <1>5, <1>9, LiteralIs
<1> QED
  BY <1>1, <1>2, <1>4, <1>8, <1>10

\* What is measured as a literal is one, and begins as one.
LEMMA LiteralIsOne ==
    ASSUME Sourced, NEW i \in Positions, i < PastLiteral(i)
    PROVE  IsLiteral(Slice(i, PastLiteral(i))) /\ source[i] \in Digits \cup {Point, Hyphen}
<1>1. Len(source) \in Nat /\ Positions = 1..(Len(source) + 1) /\ i \in Nat \ {0}
  BY LenProperties DEF Sourced, Positions
<1>2. PICK unsigned \in Positions :
         /\ unsigned = Unsigned(i)
         /\ \/ unsigned = i
            \/ unsigned = i + 1 /\ i \in 1..Len(source) /\ source[i] = Hyphen
  BY UnsignedIs
<1>3. PICK past \in Positions, mantissa \in Positions :
         /\ past = PastLiteral(i) /\ mantissa = PastMantissa(unsigned) /\ unsigned < mantissa
         /\ past = PastExponent(mantissa)
  <2>1. /\ PastLiteral(i) \in Positions /\ PastMantissa(Unsigned(i)) \in Positions
        /\ Unsigned(i) < PastMantissa(Unsigned(i))
        /\ PastLiteral(i) = PastExponent(PastMantissa(Unsigned(i)))
    BY <1>1, LiteralIs
  <2> QED
    BY <1>2, <2>1
<1>4. MantissaTo(unsigned, mantissa)
  BY <1>3, MantissaIsOne
<1>5. ExponentTo(mantissa, past) /\ mantissa <= past
  BY <1>3, ExponentIsOne, ExponentIs
<1>6. mantissa \in unsigned..past /\ past \in i..(Len(source) + 1)
  BY <1>1, <1>2, <1>3, <1>5
<1>7. IsLiteral(Slice(i, past))
  BY <1>2, <1>4, <1>5, <1>6, LiteralOfSlice
<1>8. unsigned = i => source[i] \in Digits \cup {Point}
  <2>1. unsigned \in unsigned..(mantissa - 1)
    BY <1>1, <1>3
  <2>2. \A j \in unsigned..(mantissa - 1) : source[j] \in Digits \cup {Point}
    BY <1>3, MantissaIs
  <2> QED
    BY <2>1, <2>2
<1> QED
  BY <1>2, <1>3, <1>7, <1>8

\* A part of the source that is an identifier is of their characters; one that is a
\* character is as long as one.
LEMMA NameOrMarkOfSlice ==
    ASSUME Sourced, NEW first \in Positions, NEW past \in first..(Len(source) + 1), first < past
    PROVE  /\ IsIdentifier(Slice(first, past)) <=>
                 source[first] \in Heads /\ \A j \in first..(past - 1) : source[j] \in Bodies
           /\ \A c : Slice(first, past) = <<c>> <=> past = first + 1 /\ source[first] = c
<1>1. Len(source) \in Nat /\ first \in Nat \ {0} /\ past \in Nat /\ Positions = 1..(Len(source) + 1)
  BY LenProperties DEF Sourced, Positions
<1>2. PICK part : part = Slice(first, past)
  OBVIOUS
<1>3. /\ part \in Seq(Characters) /\ Len(part) = past - first
      /\ \A i \in 1..(past - first) : part[i] = source[first + i - 1]
  BY <1>2, SliceIs
<1>4. part # << >> /\ part[1] = source[first]
  <2>1. 1 \in 1..(past - first) /\ first + 1 - 1 = first
    BY <1>1
  <2>2. part[1] = source[first]
    BY <1>3, <2>1
  <2>3. part # << >>
    BY <1>1, <1>2, EveryIs
  <2> QED
    BY <2>2, <2>3
<1>5. IsIdentifier(part) <=>
         source[first] \in Heads /\ \A j \in first..(past - 1) : source[j] \in Bodies
  <2>1. Every(part, Bodies) <=> \A j \in first..(past - 1) : source[j] \in Bodies
    BY <1>2, EveryIs
  <2> QED
    BY <1>4, <2>1 DEF IsIdentifier
<1>6. ASSUME NEW c PROVE part = <<c>> <=> past = first + 1 /\ source[first] = c
  <2>1. part = <<c>> => Len(part) = 1 /\ part[1] = c
    OBVIOUS
  <2>2. ASSUME Len(part) = 1, part[1] = c PROVE part = <<c>>
    <3>1. c \in Characters /\ <<c>> \in Seq(Characters) /\ Len(<<c>>) = 1 /\ <<c>>[1] = c
      <4>1. 1 \in 1..Len(part)
        BY <2>2
      <4> QED
        BY <1>3, <2>2, <4>1, ElementOfSeq
    <3>2. \A i \in 1..Len(part) : part[i] = <<c>>[i]
      BY <2>2, <3>1
    <3> QED
      BY <1>3, <2>2, <3>1, <3>2, SeqEqual
  <2> QED
    BY <1>1, <1>3, <1>4, <2>1, <2>2
<1> QED
  BY <1>2, <1>5, <1>6

\* No token is longer than the atom that is taken.
LEMMA NoneIsLonger ==
    ASSUME Sourced, NEW begin \in Positions, NEW kind, NEW past \in Positions,
           TakenAt(begin, kind, past), begin < past,
           NEW end \in (past + 1)..(Len(source) + 1)
    PROVE  ~IsToken(Slice(begin, end))
<1>1. /\ Len(source) \in Nat /\ Positions = 1..(Len(source) + 1) /\ past \in Nat \ {0}
      /\ begin \in Nat \ {0} /\ end \in begin..(Len(source) + 1) /\ begin < end /\ past < end
      /\ past \in begin..(end - 1) /\ past \in 1..Len(source)
  BY LenProperties DEF Sourced, Positions
<1>2. ~ \E mark \in Punctuation : Slice(begin, end) = <<mark>>
  <2>1. end # begin + 1
    BY <1>1
  <2> QED
    BY <1>1, <2>1, NameOrMarkOfSlice
<1>3. CASE kind = "IDENTIFIER" /\ source[begin] \in Heads /\ past = PastRun(begin, Bodies)
  <2>1. NoCharacter \notin Bodies
    BY ClassesDiffer
  <2>2. source[past] \notin Bodies
    BY <1>1, <1>3, <2>1, PastRunIs, CharacterIs
  <2>3. ~IsIdentifier(Slice(begin, end))
    BY <1>1, <2>2, NameOrMarkOfSlice
  <2>4. ~IsLiteral(Slice(begin, end))
    <3> SUFFICES ASSUME IsLiteral(Slice(begin, end)) PROVE FALSE
      OBVIOUS
    <3>1. begin < PastLiteral(begin)
      <4>1. end <= PastLiteral(begin) /\ PastLiteral(begin) \in Positions
        BY <1>1, LiteralsEnd, LiteralIs
      <4> QED
        BY <1>1, <4>1
    <3>2. source[begin] \in Digits \cup {Point, Hyphen}
      BY <3>1, LiteralIsOne
    <3> QED
      BY <1>3, <3>2, ClassesDiffer, MarksDiffer
  <2> QED
    BY <1>2, <2>3, <2>4 DEF IsToken
<1>4. CASE source[begin] \notin Heads /\ PastLiteral(begin) <= past
  <2>1. ~IsIdentifier(Slice(begin, end))
    BY <1>1, <1>4, NameOrMarkOfSlice
  <2>2. ~IsLiteral(Slice(begin, end))
    <3>1. ~(end <= PastLiteral(begin))
      <4>1. PastLiteral(begin) \in Positions
        BY LiteralIs
      <4> QED
        BY <1>1, <1>4, <4>1
    <3> QED
      BY <1>1, <3>1, LiteralsEnd
  <2> QED
    BY <1>2, <2>1, <2>2 DEF IsToken
<1>5. begin <= begin + 1 /\ past <= past
  BY <1>1
<1> QED
  BY <1>1, <1>3, <1>4, <1>5 DEF TakenAt

\* The atom that is taken is a token of its kind, or a character that is none.
LEMMA TakenIsToken ==
    ASSUME Sourced, NEW begin \in Positions, NEW kind, NEW past \in Positions,
           TakenAt(begin, kind, past), begin < past
    PROVE  /\ kind = "IDENTIFIER" => IsIdentifier(Slice(begin, past))
           /\ kind = "NUMERIC_LITERAL" => IsLiteral(Slice(begin, past))
           /\ kind \in Punctuation => Slice(begin, past) = <<kind>>
           /\ kind = "UNRECOGNISED" => past = begin + 1 /\ ~IsToken(Slice(begin, past))
<1>1. /\ Len(source) \in Nat /\ Positions = 1..(Len(source) + 1) /\ past \in Nat \ {0}
      /\ begin \in Nat \ {0} /\ past \in begin..(Len(source) + 1)
  BY LenProperties DEF Sourced, Positions
<1>2. kind = "IDENTIFIER" => IsIdentifier(Slice(begin, past))
  <2> SUFFICES ASSUME kind = "IDENTIFIER" PROVE IsIdentifier(Slice(begin, past))
    OBVIOUS
  <2>1. source[begin] \in Heads /\ past = PastRun(begin, Bodies)
    BY KindsDiffer DEF TakenAt
  <2>2. \A j \in begin..(past - 1) : source[j] \in Bodies
    BY <2>1, ClassesDiffer, PastRunIs
  <2> QED
    BY <1>1, <2>1, <2>2, NameOrMarkOfSlice
<1>3. kind = "NUMERIC_LITERAL" => IsLiteral(Slice(begin, past))
  <2> SUFFICES ASSUME kind = "NUMERIC_LITERAL" PROVE IsLiteral(Slice(begin, past))
    OBVIOUS
  <2>1. past = PastLiteral(begin) /\ begin < PastLiteral(begin)
    BY KindsDiffer DEF TakenAt
  <2> QED
    BY <2>1, LiteralIsOne
<1>4. kind \in Punctuation => Slice(begin, past) = <<kind>>
  <2> SUFFICES ASSUME kind \in Punctuation PROVE Slice(begin, past) = <<kind>>
    OBVIOUS
  <2>1. kind = source[begin] /\ past = begin + 1
    BY KindsDiffer DEF TakenAt
  <2> QED
    BY <1>1, <2>1, NameOrMarkOfSlice
<1>5. kind = "UNRECOGNISED" => past = begin + 1 /\ ~IsToken(Slice(begin, past))
  <2> SUFFICES ASSUME kind = "UNRECOGNISED"
               PROVE  past = begin + 1 /\ ~IsToken(Slice(begin, past))
    OBVIOUS
  <2>1. /\ past = begin + 1 /\ source[begin] \notin Heads /\ source[begin] \notin Punctuation
        /\ PastLiteral(begin) = begin
    BY KindsDiffer DEF TakenAt
  <2>2. ~IsIdentifier(Slice(begin, past)) /\ ~ \E mark \in Punctuation : Slice(begin, past) = <<mark>>
    BY <1>1, <2>1, NameOrMarkOfSlice
  <2>3. ~IsLiteral(Slice(begin, past))
    <3>1. ~(past <= PastLiteral(begin))
      BY <1>1, <2>1
    <3> QED
      BY <1>1, <3>1, LiteralsEnd
  <2> QED
    BY <2>1, <2>2, <2>3 DEF IsToken
<1> QED
  BY <1>2, <1>3, <1>4, <1>5

\* An atom is the longest token that begins where it does (llfpl_lexical_scanner_next,
\* measure_numeric_literal).
THEOREM LongestTokenIsTaken == Spec => []LongestToken
<1>1. IInv => LongestToken
  <2> SUFFICES ASSUME IInv PROVE LongestToken
    OBVIOUS
  <2>1. PICK begin, kind : begin = atom.text_begin /\ kind = atom.kind
    OBVIOUS
  <2>2. /\ Sourced /\ Placed /\ Len(source) \in Nat /\ Positions = 1..(Len(source) + 1)
        /\ begin \in Positions
    BY <2>1, LenProperties DEF IInv, TypeOK, Sourced, Placed, Positions
  <2>3. CASE kind = "none"
    BY <2>1, <2>3, KindsDiffer DEF LongestToken
  <2>4. CASE kind # "none"
    <3>1. PICK past \in Positions :
             /\ TakenAt(begin, kind, past) /\ atom.text_length = past - begin
             /\ begin <= past /\ (begin <= Len(source) => begin < past)
      BY <2>1, <2>2, <2>4 DEF Placed
    <3>2. Text = Slice(begin, past)
      <4>1. begin + (past - begin) - 1 = past - 1
        BY <2>2
      <4> QED
        BY <2>1, <3>1, <4>1 DEF Text, Slice
    <3>3. Longer = {SubSeq(source, begin, j) : j \in past..Len(source)}
      <4>1. begin + (past - begin) = past
        BY <2>2
      <4> QED
        BY <2>1, <3>1, <4>1 DEF Longer
    <3>4. CASE begin = past
      <4>1. begin = Len(source) + 1
        BY <2>2, <3>1, <3>4
      <4>2. kind = "END_OF_SOURCE"
        BY <2>2, <3>1, <4>1 DEF TakenAt
      <4>3. \A j \in past..Len(source) : FALSE
        BY <2>2, <3>4, <4>1
      <4>4. Longer = {}
        BY <3>3, <4>3
      <4> QED
        BY <2>1, <4>2, <4>4, KindsDiffer DEF LongestToken
    <3>5. CASE begin < past
      <4>1. ASSUME NEW longer \in Longer PROVE ~IsToken(longer)
        <5>1. PICK j \in past..Len(source) : longer = SubSeq(source, begin, j)
          BY <3>3
        <5>2. PICK end \in (past + 1)..(Len(source) + 1) : end - 1 = j
          <6>1. j + 1 \in (past + 1)..(Len(source) + 1) /\ (j + 1) - 1 = j
            BY <2>2
          <6> QED
            BY <6>1
        <5>3. longer = Slice(begin, end)
          BY <5>1, <5>2 DEF Slice
        <5> QED
          BY <2>2, <3>1, <3>5, <5>3, NoneIsLonger
      <4>2. /\ kind = "IDENTIFIER" => IsIdentifier(Text)
            /\ kind = "NUMERIC_LITERAL" => IsLiteral(Text)
            /\ kind \in Punctuation => Text = <<kind>>
            /\ kind = "UNRECOGNISED" => past = begin + 1 /\ ~IsToken(Text)
        BY <2>2, <3>1, <3>2, <3>5, TakenIsToken
      <4>3. past = begin + 1 => Len(Text) = 1
        <5>1. past \in begin..(Len(source) + 1)
          BY <2>2, <3>1
        <5>2. Len(Text) = past - begin
          BY <2>2, <3>2, <5>1, SliceIs
        <5> QED
          BY <2>2, <5>2
      <4> QED
        BY <2>1, <4>1, <4>2, <4>3 DEF LongestToken
    <3> QED
      BY <2>2, <3>1, <3>4, <3>5
  <2> QED
    BY <2>3, <2>4
<1> QED
  BY <1>1, InvariantHolds, PTL

=============================================================================
