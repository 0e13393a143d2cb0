--------------------------- MODULE LexicalScanner ---------------------------
(***************************************************************************)
(* The scanner on the characters of a module: what it skips, where an atom *)
(* ends, the lines and columns it keeps, and the one reader that looks at  *)
(* the characters as well as at the atoms, the path of a Require.          *)
(* Positions count from one; the cursor is the next character to examine.  *)
(***************************************************************************)
EXTENDS Integers, Sequences, FiniteSets, FiniteSetsExt

CONSTANTS
    Digits, Heads,              \* digits; letters and the underscore
    Spaces,                     \* white space, the line break included
    LineBreak,
    MaximumLength,              \* alphabet -> bound on the modules written in it
    SpecificationCapacity       \* LLFPL_MODULE_PATH_BUFFER_CAPACITY

Characters == UNION DOMAIN MaximumLength

NoCharacter == "NUL"            \* what there is beyond the end of the source
Hyphen == "-"
Point == "."
Opening == "("
Closing == ")"
Punctuation == {Opening, Closing, ","}
Signs == {"+", Hyphen}
ExponentMarks == {"e", "E"}
Bodies == Heads \cup Digits
Trimmed == {" ", "\t"}

\* The classes are disjoint ranges of characters. The end of the source is of none of
\* them; nor is a null byte in the source, which is a character like any other.
ASSUME ScannerAssumption ==
    /\ Digits \subseteq Characters /\ Heads \subseteq Characters /\ Digits \cap Heads = {}
    /\ LineBreak \in Spaces /\ Spaces \subseteq Characters /\ Spaces \cap Bodies = {}
    /\ (Punctuation \cup Signs \cup {Point}) \cap (Spaces \cup Bodies) = {}
    /\ ExponentMarks \cap (Spaces \cup Digits) = {}
    /\ NoCharacter \notin Characters
    /\ MaximumLength \in [DOMAIN MaximumLength -> Nat] /\ SpecificationCapacity \in Nat

VARIABLES
    source,                     \* the characters of the module
    cursor, line_number, current_line_begin,
    atom,                       \* the last atom, with the position it was asked at
    specification               \* of the Require that is being read

vars == <<source, cursor, line_number, current_line_begin, atom, specification>>

Kinds == {"IDENTIFIER", "NUMERIC_LITERAL", "END_OF_SOURCE", "UNRECOGNISED"} \cup Punctuation
None == [state |-> "none"]
SpecificationStates == {"none", "reading", "read", "empty", "overlong", "unterminated"}

Positions == 1..(Len(source) + 1)

TypeOK ==
    /\ source \in Seq(Characters)
    /\ cursor \in Positions /\ current_line_begin \in Positions
    /\ line_number \in Positions
    /\ atom \in [kind : Kinds \cup {"none"}, asked : Positions, text_begin : Positions,
                 text_length : 0..Len(source), line_number : Positions,
                 column_number : Positions]
    /\ specification.state \in SpecificationStates

Init ==
    /\ \E alphabet \in DOMAIN MaximumLength :
          \E length \in 0..MaximumLength[alphabet] : source \in [1..length -> alphabet]
    /\ cursor = 1 /\ line_number = 1 /\ current_line_begin = 1
    /\ atom = [kind |-> "none", asked |-> 1, text_begin |-> 1, text_length |-> 0,
               line_number |-> 1, column_number |-> 1]
    /\ specification = None

-----------------------------------------------------------------------------
(* Characters and runs of them. *)

CharacterAt(i) == IF i <= Len(source) THEN source[i] ELSE NoCharacter

\* The first position from i on whose character is not one of the set.
PastRun(i, set) == Min({j \in i..(Len(source) + 1) : CharacterAt(j) \notin set})

\* Mutant: one hyphen opens a comment.
OpensComment_OneHyphen(i) == CharacterAt(i) = Hyphen
OpensComment(i) == CharacterAt(i) = Hyphen /\ CharacterAt(i + 1) = Hyphen

\* skip_insignificant_text from each position.
Skipped[i \in Positions] ==
    IF CharacterAt(i) \in Spaces THEN Skipped[i + 1]
    ELSE IF OpensComment(i) THEN Skipped[PastRun(i, Characters \ {LineBreak})]
    ELSE i

-----------------------------------------------------------------------------
(* Where an atom ends: each operator yields the position past its text. *)

\* digit+ ( '.' digit* )? | '.' digit+, or the position itself when neither.
PastMantissa(i) ==
    LET whole == PastRun(i, Digits)
        fraction == IF CharacterAt(whole) = Point THEN PastRun(whole + 1, Digits) ELSE whole
    IN  IF \E j \in i..(fraction - 1) : source[j] \in Digits THEN fraction ELSE i

\* Mutant: an incomplete exponent is taken as well.
PastExponent_Incomplete(i) ==
    IF CharacterAt(i) \notin ExponentMarks THEN i
    ELSE LET digits == IF CharacterAt(i + 1) \in Signs THEN i + 2 ELSE i + 1
         IN  PastRun(digits, Digits)
PastExponent(i) ==
    LET digits == IF CharacterAt(i + 1) \in Signs THEN i + 2 ELSE i + 1
    IN  IF CharacterAt(i) \in ExponentMarks /\ CharacterAt(digits) \in Digits
        THEN PastRun(digits, Digits) ELSE i

\* measure_numeric_literal.
PastLiteral(i) ==
    LET unsigned == IF CharacterAt(i) = Hyphen THEN i + 1 ELSE i
        mantissa == PastMantissa(unsigned)
    IN  IF mantissa = unsigned THEN i ELSE PastExponent(mantissa)

\* Mutant: an unknown character is not taken.
Atom_UnknownStays(kind, text_begin, past) ==
    [kind |-> kind, text_begin |-> text_begin,
     text_length |-> IF kind = "UNRECOGNISED" THEN 0 ELSE past - text_begin]
\* emit_atom, but for the position it records and the cursor it moves.
Atom(kind, text_begin, past) ==
    [kind |-> kind, text_begin |-> text_begin, text_length |-> past - text_begin]

AtomFrom(i) ==
    IF i > Len(source) THEN Atom("END_OF_SOURCE", i, i)
    ELSE IF source[i] \in Heads THEN Atom("IDENTIFIER", i, PastRun(i, Bodies))
    ELSE IF PastLiteral(i) > i THEN Atom("NUMERIC_LITERAL", i, PastLiteral(i))
    ELSE IF source[i] \in Punctuation THEN Atom(source[i], i, i + 1)
    ELSE Atom("UNRECOGNISED", i, i + 1)

-----------------------------------------------------------------------------
(* llfpl_lexical_scanner_next. *)

BreaksBefore(i) == {j \in cursor..(i - 1) : source[j] = LineBreak}

\* Mutant: a comment's line break moves no line.
LineBegin_Same(i) == current_line_begin
LineBegin(i) == IF BreaksBefore(i) = {} THEN current_line_begin ELSE Max(BreaksBefore(i)) + 1

TakeAtom ==
    LET begin == Skipped[cursor]
        taken == AtomFrom(begin)
    IN  /\ line_number' = line_number + Cardinality(BreaksBefore(begin))
        /\ current_line_begin' = LineBegin(begin)
        /\ cursor' = begin + taken.text_length
        /\ atom' = [kind |-> taken.kind, asked |-> cursor,
                    text_begin |-> begin, text_length |-> taken.text_length,
                    line_number |-> line_number',
                    column_number |-> begin - current_line_begin' + 1]

\* A reader asks for the next atom; at the end of the source it is the end again.
AskAtom ==
    /\ specification.state \in {"none", "read"}
    /\ TakeAtom
    /\ specification' = None
    /\ UNCHANGED source

-----------------------------------------------------------------------------
(* consume_module_specification, past its opening parenthesis. *)

BeginSpecification ==
    /\ atom.kind = Opening /\ specification.state = "none"
    /\ specification' = [state |-> "reading", begin |-> cursor]
    /\ UNCHANGED <<source, cursor, line_number, current_line_begin, atom>>

\* Mutant: white space after the path is kept.
LastOfPath_Untrimmed(begin, end) == end - 1
LastOfPath(begin, end) ==
    LET kept == {j \in begin..(end - 1) : source[j] \notin Trimmed}
    IN  IF kept = {} THEN begin - 1 ELSE Max(kept)

\* The path is the text up to the atom that closes, without the white space at
\* its ends.
PathUpTo(end) ==
    LET first == PastRun(specification.begin, Trimmed)
        last == LastOfPath(first, end)
    IN  SubSeq(source, first, last)

ReadSpecification ==
    /\ specification.state = "reading"
    /\ TakeAtom
    /\ LET path == PathUpTo(atom'.text_begin)
       IN  specification' =
              IF atom'.kind = "END_OF_SOURCE"
              THEN [specification EXCEPT !.state = "unterminated"]
              ELSE IF atom'.kind # Closing THEN specification
              ELSE IF path = << >> THEN [specification EXCEPT !.state = "empty"]
              ELSE IF Len(path) + 1 > SpecificationCapacity
              THEN [specification EXCEPT !.state = "overlong"]
              ELSE [state |-> "read", begin |-> specification.begin, path |-> path]
    /\ UNCHANGED source

Next == AskAtom \/ BeginSpecification \/ ReadSpecification

\* The loop that reads a path has no exit but the atoms it waits for.
Spec == Init /\ [][Next]_vars /\ WF_vars(ReadSpecification)

-----------------------------------------------------------------------------
(* The documented grammar, of a whole text. *)

Every(text, set) == \A i \in DOMAIN text : text[i] \in set
IsDigits(text) == text # << >> /\ Every(text, Digits)

IsExponent(text) ==
    \/ text = << >>
    \/ /\ text[1] \in ExponentMarks
       /\ \/ IsDigits(Tail(text))
          \/ Len(text) > 1 /\ text[2] \in Signs /\ IsDigits(Tail(Tail(text)))

IsMantissa(text) ==
    \/ IsDigits(text)
    \/ \E i \in DOMAIN text :
          /\ text[i] = Point
          /\ Every(SubSeq(text, 1, i - 1), Digits) /\ Every(SubSeq(text, i + 1, Len(text)), Digits)
          /\ Len(text) > 1

\* literal := '-'? ( digit+ ( '.' digit* )? | '.' digit+ ) ( [eE] [+-]? digit+ )?
IsLiteral(text) ==
    \E unsigned \in IF text # << >> /\ text[1] = Hyphen THEN {text, Tail(text)} ELSE {text} :
       \E n \in 1..Len(unsigned) :
          /\ IsMantissa(SubSeq(unsigned, 1, n))
          /\ IsExponent(SubSeq(unsigned, n + 1, Len(unsigned)))

IsIdentifier(text) == text # << >> /\ text[1] \in Heads /\ Every(text, Bodies)

IsToken(text) ==
    IsIdentifier(text) \/ IsLiteral(text) \/ \E mark \in Punctuation : text = <<mark>>

\* White space, and comments that end with their line.
IsInsignificant(first, past) ==
    \A i \in first..(past - 1) :
       \/ source[i] \in Spaces
       \/ \E j \in first..i :
             /\ j < past - 1 /\ source[j] = Hyphen /\ source[j + 1] = Hyphen
             /\ \A k \in j..i : source[k] # LineBreak

-----------------------------------------------------------------------------
(* Properties. *)

Text == SubSeq(source, atom.text_begin, atom.text_begin + atom.text_length - 1)
Longer == {SubSeq(source, atom.text_begin, j) :
              j \in (atom.text_begin + atom.text_length)..Len(source)}

\* An atom is the longest token of the documented grammar that begins there;
\* a character that begins none is an atom of its own.
LongestToken ==
    /\ atom.kind = "IDENTIFIER" => IsIdentifier(Text)
    /\ atom.kind = "NUMERIC_LITERAL" => IsLiteral(Text)
    /\ atom.kind \in Punctuation => Text = <<atom.kind>>
    /\ atom.kind = "UNRECOGNISED" => Len(Text) = 1 /\ ~IsToken(Text)
    /\ atom.kind # "none" => \A longer \in Longer : ~IsToken(longer)

\* Nothing but white space and comments lies between one atom and the next, no
\* atom begins with either, and only at the end of the text is the source over.
NothingSkipped ==
    /\ IsInsignificant(atom.asked, atom.text_begin)
    /\ atom.kind \notin {"none", "END_OF_SOURCE"} =>
          /\ source[atom.text_begin] \notin Spaces
          /\ ~(Len(Text) = 1 /\ OpensComment(atom.text_begin))
    /\ atom.kind = "END_OF_SOURCE" => atom.text_begin = Len(source) + 1

\* The line and the column of an atom are those of its first character, although
\* the cursor moves over an atom without counting.
PlacedExactly ==
    LET before == {j \in 1..(atom.text_begin - 1) : source[j] = LineBreak}
    IN  /\ atom.line_number = Cardinality(before) + 1
        /\ atom.column_number = atom.text_begin - (IF before = {} THEN 0 ELSE Max(before))

\* The text between a Require's parenthesis and the first one that closes.
FirstClosing ==
    IF specification = None THEN {}
    ELSE {i \in specification.begin..Len(source) :
             source[i] = Closing /\ \A j \in specification.begin..(i - 1) : source[j] # Closing}
Commented(first, past) ==
    \E i \in first..(past - 2) : source[i] = Hyphen /\ source[i + 1] = Hyphen

IsPathUpTo(closing) ==
    LET between == SubSeq(source, specification.begin, closing - 1)
    IN  \E n, k \in 0..Len(between) :
           /\ between = SubSeq(between, 1, n) \o specification.path
                           \o SubSeq(between, k + 1, Len(between))
           /\ Every(SubSeq(between, 1, n), Trimmed)
           /\ Every(SubSeq(between, k + 1, Len(between)), Trimmed)
           /\ specification.path[1] \notin Trimmed
           /\ specification.path[Len(specification.path)] \notin Trimmed

\* Unless it has a double hyphen, the path of a Require is the text up to the
\* first closing parenthesis without the blanks around it, however the scanner
\* splits it into atoms, and scanning goes on behind that parenthesis; without a
\* parenthesis that closes it no path is read.
PathIsVerbatim ==
    /\ specification.state = "read" => FirstClosing # {}
    /\ \A closing \in FirstClosing :
          \/ Commented(specification.begin, closing)
          \/ /\ specification.state = "read" => IsPathUpTo(closing) /\ cursor = closing + 1
             /\ specification.state # "unterminated"

\* A path that is read comes to an end, since no atom but the last is empty.
ReadingEnds == specification.state = "reading" ~> specification.state # "reading"

\* The claim of the reference: the path is taken verbatim between the parentheses.
PathAlwaysVerbatim ==
    specification.state \in {"read", "unterminated"} =>
       \A closing \in FirstClosing : specification.state = "read" /\ IsPathUpTo(closing)

=============================================================================
