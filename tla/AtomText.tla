------------------------------ MODULE AtomText ------------------------------
(***************************************************************************)
(* The text a declaration is read from, as the atoms the scanner makes of  *)
(* it.  An atom is settled when it is first looked at, so that a run       *)
(* covers every text over a vocabulary.                                    *)
(***************************************************************************)
EXTENDS Integers, Sequences

CONSTANTS
    Names,                      \* spellings of identifiers
    StorableNames,              \* those within LLFPL_MAXIMUM_IDENTIFIER_LENGTH
    VerbNames,                  \* built-in forms and primitives
    DirectiveNames,
    Literals,                   \* values of numeric literals
    MaximumTextLength           \* vocabulary -> bound on the texts written in it

Atom == [kind : {"IDENTIFIER"}, name : Names]
            \cup [kind : {"NUMERIC_LITERAL"}, value : Literals]
            \cup [kind : {"OPEN_PARENTHESIS", "CLOSE_PARENTHESIS", "ARGUMENT_SEPARATOR",
                          "UNRECOGNISED", "END_OF_SOURCE"}]
EndOfSource == [kind |-> "END_OF_SOURCE"]

ASSUME TextAssumption ==
    /\ Names # {}
    /\ StorableNames \subseteq Names
    /\ VerbNames \cup DirectiveNames \subseteq Names
    /\ UNION DOMAIN MaximumTextLength \subseteq Atom
    /\ MaximumTextLength \in [DOMAIN MaximumTextLength -> Nat]

VARIABLES
    text,                       \* atoms of the text, as far as they were looked at
    cursor                      \* the scanner's next atom

text_vars == <<text, cursor>>

TextTypeOK ==
    /\ text \in Seq(Atom)
    /\ cursor \in Nat \ {0}

\* Beyond the end of the source there is the end of the source.
AtomAt(position) == IF position \in DOMAIN text THEN text[position] ELSE EndOfSource

\* Looking ahead leaves the cursor where it is.
NextAtom == AtomAt(cursor)
SecondAtom == AtomAt(cursor + 1)
Reads(kind) == NextAtom.kind = kind

\* The end of the source is read again and again.
Advance(count) ==
    /\ cursor' = IF Reads("END_OF_SOURCE") THEN cursor ELSE cursor + count
    /\ UNCHANGED text

Settled(count) ==
    \/ Len(text) >= cursor + count - 1
    \/ text # <<>> /\ text[Len(text)] = EndOfSource

\* The vocabularies the text is written in, as far as it was looked at.
Continuable ==
    {vocabulary \in DOMAIN MaximumTextLength :
        /\ \A i \in DOMAIN text : text[i] \in vocabulary
        /\ Len(text) < MaximumTextLength[vocabulary]}

Settle(count) ==
    /\ ~Settled(count)
    /\ \E atom \in {EndOfSource} \cup UNION Continuable : text' = Append(text, atom)
    /\ UNCHANGED cursor

=============================================================================
