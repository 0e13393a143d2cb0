--------------------------- MODULE MCDeclarations ---------------------------
(***************************************************************************)
(* Modules of up to three declarations over two names, a verb and a name   *)
(* that is too long.  The values are 0, 1, 3/2, 3, NaN and infinite; the   *)
(* largest arena has two bytes, and there is room for one.                 *)
(***************************************************************************)
EXTENDS Declarations

Identifiers(names) == [kind : {"IDENTIFIER"}, name : names]

MCDirectives == {"Identity", "Slab"}
MCNames == {"a", "b", "plus", "overlong"} \cup MCDirectives
MCStorable == MCNames \ {"overlong"}
MCLiterals == {0, 2, 3, 6, NaN, Infinity}
MCVocabulary ==
    Identifiers(MCNames) \cup {[kind |-> "UNRECOGNISED"]}
        \cup [kind : {"NUMERIC_LITERAL"}, value : MCLiterals]
        \cup [kind : {"OPEN_PARENTHESIS", "CLOSE_PARENTHESIS", "ARGUMENT_SEPARATOR"}]
MCMaximumTextLength == [vocabulary \in {MCVocabulary} |-> 18]

=============================================================================
