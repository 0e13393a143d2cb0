------------------------- MODULE MCTemplateSegment -------------------------
(***************************************************************************)
(* Long texts with every kind of atom, over one name that may be declared, *)
(* a verb and a name that is too long; and short texts over names that     *)
(* collide: two of the three are at home in the last slot of the index, so *)
(* that the probe goes on at its beginning, where the third is at home.    *)
(***************************************************************************)
EXTENDS TemplateSegment

Identifiers(names) == [kind : {"IDENTIFIER"}, name : names]
Punctuation == [kind : {"OPEN_PARENTHESIS", "CLOSE_PARENTHESIS", "ARGUMENT_SEPARATOR"}]
Literal == [kind |-> "NUMERIC_LITERAL", value |-> 1]

MCNames == {"a", "c", "f", "plus", "Commit", "overlong"}
MCStorable == MCNames \ {"overlong"}
MCHomes == [name \in MCStorable |-> IF name = "c" THEN 0 ELSE 2]

LongTexts ==
    Identifiers({"f", "plus", "overlong"}) \cup Punctuation
        \cup {Literal, [kind |-> "UNRECOGNISED"]}
ManyTemplates == Identifiers({"a", "c"}) \cup Punctuation
MCMaximumTextLength ==
    [vocabulary \in {LongTexts, ManyTemplates} |-> IF vocabulary = LongTexts THEN 8 ELSE 5]

\* The name of a directive.
DirectiveTexts == Identifiers({"Commit"}) \cup Punctuation \cup {Literal}
DirectiveTextLength == [vocabulary \in {DirectiveTexts} |-> 5]

=============================================================================
