-------------------------- MODULE MCLexicalScanner --------------------------
(***************************************************************************)
(* Every text of up to five characters, one character of each kind the     *)
(* scanner tells apart, and every text of up to six of the characters of a *)
(* number.                                                                 *)
(***************************************************************************)
EXTENDS LexicalScanner

Texts == {"-", ".", "1", "e", "(", ")", ",", " ", "\n"}
Numbers == {"-", "+", ".", "1", "e", "\n"}
MCMaximumLength == [alphabet \in {Texts, Numbers} |-> IF alphabet = Texts THEN 5 ELSE 6]
MCSpaces == {" ", "\n"}
Break == "\n"

=============================================================================
