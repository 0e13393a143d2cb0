--------------------------- MODULE MCModulePaths ---------------------------
(***************************************************************************)
(* Paths of a separator, a dot and a letter, the letter being the          *)
(* extension, in trees of up to three levels.  Buffers of six characters   *)
(* hold some of the joined paths and not others.                           *)
(***************************************************************************)
EXTENDS ModulePaths

Letter == <<"a">>
Paths(n) == UNION {[1..length -> {"/", ".", "a"}] : length \in 1..n}
Places == {<<Letter, Letter>>, <<Letter \o Letter>>, <<Letter, Letter, Letter>>,
           <<Letter \o Letter, Letter>>}

MCWorking == <<Letter>>
\* The working directory, and with each place the places on the way to it.
MCTrees ==
    {set \in {{Root, MCWorking} \cup places : places \in SUBSET Places} :
        \A place \in set \ {Root} : Front(place) \in set}
MCSpecifications == Paths(4)
MCDirectoryLists ==
    {<< >>, << <<"/">> >>, << Letter >>, << <<"/", "a", "/">>, <<".", "/", ".", ".">> >>,
     << <<"/", "a", "a">>, <<".">> >>, << <<"a", "/", "/", "a">> >>}

=============================================================================
