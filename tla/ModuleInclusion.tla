-------------------------- MODULE ModuleInclusion --------------------------
(***************************************************************************)
(* A reference semantics of Require: textual inclusion, once.  A program   *)
(* is a text that is rewritten from its front: a Require becomes the text  *)
(* of the module, or nothing if that module has occurred before; any other *)
(* directive has its effect; a failure is the end of the text.  There is   *)
(* no stack of modules, and nothing returns.                               *)
(***************************************************************************)
EXTENDS ModuleExecution, FiniteSets

ASSUME InclusionAssumption == IsFiniteSet(Files)

\* Absolute paths name one file; others are looked for next to the file they
\* are written in, then along the search path, then in the working directory.
Located(local, specification) ==
    LET directories == local \o SearchDirectories \o <<WorkingDirectory>>
        Has(i) == <<directories[i], specification>> \in DOMAIN Entry
    IN  IF specification \notin SourceSpecifications THEN {}
        ELSE IF specification \in AbsoluteSpecifications
        THEN {Entry[place] : place \in DOMAIN Entry \cap {<<RootDirectory, specification>>}}
        ELSE {Entry[<<directories[i], specification>>] :
                 i \in {k \in DOMAIN directories : Has(k) /\ \A j \in 1..(k - 1) : ~Has(j)}}

\* A directive, with the directory of the file it is written in.
Written(local, directive) == [local |-> local, directive |-> directive]

\* The text of a file from a position on.
TextFrom(texts, file, position) ==
    [i \in 1..(Len(texts[file]) + 1 - position) |->
        Written(<<DirectoryOf[file]>>, texts[file][i + position - 1])]

\* A program begins as the Require of its source file, written in none.
Started(specification) ==
    [text |-> <<Written(<<>>, [keyword |-> "Require", specification |-> specification])>>,
     files |-> <<>>, bound |-> {}, committed |-> <<>>, status |-> "OK"]

Occurs(file, files) == \E i \in DOMAIN files : files[i] = file
Includable(file, files) ==
    Len(files) < LLFPL_MAXIMUM_LOADED_MODULES /\ file \in MappableFiles \ EmptyFiles

\* One step of rewriting; an empty text is not rewritten any more.
Rewritten(texts, m) ==
    LET directive == Head(m.text).directive
        passed == [m EXCEPT !.text = Tail(@)]
        failed == [m EXCEPT !.text = <<>>, !.status = "FAILED"]
        targets == Located(Head(m.text).local, directive.specification)
        target == CHOOSE file \in targets : TRUE
    IN  IF m.text = <<>> THEN m
        ELSE CASE directive.keyword = "EndOfSource" -> passed
               [] directive.keyword = "Identity" /\ directive.name \notin m.bound ->
                     [passed EXCEPT !.bound = @ \cup {directive.name}]
               [] directive.keyword = "Commit" /\ directive.name \in m.bound ->
                     [passed EXCEPT !.committed = Append(@, directive.name)]
               [] directive.keyword = "Require" /\ targets # {} /\ Occurs(target, m.files) ->
                     passed
               [] directive.keyword = "Require" /\ targets # {} /\ ~Occurs(target, m.files)
                     /\ Includable(target, m.files) ->
                     [passed EXCEPT !.text = TextFrom(texts, target, 1) \o @,
                                    !.files = Append(@, target)]
               [] OTHER -> failed

\* The program after a number of steps.
Rewriting(texts, specification) ==
    LET after[n \in Nat] ==
           IF n = 0 THEN Started(specification) ELSE Rewritten(texts, after[n - 1])
    IN  after

\* Every directive of every file is met once at most, and so is the first.
Places(texts) == {place \in Files \X UNION {DOMAIN texts[file] : file \in Files} :
                     place[2] \in DOMAIN texts[place[1]]}
Meaning(texts, specification) ==
    Rewriting(texts, specification)[Cardinality(Places(texts)) + 1]

\* What a session has declared, committed and answered when an execution ends
\* is what inclusion gives.
OutputIsInclusion ==
    control = "idle" /\ execution_count = 1 =>
       LET meaning == Meaning(contents, source_path)
       IN  /\ meaning.text = <<>>
           /\ bound = meaning.bound /\ committed_names = meaning.committed
           /\ status = meaning.status

=============================================================================
