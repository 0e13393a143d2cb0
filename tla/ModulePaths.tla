---------------------------- MODULE ModulePaths ----------------------------
(***************************************************************************)
(* The search for a module on the characters of the paths: directories are *)
(* cut off and joined as text, in buffers that refuse what does not fit,   *)
(* and realpath decides what a path names.  ModuleExecution has the same   *)
(* search with paths that are atomic and always fit.                       *)
(***************************************************************************)
EXTENDS Integers, Sequences, SequencesExt

CONSTANTS
    Characters,
    Trees,                      \* what may exist: sets of places, the root in each
    WorkingPlace,               \* a place
    RequiredPaths,              \* paths a Require may give; none is empty
    DirectoryLists,             \* search directories, given or discovered
    LLFPL_SOURCE_FILE_EXTENSION,
    LLFPL_MODULE_PATH_BUFFER_CAPACITY

\* A path is a sequence of characters, a place the sequence of the names that
\* lead to it from the root.
Separator == "/"
Dot == "."
Root == << >>
Nowhere == << << >> >>

\* What a directory may hold.
EntryNames == Seq(Characters \ {Separator}) \ {<< >>, <<Dot>>, <<Dot, Dot>>}

ASSUME PathsAssumption ==
    /\ {Separator, Dot} \subseteq Characters
    \* With each place the places on the way to it.
    /\ \A set \in Trees :
          /\ Root \in set /\ WorkingPlace \in set
          /\ \A place \in set : place \in Seq(EntryNames)
          /\ \A place \in set \ {Root} : Front(place) \in set
    /\ \A path \in RequiredPaths : path \in Seq(Characters) \ {<< >>}
    /\ \A list \in DirectoryLists : list \in Seq(Seq(Characters))
    /\ LLFPL_MODULE_PATH_BUFFER_CAPACITY \in Nat

VARIABLES
    tree,                       \* the places that exist
    requesting_module_path,     \* << >> for the module a session begins with
    module_specification,
    search_directories,
    search_index,
    search_control,
    canonical_path,             \* of the module that was found
    resolution_status

paths_vars == <<tree, requesting_module_path, module_specification, search_directories,
          search_index, search_control, canonical_path, resolution_status>>

\* The canonical text of a place.
Text(place) ==
    IF place = Root THEN <<Separator>>
    ELSE LET text[n \in 0..Len(place)] ==
                 IF n = 0 THEN << >> ELSE text[n - 1] \o <<Separator>> \o place[n]
         IN  text[Len(place)]

SearchControls == {"specification", "requesting", "searching", "working", "done"}

PathsTypeOK ==
    /\ tree \in Trees
    /\ search_index \in 1..(Len(search_directories) + 1)
    /\ search_control \in SearchControls
    /\ resolution_status \in {"PENDING", "OK", "NOT_FOUND", "SEMANTIC_ERROR"}
    /\ resolution_status = "PENDING" <=> search_control # "done"
    /\ resolution_status = "OK" <=> canonical_path # << >>
    /\ Len(canonical_path) < LLFPL_MODULE_PATH_BUFFER_CAPACITY

PathsInit ==
    /\ tree \in Trees
    /\ requesting_module_path \in {<< >>} \cup {Text(place) : place \in tree \ {Root}}
    /\ Len(requesting_module_path) < LLFPL_MODULE_PATH_BUFFER_CAPACITY
    /\ module_specification \in RequiredPaths
    /\ search_directories \in DirectoryLists
    /\ search_index = 1
    /\ search_control = "specification"
    /\ canonical_path = << >>
    /\ resolution_status = "PENDING"

-----------------------------------------------------------------------------
(* filesystem_path.c.  A path that is refused is empty. *)

IsAbsolute(path) == path # << >> /\ path[1] = Separator

Copied(path) == IF Len(path) + 1 > LLFPL_MODULE_PATH_BUFFER_CAPACITY THEN << >> ELSE path

\* Mutant: the directory of a file in the root is empty.
ExtractedDirectory_NoRoot(path) ==
    SubSeq(path, 1, SelectLastInSeq(path, LAMBDA c : c = Separator) - 1)
ExtractedDirectory(path) ==
    LET last_separator == SelectLastInSeq(path, LAMBDA c : c = Separator)
    IN  CASE last_separator = 0 -> <<Dot>>
          [] last_separator = 1 -> <<Separator>>
          [] OTHER -> Copied(SubSeq(path, 1, last_separator - 1))

Joined(directory, relative) ==
    IF IsAbsolute(relative) \/ directory \in {<< >>, <<Dot>>} THEN Copied(relative)
    ELSE Copied(directory
                  \o (IF Last(directory) = Separator THEN << >> ELSE <<Separator>>)
                  \o relative)

HasExtension(path) ==
    LET extension == LLFPL_SOURCE_FILE_EXTENSION
    IN  /\ Len(path) >= Len(extension)
        /\ SubSeq(path, Len(path) - Len(extension) + 1, Len(path)) = extension

-----------------------------------------------------------------------------
(* The operating system: where a path leads, step by step. *)

Step(place, name) ==
    IF place = Nowhere \/ name \in {<< >>, <<Dot>>} THEN place
    ELSE IF name = <<Dot, Dot>> THEN IF place = Root THEN Root ELSE Front(place)
    ELSE IF Append(place, name) \in tree THEN Append(place, name) ELSE Nowhere

\* Where a character leads, and what is read of the next name.
Advance(walk, c) ==
    IF c = Separator THEN [at |-> Step(walk.at, walk.name), name |-> << >>]
    ELSE [at |-> walk.at, name |-> Append(walk.name, c)]

Follow(start, path) ==
    LET walk[n \in 0..Len(path)] ==
            IF n = 0 THEN [at |-> IF IsAbsolute(path) THEN Root ELSE start, name |-> << >>]
            ELSE Advance(walk[n - 1], path[n])
        reached == walk[Len(path)]
    IN  Step(reached.at, reached.name)

\* realpath, and the copy of what it yields.
Canonical(path) ==
    LET place == Follow(WorkingPlace, path)
    IN  IF place = Nowhere THEN << >> ELSE Copied(Text(place))

-----------------------------------------------------------------------------
(* llfpl_module_loader_resolve, and the test its callers make before. *)

Return(result) ==
    /\ search_control' = "done"
    /\ resolution_status' = result
    /\ UNCHANGED search_index

Inputs == <<tree, requesting_module_path, module_specification, search_directories>>

\* A candidate that does not exist, or does not fit, is passed over.
Try(candidate, Otherwise) ==
    LET found == IF candidate = << >> THEN << >> ELSE Canonical(candidate)
    IN  /\ canonical_path' = found
        /\ IF found # << >> THEN Return("OK") ELSE Otherwise
        /\ UNCHANGED Inputs

GoOn(next_control, next_index) ==
    /\ search_control' = next_control
    /\ search_index' = next_index
    /\ UNCHANGED resolution_status

RefuseExtension ==
    /\ search_control = "specification"
    /\ ~HasExtension(module_specification)
    /\ Return("SEMANTIC_ERROR")
    /\ UNCHANGED <<Inputs, canonical_path>>

TryAbsolute ==
    /\ search_control = "specification"
    /\ HasExtension(module_specification) /\ IsAbsolute(module_specification)
    /\ Try(module_specification, Return("NOT_FOUND"))

BeginSearch ==
    /\ search_control = "specification"
    /\ HasExtension(module_specification) /\ ~IsAbsolute(module_specification)
    /\ GoOn(IF requesting_module_path = << >> THEN "searching" ELSE "requesting", search_index)
    /\ UNCHANGED <<Inputs, canonical_path>>

TryWithin(directory, Otherwise) == Try(Joined(directory, module_specification), Otherwise)

TryRequesting ==
    /\ search_control = "requesting"
    /\ TryWithin(ExtractedDirectory(requesting_module_path), GoOn("searching", search_index))

TryDirectory ==
    /\ search_control = "searching"
    /\ search_index <= Len(search_directories)
    /\ TryWithin(search_directories[search_index], GoOn("searching", search_index + 1))

EndSearch ==
    /\ search_control = "searching"
    /\ search_index > Len(search_directories)
    /\ GoOn("working", search_index)
    /\ UNCHANGED <<Inputs, canonical_path>>

TryWorking ==
    /\ search_control = "working"
    /\ Try(module_specification, Return("NOT_FOUND"))

PathsNext ==
    \/ RefuseExtension \/ TryAbsolute \/ BeginSearch
    \/ TryRequesting \/ TryDirectory \/ EndSearch \/ TryWorking

PathsSpec == PathsInit /\ [][PathsNext]_paths_vars

-----------------------------------------------------------------------------
(* The documented order of resolution, on places. *)

\* What a path within a directory is longer than the path itself.
LengthBefore(directory) ==
    IF directory \in {<< >>, <<Dot>>} THEN 0
    ELSE IF Last(directory) = Separator THEN Len(directory) ELSE Len(directory) + 1

\* Where the search begins, in order, and the length of the path that is joined.
Starts ==
    LET own == Follow(Root, requesting_module_path)
        within(place, directory) ==
            [at |-> place, joined |-> LengthBefore(directory) + Len(module_specification)]
        local == IF own = Root THEN << >> ELSE <<within(Front(own), Text(Front(own)))>>
        given == [i \in DOMAIN search_directories |->
                     within(Follow(WorkingPlace, search_directories[i]), search_directories[i])]
    IN  IF IsAbsolute(module_specification) THEN <<[at |-> Root, joined |-> 0]>>
        ELSE local \o given \o <<[at |-> WorkingPlace, joined |-> 0]>>

\* The places the specification names, in order, where there are any.
Named(i) == Follow(Starts[i].at, module_specification)
Existing == {i \in DOMAIN Starts : Named(i) # Nowhere}

\* Neither the joined path nor the canonical one is too long for its buffer.
FitsBuffers(i) ==
    /\ Starts[i].joined < LLFPL_MODULE_PATH_BUFFER_CAPACITY
    /\ Len(Text(Named(i))) < LLFPL_MODULE_PATH_BUFFER_CAPACITY

\* The module that is found is the first that exists in the documented order,
\* but for those whose paths do not fit; none is missed.
FirstThatFits ==
    /\ resolution_status = "OK" =>
          \E i \in Existing :
             /\ FitsBuffers(i) /\ canonical_path = Text(Named(i))
             /\ \A j \in Existing : j < i => ~FitsBuffers(j)
    /\ resolution_status = "NOT_FOUND" => \A i \in Existing : ~FitsBuffers(i)

\* The claim of the reference: the first that exists in this order, or a
\* diagnostic, whatever the lengths.
FirstInOrder ==
    resolution_status = "OK" =>
       \E i \in Existing : canonical_path = Text(Named(i)) /\ \A j \in Existing : i <= j

=============================================================================
