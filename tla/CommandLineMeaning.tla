------------------------- MODULE CommandLineMeaning -------------------------
(***************************************************************************)
(* What a command line means, said of all its arguments at once, and what  *)
(* the program makes of it: the properties of CommandLine.                 *)
(***************************************************************************)
EXTENDS CommandLine, FiniteSets, FiniteSetsExt

Positions == DOMAIN argument_values
SpelledAt(i) == Spelled[argument_values[i]]

\* An argument is the value of the option before it when the unbroken row of
\* bare -I and --module-path before it is of odd length: in a longer row every
\* second one is itself a value.
RowBefore(i) ==
    CHOOSE n \in 0..(i - 1) :
       /\ \A j \in (i - n)..(i - 1) : SpelledAt(j) = "module-path"
       /\ n = i - 1 \/ SpelledAt(i - n - 1) # "module-path"
IsValue(i) == (RowBefore(i) % 2) = 1

\* The marker that ends the options, or a position past the last argument.
Marker ==
    LET markers == {i \in Positions : SpelledAt(i) = "--" /\ ~IsValue(i)}
    IN  IF markers = {} THEN Len(argument_values) + 1 ELSE Min(markers)

OptionsAt == {i \in Positions : i < Marker /\ ~IsValue(i) /\ argument_values[i] \in Introducing}
Operands == {i \in Positions : i > Marker}
               \cup {i \in Positions : i < Marker /\ ~IsValue(i)
                                          /\ argument_values[i] \notin Introducing}

DirectoryOptions ==
    {i \in OptionsAt : SpelledAt(i) = "module-path" \/ argument_values[i] \in DOMAIN Attached}
HasValue(i) == argument_values[i] \in DOMAIN Attached \/ i + 1 \in Positions
ValueOf(i) ==
    IF argument_values[i] \in DOMAIN Attached THEN Attached[argument_values[i]]
    ELSE argument_values[i + 1]

Informations == {i \in OptionsAt : SpelledAt(i) \in InformationalOptions}
Mistakes ==
    {i \in OptionsAt : SpelledAt(i) = "none" /\ argument_values[i] \notin DOMAIN Attached}
       \cup {i \in DirectoryOptions : ~HasValue(i) \/ ValueOf(i) = EMPTY}
       \cup {i \in DirectoryOptions :
                Cardinality({j \in DirectoryOptions : j < i})
                   >= LLFPL_MAXIMUM_MODULE_SEARCH_DIRECTORIES}
       \cup {i \in Operands : \E j \in Operands : j < i}

\* The first of them decides.
Decisive == Informations \cup Mistakes

\* The directories in the order they were given.
InOrder(positions) ==
    [n \in 1..Cardinality(positions) |->
        ValueOf(CHOOSE i \in positions : Cardinality({j \in positions : j < i}) = n - 1)]

\* A command line informs, is refused, or asks for an execution, as all of its
\* arguments say together: the loop with its one argument of look-ahead, its
\* index that is moved in two places and its early returns finds the same.
ParsedAsMeant ==
    /\ main_stage = "exited" /\ options.command # "execute" =>
          /\ Decisive # {} /\ Min(Decisive) \in Informations
          /\ options.command = SpelledAt(Min(Decisive))
    /\ main_stage = "starting" =>
          /\ Decisive = {} /\ Cardinality(Operands) = 1
          /\ \A i \in Operands : options.source_path = argument_values[i]
          /\ options.flags = {SpelledAt(i) : i \in OptionsAt} \cap Flags
          /\ options.module_directories = InOrder(DirectoryOptions)
    /\ main_stage = "exited" /\ options.command = "execute" /\ exit_status = LLFPL_EXIT_USAGE_ERROR =>
          \/ Decisive # {} /\ Min(Decisive) \in Mistakes
          \/ Decisive = {} /\ Operands = {}
          \* or the session was refused
          \/ Decisive = {} /\ options.source_path # "none" /\ argument_index > Len(argument_values)

\* The directories in their order, but for those in a set.
Without(directories, set) ==
    LET kept[n \in 0..Len(directories)] ==
            IF n = 0 THEN << >>
            ELSE IF directories[n] \in set THEN kept[n - 1]
            ELSE Append(kept[n - 1], directories[n])
    IN  kept[Len(directories)]

\* The directories the user gave are searched first and in the order given;
\* one that cannot be, for its length alone, is reported; what is discovered
\* follows them, in order and as far as there is room.  The list is filled in two loops,
\* and its limit is also the parser's: nothing that was given is refused for
\* want of room.
SearchedInOrder ==
    main_stage \in {"discovering", "executing"} =>
       LET given == options.module_directories
           kept == Without(given, OverlongDirectories)
           room == LLFPL_MAXIMUM_MODULE_SEARCH_DIRECTORIES - Len(kept)
       IN  /\ warnings = Without(given, Values \ OverlongDirectories)
           /\ search_directories = kept \o SubSeq(discovered, 1, Min({Len(discovered), room}))

-----------------------------------------------------------------------------
(* Claims of the documentation that the code does not keep. *)

\* No limit is enforced by silent truncation: a directory that was discovered
\* is searched.
NoDirectoryDropped ==
    main_stage = "executing" =>
       \A i \in DOMAIN discovered : \E j \in DOMAIN search_directories :
          search_directories[j] = discovered[i]

\* An exit status of one means that the program was loaded.
ErrorsAreOfLoaded ==
    exit_status = LLFPL_EXIT_PROGRAM_ERROR => loaded

=============================================================================
