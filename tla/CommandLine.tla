---------------------------- MODULE CommandLine ----------------------------
(***************************************************************************)
(* One run of the program: its arguments parsed one by one, the session    *)
(* that is built from them with its list of search directories, and the    *)
(* exit status.  An argument is what its spelling makes of it: an option,  *)
(* an option with a value attached, or anything else.                      *)
(***************************************************************************)
EXTENDS Integers, Sequences

CONSTANTS
    Arguments,                  \* everything the user may write
    Spelled,                    \* argument -> the option it spells alone, or "none"
    Attached,                   \* arguments of the form -IDIR or --module-path=DIR -> DIR
    Introducing,                \* arguments of a hyphen and more
    EMPTY,                      \* the argument without characters
    MaximumArguments,
    SourceFiles,                \* arguments that end in .LLFPL
    OverlongDirectories,        \* longer than a path buffer holds
    Discoverable,               \* directories relative to the executable, in order
    LLFPL_MAXIMUM_MODULE_SEARCH_DIRECTORIES

InformationalOptions == {"help", "version", "hardware", "language"}
Flags == {"verbose", "summary", "no-register-sync"}
Options == InformationalOptions \cup Flags \cup {"module-path", "--", "none"}

ASSUME CommandLineAssumption ==
    /\ Spelled \in [Arguments -> Options]
    /\ DOMAIN Attached \subseteq Introducing
    /\ Introducing \subseteq Arguments
    /\ \A argument \in DOMAIN Attached : Spelled[argument] = "none"
    /\ \A argument \in Arguments : Spelled[argument] # "none" => argument \in Introducing
    /\ "none" \notin Arguments
    /\ EMPTY \in Arguments \ Introducing
    /\ MaximumArguments \in Nat
    \* canonical paths fit a path buffer
    /\ Discoverable \in Seq({Discoverable[i] : i \in DOMAIN Discoverable} \ OverlongDirectories)
    /\ LLFPL_MAXIMUM_MODULE_SEARCH_DIRECTORIES \in Nat

VARIABLES
    argument_values,            \* the arguments after the program's name
    argument_index,
    options_have_ended,
    options,
    main_stage,
    directory_index,            \* the next of the list that is being registered
    discovered,                 \* directories found from the executable's place
    search_directories,
    warnings,                   \* directories that were reported as ignored
    loaded,                     \* whether the source was located and mapped
    reported_error_count,
    exit_status

command_line_vars ==
    <<argument_values, argument_index, options_have_ended, options, main_stage,
      directory_index, discovered, search_directories, warnings, loaded, reported_error_count, exit_status>>
parser_vars == <<argument_values, argument_index, options_have_ended, options>>
session_vars ==
    <<directory_index, discovered, search_directories, warnings, loaded, reported_error_count>>

Unsettled == -1
LLFPL_EXIT_SUCCESS == 0
LLFPL_EXIT_PROGRAM_ERROR == 1
LLFPL_EXIT_USAGE_ERROR == 2

Values == Arguments \cup {Attached[argument] : argument \in DOMAIN Attached}
MainStages == {"parsing", "starting", "registering", "discovering", "executing", "exited"}

CommandLineTypeOK ==
    /\ argument_values \in Seq(Arguments) /\ Len(argument_values) <= MaximumArguments
    /\ argument_index \in 1..(Len(argument_values) + 1)
    /\ options_have_ended \in BOOLEAN
    /\ options.command \in InformationalOptions \cup {"execute"}
    /\ options.source_path \in Arguments \cup {"none"}
    /\ options.flags \subseteq Flags
    /\ options.module_directories \in Seq(Values)
    /\ Len(options.module_directories) <= LLFPL_MAXIMUM_MODULE_SEARCH_DIRECTORIES
    /\ main_stage \in MainStages
    /\ directory_index \in Nat \ {0}
    /\ Len(search_directories) <= LLFPL_MAXIMUM_MODULE_SEARCH_DIRECTORIES
    /\ loaded \in BOOLEAN /\ reported_error_count \in 0..1
    /\ exit_status \in Unsettled..2

CommandLineInit ==
    /\ argument_values \in UNION {[1..n -> Arguments] : n \in 0..MaximumArguments}
    /\ argument_index = 1
    /\ options_have_ended = FALSE
    /\ options = [command |-> "execute", source_path |-> "none", flags |-> {},
                  module_directories |-> << >>]
    /\ main_stage = "parsing"
    /\ directory_index = 1
    /\ discovered = << >> /\ search_directories = << >> /\ warnings = << >>
    /\ loaded = FALSE /\ reported_error_count = 0
    /\ exit_status = Unsettled

-----------------------------------------------------------------------------
(* llfpl_command_line_parse. *)

Argument == argument_values[argument_index]
IsOption == ~options_have_ended /\ Argument \in Introducing
Spells(spellings) == IsOption /\ Spelled[Argument] \in spellings

Reads ==
    /\ main_stage = "parsing"
    /\ argument_index <= Len(argument_values)

Continue(count) ==
    /\ argument_index' = argument_index + count
    /\ UNCHANGED <<argument_values, main_stage, session_vars, exit_status>>

Exit(code) ==
    /\ main_stage' = "exited"
    /\ exit_status' = code
    /\ UNCHANGED <<parser_vars, session_vars>>

EndOptions ==
    /\ Reads /\ Spells({"--"})
    /\ options_have_ended' = TRUE
    /\ Continue(1)
    /\ UNCHANGED options

\* The remaining arguments are not read.
Inform ==
    /\ Reads /\ Spells(InformationalOptions)
    /\ options' = [options EXCEPT !.command = Spelled[Argument]]
    /\ main_stage' = "exited"
    /\ exit_status' = LLFPL_EXIT_SUCCESS
    /\ UNCHANGED <<argument_values, argument_index, options_have_ended, session_vars>>

SetFlag ==
    /\ Reads /\ Spells(Flags)
    /\ options' = [options EXCEPT !.flags = @ \cup {Spelled[Argument]}]
    /\ Continue(1)
    /\ UNCHANGED options_have_ended

IsAttached == IsOption /\ Argument \in DOMAIN Attached
\* Mutant: a value that looks like an option is none.
IsFollowed_NoOption ==
    /\ Spells({"module-path"}) /\ argument_index < Len(argument_values)
    /\ argument_values[argument_index + 1] \notin Introducing
IsFollowed == Spells({"module-path"}) /\ argument_index < Len(argument_values)
OptionValue == IF IsAttached THEN Attached[Argument] ELSE argument_values[argument_index + 1]

DirectoriesFull ==
    Len(options.module_directories) >= LLFPL_MAXIMUM_MODULE_SEARCH_DIRECTORIES

AddDirectory ==
    /\ Reads /\ (IsAttached \/ IsFollowed)
    /\ OptionValue # EMPTY /\ ~DirectoriesFull
    /\ options' = [options EXCEPT !.module_directories = Append(@, OptionValue)]
    /\ Continue(IF IsFollowed THEN 2 ELSE 1)
    /\ UNCHANGED options_have_ended

RefuseDirectory ==
    /\ Reads
    /\ \/ (IsAttached \/ IsFollowed) /\ (OptionValue = EMPTY \/ DirectoriesFull)
       \/ Spells({"module-path"}) /\ ~IsFollowed
    /\ Exit(LLFPL_EXIT_USAGE_ERROR)

RefuseOption ==
    /\ Reads /\ Spells({"none"}) /\ ~IsAttached
    /\ Exit(LLFPL_EXIT_USAGE_ERROR)

TakeSource ==
    /\ Reads /\ ~IsOption
    /\ options.source_path = "none"
    /\ options' = [options EXCEPT !.source_path = Argument]
    /\ Continue(1)
    /\ UNCHANGED options_have_ended

RefuseSecondSource ==
    /\ Reads /\ ~IsOption
    /\ options.source_path # "none"
    /\ Exit(LLFPL_EXIT_USAGE_ERROR)

FinishParsing ==
    /\ main_stage = "parsing" /\ argument_index > Len(argument_values)
    /\ \/ options.source_path = "none" /\ Exit(LLFPL_EXIT_USAGE_ERROR)
       \/ /\ options.source_path # "none"
          /\ main_stage' = "starting"
          /\ UNCHANGED <<parser_vars, session_vars, exit_status>>

-----------------------------------------------------------------------------
(* execute_source: the session and its search directories. *)

\* Memory may be refused.
ExitWithoutSession == main_stage = "starting" /\ Exit(LLFPL_EXIT_USAGE_ERROR)

CreateSession ==
    /\ main_stage = "starting"
    /\ main_stage' = "registering"
    /\ UNCHANGED <<parser_vars, session_vars, exit_status>>

\* llfpl_module_loader_add_search_directory.
\* Mutant: a full list takes one more.
CanAdd_OneMore(directory) ==
    /\ Len(search_directories) <= LLFPL_MAXIMUM_MODULE_SEARCH_DIRECTORIES
    /\ directory \notin OverlongDirectories
CanAdd(directory) ==
    /\ Len(search_directories) < LLFPL_MAXIMUM_MODULE_SEARCH_DIRECTORIES
    /\ directory \notin OverlongDirectories
Add(directory) ==
    search_directories' = IF CanAdd(directory) THEN Append(search_directories, directory)
                          ELSE search_directories

RegisterGiven ==
    /\ main_stage = "registering" /\ directory_index <= Len(options.module_directories)
    /\ LET directory == options.module_directories[directory_index]
       IN  /\ Add(directory)
           /\ warnings' = IF CanAdd(directory) THEN warnings ELSE Append(warnings, directory)
    /\ directory_index' = directory_index + 1
    /\ UNCHANGED <<parser_vars, main_stage, discovered, loaded, reported_error_count, exit_status>>

\* Without the executable's place there are no default directories.
EndGiven ==
    /\ main_stage = "registering" /\ directory_index > Len(options.module_directories)
    /\ main_stage' \in {"discovering", "executing"}
    /\ directory_index' = 1
    /\ UNCHANGED <<parser_vars, search_directories, discovered, warnings, loaded,
                   reported_error_count, exit_status>>

\* One that exists at this installation is added, and dropped when it cannot be.
AddDefault ==
    /\ main_stage = "discovering" /\ directory_index <= Len(Discoverable)
    /\ \/ UNCHANGED <<discovered, search_directories>>
       \/ /\ discovered' = Append(discovered, Discoverable[directory_index])
          /\ Add(Discoverable[directory_index])
    /\ directory_index' = directory_index + 1
    /\ UNCHANGED <<parser_vars, main_stage, warnings, loaded, reported_error_count, exit_status>>

EndDefaults ==
    /\ main_stage = "discovering" /\ directory_index > Len(Discoverable)
    /\ main_stage' = "executing"
    /\ UNCHANGED <<parser_vars, session_vars, exit_status>>

ExitStatus(error_count) ==
    IF error_count > 0 THEN LLFPL_EXIT_PROGRAM_ERROR ELSE LLFPL_EXIT_SUCCESS

\* The module is located and mapped, or the error is reported; a loaded module
\* reports its errors.
ExecuteSource ==
    /\ main_stage = "executing"
    /\ loaded' \in BOOLEAN
    /\ loaded' => options.source_path \in SourceFiles
    /\ reported_error_count' \in 0..1
    /\ ~loaded' => reported_error_count' = 1
    /\ exit_status' = ExitStatus(reported_error_count')
    /\ main_stage' = "exited"
    /\ UNCHANGED <<parser_vars, directory_index, discovered, search_directories, warnings>>

-----------------------------------------------------------------------------

Terminating == main_stage = "exited" /\ UNCHANGED command_line_vars

CommandLineNext ==
    \/ EndOptions \/ Inform \/ SetFlag \/ AddDirectory \/ RefuseDirectory \/ RefuseOption
    \/ TakeSource \/ RefuseSecondSource \/ FinishParsing
    \/ ExitWithoutSession \/ CreateSession \/ RegisterGiven \/ EndGiven \/ AddDefault \/ EndDefaults
    \/ ExecuteSource \/ Terminating

CommandLineSpec == CommandLineInit /\ [][CommandLineNext]_command_line_vars

=============================================================================
