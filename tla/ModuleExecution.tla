-------------------------- MODULE ModuleExecution --------------------------
(***************************************************************************)
(* Loading and execution of modules: the session's entry point, Require,   *)
(* the module loader, the registry of source mappings and the directive    *)
(* loop.  What the other directives do is reduced to what relates modules: *)
(* Identity declares a name, Commit uses one, and both may fail.           *)
(***************************************************************************)
EXTENDS Integers, Sequences

CONSTANTS
    Names,                      \* identities
    Specifications,             \* paths as programs and users write them
    SourceSpecifications,       \* those ending in .LLFPL
    AbsoluteSpecifications,
    Directories,
    RootDirectory,
    WorkingDirectory,
    SearchDirectories,          \* explicit ones first, then the discovered ones
    Files,                      \* canonical paths
    DirectoryOf,                \* file -> its directory
    Entry,                      \* <<directory, specification>> -> file, where one exists
    MappableFiles,              \* readable regular files
    EmptyFiles,                 \* files of zero bytes
    Vocabulary,                 \* file -> directives its text may contain
    MaximumTextLength,          \* file -> directives at most
    LLFPL_MAXIMUM_LOADED_MODULES,
    MaximumExecutions           \* calls of the entry point; the command line makes one

Directive == [keyword : {"Require"}, specification : Specifications]
                 \cup [keyword : {"Identity", "Commit"}, name : Names]
                 \cup [keyword : {"Unknown", "EndOfSource"}]
EndOfSource == [keyword |-> "EndOfSource"]

ASSUME ModuleAssumption ==
    /\ SourceSpecifications \subseteq Specifications
    /\ SearchDirectories \in Seq(Directories)
    /\ {RootDirectory, WorkingDirectory} \subseteq Directories
    /\ DirectoryOf \in [Files -> Directories]
    /\ DOMAIN Entry \subseteq Directories \X Specifications
    /\ \A place \in DOMAIN Entry : Entry[place] \in Files
    /\ Vocabulary \in [Files -> SUBSET Directive]
    /\ MaximumTextLength \in [Files -> Nat]
    /\ Files # {} /\ Specifications # {}
    /\ LLFPL_MAXIMUM_LOADED_MODULES \in Nat
    /\ MaximumExecutions \in Nat

VARIABLES
    contents,                   \* the text of every file, as far as it was read
    loaded_module_paths,
    mappings,                   \* files mapped, in order
    modules,                    \* unfinished calls of execute_module, innermost last
    source_path,                \* argument of the last call of the entry point
    callee,                     \* the module about to be executed
    control,
    status,                     \* of the last call that returned
    execution_count,
    bound,                      \* identities declared
    committed_names,            \* what was committed, in order
    reported_error_count

loader_vars == <<loaded_module_paths, mappings>>
program_vars == <<bound, committed_names>>
call_vars == <<source_path, execution_count>>
vars == <<contents, loader_vars, modules, callee, control, status, call_vars, program_vars,
          reported_error_count>>

Controls == {"idle", "enter", "module", "return"}
Module == [path : Files, position : Nat \ {0}]

TypeOK ==
    /\ contents \in [Files -> Seq(Directive)]
    /\ loaded_module_paths \in Seq(Files)
    /\ Len(loaded_module_paths) <= LLFPL_MAXIMUM_LOADED_MODULES
    /\ mappings \in Seq(Files) /\ Len(mappings) <= Len(loaded_module_paths)
    /\ modules \in Seq(Module) /\ Len(modules) <= Len(mappings)
    /\ source_path \in Specifications
    /\ control \in Controls
    /\ callee \in Files
    /\ control = "idle" => modules = <<>>
    /\ control = "module" => modules # <<>>
    /\ status \in {"OK", "FAILED"}
    /\ execution_count \in 0..MaximumExecutions
    /\ bound \subseteq Names
    /\ committed_names \in Seq(Names)
    /\ reported_error_count \in Nat

Init ==
    /\ contents = [file \in Files |-> <<>>]
    /\ loaded_module_paths = <<>> /\ mappings = <<>> /\ modules = <<>>
    /\ source_path = CHOOSE path \in Specifications : TRUE
    /\ callee = CHOOSE file \in Files : TRUE
    /\ control = "idle"
    /\ status = "OK"
    /\ execution_count = 0
    /\ bound = {} /\ committed_names = <<>>
    /\ reported_error_count = 0

-----------------------------------------------------------------------------
(* llfpl_module_loader_resolve. *)

\* The directories tried for a specification; `local` holds the directory of
\* the requesting module, if there is one.
\* Mutant: a module's own directory is searched after the registered ones.
SearchOrder_LocalLast(local, specification) ==
    IF specification \in AbsoluteSpecifications THEN <<RootDirectory>>
    ELSE SearchDirectories \o local \o <<WorkingDirectory>>
SearchOrder(local, specification) ==
    IF specification \in AbsoluteSpecifications THEN <<RootDirectory>>
    ELSE local \o SearchDirectories \o <<WorkingDirectory>>

\* The first directory with an entry, if any.
Hits(local, specification) ==
    LET order == SearchOrder(local, specification)
        Has(i) == <<order[i], specification>> \in DOMAIN Entry
    IN  {i \in DOMAIN order : Has(i) /\ \A j \in 1..(i - 1) : ~Has(j)}

CanResolve(local, specification) == Hits(local, specification) # {}

Resolve(local, specification) ==
    LET first == CHOOSE i \in Hits(local, specification) : TRUE
    IN  Entry[<<SearchOrder(local, specification)[first], specification>>]

\* Mutant: a module counts as loaded only when it has been executed.
IsLoaded_WhenExecuted(path) ==
    /\ \E i \in DOMAIN loaded_module_paths : loaded_module_paths[i] = path
    /\ \A i \in DOMAIN modules : modules[i].path # path
IsLoaded(path) == \E i \in DOMAIN loaded_module_paths : loaded_module_paths[i] = path

-----------------------------------------------------------------------------
(* Diagnostics and the call stack. *)

Fail ==
    /\ reported_error_count' = reported_error_count + 1
    /\ status' = "FAILED"
    /\ control' = "return"

Current == modules[Len(modules)]

ThisDirective == contents[Current.path][Current.position]

\* The directive the innermost module has come to.
ReadsDirective(keyword) ==
    /\ control = "module"
    /\ Current.position <= Len(contents[Current.path])
    /\ ThisDirective.keyword = keyword

HasFailed == reported_error_count > 0

\* A session that has reported an error parses no directive any more.
\* Mutant: it does.
BeginsDirective_AfterFailure(keyword) == ReadsDirective(keyword)
BeginsDirective(keyword) == ReadsDirective(keyword) /\ ~HasFailed

Advanced == [modules EXCEPT ![Len(modules)].position = @ + 1]

-----------------------------------------------------------------------------
(* llfpl_interpreter_session_execute_source_file. *)

ExecuteSourceFile(specification) ==
    /\ control = "idle"
    /\ execution_count < MaximumExecutions
    /\ execution_count' = execution_count + 1
    /\ source_path' = specification
    /\ IF specification \in SourceSpecifications /\ CanResolve(<<>>, specification)
       THEN /\ callee' = Resolve(<<>>, specification)
            /\ control' = "enter"
            /\ UNCHANGED <<status, reported_error_count>>
       ELSE Fail /\ UNCHANGED callee
    /\ UNCHANGED <<contents, loader_vars, modules, program_vars>>

\* The call returns once no module is left.
FinishExecution ==
    /\ control = "return"
    /\ modules = <<>>
    /\ control' = "idle"
    /\ UNCHANGED <<contents, loader_vars, modules, callee, status, call_vars, program_vars,
                   reported_error_count>>

-----------------------------------------------------------------------------
(* llfpl_directive_processor_execute_module. *)

\* Mutant: one module more than there is room for.
TrackingIsFull_OffByOne == Len(loaded_module_paths) > LLFPL_MAXIMUM_LOADED_MODULES
TrackingIsFull == Len(loaded_module_paths) >= LLFPL_MAXIMUM_LOADED_MODULES

RefuseTracking ==
    /\ control = "enter"
    /\ TrackingIsFull
    /\ Fail
    /\ UNCHANGED <<contents, loader_vars, modules, callee, call_vars, program_vars>>

CanMap(file) ==
    /\ Len(mappings) < LLFPL_MAXIMUM_LOADED_MODULES
    /\ file \in MappableFiles \ EmptyFiles

\* The module stays recorded as loaded.
RefuseMapping ==
    /\ control = "enter"
    /\ ~TrackingIsFull
    /\ ~CanMap(callee)
    /\ loaded_module_paths' = Append(loaded_module_paths, callee)
    /\ Fail
    /\ UNCHANGED <<contents, mappings, modules, callee, call_vars, program_vars>>

EnterModule ==
    /\ control = "enter"
    /\ ~TrackingIsFull
    /\ CanMap(callee)
    /\ loaded_module_paths' = Append(loaded_module_paths, callee)
    /\ mappings' = Append(mappings, callee)
    /\ modules' = Append(modules, [path |-> callee, position |-> 1])
    /\ control' = "module"
    /\ UNCHANGED <<contents, callee, status, call_vars, program_vars, reported_error_count>>

\* A text is settled when it is first read, so that a run covers all texts.
ReadText ==
    /\ control = "module"
    /\ Current.position > Len(contents[Current.path])
    /\ \E directive \in Vocabulary[Current.path] \cup {EndOfSource} :
          /\ Len(contents[Current.path]) = MaximumTextLength[Current.path] => directive = EndOfSource
          /\ contents' = [contents EXCEPT ![Current.path] = Append(@, directive)]
    /\ UNCHANGED <<loader_vars, modules, callee, control, status, call_vars, program_vars,
                   reported_error_count>>

EndModule ==
    /\ ReadsDirective("EndOfSource")
    /\ modules' = SubSeq(modules, 1, Len(modules) - 1)
    /\ status' = "OK"
    /\ control' = "return"
    /\ UNCHANGED <<contents, loader_vars, callee, call_vars, program_vars,
                   reported_error_count>>

\* A directive whose module was executed is passed.
ContinueRequester ==
    /\ control = "return" /\ modules # <<>>
    /\ status = "OK"
    /\ modules' = Advanced
    /\ control' = "module"
    /\ UNCHANGED <<contents, loader_vars, callee, status, call_vars, program_vars,
                   reported_error_count>>

\* Mutant: the status of a required module is ignored.
StopModule_RequesterContinues ==
    /\ control = "return" /\ modules # <<>>
    /\ status = "FAILED"
    /\ IF ThisDirective.keyword = "Require"
       THEN modules' = Advanced /\ control' = "module"
       ELSE modules' = SubSeq(modules, 1, Len(modules) - 1) /\ UNCHANGED control
    /\ UNCHANGED <<contents, loader_vars, callee, status, call_vars, program_vars,
                   reported_error_count>>

\* A module whose directive failed executes no other and fails itself.
StopModule ==
    /\ control = "return" /\ modules # <<>>
    /\ status = "FAILED"
    /\ modules' = SubSeq(modules, 1, Len(modules) - 1)
    /\ UNCHANGED <<contents, loader_vars, callee, control, status, call_vars, program_vars,
                   reported_error_count>>

\* Text that is no directive.
RefuseText ==
    /\ ReadsDirective("Unknown")
    /\ Fail
    /\ UNCHANGED <<contents, loader_vars, modules, callee, call_vars, program_vars>>

\* A directive that follows an error, of an earlier execution: it fails
\* without another report.
AbandonDirective ==
    /\ \E keyword \in {"Require", "Identity", "Commit"} : ReadsDirective(keyword)
    /\ HasFailed
    /\ status' = "FAILED"
    /\ control' = "return"
    /\ UNCHANGED <<contents, loader_vars, modules, callee, call_vars, program_vars,
                   reported_error_count>>

-----------------------------------------------------------------------------
(* directive_require. *)

Local == <<DirectoryOf[Current.path]>>
Locatable ==
    /\ ThisDirective.specification \in SourceSpecifications
    /\ CanResolve(Local, ThisDirective.specification)
Required == Resolve(Local, ThisDirective.specification)

\* Mutant: a module that cannot be located is not reported.
RefuseRequire_Unreported ==
    /\ BeginsDirective("Require")
    /\ ~Locatable
    /\ status' = "FAILED"
    /\ control' = "return"
    /\ UNCHANGED <<contents, loader_vars, modules, callee, call_vars, program_vars,
                   reported_error_count>>

RefuseRequire ==
    /\ BeginsDirective("Require")
    /\ ~Locatable
    /\ Fail
    /\ UNCHANGED <<contents, loader_vars, modules, callee, call_vars, program_vars>>

\* Mutant: the text is read again from the directive that was skipped.
SkipRequire_Reread ==
    /\ BeginsDirective("Require")
    /\ Locatable /\ IsLoaded(Required)
    /\ status' = "OK"
    /\ UNCHANGED <<contents, loader_vars, modules, callee, control, call_vars,
                   program_vars, reported_error_count>>

SkipRequire ==
    /\ BeginsDirective("Require")
    /\ Locatable /\ IsLoaded(Required)
    /\ modules' = Advanced
    /\ status' = "OK"
    /\ UNCHANGED <<contents, loader_vars, callee, control, call_vars, program_vars,
                   reported_error_count>>

FollowRequire ==
    /\ BeginsDirective("Require")
    /\ Locatable /\ ~IsLoaded(Required)
    /\ callee' = Required
    /\ control' = "enter"
    /\ UNCHANGED <<contents, loader_vars, modules, status, call_vars, program_vars,
                   reported_error_count>>

-----------------------------------------------------------------------------
(* directive_identity and directive_commit. *)

Declare ==
    /\ BeginsDirective("Identity")
    /\ ThisDirective.name \notin bound
    /\ bound' = bound \cup {ThisDirective.name}
    /\ modules' = Advanced
    /\ status' = "OK"
    /\ UNCHANGED <<contents, loader_vars, callee, control, call_vars, committed_names,
                   reported_error_count>>

Commit ==
    /\ BeginsDirective("Commit")
    /\ ThisDirective.name \in bound
    /\ committed_names' = Append(committed_names, ThisDirective.name)
    /\ modules' = Advanced
    /\ status' = "OK"
    /\ UNCHANGED <<contents, loader_vars, callee, control, call_vars, bound,
                   reported_error_count>>

RefuseDeclaration ==
    /\ \/ BeginsDirective("Identity") /\ ThisDirective.name \in bound
       \/ BeginsDirective("Commit") /\ ThisDirective.name \notin bound
    /\ Fail
    /\ UNCHANGED <<contents, loader_vars, modules, callee, call_vars, program_vars>>

-----------------------------------------------------------------------------

Proceed ==
    \/ FinishExecution
    \/ RefuseTracking \/ RefuseMapping \/ EnterModule
    \/ ReadText \/ EndModule \/ ContinueRequester \/ StopModule \/ RefuseText \/ AbandonDirective
    \/ RefuseRequire \/ SkipRequire \/ FollowRequire
    \/ Declare \/ Commit \/ RefuseDeclaration

Next == (\E specification \in Specifications : ExecuteSourceFile(specification)) \/ Proceed

\* The embedder may never call, but a call it has made is executed.
Spec == Init /\ [][Next]_vars /\ WF_vars(Proceed)

-----------------------------------------------------------------------------
(* Properties. *)

NoRepetition(sequence) ==
    \A i, j \in DOMAIN sequence : sequence[i] = sequence[j] => i = j

\* What the command line does: it calls the entry point once.  An embedder may
\* go on.
FirstExecution == execution_count <= 1

\* However modules require each other, in diamonds, cycles and through
\* different paths, an execution records, maps and executes each at most once.
NothingRepeated ==
    /\ NoRepetition(loaded_module_paths) /\ NoRepetition(mappings)
    /\ NoRepetition([i \in DOMAIN modules |-> modules[i].path])
EachModuleOnce == FirstExecution => NothingRepeated

\* The first failure in any module is the last thing that happens: neither its
\* module nor the ones that wait for it declare, commit or report any more.
FailureStopsSession ==
    [][reported_error_count > 0 /\ FirstExecution' =>
          UNCHANGED <<loader_vars, program_vars, reported_error_count>>]_vars

\* However often the entry point is called: once an error was reported, no
\* execution binds an identity or commits anything.
FailedSessionIsInert == [][HasFailed => UNCHANGED program_vars]_vars

\* The error count decides the exit status, so it must tell what the status does.
FailuresReported ==
    control = "idle" /\ FirstExecution => (status = "FAILED" <=> reported_error_count > 0)

\* A call of the entry point returns, whatever requires whatever.
ExecutionReturns == control # "idle" ~> control = "idle"

\* The claim of the language reference: a module is loaded at most once per
\* session.
LoadedOncePerSession == NoRepetition(loaded_module_paths)

\* The grammar's claim: a text without directives is a module.
EmptyModuleAccepted ==
    [][control = "enter" /\ callee \in MappableFiles \cap EmptyFiles /\ ~TrackingIsFull
          => status' # "FAILED"]_vars

=============================================================================
