----------------------- MODULE ModuleExecution_proofs -----------------------
(***************************************************************************)
(* Type correctness of module execution and, for a session that executes   *)
(* one source file as the command line does, that each module is executed  *)
(* once, that the first failure ends everything and that requiring modules *)
(* is textual inclusion: for every file system, every text and every       *)
(* search path.  Then the search for a module on the characters of its     *)
(* paths (ModulePaths): it finds the first in order, in buffers of any     *)
(* size.                                                                   *)
(***************************************************************************)
EXTENDS
    ModuleInclusion, ModulePaths,
    FiniteSetTheorems, SequenceTheorems, WellFoundedInduction, TLAPS

-----------------------------------------------------------------------------
(* Type correctness. *)

\* What is found is a file.
LEMMA ResolveFile ==
    ASSUME NEW local, NEW specification, CanResolve(local, specification)
    PROVE  Resolve(local, specification) \in Files
<1>1. ASSUME NEW i \in Hits(local, specification)
      PROVE  Entry[<<SearchOrder(local, specification)[i], specification>>] \in Files
  BY ModuleAssumption DEF Hits
<1>2. (CHOOSE i \in Hits(local, specification) : TRUE) \in Hits(local, specification)
  BY DEF CanResolve
<1> QED
  BY <1>1, <1>2 DEF Resolve

\* Advancing the innermost module and leaving it keep the stack well formed.
LEMMA StackSteps ==
    ASSUME modules \in Seq(Module), modules # <<>>
    PROVE  /\ Advanced \in Seq(Module) /\ Len(Advanced) = Len(modules) /\ Advanced # <<>>
           /\ \A i \in 1..Len(modules) : Advanced[i].path = modules[i].path
           /\ SubSeq(modules, 1, Len(modules) - 1) \in Seq(Module)
           /\ Len(SubSeq(modules, 1, Len(modules) - 1)) = Len(modules) - 1
           /\ \A i \in 1..(Len(modules) - 1) :
                 SubSeq(modules, 1, Len(modules) - 1)[i] = modules[i]
           /\ Current \in Module
<1>1. Len(modules) \in Nat \ {0} /\ Current \in Module
  BY DEF Current
<1>2. [Current EXCEPT !.position = @ + 1] \in Module
  BY <1>1 DEF Module
<1>3. Advanced = [modules EXCEPT ![Len(modules)] = [Current EXCEPT !.position = @ + 1]]
  BY DEF Advanced, Current
<1>4. Advanced \in Seq(Module) /\ Len(Advanced) = Len(modules) /\ Advanced # <<>>
  BY <1>1, <1>2, <1>3
<1>5. [Current EXCEPT !.position = @ + 1].path = Current.path
  BY <1>1 DEF Module
<1>6. \A i \in 1..Len(modules) : Advanced[i].path = modules[i].path
  BY <1>1, <1>3, <1>5 DEF Current
<1>7. /\ SubSeq(modules, 1, Len(modules) - 1) \in Seq(Module)
      /\ Len(SubSeq(modules, 1, Len(modules) - 1)) = Len(modules) - 1
      /\ \A i \in 1..(Len(modules) - 1) : SubSeq(modules, 1, Len(modules) - 1)[i] = modules[i]
  BY <1>1, SMTT(30)
<1> QED
  BY <1>1, <1>4, <1>6, <1>7

\* Every step keeps the types.
LEMMA TypeStep == TypeOK /\ [Next]_vars => TypeOK'
<1> SUFFICES ASSUME TypeOK, [Next]_vars PROVE TypeOK'
  OBVIOUS
<1> USE DEF BeginsDirective, TypeOK, Controls, call_vars, program_vars, loader_vars
<1>1. ASSUME NEW specification \in Specifications, ExecuteSourceFile(specification)
      PROVE  TypeOK'
  <2>1. execution_count' \in 0..MaximumExecutions
    BY <1>1, ModuleAssumption DEF ExecuteSourceFile
  <2>2. callee' \in Files
    BY <1>1, ResolveFile DEF ExecuteSourceFile
  <2> QED
    BY <1>1, <2>1, <2>2 DEF ExecuteSourceFile, Fail
<1>2. CASE FinishExecution
  BY <1>2 DEF FinishExecution
<1>3. CASE RefuseTracking
  BY <1>3 DEF RefuseTracking, Fail
<1>4. CASE RefuseMapping
  <2>1. /\ loaded_module_paths' \in Seq(Files)
        /\ Len(loaded_module_paths') = Len(loaded_module_paths) + 1
    BY <1>4 DEF RefuseMapping
  <2>2. Len(loaded_module_paths') <= LLFPL_MAXIMUM_LOADED_MODULES
    BY <1>4, <2>1, ModuleAssumption DEF RefuseMapping, TrackingIsFull
  <2> QED
    BY <1>4, <2>1, <2>2 DEF RefuseMapping, Fail
<1>5. CASE EnterModule
  <2>1. /\ loaded_module_paths' \in Seq(Files)
        /\ Len(loaded_module_paths') = Len(loaded_module_paths) + 1
        /\ mappings' \in Seq(Files) /\ Len(mappings') = Len(mappings) + 1
    BY <1>5 DEF EnterModule
  <2>2. [path |-> callee, position |-> 1] \in Module
    BY DEF Module
  <2>3. modules' \in Seq(Module) /\ Len(modules') = Len(modules) + 1
    BY <1>5, <2>2 DEF EnterModule
  <2>5. modules' # <<>>
    BY <2>3
  <2>4. Len(loaded_module_paths') <= LLFPL_MAXIMUM_LOADED_MODULES
    BY <1>5, <2>1, ModuleAssumption DEF EnterModule, TrackingIsFull
  <2>6. Len(mappings') <= Len(loaded_module_paths') /\ Len(modules') <= Len(mappings')
    <3>1. /\ Len(loaded_module_paths) \in Nat /\ Len(mappings) \in Nat /\ Len(modules) \in Nat
      OBVIOUS
    <3> QED
      BY <2>1, <2>3, <3>1
  <2>7. /\ UNCHANGED <<contents, callee, status, call_vars, program_vars, reported_error_count>>
        /\ control' = "module"
    BY <1>5 DEF EnterModule
  <2> QED
    BY <2>1, <2>3, <2>4, <2>5, <2>6, <2>7
<1>6. CASE ReadText
  <2>1. PICK directive \in Vocabulary[Current.path] \cup {EndOfSource} :
           contents' = [contents EXCEPT ![Current.path] = Append(@, directive)]
    BY <1>6 DEF ReadText
  <2>2. Current.path \in Files
    BY <1>6, StackSteps DEF ReadText, Module
  <2>3. directive \in Directive
    <3>1. EndOfSource \in Directive
      BY DEF EndOfSource, Directive
    <3>2. Vocabulary[Current.path] \subseteq Directive
      BY <2>2, ModuleAssumption
    <3> QED
      BY <3>1, <3>2
  <2>4. contents' \in [Files -> Seq(Directive)]
    BY <2>1, <2>2, <2>3
  <2> QED
    BY <1>6, <2>4 DEF ReadText
<1>7. CASE EndModule
  <2>1. modules' \in Seq(Module) /\ Len(modules') = Len(modules) - 1
    BY <1>7, StackSteps DEF EndModule, ReadsDirective
  <2>2. Len(modules) \in Nat /\ Len(mappings) \in Nat
    OBVIOUS
  <2>3. Len(modules') <= Len(mappings)
    BY <2>1, <2>2
  <2> QED
    BY <1>7, <2>1, <2>3 DEF EndModule
<1>8. CASE ContinueRequester
  BY <1>8, StackSteps DEF ContinueRequester
<1>9. CASE StopModule
  <2>1. modules' \in Seq(Module) /\ Len(modules') = Len(modules) - 1
    BY <1>9, StackSteps DEF StopModule
  <2>2. Len(modules) \in Nat /\ Len(mappings) \in Nat
    OBVIOUS
  <2>3. Len(modules') <= Len(mappings)
    BY <2>1, <2>2
  <2> QED
    BY <1>9, <2>1, <2>3 DEF StopModule
<1>10. CASE RefuseText
  BY <1>10 DEF RefuseText, Fail
<1>11. CASE RefuseRequire
  BY <1>11 DEF RefuseRequire, Fail
<1>12. CASE SkipRequire
  BY <1>12, StackSteps DEF SkipRequire, ReadsDirective
<1>13. CASE FollowRequire
  <2>1. callee' \in Files
    BY <1>13, ResolveFile DEF FollowRequire, Required, Locatable
  <2> QED
    BY <1>13, <2>1 DEF FollowRequire
<1>14. ASSUME NEW keyword \in {"Identity", "Commit"}, ReadsDirective(keyword)
       PROVE  ThisDirective.name \in Names
  <2>1. /\ Current \in Module
        /\ Current.position <= Len(contents[Current.path])
        /\ ThisDirective.keyword = keyword
    BY <1>14, StackSteps DEF ReadsDirective
  <2>2. Current.path \in Files /\ Current.position \in Nat \ {0}
    BY <2>1 DEF Module
  <2>3. ThisDirective \in Directive
    BY <2>1, <2>2 DEF ThisDirective
  <2> QED
    BY <2>1, <2>3 DEF Directive
<1>15. CASE Declare
  <2>1. bound' \subseteq Names
    BY <1>14, <1>15 DEF Declare
  <2> QED
    BY <1>15, <2>1, StackSteps DEF Declare, ReadsDirective
<1>16. CASE Commit
  <2>1. committed_names' \in Seq(Names)
    BY <1>14, <1>16 DEF Commit
  <2> QED
    BY <1>16, <2>1, StackSteps DEF Commit, ReadsDirective
<1>17. CASE RefuseDeclaration
  BY <1>17 DEF RefuseDeclaration, Fail
<1>18. CASE AbandonDirective
  BY <1>18 DEF AbandonDirective
<1>19. CASE UNCHANGED vars
  BY <1>19 DEF vars
<1> QED
  BY <1>1, <1>2, <1>3, <1>4, <1>5, <1>6, <1>7, <1>8, <1>9, <1>10, <1>11, <1>12, <1>13, <1>15,
     <1>16, <1>17, <1>18, <1>19 DEF Next, Proceed

\* Every variable keeps its type; in particular the recursion of execute_module
\* is never deeper than the number of modules that can be tracked, and the
\* registry of mappings never overflows before the loader does.
THEOREM TypeCorrect == Spec => []TypeOK
<1>1. Init => TypeOK
  BY ModuleAssumption DEF Init, TypeOK, Controls
<1> QED
  BY <1>1, TypeStep, PTL DEF Spec

-----------------------------------------------------------------------------
(* The first execution of a session. *)

\* Whatever is mapped or being executed is recorded as loaded; what is about to
\* be executed is not yet; and nothing is loaded before the first execution.
Once ==
    /\ NothingRepeated
    /\ \A i \in DOMAIN mappings : IsLoaded(mappings[i])
    /\ \A i \in DOMAIN modules : IsLoaded(modules[i].path)
    /\ control = "enter" => ~IsLoaded(callee)
    /\ execution_count = 0 => loaded_module_paths = <<>> /\ control = "idle"

\* Appending a new element repeats nothing.
LEMMA AppendNew ==
    ASSUME NEW S, NEW sequence \in Seq(S), NEW element \in S, NoRepetition(sequence),
           \A i \in DOMAIN sequence : sequence[i] # element
    PROVE  NoRepetition(Append(sequence, element))
  BY DEF NoRepetition

\* What was loaded stays loaded, and so is what is added.
LEMMA LoadedGrows ==
    ASSUME TypeOK, loaded_module_paths' = Append(loaded_module_paths, callee)
    PROVE  /\ \A path : IsLoaded(path) =>
                 \E i \in DOMAIN loaded_module_paths' : loaded_module_paths'[i] = path
           /\ \E i \in DOMAIN loaded_module_paths' : loaded_module_paths'[i] = callee
<1>1. /\ loaded_module_paths \in Seq(Files) /\ callee \in Files
      /\ Len(loaded_module_paths) \in Nat
  BY DEF TypeOK
<1>2. /\ DOMAIN loaded_module_paths = 1..Len(loaded_module_paths)
      /\ DOMAIN loaded_module_paths' = 1..(Len(loaded_module_paths) + 1)
      /\ loaded_module_paths'[Len(loaded_module_paths) + 1] = callee
      /\ \A i \in 1..Len(loaded_module_paths) :
            loaded_module_paths'[i] = loaded_module_paths[i]
  BY <1>1
<1>3. /\ DOMAIN loaded_module_paths \subseteq DOMAIN loaded_module_paths'
      /\ Len(loaded_module_paths) + 1 \in DOMAIN loaded_module_paths'
  BY <1>1, <1>2
<1> QED
  BY <1>2, <1>3 DEF IsLoaded

\* Executions are counted.
LEMMA FirstBefore ==
    ASSUME TypeOK, [Next]_vars, FirstExecution'
    PROVE  FirstExecution
<1>1. execution_count \in Nat
  BY ModuleAssumption DEF TypeOK
<1>2. execution_count' = execution_count \/ execution_count' = execution_count + 1
  BY DEF Next, ExecuteSourceFile, Proceed, FinishExecution, RefuseTracking, RefuseMapping,
         EnterModule, ReadText, EndModule, ContinueRequester, StopModule, RefuseText,
         AbandonDirective, RefuseRequire, SkipRequire, FollowRequire, Declare, Commit,
         RefuseDeclaration, call_vars, vars
<1> QED
  BY <1>1, <1>2 DEF FirstExecution

\* A step of the first execution keeps Once.
LEMMA OnceStep ==
    TypeOK /\ (FirstExecution => Once) /\ [Next]_vars => (FirstExecution => Once)'
<1> SUFFICES ASSUME TypeOK, Once, [Next]_vars, FirstExecution' PROVE Once'
  BY FirstBefore
<1> USE DEF BeginsDirective, call_vars, program_vars, loader_vars
<1>1. ASSUME UNCHANGED loader_vars, UNCHANGED modules,
             control' = "enter" => ~IsLoaded(callee'), execution_count' # 0
      PROVE  Once'
  BY <1>1 DEF Once, NothingRepeated, NoRepetition, IsLoaded
<1>2. ASSUME UNCHANGED loader_vars, control' # "enter", execution_count' # 0,
             \A i \in DOMAIN modules' : i \in DOMAIN modules /\ modules'[i].path = modules[i].path
      PROVE  Once'
  BY <1>2 DEF Once, NothingRepeated, NoRepetition, IsLoaded
<1>3. control # "idle" => execution_count # 0
  BY DEF Once
<1>4. ASSUME NEW specification \in Specifications, ExecuteSourceFile(specification)
      PROVE  Once'
  <2>1. execution_count = 0 /\ execution_count' = 1
    BY <1>4, ModuleAssumption DEF ExecuteSourceFile, TypeOK, FirstExecution
  <2>2. ~IsLoaded(callee')
    BY <2>1 DEF Once, IsLoaded
  <2> QED
    BY <1>1, <1>4, <2>1, <2>2 DEF ExecuteSourceFile
<1>5. CASE FinishExecution
  BY <1>1, <1>3, <1>5 DEF FinishExecution
<1>6. CASE RefuseTracking
  BY <1>1, <1>3, <1>6 DEF RefuseTracking, Fail
<1>7. CASE RefuseMapping
  <2>1. NoRepetition(loaded_module_paths')
    BY <1>7, AppendNew DEF RefuseMapping, TypeOK, Once, NothingRepeated, IsLoaded
  <2>2. /\ loaded_module_paths' = Append(loaded_module_paths, callee)
        /\ UNCHANGED <<mappings, modules, execution_count>>
        /\ control = "enter" /\ control' = "return"
    BY <1>7 DEF RefuseMapping, Fail
  <2>3. \A i \in DOMAIN mappings : IsLoaded(mappings[i])'
    BY <2>2, LoadedGrows DEF Once, IsLoaded
  <2>4. \A i \in DOMAIN modules : IsLoaded(modules[i].path)'
    BY <2>2, LoadedGrows DEF Once, IsLoaded
  <2> QED
    BY <1>3, <2>1, <2>2, <2>3, <2>4 DEF Once, NothingRepeated, NoRepetition
<1>8. CASE EnterModule
  <2>1. /\ loaded_module_paths' = Append(loaded_module_paths, callee)
        /\ mappings' = Append(mappings, callee)
        /\ modules' = Append(modules, [path |-> callee, position |-> 1])
        /\ control' = "module" /\ execution_count' = execution_count
        /\ ~IsLoaded(callee) /\ callee \in Files
    BY <1>8 DEF EnterModule, TypeOK, Once
  <2>2. NoRepetition(loaded_module_paths')
    BY <2>1, AppendNew DEF TypeOK, Once, NothingRepeated, IsLoaded
  <2>3. \A i \in DOMAIN mappings : mappings[i] # callee
    BY <2>1 DEF Once
  <2>4. NoRepetition(mappings')
    BY <2>1, <2>3, AppendNew DEF TypeOK, Once, NothingRepeated
  <2>5. /\ DOMAIN mappings' = DOMAIN mappings \cup {Len(mappings) + 1}
        /\ mappings'[Len(mappings) + 1] = callee
        /\ \A i \in DOMAIN mappings : mappings'[i] = mappings[i]
    <3>1. mappings \in Seq(Files) /\ Len(mappings) \in Nat
      BY DEF TypeOK
    <3> QED
      BY <2>1, <3>1
  <2>6. \A i \in DOMAIN mappings' :
           \E j \in DOMAIN loaded_module_paths' : loaded_module_paths'[j] = mappings'[i]
    BY <2>1, <2>5, LoadedGrows DEF Once
  <2>7. /\ DOMAIN modules' = DOMAIN modules \cup {Len(modules) + 1}
        /\ modules'[Len(modules) + 1].path = callee
        /\ \A i \in DOMAIN modules : modules'[i].path = modules[i].path
    <3>1. [path |-> callee, position |-> 1] \in Module
      BY <2>1 DEF Module
    <3>2. modules \in Seq(Module) /\ Len(modules) \in Nat
      BY DEF TypeOK
    <3>3. /\ Len(modules') = Len(modules) + 1 /\ modules' \in Seq(Module)
          /\ modules'[Len(modules) + 1] = [path |-> callee, position |-> 1]
          /\ \A i \in 1..Len(modules) : modules'[i] = modules[i]
      BY <2>1, <3>1, <3>2
    <3>4. DOMAIN modules = 1..Len(modules) /\ DOMAIN modules' = 1..(Len(modules) + 1)
      BY <3>2, <3>3
    <3> QED
      BY <3>2, <3>3, <3>4
  <2>8. \A i \in DOMAIN modules' :
           \E j \in DOMAIN loaded_module_paths' : loaded_module_paths'[j] = modules'[i].path
    BY <2>1, <2>7, LoadedGrows DEF Once
  <2>9. NoRepetition([i \in DOMAIN modules' |-> modules'[i].path])
    BY <2>1, <2>7 DEF Once, NothingRepeated, NoRepetition
  <2> QED
    BY <1>3, <1>8, <2>1, <2>2, <2>4, <2>6, <2>8, <2>9
       DEF EnterModule, Once, NothingRepeated, IsLoaded
<1>9. CASE ReadText
  BY <1>1, <1>3, <1>9 DEF ReadText
<1>10. CASE EndModule \/ StopModule
  <2>1. modules # <<>> /\ modules' = SubSeq(modules, 1, Len(modules) - 1)
    BY <1>10 DEF EndModule, StopModule, ReadsDirective, TypeOK
  <2>2. \A i \in DOMAIN modules' : i \in DOMAIN modules /\ modules'[i].path = modules[i].path
    <3>1. /\ modules \in Seq(Module) /\ modules' \in Seq(Module)
          /\ Len(modules') = Len(modules) - 1 /\ Len(modules) \in Nat
          /\ \A i \in 1..(Len(modules) - 1) : modules'[i] = modules[i]
      <4>1. modules \in Seq(Module) /\ Len(modules) \in Nat
        BY DEF TypeOK
      <4> QED
        BY <2>1, <4>1, StackSteps
    <3>2. DOMAIN modules' = 1..(Len(modules) - 1) /\ DOMAIN modules = 1..Len(modules)
      BY <3>1
    <3> QED
      BY <3>1, <3>2
  <2> QED
    BY <1>2, <1>3, <1>10, <2>2 DEF EndModule, StopModule, ReadsDirective
<1>11. CASE ContinueRequester \/ SkipRequire \/ Declare \/ Commit
  <2>1. modules # <<>> /\ modules' = Advanced /\ UNCHANGED <<loader_vars, execution_count>>
        /\ control' = "module" /\ control # "idle"
    BY <1>11 DEF ContinueRequester, SkipRequire, Declare, Commit, ReadsDirective, TypeOK
  <2>2. \A i \in DOMAIN modules' : i \in DOMAIN modules /\ modules'[i].path = modules[i].path
    <3>1. /\ modules \in Seq(Module) /\ modules' \in Seq(Module)
          /\ Len(modules') = Len(modules)
          /\ \A i \in 1..Len(modules) : modules'[i].path = modules[i].path
      BY <2>1, StackSteps DEF TypeOK
    <3>2. DOMAIN modules' = 1..Len(modules) /\ DOMAIN modules = 1..Len(modules)
      BY <3>1
    <3> QED
      BY <3>1, <3>2
  <2> QED
    BY <1>2, <1>3, <2>1, <2>2
<1>12. CASE RefuseText \/ AbandonDirective \/ RefuseRequire \/ RefuseDeclaration
  BY <1>1, <1>3, <1>12 DEF RefuseText, AbandonDirective, RefuseRequire, RefuseDeclaration, Fail,
                           ReadsDirective
<1>13. CASE FollowRequire
  BY <1>1, <1>3, <1>13 DEF FollowRequire, ReadsDirective
<1>14. CASE UNCHANGED vars
  BY <1>14 DEF vars, Once, NothingRepeated, NoRepetition, IsLoaded
<1> QED
  BY <1>4, <1>5, <1>6, <1>7, <1>8, <1>9, <1>10, <1>11, <1>12, <1>13, <1>14 DEF Next, Proceed

\* Each module is recorded, mapped and executed at most once.
THEOREM ModulesExecuteOnce == Spec => []EachModuleOnce
<1>1. Init => (FirstExecution => Once)
  BY DEF Init, Once, NothingRepeated, NoRepetition, IsLoaded
<1>2. (FirstExecution => Once) => EachModuleOnce
  BY DEF Once, EachModuleOnce
<1> QED
  BY <1>1, <1>2, TypeCorrect, OnceStep, PTL DEF Spec

-----------------------------------------------------------------------------
(* Failures. *)

\* A failure has been reported exactly when the calls return it, and once only.
Truthful ==
    /\ control \in {"enter", "module"} => reported_error_count = 0
    /\ control \in {"return", "idle"} => (status = "FAILED" <=> reported_error_count > 0)
    /\ execution_count = 0 => status = "OK" /\ reported_error_count = 0

\* A step of the first execution keeps the reports truthful.
LEMMA TruthfulStep ==
    TypeOK /\ (FirstExecution => Once) /\ (FirstExecution => Truthful) /\ [Next]_vars
       => (FirstExecution => Truthful)'
<1> SUFFICES ASSUME TypeOK, Once, Truthful, [Next]_vars, FirstExecution' PROVE Truthful'
  BY FirstBefore
<1> USE DEF BeginsDirective, call_vars
<1>1. control # "idle" => execution_count # 0
  BY DEF Once
<1>2. reported_error_count \in Nat /\ status \in {"OK", "FAILED"}
  BY DEF TypeOK
<1>3. ASSUME NEW specification \in Specifications, ExecuteSourceFile(specification)
      PROVE  Truthful'
  <2>1. execution_count = 0 /\ execution_count' = 1
    BY <1>3, ModuleAssumption DEF ExecuteSourceFile, TypeOK, FirstExecution
  <2>2. reported_error_count = 0 /\ status = "OK"
    BY <2>1 DEF Truthful
  <2> QED
    BY <1>3, <2>1, <2>2 DEF ExecuteSourceFile, Fail, Truthful
<1>4. CASE \/ RefuseTracking \/ RefuseMapping \/ RefuseText \/ RefuseRequire
           \/ RefuseDeclaration
  <2>1. control \in {"enter", "module"} /\ Fail /\ execution_count' = execution_count
    BY <1>4 DEF RefuseTracking, RefuseMapping, RefuseText, RefuseRequire, RefuseDeclaration,
                ReadsDirective
  <2> QED
    BY <1>1, <1>2, <2>1 DEF Fail, Truthful
<1>5. CASE FinishExecution \/ StopModule
  BY <1>1, <1>5 DEF FinishExecution, StopModule, Truthful
<1>6. CASE ContinueRequester
  BY <1>1, <1>2, <1>6 DEF ContinueRequester, Truthful
<1>7. CASE EnterModule \/ ReadText \/ SkipRequire \/ FollowRequire \/ Declare \/ Commit
  <2>1. /\ control \in {"enter", "module"} /\ control' \in {"enter", "module"}
        /\ UNCHANGED <<reported_error_count, execution_count>>
    BY <1>7 DEF EnterModule, ReadText, SkipRequire, FollowRequire, Declare, Commit,
                ReadsDirective
  <2> QED
    BY <1>1, <2>1 DEF Truthful
<1>8. CASE EndModule
  BY <1>1, <1>8 DEF EndModule, ReadsDirective, Truthful
<1>9. ~AbandonDirective
  BY DEF AbandonDirective, ReadsDirective, HasFailed, Truthful
<1>10. CASE UNCHANGED vars
  BY <1>10 DEF vars, Truthful
<1> QED
  BY <1>3, <1>4, <1>5, <1>6, <1>7, <1>8, <1>9, <1>10 DEF Next, Proceed

\* After a failure nothing is left to do but to return.
LEMMA FailureStep ==
    TypeOK /\ (FirstExecution => Once) /\ (FirstExecution => Truthful) /\ [Next]_vars
       => [reported_error_count > 0 /\ FirstExecution' =>
              UNCHANGED <<loader_vars, program_vars, reported_error_count>>]_vars
<1> SUFFICES ASSUME TypeOK, Once, Truthful, Next, reported_error_count > 0, FirstExecution'
             PROVE  UNCHANGED <<loader_vars, program_vars, reported_error_count>>
  BY FirstBefore
<1> USE DEF BeginsDirective, call_vars
<1>1. control \notin {"enter", "module"} /\ execution_count # 0
  BY DEF Truthful
<1>2. control \in {"return", "idle"} /\ status = "FAILED"
  BY <1>1 DEF TypeOK, Controls, Truthful
<1>3. ~ \E specification \in Specifications : ExecuteSourceFile(specification)
  <2>1. execution_count \in Nat /\ execution_count # 0
    BY <1>1, ModuleAssumption DEF TypeOK
  <2>2. execution_count' # execution_count + 1
    BY <2>1 DEF FirstExecution
  <2> QED
    BY <2>2 DEF ExecuteSourceFile
<1>4. FinishExecution \/ StopModule
  BY <1>1, <1>2, <1>3
     DEF Next, Proceed, RefuseTracking, RefuseMapping, EnterModule, ReadText, EndModule,
         ContinueRequester, RefuseText, AbandonDirective, RefuseRequire, SkipRequire,
         FollowRequire, Declare, Commit, RefuseDeclaration, ReadsDirective
<1> QED
  BY <1>4 DEF FinishExecution, StopModule

\* When the call of the entry point is over, an error was reported exactly if
\* it returned a failure.
THEOREM FailuresAreReported == Spec => []FailuresReported
<1>1. Init => (FirstExecution => Once) /\ (FirstExecution => Truthful)
  BY DEF Init, Once, Truthful, NothingRepeated, NoRepetition, IsLoaded
<1>2. (FirstExecution => Truthful) => FailuresReported
  BY DEF Truthful, FailuresReported
<1> QED
  BY <1>1, <1>2, TypeCorrect, OnceStep, TruthfulStep, PTL DEF Spec

\* The first failure in any module is the last thing that happens.
THEOREM FailureIsFinal == Spec => FailureStopsSession
<1>1. Init => (FirstExecution => Once) /\ (FirstExecution => Truthful)
  BY DEF Init, Once, Truthful, NothingRepeated, NoRepetition, IsLoaded
<1> QED
  BY <1>1, TypeCorrect, OnceStep, TruthfulStep, FailureStep, PTL DEF Spec, FailureStopsSession

\* However often the entry point is called, a session binds and commits nothing
\* after an error.
THEOREM FailedSessionsAreInert == Spec => FailedSessionIsInert
<1>1. ASSUME HasFailed, [Next]_vars
      PROVE  UNCHANGED program_vars
  <2> USE DEF program_vars
  <2>1. ~Declare /\ ~Commit
    BY <1>1 DEF Declare, Commit, BeginsDirective
  <2>2. CASE \E specification \in Specifications : ExecuteSourceFile(specification)
    BY <2>2 DEF ExecuteSourceFile
  <2>3. CASE FinishExecution \/ RefuseTracking \/ RefuseMapping \/ EnterModule \/ ReadText
    BY <2>3 DEF FinishExecution, RefuseTracking, RefuseMapping, EnterModule, ReadText
  <2>4. CASE EndModule \/ ContinueRequester \/ StopModule \/ RefuseText \/ AbandonDirective
    BY <2>4 DEF EndModule, ContinueRequester, StopModule, RefuseText, AbandonDirective
  <2>5. CASE RefuseRequire \/ SkipRequire \/ FollowRequire \/ RefuseDeclaration
    BY <2>5 DEF RefuseRequire, SkipRequire, FollowRequire, RefuseDeclaration
  <2>6. CASE UNCHANGED vars
    BY <2>6 DEF vars
  <2> QED
    BY <1>1, <2>1, <2>2, <2>3, <2>4, <2>5, <2>6 DEF Next, Proceed
<1> QED
  BY <1>1, PTL DEF Spec, FailedSessionIsInert

-----------------------------------------------------------------------------
(* The rewriting of a program as a function of the number of steps. *)

\* A set of natural numbers has a least element.
LEMMA LeastNatural ==
    ASSUME NEW K, K \subseteq Nat, K # {}
    PROVE  \E m \in K : \A k \in K : m <= k
<1>1. PICK m \in K : \A k \in K : <<k, m>> \notin OpToRel(<, Nat)
  BY WFMin, NatLessThanWellFounded, Zenon
<1>2. \A k \in K : ~(k < m)
  BY <1>1 DEF OpToRel
<1> QED
  BY <1>2

\* The first steps, up to a given one, and what a step makes of those before.
StepOf(texts, specification, f, n) ==
    IF n = 0 THEN Started(specification) ELSE Rewritten(texts, f[n - 1])
FirstSteps(texts, specification, f, k) ==
    f = [n \in 0..k |-> StepOf(texts, specification, f, n)]

\* The first steps are those of any longer rewriting.
LEMMA FirstStepsAgree ==
    ASSUME NEW texts, NEW specification, NEW f, NEW g, NEW k \in Nat, NEW l \in Nat,
           FirstSteps(texts, specification, f, k), FirstSteps(texts, specification, g, l)
    PROVE  \A n \in 0..k : n <= l => f[n] = g[n]
<1> DEFINE K == {n \in 0..k : n <= l /\ f[n] # g[n]}
<1> SUFFICES ASSUME K # {} PROVE FALSE
  OBVIOUS
<1>1. PICK m \in K : \A n \in K : m <= n
  <2>1. K \subseteq Nat
    OBVIOUS
  <2> QED
    BY <2>1, LeastNatural
<1>2. m \in 0..k /\ m \in 0..l /\ f[m] # g[m]
  OBVIOUS
<1>3. f[m] = StepOf(texts, specification, f, m) /\ g[m] = StepOf(texts, specification, g, m)
  BY <1>2 DEF FirstSteps
<1>4. m # 0 => f[m - 1] = g[m - 1]
  <2>1. m # 0 => m - 1 \in 0..k /\ m - 1 <= l /\ m - 1 \notin K
    BY <1>1, <1>2
  <2> QED
    BY <2>1
<1> QED
  BY <1>2, <1>3, <1>4 DEF StepOf

\* There are first steps of any number.
LEMMA FirstStepsExist ==
    ASSUME NEW texts, NEW specification
    PROVE  \A k \in Nat : \E f : FirstSteps(texts, specification, f, k)
<1> DEFINE K == {k \in Nat : ~\E f : FirstSteps(texts, specification, f, k)}
<1> SUFFICES ASSUME K # {} PROVE FALSE
  OBVIOUS
<1>1. PICK m \in K : \A k \in K : m <= k
  <2>1. K \subseteq Nat
    OBVIOUS
  <2> QED
    BY <2>1, LeastNatural
<1>2. CASE m = 0
  <2> DEFINE f == [n \in 0..0 |-> Started(specification)]
  <2>1. f = [n \in 0..0 |-> StepOf(texts, specification, f, n)]
    <3>1. \A n \in 0..0 : StepOf(texts, specification, f, n) = Started(specification)
      BY DEF StepOf
    <3> QED
      BY <3>1
  <2>2. FirstSteps(texts, specification, f, 0)
    BY <2>1 DEF FirstSteps
  <2> QED
    BY <1>2, <2>2
<1>3. CASE m # 0
  <2>1. m - 1 \in Nat /\ m - 1 \notin K
    BY <1>1, <1>3
  <2>2. PICK f : FirstSteps(texts, specification, f, m - 1)
    BY <2>1
  <2> DEFINE g == [n \in 0..m |-> IF n = m THEN StepOf(texts, specification, f, m) ELSE f[n]]
  <2>3. ASSUME NEW n \in 0..m PROVE g[n] = StepOf(texts, specification, g, n)
    <3>1. n # 0 => n - 1 \in 0..(m - 1) /\ n - 1 \in 0..m /\ n - 1 # m
      BY <2>3
    <3>2. n # 0 => g[n - 1] = f[n - 1]
      BY <3>1
    <3>3. n # m => n \in 0..(m - 1)
      BY <2>3
    <3>4. n # m => f[n] = StepOf(texts, specification, f, n)
      BY <2>2, <3>3 DEF FirstSteps
    <3>5. g[n] = StepOf(texts, specification, f, n)
      BY <3>4
    <3> HIDE DEF g
    <3> QED
      BY <3>2, <3>5 DEF StepOf
  <2>4. FirstSteps(texts, specification, g, m)
    BY <2>3 DEF FirstSteps
  <2> QED
    BY <2>4
<1> QED
  BY <1>2, <1>3

\* The rewriting of a program begins with the Require of its source file and
\* goes on step by step.
LEMMA RewritingIs ==
    ASSUME NEW texts, NEW specification
    PROVE  /\ Rewriting(texts, specification)[0] = Started(specification)
           /\ \A n \in Nat : Rewriting(texts, specification)[n + 1]
                                = Rewritten(texts, Rewriting(texts, specification)[n])
<1> DEFINE first(k) == CHOOSE f : FirstSteps(texts, specification, f, k)
           run == [n \in Nat |-> first(n)[n]]
<1>1. \A k \in Nat : FirstSteps(texts, specification, first(k), k)
  BY FirstStepsExist
<1> HIDE DEF first
<1>2. ASSUME NEW n \in Nat PROVE run[n] = StepOf(texts, specification, run, n)
  <2>1. run[n] = StepOf(texts, specification, first(n), n)
    <3>1. n \in 0..n
      OBVIOUS
    <3> QED
      BY <1>1, <3>1 DEF FirstSteps
  <2>2. n # 0 => run[n - 1] = first(n)[n - 1]
    <3>1. n # 0 => n - 1 \in Nat /\ n - 1 \in 0..(n - 1) /\ n - 1 <= n
      OBVIOUS
    <3>2. n # 0 => first(n - 1)[n - 1] = first(n)[n - 1]
      BY <1>1, <3>1, FirstStepsAgree
    <3> QED
      BY <3>1, <3>2
  <2> QED
    BY <2>1, <2>2 DEF StepOf
<1>3. run = [n \in Nat |-> IF n = 0 THEN Started(specification) ELSE Rewritten(texts, run[n - 1])]
  BY <1>2 DEF StepOf
<1>4. \E f : f = [n \in Nat |-> IF n = 0 THEN Started(specification)
                                ELSE Rewritten(texts, f[n - 1])]
  BY <1>3
<1> HIDE DEF run
<1> DEFINE Run == Rewriting(texts, specification)
<1>5. Run = [n \in Nat |-> IF n = 0 THEN Started(specification) ELSE Rewritten(texts, Run[n - 1])]
  BY <1>4 DEF Rewriting
<1> HIDE DEF Run
<1>6. Run[0] = Started(specification)
  BY <1>5
<1>7. ASSUME NEW n \in Nat PROVE Run[n + 1] = Rewritten(texts, Run[n])
  <2>1. n + 1 \in Nat /\ n + 1 # 0 /\ (n + 1) - 1 = n
    OBVIOUS
  <2> QED
    BY <1>5, <2>1
<1> QED
  BY <1>6, <1>7 DEF Run

\* A program whose text is empty stays as it is.
LEMMA EmptyStays ==
    ASSUME NEW texts, NEW specification, NEW n \in Nat, NEW k \in Nat, n <= k,
           Rewriting(texts, specification)[n].text = <<>>
    PROVE  Rewriting(texts, specification)[k] = Rewriting(texts, specification)[n]
<1> DEFINE Run == Rewriting(texts, specification)
           K == {i \in Nat : n <= i /\ Run[i] # Run[n]}
<1>1. \A i \in Nat : Run[i + 1] = Rewritten(texts, Run[i])
  BY RewritingIs
<1> HIDE DEF Run
<1> SUFFICES ASSUME K # {} PROVE FALSE
  BY DEF Run
<1>2. PICK m \in K : \A i \in K : m <= i
  <2>1. K \subseteq Nat
    OBVIOUS
  <2> QED
    BY <2>1, LeastNatural
<1>3. m - 1 \in Nat /\ n <= m - 1 /\ m - 1 \notin K /\ (m - 1) + 1 = m
  BY <1>2
<1>4. Run[m - 1] = Run[n]
  BY <1>3
<1>5. Run[m] = Rewritten(texts, Run[n])
  BY <1>1, <1>3, <1>4
<1>6. Run[n].text = <<>>
  BY DEF Run
<1>7. Rewritten(texts, Run[n]) = Run[n]
  BY <1>6 DEF Rewritten
<1> QED
  BY <1>2, <1>5, <1>7

-----------------------------------------------------------------------------
(* What is located, and what texts are made of. *)

Locals == {<<>>} \cup {<<directory>> : directory \in Directories}

\* The loader finds the file the inclusion finds, if there is one.
LEMMA LocatedIs ==
    ASSUME NEW local \in Locals, NEW specification
    PROVE  /\ specification \in SourceSpecifications /\ CanResolve(local, specification) =>
                 Located(local, specification) = {Resolve(local, specification)}
           /\ ~(specification \in SourceSpecifications /\ CanResolve(local, specification)) =>
                 Located(local, specification) = {}
<1> DEFINE order == SearchOrder(local, specification)
           Has(i) == <<order[i], specification>> \in DOMAIN Entry
<1>1. order \in Seq(Directories) /\ Len(order) \in Nat /\ DOMAIN order = 1..Len(order)
  <2>1. /\ local \in Seq(Directories) /\ SearchDirectories \in Seq(Directories)
        /\ <<WorkingDirectory>> \in Seq(Directories) /\ <<RootDirectory>> \in Seq(Directories)
    <3>1. /\ <<>> \in Seq(Directories)
          /\ \A directory \in Directories : <<directory>> \in Seq(Directories)
      OBVIOUS
    <3> QED
      BY <3>1, ModuleAssumption DEF Locals
  <2>2. order \in Seq(Directories)
    BY <2>1 DEF SearchOrder
  <2> QED
    BY <2>2
<1>2. ASSUME NEW i \in Hits(local, specification), NEW k \in Hits(local, specification)
      PROVE  i = k
  <2>1. i \in 1..Len(order) /\ k \in 1..Len(order)
    BY <1>1 DEF Hits
  <2>2. Has(i) /\ Has(k)
    BY DEF Hits
  <2>3. (\A j \in 1..(i - 1) : ~Has(j)) /\ (\A j \in 1..(k - 1) : ~Has(j))
    BY DEF Hits
  <2> HIDE DEF Has, order
  <2>4. ~(i < k) /\ ~(k < i)
    BY <1>1, <2>1, <2>2, <2>3
  <2> QED
    BY <1>1, <2>1, <2>4
<1>3. CanResolve(local, specification) =>
         {Entry[<<order[i], specification>>] : i \in Hits(local, specification)}
            = {Resolve(local, specification)}
  <2> SUFFICES ASSUME CanResolve(local, specification)
               PROVE  {Entry[<<order[i], specification>>] : i \in Hits(local, specification)}
                         = {Resolve(local, specification)}
    OBVIOUS
  <2> DEFINE first == CHOOSE i \in Hits(local, specification) : TRUE
  <2>1. first \in Hits(local, specification)
    BY DEF CanResolve
  <2>2. \A i \in Hits(local, specification) : i = first
    BY <1>2, <2>1
  <2>3. Resolve(local, specification) = Entry[<<order[first], specification>>]
    BY DEF Resolve
  <2> HIDE DEF first, order
  <2> QED
    BY <2>1, <2>2, <2>3
<1>4. ~CanResolve(local, specification) => Hits(local, specification) = {}
  BY DEF CanResolve
<1>5. CASE specification \notin SourceSpecifications
  BY <1>5 DEF Located
<1>6. CASE specification \in SourceSpecifications /\ specification \in AbsoluteSpecifications
  <2>1. order = <<RootDirectory>> /\ Len(order) = 1 /\ DOMAIN order = {1}
    BY <1>6 DEF SearchOrder
  <2>2. Hits(local, specification)
           = IF <<RootDirectory, specification>> \in DOMAIN Entry THEN {1} ELSE {}
    <3>1. \A j : j \notin 1..(1 - 1)
      OBVIOUS
    <3> QED
      BY <2>1, <3>1 DEF Hits
  <2>3. Located(local, specification)
           = {Entry[place] : place \in DOMAIN Entry \cap {<<RootDirectory, specification>>}}
    BY <1>6 DEF Located
  <2>4. CASE <<RootDirectory, specification>> \in DOMAIN Entry
    <3>1. Located(local, specification) = {Entry[<<RootDirectory, specification>>]}
      BY <2>3, <2>4
    <3>2. CanResolve(local, specification)
      BY <2>2, <2>4 DEF CanResolve
    <3>3. {Entry[<<order[i], specification>>] : i \in {1}} = {Resolve(local, specification)}
      BY <1>3, <2>2, <2>4, <3>2
    <3>4. {Entry[<<order[i], specification>>] : i \in {1}} = {Entry[<<order[1], specification>>]}
      OBVIOUS
    <3> QED
      BY <1>6, <2>1, <3>1, <3>2, <3>3, <3>4
  <2>5. CASE <<RootDirectory, specification>> \notin DOMAIN Entry
    BY <2>2, <2>3, <2>5 DEF CanResolve
  <2> QED
    BY <2>4, <2>5
<1>7. CASE specification \in SourceSpecifications /\ specification \notin AbsoluteSpecifications
  <2>1. order = local \o SearchDirectories \o <<WorkingDirectory>>
    BY <1>7 DEF SearchOrder
  <2>2. Located(local, specification)
           = {Entry[<<order[i], specification>>] : i \in Hits(local, specification)}
    BY <1>7, <2>1 DEF Located, Hits
  <2> HIDE DEF order
  <2> QED
    BY <1>3, <1>4, <1>7, <2>2
<1> QED
  BY <1>5, <1>6, <1>7

Writings == [local : Locals, directive : Directive]

\* A program that goes on, and one that has failed.
Program(text, files, names, values) ==
    [text |-> text, files |-> files, bound |-> names, committed |-> values, status |-> "OK"]
HasEnded(m, names, values) ==
    m.text = <<>> /\ m.status = "FAILED" /\ m.bound = names /\ m.committed = values

\* A program with a directive in front, and what a step makes of it.
Fronted(m, w, rest, files, names, values) ==
    /\ w \in Writings /\ rest \in Seq(Writings)
    /\ m = Program(<<w>> \o rest, files, names, values)
Effect(texts, w, rest, files, names, values, after) ==
    /\ w.directive.keyword = "EndOfSource" => after = Program(rest, files, names, values)
    /\ w.directive.keyword = "Identity" /\ w.directive.name \notin names =>
          after = Program(rest, files, names \cup {w.directive.name}, values)
    /\ w.directive.keyword = "Commit" /\ w.directive.name \in names =>
          after = Program(rest, files, names, Append(values, w.directive.name))
    /\ \/ w.directive.keyword = "Unknown"
       \/ w.directive.keyword = "Identity" /\ w.directive.name \in names
       \/ w.directive.keyword = "Commit" /\ w.directive.name \notin names
       \/ w.directive.keyword = "Require" /\ Located(w.local, w.directive.specification) = {}
       => HasEnded(after, names, values)
    /\ \A target :
          w.directive.keyword = "Require" /\ Located(w.local, w.directive.specification) = {target}
          => /\ Occurs(target, files) => after = Program(rest, files, names, values)
             /\ ~Occurs(target, files) /\ Includable(target, files) =>
                   after = Program(TextFrom(texts, target, 1) \o rest, Append(files, target),
                                   names, values)
             /\ ~Occurs(target, files) /\ ~Includable(target, files) =>
                   HasEnded(after, names, values)

LEMMA Effects ==
    ASSUME NEW texts, NEW w, NEW rest, NEW files, NEW names, NEW values, NEW m,
           Fronted(m, w, rest, files, names, values)
    PROVE  Effect(texts, w, rest, files, names, values, Rewritten(texts, m))
<1> DEFINE text == <<w>> \o rest
           directive == w.directive
           targets == Located(w.local, directive.specification)
           passed == Program(rest, files, names, values)
           after == Rewritten(texts, m)
<1>1. /\ text # <<>> /\ Head(text) = w /\ Tail(text) = rest
  BY DEF Fronted
<1>2. m = Program(text, files, names, values)
  BY DEF Fronted
<1> HIDE DEF text
<1>3. /\ m.text = text /\ m.files = files /\ m.bound = names /\ m.committed = values
      /\ [m EXCEPT !.text = Tail(@)] = passed
  <2>1. m.text = text /\ m.files = files /\ m.bound = names /\ m.committed = values
    BY <1>2 DEF Program
  <2>2. [m EXCEPT !.text = rest] = passed
    BY <1>2 DEF Program
  <2> QED
    BY <1>1, <2>1, <2>2
<1>4. HasEnded([m EXCEPT !.text = <<>>, !.status = "FAILED"], names, values)
  BY <1>2 DEF Program, HasEnded
<1>5. /\ [passed EXCEPT !.bound = @ \cup {directive.name}]
             = Program(rest, files, names \cup {directive.name}, values)
      /\ [passed EXCEPT !.committed = Append(@, directive.name)]
             = Program(rest, files, names, Append(values, directive.name))
      /\ \A target : [passed EXCEPT !.text = TextFrom(texts, target, 1) \o @,
                                     !.files = Append(@, target)]
             = Program(TextFrom(texts, target, 1) \o rest, Append(files, target), names, values)
  <2>1. /\ passed.text = rest /\ passed.files = files /\ passed.bound = names
        /\ passed.committed = values
    BY DEF Program
  <2>2. \A more : [passed EXCEPT !.bound = more] = Program(rest, files, more, values)
    BY DEF Program
  <2>3. \A more : [passed EXCEPT !.committed = more] = Program(rest, files, names, more)
    BY DEF Program
  <2>4. \A longer, more : [passed EXCEPT !.text = longer, !.files = more]
                             = Program(longer, more, names, values)
    <3> SUFFICES ASSUME NEW longer, NEW more
                 PROVE  [passed EXCEPT !.text = longer, !.files = more]
                           = Program(longer, more, names, values)
      OBVIOUS
    <3>1. [passed EXCEPT !.text = longer] = Program(longer, files, names, values)
      BY DEF Program
    <3>2. [Program(longer, files, names, values) EXCEPT !.files = more]
             = Program(longer, more, names, values)
      BY DEF Program
    <3>3. [passed EXCEPT !.text = longer, !.files = more]
             = [[passed EXCEPT !.text = longer] EXCEPT !.files = more]
      OBVIOUS
    <3> HIDE DEF passed
    <3> QED
      BY <3>1, <3>2, <3>3
  <2> HIDE DEF passed
  <2> QED
    BY <2>1, <2>2, <2>3, <2>4
<1>6. \A target : targets = {target} => targets # {} /\ (CHOOSE file \in targets : TRUE) = target
  OBVIOUS
<1> HIDE DEF passed, targets
<1>7. after = LET target == CHOOSE file \in targets : TRUE
              IN  CASE directive.keyword = "EndOfSource" -> passed
                    [] directive.keyword = "Identity" /\ directive.name \notin names ->
                          [passed EXCEPT !.bound = @ \cup {directive.name}]
                    [] directive.keyword = "Commit" /\ directive.name \in names ->
                          [passed EXCEPT !.committed = Append(@, directive.name)]
                    [] directive.keyword = "Require" /\ targets # {} /\ Occurs(target, files) ->
                          passed
                    [] directive.keyword = "Require" /\ targets # {} /\ ~Occurs(target, files)
                          /\ Includable(target, files) ->
                          [passed EXCEPT !.text = TextFrom(texts, target, 1) \o @,
                                         !.files = Append(@, target)]
                    [] OTHER -> [m EXCEPT !.text = <<>>, !.status = "FAILED"]
  BY <1>1, <1>3 DEF Rewritten, targets
<1> HIDE DEF after
<1>8. directive.keyword = "EndOfSource" => after = passed
  BY <1>7
<1>9. directive.keyword = "Identity" /\ directive.name \notin names =>
         after = [passed EXCEPT !.bound = @ \cup {directive.name}]
  BY <1>7
<1>10. directive.keyword = "Commit" /\ directive.name \in names =>
         after = [passed EXCEPT !.committed = Append(@, directive.name)]
  BY <1>7
<1>11. \/ directive.keyword = "Unknown"
       \/ directive.keyword = "Identity" /\ directive.name \in names
       \/ directive.keyword = "Commit" /\ directive.name \notin names
       \/ directive.keyword = "Require" /\ targets = {}
       => after = [m EXCEPT !.text = <<>>, !.status = "FAILED"]
  BY <1>7
<1>12. ASSUME NEW target, directive.keyword = "Require", targets = {target}
       PROVE  /\ Occurs(target, files) => after = passed
              /\ ~Occurs(target, files) /\ Includable(target, files) =>
                    after = [passed EXCEPT !.text = TextFrom(texts, target, 1) \o @,
                                           !.files = Append(@, target)]
              /\ ~Occurs(target, files) /\ ~Includable(target, files) =>
                    after = [m EXCEPT !.text = <<>>, !.status = "FAILED"]
  <2>1. targets # {} /\ (CHOOSE file \in targets : TRUE) = target
    BY <1>6, <1>12
  <2> QED
    BY <1>7, <1>12, <2>1
<1> QED
  BY <1>4, <1>5, <1>8, <1>9, <1>10, <1>11, <1>12 DEF Effect, passed, targets, after

\* The front of the text of a file from a position on.
LEMMA TextFromIs ==
    ASSUME NEW texts \in [Files -> Seq(Directive)], NEW file \in Files,
           NEW p \in Nat \ {0}, p <= Len(texts[file]) + 1
    PROVE  /\ TextFrom(texts, file, p) \in Seq(Writings)
           /\ p = Len(texts[file]) + 1 => TextFrom(texts, file, p) = <<>>
           /\ p <= Len(texts[file]) =>
                 /\ Written(<<DirectoryOf[file]>>, texts[file][p]) \in Writings
                 /\ TextFrom(texts, file, p)
                       = <<Written(<<DirectoryOf[file]>>, texts[file][p])>>
                            \o TextFrom(texts, file, p + 1)
<1> DEFINE length == Len(texts[file])
           W(i) == Written(<<DirectoryOf[file]>>, texts[file][i])
<1>1. texts[file] \in Seq(Directive) /\ length \in Nat
  OBVIOUS
<1>2. \A i \in 1..length : W(i) \in Writings
  <2>1. <<DirectoryOf[file]>> \in Locals
    BY ModuleAssumption DEF Locals
  <2>2. \A i \in 1..length : texts[file][i] \in Directive
    BY <1>1
  <2> QED
    BY <2>1, <2>2 DEF Written, Writings
<1>3. \A q : TextFrom(texts, file, q) = [i \in 1..(length + 1 - q) |-> W(i + q - 1)]
  BY DEF TextFrom
<1> HIDE DEF W, length
<1>4. ASSUME NEW q \in Nat \ {0}, q <= length + 1
      PROVE  /\ TextFrom(texts, file, q) \in Seq(Writings)
             /\ Len(TextFrom(texts, file, q)) = length + 1 - q
             /\ \A i \in 1..(length + 1 - q) : TextFrom(texts, file, q)[i] = W(i + q - 1)
  <2>1. PICK l \in Nat : l = length + 1 - q
    BY <1>1, <1>4
  <2>2. \A i \in 1..l : i + q - 1 \in 1..length
    BY <1>1, <1>4, <2>1
  <2>3. [i \in 1..l |-> W(i + q - 1)] \in Seq(Writings)
    <3>1. \A i \in 1..l : W(i + q - 1) \in Writings
      BY <1>2, <2>2
    <3> QED
      BY <3>1
  <2>4. Len([i \in 1..l |-> W(i + q - 1)]) = l
    OBVIOUS
  <2> QED
    BY <1>3, <2>1, <2>3, <2>4
<1>5. p = length + 1 => TextFrom(texts, file, p) = <<>>
  BY <1>1, <1>4
<1>6. ASSUME p <= length
      PROVE  TextFrom(texts, file, p) = <<W(p)>> \o TextFrom(texts, file, p + 1)
  <2>1. PICK q \in Nat \ {0} : q = p + 1
    OBVIOUS
  <2>2. q <= length + 1
    BY <1>1, <1>6, <2>1
  <2> DEFINE s == TextFrom(texts, file, p)
             t == TextFrom(texts, file, q)
  <2>3. /\ s \in Seq(Writings) /\ Len(s) = length + 1 - p
        /\ \A i \in 1..(length + 1 - p) : s[i] = W(i + p - 1)
    <3>1. p <= length + 1
      BY <1>1, <1>6
    <3> QED
      BY <1>4, <3>1
  <2>4. /\ t \in Seq(Writings) /\ Len(t) = length + 1 - q
        /\ \A i \in 1..(length + 1 - q) : t[i] = W(i + q - 1)
    BY <1>4, <2>2
  <2> HIDE DEF s, t
  <2>5. W(p) \in Writings /\ p \in 1..length
    BY <1>1, <1>2, <1>6
  <2> DEFINE u == <<W(p)>> \o t
  <2>6. u \in Seq(Writings) /\ Len(u) = Len(s)
    <3>1. t \in Seq(Writings) /\ <<W(p)>> \in Seq(Writings) /\ Len(<<W(p)>>) = 1
      BY <2>4, <2>5
    <3>2. u \in Seq(Writings) /\ Len(u) = 1 + Len(t)
      BY <3>1
    <3>3. Len(t) = length + 1 - q /\ Len(s) = length + 1 - p
      BY <2>3, <2>4
    <3> HIDE DEF u
    <3> QED
      BY <1>1, <2>1, <3>2, <3>3
  <2>7. ASSUME NEW i \in 1..Len(s) PROVE s[i] = u[i]
    <3>1. CASE i = 1
      <4>1. s[1] = W(p) /\ u[1] = W(p)
        <5>1. 1 \in 1..(length + 1 - p) /\ 1 + p - 1 = p
          BY <1>1, <1>6
        <5> QED
          BY <2>3, <2>4, <5>1
      <4> QED
        BY <3>1, <4>1
    <3>2. CASE i # 1
      <4>1. PICK k \in Nat \ {0} : k = i - 1
        BY <1>1, <2>3, <2>7, <3>2
      <4>2. k \in 1..(length + 1 - q) /\ i \in 1..(length + 1 - p) /\ k + q - 1 = i + p - 1
        BY <1>1, <2>1, <2>3, <2>7, <4>1
      <4>3. u[i] = t[k]
        BY <1>1, <2>4, <4>1, <4>2, SMTT(30)
      <4> QED
        BY <2>3, <2>4, <4>2, <4>3
    <3> QED
      BY <3>1, <3>2
  <2>8. s = u
    BY <2>3, <2>6, <2>7, SeqEqual
  <2> QED
    BY <2>1, <2>8 DEF s, t
<1> QED
  BY <1>1, <1>2, <1>4, <1>5, <1>6, SMTT(30) DEF W, length

-----------------------------------------------------------------------------
(* Execution and rewriting go together. *)

\* Texts that begin with what was read, and end where an end was read.
Completes(texts) ==
    /\ texts \in [Files -> Seq(Directive)]
    /\ \A file \in Files :
          /\ Len(contents[file]) <= Len(texts[file])
          /\ \A i \in 1..Len(contents[file]) :
                /\ texts[file][i] = contents[file][i]
                /\ contents[file][i] = EndOfSource => Len(texts[file]) = i

\* Nothing has failed.
Going == control \in {"enter", "module"} \/ status = "OK"

\* So many modules wait for one they require.
Waiting == IF control = "module" THEN Len(modules) - 1 ELSE Len(modules)

\* Nothing is read behind an end, nor passed; a module that waits is at a
\* Require.
Positioned ==
    /\ \A file \in Files : \A i \in 1..Len(contents[file]) :
          contents[file][i] = EndOfSource => i = Len(contents[file])
    /\ \A k \in 1..Len(modules) : \A i \in 1..(modules[k].position - 1) :
          i <= Len(contents[modules[k].path]) /\ contents[modules[k].path][i] # EndOfSource
    /\ Going => \A k \in 1..Waiting :
          /\ modules[k].position <= Len(contents[modules[k].path])
          /\ contents[modules[k].path][modules[k].position].keyword = "Require"

\* What is left of the texts of the modules that wait, from the outermost one
\* up to each.
Rests(R, texts, count) ==
    /\ R[0] = <<>>
    /\ \A k \in 0..count : R[k] \in Seq(Writings)
    /\ \A k \in 1..count :
          R[k] = TextFrom(texts, modules[k].path, modules[k].position + 1) \o R[k - 1]

\* The program that is left, once rewritten as far as the session has come.
Corresponds(m, texts) ==
    \E R :
       /\ Rests(R, texts, Waiting)
       /\ control = "module" =>
             m = Program(TextFrom(texts, Current.path, Current.position) \o R[Waiting],
                         loaded_module_paths, bound, committed_names)
       /\ control = "enter" =>
             \E w \in Writings :
                /\ w.directive.keyword = "Require"
                /\ Located(w.local, w.directive.specification) = {callee}
                /\ m = Program(<<w>> \o R[Waiting], loaded_module_paths, bound, committed_names)
       /\ control \in {"return", "idle"} =>
             m = Program(R[Waiting], loaded_module_paths, bound, committed_names)

\* Places that have been passed.
Spent(D) ==
    /\ D \subseteq Places(contents)
    /\ \A place \in D : IsLoaded(place[1])
    /\ \A place \in D : \A k \in 1..Len(modules) :
          place[1] = modules[k].path =>
             /\ place[2] <= modules[k].position
             /\ (k = Len(modules) /\ control \in {"enter", "module"}) =>
                   place[2] < modules[k].position

Ahead(n, D) ==
    /\ Spent(D) /\ n <= Cardinality(D) + 1
    /\ control = "enter" /\ modules = <<>> => n = 0
    /\ \A texts : Completes(texts) => Corresponds(Rewriting(texts, source_path)[n], texts)
Over(n) ==
    /\ n <= Cardinality(Places(contents)) + 1
    /\ \A texts : Completes(texts) =>
          HasEnded(Rewriting(texts, source_path)[n], bound, committed_names)

Following ==
    /\ Positioned
    /\ execution_count = 0 =>
          bound = {} /\ committed_names = <<>> /\ loaded_module_paths = <<>> /\ modules = <<>>
    /\ execution_count = 1 =>
          IF Going THEN \E n \in Nat : \E D : Ahead(n, D) ELSE \E n \in Nat : Over(n)

\* There are finitely many places.
LEMMA PlacesFinite ==
    ASSUME NEW texts \in [Files -> Seq(Directive)]
    PROVE  IsFiniteSet(Places(texts))
<1> DEFINE domains == {DOMAIN texts[file] : file \in Files}
           f == [file \in Files |-> DOMAIN texts[file]]
<1>1. IsFiniteSet(domains)
  <2>1. f \in Surjection(Files, domains)
    BY DEF Surjection
  <2> QED
    BY <2>1, InclusionAssumption, FS_Surjection
<1>2. \A domain \in domains : IsFiniteSet(domain)
  <2>1. ASSUME NEW file \in Files PROVE IsFiniteSet(DOMAIN texts[file])
    <3>1. Len(texts[file]) \in Nat /\ DOMAIN texts[file] = 1..Len(texts[file])
      OBVIOUS
    <3> QED
      BY <3>1, FS_Interval
  <2> QED
    BY <2>1
<1>3. IsFiniteSet(UNION domains)
  BY <1>1, <1>2, FS_UNION
<1>4. IsFiniteSet(Files \X UNION domains)
  BY <1>3, InclusionAssumption, FS_Product
<1>5. Places(texts) \subseteq Files \X UNION domains
  BY DEF Places
<1> QED
  BY <1>4, <1>5, FS_Subset

\* The place the innermost module has come to, if there is one.
Met == IF modules = <<>> THEN {} ELSE {<<Current.path, Current.position>>}

\* There is a place for every step, and it was not passed before.
LEMMA Room ==
    ASSUME TypeOK, Positioned, control \in {"enter", "module"},
           control = "module" => Current.position <= Len(contents[Current.path]),
           NEW n \in Nat, NEW D, Ahead(n, D)
    PROVE  /\ D \cup Met \subseteq Places(contents)
           /\ n + 1 <= Cardinality(D \cup Met) + 1
           /\ n + 1 <= Cardinality(Places(contents)) + 1
<1>1. IsFiniteSet(Places(contents)) /\ D \subseteq Places(contents)
  BY PlacesFinite DEF TypeOK, Ahead, Spent
<1>2. IsFiniteSet(D) /\ Cardinality(D) \in Nat
  BY <1>1, FS_Subset, FS_CardinalityType
<1>3. n <= Cardinality(D) + 1 /\ (control = "enter" /\ modules = <<>> => n = 0)
  BY DEF Ahead
<1>4. /\ D \cup Met \subseteq Places(contents)
      /\ n + 1 <= Cardinality(D \cup Met) + 1
  <2>1. CASE modules = <<>>
    <3>1. control = "enter"
      BY <2>1 DEF TypeOK
    <3>2. n = 0 /\ D \cup Met = D
      BY <1>3, <2>1, <3>1 DEF Met
    <3>3. n + 1 <= Cardinality(D) + 1
      BY <1>2, <3>2
    <3> QED
      BY <1>1, <3>2, <3>3
  <2>2. CASE modules # <<>>
    <3>1. modules \in Seq(Module) /\ Len(modules) \in Nat \ {0} /\ Current \in Module
      BY <2>2, StackSteps DEF TypeOK
    <3>2. Current.path \in Files /\ Current.position \in Nat \ {0}
      BY <3>1 DEF Module
    <3>3. Current.position <= Len(contents[Current.path])
      <4>1. CASE control = "enter"
        <5>1. Going /\ Waiting = Len(modules)
          BY <4>1 DEF Going, Waiting
        <5> QED
          BY <3>1, <5>1 DEF Positioned, Current
      <4> QED
        BY <4>1
    <3> DEFINE place == <<Current.path, Current.position>>
    <3>4. place \in Places(contents)
      <4>1. contents \in [Files -> Seq(Directive)]
        BY DEF TypeOK
      <4>2. contents[Current.path] \in Seq(Directive)
        BY <3>2, <4>1
      <4>3. Current.position \in DOMAIN contents[Current.path]
        BY <3>2, <3>3, <4>2
      <4> QED
        BY <3>2, <4>3 DEF Places
    <3>5. place \notin D
      <4>1. Len(modules) \in 1..Len(modules) /\ Spent(D)
        BY <3>1 DEF Ahead
      <4>2. \A other \in D : other[1] = Current.path => other[2] < Current.position
        BY <4>1 DEF Spent, Current
      <4>3. place[1] = Current.path /\ place[2] = Current.position
        OBVIOUS
      <4> HIDE DEF place
      <4> QED
        BY <3>2, <4>2, <4>3
    <3>6. Met = {place}
      BY <2>2 DEF Met
    <3> HIDE DEF place
    <3>7. Cardinality(D \cup {place}) = Cardinality(D) + 1
      BY <1>2, <3>5, FS_AddElement
    <3>8. n + 1 <= Cardinality(D \cup {place}) + 1
      BY <1>2, <1>3, <3>7
    <3> QED
      BY <1>1, <3>4, <3>6, <3>8
  <2> QED
    BY <2>1, <2>2
<1>5. /\ Cardinality(D \cup Met) \in Nat /\ Cardinality(Places(contents)) \in Nat
      /\ Cardinality(D \cup Met) <= Cardinality(Places(contents))
  BY <1>1, <1>4, FS_Subset, FS_CardinalityType
<1>6. n + 1 <= Cardinality(Places(contents)) + 1
  <2>1. PICK c, d \in Nat : c = Cardinality(D \cup Met) /\ d = Cardinality(Places(contents))
    BY <1>5
  <2>2. c <= d /\ n + 1 <= c + 1
    BY <1>4, <1>5, <2>1
  <2>3. n + 1 <= d + 1
    BY <2>2
  <2> QED
    BY <2>1, <2>3
<1> QED
  BY <1>4, <1>6

\* The directive that is read is in front of the texts.
LEMMA InFront ==
    ASSUME TypeOK, NEW keyword, ReadsDirective(keyword), NEW texts, Completes(texts)
    PROVE  LET w == Written(<<DirectoryOf[Current.path]>>, ThisDirective)
               rest == TextFrom(texts, Current.path, Current.position + 1)
           IN  /\ w \in Writings /\ rest \in Seq(Writings)
               /\ TextFrom(texts, Current.path, Current.position) = <<w>> \o rest
               /\ w.local = <<DirectoryOf[Current.path]>> /\ w.directive = ThisDirective
               /\ keyword = "EndOfSource" => rest = <<>>
<1> DEFINE file == Current.path
           p == Current.position
<1>1. modules # <<>> /\ p <= Len(contents[file]) /\ ThisDirective.keyword = keyword
  BY DEF ReadsDirective, TypeOK
<1>2. file \in Files /\ p \in Nat \ {0}
  BY <1>1, StackSteps DEF TypeOK, Module
<1>3. /\ contents \in [Files -> Seq(Directive)] /\ texts \in [Files -> Seq(Directive)]
      /\ Len(contents[file]) <= Len(texts[file])
      /\ \A i \in 1..Len(contents[file]) :
            /\ texts[file][i] = contents[file][i]
            /\ contents[file][i] = EndOfSource => Len(texts[file]) = i
  BY <1>2 DEF Completes, TypeOK
<1>4. /\ texts[file] \in Seq(Directive) /\ contents[file] \in Seq(Directive)
      /\ Len(texts[file]) \in Nat /\ Len(contents[file]) \in Nat
  BY <1>2, <1>3
<1>5. ThisDirective = contents[file][p]
  BY DEF ThisDirective
<1> HIDE DEF file, p
<1>6. p \in 1..Len(contents[file])
  BY <1>1, <1>2, <1>4
<1>7. ThisDirective \in Directive
  BY <1>4, <1>5, <1>6
<1>8. keyword = "EndOfSource" => ThisDirective = EndOfSource
  BY <1>1, <1>7 DEF Directive, EndOfSource
<1>9. texts[file][p] = ThisDirective /\ (ThisDirective = EndOfSource => Len(texts[file]) = p)
  BY <1>3, <1>5, <1>6
<1>10. PICK q \in Nat \ {0} : q = p + 1
  BY <1>2
<1>11. p <= Len(texts[file]) /\ q <= Len(texts[file]) + 1 /\ p <= Len(texts[file]) + 1
  BY <1>1, <1>2, <1>3, <1>4, <1>10
<1>12. /\ Written(<<DirectoryOf[file]>>, texts[file][p]) \in Writings
       /\ TextFrom(texts, file, p)
             = <<Written(<<DirectoryOf[file]>>, texts[file][p])>> \o TextFrom(texts, file, p + 1)
  BY <1>2, <1>3, <1>11, TextFromIs
<1>13. /\ TextFrom(texts, file, q) \in Seq(Writings)
       /\ q = Len(texts[file]) + 1 => TextFrom(texts, file, q) = <<>>
  BY <1>2, <1>3, <1>11, TextFromIs
<1>14. keyword = "EndOfSource" => q = Len(texts[file]) + 1
  BY <1>8, <1>9, <1>10
<1> QED
  BY <1>9, <1>10, <1>12, <1>13, <1>14 DEF Written, file, p

\* What advancing does to the innermost module, and to the ones that wait.
LEMMA Advances ==
    ASSUME modules \in Seq(Module), modules # <<>>, modules' = Advanced
    PROVE  /\ modules' \in Seq(Module) /\ Len(modules') = Len(modules)
           /\ Len(modules) \in Nat \ {0}
           /\ Current'.path = Current.path /\ Current'.position = Current.position + 1
           /\ \A k \in 1..(Len(modules) - 1) : modules'[k] = modules[k]
<1>1. Len(modules) \in Nat \ {0} /\ Current \in Module
  BY DEF Current
<1>2. modules' = [modules EXCEPT ![Len(modules)] = [Current EXCEPT !.position = @ + 1]]
  BY DEF Advanced, Current
<1>3. [Current EXCEPT !.position = @ + 1] \in Module
  BY <1>1 DEF Module
<1>4. modules' \in Seq(Module) /\ Len(modules') = Len(modules)
  BY <1>1, <1>2, <1>3
<1>5. modules'[Len(modules)] = [Current EXCEPT !.position = @ + 1]
  BY <1>1, <1>2
<1>6. \A k \in 1..(Len(modules) - 1) : modules'[k] = modules[k]
  BY <1>1, <1>2
<1>7. Current' = [Current EXCEPT !.position = @ + 1]
  BY <1>4, <1>5 DEF Current
<1>8. Current'.path = Current.path /\ Current'.position = Current.position + 1
  BY <1>1, <1>7 DEF Module
<1> QED
  BY <1>1, <1>4, <1>6, <1>8

\* Every module is at a file and a position.
LEMMA ModuleFacts ==
    ASSUME modules \in Seq(Module)
    PROVE  /\ Len(modules) \in Nat
           /\ \A k \in 1..Len(modules) :
                 modules[k].path \in Files /\ modules[k].position \in Nat \ {0}
<1>1. Len(modules) \in Nat /\ \A k \in 1..Len(modules) : modules[k] \in Module
  OBVIOUS
<1>2. \A m \in Module : m.path \in Files /\ m.position \in Nat \ {0}
  BY DEF Module
<1> QED
  BY <1>1, <1>2

\* The directive that is read is where its module has come to.
LEMMA AtDirective ==
    ASSUME TypeOK, NEW keyword, ReadsDirective(keyword)
    PROVE  /\ modules \in Seq(Module) /\ modules # <<>> /\ Len(modules) \in Nat \ {0}
           /\ Current = modules[Len(modules)]
           /\ Current.path \in Files /\ Current.position \in Nat \ {0}
           /\ Current.position <= Len(contents[Current.path])
           /\ ThisDirective = contents[Current.path][Current.position]
           /\ ThisDirective.keyword = keyword
           /\ keyword # "EndOfSource" => ThisDirective # EndOfSource
<1>1. modules \in Seq(Module) /\ modules # <<>> /\ Len(modules) \in Nat \ {0}
  BY DEF ReadsDirective, TypeOK
<1>2. Current.path \in Files /\ Current.position \in Nat \ {0}
  BY <1>1, StackSteps DEF Module
<1> QED
  BY <1>1, <1>2 DEF ReadsDirective, Current, ThisDirective, EndOfSource

\* Advancing past a directive that is no end keeps what is positioned.
LEMMA PositionedAdvanced ==
    ASSUME TypeOK, Positioned, modules # <<>>, modules' = Advanced, contents' = contents,
           control' = "module",
           Current.position <= Len(contents[Current.path]),
           contents[Current.path][Current.position] # EndOfSource,
           Going, Waiting >= Len(modules) - 1
    PROVE  Positioned'
<1>1. /\ modules \in Seq(Module) /\ modules' \in Seq(Module) /\ Len(modules') = Len(modules)
      /\ Len(modules) \in Nat \ {0}
      /\ Current'.path = Current.path /\ Current'.position = Current.position + 1
      /\ \A k \in 1..(Len(modules) - 1) : modules'[k] = modules[k]
  BY Advances DEF TypeOK
<1>2. Current.path \in Files /\ Current.position \in Nat \ {0}
  BY <1>1, StackSteps DEF Module
<1>3. ASSUME NEW k \in 1..Len(modules'), NEW i \in 1..(modules'[k].position - 1)
      PROVE  i <= Len(contents[modules'[k].path]) /\ contents[modules'[k].path][i] # EndOfSource
  <2>1. k \in 1..Len(modules)
    BY <1>1
  <2>2. CASE k < Len(modules)
    <3>1. modules'[k] = modules[k]
      BY <1>1, <2>2
    <3> QED
      BY <2>1, <3>1 DEF Positioned
  <2>3. CASE k = Len(modules)
    <3>1. modules'[k] = Current' /\ modules[k] = Current
      BY <1>1, <2>3 DEF Current
    <3>2. i \in 1..Current.position
      BY <1>1, <1>2, <3>1
    <3>3. CASE i = Current.position
      BY <1>1, <3>1, <3>3
    <3>4. CASE i # Current.position
      <4>1. i \in 1..(modules[k].position - 1)
        BY <1>2, <3>1, <3>2, <3>4
      <4> QED
        BY <1>1, <2>1, <3>1, <4>1 DEF Positioned
    <3> QED
      BY <3>3, <3>4
  <2> QED
    BY <1>1, <2>1, <2>2, <2>3
<1>4. Waiting' = Len(modules) - 1
  BY <1>1 DEF Waiting
<1>5. \A k \in 1..(Len(modules) - 1) :
         /\ modules'[k].position <= Len(contents[modules'[k].path])
         /\ contents[modules'[k].path][modules'[k].position].keyword = "Require"
  <2>1. Len(modules) - 1 <= Waiting /\ Waiting \in Int
    BY <1>1 DEF Waiting
  <2>2. \A k \in 1..(Len(modules) - 1) : k \in 1..Waiting
    BY <1>1, <2>1
  <2> QED
    BY <1>1, <2>2 DEF Positioned
<1> QED
  BY <1>3, <1>4, <1>5 DEF Positioned

\* Every step of the first execution keeps what is positioned.
LEMMA PositionedStep ==
    ASSUME TypeOK, TypeOK', Positioned, Once, Truthful, [Next]_vars
    PROVE  Positioned'
<1> USE DEF BeginsDirective, call_vars, loader_vars, program_vars
<1>1. ASSUME UNCHANGED <<contents, modules>>, Going' => Going /\ Waiting' = Waiting
      PROVE  Positioned'
  BY <1>1 DEF Positioned
<1>2. modules \in Seq(Module) /\ modules' \in Seq(Module) /\ Len(modules) \in Nat
  BY DEF TypeOK
<1>3. ASSUME NEW specification \in Specifications, ExecuteSourceFile(specification)
      PROVE  Positioned'
  <2>1. modules = <<>> /\ UNCHANGED <<contents, modules>> /\ control' \in {"enter", "return"}
    BY <1>3 DEF ExecuteSourceFile, TypeOK, Fail
  <2>2. Waiting' = 0
    BY <2>1 DEF Waiting
  <2> QED
    BY <2>1, <2>2 DEF Positioned
<1>4. CASE FinishExecution
  BY <1>1, <1>4 DEF FinishExecution, Going, Waiting
<1>5. CASE \/ RefuseTracking \/ RefuseMapping \/ RefuseText \/ AbandonDirective \/ RefuseRequire
           \/ RefuseDeclaration
  <2>1. UNCHANGED <<contents, modules>> /\ control' = "return" /\ status' = "FAILED"
    BY <1>5 DEF RefuseTracking, RefuseMapping, RefuseText, AbandonDirective, RefuseRequire,
                RefuseDeclaration, Fail
  <2>2. ~Going'
    BY <2>1 DEF Going
  <2> QED
    BY <1>1, <2>1, <2>2
<1>6. CASE EnterModule
  <2>1. /\ control = "enter" /\ control' = "module" /\ contents' = contents /\ callee \in Files
        /\ modules' = Append(modules, [path |-> callee, position |-> 1])
    BY <1>6 DEF EnterModule, TypeOK
  <2>2. /\ Len(modules') = Len(modules) + 1
        /\ modules'[Len(modules) + 1] = [path |-> callee, position |-> 1]
        /\ \A k \in 1..Len(modules) : modules'[k] = modules[k]
    BY <1>2, <2>1 DEF Module
  <2>3. Going /\ Waiting = Len(modules) /\ Waiting' = Len(modules)
    BY <1>2, <2>1, <2>2 DEF Going, Waiting
  <2>4. ASSUME NEW k \in 1..Len(modules'), NEW i \in 1..(modules'[k].position - 1)
        PROVE  /\ i <= Len(contents[modules'[k].path])
               /\ contents[modules'[k].path][i] # EndOfSource
    <3>1. CASE k \in 1..Len(modules)
      BY <2>2, <3>1 DEF Positioned
    <3>2. CASE k = Len(modules) + 1
      BY <2>2, <3>2
    <3> QED
      BY <1>2, <2>2, <3>1, <3>2
  <2> QED
    BY <2>1, <2>2, <2>3, <2>4 DEF Positioned
<1>7. CASE ReadText
  <2> DEFINE path == Current.path
  <2>1. PICK directive : contents' = [contents EXCEPT ![path] = Append(@, directive)]
    BY <1>7 DEF ReadText
  <2>2. /\ UNCHANGED <<modules, control, status>> /\ modules # <<>> /\ control = "module"
        /\ Current.position > Len(contents[path])
    BY <1>7 DEF ReadText, TypeOK
  <2>3. path \in Files /\ Current.position \in Nat \ {0} /\ Len(modules) \in Nat \ {0}
    BY <1>2, <2>2, StackSteps DEF Module
  <2> DEFINE old == contents[path]
  <2>4. contents \in [Files -> Seq(Directive)] /\ contents' \in [Files -> Seq(Directive)]
    BY DEF TypeOK
  <2>5. old \in Seq(Directive) /\ Len(old) \in Nat
    BY <2>3, <2>4
  <2>6. \A i \in 1..Len(old) : old[i] # EndOfSource
    <3>1. Len(modules) \in 1..Len(modules)
      BY <2>3
    <3>2. \A i \in 1..(Current.position - 1) : contents[Current.path][i] # EndOfSource
      BY <3>1 DEF Positioned, Current
    <3>3. \A i \in 1..Len(old) : i \in 1..(Current.position - 1)
      BY <2>2, <2>3, <2>5
    <3> QED
      BY <3>2, <3>3
  <2>7. /\ contents'[path] = Append(old, directive)
        /\ \A file \in Files : file # path => contents'[file] = contents[file]
    BY <2>1, <2>3, <2>4
  <2> HIDE DEF old
  <2>8. /\ Len(Append(old, directive)) = Len(old) + 1
        /\ \A i \in 1..Len(old) : Append(old, directive)[i] = old[i]
    BY <2>5
  <2>9. ASSUME NEW file \in Files
        PROVE  /\ Len(contents[file]) \in Nat /\ Len(contents[file]) <= Len(contents'[file])
               /\ \A i \in 1..Len(contents[file]) : contents'[file][i] = contents[file][i]
    <3>1. CASE file = path
      BY <2>5, <2>7, <2>8, <3>1 DEF old
    <3>2. CASE file # path
      <4>1. contents[file] \in Seq(Directive)
        BY <2>4
      <4>2. Len(contents[file]) \in Nat
        BY <4>1
      <4> QED
        BY <2>7, <3>2, <4>2
    <3> QED
      BY <3>1, <3>2
  <2>10. ASSUME NEW file \in Files, NEW i \in 1..Len(contents'[file]),
                contents'[file][i] = EndOfSource
         PROVE  i = Len(contents'[file])
    <3>1. CASE file = path
      <4>1. Len(contents'[file]) = Len(old) + 1
        BY <2>7, <2>8, <3>1
      <4>2. i \in 1..Len(old) => contents'[file][i] = old[i]
        BY <2>7, <2>8, <3>1
      <4>3. i \notin 1..Len(old)
        BY <2>6, <2>10, <4>2
      <4> QED
        BY <2>5, <4>1, <4>3
    <3>2. CASE file # path
      BY <2>7, <2>10, <3>2 DEF Positioned
    <3> QED
      BY <3>1, <3>2
  <2>11. ASSUME NEW k \in 1..Len(modules), NEW i \in 1..(modules[k].position - 1)
         PROVE  /\ i <= Len(contents'[modules[k].path])
                /\ contents'[modules[k].path][i] # EndOfSource
    <3>1. modules[k].path \in Files
      BY <1>2, ModuleFacts
    <3>2. /\ i <= Len(contents[modules[k].path]) /\ contents[modules[k].path][i] # EndOfSource
      BY DEF Positioned
    <3>3. Len(contents[modules[k].path]) \in Nat /\ Len(contents'[modules[k].path]) \in Nat
      BY <2>4, <3>1
    <3>4. i \in 1..Len(contents[modules[k].path]) /\ i \in Nat
      BY <3>2, <3>3, <1>2, ModuleFacts
    <3> QED
      BY <2>9, <3>1, <3>2, <3>3, <3>4
  <2>12. ASSUME NEW k \in 1..Waiting
         PROVE  /\ modules[k].position <= Len(contents'[modules[k].path])
                /\ contents'[modules[k].path][modules[k].position].keyword = "Require"
    <3>1. k \in 1..Len(modules) /\ Going
      BY <2>2, <2>3 DEF Waiting, Going
    <3>2. modules[k].path \in Files /\ modules[k].position \in Nat \ {0}
      BY <1>2, <3>1, ModuleFacts
    <3>3. /\ modules[k].position <= Len(contents[modules[k].path])
          /\ contents[modules[k].path][modules[k].position].keyword = "Require"
      BY <3>1 DEF Positioned
    <3>4. Len(contents[modules[k].path]) \in Nat /\ Len(contents'[modules[k].path]) \in Nat
      BY <2>4, <3>2, SMTT(30)
    <3>5. modules[k].position \in 1..Len(contents[modules[k].path])
      BY <3>2, <3>3, <3>4
    <3> QED
      BY <2>9, <3>2, <3>3, <3>4, <3>5, SMTT(30)
  <2>13. Waiting' = Waiting
    BY <2>2 DEF Waiting
  <2> QED
    BY <2>2, <2>10, <2>11, <2>12, <2>13 DEF Positioned
<1>8. CASE EndModule \/ StopModule
  <2>1. /\ modules # <<>> /\ modules' = SubSeq(modules, 1, Len(modules) - 1)
        /\ contents' = contents /\ control' = "return"
    BY <1>8 DEF EndModule, StopModule, ReadsDirective, TypeOK
  <2>2. /\ Len(modules') = Len(modules) - 1 /\ Len(modules) \in Nat \ {0}
        /\ \A k \in 1..(Len(modules) - 1) : modules'[k] = modules[k]
    BY <1>2, <2>1, StackSteps
  <2>3. \A k \in 1..Len(modules') : k \in 1..Len(modules) /\ modules'[k] = modules[k]
    BY <2>2
  <2>4. Going' => Going /\ Waiting' = Waiting
    <3>1. CASE EndModule
      BY <2>1, <2>2, <3>1 DEF EndModule, ReadsDirective, Going, Waiting
    <3>2. CASE StopModule
      BY <3>2 DEF StopModule, Going
    <3> QED
      BY <1>8, <3>1, <3>2
  <2>5. Going' => Waiting' = Len(modules) - 1
    BY <2>1, <2>2 DEF Waiting
  <2>6. ASSUME NEW file \in Files, NEW i \in 1..Len(contents'[file]),
               contents'[file][i] = EndOfSource
        PROVE  i = Len(contents'[file])
    BY <2>1, <2>6 DEF Positioned
  <2>7. ASSUME NEW k \in 1..Len(modules'), NEW i \in 1..(modules'[k].position - 1)
        PROVE  /\ i <= Len(contents'[modules'[k].path])
               /\ contents'[modules'[k].path][i] # EndOfSource
    <3>1. k \in 1..Len(modules) /\ modules'[k] = modules[k]
      BY <2>3
    <3>2. i \in 1..(modules[k].position - 1)
      BY <3>1
    <3>3. /\ i <= Len(contents[modules[k].path])
          /\ contents[modules[k].path][i] # EndOfSource
      BY <3>1, <3>2 DEF Positioned
    <3> QED
      BY <2>1, <3>1, <3>3
  <2>8. ASSUME Going', NEW k \in 1..Waiting'
        PROVE  /\ modules'[k].position <= Len(contents'[modules'[k].path])
               /\ contents'[modules'[k].path][modules'[k].position].keyword = "Require"
    <3>1. Going /\ k \in 1..Waiting /\ k \in 1..(Len(modules) - 1)
      BY <2>4, <2>5, <2>8
    <3>2. modules'[k] = modules[k]
      BY <2>2, <3>1
    <3>3. /\ modules[k].position <= Len(contents[modules[k].path])
          /\ contents[modules[k].path][modules[k].position].keyword = "Require"
      BY <3>1 DEF Positioned
    <3> QED
      BY <2>1, <3>2, <3>3
  <2> QED
    BY <2>6, <2>7, <2>8 DEF Positioned
<1>9. CASE SkipRequire \/ Declare \/ Commit
  <2>1. PICK keyword \in {"Require", "Identity", "Commit"} : ReadsDirective(keyword)
    BY <1>9 DEF SkipRequire, Declare, Commit
  <2>2. /\ modules' = Advanced /\ contents' = contents /\ control' = "module"
        /\ control = "module"
    BY <1>9, <2>1 DEF SkipRequire, Declare, Commit, ReadsDirective
  <2>3. /\ modules # <<>> /\ Current.position <= Len(contents[Current.path])
        /\ contents[Current.path][Current.position] # EndOfSource
    BY <2>1, AtDirective
  <2>4. Going /\ Waiting >= Len(modules) - 1
    BY <1>2, <2>2 DEF Going, Waiting
  <2> QED
    BY <2>2, <2>3, <2>4, PositionedAdvanced
<1>10. CASE ContinueRequester
  <2>1. /\ modules # <<>> /\ modules' = Advanced /\ contents' = contents /\ control' = "module"
        /\ control = "return" /\ status = "OK"
    BY <1>10 DEF ContinueRequester
  <2>2. Going /\ Waiting = Len(modules) /\ Len(modules) \in 1..Len(modules)
    BY <1>2, <2>1 DEF Going, Waiting
  <2>3. /\ Current.position <= Len(contents[Current.path])
        /\ contents[Current.path][Current.position].keyword = "Require"
    BY <2>2 DEF Positioned, Current
  <2>4. contents[Current.path][Current.position] # EndOfSource
    BY <2>3 DEF EndOfSource
  <2>5. Waiting >= Len(modules) - 1
    BY <1>2, <2>2
  <2> QED
    BY <2>1, <2>2, <2>3, <2>4, <2>5, PositionedAdvanced
<1>11. CASE FollowRequire
  <2>1. /\ ReadsDirective("Require") /\ control = "module" /\ control' = "enter"
        /\ UNCHANGED <<contents, modules>>
    BY <1>11 DEF FollowRequire, ReadsDirective
  <2>2. /\ Len(modules) \in Nat \ {0} /\ Current = modules[Len(modules)]
        /\ Current.position <= Len(contents[Current.path])
        /\ contents[Current.path][Current.position].keyword = "Require"
    BY <2>1, AtDirective
  <2>3. Going /\ Waiting = Len(modules) - 1 /\ Waiting' = Len(modules)
    BY <2>1 DEF Going, Waiting
  <2>4. \A k \in 1..Len(modules) : k \in 1..Waiting \/ k = Len(modules)
    BY <2>2, <2>3
  <2>5. \A k \in 1..Len(modules) :
           /\ modules[k].position <= Len(contents[modules[k].path])
           /\ contents[modules[k].path][modules[k].position].keyword = "Require"
    BY <2>2, <2>3, <2>4 DEF Positioned
  <2> QED
    BY <2>1, <2>3, <2>5 DEF Positioned
<1>12. CASE UNCHANGED vars
  BY <1>1, <1>12 DEF vars, Going, Waiting
<1> QED
  BY <1>3, <1>4, <1>5, <1>6, <1>7, <1>8, <1>9, <1>10, <1>11, <1>12 DEF Next, Proceed

\* The place that is met is passed, and the ones passed before stay so.
LEMMA SpentMore ==
    ASSUME TypeOK, TypeOK', Once, NEW D, Spent(D), NEW E, E = D \cup Met,
           Met \subseteq Places(contents), contents' = contents,
           \A path : IsLoaded(path) => IsLoaded(path)',
           \A k \in 1..Len(modules') :
              \/ ~IsLoaded(modules'[k].path)
              \/ /\ k \in 1..Len(modules)
                 /\ modules'[k].path = modules[k].path
                 /\ modules'[k].position >= modules[k].position
                 /\ (k = Len(modules') /\ control' \in {"enter", "module"}) =>
                       modules'[k].position > modules[k].position
    PROVE  Spent(E)'
<1>1. /\ modules \in Seq(Module) /\ Len(modules) \in Nat
      /\ \A k \in 1..Len(modules) :
            modules[k].path \in Files /\ modules[k].position \in Nat \ {0}
  BY ModuleFacts DEF TypeOK
<1>2. /\ modules' \in Seq(Module)
      /\ \A k \in 1..Len(modules') :
            modules'[k].path \in Files /\ modules'[k].position \in Nat \ {0}
  <2>1. modules' \in Seq(Module)
    BY DEF TypeOK
  <2>2. Len(modules') \in Nat /\ \A k \in 1..Len(modules') : modules'[k] \in Module
    BY <2>1
  <2>3. \A m \in Module : m.path \in Files /\ m.position \in Nat \ {0}
    BY DEF Module
  <2> QED
    BY <2>1, <2>2, <2>3
<1>3. E \subseteq Places(contents)'
  BY DEF Spent
<1>4. contents \in [Files -> Seq(Directive)]
  BY DEF TypeOK
<1>5. \A place \in Places(contents) : place[2] \in Nat
  <2>1. ASSUME NEW place \in Places(contents) PROVE place[2] \in Nat
    <3>1. place[1] \in Files /\ place[2] \in DOMAIN contents[place[1]]
      BY DEF Places
    <3>2. contents[place[1]] \in Seq(Directive)
      BY <1>4, <3>1
    <3> QED
      BY <3>1, <3>2
  <2> QED
    BY <2>1
<1>6. ASSUME NEW place \in D
      PROVE  /\ IsLoaded(place[1])
             /\ \A k \in 1..Len(modules) :
                   place[1] = modules[k].path => place[2] <= modules[k].position
  BY DEF Spent
<1>7. ASSUME NEW place \in Met
      PROVE  /\ IsLoaded(place[1])
             /\ \A k \in 1..Len(modules) :
                   place[1] = modules[k].path => place[2] <= modules[k].position
  <2>1. modules # <<>> /\ place[1] = Current.path /\ place[2] = Current.position
    BY DEF Met
  <2>2. Len(modules) \in 1..Len(modules) /\ Current = modules[Len(modules)]
    BY <1>1, <2>1 DEF Current
  <2>3. DOMAIN modules = 1..Len(modules)
    BY <1>1
  <2>4. \A k \in 1..Len(modules) : modules[k].path = Current.path => k = Len(modules)
    BY <2>2, <2>3 DEF Once, NothingRepeated, NoRepetition
  <2>5. IsLoaded(Current.path)
    BY <2>2, <2>3 DEF Once
  <2> QED
    BY <1>1, <2>1, <2>2, <2>4, <2>5
<1>8. ASSUME NEW place \in E
      PROVE  /\ IsLoaded(place[1])
             /\ \A k \in 1..Len(modules) :
                   place[1] = modules[k].path => place[2] <= modules[k].position
             /\ place[2] \in Nat
  BY <1>5, <1>6, <1>7 DEF Spent
<1>9. ASSUME NEW place \in E, NEW k \in 1..Len(modules'), place[1] = modules'[k].path
      PROVE  /\ place[2] <= modules'[k].position
             /\ (k = Len(modules') /\ control' \in {"enter", "module"}) =>
                   place[2] < modules'[k].position
  <2>1. IsLoaded(modules'[k].path)
    BY <1>8, <1>9
  <2>2. /\ k \in 1..Len(modules)
        /\ modules'[k].path = modules[k].path
        /\ modules'[k].position >= modules[k].position
        /\ (k = Len(modules') /\ control' \in {"enter", "module"}) =>
              modules'[k].position > modules[k].position
    BY <2>1
  <2>3. place[2] <= modules[k].position /\ place[2] \in Nat
    BY <1>8, <1>9, <2>2
  <2>4. modules[k].position \in Nat /\ modules'[k].position \in Nat
    BY <1>1, <1>2, <2>2
  <2> QED
    BY <2>2, <2>3, <2>4
<1> QED
  BY <1>3, <1>8, <1>9 DEF Spent

\* What was passed stays so in a step that passes nothing.
LEMMA SpentSame ==
    ASSUME TypeOK, TypeOK', NEW D, Spent(D),
           Places(contents) \subseteq Places(contents)', UNCHANGED loaded_module_paths,
           Len(modules') = Len(modules),
           \A k \in 1..Len(modules) :
              /\ modules'[k].path = modules[k].path
              /\ modules'[k].position >= modules[k].position
              /\ (k = Len(modules) /\ control' \in {"enter", "module"}) =>
                    \/ control \in {"enter", "module"}
                    \/ modules'[k].position > modules[k].position
    PROVE  Spent(D)'
<1>1. /\ Len(modules) \in Nat
      /\ \A k \in 1..Len(modules) : modules[k].position \in Nat
  BY ModuleFacts DEF TypeOK
<1>2. \A k \in 1..Len(modules) : modules'[k].position \in Nat
  <2>1. modules' \in Seq(Module)
    BY DEF TypeOK
  <2>2. \A k \in 1..Len(modules) : modules'[k] \in Module
    BY <2>1
  <2> QED
    BY <2>2 DEF Module
<1>3. contents \in [Files -> Seq(Directive)]
  BY DEF TypeOK
<1>4. \A place \in D : place[2] \in Nat
  <2>1. ASSUME NEW place \in D PROVE place[2] \in Nat
    <3>1. place[1] \in Files /\ place[2] \in DOMAIN contents[place[1]]
      BY DEF Places, Spent
    <3>2. contents[place[1]] \in Seq(Directive)
      BY <1>3, <3>1
    <3> QED
      BY <3>1, <3>2
  <2> QED
    BY <2>1
<1>5. D \subseteq Places(contents)' /\ \A place \in D : IsLoaded(place[1])'
  BY DEF Spent, IsLoaded
<1>6. ASSUME NEW place \in D, NEW k \in 1..Len(modules'), place[1] = modules'[k].path
      PROVE  /\ place[2] <= modules'[k].position
             /\ (k = Len(modules') /\ control' \in {"enter", "module"}) =>
                   place[2] < modules'[k].position
  <2>1. /\ k \in 1..Len(modules) /\ place[1] = modules[k].path
        /\ modules'[k].position >= modules[k].position
        /\ (k = Len(modules) /\ control' \in {"enter", "module"}) =>
              \/ control \in {"enter", "module"}
              \/ modules'[k].position > modules[k].position
    BY <1>6
  <2>2. /\ place[2] <= modules[k].position
        /\ (k = Len(modules) /\ control \in {"enter", "module"}) =>
              place[2] < modules[k].position
    BY <1>6, <2>1 DEF Spent
  <2>3. modules[k].position \in Nat /\ modules'[k].position \in Nat /\ place[2] \in Nat
    BY <1>1, <1>2, <1>4, <1>6, <2>1
  <2> QED
    BY <2>1, <2>2, <2>3
<1> QED
  BY <1>5, <1>6 DEF Spent

\* What is left of the texts of the modules that wait on is the same.
LEMMA RestsKept ==
    ASSUME NEW R, NEW texts, NEW count, Rests(R, texts, count),
           \A k \in 1..count : modules'[k] = modules[k]
    PROVE  Rests(R, texts, count)'
  BY DEF Rests

\* Texts that complete what was read, and what they leave of the program, when
\* a directive is read.
LEMMA Reading ==
    ASSUME TypeOK, NEW keyword, ReadsDirective(keyword), NEW texts, Completes(texts),
           NEW m, Corresponds(m, texts)
    PROVE  \E R, w, rest :
              /\ Rests(R, texts, Len(modules) - 1)
              /\ w.directive = ThisDirective /\ w.local = Local
              /\ rest = TextFrom(texts, Current.path, Current.position + 1)
                           \o R[Len(modules) - 1]
              /\ Fronted(m, w, rest, loaded_module_paths, bound, committed_names)
              /\ keyword = "EndOfSource" => rest = R[Len(modules) - 1]
<1>1. control = "module" /\ Waiting = Len(modules) - 1 /\ Len(modules) - 1 \in Nat
  <2>1. Len(modules) \in Nat \ {0}
    BY AtDirective
  <2> QED
    BY <2>1 DEF ReadsDirective, Waiting
<1>2. PICK R : /\ Rests(R, texts, Len(modules) - 1)
               /\ m = Program(TextFrom(texts, Current.path, Current.position)
                                 \o R[Len(modules) - 1],
                              loaded_module_paths, bound, committed_names)
  BY <1>1 DEF Corresponds
<1> DEFINE w == Written(<<DirectoryOf[Current.path]>>, ThisDirective)
           left == TextFrom(texts, Current.path, Current.position + 1)
           behind == R[Len(modules) - 1]
<1>3. /\ w \in Writings /\ left \in Seq(Writings)
      /\ TextFrom(texts, Current.path, Current.position) = <<w>> \o left
      /\ w.local = <<DirectoryOf[Current.path]>> /\ w.directive = ThisDirective
      /\ keyword = "EndOfSource" => left = <<>>
  BY InFront
<1>4. behind \in Seq(Writings)
  BY <1>1, <1>2 DEF Rests
<1>5. w.local = Local
  BY <1>3 DEF Local
<1> HIDE DEF w, left, behind
<1>6. left \o behind \in Seq(Writings) /\ (<<w>> \o left) \o behind = <<w>> \o (left \o behind)
  <2>1. <<w>> \in Seq(Writings)
    BY <1>3
  <2> QED
    BY <1>3, <1>4, <2>1, ConcatProperties, ConcatAssociative
<1>7. keyword = "EndOfSource" => left \o behind = behind
  BY <1>3, <1>4
<1>8. m = Program(<<w>> \o (left \o behind), loaded_module_paths, bound, committed_names)
  BY <1>2, <1>3, <1>6 DEF behind
<1>9. /\ Rests(R, texts, Len(modules) - 1)
      /\ w.directive = ThisDirective /\ w.local = Local
      /\ left \o behind = TextFrom(texts, Current.path, Current.position + 1)
                             \o R[Len(modules) - 1]
      /\ Fronted(m, w, left \o behind, loaded_module_paths, bound, committed_names)
      /\ keyword = "EndOfSource" => left \o behind = R[Len(modules) - 1]
  BY <1>2, <1>3, <1>5, <1>6, <1>7, <1>8 DEF left, behind, Fronted
<1> QED
  BY <1>9

\* A step of the session that is a step of rewriting.
LEMMA OneMore ==
    ASSUME TypeOK, Positioned, control \in {"enter", "module"},
           control = "module" => Current.position <= Len(contents[Current.path]),
           NEW n \in Nat, NEW D, Ahead(n, D), UNCHANGED <<contents, source_path>>,
           control' # "enter",
           \A E : E = D \cup Met => Spent(E)',
           \A texts : \A m :
              Completes(texts) /\ Corresponds(m, texts)
                 => Corresponds(Rewritten(texts, m), texts)'
    PROVE  \E k \in Nat : \E E : Ahead(k, E)'
<1>1. PICK k \in Nat : k = n + 1
  OBVIOUS
<1>2. PICK E : E = D \cup Met
  OBVIOUS
<1>3. Spent(E)' /\ k <= Cardinality(E) + 1
  BY <1>1, <1>2, Room
<1>4. ASSUME NEW texts, Completes(texts)
      PROVE  Corresponds(Rewriting(texts, source_path)[k], texts)'
  <2>1. PICK m : m = Rewriting(texts, source_path)[n]
    OBVIOUS
  <2>2. Corresponds(m, texts)
    BY <1>4, <2>1 DEF Ahead
  <2>3. PICK more : more = Rewritten(texts, m)
    OBVIOUS
  <2>4. Corresponds(more, texts)'
    BY <1>4, <2>2, <2>3
  <2>5. Rewriting(texts, source_path)[k] = more
    BY <1>1, <2>1, <2>3, RewritingIs
  <2>6. (Rewriting(texts, source_path)[k])' = more
    BY <2>5
  <2> QED
    BY <2>4, <2>6
<1>5. ASSUME NEW texts, Completes(texts)' PROVE Completes(texts)
  BY <1>5 DEF Completes
<1> QED
  BY <1>3, <1>4, <1>5 DEF Ahead

\* A failure of the session is the end of the text.
LEMMA EndsThere ==
    ASSUME TypeOK, Positioned, control \in {"enter", "module"},
           control = "module" => Current.position <= Len(contents[Current.path]),
           NEW n \in Nat, NEW D, Ahead(n, D),
           UNCHANGED <<contents, source_path, bound, committed_names>>,
           \A texts : \A m :
              Completes(texts) /\ Corresponds(m, texts)
                 => HasEnded(Rewritten(texts, m), bound, committed_names)
    PROVE  \E k \in Nat : Over(k)'
<1>1. PICK k \in Nat : k = n + 1
  OBVIOUS
<1>2. k <= Cardinality(Places(contents)) + 1
  BY <1>1, Room
<1>3. ASSUME NEW texts, Completes(texts)
      PROVE  HasEnded(Rewriting(texts, source_path)[k], bound, committed_names)
  <2>1. Corresponds(Rewriting(texts, source_path)[n], texts)
    BY <1>3 DEF Ahead
  <2>2. Rewriting(texts, source_path)[k] = Rewritten(texts, Rewriting(texts, source_path)[n])
    BY <1>1, RewritingIs
  <2> QED
    BY <1>3, <2>1, <2>2
<1>4. ASSUME NEW texts, Completes(texts)' PROVE Completes(texts)
  BY <1>4 DEF Completes
<1>5. Over(k)'
  BY <1>2, <1>3, <1>4 DEF Over
<1> QED
  BY <1>5

\* A module that is entered is a text that is put in front.
LEMMA EntersModule ==
    ASSUME TypeOK, TypeOK', Once, Positioned, EnterModule, NEW n \in Nat, NEW D, Ahead(n, D)
    PROVE  \E k \in Nat : \E E : Ahead(k, E)'
<1> USE DEF call_vars, program_vars
<1>1. /\ control = "enter" /\ control' = "module" /\ callee \in Files
      /\ UNCHANGED <<contents, source_path, bound, committed_names>>
      /\ loaded_module_paths' = Append(loaded_module_paths, callee)
      /\ modules' = Append(modules, [path |-> callee, position |-> 1])
      /\ ~IsLoaded(callee)
  BY DEF EnterModule, TypeOK, Once
<1>2. /\ modules \in Seq(Module) /\ Len(modules) \in Nat
      /\ Len(modules') = Len(modules) + 1
      /\ modules'[Len(modules) + 1] = [path |-> callee, position |-> 1]
      /\ \A k \in 1..Len(modules) : modules'[k] = modules[k]
  <2>1. modules \in Seq(Module) /\ [path |-> callee, position |-> 1] \in Module
    BY <1>1 DEF TypeOK, Module
  <2> QED
    BY <1>1, <2>1
<1>3. Waiting = Len(modules) /\ Waiting' = Len(modules)
  BY <1>1, <1>2 DEF Waiting
<1>4. Current'.path = callee /\ Current'.position = 1
  BY <1>2 DEF Current
<1>5. ASSUME NEW E, E = D \cup Met PROVE Spent(E)'
  <2>1. Met \subseteq Places(contents) /\ Spent(D)
    BY <1>1, Room DEF Ahead
  <2>2. ASSUME NEW path, IsLoaded(path) PROVE IsLoaded(path)'
    BY <1>1, <2>2, LoadedGrows DEF IsLoaded
  <2>3. ASSUME NEW k \in 1..Len(modules')
        PROVE  \/ ~IsLoaded(modules'[k].path)
               \/ /\ k \in 1..Len(modules)
                  /\ modules'[k].path = modules[k].path
                  /\ modules'[k].position >= modules[k].position
                  /\ (k = Len(modules') /\ control' \in {"enter", "module"}) =>
                        modules'[k].position > modules[k].position
    <3>1. CASE k = Len(modules) + 1
      BY <1>1, <1>2, <3>1
    <3>2. CASE k \in 1..Len(modules)
      <4>1. modules'[k] = modules[k] /\ k # Len(modules') /\ modules[k].position \in Nat
        BY <1>2, <3>2, ModuleFacts
      <4> QED
        BY <3>2, <4>1
    <3> QED
      BY <1>2, <3>1, <3>2
  <2>4. contents' = contents
    BY <1>1
  <2> QED
    BY <1>5, <2>1, <2>2, <2>3, <2>4, SpentMore
<1>6. ASSUME NEW texts, NEW m, Completes(texts), Corresponds(m, texts)
      PROVE  Corresponds(Rewritten(texts, m), texts)'
  <2>1. PICK R : /\ Rests(R, texts, Len(modules))
                 /\ \E w \in Writings :
                       /\ w.directive.keyword = "Require"
                       /\ Located(w.local, w.directive.specification) = {callee}
                       /\ m = Program(<<w>> \o R[Len(modules)],
                                      loaded_module_paths, bound, committed_names)
    BY <1>1, <1>3, <1>6 DEF Corresponds
  <2>2. PICK w \in Writings :
           /\ w.directive.keyword = "Require"
           /\ Located(w.local, w.directive.specification) = {callee}
           /\ m = Program(<<w>> \o R[Len(modules)],
                          loaded_module_paths, bound, committed_names)
    BY <2>1
  <2>3. PICK rest \in Seq(Writings) : rest = R[Len(modules)]
    BY <1>2, <2>1 DEF Rests
  <2>4. ~Occurs(callee, loaded_module_paths) /\ Includable(callee, loaded_module_paths)
    <3>1. Len(loaded_module_paths) \in Nat
      BY DEF TypeOK
    <3> QED
      BY <1>1, <3>1, ModuleAssumption
         DEF Occurs, IsLoaded, Includable, EnterModule, TrackingIsFull, CanMap
  <2>5. PICK more : more = Rewritten(texts, m)
    OBVIOUS
  <2>6. more = Program(TextFrom(texts, callee, 1) \o rest,
                       Append(loaded_module_paths, callee), bound, committed_names)
    <3>1. Fronted(m, w, rest, loaded_module_paths, bound, committed_names)
      BY <2>2, <2>3 DEF Fronted
    <3>2. Effect(texts, w, rest, loaded_module_paths, bound, committed_names, more)
      BY <2>5, <3>1, Effects
    <3> QED
      BY <2>2, <2>4, <3>2 DEF Effect
  <2>7. Rests(R, texts, Waiting)' /\ R[Waiting'] = rest
    <3>1. PICK count : count = Len(modules)
      OBVIOUS
    <3>2. Rests(R, texts, count)'
      BY <1>2, <2>1, <3>1, RestsKept
    <3>3. count = Waiting'
      BY <1>3, <3>1
    <3> QED
      BY <2>3, <3>1, <3>2, <3>3 DEF Rests
  <2>8. more = Program(TextFrom(texts, Current'.path, Current'.position) \o R[Waiting'],
                       loaded_module_paths', bound', committed_names')
    BY <1>1, <1>4, <2>6, <2>7
  <2>9. Corresponds(more, texts)'
    BY <1>1, <2>7, <2>8 DEF Corresponds
  <2> QED
    BY <2>5, <2>9
<1> QED
  BY <1>1, <1>5, <1>6, OneMore

\* The directive of a program that is in front, when it is passed.
PassedBy(w, files, names, values) ==
    \A texts, rest, after :
       Effect(texts, w, rest, loaded_module_paths, bound, committed_names, after)
          => after = Program(rest, files, names, values)

\* A directive that is passed goes away.
LEMMA PassesDirective ==
    ASSUME TypeOK, TypeOK', Once, Positioned, NEW n \in Nat, NEW D, Ahead(n, D),
           NEW keyword, ReadsDirective(keyword),
           modules' = Advanced, control' = "module",
           UNCHANGED <<contents, source_path, loaded_module_paths>>,
           \A w : w.directive = ThisDirective /\ w.local = Local =>
                     PassedBy(w, loaded_module_paths', bound', committed_names')
    PROVE  \E k \in Nat : \E E : Ahead(k, E)'
<1>1. /\ modules \in Seq(Module) /\ modules # <<>> /\ Len(modules) \in Nat \ {0}
      /\ Current = modules[Len(modules)]
      /\ Current.path \in Files /\ Current.position \in Nat \ {0}
      /\ Current.position <= Len(contents[Current.path])
      /\ control = "module"
  BY AtDirective DEF ReadsDirective
<1>2. /\ modules' \in Seq(Module) /\ Len(modules') = Len(modules)
      /\ Current'.path = Current.path /\ Current'.position = Current.position + 1
      /\ \A k \in 1..(Len(modules) - 1) : modules'[k] = modules[k]
  BY <1>1, Advances
<1>3. Waiting = Len(modules) - 1 /\ Waiting' = Len(modules) - 1 /\ Len(modules) - 1 \in Nat
  BY <1>1, <1>2 DEF Waiting
<1>4. ASSUME NEW E, E = D \cup Met PROVE Spent(E)'
  <2>1. Met \subseteq Places(contents) /\ Spent(D)
    BY <1>1, Room DEF Ahead
  <2>2. ASSUME NEW path, IsLoaded(path) PROVE IsLoaded(path)'
    BY <2>2 DEF IsLoaded
  <2>3. ASSUME NEW k \in 1..Len(modules')
        PROVE  /\ k \in 1..Len(modules)
               /\ modules'[k].path = modules[k].path
               /\ modules'[k].position >= modules[k].position
               /\ (k = Len(modules') /\ control' \in {"enter", "module"}) =>
                     modules'[k].position > modules[k].position
    <3>1. CASE k = Len(modules)
      <4>1. modules'[k] = Current' /\ modules[k] = Current
        BY <1>1, <1>2, <3>1 DEF Current
      <4> QED
        BY <1>1, <1>2, <3>1, <4>1
    <3>2. CASE k \in 1..(Len(modules) - 1)
      <4>1. modules'[k] = modules[k] /\ k # Len(modules') /\ k \in 1..Len(modules)
        BY <1>1, <1>2, <3>2
      <4>2. modules[k].position \in Nat
        BY <1>1, <4>1, ModuleFacts
      <4> QED
        BY <4>1, <4>2
    <3> QED
      BY <1>1, <1>2, <3>1, <3>2
  <2> QED
    BY <1>4, <2>1, <2>2, <2>3, SpentMore
<1>5. ASSUME NEW texts, NEW m, Completes(texts), Corresponds(m, texts)
      PROVE  Corresponds(Rewritten(texts, m), texts)'
  <2>1. PICK R, w, rest :
           /\ Rests(R, texts, Len(modules) - 1)
           /\ w.directive = ThisDirective /\ w.local = Local
           /\ rest = TextFrom(texts, Current.path, Current.position + 1)
                        \o R[Len(modules) - 1]
           /\ Fronted(m, w, rest, loaded_module_paths, bound, committed_names)
    BY <1>5, Reading
  <2>2. PICK more : more = Rewritten(texts, m)
    OBVIOUS
  <2>3. Effect(texts, w, rest, loaded_module_paths, bound, committed_names, more)
    BY <2>1, <2>2, Effects
  <2>4. PassedBy(w, loaded_module_paths', bound', committed_names')
    BY <2>1
  <2>5. more = Program(rest, loaded_module_paths', bound', committed_names')
    BY <2>3, <2>4 DEF PassedBy
  <2>6. Rests(R, texts, Waiting)' /\ Waiting' = Len(modules) - 1
    <3>1. PICK count : count = Len(modules) - 1
      OBVIOUS
    <3>2. Rests(R, texts, count)'
      BY <1>2, <2>1, <3>1, RestsKept
    <3>3. count = Waiting'
      BY <1>3, <3>1
    <3> QED
      BY <3>1, <3>2, <3>3 DEF Rests
  <2>7. more = Program(TextFrom(texts, Current'.path, Current'.position) \o R[Waiting'],
                       loaded_module_paths', bound', committed_names')
    BY <1>2, <2>1, <2>5, <2>6
  <2>8. Corresponds(more, texts)'
    BY <2>6, <2>7 DEF Corresponds
  <2> QED
    BY <2>2, <2>8
<1> QED
  BY <1>1, <1>4, <1>5, OneMore

\* So does the end of a text, and the module with it.
LEMMA EndsModule ==
    ASSUME TypeOK, TypeOK', Once, Positioned, EndModule, NEW n \in Nat, NEW D, Ahead(n, D)
    PROVE  \E k \in Nat : \E E : Ahead(k, E)'
<1> USE DEF call_vars, program_vars, loader_vars
<1>1. /\ ReadsDirective("EndOfSource") /\ control = "module" /\ control' = "return"
      /\ UNCHANGED <<contents, source_path, loaded_module_paths, bound, committed_names>>
      /\ modules' = SubSeq(modules, 1, Len(modules) - 1)
  BY DEF EndModule, ReadsDirective
<1>2. /\ modules \in Seq(Module) /\ modules # <<>> /\ Len(modules) \in Nat \ {0}
      /\ Current.position <= Len(contents[Current.path])
      /\ ThisDirective.keyword = "EndOfSource"
  BY <1>1, AtDirective
<1>3. /\ Len(modules') = Len(modules) - 1
      /\ \A k \in 1..(Len(modules) - 1) : modules'[k] = modules[k]
  BY <1>1, <1>2, StackSteps
<1>4. Waiting = Len(modules) - 1 /\ Waiting' = Len(modules) - 1 /\ Len(modules) - 1 \in Nat
  BY <1>1, <1>2, <1>3 DEF Waiting
<1>5. ASSUME NEW E, E = D \cup Met PROVE Spent(E)'
  <2>1. Met \subseteq Places(contents) /\ Spent(D)
    BY <1>1, <1>2, Room DEF Ahead
  <2>2. ASSUME NEW path, IsLoaded(path) PROVE IsLoaded(path)'
    BY <1>1, <2>2 DEF IsLoaded
  <2>3. ASSUME NEW k \in 1..Len(modules')
        PROVE  /\ k \in 1..Len(modules)
               /\ modules'[k].path = modules[k].path
               /\ modules'[k].position >= modules[k].position
               /\ control' \notin {"enter", "module"}
    <3>1. modules'[k] = modules[k] /\ k \in 1..Len(modules)
      BY <1>2, <1>3
    <3>2. modules[k].position \in Nat
      BY <1>2, <3>1, ModuleFacts
    <3> QED
      BY <1>1, <3>1, <3>2
  <2>4. contents' = contents
    BY <1>1
  <2> QED
    BY <1>5, <2>1, <2>2, <2>3, <2>4, SpentMore
<1>6. ASSUME NEW texts, NEW m, Completes(texts), Corresponds(m, texts)
      PROVE  Corresponds(Rewritten(texts, m), texts)'
  <2>1. PICK R, w, rest :
           /\ Rests(R, texts, Len(modules) - 1)
           /\ w.directive = ThisDirective
           /\ Fronted(m, w, rest, loaded_module_paths, bound, committed_names)
           /\ rest = R[Len(modules) - 1]
    <3>1. \E R, w, rest :
             /\ Rests(R, texts, Len(modules) - 1)
             /\ w.directive = ThisDirective /\ w.local = Local
             /\ rest = TextFrom(texts, Current.path, Current.position + 1)
                          \o R[Len(modules) - 1]
             /\ Fronted(m, w, rest, loaded_module_paths, bound, committed_names)
             /\ "EndOfSource" = "EndOfSource" => rest = R[Len(modules) - 1]
      BY <1>1, <1>6, Reading
    <3> QED
      BY <3>1
  <2>2. PICK more : more = Rewritten(texts, m)
    OBVIOUS
  <2>3. Effect(texts, w, rest, loaded_module_paths, bound, committed_names, more)
    BY <2>1, <2>2, Effects
  <2>4. more = Program(rest, loaded_module_paths, bound, committed_names)
    BY <1>2, <2>1, <2>3 DEF Effect
  <2>5. Rests(R, texts, Waiting)' /\ Waiting' = Len(modules) - 1
    <3>1. PICK count : count = Len(modules) - 1
      OBVIOUS
    <3>2. Rests(R, texts, count)'
      BY <1>3, <2>1, <3>1, RestsKept
    <3>3. count = Waiting'
      BY <1>4, <3>1
    <3> QED
      BY <3>1, <3>2, <3>3 DEF Rests
  <2>6. more = Program(R[Waiting'], loaded_module_paths', bound', committed_names')
    BY <1>1, <2>1, <2>4, <2>5
  <2>7. Corresponds(more, texts)'
    BY <1>1, <2>5, <2>6 DEF Corresponds
  <2> QED
    BY <2>2, <2>7
<1>7. control' # "enter"
  BY <1>1
<1> QED
  BY <1>1, <1>2, <1>5, <1>6, <1>7, OneMore

\* A Require of a module that was loaded, a declaration and a commit are passed.
LEMMA PassesOn ==
    ASSUME TypeOK, TypeOK', Once, Positioned, SkipRequire \/ Declare \/ Commit,
           NEW n \in Nat, NEW D, Ahead(n, D)
    PROVE  \E k \in Nat : \E E : Ahead(k, E)'
<1> USE DEF call_vars, program_vars, loader_vars, BeginsDirective
<1>1. CASE SkipRequire
  <2>1. /\ ReadsDirective("Require") /\ modules' = Advanced /\ control' = "module"
        /\ UNCHANGED <<contents, source_path, loaded_module_paths, bound, committed_names>>
        /\ Locatable /\ IsLoaded(Required)
    BY <1>1 DEF SkipRequire, ReadsDirective
  <2>2. Local \in Locals /\ ThisDirective.keyword = "Require"
    BY <2>1, AtDirective, ModuleAssumption DEF Local, Locals
  <2>3. Located(Local, ThisDirective.specification) = {Required}
    BY <2>1, <2>2, LocatedIs DEF Locatable, Required
  <2>4. Occurs(Required, loaded_module_paths)
    BY <2>1 DEF Occurs, IsLoaded
  <2>5. ASSUME NEW w, w.directive = ThisDirective, w.local = Local
        PROVE  PassedBy(w, loaded_module_paths', bound', committed_names')
    BY <2>1, <2>2, <2>3, <2>4, <2>5 DEF PassedBy, Effect
  <2> QED
    BY <2>1, <2>5, PassesDirective
<1>2. CASE Declare
  <2>1. /\ ReadsDirective("Identity") /\ modules' = Advanced /\ control' = "module"
        /\ UNCHANGED <<contents, source_path, loaded_module_paths, committed_names>>
        /\ ThisDirective.name \notin bound /\ bound' = bound \cup {ThisDirective.name}
        /\ ThisDirective.keyword = "Identity"
    BY <1>2 DEF Declare, ReadsDirective
  <2>2. ASSUME NEW w, w.directive = ThisDirective, w.local = Local
        PROVE  PassedBy(w, loaded_module_paths', bound', committed_names')
    BY <2>1, <2>2 DEF PassedBy, Effect
  <2> QED
    BY <2>1, <2>2, PassesDirective
<1>3. CASE Commit
  <2>1. /\ ReadsDirective("Commit") /\ modules' = Advanced /\ control' = "module"
        /\ UNCHANGED <<contents, source_path, loaded_module_paths, bound>>
        /\ ThisDirective.name \in bound
        /\ committed_names' = Append(committed_names, ThisDirective.name)
        /\ ThisDirective.keyword = "Commit"
    BY <1>3 DEF Commit, ReadsDirective
  <2>2. ASSUME NEW w, w.directive = ThisDirective, w.local = Local
        PROVE  PassedBy(w, loaded_module_paths', bound', committed_names')
    BY <2>1, <2>2 DEF PassedBy, Effect
  <2> QED
    BY <2>1, <2>2, PassesDirective
<1> QED
  BY <1>1, <1>2, <1>3

\* A directive that fails is the end of the text.
LEMMA Fails ==
    ASSUME TypeOK, Once, Positioned,
           RefuseTracking \/ RefuseMapping \/ RefuseText \/ RefuseRequire \/ RefuseDeclaration,
           NEW n \in Nat, NEW D, Ahead(n, D)
    PROVE  \E k \in Nat : Over(k)'
<1> USE DEF call_vars, program_vars, loader_vars, BeginsDirective
<1>1. UNCHANGED <<contents, source_path, bound, committed_names>>
  BY DEF RefuseTracking, RefuseMapping, RefuseText, RefuseRequire, RefuseDeclaration
<1>2. CASE RefuseTracking \/ RefuseMapping
  <2>1. control = "enter" /\ ~IsLoaded(callee)
    BY <1>2 DEF RefuseTracking, RefuseMapping, Once
  <2>2. ~Occurs(callee, loaded_module_paths) /\ ~Includable(callee, loaded_module_paths)
    <3>1. /\ Len(loaded_module_paths) \in Nat /\ Len(mappings) \in Nat
          /\ Len(mappings) <= Len(loaded_module_paths)
      BY DEF TypeOK
    <3> QED
      BY <1>2, <2>1, <3>1, ModuleAssumption
         DEF Occurs, IsLoaded, Includable, RefuseTracking, RefuseMapping, TrackingIsFull, CanMap
  <2>3. ASSUME NEW texts, NEW m, Completes(texts), Corresponds(m, texts)
        PROVE  HasEnded(Rewritten(texts, m), bound, committed_names)
    <3>1. Waiting = Len(modules) /\ Waiting \in Nat
      BY <2>1 DEF Waiting, TypeOK
    <3>2. PICK R : /\ Rests(R, texts, Waiting)
                   /\ \E w \in Writings :
                         /\ w.directive.keyword = "Require"
                         /\ Located(w.local, w.directive.specification) = {callee}
                         /\ m = Program(<<w>> \o R[Waiting],
                                        loaded_module_paths, bound, committed_names)
      BY <2>1, <2>3 DEF Corresponds
    <3>3. PICK w \in Writings :
             /\ w.directive.keyword = "Require"
             /\ Located(w.local, w.directive.specification) = {callee}
             /\ m = Program(<<w>> \o R[Waiting], loaded_module_paths, bound, committed_names)
      BY <3>2
    <3>4. PICK rest \in Seq(Writings) : rest = R[Waiting]
      BY <3>1, <3>2 DEF Rests
    <3>5. Fronted(m, w, rest, loaded_module_paths, bound, committed_names)
      BY <3>3, <3>4 DEF Fronted
    <3>6. Effect(texts, w, rest, loaded_module_paths, bound, committed_names,
                 Rewritten(texts, m))
      BY <3>5, Effects
    <3> QED
      BY <2>2, <3>3, <3>6 DEF Effect
  <2>4. control \in {"enter", "module"} /\ control # "module"
    BY <2>1
  <2> QED
    BY <1>1, <2>3, <2>4, EndsThere
<1>3. CASE RefuseText \/ RefuseRequire \/ RefuseDeclaration
  <2>1. PICK keyword \in {"Unknown", "Require", "Identity", "Commit"} : ReadsDirective(keyword)
    BY <1>3 DEF RefuseText, RefuseRequire, RefuseDeclaration
  <2>2. /\ Current.position <= Len(contents[Current.path]) /\ control = "module"
        /\ Local \in Locals
    BY <2>1, AtDirective, ModuleAssumption DEF ReadsDirective, Local, Locals
  <2>3. \/ ThisDirective.keyword = "Unknown"
        \/ ThisDirective.keyword = "Identity" /\ ThisDirective.name \in bound
        \/ ThisDirective.keyword = "Commit" /\ ThisDirective.name \notin bound
        \/ /\ ThisDirective.keyword = "Require"
           /\ Located(Local, ThisDirective.specification) = {}
    <3>1. CASE RefuseText
      BY <3>1 DEF RefuseText, ReadsDirective
    <3>2. CASE RefuseDeclaration
      BY <3>2 DEF RefuseDeclaration, ReadsDirective
    <3>3. CASE RefuseRequire
      <4>1. ThisDirective.keyword = "Require" /\ ~Locatable
        BY <3>3 DEF RefuseRequire, ReadsDirective
      <4>2. Located(Local, ThisDirective.specification) = {}
        BY <2>2, <4>1, LocatedIs DEF Locatable
      <4> QED
        BY <4>1, <4>2
    <3> QED
      BY <1>3, <3>1, <3>2, <3>3
  <2>4. ASSUME NEW texts, NEW m, Completes(texts), Corresponds(m, texts)
        PROVE  HasEnded(Rewritten(texts, m), bound, committed_names)
    <3>1. PICK R, w, rest :
             /\ w.directive = ThisDirective /\ w.local = Local
             /\ Fronted(m, w, rest, loaded_module_paths, bound, committed_names)
      BY <2>1, <2>4, Reading
    <3>2. Effect(texts, w, rest, loaded_module_paths, bound, committed_names,
                 Rewritten(texts, m))
      BY <3>1, Effects
    <3> QED
      BY <2>3, <3>1, <3>2 DEF Effect
  <2> QED
    BY <1>1, <2>2, <2>4, EndsThere
<1> QED
  BY <1>2, <1>3

\* A Require that is followed leaves the program as it is, and so do the return
\* to the module that waits for it and the reading of a text.
LEMMA FollowsRequire ==
    ASSUME TypeOK, TypeOK', FollowRequire, NEW n \in Nat, NEW D, Ahead(n, D)
    PROVE  Ahead(n, D)'
<1> USE DEF call_vars, program_vars, loader_vars, BeginsDirective
<1>1. /\ ReadsDirective("Require") /\ control = "module" /\ control' = "enter"
      /\ UNCHANGED <<contents, source_path, loaded_module_paths, bound, committed_names, modules>>
      /\ Locatable /\ callee' = Required
  BY DEF FollowRequire, ReadsDirective
<1>2. /\ Len(modules) \in Nat \ {0} /\ modules # <<>>
      /\ Current = modules[Len(modules)] /\ ThisDirective.keyword = "Require"
  BY <1>1, AtDirective
<1>3. Waiting' = Len(modules) /\ Len(modules) - 1 \in Nat
  BY <1>1, <1>2 DEF Waiting
<1>4. Local \in Locals
  BY <1>1, AtDirective, ModuleAssumption DEF Local, Locals
<1>5. Located(Local, ThisDirective.specification) = {callee'}
  BY <1>1, <1>2, <1>4, LocatedIs DEF Locatable, Required
<1>6. Spent(D)'
  <2>1. Spent(D) /\ Places(contents) \subseteq Places(contents)'
    BY <1>1 DEF Ahead
  <2>2. ASSUME NEW k \in 1..Len(modules)
        PROVE  /\ modules'[k].path = modules[k].path
               /\ modules'[k].position >= modules[k].position
               /\ control \in {"enter", "module"}
    <3>1. modules[k].position \in Nat
      BY ModuleFacts DEF TypeOK
    <3> QED
      BY <1>1, <3>1
  <2>3. UNCHANGED loaded_module_paths /\ Len(modules') = Len(modules)
    BY <1>1
  <2> QED
    BY <2>1, <2>2, <2>3, SpentSame
<1>7. ASSUME NEW texts, NEW m, Completes(texts), Corresponds(m, texts)
      PROVE  Corresponds(m, texts)'
  <2>1. PICK R, w, rest :
           /\ Rests(R, texts, Len(modules) - 1)
           /\ w.directive = ThisDirective /\ w.local = Local
           /\ rest = TextFrom(texts, Current.path, Current.position + 1)
                        \o R[Len(modules) - 1]
           /\ Fronted(m, w, rest, loaded_module_paths, bound, committed_names)
    BY <1>1, <1>7, Reading
  <2>2. PICK count \in Nat : count = Len(modules)
    BY <1>2
  <2> DEFINE S == [k \in 0..count |-> IF k = count THEN rest ELSE R[k]]
  <2>3. S[count] = rest /\ count # 0 /\ \A k \in 0..(count - 1) : S[k] = R[k]
    BY <1>2, <2>2
  <2>4. PICK T : /\ T[count] = rest /\ \A k \in 0..(count - 1) : T[k] = R[k]
    BY <2>3
  <2>5. /\ R[0] = <<>> /\ \A k \in 0..(count - 1) : R[k] \in Seq(Writings)
        /\ \A k \in 1..(count - 1) :
              R[k] = TextFrom(texts, modules[k].path, modules[k].position + 1) \o R[k - 1]
    BY <2>1, <2>2 DEF Rests
  <2>6. rest \in Seq(Writings) /\ w \in Writings
    BY <2>1 DEF Fronted
  <2>7. T[0] = <<>>
    BY <1>2, <2>2, <2>4, <2>5
  <2>8. ASSUME NEW k \in 0..count PROVE T[k] \in Seq(Writings)
    <3>1. k = count \/ k \in 0..(count - 1)
      OBVIOUS
    <3> QED
      BY <2>4, <2>5, <2>6, <3>1
  <2>9. ASSUME NEW k \in 1..count
        PROVE  T[k] = TextFrom(texts, modules[k].path, modules[k].position + 1) \o T[k - 1]
    <3>1. k - 1 \in 0..(count - 1) /\ T[k - 1] = R[k - 1]
      BY <2>4
    <3>2. CASE k = count
      BY <1>2, <2>1, <2>2, <2>4, <3>1, <3>2
    <3>3. CASE k # count
      <4>1. k \in 1..(count - 1) /\ k \in 0..(count - 1)
        BY <3>3
      <4> QED
        BY <2>4, <2>5, <3>1, <4>1
    <3> QED
      BY <3>2, <3>3
  <2>10. Rests(T, texts, count)
    BY <2>7, <2>8, <2>9 DEF Rests
  <2>11. Rests(T, texts, Waiting)' /\ Waiting' = count
    <3>1. Rests(T, texts, count)'
      BY <1>1, <2>10, RestsKept
    <3>2. count = Waiting'
      BY <1>3, <2>2
    <3> QED
      BY <3>1, <3>2 DEF Rests
  <2>12. m = Program(<<w>> \o T[Waiting'], loaded_module_paths', bound', committed_names')
    BY <1>1, <2>1, <2>4, <2>11 DEF Fronted
  <2>13. /\ w.directive.keyword = "Require"
         /\ Located(w.local, w.directive.specification) = {callee'}
    BY <1>2, <1>5, <2>1
  <2> QED
    BY <1>1, <2>6, <2>11, <2>12, <2>13 DEF Corresponds
<1>8. ASSUME NEW texts, Completes(texts)
      PROVE  Corresponds(Rewriting(texts, source_path)[n], texts)'
  <2>1. PICK m : m = Rewriting(texts, source_path)[n]
    OBVIOUS
  <2>2. Corresponds(m, texts)'
    BY <1>7, <1>8, <2>1 DEF Ahead
  <2>3. (Rewriting(texts, source_path)[n])' = m
    BY <1>1, <2>1
  <2> QED
    BY <2>2, <2>3
<1>9. ASSUME NEW texts, Completes(texts)' PROVE Completes(texts)
  BY <1>1, <1>9 DEF Completes
<1>10. n <= Cardinality(D) + 1
  BY DEF Ahead
<1> QED
  BY <1>1, <1>2, <1>6, <1>8, <1>9, <1>10 DEF Ahead

LEMMA ContinuesRequester ==
    ASSUME TypeOK, TypeOK', Positioned, ContinueRequester, NEW n \in Nat, NEW D, Ahead(n, D)
    PROVE  Ahead(n, D)'
<1> USE DEF call_vars, program_vars, loader_vars
<1>1. /\ control = "return" /\ control' = "module" /\ modules # <<>> /\ modules' = Advanced
      /\ UNCHANGED <<contents, source_path, loaded_module_paths, bound, committed_names>>
  BY DEF ContinueRequester
<1>2. /\ modules \in Seq(Module) /\ Len(modules) \in Nat \ {0}
      /\ modules' \in Seq(Module) /\ Len(modules') = Len(modules)
      /\ Current = modules[Len(modules)] /\ Current' = modules'[Len(modules)]
      /\ Current'.path = Current.path /\ Current'.position = Current.position + 1
      /\ \A k \in 1..(Len(modules) - 1) : modules'[k] = modules[k]
  <2>1. modules \in Seq(Module)
    BY DEF TypeOK
  <2> QED
    BY <1>1, <2>1, Advances DEF Current
<1>3. Waiting = Len(modules) /\ Waiting' = Len(modules) - 1 /\ Len(modules) - 1 \in Nat
  BY <1>1, <1>2 DEF Waiting
<1>4. Spent(D)'
  <2>1. Spent(D) /\ Places(contents) \subseteq Places(contents)'
    BY <1>1 DEF Ahead
  <2>2. ASSUME NEW k \in 1..Len(modules)
        PROVE  /\ modules'[k].path = modules[k].path
               /\ modules'[k].position >= modules[k].position
               /\ k = Len(modules) => modules'[k].position > modules[k].position
    <3>1. modules[k].position \in Nat
      BY <1>2, ModuleFacts
    <3>2. CASE k = Len(modules)
      BY <1>2, <3>1, <3>2
    <3>3. CASE k # Len(modules)
      BY <1>2, <3>1, <3>3
    <3> QED
      BY <3>2, <3>3
  <2>3. UNCHANGED loaded_module_paths /\ Len(modules') = Len(modules)
    BY <1>1, <1>2
  <2> QED
    BY <2>1, <2>2, <2>3, SpentSame
<1>5. ASSUME NEW texts, NEW m, Completes(texts), Corresponds(m, texts)
      PROVE  Corresponds(m, texts)'
  <2>1. PICK R : /\ Rests(R, texts, Len(modules))
                 /\ m = Program(R[Len(modules)], loaded_module_paths, bound, committed_names)
    BY <1>1, <1>3, <1>5 DEF Corresponds
  <2>2. PICK count \in Nat : count + 1 = Len(modules)
    BY <1>3
  <2>3. Rests(R, texts, count)
    <3>1. \A k \in 0..count : k \in 0..Len(modules)
      BY <1>2, <2>2
    <3>2. \A k \in 1..count : k \in 1..Len(modules)
      BY <1>2, <2>2
    <3> QED
      BY <2>1, <3>1, <3>2 DEF Rests
  <2>4. R[Len(modules)] = TextFrom(texts, Current.path, Current.position + 1) \o R[count]
    <3>1. Len(modules) \in 1..Len(modules) /\ Len(modules) - 1 = count
      BY <1>2, <2>2
    <3> QED
      BY <1>2, <2>1, <3>1 DEF Rests
  <2>5. Rests(R, texts, Waiting)' /\ Waiting' = count
    <3>1. \A k \in 1..count : modules'[k] = modules[k]
      BY <1>2, <2>2
    <3>2. Rests(R, texts, count)'
      BY <2>3, <3>1, RestsKept
    <3>3. count = Waiting'
      BY <1>2, <1>3, <2>2
    <3> QED
      BY <3>2, <3>3 DEF Rests
  <2>6. m = Program(TextFrom(texts, Current'.path, Current'.position) \o R[Waiting'],
                    loaded_module_paths', bound', committed_names')
    BY <1>1, <1>2, <2>1, <2>4, <2>5
  <2> QED
    BY <1>1, <2>5, <2>6 DEF Corresponds
<1>6. ASSUME NEW texts, Completes(texts)
      PROVE  Corresponds(Rewriting(texts, source_path)[n], texts)'
  <2>1. PICK m : m = Rewriting(texts, source_path)[n]
    OBVIOUS
  <2>2. Corresponds(m, texts)'
    BY <1>5, <1>6, <2>1 DEF Ahead
  <2>3. (Rewriting(texts, source_path)[n])' = m
    BY <1>1, <2>1
  <2> QED
    BY <2>2, <2>3
<1>7. ASSUME NEW texts, Completes(texts)' PROVE Completes(texts)
  BY <1>1, <1>7 DEF Completes
<1>8. n <= Cardinality(D) + 1 /\ control' # "enter"
  BY <1>1 DEF Ahead
<1> QED
  BY <1>4, <1>6, <1>7, <1>8 DEF Ahead

LEMMA ReadsText ==
    ASSUME TypeOK, TypeOK', Positioned, ReadText, NEW n \in Nat, NEW D, Ahead(n, D)
    PROVE  Ahead(n, D)'
<1> USE DEF call_vars, program_vars, loader_vars
<1>1. /\ control = "module" /\ control' = "module"
      /\ UNCHANGED <<source_path, loaded_module_paths, bound, committed_names, modules>>
      /\ \E directive : contents' = [contents EXCEPT ![Current.path] = Append(@, directive)]
  BY DEF ReadText
<1>2. contents \in [Files -> Seq(Directive)] /\ contents' \in [Files -> Seq(Directive)]
  BY DEF TypeOK
<1>3. ASSUME NEW file \in Files
      PROVE  /\ Len(contents[file]) \in Nat /\ Len(contents'[file]) \in Nat
             /\ Len(contents[file]) <= Len(contents'[file])
             /\ \A i \in 1..Len(contents[file]) : contents'[file][i] = contents[file][i]
  <2>1. /\ contents[file] \in Seq(Directive) /\ contents'[file] \in Seq(Directive)
        /\ Len(contents[file]) \in Nat /\ Len(contents'[file]) \in Nat
    BY <1>2
  <2>2. PICK directive : contents' = [contents EXCEPT ![Current.path] = Append(@, directive)]
    BY <1>1
  <2>3. contents'[file] = contents[file] \/ contents'[file] = Append(contents[file], directive)
    BY <1>2, <2>2
  <2> QED
    BY <2>1, <2>3
<1>4. Places(contents) \subseteq Places(contents)'
  <2>1. ASSUME NEW place \in Places(contents) PROVE place \in Places(contents')
    <3>1. PICK file, i : place = <<file, i>> /\ file \in Files /\ i \in DOMAIN contents[file]
      BY DEF Places
    <3>2. i \in 1..Len(contents[file]) /\ contents[file] \in Seq(Directive)
      BY <1>2, <3>1
    <3>3. i \in 1..Len(contents'[file]) /\ contents'[file] \in Seq(Directive)
      BY <1>2, <1>3, <3>1, <3>2
    <3>4. i \in DOMAIN contents'[file]
      BY <3>3
    <3> QED
      BY <3>1, <3>4 DEF Places
  <2> QED
    BY <2>1 DEF Places
<1>5. Spent(D)'
  <2>1. Spent(D)
    BY DEF Ahead
  <2>2. ASSUME NEW k \in 1..Len(modules)
        PROVE  /\ modules'[k].path = modules[k].path
               /\ modules'[k].position >= modules[k].position
               /\ control \in {"enter", "module"}
    <3>1. modules[k].position \in Nat
      BY ModuleFacts DEF TypeOK
    <3> QED
      BY <1>1, <3>1
  <2>3. UNCHANGED loaded_module_paths /\ Len(modules') = Len(modules)
    BY <1>1
  <2> QED
    BY <1>4, <2>1, <2>2, <2>3, SpentSame
<1>6. ASSUME NEW texts, Completes(texts)' PROVE Completes(texts)
  <2>1. texts \in [Files -> Seq(Directive)]
    BY <1>6 DEF Completes
  <2>2. ASSUME NEW file \in Files
        PROVE  /\ Len(contents[file]) <= Len(texts[file])
               /\ \A i \in 1..Len(contents[file]) :
                     /\ texts[file][i] = contents[file][i]
                     /\ contents[file][i] = EndOfSource => Len(texts[file]) = i
    <3>1. /\ Len(contents'[file]) <= Len(texts[file])
          /\ \A i \in 1..Len(contents'[file]) :
                /\ texts[file][i] = contents'[file][i]
                /\ contents'[file][i] = EndOfSource => Len(texts[file]) = i
      BY <1>6 DEF Completes
    <3>2. texts[file] \in Seq(Directive) /\ Len(texts[file]) \in Nat
      BY <2>1
    <3>3. \A i \in 1..Len(contents[file]) : i \in 1..Len(contents'[file])
      BY <1>3
    <3> QED
      BY <1>3, <3>1, <3>2, <3>3
  <2> QED
    BY <2>1, <2>2 DEF Completes
<1>7. ASSUME NEW texts, NEW m, Corresponds(m, texts)
      PROVE  Corresponds(m, texts)'
  BY <1>1, <1>7 DEF Corresponds, Rests, Waiting, Current
<1>8. ASSUME NEW texts, Completes(texts)
      PROVE  Corresponds(Rewriting(texts, source_path)[n], texts)'
  <2>1. PICK m : m = Rewriting(texts, source_path)[n]
    OBVIOUS
  <2>2. Corresponds(m, texts)'
    BY <1>7, <1>8, <2>1 DEF Ahead
  <2>3. (Rewriting(texts, source_path)[n])' = m
    BY <1>1, <2>1
  <2> QED
    BY <2>2, <2>3
<1>9. n <= Cardinality(D) + 1 /\ control' # "enter"
  BY <1>1 DEF Ahead
<1> QED
  BY <1>5, <1>6, <1>8, <1>9 DEF Ahead

\* Nothing comes of a return that is not one to a module.
LEMMA AheadStays ==
    ASSUME control' = control \/ (control = "return" /\ control' = "idle"),
           UNCHANGED <<contents, loaded_module_paths, modules, callee, source_path, bound,
                       committed_names>>,
           NEW n \in Nat, NEW D, Ahead(n, D)
    PROVE  Ahead(n, D)'
<1>1. Waiting' = Waiting
  BY DEF Waiting
<1>2. Spent(D)'
  BY DEF Ahead, Spent, IsLoaded
<1>3. ASSUME NEW texts, NEW m, Corresponds(m, texts) PROVE Corresponds(m, texts)'
  <2>1. CASE control' = control
    BY <1>1, <1>3, <2>1 DEF Corresponds, Rests, Current
  <2>2. CASE control = "return" /\ control' = "idle"
    BY <1>1, <1>3, <2>2 DEF Corresponds, Rests
  <2> QED
    BY <2>1, <2>2
<1>4. ASSUME NEW texts, Completes(texts)
      PROVE  Corresponds(Rewriting(texts, source_path)[n], texts)'
  <2>1. PICK m : m = Rewriting(texts, source_path)[n]
    OBVIOUS
  <2>2. Corresponds(m, texts)'
    BY <1>3, <1>4, <2>1 DEF Ahead
  <2>3. (Rewriting(texts, source_path)[n])' = m
    BY <2>1
  <2> QED
    BY <2>2, <2>3
<1>5. ASSUME NEW texts, Completes(texts)' PROVE Completes(texts)
  BY <1>5 DEF Completes
<1>6. /\ n <= Cardinality(D) + 1
      /\ control' = "enter" /\ modules' = <<>> => n = 0
  BY DEF Ahead
<1> QED
  BY <1>2, <1>4, <1>5, <1>6 DEF Ahead

\* The call of the entry point is the Require of its source file.
LEMMA EntryStarts ==
    ASSUME TypeOK, TypeOK', Following, Once, Truthful, execution_count = 0,
           NEW specification \in Specifications, ExecuteSourceFile(specification)
    PROVE  IF Going' THEN \E n \in Nat : \E D : Ahead(n, D)' ELSE \E n \in Nat : Over(n)'
<1> USE DEF call_vars, program_vars, loader_vars
<1>1. /\ source_path' = specification /\ contents' = contents
      /\ modules' = <<>> /\ loaded_module_paths' = <<>> /\ bound' = {} /\ committed_names' = <<>>
  BY DEF ExecuteSourceFile, Following
<1>2. PICK w : w = Written(<<>>, [keyword |-> "Require", specification |-> specification])
  OBVIOUS
<1>3. /\ w \in Writings /\ w.directive.keyword = "Require"
      /\ w.directive.specification = specification /\ w.local = <<>>
  BY <1>2 DEF Written, Writings, Directive, Locals
<1>4. Fronted(Started(specification), w, <<>>, <<>>, {}, <<>>)
  <2>1. <<w>> \o <<>> = <<w>> /\ <<>> \in Seq(Writings)
    BY <1>3
  <2>2. Started(specification) = Program(<<w>>, <<>>, {}, <<>>)
    BY <1>2 DEF Started, Program
  <2> QED
    BY <1>3, <2>1, <2>2 DEF Fronted
<1>5. ASSUME NEW texts PROVE Rewriting(texts, specification)[0] = Started(specification)
  BY RewritingIs
<1>6. CASE specification \in SourceSpecifications /\ CanResolve(<<>>, specification)
  <2>1. control' = "enter" /\ callee' = Resolve(<<>>, specification)
    BY <1>6 DEF ExecuteSourceFile
  <2>2. Located(<<>>, specification) = {callee'}
    <3>1. <<>> \in Locals
      BY DEF Locals
    <3> QED
      BY <1>6, <2>1, <3>1, LocatedIs
  <2>3. Waiting' = 0
    BY <1>1, <2>1 DEF Waiting
  <2>4. PICK R : R[0] = <<>>
    <3>1. [k \in {0} |-> <<>>][0] = <<>>
      OBVIOUS
    <3> QED
      BY <3>1
  <2>5. ASSUME NEW texts PROVE Corresponds(Started(specification), texts)'
    <3>1. Rests(R, texts, Waiting)'
      <4>1. Rests(R, texts, 0)
        <5>1. 0..0 = {0} /\ 1..0 = {} /\ <<>> \in Seq(Writings)
          OBVIOUS
        <5> QED
          BY <2>4, <5>1 DEF Rests
      <4>2. Rests(R, texts, 0)'
        BY <4>1, RestsKept
      <4> QED
        BY <2>3, <4>2 DEF Rests
    <3>2. Started(specification) = Program(<<w>> \o R[Waiting'], loaded_module_paths', bound',
                                           committed_names')
      BY <1>1, <1>4, <2>3, <2>4 DEF Fronted
    <3> QED
      BY <1>3, <2>1, <2>2, <3>1, <3>2 DEF Corresponds
  <2>6. PICK n \in Nat : n = 0
    OBVIOUS
  <2>7. ASSUME NEW texts PROVE Corresponds(Rewriting(texts, source_path)[n], texts)'
    <3>1. PICK m : m = Started(specification)
      OBVIOUS
    <3>2. Corresponds(m, texts)'
      BY <2>5, <3>1
    <3>3. (Rewriting(texts, source_path)[n])' = m
      BY <1>1, <1>5, <2>6, <3>1
    <3> QED
      BY <3>2, <3>3
  <2>8. Spent({})'
    BY DEF Spent
  <2>9. n <= Cardinality({}) + 1
    BY <2>6, FS_EmptySet
  <2>10. Ahead(n, {})'
    BY <2>6, <2>7, <2>8, <2>9 DEF Ahead
  <2>11. Going'
    BY <2>1 DEF Going
  <2> QED
    BY <2>10, <2>11
<1>7. CASE ~(specification \in SourceSpecifications /\ CanResolve(<<>>, specification))
  <2>1. control' = "return" /\ status' = "FAILED"
    BY <1>7 DEF ExecuteSourceFile, Fail
  <2>2. Located(w.local, w.directive.specification) = {}
    <3>1. <<>> \in Locals
      BY DEF Locals
    <3> QED
      BY <1>3, <1>7, <3>1, LocatedIs
  <2>3. PICK n \in Nat : n = 1
    OBVIOUS
  <2>4. ASSUME NEW texts
        PROVE  HasEnded(Rewriting(texts, specification)[n], {}, <<>>)
    <3>1. 0 \in Nat /\ n = 0 + 1
      BY <2>3
    <3>2. Rewriting(texts, specification)[0 + 1]
             = Rewritten(texts, Rewriting(texts, specification)[0])
      BY RewritingIs
    <3>3. Rewriting(texts, specification)[n] = Rewritten(texts, Started(specification))
      BY <1>5, <3>1, <3>2
    <3>4. Effect(texts, w, <<>>, <<>>, {}, <<>>, Rewritten(texts, Started(specification)))
      BY <1>4, Effects
    <3> QED
      BY <1>3, <2>2, <3>3, <3>4 DEF Effect
  <2>5. n <= Cardinality(Places(contents)) + 1
    <3>1. Cardinality(Places(contents)) \in Nat
      BY PlacesFinite, FS_CardinalityType DEF TypeOK
    <3> QED
      BY <2>3, <3>1
  <2>6. Over(n)'
    BY <1>1, <2>4, <2>5 DEF Over
  <2>7. ~Going'
    BY <2>1 DEF Going
  <2> QED
    BY <2>6, <2>7
<1> QED
  BY <1>6, <1>7

\* Every step of the first execution is one of rewriting, or none.
LEMMA FollowingStep ==
    TypeOK /\ TypeOK' /\ (FirstExecution => Once /\ Truthful /\ Following) /\ [Next]_vars
       => (FirstExecution => Following)'
<1> SUFFICES ASSUME TypeOK, TypeOK', Once, Truthful, Following, [Next]_vars, FirstExecution'
             PROVE  Following'
  BY FirstBefore
<1> USE DEF BeginsDirective, call_vars, program_vars, loader_vars
<1>1. Positioned /\ Positioned'
  BY PositionedStep DEF Following
<1>2. control # "idle" => execution_count # 0
  BY DEF Once
<1>3. execution_count \in {0, 1}
  <2>1. execution_count \in Nat
    BY ModuleAssumption DEF TypeOK
  <2>2. execution_count <= 1
    BY FirstBefore DEF FirstExecution
  <2> QED
    BY <2>1, <2>2
<1>4. ASSUME NEW specification \in Specifications, ExecuteSourceFile(specification)
      PROVE  Following'
  <2>1. execution_count = 0 /\ execution_count' = 1
    BY <1>3, <1>4 DEF ExecuteSourceFile, FirstExecution
  <2>2. IF Going' THEN \E n \in Nat : \E D : Ahead(n, D)' ELSE \E n \in Nat : Over(n)'
    BY <1>4, <2>1, EntryStarts
  <2> QED
    BY <1>1, <2>1, <2>2 DEF Following
<1>5. ASSUME control # "idle", execution_count' = execution_count,
             Going /\ Going' => \A n \in Nat : \A D : Ahead(n, D) => \E k \in Nat : \E E : Ahead(k, E)',
             Going /\ ~Going' => \A n \in Nat : \A D : Ahead(n, D) => \E k \in Nat : Over(k)',
             ~Going => ~Going' /\ UNCHANGED <<contents, source_path, program_vars>>
      PROVE  Following'
  <2>1. execution_count = 1
    BY <1>2, <1>3, <1>5
  <2>2. CASE Going
    <3>1. PICK n \in Nat : \E D : Ahead(n, D)
      BY <2>1, <2>2 DEF Following
    <3>2. PICK D : Ahead(n, D)
      BY <3>1
    <3>3. CASE Going'
      <4>1. \E k \in Nat : \E E : Ahead(k, E)'
        BY <1>5, <2>2, <3>2, <3>3
      <4> QED
        BY <1>1, <1>5, <2>1, <3>3, <4>1 DEF Following
    <3>4. CASE ~Going'
      <4>1. \E k \in Nat : Over(k)'
        BY <1>5, <2>2, <3>2, <3>4
      <4> QED
        BY <1>1, <1>5, <2>1, <3>4, <4>1 DEF Following
    <3> QED
      BY <3>3, <3>4
  <2>3. CASE ~Going
    <3>1. PICK n \in Nat : Over(n)
      BY <2>1, <2>3 DEF Following
    <3>2. Over(n)'
      BY <1>5, <2>3, <3>1 DEF Over, Completes
    <3> QED
      BY <1>1, <1>5, <2>1, <2>3, <3>2 DEF Following
  <2> QED
    BY <2>2, <2>3
<1>6. CASE FinishExecution \/ UNCHANGED vars
  <2>1. /\ control' = control \/ (control = "return" /\ control' = "idle")
        /\ UNCHANGED <<contents, loader_vars, modules, callee, status, call_vars, program_vars>>
    BY <1>6 DEF FinishExecution, vars
  <2>2. Going' <=> Going
    BY <2>1 DEF Going
  <2>3. \A n \in Nat : \A D : Ahead(n, D) => Ahead(n, D)'
    BY <2>1, AheadStays
  <2>4. \A n \in Nat : Over(n) => Over(n)'
    BY <2>1 DEF Over, Completes
  <2>5. CASE execution_count = 0
    BY <1>1, <2>1, <2>5 DEF Following
  <2>6. CASE execution_count = 1 /\ Going
    <3>1. PICK n \in Nat : \E D : Ahead(n, D)
      BY <2>6 DEF Following
    <3>2. \E D : Ahead(n, D)'
      BY <2>3, <3>1
    <3> QED
      BY <1>1, <2>1, <2>2, <2>6, <3>2 DEF Following
  <2>7. CASE execution_count = 1 /\ ~Going
    <3>1. PICK n \in Nat : Over(n)
      BY <2>7 DEF Following
    <3>2. Over(n)'
      BY <2>4, <3>1
    <3> QED
      BY <1>1, <2>1, <2>2, <2>7, <3>2 DEF Following
  <2> QED
    BY <1>3, <2>5, <2>6, <2>7
<1>7. CASE \/ RefuseTracking \/ RefuseMapping \/ RefuseText \/ RefuseRequire
           \/ RefuseDeclaration
  <2>1. /\ control \in {"enter", "module"} /\ control' = "return" /\ status' = "FAILED"
        /\ execution_count' = execution_count
    BY <1>7 DEF RefuseTracking, RefuseMapping, RefuseText, RefuseRequire, RefuseDeclaration,
                ReadsDirective, Fail
  <2>2. Going /\ ~Going'
    BY <2>1 DEF Going
  <2>3. \A n \in Nat : \A D : Ahead(n, D) => \E k \in Nat : Over(k)'
    BY <1>1, <1>7, Fails
  <2> QED
    BY <1>5, <2>1, <2>2, <2>3
<1>8. ~AbandonDirective
  BY DEF AbandonDirective, ReadsDirective, HasFailed, Truthful
<1>9. CASE EnterModule \/ EndModule \/ SkipRequire \/ Declare \/ Commit
  <2>1. /\ control \in {"enter", "module"} /\ execution_count' = execution_count
        /\ control' \in {"enter", "module"} \/ status' = "OK"
    BY <1>9 DEF EnterModule, EndModule, SkipRequire, Declare, Commit, ReadsDirective
  <2>2. Going /\ Going'
    BY <2>1 DEF Going
  <2>3. \A n \in Nat : \A D : Ahead(n, D) => \E k \in Nat : \E E : Ahead(k, E)'
    BY <1>1, <1>9, EntersModule, EndsModule, PassesOn
  <2> QED
    BY <1>5, <2>1, <2>2, <2>3
<1>10. CASE FollowRequire \/ ContinueRequester \/ ReadText
  <2>1. /\ control # "idle" /\ execution_count' = execution_count
        /\ control' \in {"enter", "module"}
        /\ control \in {"enter", "module"} \/ status = "OK"
    BY <1>10 DEF FollowRequire, ContinueRequester, ReadText, ReadsDirective
  <2>2. Going /\ Going'
    BY <2>1 DEF Going
  <2>3. \A n \in Nat : \A D : Ahead(n, D) => Ahead(n, D)'
    BY <1>1, <1>10, FollowsRequire, ContinuesRequester, ReadsText
  <2>4. \A n \in Nat : \A D : Ahead(n, D) => \E k \in Nat : \E E : Ahead(k, E)'
    BY <2>3
  <2> QED
    BY <1>5, <2>1, <2>2, <2>4
<1>11. CASE StopModule
  <2>1. /\ control = "return" /\ control' = "return" /\ status = "FAILED" /\ status' = "FAILED"
        /\ UNCHANGED <<contents, source_path, program_vars, execution_count>>
    BY <1>11 DEF StopModule
  <2>2. ~Going /\ ~Going'
    BY <2>1 DEF Going
  <2> QED
    BY <1>5, <2>1, <2>2
<1>12. \/ \E specification \in Specifications : ExecuteSourceFile(specification)
       \/ Proceed \/ UNCHANGED vars
  BY DEF Next
<1>13. CASE Proceed
  BY <1>6, <1>7, <1>8, <1>9, <1>10, <1>11, <1>13, Zenon DEF Proceed
<1> QED
  BY <1>4, <1>6, <1>12, <1>13, Zenon

\* When the execution is over, nothing is left of the text.
LEMMA FollowingMeaning ==
    ASSUME TypeOK, Following
    PROVE  OutputIsInclusion
<1> SUFFICES ASSUME control = "idle", execution_count = 1
             PROVE  LET meaning == Meaning(contents, source_path)
                    IN  /\ meaning.text = <<>>
                        /\ bound = meaning.bound /\ committed_names = meaning.committed
                        /\ status = meaning.status
  BY DEF OutputIsInclusion
<1>1. Completes(contents)
  <2>1. contents \in [Files -> Seq(Directive)]
    BY DEF TypeOK
  <2>2. \A file \in Files : Len(contents[file]) \in Nat
    BY <2>1
  <2>3. \A file \in Files : \A i \in 1..Len(contents[file]) :
           contents[file][i] = EndOfSource => i = Len(contents[file])
    BY DEF Following, Positioned
  <2> QED
    BY <2>1, <2>2, <2>3 DEF Completes
<1>2. IsFiniteSet(Places(contents)) /\ Cardinality(Places(contents)) \in Nat
  BY PlacesFinite, FS_CardinalityType DEF TypeOK
<1>3. ASSUME NEW n \in Nat, n <= Cardinality(Places(contents)) + 1,
             Rewriting(contents, source_path)[n].text = <<>>
      PROVE  Meaning(contents, source_path) = Rewriting(contents, source_path)[n]
  <2>1. PICK k \in Nat : k = Cardinality(Places(contents)) + 1
    BY <1>2
  <2> QED
    BY <1>3, <2>1, EmptyStays DEF Meaning
<1>4. CASE Going
  <2>1. PICK n \in Nat : \E D : Ahead(n, D)
    BY <1>4 DEF Following
  <2>2. PICK D : Ahead(n, D)
    BY <2>1
  <2>3. Corresponds(Rewriting(contents, source_path)[n], contents)
    BY <1>1, <2>2 DEF Ahead
  <2>4. modules = <<>> /\ Waiting = 0
    BY DEF TypeOK, Waiting
  <2>5. Rewriting(contents, source_path)[n]
           = Program(<<>>, loaded_module_paths, bound, committed_names)
    BY <2>3, <2>4 DEF Corresponds, Rests
  <2>6. n <= Cardinality(Places(contents)) + 1
    <3>1. D \subseteq Places(contents) /\ n <= Cardinality(D) + 1
      BY <2>2 DEF Ahead, Spent
    <3>2. /\ IsFiniteSet(D) /\ Cardinality(D) \in Nat
          /\ Cardinality(D) <= Cardinality(Places(contents))
      BY <1>2, <3>1, FS_Subset, FS_CardinalityType
    <3>3. PICK c, d \in Nat : c = Cardinality(D) /\ d = Cardinality(Places(contents))
      BY <1>2, <3>2
    <3>4. c <= d /\ n <= c + 1
      BY <3>1, <3>2, <3>3
    <3>5. n <= d + 1
      BY <3>4
    <3> QED
      BY <3>3, <3>5
  <2>7. Meaning(contents, source_path) = Program(<<>>, loaded_module_paths, bound, committed_names)
    <3>1. Rewriting(contents, source_path)[n].text = <<>>
      BY <2>5 DEF Program
    <3> QED
      BY <1>3, <2>5, <2>6, <3>1
  <2>8. status = "OK"
    BY <1>4 DEF Going
  <2> QED
    BY <2>7, <2>8 DEF Program
<1>5. CASE ~Going
  <2>1. PICK n \in Nat : Over(n)
    BY <1>5 DEF Following
  <2>2. /\ n <= Cardinality(Places(contents)) + 1
        /\ HasEnded(Rewriting(contents, source_path)[n], bound, committed_names)
    BY <1>1, <2>1 DEF Over
  <2>3. Meaning(contents, source_path) = Rewriting(contents, source_path)[n]
    BY <1>3, <2>2 DEF HasEnded
  <2>4. status = "FAILED"
    BY <1>5 DEF Going, TypeOK
  <2> QED
    BY <2>2, <2>3, <2>4 DEF HasEnded
<1> QED
  BY <1>4, <1>5

\* Whatever modules require each other, and wherever one is looked for: what a
\* session declares, commits and answers is what its program means when every
\* Require is replaced by the text of its module, the first time it occurs.
THEOREM RequireIsInclusion == Spec => []OutputIsInclusion
<1>1. Init => (FirstExecution => Once /\ Truthful /\ Following)
  BY ModuleAssumption
     DEF Init, Once, Truthful, NothingRepeated, NoRepetition, IsLoaded, Following, Positioned,
         Waiting
<1>2. TypeOK /\ (FirstExecution => Following) => OutputIsInclusion
  <2>1. control = "idle" /\ execution_count = 1 => FirstExecution
    BY DEF FirstExecution
  <2> QED
    BY <2>1, FollowingMeaning DEF OutputIsInclusion
<1>3. TypeOK /\ TypeOK' /\ (FirstExecution => Once /\ Truthful /\ Following) /\ [Next]_vars
         => (FirstExecution => Once /\ Truthful /\ Following)'
  BY OnceStep, TruthfulStep, FollowingStep
<1> QED
  BY <1>1, <1>2, <1>3, TypeCorrect, PTL DEF Spec

-----------------------------------------------------------------------------
(* Folds over a sequence, as functions of how much of it was read. *)

\* A set of numbers up to a bound that holds with each the one before, and not
\* zero, is empty.
LEMMA NoneUpTo ==
    ASSUME NEW N \in Nat, NEW K, K \subseteq 0..N, 0 \notin K,
           \A n \in 1..N : n \in K => n - 1 \in K
    PROVE  K = {}
<1> SUFFICES ASSUME K # {} PROVE FALSE
  OBVIOUS
<1>1. PICK n \in K : \A k \in K : n <= k
  <2>1. K \subseteq Nat
    OBVIOUS
  <2> QED
    BY <2>1, LeastNatural
<1>2. n \in 1..N
  BY <1>1
<1>3. n - 1 \in K /\ ~(n <= n - 1)
  BY <1>1, <1>2
<1> QED
  BY <1>1, <1>3


Folded(f, x, s, g) ==
    /\ f[0] = x
    /\ \A n \in 1..Len(s) : f[n] = g[<<f[n - 1], s[n]>>]

\* There is a fold: the least length for which there is none would have one.
LEMMA FoldIsThere ==
    ASSUME NEW V, NEW X, NEW s \in Seq(V), NEW x \in X, NEW g \in [X \X V -> X]
    PROVE  \E f \in [0..Len(s) -> X] : Folded(f, x, s, g)
<1> DEFINE Fits(f, n) ==
              f[0] = x /\ \A i \in 1..n : f[i] = g[<<f[i - 1], s[i]>>]
           Lacking == {n \in 0..Len(s) : ~\E f \in [0..n -> X] : Fits(f, n)}
<1>1. Len(s) \in Nat /\ Lacking \subseteq 0..Len(s)
  OBVIOUS
<1>2. 0 \notin Lacking
  <2>1. [i \in 0..0 |-> x] \in [0..0 -> X] /\ Fits([i \in 0..0 |-> x], 0)
    OBVIOUS
  <2> HIDE DEF Fits
  <2> QED
    BY <2>1
<1>3. \A n \in 1..Len(s) : n \in Lacking => n - 1 \in Lacking
  <2> SUFFICES ASSUME NEW n \in 1..Len(s), n - 1 \notin Lacking PROVE n \notin Lacking
    OBVIOUS
  <2>1. n \in Nat /\ n - 1 \in 0..Len(s) /\ n \in 0..Len(s)
    BY <1>1
  <2> HIDE DEF Fits
  <2>2. PICK f \in [0..(n - 1) -> X] : Fits(f, n - 1)
    BY <2>1
  <2> DEFINE h == [i \in 0..n |-> IF i < n THEN f[i] ELSE g[<<f[n - 1], s[n]>>]]
  <2> USE DEF Fits
  <2>3. f[n - 1] \in X /\ s[n] \in V
    BY <2>1
  <2>4. h \in [0..n -> X]
    BY <2>1, <2>3
  <2>5. h[0] = x
    BY <2>1, <2>2
  <2>6. \A i \in 1..n : h[i] = g[<<h[i - 1], s[i]>>]
    <3> TAKE i \in 1..n
    <3>1. CASE i = n
      <4>1. h[n - 1] = f[n - 1] /\ h[n] = g[<<f[n - 1], s[n]>>]
        BY <2>1
      <4> HIDE DEF h
      <4> QED
        BY <3>1, <4>1
    <3>2. CASE i # n
      <4>1. i \in 1..(n - 1) /\ i - 1 \in 0..(n - 1) /\ i < n /\ i - 1 < n
        BY <2>1, <3>2
      <4>2. h[i] = f[i] /\ h[i - 1] = f[i - 1]
        BY <2>1, <4>1
      <4>3. f[i] = g[<<f[i - 1], s[i]>>]
        BY <2>2, <4>1
      <4> HIDE DEF h
      <4> QED
        BY <4>2, <4>3
    <3> QED
      BY <3>1, <3>2
  <2>7. Fits(h, n)
    <3> HIDE DEF h
    <3> QED
      BY <2>5, <2>6
  <2> HIDE DEF Fits, h
  <2> QED
    BY <2>4, <2>7
<1>4. Lacking = {}
  <2> HIDE DEF Lacking
  <2> QED
    BY <1>1, <1>2, <1>3, NoneUpTo
<1>5. PICK f \in [0..Len(s) -> X] : Fits(f, Len(s))
  BY <1>1, <1>4
<1> QED
  BY <1>5 DEF Folded

\* Two folds agree as far as what they read does.
LEMMA FoldsAgree ==
    ASSUME NEW m \in Nat, NEW s, NEW r, NEW x, NEW g, NEW f, NEW h,
           m <= Len(s), m <= Len(r), Len(s) \in Nat, Len(r) \in Nat,
           \A i \in 1..m : s[i] = r[i],
           Folded(f, x, s, g), Folded(h, x, r, g)
    PROVE  \A n \in 0..m : f[n] = h[n]
<1> DEFINE Bad == {n \in 0..m : f[n] # h[n]}
<1>1. 0 \notin Bad /\ Bad \subseteq 0..m
  BY DEF Folded
<1>2. \A n \in 1..m : n \in Bad => n - 1 \in Bad
  <2> SUFFICES ASSUME NEW n \in 1..m, n - 1 \notin Bad PROVE n \notin Bad
    OBVIOUS
  <2>1. n - 1 \in 0..m /\ n \in 1..Len(s) /\ n \in 1..Len(r)
    OBVIOUS
  <2>2. f[n - 1] = h[n - 1]
    BY <2>1
  <2>3. f[n] = g[<<f[n - 1], s[n]>>] /\ h[n] = g[<<h[n - 1], r[n]>>]
    BY <2>1 DEF Folded
  <2> QED
    BY <2>2, <2>3
<1>3. Bad = {}
  <2> HIDE DEF Bad
  <2> QED
    BY <1>1, <1>2, NoneUpTo
<1> QED
  BY <1>3

\* There is one fold only.
LEMMA FoldIsOne ==
    ASSUME NEW V, NEW s \in Seq(V), NEW x, NEW g, NEW f, NEW h,
           Folded(f, x, s, g), Folded(h, x, s, g)
    PROVE  f[Len(s)] = h[Len(s)]
<1>1. Len(s) \in Nat /\ Len(s) \in 0..Len(s) /\ Len(s) <= Len(s)
  OBVIOUS
<1>2. \A n \in 0..Len(s) : f[n] = h[n]
  BY <1>1, FoldsAgree
<1> QED
  BY <1>1, <1>2

-----------------------------------------------------------------------------
(* Where a path leads. *)

Reachable == tree \cup {Nowhere}
Walks == [at : Reachable, name : Seq(Characters)]
Onward == [p \in Walks \X Characters |-> Advance(p[1], p[2])]
Ending(walk) == Step(walk.at, walk.name)
Beginning(start, path) ==
    [at |-> IF IsAbsolute(path) THEN Root ELSE start, name |-> << >>]

\* What the assumption says of the present tree.
LEMMA TreeIs ==
    ASSUME tree \in Trees
    PROVE  /\ Root \in tree /\ WorkingPlace \in tree /\ Nowhere \notin tree
           /\ Separator \in Characters /\ Dot \in Characters
           /\ \A place \in tree :
                 /\ place \in Seq(EntryNames)
                 /\ place # Root => Len(place) > 0 /\ Front(place) \in tree
<1>1. /\ Root \in tree /\ WorkingPlace \in tree
      /\ \A place \in tree : place \in Seq(EntryNames)
      /\ \A place \in tree \ {Root} : Front(place) \in tree
      /\ Separator \in Characters /\ Dot \in Characters
  BY PathsAssumption
<1>2. Nowhere \notin tree
  <2>1. Nowhere[1] = << >> /\ Len(Nowhere) = 1
    BY DEF Nowhere
  <2>2. << >> \notin EntryNames
    BY DEF EntryNames
  <2>3. \A place \in Seq(EntryNames) : Len(place) = 1 => place[1] \in EntryNames
    <3> TAKE place \in Seq(EntryNames)
    <3>1. \A i \in 1..Len(place) : place[i] \in EntryNames
      OBVIOUS
    <3> QED
      BY <3>1
  <2> QED
    BY <1>1, <2>1, <2>2, <2>3
<1>3. \A place \in tree \ {Root} : Len(place) > 0
  <2> SUFFICES ASSUME NEW place \in tree \ {Root} PROVE Len(place) > 0
    OBVIOUS
  <2>1. place \in Seq(EntryNames) /\ place # << >>
    BY <1>1 DEF Root
  <2> QED
    BY <2>1
<1> QED
  BY <1>1, <1>2, <1>3

\* A step leads to a place that exists, or nowhere.
LEMMA StepStays ==
    ASSUME tree \in Trees, NEW place \in Reachable, NEW name
    PROVE  Step(place, name) \in Reachable
<1>1. CASE place = Nowhere \/ name \in {<< >>, <<Dot>>}
  <2>1. Step(place, name) = place
    BY <1>1 DEF Step
  <2> QED
    BY <2>1
<1>2. CASE ~(place = Nowhere \/ name \in {<< >>, <<Dot>>})
  <2>1. place \in tree
    BY <1>2 DEF Reachable
  <2>2. Root \in tree /\ (place # Root => Front(place) \in tree)
    BY <2>1, TreeIs
  <2>3. Step(place, name)
           = IF name = <<Dot, Dot>> THEN IF place = Root THEN Root ELSE Front(place)
             ELSE IF Append(place, name) \in tree THEN Append(place, name) ELSE Nowhere
    BY <1>2 DEF Step
  <2> QED
    BY <2>2, <2>3 DEF Reachable
<1> QED
  BY <1>1, <1>2

\* Reading a character keeps a walk one through the tree.
LEMMA AdvanceStays ==
    ASSUME tree \in Trees
    PROVE  /\ Onward \in [Walks \X Characters -> Walks]
           /\ \A walk \in Walks, c \in Characters : Onward[<<walk, c>>] = Advance(walk, c)
<1>1. ASSUME NEW walk \in Walks, NEW c \in Characters PROVE Advance(walk, c) \in Walks
  <2>1. walk.at \in Reachable /\ walk.name \in Seq(Characters)
    BY DEF Walks
  <2>2. Step(walk.at, walk.name) \in Reachable
    BY <2>1, StepStays
  <2>3. Append(walk.name, c) \in Seq(Characters)
    BY <2>1
  <2> QED
    BY <2>1, <2>2, <2>3 DEF Advance, Walks
<1> QED
  BY <1>1 DEF Onward

\* Following a path is a fold over its characters.
LEMMA FollowWalks ==
    ASSUME tree \in Trees,
           NEW start \in Reachable, NEW path \in Seq(Characters)
    PROVE  \E w \in [0..Len(path) -> Walks] :
              /\ Folded(w, Beginning(start, path), path, Onward)
              /\ Follow(start, path) = Ending(w[Len(path)])
<1> DEFINE x == Beginning(start, path)
           Body(f) == [n \in 0..Len(path) |->
                         IF n = 0
                         THEN [at |-> IF IsAbsolute(path) THEN Root ELSE start, name |-> << >>]
                         ELSE Advance(f[n - 1], path[n])]
<1> Len(path) \in Nat
  OBVIOUS
<1>1. x \in Walks
  <2>1. Root \in Reachable /\ << >> \in Seq(Characters)
    BY TreeIs DEF Reachable
  <2> QED
    BY <2>1 DEF Beginning, Walks
<1>2. PICK w \in [0..Len(path) -> Walks] : Folded(w, x, path, Onward)
  <2> HIDE DEF x
  <2> QED
    BY <1>1, AdvanceStays, FoldIsThere
<1>3. w[0] = x /\ \A n \in 1..Len(path) : w[n] = Advance(w[n - 1], path[n])
  <2> SUFFICES ASSUME NEW n \in 1..Len(path) PROVE w[n] = Advance(w[n - 1], path[n])
    BY <1>2 DEF Folded
  <2>1. w[n - 1] \in Walks /\ path[n] \in Characters
    OBVIOUS
  <2>2. w[n] = Onward[<<w[n - 1], path[n]>>]
    BY <1>2 DEF Folded
  <2> QED
    BY <2>1, <2>2, AdvanceStays
<1>4. w = Body(w)
  <2>1. \A n \in 0..Len(path) : w[n] = Body(w)[n]
    BY <1>3 DEF Beginning
  <2>2. w = [n \in 0..Len(path) |-> w[n]]
    OBVIOUS
  <2>3. Body(w) = [n \in 0..Len(path) |-> Body(w)[n]]
    OBVIOUS
  <2> HIDE DEF Body
  <2> QED
    BY <2>1, <2>2, <2>3, Zenon
<1> DEFINE c == CHOOSE h : h = Body(h)
<1>5. c = Body(c)
  <2> HIDE DEF Body
  <2> QED
    BY <1>4, Zenon
<1> HIDE DEF c
<1>6. c[0] = x
  BY <1>5 DEF Beginning
<1>7. \A n \in 1..Len(path) : c[n] = Advance(c[n - 1], path[n])
  <2> TAKE n \in 1..Len(path)
  <2>1. n \in 0..Len(path) /\ n # 0
    OBVIOUS
  <2>2. c[n] = Body(c)[n]
    BY <1>5, Zenon
  <2>3. Body(c)[n] = Advance(c[n - 1], path[n])
    BY <2>1
  <2> QED
    BY <2>2, <2>3, Zenon
<1> DEFINE Different == {n \in 0..Len(path) : c[n] # w[n]}
<1>8. Different = {}
  <2> HIDE DEF x
  <2>1. 0 \notin Different /\ Different \subseteq 0..Len(path)
    BY <1>3, <1>6
  <2>2. \A n \in 1..Len(path) : n \in Different => n - 1 \in Different
    <3> SUFFICES ASSUME NEW n \in 1..Len(path), n - 1 \notin Different PROVE n \notin Different
      OBVIOUS
    <3>1. c[n - 1] = w[n - 1]
      OBVIOUS
    <3>2. c[n] = Advance(c[n - 1], path[n]) /\ w[n] = Advance(w[n - 1], path[n])
      BY <1>3, <1>7
    <3> QED
      BY <3>1, <3>2
  <2> HIDE DEF Different
  <2> QED
    BY <2>1, <2>2, NoneUpTo
<1>9. c[Len(path)] = w[Len(path)]
  BY <1>8
<1>10. Follow(start, path) = Ending(c[Len(path)])
  BY DEF Follow, Ending, c
<1> QED
  BY <1>2, <1>9, <1>10

\* A path leads to a place that exists, or nowhere.
LEMMA FollowStays ==
    ASSUME tree \in Trees,
           NEW start \in Reachable, NEW path \in Seq(Characters)
    PROVE  Follow(start, path) \in Reachable
<1>1. PICK w \in [0..Len(path) -> Walks] : Follow(start, path) = Ending(w[Len(path)])
  BY FollowWalks
<1>2. w[Len(path)] \in Walks
  OBVIOUS
<1> QED
  BY <1>1, <1>2, StepStays DEF Ending, Walks

\* Two paths with the same beginning lead the same way there.
LEMMA SameWay ==
    ASSUME NEW start, NEW head \in Seq(Characters), NEW rest \in Seq(Characters),
           head # << >>,
           NEW w, Folded(w, Beginning(start, head \o rest), head \o rest, Onward),
           NEW u, Folded(u, Beginning(start, head), head, Onward)
    PROVE  w[Len(head)] = u[Len(head)]
<1> DEFINE path == head \o rest
<1>1. /\ path \in Seq(Characters) /\ Len(path) = Len(head) + Len(rest)
      /\ Len(head) \in Nat /\ Len(rest) \in Nat /\ Len(head) > 0
  OBVIOUS
<1>2. \A i \in 1..Len(head) : path[i] = head[i]
  OBVIOUS
<1>3. Beginning(start, path) = Beginning(start, head)
  <2>1. path[1] = head[1] /\ path # << >>
    BY <1>1, <1>2
  <2> QED
    BY <2>1 DEF Beginning, IsAbsolute
<1> HIDE DEF path
<1>4. Folded(w, Beginning(start, head), path, Onward)
  BY <1>3 DEF path
<1>5. \A n \in 0..Len(head) : w[n] = u[n]
  <2> DEFINE x == Beginning(start, head)
  <2>1. Folded(w, x, path, Onward) /\ Folded(u, x, head, Onward)
    BY <1>4
  <2>2. Len(head) <= Len(path) /\ Len(head) <= Len(head) /\ Len(path) \in Nat /\ Len(head) \in Nat
    BY <1>1
  <2> HIDE DEF x
  <2> QED
    BY <1>2, <2>1, <2>2, FoldsAgree
<1> QED
  BY <1>1, <1>5

\* What follows a separator is followed from where the separator is reached.
LEMMA FollowsOn ==
    ASSUME tree \in Trees, NEW start \in Reachable,
           NEW head \in Seq(Characters), head # << >>, head[Len(head)] = Separator,
           NEW rest \in Seq(Characters), ~IsAbsolute(rest)
    PROVE  Follow(start, head \o rest) = Follow(Follow(start, head), rest)
<1> DEFINE path == head \o rest
           place == Follow(start, head)
           h == Len(head)
           r == Len(rest)
<1>1. /\ path \in Seq(Characters) /\ Len(path) = h + r
      /\ h \in Nat /\ r \in Nat /\ h > 0 /\ h \in 1..h
      /\ \A i \in 1..r : path[h + i] = rest[i]
  OBVIOUS
<1>2. place \in Reachable
  BY FollowStays
<1> HIDE DEF path, place
<1>3. PICK w \in [0..Len(path) -> Walks] :
          /\ Folded(w, Beginning(start, path), path, Onward)
          /\ Follow(start, path) = Ending(w[Len(path)])
  BY <1>1, FollowWalks
<1>4. PICK u \in [0..h -> Walks] :
          Folded(u, Beginning(start, head), head, Onward) /\ place = Ending(u[h])
  BY FollowWalks DEF place
<1>5. PICK v \in [0..r -> Walks] :
          Folded(v, Beginning(place, rest), rest, Onward) /\ Follow(place, rest) = Ending(v[r])
  BY <1>2, FollowWalks
<1>6. w[h] = u[h]
  BY <1>3, <1>4, SameWay DEF path
<1>7. u[h] = Beginning(place, rest)
  <2>1. u[h - 1] \in Walks /\ u[h] = Onward[<<u[h - 1], head[h]>>]
    <3>1. h - 1 \in 0..h /\ h \in 1..Len(head)
      BY <1>1
    <3> QED
      BY <1>4, <3>1 DEF Folded
  <2>2. u[h] = Advance(u[h - 1], Separator)
    BY <2>1, AdvanceStays, TreeIs
  <2>3. u[h] = [at |-> Ending(u[h - 1]), name |-> << >>]
    BY <2>2 DEF Advance, Ending
  <2>4. place = Ending(u[h - 1])
    BY <1>4, <2>3 DEF Ending, Step
  <2> QED
    BY <2>3, <2>4 DEF Beginning
<1> DEFINE z == [n \in 0..r |-> w[h + n]]
<1>8. Folded(z, Beginning(place, rest), rest, Onward)
  <2>1. z[0] = Beginning(place, rest)
    BY <1>1, <1>6, <1>7
  <2>2. \A n \in 1..r : z[n] = Onward[<<z[n - 1], rest[n]>>]
    <3> TAKE n \in 1..r
    <3>1. n - 1 \in 0..r /\ n \in 0..r /\ h + n \in 1..Len(path) /\ h + (n - 1) = h + n - 1
      BY <1>1
    <3>2. z[n] = w[h + n] /\ z[n - 1] = w[h + n - 1]
      BY <3>1
    <3>3. w[h + n] = Onward[<<w[h + n - 1], path[h + n]>>]
      BY <1>3, <3>1 DEF Folded
    <3> HIDE DEF z
    <3> QED
      BY <1>1, <3>2, <3>3
  <2> HIDE DEF z
  <2> QED
    BY <2>1, <2>2 DEF Folded
<1>9. z[r] = v[r]
  <2> HIDE DEF z
  <2> QED
    BY <1>5, <1>8, FoldIsOne
<1>10. w[Len(path)] = z[r]
  BY <1>1
<1> QED
  BY <1>3, <1>5, <1>9, <1>10 DEF path, place

\* A separator at the end changes nothing.
LEMMA FollowSlash ==
    ASSUME tree \in Trees, NEW start \in Reachable,
           NEW path \in Seq(Characters), path # << >>
    PROVE  Follow(start, path \o <<Separator>>) = Follow(start, path)
<1> DEFINE longer == path \o <<Separator>>
           n == Len(path)
<1>1. <<Separator>> \in Seq(Characters)
  BY TreeIs
<1>2. /\ longer \in Seq(Characters) /\ Len(longer) = n + 1 /\ n \in Nat /\ n > 0
      /\ longer[n + 1] = Separator
  BY <1>1
<1> HIDE DEF longer
<1>3. PICK w \in [0..Len(longer) -> Walks] :
          /\ Folded(w, Beginning(start, longer), longer, Onward)
          /\ Follow(start, longer) = Ending(w[Len(longer)])
  BY <1>2, FollowWalks
<1>4. PICK u \in [0..n -> Walks] :
          Folded(u, Beginning(start, path), path, Onward) /\ Follow(start, path) = Ending(u[n])
  BY FollowWalks
<1>5. w[n] = u[n]
  <2> DEFINE rest == <<Separator>>
  <2>1. Folded(w, Beginning(start, path \o rest), path \o rest, Onward)
    BY <1>3 DEF longer
  <2>2. rest \in Seq(Characters)
    BY <1>1
  <2> HIDE DEF rest
  <2> QED
    BY <1>4, <2>1, <2>2, SameWay
<1>6. w[n] \in Walks /\ w[n + 1] = Onward[<<w[n], longer[n + 1]>>]
  <2>1. n + 1 \in 1..Len(longer) /\ (n + 1) - 1 = n /\ n \in 0..Len(longer)
    BY <1>2
  <2> QED
    BY <1>3, <2>1 DEF Folded
<1>7. w[n + 1] = Advance(w[n], Separator)
  BY <1>2, <1>6, AdvanceStays, TreeIs
<1>8. w[n + 1] = [at |-> Ending(w[n]), name |-> << >>]
  BY <1>7 DEF Advance, Ending
<1>9. Ending(w[n + 1]) = Ending(w[n])
  BY <1>8 DEF Ending, Step
<1> QED
  BY <1>2, <1>3, <1>4, <1>5, <1>9 DEF longer

\* Where an absolute path leads does not depend on where it is followed from.
LEMMA FollowAbsolute ==
    ASSUME tree \in Trees, NEW start \in Reachable, NEW other \in Reachable,
           NEW path \in Seq(Characters), IsAbsolute(path)
    PROVE  Follow(start, path) = Follow(other, path)
<1>1. PICK w \in [0..Len(path) -> Walks] :
          /\ Folded(w, Beginning(start, path), path, Onward)
          /\ Follow(start, path) = Ending(w[Len(path)])
  BY FollowWalks
<1>2. PICK u \in [0..Len(path) -> Walks] :
          /\ Folded(u, Beginning(other, path), path, Onward)
          /\ Follow(other, path) = Ending(u[Len(path)])
  BY FollowWalks
<1>3. Beginning(start, path) = Beginning(other, path)
  BY DEF Beginning
<1>4. w[Len(path)] = u[Len(path)]
  BY <1>1, <1>2, <1>3, FoldIsOne
<1> QED
  BY <1>1, <1>2, <1>4

\* The empty path leads where it is followed from.
LEMMA FollowNothing ==
    ASSUME tree \in Trees, NEW start \in Reachable
    PROVE  Follow(start, << >>) = start
<1>1. << >> \in Seq(Characters) /\ Len(<< >>) = 0
  OBVIOUS
<1>2. PICK w \in [0..Len(<< >>) -> Walks] :
          /\ Folded(w, Beginning(start, << >>), << >>, Onward)
          /\ Follow(start, << >>) = Ending(w[Len(<< >>)])
  BY <1>1, FollowWalks
<1>3. w[0] = [at |-> start, name |-> << >>]
  BY <1>2 DEF Folded, Beginning, IsAbsolute
<1> QED
  BY <1>1, <1>2, <1>3 DEF Ending, Step

\* A text without separators is one name.
LEMMA FollowName ==
    ASSUME tree \in Trees, NEW start \in Reachable,
           NEW name \in Seq(Characters \ {Separator})
    PROVE  Follow(start, name) = Step(start, name)
<1> DEFINE n == Len(name)
           u == [i \in 0..n |-> [at |-> start, name |-> SubSeq(name, 1, i)]]
           x == Beginning(start, name)
<1>1. name \in Seq(Characters) /\ n \in Nat /\ \A i \in 1..n : name[i] \in Characters \ {Separator}
  OBVIOUS
<1>2. ~IsAbsolute(name)
  <2>1. name # << >> => 1 \in 1..n
    OBVIOUS
  <2> QED
    BY <1>1, <2>1 DEF IsAbsolute
<1>3. PICK w \in [0..n -> Walks] : Folded(w, x, name, Onward) /\ Follow(start, name) = Ending(w[n])
  BY <1>1, FollowWalks
<1>4. Folded(u, x, name, Onward)
  <2>1. u[0] = x
    <3>1. SubSeq(name, 1, 0) = << >>
      OBVIOUS
    <3> QED
      BY <1>2, <3>1 DEF Beginning
  <2>2. \A i \in 1..n : u[i] = Onward[<<u[i - 1], name[i]>>]
    <3> TAKE i \in 1..n
    <3>1. /\ SubSeq(name, 1, i - 1) \in Seq(Characters)
          /\ name[i] \in Characters /\ name[i] # Separator
      BY <1>1
    <3>2. u[i - 1] = [at |-> start, name |-> SubSeq(name, 1, i - 1)]
      OBVIOUS
    <3>3. u[i] = [at |-> start, name |-> SubSeq(name, 1, i)]
      OBVIOUS
    <3>4. SubSeq(name, 1, i) = Append(SubSeq(name, 1, i - 1), name[i])
      BY <1>1
    <3> HIDE DEF u
    <3>5. u[i - 1] \in Walks
      BY <3>1, <3>2 DEF Walks
    <3>6. Onward[<<u[i - 1], name[i]>>] = Advance(u[i - 1], name[i])
      BY <3>1, <3>5, AdvanceStays
    <3>7. Advance(u[i - 1], name[i])
             = [at |-> start, name |-> Append(SubSeq(name, 1, i - 1), name[i])]
      BY <3>1, <3>2 DEF Advance
    <3> QED
      BY <3>3, <3>4, <3>6, <3>7
  <2> HIDE DEF u, x
  <2> QED
    BY <2>1, <2>2 DEF Folded
<1>5. w[n] = u[n]
  <2> HIDE DEF u, x
  <2> QED
    BY <1>3, <1>4, FoldIsOne
<1>6. w[n] = [at |-> start, name |-> name]
  <2>1. SubSeq(name, 1, n) = name
    BY <1>1
  <2>2. u[n] = [at |-> start, name |-> SubSeq(name, 1, n)]
    BY <1>1
  <2> HIDE DEF u
  <2> QED
    BY <1>1, <1>5, <2>1, <2>2
<1> QED
  BY <1>3, <1>6 DEF Ending

\* A separator alone leads to the root.
LEMMA FollowRoot ==
    ASSUME tree \in Trees, NEW start \in Reachable
    PROVE  Follow(start, <<Separator>>) = Root
<1> DEFINE path == <<Separator>>
<1>1. path \in Seq(Characters) /\ Len(path) = 1 /\ path[1] = Separator /\ path # << >>
  BY TreeIs
<1> HIDE DEF path
<1>2. PICK w \in [0..Len(path) -> Walks] :
          /\ Folded(w, Beginning(start, path), path, Onward)
          /\ Follow(start, path) = Ending(w[Len(path)])
  BY <1>1, FollowWalks
<1>3. w[0] = [at |-> Root, name |-> << >>]
  BY <1>1, <1>2 DEF Folded, Beginning, IsAbsolute
<1>4. w[0] \in Walks /\ w[1] = Onward[<<w[0], Separator>>]
  <2>1. 1 \in 1..Len(path) /\ 1 - 1 = 0 /\ 0 \in 0..Len(path)
    BY <1>1
  <2> QED
    BY <1>1, <1>2, <2>1 DEF Folded
<1>5. w[1] = Advance(w[0], Separator)
  BY <1>4, AdvanceStays, TreeIs
<1>6. w[1] = [at |-> Root, name |-> << >>]
  BY <1>3, <1>5 DEF Advance, Step
<1>7. Ending(w[1]) = Root
  BY <1>6 DEF Ending, Step
<1> QED
  BY <1>1, <1>2, <1>7 DEF path

-----------------------------------------------------------------------------
(* The text of a place leads to the place. *)

Spelling == [p \in Seq(Characters) \X EntryNames |-> p[1] \o <<Separator>> \o p[2]]
\* The text of a place, but nothing for the root.
Stem(place) == IF place = Root THEN << >> ELSE Text(place)

\* Spelling takes texts to texts.
LEMMA SpellingIs ==
    /\ Spelling \in [Seq(Characters) \X EntryNames -> Seq(Characters)]
    /\ \A text \in Seq(Characters), name \in EntryNames :
          Spelling[<<text, name>>] = text \o <<Separator>> \o name
<1>1. Separator \in Characters
  BY PathsAssumption
<1>2. ASSUME NEW text \in Seq(Characters), NEW name \in EntryNames
      PROVE  text \o <<Separator>> \o name \in Seq(Characters)
  <2>1. name \in Seq(Characters)
    BY DEF EntryNames
  <2>2. text \o <<Separator>> \in Seq(Characters)
    BY <1>1
  <2> QED
    BY <2>1, <2>2
<1> QED
  BY <1>2 DEF Spelling

\* The text of a place is a fold over its names.
LEMMA StemIsFold ==
    ASSUME NEW place \in Seq(EntryNames)
    PROVE  \E t \in [0..Len(place) -> Seq(Characters)] :
              Folded(t, << >>, place, Spelling) /\ Stem(place) = t[Len(place)]
<1> DEFINE Body(f) == [n \in 0..Len(place) |->
                         IF n = 0 THEN << >> ELSE f[n - 1] \o <<Separator>> \o place[n]]
<1> Len(place) \in Nat
  OBVIOUS
<1>1. << >> \in Seq(Characters)
  OBVIOUS
<1>2. PICK t \in [0..Len(place) -> Seq(Characters)] : Folded(t, << >>, place, Spelling)
  BY <1>1, SpellingIs, FoldIsThere
<1>3. t[0] = << >> /\ \A n \in 1..Len(place) : t[n] = t[n - 1] \o <<Separator>> \o place[n]
  <2> SUFFICES ASSUME NEW n \in 1..Len(place) PROVE t[n] = t[n - 1] \o <<Separator>> \o place[n]
    BY <1>2 DEF Folded
  <2>1. t[n - 1] \in Seq(Characters) /\ place[n] \in EntryNames
    OBVIOUS
  <2>2. t[n] = Spelling[<<t[n - 1], place[n]>>]
    BY <1>2 DEF Folded
  <2> QED
    BY <2>1, <2>2, SpellingIs
<1>4. t = Body(t)
  <2>1. \A n \in 0..Len(place) : t[n] = Body(t)[n]
    <3> TAKE n \in 0..Len(place)
    <3>1. CASE n = 0
      BY <1>3, <3>1
    <3>2. CASE n # 0
      <4>1. n \in 1..Len(place)
        BY <3>2
      <4>2. t[n] = t[n - 1] \o <<Separator>> \o place[n]
        BY <1>3, <4>1
      <4> QED
        BY <3>2, <4>2
    <3> QED
      BY <3>1, <3>2
  <2>2. t = [n \in 0..Len(place) |-> t[n]]
    OBVIOUS
  <2>3. Body(t) = [n \in 0..Len(place) |-> Body(t)[n]]
    OBVIOUS
  <2> HIDE DEF Body
  <2> QED
    BY <2>1, <2>2, <2>3, Zenon
<1> DEFINE c == CHOOSE h : h = Body(h)
<1>5. c = Body(c)
  <2> HIDE DEF Body
  <2> QED
    BY <1>4, Zenon
<1> HIDE DEF c
<1>6. c[0] = << >>
  BY <1>5
<1>7. \A n \in 1..Len(place) : c[n] = c[n - 1] \o <<Separator>> \o place[n]
  <2> TAKE n \in 1..Len(place)
  <2>1. n \in 0..Len(place) /\ n # 0
    OBVIOUS
  <2>2. c[n] = Body(c)[n]
    BY <1>5, Zenon
  <2>3. Body(c)[n] = c[n - 1] \o <<Separator>> \o place[n]
    BY <2>1
  <2> QED
    BY <2>2, <2>3, Zenon
<1> DEFINE Different == {n \in 0..Len(place) : c[n] # t[n]}
<1>8. Different = {}
  <2>1. 0 \notin Different /\ Different \subseteq 0..Len(place)
    BY <1>3, <1>6
  <2>2. \A n \in 1..Len(place) : n \in Different => n - 1 \in Different
    <3> SUFFICES ASSUME NEW n \in 1..Len(place), n - 1 \notin Different PROVE n \notin Different
      OBVIOUS
    <3>1. c[n - 1] = t[n - 1]
      OBVIOUS
    <3>2. /\ c[n] = c[n - 1] \o <<Separator>> \o place[n]
          /\ t[n] = t[n - 1] \o <<Separator>> \o place[n]
      BY <1>3, <1>7
    <3> QED
      BY <3>1, <3>2
  <2> HIDE DEF Different
  <2> QED
    BY <2>1, <2>2, NoneUpTo
<1>9. c[Len(place)] = t[Len(place)]
  BY <1>8
<1>10. Stem(place) = t[Len(place)]
  <2>1. CASE place = Root
    BY <1>3, <2>1 DEF Stem, Root
  <2>2. CASE place # Root
    <3>1. Text(place) = c[Len(place)]
      BY <2>2 DEF Text, c
    <3> QED
      BY <1>9, <2>2, <3>1 DEF Stem
  <2> QED
    BY <2>1, <2>2
<1> QED
  BY <1>2, <1>10

\* The text of a place is that of the place before it, a separator and a name.
LEMMA StemGrows ==
    ASSUME tree \in Trees, NEW place \in tree \ {Root}
    PROVE  /\ Front(place) \in tree /\ Len(Front(place)) = Len(place) - 1
           /\ Last(place) \in EntryNames
           /\ place = Append(Front(place), Last(place))
           /\ Stem(Front(place)) \in Seq(Characters)
           /\ Stem(place) = Stem(Front(place)) \o <<Separator>> \o Last(place)
<1> DEFINE n == Len(place)
           front == Front(place)
<1>1. place \in Seq(EntryNames) /\ n \in Nat /\ n > 0 /\ front \in tree /\ front \in Seq(EntryNames)
  BY TreeIs
<1>2. /\ Len(front) = n - 1 /\ n \in 1..n /\ n - 1 \in 0..(n - 1) /\ n - 1 \in Nat
      /\ \A i \in 1..(n - 1) : place[i] = front[i]
  <2>1. n \in 1..n /\ n - 1 \in 0..(n - 1) /\ n - 1 \in Nat
    BY <1>1
  <2>2. \A i \in 1..(n - 1) : place[i] \in EntryNames
    BY <1>1
  <2> DEFINE m == n - 1
  <2>3. /\ Len(SubSeq(place, 1, m)) = IF 1 <= m THEN m - 1 + 1 ELSE 0
        /\ \A i \in 1..(m - 1 + 1) : SubSeq(place, 1, m)[i] = place[1 + i - 1]
    <3>1. m \in Int /\ 1 \in Int
      BY <2>1
    <3> HIDE DEF m
    <3> QED
      BY <2>2, <3>1, SubSeqProperties DEF m
  <2>4. front = SubSeq(place, 1, m)
    BY DEF Front
  <2> HIDE DEF n, front
  <2> QED
    BY <2>1, <2>3, <2>4
<1>3. Last(place) = place[n] /\ Last(place) \in EntryNames /\ place = Append(front, Last(place))
  BY <1>1 DEF Front, Last
<1>4. PICK t \in [0..n -> Seq(Characters)] :
          Folded(t, << >>, place, Spelling) /\ Stem(place) = t[n]
  BY <1>1, StemIsFold
<1> HIDE DEF front
<1>5. PICK u \in [0..Len(front) -> Seq(Characters)] :
          Folded(u, << >>, front, Spelling) /\ Stem(front) = u[Len(front)]
  BY <1>1, StemIsFold
<1>6. t[n - 1] = u[n - 1]
  <2> DEFINE m == n - 1
  <2>1. m \in Nat /\ m <= Len(place) /\ m <= Len(front) /\ Len(front) \in Nat /\ Len(place) \in Nat
    BY <1>1, <1>2
  <2>2. \A i \in 1..m : place[i] = front[i]
    BY <1>2
  <2>3. \A i \in 0..m : t[i] = u[i]
    <3> DEFINE x == << >>
    <3>1. Folded(t, x, place, Spelling) /\ Folded(u, x, front, Spelling)
      BY <1>4, <1>5
    <3> HIDE DEF m, x
    <3> QED
      BY <2>1, <2>2, <3>1, FoldsAgree, SMTT(30)
  <2> QED
    BY <1>2, <2>3
<1>7. t[n - 1] \in Seq(Characters) /\ t[n] = Spelling[<<t[n - 1], place[n]>>]
  <2>1. n - 1 \in 0..n
    BY <1>1
  <2> QED
    BY <1>2, <1>4, <2>1 DEF Folded
<1>8. t[n] = t[n - 1] \o <<Separator>> \o place[n]
  BY <1>3, <1>7, SpellingIs
<1> QED
  BY <1>1, <1>2, <1>3, <1>4, <1>5, <1>6, <1>7, <1>8 DEF front

\* What the text of a place is, and that it leads there.
Leads(place) ==
    /\ Text(place) \in Seq(Characters) /\ IsAbsolute(Text(place))
    /\ Follow(WorkingPlace, Text(place)) = place

\* The text of the root leads to the root.
LEMMA RootLeads ==
    ASSUME tree \in Trees
    PROVE  Leads(Root)
<1>1. Text(Root) = <<Separator>> /\ <<Separator>> \in Seq(Characters)
  BY TreeIs DEF Text
<1>2. WorkingPlace \in Reachable
  BY TreeIs DEF Reachable
<1> QED
  BY <1>1, <1>2, FollowRoot DEF Leads, IsAbsolute

\* If the text of the place before leads there, so does that of the place.
LEMMA NextLeads ==
    ASSUME tree \in Trees, NEW place \in tree \ {Root}, Leads(Front(place))
    PROVE  Leads(place)
<1> DEFINE front == Front(place)
           name == Last(place)
           stem == Stem(front)
           head == stem \o <<Separator>>
<1>1. /\ front \in tree /\ name \in EntryNames /\ place = Append(front, name)
      /\ stem \in Seq(Characters) /\ Text(place) = head \o name
  BY StemGrows DEF Stem
<1>2. /\ name \in Seq(Characters \ {Separator}) /\ name \in Seq(Characters)
      /\ name \notin {<< >>, <<Dot>>, <<Dot, Dot>>}
  BY <1>1 DEF EntryNames
<1>3. ~IsAbsolute(name)
  BY <1>2 DEF IsAbsolute
<1>4. WorkingPlace \in Reachable /\ front \in Reachable /\ front # Nowhere
  BY <1>1, TreeIs DEF Reachable
<1>5. head \in Seq(Characters) /\ head # << >> /\ head[Len(head)] = Separator
  <2>1. Separator \in Characters
    BY TreeIs
  <2> HIDE DEF stem
  <2> QED
    BY <1>1, <2>1
<1>6. Follow(WorkingPlace, head) = front /\ head[1] = Separator
  <2>1. CASE front = Root
    <3>1. head = <<Separator>>
      BY <2>1 DEF Stem
    <3>2. Follow(WorkingPlace, <<Separator>>) = Root /\ <<Separator>>[1] = Separator
      BY <1>4, FollowRoot
    <3> HIDE DEF head, front
    <3> QED
      BY <2>1, <3>1, <3>2
  <2>2. CASE front # Root
    <3>1. stem = Text(front) /\ stem # << >> /\ stem[1] = Separator
      BY <2>2 DEF Stem, Leads, IsAbsolute
    <3>2. Follow(WorkingPlace, stem) = front
      BY <3>1 DEF Leads
    <3>3. Follow(WorkingPlace, head) = Follow(WorkingPlace, stem)
      <4> HIDE DEF stem
      <4> QED
        BY <1>1, <1>4, <3>1, FollowSlash
    <3>4. head[1] = stem[1]
      <4> HIDE DEF stem
      <4> QED
        BY <1>1, <3>1
    <3> QED
      BY <3>1, <3>2, <3>3, <3>4
  <2> QED
    BY <2>1, <2>2
<1> HIDE DEF front, name, head
<1>7. Follow(WorkingPlace, head \o name) = Follow(front, name)
  BY <1>2, <1>3, <1>4, <1>5, <1>6, FollowsOn
<1>8. Follow(front, name) = place
  <2>1. Follow(front, name) = Step(front, name)
    BY <1>2, <1>4, FollowName
  <2> QED
    BY <1>1, <1>2, <1>4, <2>1 DEF Step
<1>9. head \o name \in Seq(Characters) /\ IsAbsolute(head \o name)
  BY <1>2, <1>5, <1>6 DEF IsAbsolute
<1> QED
  BY <1>1, <1>7, <1>8, <1>9 DEF Leads

\* The text of every place leads to it, because a shortest that does not cannot be.
LEMMA TextLeads ==
    ASSUME tree \in Trees, NEW place \in tree
    PROVE  Leads(place)
<1> DEFINE Stray == {n \in 0..Len(place) : \E other \in tree : Len(other) = n /\ ~Leads(other)}
<1>1. Len(place) \in Nat /\ \A other \in tree : other \in Seq(EntryNames)
  BY TreeIs
<1>2. 0 \notin Stray /\ Stray \subseteq 0..Len(place)
  <2>1. \A other \in tree : Len(other) = 0 => Leads(other)
    BY <1>1, RootLeads DEF Root
  <2> QED
    BY <2>1
<1>3. \A n \in 1..Len(place) : n \in Stray => n - 1 \in Stray
  <2> SUFFICES ASSUME NEW n \in 1..Len(place), n \in Stray PROVE n - 1 \in Stray
    OBVIOUS
  <2>1. PICK other \in tree : Len(other) = n /\ ~Leads(other)
    OBVIOUS
  <2>2. other # Root
    BY <2>1, RootLeads
  <2>3. Front(other) \in tree /\ Len(Front(other)) = n - 1 /\ ~Leads(Front(other))
    BY <2>1, <2>2, StemGrows, NextLeads
  <2> QED
    BY <1>1, <2>3
<1>4. Stray = {}
  <2> HIDE DEF Stray
  <2> QED
    BY <1>1, <1>2, <1>3, NoneUpTo
<1> QED
  BY <1>1, <1>4

-----------------------------------------------------------------------------
(* The paths that are tried. *)

\* What is cut off the text of a place is the text of the place before it.
LEMMA DirectoryOfText ==
    ASSUME tree \in Trees, NEW place \in tree \ {Root},
           Len(Text(place)) < LLFPL_MODULE_PATH_BUFFER_CAPACITY
    PROVE  ExtractedDirectory(Text(place)) = Text(Front(place))
<1> DEFINE text == Text(place)
           front == Front(place)
           name == Last(place)
           stem == Stem(front)
           k == Len(stem) + 1
<1>1. /\ front \in tree /\ name \in EntryNames /\ stem \in Seq(Characters)
      /\ text = stem \o <<Separator>> \o name
  BY StemGrows DEF Stem
<1>2. name \in Seq(Characters \ {Separator})
  BY <1>1 DEF EntryNames
<1>3. LLFPL_MODULE_PATH_BUFFER_CAPACITY \in Nat /\ Separator \in Characters
  BY PathsAssumption
<1>4. stem # << >> <=> front # Root
  <2>1. front # Root => stem = Text(front) /\ Text(front) # << >>
    BY <1>1, TextLeads DEF Stem, Leads, IsAbsolute
  <2> QED
    BY <2>1 DEF Stem
<1> HIDE DEF text, front, name, stem
<1>5. text \in Seq(Characters) /\ Len(text) = k + Len(name) /\ k \in Nat /\ Len(name) \in Nat
  BY <1>1, <1>2, <1>3
<1>6. text[k] = Separator /\ k \in 1..Len(text)
  BY <1>1, <1>2, <1>3
<1>7. \A i \in 1..Len(text) : i > k => text[i] # Separator
  <2> TAKE i \in 1..Len(text)
  <2> HAVE i > k
  <2>1. i - k \in 1..Len(name) /\ text[i] = name[i - k]
    BY <1>1, <1>2, <1>3, <1>5
  <2> QED
    BY <1>2, <2>1
<1>8. SubSeq(text, 1, k - 1) = stem
  BY <1>1, <1>2, <1>3, <1>5
<1>9. SelectLastInSeq(text, LAMBDA c : c = Separator) = k
  <2> DEFINE I == {i \in 1..Len(text) : text[i] = Separator}
  <2>1. k \in I /\ \A i \in I : k >= i /\ i \in Nat
    BY <1>5, <1>6, <1>7
  <2>2. Max(I) = k
    <3> HIDE DEF I
    <3>1. \A x \in I : (\A y \in I : x >= y) => x = k
      BY <1>5, <2>1
    <3> QED
      BY <2>1, <3>1 DEF Max
  <2>3. SelectLastInSeq(text, LAMBDA c : c = Separator) = IF I # {} THEN Max(I) ELSE 0
    BY DEF SelectLastInSeq
  <2> HIDE DEF I
  <2> QED
    BY <2>1, <2>2, <2>3
<1>10. ExtractedDirectory(text)
         = IF k = 1 THEN <<Separator>> ELSE Copied(SubSeq(text, 1, k - 1))
  BY <1>5, <1>9 DEF ExtractedDirectory
<1>11. CASE stem = << >>
  <2>1. k = 1 /\ Text(front) = <<Separator>>
    BY <1>4, <1>11 DEF Text
  <2> QED
    BY <1>10, <2>1 DEF text, front
<1>12. CASE stem # << >>
  <2>1. k # 1
    BY <1>1, <1>12
  <2>2. stem = Text(front)
    BY <1>4, <1>12 DEF stem, Stem
  <2>3. Len(text) < LLFPL_MODULE_PATH_BUFFER_CAPACITY
    BY DEF text
  <2>4. Copied(stem) = stem
    BY <1>1, <1>3, <1>5, <2>3 DEF Copied
  <2> QED
    BY <1>8, <1>10, <2>1, <2>2, <2>4 DEF text, front
<1> QED
  BY <1>11, <1>12

\* A joined path leads where the second leads from where the first does.
LEMMA JoinedLeads ==
    ASSUME tree \in Trees, NEW directory \in Seq(Characters),
           NEW relative \in Seq(Characters), relative # << >>, ~IsAbsolute(relative)
    PROVE  \E path \in Seq(Characters) \ {<< >>} :
              /\ Len(path) = LengthBefore(directory) + Len(relative)
              /\ Follow(WorkingPlace, path) = Follow(Follow(WorkingPlace, directory), relative)
              /\ Joined(directory, relative) = Copied(path)
<1>1. WorkingPlace \in Reachable /\ Separator \in Characters /\ Dot \in Characters
  BY TreeIs DEF Reachable
<1>2. Len(directory) \in Nat /\ Len(relative) \in Nat
  OBVIOUS
<1>3. CASE directory \in {<< >>, <<Dot>>}
  <2>1. Follow(WorkingPlace, directory) = WorkingPlace
    <3>1. CASE directory = << >>
      BY <1>1, <3>1, FollowNothing
    <3>2. CASE directory = <<Dot>>
      <4>1. <<Dot>> \in Seq(Characters \ {Separator})
        <5>1. Dot # Separator
          BY DEF Dot, Separator
        <5> QED
          BY <1>1, <5>1
      <4>2. Follow(WorkingPlace, <<Dot>>) = Step(WorkingPlace, <<Dot>>)
        BY <1>1, <4>1, FollowName
      <4> QED
        BY <3>2, <4>2 DEF Step
    <3> QED
      BY <1>3, <3>1, <3>2
  <2>2. Joined(directory, relative) = Copied(relative)
    BY <1>3 DEF Joined
  <2>3. Len(relative) = LengthBefore(directory) + Len(relative)
    BY <1>2, <1>3 DEF LengthBefore
  <2> QED
    BY <2>1, <2>2, <2>3
<1>4. CASE directory \notin {<< >>, <<Dot>>} /\ directory[Len(directory)] = Separator
  <2> DEFINE path == directory \o relative
  <2>1. /\ path \in Seq(Characters) /\ path # << >>
        /\ Len(path) = LengthBefore(directory) + Len(relative)
    <3>1. path \in Seq(Characters) /\ path # << >> /\ Len(path) = Len(directory) + Len(relative)
      OBVIOUS
    <3>2. LengthBefore(directory) = Len(directory)
      BY <1>4 DEF LengthBefore, Last
    <3> QED
      BY <3>1, <3>2
  <2>2. Follow(WorkingPlace, path) = Follow(Follow(WorkingPlace, directory), relative)
    BY <1>1, <1>4, FollowsOn
  <2>3. Joined(directory, relative) = Copied(path)
    <3>1. directory \o << >> = directory
      OBVIOUS
    <3> QED
      BY <1>4, <3>1 DEF Joined, Last
  <2> HIDE DEF path
  <2> QED
    BY <2>1, <2>2, <2>3
<1>5. CASE directory \notin {<< >>, <<Dot>>} /\ directory[Len(directory)] # Separator
  <2> DEFINE head == directory \o <<Separator>>
             path == head \o relative
  <2>1. /\ head \in Seq(Characters) /\ head # << >> /\ head[Len(head)] = Separator
        /\ Len(head) = Len(directory) + 1
    BY <1>1
  <2>2. Follow(WorkingPlace, head) = Follow(WorkingPlace, directory)
    BY <1>1, <1>5, FollowSlash
  <2>3. Joined(directory, relative) = Copied(path)
    BY <1>5 DEF Joined, Last
  <2> HIDE DEF head
  <2>4. /\ path \in Seq(Characters) /\ path # << >>
        /\ Len(path) = LengthBefore(directory) + Len(relative)
    <3>1. path \in Seq(Characters) /\ path # << >> /\ Len(path) = Len(head) + Len(relative)
      BY <2>1
    <3>2. LengthBefore(directory) = Len(directory) + 1
      BY <1>5 DEF LengthBefore, Last
    <3> QED
      BY <2>1, <3>1, <3>2
  <2>5. Follow(WorkingPlace, path) = Follow(Follow(WorkingPlace, head), relative)
    BY <1>1, <2>1, FollowsOn
  <2> HIDE DEF path
  <2> QED
    BY <2>2, <2>3, <2>4, <2>5
<1> QED
  BY <1>3, <1>4, <1>5

\* What trying a path comes to.
Found(candidate) == IF candidate = << >> THEN << >> ELSE Canonical(candidate)

\* A path that leads to a place finds it, if it and what it stands for fit.
LEMMA FoundIs ==
    ASSUME tree \in Trees, NEW path \in Seq(Characters), path # << >>,
           NEW candidate \in {path, Copied(path)}
    PROVE  LET place == Follow(WorkingPlace, path)
           IN  /\ Found(candidate) # << >> <=>
                     /\ candidate # << >> /\ place # Nowhere
                     /\ ~(Len(Text(place)) + 1 > LLFPL_MODULE_PATH_BUFFER_CAPACITY)
               /\ Found(candidate) # << >> => Found(candidate) = Text(place)
<1> DEFINE place == Follow(WorkingPlace, path)
<1>1. place \in Reachable
  BY TreeIs, FollowStays DEF Reachable
<1>2. CASE candidate = << >>
  BY <1>2 DEF Found
<1>3. CASE candidate # << >>
  <2>1. candidate = path
    BY <1>3 DEF Copied
  <2>2. Found(candidate) = IF place = Nowhere THEN << >> ELSE Copied(Text(place))
    BY <1>3, <2>1 DEF Found, Canonical
  <2>3. place # Nowhere => Text(place) # << >>
    BY <1>1, TextLeads DEF Reachable, Leads, IsAbsolute
  <2>4. Text(place) # << >> =>
           /\ Copied(Text(place)) # << >>
                 <=> ~(Len(Text(place)) + 1 > LLFPL_MODULE_PATH_BUFFER_CAPACITY)
           /\ Copied(Text(place)) # << >> => Copied(Text(place)) = Text(place)
    BY DEF Copied
  <2> HIDE DEF place
  <2> QED
    BY <1>3, <2>2, <2>3, <2>4, Zenon DEF place
<1> QED
  BY <1>2, <1>3

-----------------------------------------------------------------------------
(* The search. *)

Own == Follow(Root, requesting_module_path)
\* How many places are tried before the given directories.
Offset == IF Own = Root THEN 0 ELSE 1

\* The inputs of a search, and that they stay what they are.
Searched ==
    /\ tree \in Trees
    /\ module_specification \in RequiredPaths
    /\ search_directories \in DirectoryLists
    /\ Own \in tree /\ requesting_module_path = Stem(Own)
    /\ Len(requesting_module_path) < LLFPL_MODULE_PATH_BUFFER_CAPACITY

\* What exists so far does not fit.
Refused(n) == \A i \in Existing : i <= n => ~FitsBuffers(i)
\* A module was found, as it should be.
IsFirst(path) ==
    \E i \in Existing :
       /\ FitsBuffers(i) /\ path = Text(Named(i))
       /\ \A j \in Existing : j < i => ~FitsBuffers(j)

\* The types of the inputs.
LEMMA InputsAre ==
    ASSUME Searched
    PROVE  /\ module_specification \in Seq(Characters) /\ module_specification # << >>
           /\ search_directories \in Seq(Seq(Characters)) /\ Len(search_directories) \in Nat
           /\ DOMAIN search_directories = 1..Len(search_directories)
           /\ WorkingPlace \in Reachable /\ Root \in Reachable /\ Offset \in {0, 1}
<1>1. /\ module_specification \in Seq(Characters) \ {<< >>}
      /\ search_directories \in Seq(Seq(Characters))
  BY PathsAssumption DEF Searched
<1>2. WorkingPlace \in Reachable /\ Root \in Reachable
  BY TreeIs DEF Reachable, Searched
<1> QED
  BY <1>1, <1>2 DEF Offset

\* The elements of two sequences in a row.
LEMMA ConcatIs ==
    ASSUME NEW S, NEW s \in Seq(S), NEW r \in Seq(S)
    PROVE  /\ s \o r \in Seq(S) /\ Len(s \o r) = Len(s) + Len(r)
           /\ \A i \in 1..Len(s) : (s \o r)[i] = s[i]
           /\ \A i \in 1..Len(r) : (s \o r)[Len(s) + i] = r[i]
OBVIOUS

\* The length of the specification joined with a directory.
JoinedIn(directory) == LengthBefore(directory) + Len(module_specification)

\* The places that are tried: the own directory, the given ones, the working one.
LEMMA StartsAre ==
    ASSUME Searched, ~IsAbsolute(module_specification)
    PROVE  /\ DOMAIN Starts = 1..(Offset + Len(search_directories) + 1)
           /\ Offset = 1 =>
                 Starts[1] = [at |-> Front(Own), joined |-> JoinedIn(Text(Front(Own)))]
           /\ \A k \in 1..Len(search_directories) :
                 Starts[Offset + k] = [at |-> Follow(WorkingPlace, search_directories[k]),
                                       joined |-> JoinedIn(search_directories[k])]
           /\ Starts[Offset + Len(search_directories) + 1] = [at |-> WorkingPlace, joined |-> 0]
<1> DEFINE local == IF Own = Root THEN << >>
                    ELSE <<[at |-> Front(Own), joined |-> JoinedIn(Text(Front(Own)))]>>
           start(i) == [at |-> Follow(WorkingPlace, search_directories[i]),
                        joined |-> JoinedIn(search_directories[i])]
           given == [i \in DOMAIN search_directories |-> start(i)]
           last == <<[at |-> WorkingPlace, joined |-> 0]>>
           n == Len(search_directories)
<1>1. Starts = local \o given \o last
  BY DEF Starts, Own, JoinedIn
<1>2. n \in Nat /\ DOMAIN search_directories = 1..n
  BY InputsAre
<1>3. /\ given \in Seq({start(i) : i \in 1..n}) /\ Len(given) = n
      /\ \A i \in 1..n : given[i] = start(i)
  <2> HIDE DEF start
  <2> QED
    BY <1>2
<1> DEFINE S == {[at |-> Front(Own), joined |-> JoinedIn(Text(Front(Own)))],
                 [at |-> WorkingPlace, joined |-> 0]} \cup {start(i) : i \in 1..n}
<1>4. /\ local \in Seq(S) /\ Len(local) = Offset
      /\ Offset = 1 => local[1] = [at |-> Front(Own), joined |-> JoinedIn(Text(Front(Own)))]
  <2>1. CASE Own = Root
    BY <2>1 DEF Offset
  <2>2. CASE Own # Root
    <3> DEFINE s == [at |-> Front(Own), joined |-> JoinedIn(Text(Front(Own)))]
    <3>1. local = <<s>> /\ s \in S /\ Offset = 1
      BY <2>2 DEF Offset
    <3> HIDE DEF s, S, local
    <3>2. local \in Seq(S) /\ Len(local) = 1 /\ local[1] = s
      BY <3>1
    <3> QED
      BY <3>1, <3>2 DEF s
  <2> QED
    BY <2>1, <2>2
<1>5. given \in Seq(S)
  <2> HIDE DEF given, start
  <2> QED
    BY <1>3
<1>6. last \in Seq(S) /\ Len(last) = 1 /\ last[1] = [at |-> WorkingPlace, joined |-> 0]
  OBVIOUS
<1>7. Offset \in {0, 1}
  BY DEF Offset
<1> HIDE DEF local, given, last, S
<1>8. /\ local \o given \in Seq(S) /\ Len(local \o given) = Offset + n
      /\ \A i \in 1..Offset : (local \o given)[i] = local[i]
      /\ \A k \in 1..n : (local \o given)[Offset + k] = given[k]
  <2>1. /\ local \o given \in Seq(S) /\ Len(local \o given) = Len(local) + Len(given)
        /\ \A i \in 1..Len(local) : (local \o given)[i] = local[i]
        /\ \A k \in 1..Len(given) : (local \o given)[Len(local) + k] = given[k]
    <3>1. local \in Seq(S) /\ given \in Seq(S)
      BY <1>4, <1>5
    <3> QED
      BY <3>1, ConcatIs
  <2>2. Len(local) = Offset /\ Len(given) = n
    BY <1>3, <1>4
  <2> HIDE DEF n, start
  <2> QED
    BY <2>1, <2>2
<1> DEFINE both == local \o given
<1>9. /\ both \in Seq(S) /\ Len(both) = Offset + n /\ Offset + n \in Nat
      /\ Starts = both \o last
  BY <1>1, <1>2, <1>7, <1>8
<1> HIDE DEF both
<1>10. /\ Starts \in Seq(S) /\ Len(Starts) = Offset + n + 1
       /\ \A i \in 1..(Offset + n) : Starts[i] = both[i]
       /\ Starts[Offset + n + 1] = last[1]
  <2>1. 1 \in 1..Len(last)
    BY <1>6
  <2> QED
    BY <1>6, <1>9, <2>1, ConcatIs
<1>11. DOMAIN Starts = 1..(Offset + n + 1)
  BY <1>10
<1>12. Starts[Offset + n + 1] = [at |-> WorkingPlace, joined |-> 0]
  BY <1>6, <1>10
<1>13. Offset = 1 => Starts[1] = [at |-> Front(Own), joined |-> JoinedIn(Text(Front(Own)))]
  <2> SUFFICES ASSUME Offset = 1
               PROVE  Starts[1] = [at |-> Front(Own), joined |-> JoinedIn(Text(Front(Own)))]
    OBVIOUS
  <2>1. 1 \in 1..(Offset + n) /\ 1 \in 1..Offset
    BY <1>2
  <2>2. both[1] = local[1]
    BY <1>8, <2>1 DEF both
  <2> QED
    BY <1>4, <1>10, <2>1, <2>2
<1>14. \A k \in 1..n : Starts[Offset + k] = start(k)
  <2> TAKE k \in 1..n
  <2>1. Offset + k \in 1..(Offset + n)
    BY <1>2, <1>7
  <2>2. both[Offset + k] = given[k]
    BY <1>8 DEF both
  <2> HIDE DEF start
  <2> QED
    BY <1>3, <1>10, <2>1, <2>2
<1> QED
  BY <1>11, <1>12, <1>13, <1>14

\* The places of an absolute path.
LEMMA OneStart ==
    ASSUME IsAbsolute(module_specification)
    PROVE  DOMAIN Starts = {1} /\ Starts[1] = [at |-> Root, joined |-> 0]
<1>1. Starts = <<[at |-> Root, joined |-> 0]>>
  BY DEF Starts
<1> QED
  BY <1>1

\* Trying the next place, by any path that leads to what it names.
LEMMA TryNext ==
    ASSUME Searched, NEW n \in Nat, n \in DOMAIN Starts, Refused(n - 1),
           NEW path \in Seq(Characters) \ {<< >>},
           Follow(WorkingPlace, path) = Named(n), NEW candidate,
           \/ candidate = path /\ Starts[n].joined = 0
           \/ candidate = Copied(path) /\ Starts[n].joined = Len(path)
    PROVE  /\ Found(candidate) # << >> => IsFirst(Found(candidate))
           /\ Found(candidate) = << >> => Refused(n)
<1> DEFINE place == Named(n)
           found == Found(candidate)
<1>1. DOMAIN Starts \subseteq Nat
  <2>1. CASE IsAbsolute(module_specification)
    BY <2>1, OneStart
  <2>2. CASE ~IsAbsolute(module_specification)
    BY <2>2, StartsAre, InputsAre
  <2> QED
    BY <2>1, <2>2
<1>2. /\ found # << >> <=>
            /\ candidate # << >> /\ place # Nowhere
            /\ ~(Len(Text(place)) + 1 > LLFPL_MODULE_PATH_BUFFER_CAPACITY)
      /\ found # << >> => found = Text(place)
  BY FoundIs DEF Searched
<1>3. n \in Existing <=> place # Nowhere
  BY DEF Existing
<1>4. \A j \in Existing : j \in Nat /\ (j < n <=> j <= n - 1) /\ (j <= n <=> j = n \/ j <= n - 1)
  BY <1>1 DEF Existing
<1>5. ASSUME n \in Existing PROVE found # << >> <=> FitsBuffers(n)
  <2>1. Len(path) \in Nat \ {0}
    OBVIOUS
  <2>2. /\ LLFPL_MODULE_PATH_BUFFER_CAPACITY \in Nat
        /\ 0 < LLFPL_MODULE_PATH_BUFFER_CAPACITY
    <3>1. Len(requesting_module_path) \in Nat
      <4>1. Own \in tree /\ requesting_module_path = Stem(Own) /\ tree \in Trees
        BY DEF Searched
      <4>2. CASE Own = Root
        BY <4>1, <4>2 DEF Stem
      <4>3. CASE Own # Root
        <5>1. Text(Own) \in Seq(Characters)
          BY <4>1, TextLeads DEF Leads
        <5> QED
          BY <4>1, <4>3, <5>1 DEF Stem
      <4> QED
        BY <4>2, <4>3
    <3> QED
      BY <3>1, PathsAssumption DEF Searched
  <2>3. Len(Text(place)) \in Nat
    <3>1. place \in tree
      <4>1. place \in Reachable
        BY InputsAre, FollowStays DEF Searched
      <4> QED
        BY <1>3, <1>5, <4>1 DEF Reachable
    <3>2. Text(place) \in Seq(Characters)
      BY <3>1, TextLeads DEF Leads, Searched
    <3> QED
      BY <3>2
  <2> HIDE DEF place
  <2>4. candidate # << >> <=> Starts[n].joined < LLFPL_MODULE_PATH_BUFFER_CAPACITY
    <3>1. CASE candidate = path /\ Starts[n].joined = 0
      BY <2>2, <3>1
    <3>2. CASE candidate = Copied(path) /\ Starts[n].joined = Len(path)
      <4>1. Copied(path) # << >> <=> ~(Len(path) + 1 > LLFPL_MODULE_PATH_BUFFER_CAPACITY)
        BY DEF Copied
      <4> QED
        BY <2>1, <2>2, <3>2, <4>1
    <3> QED
      BY <3>1, <3>2
  <2>5. Len(Text(place)) < LLFPL_MODULE_PATH_BUFFER_CAPACITY
           <=> ~(Len(Text(place)) + 1 > LLFPL_MODULE_PATH_BUFFER_CAPACITY)
    BY <2>2, <2>3
  <2>6. found # << >> <=>
           /\ Starts[n].joined < LLFPL_MODULE_PATH_BUFFER_CAPACITY
           /\ Len(Text(place)) < LLFPL_MODULE_PATH_BUFFER_CAPACITY
    BY <1>2, <1>3, <1>5, <2>4, <2>5
  <2> QED
    BY <2>6 DEF FitsBuffers, place
<1>6. ASSUME found # << >> PROVE IsFirst(found)
  BY <1>2, <1>3, <1>4, <1>5, <1>6 DEF IsFirst, Refused
<1>7. ASSUME found = << >> PROVE Refused(n)
  BY <1>4, <1>5, <1>7 DEF Refused
<1> QED
  BY <1>6, <1>7

\* The inputs mean the same before and after a step.
LEMMA SameInputs ==
    ASSUME UNCHANGED Inputs
    PROVE  /\ Searched' <=> Searched
           /\ Own' = Own /\ Offset' = Offset
           /\ \A n : Refused(n)' <=> Refused(n)
           /\ \A path : IsFirst(path)' <=> IsFirst(path)
           /\ Existing' = Existing
           /\ \A i : FitsBuffers(i)' <=> FitsBuffers(i)
<1>1. /\ tree' = tree /\ requesting_module_path' = requesting_module_path
      /\ module_specification' = module_specification /\ search_directories' = search_directories
  BY DEF Inputs
<1>2. \A start, path : Follow(start, path)' = Follow(start, path)
  BY <1>1 DEF Follow, Advance, Step
<1>3. Own' = Own
  BY <1>1, <1>2 DEF Own
<1>4. Offset' = Offset
  BY <1>3 DEF Offset
<1>5. Starts' = Starts
  BY <1>1, <1>2 DEF Starts
<1>6. \A i : Named(i)' = Named(i)
  BY <1>1, <1>2, <1>5 DEF Named
<1>7. Existing' = Existing
  BY <1>5, <1>6 DEF Existing
<1>8. \A i : FitsBuffers(i)' <=> FitsBuffers(i)
  BY <1>1, <1>5, <1>6 DEF FitsBuffers
<1>9. \A n : Refused(n)' <=> Refused(n)
  BY <1>7, <1>8 DEF Refused
<1>10. \A path : IsFirst(path)' <=> IsFirst(path)
  BY <1>6, <1>7, <1>8 DEF IsFirst
<1>11. Searched' <=> Searched
  BY <1>1, <1>3 DEF Searched
<1> QED
  BY <1>3, <1>4, <1>7, <1>8, <1>9, <1>10, <1>11

\* What holds between the candidates: none of the places before the next one
\* could have been found.
PathsInv ==
    /\ Searched
    /\ search_index \in 1..(Len(search_directories) + 1)
    /\ search_control # "done" => resolution_status = "PENDING"
    /\ search_control \in {"specification", "requesting"} => search_index = 1
    /\ search_control \in {"requesting", "searching", "working"} =>
          ~IsAbsolute(module_specification)
    /\ search_control = "requesting" => Own # Root
    /\ search_control = "searching" => Refused(Offset + search_index - 1)
    /\ search_control = "working" => Refused(Offset + Len(search_directories))
    /\ FirstThatFits

\* The path of the requesting module leads to it from anywhere.
LEMMA OwnIs ==
    ASSUME tree \in Trees, NEW place \in tree
    PROVE  Follow(Root, Stem(place)) = place
<1>1. Root \in Reachable /\ WorkingPlace \in Reachable
  BY TreeIs DEF Reachable
<1>2. CASE place = Root
  BY <1>1, <1>2, FollowNothing DEF Stem
<1>3. CASE place # Root
  <2>1. /\ Text(place) \in Seq(Characters) /\ IsAbsolute(Text(place))
        /\ Follow(WorkingPlace, Text(place)) = place
    BY TextLeads DEF Leads
  <2>2. Follow(Root, Text(place)) = place
    BY <1>1, <2>1, FollowAbsolute
  <2> QED
    BY <1>3, <2>2 DEF Stem
<1> QED
  BY <1>2, <1>3

\* Only the root has no text of its own.
LEMMA StemOfRoot ==
    ASSUME tree \in Trees, NEW place \in tree
    PROVE  Stem(place) = << >> <=> place = Root
<1>1. IsAbsolute(Text(place))
  BY TextLeads DEF Leads
<1> QED
  BY <1>1 DEF Stem, IsAbsolute

\* Before the first place nothing was refused.
LEMMA NothingRefused ==
    ASSUME Searched
    PROVE  Refused(0)
<1>1. \A i \in DOMAIN Starts : ~(i <= 0)
  <2>1. CASE IsAbsolute(module_specification)
    BY <2>1, OneStart
  <2>2. CASE ~IsAbsolute(module_specification)
    BY <2>2, StartsAre, InputsAre
  <2> QED
    BY <2>1, <2>2
<1> QED
  BY <1>1 DEF Refused, Existing

\* The invariant holds when a search begins.
LEMMA SearchBegins ==
    ASSUME PathsInit
    PROVE  PathsInv
<1>1. /\ tree \in Trees /\ module_specification \in RequiredPaths
      /\ search_directories \in DirectoryLists
      /\ Len(requesting_module_path) < LLFPL_MODULE_PATH_BUFFER_CAPACITY
      /\ search_index = 1 /\ search_control = "specification" /\ resolution_status = "PENDING"
  BY DEF PathsInit
<1>2. PICK place \in tree : requesting_module_path = Stem(place)
  <2>1. Root \in tree
    BY <1>1, TreeIs
  <2> QED
    BY <2>1 DEF PathsInit, Stem
<1>3. Own = place
  BY <1>1, <1>2, OwnIs DEF Own
<1>4. Searched
  BY <1>1, <1>2, <1>3 DEF Searched
<1>5. 1 \in 1..(Len(search_directories) + 1)
  BY <1>4, InputsAre
<1> QED
  BY <1>1, <1>4, <1>5 DEF PathsInv, FirstThatFits

\* A search that ends with a module has found the first; one that ends without
\* has refused them all.
LEMMA EndsWell ==
    ASSUME Searched, UNCHANGED Inputs, search_index' = search_index,
           search_index \in 1..(Len(search_directories) + 1),
           search_control' = "done",
           resolution_status' = "OK" => IsFirst(canonical_path'),
           resolution_status' = "NOT_FOUND" => \A i \in Existing : ~FitsBuffers(i)
    PROVE  PathsInv'
<1>1. Searched' /\ search_directories' = search_directories
  BY SameInputs DEF Inputs
<1>2. IsFirst(canonical_path') <=> IsFirst(canonical_path)'
  BY SameInputs DEF IsFirst
<1>3. FirstThatFits'
  <2>1. resolution_status' = "OK" => IsFirst(canonical_path)'
    BY <1>2
  <2>2. resolution_status' = "NOT_FOUND" => \A i \in Existing' : ~FitsBuffers(i)'
    BY SameInputs
  <2> QED
    BY <2>1, <2>2 DEF FirstThatFits, IsFirst
<1> QED
  BY <1>1, <1>3 DEF PathsInv

\* A specification without the extension is refused before any search.
LEMMA RefuseExtensionKeeps ==
    ASSUME PathsInv, RefuseExtension
    PROVE  PathsInv'
<1>1. /\ Searched /\ search_index \in 1..(Len(search_directories) + 1)
      /\ search_index' = search_index /\ search_control' = "done"
      /\ resolution_status' = "SEMANTIC_ERROR" /\ UNCHANGED Inputs
  BY DEF PathsInv, RefuseExtension, Return
<1> QED
  BY <1>1, EndsWell

\* An absolute specification is the only one to try.
LEMMA TryAbsoluteKeeps ==
    ASSUME PathsInv, TryAbsolute
    PROVE  PathsInv'
<1> DEFINE found == Found(module_specification)
<1>1. /\ Searched /\ IsAbsolute(module_specification) /\ UNCHANGED Inputs
      /\ search_index \in 1..(Len(search_directories) + 1) /\ search_index' = search_index
      /\ search_control' = "done" /\ canonical_path' = found
      /\ resolution_status' = IF found # << >> THEN "OK" ELSE "NOT_FOUND"
  BY DEF PathsInv, TryAbsolute, Try, Return, Found
<1>2. /\ 1 \in DOMAIN Starts /\ Starts[1].joined = 0 /\ Starts[1].at = Root
      /\ \A i \in Existing : i <= 1
  BY <1>1, OneStart DEF Existing
<1>3. /\ module_specification \in Seq(Characters) \ {<< >>}
      /\ WorkingPlace \in Reachable /\ Root \in Reachable
  BY <1>1, InputsAre
<1>4. Follow(WorkingPlace, module_specification) = Named(1)
  BY <1>1, <1>2, <1>3, FollowAbsolute DEF Named, Searched
<1>5. Refused(1 - 1)
  BY <1>1, NothingRefused
<1>6. /\ found # << >> => IsFirst(found)
      /\ found = << >> => Refused(1)
  <2>1. 1 \in Nat
    OBVIOUS
  <2> QED
    BY <1>1, <1>2, <1>3, <1>4, <1>5, <2>1, TryNext
<1>7. resolution_status' = "OK" => IsFirst(canonical_path')
  BY <1>1, <1>6
<1>8. resolution_status' = "NOT_FOUND" => \A i \in Existing : ~FitsBuffers(i)
  BY <1>1, <1>2, <1>6 DEF Refused
<1> HIDE DEF found
<1> QED
  BY <1>1, <1>7, <1>8, EndsWell

\* A search begins with the own directory, or with the given ones if there is none.
LEMMA BeginSearchKeeps ==
    ASSUME PathsInv, BeginSearch
    PROVE  PathsInv'
<1>1. /\ Searched /\ ~IsAbsolute(module_specification) /\ UNCHANGED Inputs
      /\ search_index \in 1..(Len(search_directories) + 1) /\ search_index = 1
      /\ search_index' = search_index
      /\ search_control' = IF requesting_module_path = << >> THEN "searching" ELSE "requesting"
      /\ resolution_status = "PENDING" /\ resolution_status' = resolution_status
  BY DEF PathsInv, BeginSearch, GoOn
<1>2. requesting_module_path = << >> <=> Own = Root
  BY <1>1, StemOfRoot DEF Searched
<1>3. requesting_module_path = << >> => Refused(Offset + search_index - 1)
  BY <1>1, <1>2, NothingRefused DEF Offset
<1>4. Searched' /\ Own' = Own /\ Offset' = Offset /\ \A n : Refused(n)' <=> Refused(n)
  BY <1>1, SameInputs
<1>5. /\ module_specification' = module_specification
      /\ search_directories' = search_directories
  BY <1>1 DEF Inputs
<1>6. search_control' = "searching" => Refused(Offset + search_index - 1)'
  <2>1. Refused(Offset + search_index - 1)' <=> Refused(Offset + search_index - 1)
    BY <1>1, <1>4, SameInputs DEF Refused
  <2> QED
    BY <1>1, <1>3, <2>1
<1>7. FirstThatFits'
  BY <1>1 DEF FirstThatFits
<1> QED
  BY <1>1, <1>2, <1>4, <1>5, <1>6, <1>7 DEF PathsInv, IsAbsolute, Root

\* Going on after a place that could not have been found.
LEMMA GoesOnSearching ==
    ASSUME Searched, ~IsAbsolute(module_specification), UNCHANGED Inputs,
           search_index' \in 1..(Len(search_directories) + 1),
           search_control' = "searching", resolution_status' = "PENDING",
           Refused(Offset + search_index' - 1)
    PROVE  PathsInv'
<1>1. Searched' /\ Offset' = Offset
  BY SameInputs
<1>2. /\ module_specification' = module_specification
      /\ search_directories' = search_directories
  BY DEF Inputs
<1>3. Refused(Offset + search_index - 1)'
  BY <1>1, SameInputs DEF Refused
<1>4. FirstThatFits'
  BY DEF FirstThatFits
<1>5. ~IsAbsolute(module_specification)'
  BY <1>2 DEF IsAbsolute
<1> QED
  BY <1>1, <1>2, <1>3, <1>4, <1>5 DEF PathsInv

\* What is cut off the path of the requesting module is its directory.
LEMMA TryRequestingKeeps ==
    ASSUME PathsInv, TryRequesting
    PROVE  PathsInv'
<1> DEFINE directory == ExtractedDirectory(requesting_module_path)
           candidate == Joined(directory, module_specification)
           found == Found(candidate)
<1>1. /\ Searched /\ ~IsAbsolute(module_specification) /\ UNCHANGED Inputs
      /\ search_index = 1 /\ search_index' = search_index /\ Own # Root
      /\ resolution_status = "PENDING" /\ canonical_path' = found
      /\ search_control' = IF found # << >> THEN "done" ELSE "searching"
      /\ resolution_status' = IF found # << >> THEN "OK" ELSE "PENDING"
  BY DEF PathsInv, TryRequesting, TryWithin, Try, Return, GoOn, Found
<1>2. /\ tree \in Trees /\ Own \in tree \ {Root} /\ requesting_module_path = Text(Own)
      /\ Len(Text(Own)) < LLFPL_MODULE_PATH_BUFFER_CAPACITY
  BY <1>1 DEF Searched, Stem
<1>3. directory = Text(Front(Own))
  BY <1>2, DirectoryOfText
<1>4. Front(Own) \in tree
  BY <1>2, StemGrows
<1>5. /\ directory \in Seq(Characters)
      /\ Follow(WorkingPlace, directory) = Front(Own)
  BY <1>2, <1>3, <1>4, TextLeads DEF Leads
<1>6. /\ module_specification \in Seq(Characters) /\ module_specification # << >>
      /\ Len(search_directories) \in Nat
  BY <1>1, InputsAre
<1>7. Offset = 1 /\ 1 \in DOMAIN Starts
      /\ Starts[1] = [at |-> Front(Own), joined |-> JoinedIn(directory)]
  BY <1>1, <1>3, <1>6, StartsAre DEF Offset
<1> HIDE DEF directory
<1>8. PICK path \in Seq(Characters) \ {<< >>} :
          /\ Len(path) = LengthBefore(directory) + Len(module_specification)
          /\ Follow(WorkingPlace, path)
                = Follow(Follow(WorkingPlace, directory), module_specification)
          /\ candidate = Copied(path)
  BY <1>1, <1>2, <1>5, <1>6, JoinedLeads
<1> HIDE DEF candidate
<1>9. Follow(WorkingPlace, path) = Named(1)
  BY <1>5, <1>7, <1>8 DEF Named
<1>10. /\ found # << >> => IsFirst(found)
       /\ found = << >> => Refused(1)
  <2>1. candidate = Copied(path)
    BY <1>8
  <2>2. Starts[1].joined = Len(path) /\ 1 \in Nat
    BY <1>7, <1>8 DEF JoinedIn
  <2>3. Refused(1 - 1)
    BY <1>1, NothingRefused
  <2> QED
    BY <1>1, <1>7, <1>8, <1>9, <2>1, <2>2, <2>3, TryNext
<1> HIDE DEF found
<1>11. CASE found # << >>
  <2>1. search_index \in 1..(Len(search_directories) + 1)
    BY <1>1, <1>6
  <2> QED
    BY <1>1, <1>10, <1>11, <2>1, EndsWell
<1>12. CASE found = << >>
  <2>1. Refused(Offset + search_index' - 1)
    BY <1>1, <1>7, <1>10, <1>12
  <2>2. search_index' \in 1..(Len(search_directories) + 1)
    BY <1>1, <1>6
  <2> QED
    BY <1>1, <1>12, <2>1, <2>2, GoesOnSearching
<1> QED
  BY <1>11, <1>12

\* One given directory after the other.
LEMMA TryDirectoryKeeps ==
    ASSUME PathsInv, TryDirectory
    PROVE  PathsInv'
<1> DEFINE directory == search_directories[search_index]
           candidate == Joined(directory, module_specification)
           found == Found(candidate)
           n == Offset + search_index
<1>1. /\ Searched /\ ~IsAbsolute(module_specification) /\ UNCHANGED Inputs
      /\ search_index \in 1..(Len(search_directories) + 1)
      /\ search_index <= Len(search_directories)
      /\ Refused(Offset + search_index - 1)
      /\ resolution_status = "PENDING" /\ canonical_path' = found
      /\ search_control' = IF found # << >> THEN "done" ELSE "searching"
      /\ search_index' = IF found # << >> THEN search_index ELSE search_index + 1
      /\ resolution_status' = IF found # << >> THEN "OK" ELSE "PENDING"
  <2>1. /\ Searched /\ ~IsAbsolute(module_specification)
        /\ search_index \in 1..(Len(search_directories) + 1)
        /\ search_index <= Len(search_directories)
        /\ Refused(Offset + search_index - 1) /\ resolution_status = "PENDING"
    BY DEF PathsInv, TryDirectory
  <2>2. Try(candidate, GoOn("searching", search_index + 1))
    BY DEF TryDirectory, TryWithin
  <2> HIDE DEF candidate
  <2>3. /\ UNCHANGED Inputs /\ canonical_path' = found
        /\ IF found # << >> THEN Return("OK") ELSE GoOn("searching", search_index + 1)
    BY <2>2 DEF Try, Found
  <2> HIDE DEF found
  <2> QED
    BY <2>1, <2>3 DEF Return, GoOn
<1>2. /\ module_specification \in Seq(Characters) /\ module_specification # << >>
      /\ Len(search_directories) \in Nat /\ search_index \in 1..Len(search_directories)
      /\ directory \in Seq(Characters) /\ Offset \in {0, 1} /\ tree \in Trees
      /\ WorkingPlace \in Reachable
  <2>1. /\ module_specification \in Seq(Characters) /\ module_specification # << >>
        /\ Len(search_directories) \in Nat /\ search_directories \in Seq(Seq(Characters))
        /\ Offset \in {0, 1} /\ WorkingPlace \in Reachable
    BY <1>1, InputsAre
  <2>2. search_index \in 1..Len(search_directories)
    BY <1>1, <2>1
  <2>3. directory \in Seq(Characters)
    BY <2>1, <2>2
  <2> QED
    BY <1>1, <2>1, <2>2, <2>3 DEF Searched
<1>3. n \in Nat /\ n \in DOMAIN Starts /\ n = Offset + (search_index + 1) - 1 /\ Refused(n - 1)
  <2>1. n \in Nat /\ n \in DOMAIN Starts /\ n = Offset + (search_index + 1) - 1
    BY <1>1, <1>2, StartsAre
  <2>2. n - 1 = Offset + search_index - 1
    BY <1>2
  <2> HIDE DEF n
  <2> QED
    BY <1>1, <2>1, <2>2
<1>4. Starts[n] = [at |-> Follow(WorkingPlace, directory), joined |-> JoinedIn(directory)]
  BY <1>1, <1>2, StartsAre
<1> HIDE DEF directory, n
<1>5. PICK path \in Seq(Characters) \ {<< >>} :
          /\ Len(path) = LengthBefore(directory) + Len(module_specification)
          /\ Follow(WorkingPlace, path)
                = Follow(Follow(WorkingPlace, directory), module_specification)
          /\ candidate = Copied(path)
  BY <1>1, <1>2, JoinedLeads
<1> HIDE DEF candidate
<1>6. Follow(WorkingPlace, path) = Named(n)
  BY <1>4, <1>5 DEF Named
<1>7. /\ found # << >> => IsFirst(found)
      /\ found = << >> => Refused(n)
  <2>1. candidate = Copied(path)
    BY <1>5
  <2>2. Starts[n].joined = Len(path)
    BY <1>4, <1>5 DEF JoinedIn
  <2> QED
    BY <1>1, <1>3, <1>5, <1>6, <2>1, <2>2, TryNext
<1> HIDE DEF found
<1>8. CASE found # << >>
  BY <1>1, <1>7, <1>8, EndsWell
<1>9. CASE found = << >>
  <2>1. search_index' = search_index + 1
    BY <1>1, <1>9
  <2>2. Refused(Offset + search_index' - 1)
    BY <1>3, <1>7, <1>9, <2>1
  <2>3. search_index' \in 1..(Len(search_directories) + 1)
    BY <1>2, <2>1
  <2> QED
    BY <1>1, <1>9, <2>2, <2>3, GoesOnSearching
<1> QED
  BY <1>8, <1>9

\* All given directories were tried.
LEMMA EndSearchKeeps ==
    ASSUME PathsInv, EndSearch
    PROVE  PathsInv'
<1>1. /\ Searched /\ ~IsAbsolute(module_specification) /\ UNCHANGED Inputs
      /\ search_index \in 1..(Len(search_directories) + 1)
      /\ search_index > Len(search_directories)
      /\ Refused(Offset + search_index - 1)
      /\ search_index' = search_index /\ search_control' = "working"
      /\ resolution_status' = "PENDING"
  BY DEF PathsInv, EndSearch, GoOn
<1>2. Offset + search_index - 1 = Offset + Len(search_directories)
  <2>1. Len(search_directories) \in Nat /\ Offset \in {0, 1}
    BY <1>1, InputsAre
  <2> QED
    BY <1>1, <2>1
<1>3. Searched' /\ Offset' = Offset
  BY <1>1, SameInputs
<1>4. /\ module_specification' = module_specification
      /\ search_directories' = search_directories
  BY <1>1 DEF Inputs
<1>5. Refused(Offset + Len(search_directories))'
  BY <1>1, <1>2, <1>3, <1>4, SameInputs DEF Refused
<1>6. FirstThatFits'
  BY <1>1 DEF FirstThatFits
<1>7. ~IsAbsolute(module_specification)'
  BY <1>1, <1>4 DEF IsAbsolute
<1> QED
  BY <1>1, <1>3, <1>4, <1>5, <1>6, <1>7 DEF PathsInv

\* The working directory is tried last.
LEMMA TryWorkingKeeps ==
    ASSUME PathsInv, TryWorking
    PROVE  PathsInv'
<1> DEFINE found == Found(module_specification)
           n == Offset + Len(search_directories) + 1
<1>1. /\ Searched /\ ~IsAbsolute(module_specification) /\ UNCHANGED Inputs
      /\ search_index \in 1..(Len(search_directories) + 1) /\ search_index' = search_index
      /\ Refused(Offset + Len(search_directories))
      /\ search_control' = "done" /\ canonical_path' = found
      /\ resolution_status' = IF found # << >> THEN "OK" ELSE "NOT_FOUND"
  BY DEF PathsInv, TryWorking, Try, Return, Found
<1>2. /\ module_specification \in Seq(Characters) \ {<< >>}
      /\ Len(search_directories) \in Nat /\ Offset \in {0, 1}
  BY <1>1, InputsAre
<1>3. /\ n \in Nat /\ n \in DOMAIN Starts /\ n - 1 = Offset + Len(search_directories)
      /\ \A i \in DOMAIN Starts : i <= n
      /\ Starts[n] = [at |-> WorkingPlace, joined |-> 0]
  BY <1>1, <1>2, StartsAre
<1> HIDE DEF n
<1>4. Follow(WorkingPlace, module_specification) = Named(n)
  BY <1>3 DEF Named
<1>5. Starts[n].joined = 0
  BY <1>3
<1>6. /\ found # << >> => IsFirst(found)
      /\ found = << >> => Refused(n)
  <2>1. Refused(n - 1)
    BY <1>1, <1>3
  <2> QED
    BY <1>1, <1>2, <1>3, <1>4, <1>5, <2>1, TryNext
<1>7. resolution_status' = "OK" => IsFirst(canonical_path')
  BY <1>1, <1>6
<1>8. resolution_status' = "NOT_FOUND" => \A i \in Existing : ~FitsBuffers(i)
  BY <1>1, <1>3, <1>6 DEF Refused, Existing
<1> HIDE DEF found
<1> QED
  BY <1>1, <1>7, <1>8, EndsWell

\* Nothing changes when nothing is done.
LEMMA SearchRests ==
    ASSUME PathsInv, UNCHANGED paths_vars
    PROVE  PathsInv'
<1>1. /\ UNCHANGED Inputs /\ search_index' = search_index /\ search_control' = search_control
      /\ canonical_path' = canonical_path /\ resolution_status' = resolution_status
      /\ search_directories' = search_directories
      /\ module_specification' = module_specification
  BY DEF paths_vars, Inputs
<1>2. /\ Searched' <=> Searched
      /\ Own' = Own /\ Offset' = Offset
      /\ \A n : Refused(n)' <=> Refused(n)
      /\ \A path : IsFirst(path)' <=> IsFirst(path)
      /\ Existing' = Existing
      /\ \A i : FitsBuffers(i)' <=> FitsBuffers(i)
  BY <1>1, SameInputs
<1>3. Refused(Offset + search_index - 1)' <=> Refused(Offset + search_index - 1)
  BY <1>1, <1>2 DEF Refused
<1>4. Refused(Offset + Len(search_directories))' <=> Refused(Offset + Len(search_directories))
  BY <1>1, <1>2 DEF Refused
<1>5. IsFirst(canonical_path)' <=> IsFirst(canonical_path)
  <2>1. IsFirst(canonical_path)' <=> IsFirst(canonical_path')
    BY SameInputs, <1>1 DEF IsFirst
  <2> QED
    BY <1>1, <2>1
<1>6. FirstThatFits => FirstThatFits'
  BY <1>1, <1>2, <1>5 DEF FirstThatFits, IsFirst
<1>7. IsAbsolute(module_specification)' <=> IsAbsolute(module_specification)
  BY <1>1 DEF IsAbsolute
<1> QED
  BY <1>1, <1>2, <1>3, <1>4, <1>6, <1>7 DEF PathsInv

\* Cutting off directories, joining and following paths as text, in buffers of
\* any size and in any tree, finds the first place of the documented order
\* whose paths fit.
THEOREM FirstIsFound == PathsSpec => []FirstThatFits
<1>1. PathsInit => PathsInv
  BY SearchBegins
<1>2. PathsInv /\ [PathsNext]_paths_vars => PathsInv'
  BY RefuseExtensionKeeps, TryAbsoluteKeeps, BeginSearchKeeps, TryRequestingKeeps,
     TryDirectoryKeeps, EndSearchKeeps, TryWorkingKeeps, SearchRests DEF PathsNext
<1>3. PathsInv => FirstThatFits
  BY DEF PathsInv
<1> QED
  BY <1>1, <1>2, <1>3, PTL DEF PathsSpec

\* A search that has an end has a result, and only a found module has a path.
Resulting ==
    /\ search_control \in SearchControls
    /\ resolution_status \in {"PENDING", "OK", "NOT_FOUND", "SEMANTIC_ERROR"}
    /\ resolution_status = "PENDING" <=> search_control # "done"
    /\ resolution_status = "OK" <=> canonical_path # << >>

LEMMA ResultingKept ==
    ASSUME Resulting, [PathsNext]_paths_vars
    PROVE  Resulting'
<1>1. \A candidate, onward, index :
         Try(candidate, GoOn(onward, index)) =>
            \/ canonical_path' # << >> /\ resolution_status' = "OK" /\ search_control' = "done"
            \/ canonical_path' = << >> /\ search_control' = onward
                 /\ resolution_status' = resolution_status
  BY DEF Try, GoOn, Return
<1>2. \A candidate :
         Try(candidate, Return("NOT_FOUND")) =>
            \/ canonical_path' # << >> /\ resolution_status' = "OK" /\ search_control' = "done"
            \/ canonical_path' = << >> /\ resolution_status' = "NOT_FOUND"
                 /\ search_control' = "done"
  BY DEF Try, Return
<1>3. CASE RefuseExtension
  BY <1>3 DEF RefuseExtension, Return, Resulting, SearchControls
<1>4. CASE TryAbsolute \/ TryWorking
  BY <1>2, <1>4 DEF TryAbsolute, TryWorking, Resulting, SearchControls
<1>5. CASE BeginSearch \/ EndSearch
  BY <1>5 DEF BeginSearch, EndSearch, GoOn, Resulting, SearchControls
<1>6. CASE TryRequesting \/ TryDirectory
  BY <1>1, <1>6 DEF TryRequesting, TryDirectory, TryWithin, Resulting, SearchControls
<1>7. CASE UNCHANGED paths_vars
  BY <1>7 DEF paths_vars, Resulting
<1> QED
  BY <1>3, <1>4, <1>5, <1>6, <1>7 DEF PathsNext

\* The types of ModulePaths: a path that was found fits its buffer.
THEOREM PathsTyped == PathsSpec => []PathsTypeOK
<1> DEFINE Inv == PathsInv /\ Resulting
<1>1. PathsInit => Inv
  <2>1. PathsInit => Resulting
    BY DEF PathsInit, Resulting, SearchControls
  <2> QED
    BY <2>1, SearchBegins
<1>2. Inv /\ [PathsNext]_paths_vars => Inv'
  BY RefuseExtensionKeeps, TryAbsoluteKeeps, BeginSearchKeeps, TryRequestingKeeps,
     TryDirectoryKeeps, EndSearchKeeps, TryWorkingKeeps, SearchRests, ResultingKept DEF PathsNext
<1>3. Inv => PathsTypeOK
  <2> SUFFICES ASSUME Inv PROVE PathsTypeOK
    OBVIOUS
  <2>1. Len(canonical_path) < LLFPL_MODULE_PATH_BUFFER_CAPACITY
    <3>1. CASE canonical_path = << >>
      <4>1. Own \in tree /\ requesting_module_path = Stem(Own)
            /\ Len(requesting_module_path) < LLFPL_MODULE_PATH_BUFFER_CAPACITY
        BY DEF PathsInv, Searched
      <4>2. requesting_module_path \in Seq(Characters)
        <5>1. Own \in Seq(EntryNames)
          BY <4>1, TreeIs DEF PathsInv, Searched
        <5>2. PICK t \in [0..Len(Own) -> Seq(Characters)] : Stem(Own) = t[Len(Own)]
          BY <5>1, StemIsFold
        <5>3. Len(Own) \in 0..Len(Own)
          BY <5>1
        <5> QED
          BY <4>1, <5>2, <5>3
      <4>3. Len(requesting_module_path) \in Nat /\ LLFPL_MODULE_PATH_BUFFER_CAPACITY \in Nat
        BY <4>2, PathsAssumption
      <4> QED
        BY <3>1, <4>1, <4>3
    <3>2. CASE canonical_path # << >>
      BY <3>2 DEF PathsInv, Resulting, FirstThatFits, FitsBuffers
    <3> QED
      BY <3>1, <3>2
  <2> QED
    BY <2>1 DEF PathsInv, Searched, Resulting, PathsTypeOK
<1> QED
  BY <1>1, <1>2, <1>3, PTL DEF PathsSpec

================================================================
