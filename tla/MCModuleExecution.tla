------------------------- MODULE MCModuleExecution -------------------------
(***************************************************************************)
(* Two directories, of which the second is on the search path.  "util" is  *)
(* found in both; "vendored" leads from the first to the second one's file *)
(* under another name, and cannot be located from there; "main" leads back *)
(* from the second to the first, so that cycles close through different    *)
(* paths.  A file of zero bytes and one module more than can be tracked    *)
(* complete the file system.                                               *)
(***************************************************************************)
EXTENDS ModuleInclusion, TLC

MCDirectories == {"/", "app", "lib", "cwd"}
MCSearchDirectories == <<"lib">>
MCFiles == {"app/main", "app/util", "lib/util", "app/void"}
MCSpecifications == {"main", "util", "vendored", "void", "/main", "util.txt"}
MCSourceSpecifications == MCSpecifications \ {"util.txt"}
MCEntry ==
    (   <<"app", "main">> :> "app/main" @@ <<"cwd", "main">> :> "app/main"
     @@ <<"lib", "main">> :> "app/main" @@ <<"/", "/main">> :> "app/main"
     @@ <<"app", "util">> :> "app/util" @@ <<"lib", "util">> :> "lib/util"
     @@ <<"app", "vendored">> :> "lib/util" @@ <<"app", "void">> :> "app/void"
     @@ <<"app", "util.txt">> :> "app/util")
MCDirectoryOf == [file \in MCFiles |-> IF file = "lib/util" THEN "lib" ELSE "app"]

Require(specification) == [keyword |-> "Require", specification |-> specification]
Identity == [keyword |-> "Identity", name |-> "x"]
Committing == [keyword |-> "Commit", name |-> "x"]

\* The main module may contain some more.
Directives ==
    {Require(s) : s \in {"main", "util", "vendored"}} \cup {Identity, Committing}
MCVocabulary ==
    [file \in MCFiles |->
        IF file = "app/main"
        THEN Directives \cup {Require("void"), Require("util.txt"), [keyword |-> "Unknown"]}
        ELSE Directives]
MCMaximumTextLength == [file \in MCFiles |-> IF file = "app/main" THEN 3 ELSE 2]

=============================================================================
