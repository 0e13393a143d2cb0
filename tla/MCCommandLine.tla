--------------------------- MODULE MCCommandLine ---------------------------
(***************************************************************************)
(* All command lines of up to five of the spellings that the parser tells  *)
(* apart, with room for two directories.                                   *)
(***************************************************************************)
EXTENDS CommandLineMeaning, TLC

MCSpellings == {"-I", "-Idir", "--module-path=", "--", "-h", "-v", "-q", "main.LLFPL", ""}
MCSpelled ==
    [argument \in MCSpellings |->
        IF argument = "-I" THEN "module-path" ELSE IF argument = "--" THEN "--"
        ELSE IF argument = "-h" THEN "help" ELSE IF argument = "-v" THEN "verbose" ELSE "none"]
MCAttached == "-Idir" :> "dir" @@ "--module-path=" :> ""
MCDiscoverable == <<"lib", "share">>

=============================================================================
