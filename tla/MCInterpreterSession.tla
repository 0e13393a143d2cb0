------------------------ MODULE MCInterpreterSession ------------------------
(***************************************************************************)
(* Two arenas and one source file, with as many handles as a full session  *)
(* needs: whatever is given back is handed out again to another owner.     *)
(***************************************************************************)
EXTENDS InterpreterSession

=============================================================================
