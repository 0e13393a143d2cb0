--------------------------- MODULE MCSymbolTable ---------------------------
(***************************************************************************)
(* A table of two homes and a cellar of two slots.  Four names collide at  *)
(* the first home and two at the second, so that both chains grow through  *)
(* the cellar in every order, and that the cellar is exhausted before the  *)
(* table is full as well as with it; one more name is too long.            *)
(***************************************************************************)
EXTENDS SymbolTable

MCStorableNames == {"a", "b", "c", "d", "e", "f"}
MCNames == MCStorableNames \cup {"overlong"}
MCHomeSlots ==
    [name \in MCNames |-> IF name \in {"a", "b", "c", "d"} THEN 0 ELSE 1]

=============================================================================
