--------------------------- MODULE MCMemoryArena ---------------------------
(***************************************************************************)
(* A memory of 24 bytes and lines of four: two arenas, one other block of  *)
(* any placement, sizes around the multiples of a line and around          *)
(* the limit, and alignments that are no powers of two or too small.       *)
(***************************************************************************)
EXTENDS MemoryArena

\* A value takes two bytes, as in Binary64.
ArenasHoldOneValue == ArenasHoldAValue(2)

=============================================================================
