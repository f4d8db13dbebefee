----------------------------- MODULE MCSettings -----------------------------
(***************************************************************************)
(* Settings with the numbers around the ends of a u32 of five bits.       *)
(***************************************************************************)
EXTENDS Settings

MCNumbers == {-1, 0, 33}
=============================================================================
