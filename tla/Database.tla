------------------------------ MODULE Database ------------------------------
(* What every row may hold. *)

CONSTANT NULL  \* the empty column
=============================================================================
