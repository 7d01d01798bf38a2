----------------------------- MODULE MCConsole -----------------------------
(***************************************************************************)
(* A screen of three columns and rows, two characters, and an int8_t       *)
(* between -4 and 3, so that a fast movement overflows it as it does the   *)
(* real one.                                                               *)
(***************************************************************************)
EXTENDS Console

CONSTANTS a, b
MCChar == {a, b}
=============================================================================
