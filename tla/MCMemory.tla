------------------------------ MODULE MCMemory ------------------------------
(***************************************************************************)
(* Memory with files of two words.                                         *)
(***************************************************************************)
EXTENDS Memory

CONSTANTS x, y
=============================================================================
