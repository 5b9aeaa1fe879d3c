------------------------------ MODULE MCSkills ------------------------------
(***************************************************************************)
(* Skills with two skills, a command and a variable that is not set.       *)
(***************************************************************************)
EXTENDS Skills

CONSTANTS weather, github, gh, TOKEN
=============================================================================
