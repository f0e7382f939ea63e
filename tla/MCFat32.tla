------------------------------ MODULE MCFat32 -------------------------------
(* Model-checking instance of Fat32.                                        *)
EXTENDS Fat32
=============================================================================
