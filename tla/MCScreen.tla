------------------------------ MODULE MCScreen ------------------------------
(* Model-checking instance of Screen: one writer, whose characters and      *)
(* sequences show that what is scrolled is lost without any interleaving.   *)
EXTENDS Screen
=============================================================================
