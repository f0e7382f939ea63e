---------------------------- MODULE MCPageAlloc -----------------------------
(* Model-checking instances of PageAlloc.                                   *)
EXTENDS PageAlloc

CONSTANTS p1, p2, p3

\* The order of three pages after init_memory().
ThreePages == <<p1, p2, p3>>
=============================================================================
