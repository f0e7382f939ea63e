------------------------------- MODULE MCSlab -------------------------------
(* Model-checking instances of Slab.                                        *)
EXTENDS Slab, TLC

\* Slabs of two objects and slabs of one.
TwoAndOne == <<2, 1>>

\* The users are interchangeable.
UserSymmetry == Permutations(SlabUsers)
=============================================================================
