------------------------------- MODULE MCProc -------------------------------
(* Model-checking instances of Proc.                                        *)
EXTENDS ProcInv, TLC

\* The harts are interchangeable: no operation orders them.
HartSymmetry == Permutations(Harts)

\* waitpid(-1) and waitpid(2).
AnyOrTwo == {ANY, 2}
=============================================================================
