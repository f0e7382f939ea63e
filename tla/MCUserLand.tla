----------------------------- MODULE MCUserLand -----------------------------
(* Model-checking instances of UserLand.                                    *)
EXTENDS UserLand

\* A command waits for any child.
OnlyAny == {ANY}

=============================================================================
