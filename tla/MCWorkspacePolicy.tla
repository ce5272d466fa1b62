------------------------- MODULE MCWorkspacePolicy -------------------------
(* TLC instances of WorkspacePolicy. *)
EXTENDS WorkspacePolicy, TLC

\* Events are interchangeable.
Symmetry == Permutations(Events)

AllMishaps == Mishaps
=============================================================================
