------------------------- MODULE MCRootPublication -------------------------
(* Model-checking instance of RootPublication. *)
EXTENDS RootPublication, TLC

\* Publishers are interchangeable.
Symmetry == Permutations(Publishers)
=============================================================================
