--------------------------- MODULE MCAtomicWrite ---------------------------
(***************************************************************************)
(* Two or three writers of one target, interchangeable, in every order of  *)
(* their steps.  A reader is anyone who looks at a state.                  *)
(***************************************************************************)
EXTENDS AtomicWrite, TLC

Symmetry == Permutations(Writers)
=============================================================================
