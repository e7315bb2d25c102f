--------------------------- MODULE MCAgreeOnRandom ---------------------------
(***************************************************************************)
(* Model-checking instances of AgreeOnRandom.                              *)
(***************************************************************************)
EXTENDS AgreeOnRandom, TLC

Symmetry == Permutations(Honest) \cup Permutations(Bits)
=============================================================================
