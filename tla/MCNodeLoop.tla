----------------------------- MODULE MCNodeLoop -----------------------------
(* NodeLoop for TLC: the symmetry of the safety runs. *)
EXTENDS NodeLoop, TLC

Symmetry == Permutations(Caps) \cup Permutations(Users)
=============================================================================
