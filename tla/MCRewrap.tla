------------------------------ MODULE MCRewrap ------------------------------
(* Small instances of Rewrap for TLC. *)
EXTENDS Rewrap, TLC

NodeSymmetry == Permutations(Nodes)
=============================================================================
