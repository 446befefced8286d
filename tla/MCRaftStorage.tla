--------------------------- MODULE MCRaftStorage ---------------------------
(* Small instances of RaftStorage for TLC. *)
EXTENDS RaftStorage, TLC

NodeSymmetry == Permutations(Nodes)
=============================================================================
