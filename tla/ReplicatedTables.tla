-------------------------- MODULE ReplicatedTables --------------------------
(***************************************************************************)
(* What replication promises about the tables of a cluster, with logs,     *)
(* snapshots, purges and restarts left out: the committed entries form one *)
(* growing sequence, and the tables of every node are always the effect of *)
(* a prefix of it, each entry exactly once, and only move forward.         *)
(***************************************************************************)
EXTENDS Integers

CONSTANTS Nodes, MaxIndex

VARIABLES committed, data

Prefix(k) == [i \in 1..MaxIndex |-> IF i <= k THEN 1 ELSE 0]

Init == committed = 0 /\ data = [n \in Nodes |-> Prefix(0)]

Commit == /\ committed < MaxIndex
          /\ committed' = committed + 1
          /\ UNCHANGED data

Advance(n) == \E j, k \in 0..committed :
                 /\ j < k
                 /\ data[n] = Prefix(j)
                 /\ data' = [data EXCEPT ![n] = Prefix(k)]
                 /\ UNCHANGED committed

Next == Commit \/ \E n \in Nodes : Advance(n)

Spec == Init /\ [][Next]_<<committed, data>>
=============================================================================
