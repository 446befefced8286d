---------------------------- MODULE RaftStorage ----------------------------
(***************************************************************************)
(* The persistent half of the Raft node (raft/store.rs, start in           *)
(* raft/node.rs): the log table, the metadata rows, the state machine and  *)
(* its snapshots, all in one redb file per node, under crashes between any *)
(* two transactions.                                                       *)
(*                                                                         *)
(* Consensus itself is openraft's and is external: the cluster agrees on   *)
(* one sequence of entries 1, 2, ..., top; an entry counts as committed    *)
(* once a majority stores it; a node is sent entries in order and is told  *)
(* to apply committed ones only.  A log slot holds "good", the agreed      *)
(* entry, or "stale", an entry of a deposed leader that will be truncated. *)
(*                                                                         *)
(* Index 0 stands for Option::None of a LogId.  The state machine is       *)
(* represented by how often each entry has taken effect in it; apply_command*)
(* being deterministic, two nodes with equal counts that applied in index  *)
(* order hold equal tables.                                                *)
(***************************************************************************)
EXTENDS Integers, FiniteSets, FiniteSetsExt

CONSTANTS Nodes,
          NONE,
          MaxIndex,     \* bound on the log
          MaxCrashes,   \* bound on crashes
          MaxInstalls,  \* bound on snapshot transfers
          MaxStale,     \* bound on entries of deposed leaders
          MaxResets,    \* bound on nodes whose metadata becomes unreadable
          MaxFaults     \* bound on the last two together

ASSUME NodesAssumption == IsFiniteSet(Nodes) /\ Nodes # {}
ASSUME BoundsAssumption ==
    {MaxIndex, MaxCrashes, MaxInstalls, MaxStale, MaxResets, MaxFaults}
        \subseteq Nat
ASSUME NoneAssumption ==
    NONE \notin [1..MaxIndex -> Nat] \cup Nat \cup {"good", "stale"}

Index == 1..MaxIndex
Counts == [Index -> Nat]

VARIABLES top,        \* the entries proposed so far are 1..top
          committed,  \* the entries a majority has stored are 1..committed
          log,        \* LOG table
          applied,    \* META_APPLIED
          purged,     \* META_PURGED
          data,       \* the replicated tables: effects of each entry
          snapshot,   \* META_SNAPSHOT: the tables of a past moment, or NONE
          engine,     \* volatile: the snapshot position openraft believes in
          building,   \* volatile: position a snapshot build has read, or NONE
          purging,    \* volatile: purge between its two transactions, or NONE
          status,     \* "up", "down", or "normalizing" between two transactions
          budget      \* history: how much of each bound is used

persistent == <<log, applied, purged, data, snapshot>>
volatile == <<engine, building, purging>>
vars == <<top, committed, persistent, volatile, status, budget>>

Init == /\ top = 0
        /\ committed = 0
        /\ log = [n \in Nodes |-> [i \in Index |-> NONE]]
        /\ applied = [n \in Nodes |-> 0]
        /\ purged = [n \in Nodes |-> 0]
        /\ data = [n \in Nodes |-> [i \in Index |-> 0]]
        /\ snapshot = [n \in Nodes |-> NONE]
        /\ engine = [n \in Nodes |-> 0]
        /\ building = [n \in Nodes |-> NONE]
        /\ purging = [n \in Nodes |-> NONE]
        /\ status = [n \in Nodes |-> "up"]
        /\ budget = [crashes |-> 0, installs |-> 0, stale |-> 0, resets |-> {}]

---------------------------------------------------------------------------
Stored(n) == {i \in Index : log[n][i] # NONE}
Last(n) == IF Stored(n) = {} THEN purged[n] ELSE Max(Stored(n))

Majority(S) == 2 * Cardinality(S) > Cardinality(Nodes)

(* The log is openraft's to use: the node runs and no purge is half done.   *)
Ready(n) == status[n] = "up" /\ purging[n] = NONE

Write(n, i, entry) == log' = [log EXCEPT ![n][i] = entry]

(* A leader appends a client's entry: client_write, then append.            *)
propose(n) ==
    /\ Ready(n)
    /\ top < MaxIndex
    /\ Last(n) = top
    /\ \A i \in Stored(n) : log[n][i] = "good"
    /\ top' = top + 1
    /\ Write(n, top + 1, "good")
    /\ UNCHANGED <<committed, applied, purged, data, snapshot, volatile, status, budget>>

Faults == budget.stale + Cardinality(budget.resets)

(* A leader that is deposed before replicating leaves its entry behind.     *)
append_stale(n) ==
    /\ Ready(n)
    /\ Last(n) < MaxIndex
    /\ Last(n) >= committed
    /\ budget.stale < MaxStale /\ Faults < MaxFaults
    /\ budget' = [budget EXCEPT !.stale = @ + 1]
    /\ Write(n, Last(n) + 1, "stale")
    /\ UNCHANGED <<top, committed, applied, purged, data, snapshot, volatile, status>>

(* append: the next entry of a leader that still has it in its log.         *)
append(n) ==
    /\ Ready(n)
    /\ Last(n) < top
    /\ \A i \in Stored(n) : log[n][i] = "good"
    /\ \E m \in Nodes \ {n} : status[m] = "up" /\ log[m][Last(n) + 1] = "good"
    /\ Write(n, Last(n) + 1, "good")
    /\ UNCHANGED <<top, committed, applied, purged, data, snapshot, volatile, status, budget>>

(* truncate: everything from the first entry the leader disagrees with.     *)
truncate(n) ==
    /\ Ready(n)
    /\ \E i \in Stored(n) :
          /\ log[n][i] = "stale"
          /\ \A j \in Stored(n) : j < i => log[n][j] = "good"
          /\ log' = [log EXCEPT ![n] = [j \in Index |-> IF j >= i THEN NONE ELSE @[j]]]
    /\ UNCHANGED <<top, committed, applied, purged, data, snapshot, volatile, status, budget>>

Holds(n, i) == log[n][i] = "good" \/ i <= applied[n]

commit ==
    /\ committed < top
    /\ Majority({n \in Nodes : Holds(n, committed + 1)})
    /\ committed' = committed + 1
    /\ UNCHANGED <<top, persistent, volatile, status, budget>>

(* An apply that leaves its position to a later transaction, which a crash  *)
(* may prevent.                                                             *)
apply_position_later(n) ==
    /\ status[n] = "up"
    /\ \E k \in (applied[n] + 1)..committed :
          /\ \A i \in (applied[n] + 1)..k : log[n][i] = "good"
          /\ data' = [data EXCEPT ![n] = [i \in Index |->
                         IF i > applied[n] /\ i <= k THEN @[i] + 1 ELSE @[i]]]
    /\ UNCHANGED <<top, committed, log, applied, purged, snapshot, volatile, status, budget>>

(* apply: a batch of committed entries and META_APPLIED in one transaction. *)
apply(n) ==
    /\ status[n] = "up"
    /\ \E k \in (applied[n] + 1)..committed :
          /\ \A i \in (applied[n] + 1)..k : log[n][i] = "good"
          /\ applied' = [applied EXCEPT ![n] = k]
          /\ data' = [data EXCEPT ![n] = [i \in Index |->
                         IF i > applied[n] /\ i <= k THEN @[i] + 1 ELSE @[i]]]
    /\ UNCHANGED <<top, committed, log, purged, snapshot, volatile, status, budget>>

(* A build that takes the end of the log for the applied position.          *)
build_begin_at_last(n) ==
    /\ status[n] = "up"
    /\ building[n] = NONE
    /\ Last(n) > engine[n]
    /\ building' = [building EXCEPT ![n] = Last(n)]
    /\ UNCHANGED <<top, committed, persistent, engine, purging, status, budget>>

(* build_snapshot reads META_APPLIED first, and the tables later, in other  *)
(* transactions; apply runs meanwhile.                                      *)
build_begin(n) ==
    /\ status[n] = "up"
    /\ building[n] = NONE
    /\ applied[n] > engine[n]
    /\ building' = [building EXCEPT ![n] = applied[n]]
    /\ UNCHANGED <<top, committed, persistent, engine, purging, status, budget>>

build_end(n) ==
    /\ status[n] = "up"
    /\ building[n] # NONE
    /\ snapshot' = [snapshot EXCEPT ![n] = data[n]]
    /\ engine' = [engine EXCEPT ![n] = building[n]]
    /\ building' = [building EXCEPT ![n] = NONE]
    /\ UNCHANGED <<top, committed, log, applied, purged, data, purging, status, budget>>

Without(slots, k) == [i \in Index |-> IF i <= k THEN NONE ELSE slots[i]]

(* purge removes the entries in one transaction ...                         *)
purge_entries(n) ==
    /\ Ready(n)
    /\ \E k \in (purged[n] + 1)..engine[n] :
          /\ log' = [log EXCEPT ![n] = Without(@, k)]
          /\ purging' = [purging EXCEPT ![n] = k]
    /\ UNCHANGED <<top, committed, applied, purged, data, snapshot, engine, building, status, budget>>

(* ... and records META_PURGED in the next.                                 *)
purge_mark(n) ==
    /\ status[n] = "up"
    /\ purging[n] # NONE
    /\ purged' = [purged EXCEPT ![n] = purging[n]]
    /\ purging' = [purging EXCEPT ![n] = NONE]
    /\ UNCHANGED <<top, committed, log, applied, data, snapshot, engine, building, status, budget>>

(* get_current_snapshot on the sender: the stored bytes, labelled with the  *)
(* sender's last_applied of this moment.                                    *)
get_current_snapshot(m) == [tables |-> snapshot[m], last |-> applied[m]]

(* An install that replaces the tables but not META_APPLIED.                *)
install_tables_only(n, m) ==
    LET s == get_current_snapshot(m)
    IN  /\ Ready(n) /\ Ready(m)
        /\ budget.installs < MaxInstalls
        /\ Last(m) = top
        /\ s.tables # NONE
        /\ Last(n) < purged[m]
        /\ applied[n] < s.last
        /\ data' = [data EXCEPT ![n] = s.tables]
        /\ purged' = [purged EXCEPT ![n] = s.last]
        /\ log' = [log EXCEPT ![n] = Without(@, s.last)]
        /\ engine' = [engine EXCEPT ![n] = s.last]
        /\ budget' = [budget EXCEPT !.installs = @ + 1]
        /\ UNCHANGED <<top, committed, applied, snapshot, building, purging, status>>

(* install_snapshot on a node whose next entry the leader has purged;       *)
(* openraft ignores a snapshot that is not ahead of the node.               *)
install_snapshot(n, m) ==
    LET s == get_current_snapshot(m)
    IN  /\ Ready(n) /\ Ready(m)
        /\ budget.installs < MaxInstalls
        /\ Last(m) = top
        /\ s.tables # NONE
        /\ Last(n) < purged[m]
        /\ applied[n] < s.last
        /\ data' = [data EXCEPT ![n] = s.tables]
        /\ applied' = [applied EXCEPT ![n] = s.last]
        /\ purged' = [purged EXCEPT ![n] = s.last]
        /\ log' = [log EXCEPT ![n] = Without(@, s.last)]
        /\ engine' = [engine EXCEPT ![n] = s.last]
        /\ budget' = [budget EXCEPT !.installs = @ + 1]
        /\ UNCHANGED <<top, committed, snapshot, building, purging, status>>

---------------------------------------------------------------------------
(* Crash and restart *)

crash(n) ==
    /\ status[n] # "down"
    /\ budget.crashes < MaxCrashes
    /\ status' = [status EXCEPT ![n] = "down"]
    /\ engine' = [engine EXCEPT ![n] = 0]
    /\ building' = [building EXCEPT ![n] = NONE]
    /\ purging' = [purging EXCEPT ![n] = NONE]
    /\ budget' = [budget EXCEPT !.crashes = @ + 1]
    /\ UNCHANGED <<top, committed, persistent>>

Floor(n) == IF applied[n] # 0 THEN applied[n] ELSE purged[n]

(* A normalization that clears the log.                                     *)
ContiguousNone(n) == {}

(* The entries normalize_raft_log keeps: those above the floor that follow  *)
(* it without a gap.                                                        *)
Contiguous(n) ==
    {i \in Stored(n) : /\ i > Floor(n)
                       /\ \A j \in (Floor(n) + 1)..i : j \in Stored(n)}

(* normalize_raft_log, first transaction: drop everything else.             *)
normalize_log(n) ==
    /\ status[n] = "down"
    /\ log' = [log EXCEPT ![n] = [i \in Index |->
                  IF i \in Contiguous(n) THEN @[i] ELSE NONE]]
    /\ status' = [status EXCEPT ![n] = "normalizing"]
    /\ UNCHANGED <<top, committed, applied, purged, data, snapshot, volatile, budget>>

(* A normalization that leaves META_PURGED behind the entries it dropped.   *)
normalize_purged_behind(n) ==
    /\ status[n] = "normalizing"
    /\ engine' = [engine EXCEPT ![n] = IF snapshot[n] = NONE THEN 0 ELSE applied[n]]
    /\ status' = [status EXCEPT ![n] = "up"]
    /\ UNCHANGED <<top, committed, persistent, building, purging, budget>>

(* A normalization that takes the first entry to keep for the last one      *)
(* purged.                                                                  *)
normalize_purged_next(n) ==
    /\ status[n] = "normalizing"
    /\ purged' = [purged EXCEPT ![n] = applied[n] + 1]
    /\ status' = [status EXCEPT ![n] = "up"]
    /\ UNCHANGED <<top, committed, log, applied, data, snapshot, volatile, budget>>

(* Second transaction: META_PURGED catches up with META_APPLIED.  Then      *)
(* Raft::new takes the snapshot position from get_current_snapshot, or has  *)
(* a snapshot built first when entries are purged and none is stored.       *)
normalize_purged(n) ==
    LET p == IF purged[n] < applied[n] THEN applied[n] ELSE purged[n]
        s == IF snapshot[n] = NONE /\ p > 0 THEN data[n] ELSE snapshot[n]
    IN  /\ status[n] = "normalizing"
        /\ purged' = [purged EXCEPT ![n] = p]
        /\ snapshot' = [snapshot EXCEPT ![n] = s]
        /\ engine' = [engine EXCEPT ![n] = IF s = NONE THEN 0 ELSE applied[n]]
        /\ status' = [status EXCEPT ![n] = "up"]
        /\ UNCHANGED <<top, committed, log, applied, data, building, purging, budget>>

(* reset_raft_state, when the metadata cannot be read and another node      *)
(* reports a cluster: log and metadata go, the tables stay.  Entries that   *)
(* only this node had and that are not committed are no longer agreed on.   *)
reset_raft_state(n) ==
    /\ status[n] = "down"
    /\ Cardinality(budget.resets) < MaxResets /\ Faults < MaxFaults
    /\ n \notin budget.resets
    /\ \E m \in Nodes \ {n} : status[m] = "up"
    /\ log' = [log EXCEPT ![n] = [i \in Index |-> NONE]]
    /\ applied' = [applied EXCEPT ![n] = 0]
    /\ purged' = [purged EXCEPT ![n] = 0]
    /\ snapshot' = [snapshot EXCEPT ![n] = NONE]
    /\ status' = [status EXCEPT ![n] = "up"]
    /\ budget' = [budget EXCEPT !.resets = @ \cup {n}]
    /\ top' = Max({committed} \cup UNION {Stored(m) : m \in Nodes \ {n}})
    /\ UNCHANGED <<committed, data, volatile>>

Step(n) == \/ propose(n) \/ append_stale(n) \/ append(n) \/ truncate(n)
           \/ apply(n) \/ build_begin(n) \/ build_end(n)
           \/ purge_entries(n) \/ purge_mark(n)
           \/ \E m \in Nodes \ {n} : install_snapshot(n, m)
           \/ crash(n) \/ normalize_log(n) \/ normalize_purged(n)
           \/ reset_raft_state(n)

Next == commit \/ \E n \in Nodes : Step(n)

Spec == Init /\ [][Next]_vars

(* A running node keeps working and a crashed one is started again.         *)
Fairness == /\ WF_vars(commit)
            /\ \A n \in Nodes :
                 /\ WF_vars(append(n)) /\ WF_vars(truncate(n)) /\ WF_vars(apply(n))
                 /\ WF_vars(purge_mark(n))
                 /\ WF_vars(normalize_log(n)) /\ WF_vars(normalize_purged(n))
                 /\ WF_vars(\E m \in Nodes \ {n} : install_snapshot(n, m))

FairSpec == Spec /\ Fairness

---------------------------------------------------------------------------
(* Properties *)

(* Positions, log slots and tables have the shapes raft/store.rs stores.    *)
TypeOK == /\ top \in 0..MaxIndex
          /\ committed \in 0..top
          /\ log \in [Nodes -> [Index -> {"good", "stale", NONE}]]
          /\ applied \in [Nodes -> 0..MaxIndex]
          /\ purged \in [Nodes -> 0..MaxIndex]
          /\ data \in [Nodes -> Counts]
          /\ snapshot \in [Nodes -> Counts \cup {NONE}]
          /\ engine \in [Nodes -> 0..MaxIndex]
          /\ building \in [Nodes -> (0..MaxIndex) \cup {NONE}]
          /\ purging \in [Nodes -> (0..MaxIndex) \cup {NONE}]
          /\ status \in [Nodes -> {"up", "down", "normalizing"}]
          /\ budget \in [crashes : Nat, installs : Nat, stale : Nat,
                       resets : SUBSET Nodes]

(* "so openraft sees a contiguous (last_purged, last_log]" (store.rs,       *)
(* normalize_raft_log): outside a half-done purge, the log of a running     *)
(* node starts right after META_PURGED and has no gap, whatever crash came  *)
(* between the two transactions of a purge or of a normalization.           *)
LogIsContiguous ==
    \A n \in Nodes : Ready(n) => Stored(n) = (purged[n] + 1)..Last(n)

(* No entry leaves a log before its effect is in the tables: what a node    *)
(* acknowledged and has not applied it can still apply after any crash.     *)
UnappliedIsKept ==
    \A n \in Nodes : /\ purged[n] <= applied[n]
                     /\ purging[n] # NONE => purging[n] <= applied[n]

(* A committed write survives: a majority of nodes has it in its log or in  *)
(* its tables, or has since discarded its log to rejoin, through crashes,   *)
(* restarts and purges.                                                     *)
CommittedIsDurable ==
    \A i \in 1..committed :
        Majority({n \in Nodes : \/ log[n][i] = "good"
                                \/ data[n][i] > 0
                                \/ n \in budget.resets})

(* Every node's tables follow the agreed sequence of states: the storage    *)
(* implements ReplicatedTables, each entry taking effect once.  A node that *)
(* rejoined from a clean slate keeps its tables and applies the log to them *)
(* again (reset_raft_state), so there an entry takes effect at least once.  *)
Abstract == INSTANCE ReplicatedTables WITH
    data <- [n \in Nodes |-> IF n \in budget.resets
                             THEN [i \in Index |-> IF data[n][i] > 0 THEN 1 ELSE 0]
                             ELSE data[n]]
ImplementsReplicatedTables == Abstract!Spec

(* "all redb stores converge" (docs/ARCHITECTURE.md): nodes that report the *)
(* same applied position have the same tables.                              *)
ReplicasConverge ==
    \A n, m \in Nodes : applied[n] = applied[m] => data[n] = data[m]

(* Once no more entries come, every node ends up having applied all that    *)
(* are committed, from a leader's log or from its snapshot.                 *)
EveryNodeCatchesUp == <>[](\A n \in Nodes : applied[n] = committed)
=============================================================================
