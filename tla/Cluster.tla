------------------------------- MODULE Cluster -------------------------------
(***************************************************************************)
(* How the nodes of a cluster come together and how a write travels: start *)
(* and bootstrap of raft/node.rs with the probes of                        *)
(* cluster_already_running, the guard of the node-to-node server           *)
(* (raft/server.rs, raft/peer.rs), and write and forward.                  *)
(*                                                                         *)
(* Nodes stop and start again, on another address and with the next step   *)
(* of the cluster-token rollout README.md describes; they lose their disk  *)
(* or find their metadata unreadable; probes and answers get lost.         *)
(*                                                                         *)
(* openraft itself is external: elections, replication and commitment are  *)
(* modelled by what they promise, over the same guarded requests.  A log   *)
(* is the set of writes a node has stored and the term of the last of      *)
(* them; how it is kept on disk is RaftStorage's subject.                  *)
(***************************************************************************)
EXTENDS Integers, FiniteSets, FiniteSetsExt

CONSTANTS Nodes,         \* node ids, numbers: the lowest bootstraps
          Writes,        \* client writes, each sent once
          NONE,
          Token,         \* VAULT_CLUSTER_TOKEN
          PeerCheck,     \* VAULT_RAFT_PEER_CHECK
          MaxAttempts,   \* rounds of cluster discovery (10 in the code)
          MaxStops,      \* bound on stops and crashes
          MaxFaults      \* bound on lost disks and unreadable metadata

ASSUME ClusterAssumption ==
    /\ Nodes \subseteq Nat /\ IsFiniteSet(Nodes) /\ Cardinality(Nodes) > 1
    /\ MaxAttempts \in Nat \ {0} /\ {MaxStops, MaxFaults} \subseteq Nat
    /\ PeerCheck \in BOOLEAN
    /\ NONE \notin Nodes \cup {Token} \cup Nat
    /\ NONE \notin {"ok", "refused", "error"}

VARIABLES status,    \* "down", "probing" (in bootstrap) or "serving"
          auth,      \* PeerAuth: the credential a node runs with
          addr,      \* the address its name resolves to, new after each stop
          resolved,  \* PeerAddrs.resolved: last known address of each peer
          member,    \* stored Raft state: which initialization it stems from
          readable,  \* whether the stored metadata can be read
          log,       \* stored writes, and the term of the last entry
          leader,    \* the elected leader, or NONE
          known,     \* the leader a node knows of
          probe,     \* cluster_already_running of the lowest node
          writes,    \* each client write on its way
          committed, \* outcome of each committed write, or NONE
          past       \* history: elections (the term), initializations,
                     \* stops, faults, and blind: an initialization some
                     \* peer had not answered before

node == <<status, auth, addr, resolved, member, readable>>
raft == <<log, leader, known, committed>>
vars == <<node, raft, probe, writes, past>>

Lowest == Min(Nodes)
Others(n) == Nodes \ {n}
Majority(S) == 2 * Cardinality(S) > Cardinality(Nodes)
Up(n) == status[n] # "down"
OneCluster == \A m, n \in Nodes :
                  member[m] # NONE /\ member[n] # NONE => member[m] = member[n]

Open == [token |-> NONE, required |-> FALSE]
FirstProbe == [attempt |-> 1, todo |-> Others(Lowest), reached |-> FALSE,
               silent |-> FALSE]
EmptyLog == [term |-> 0, writes |-> {}]
NewWrite == [pc |-> "new", at |-> NONE, via |-> NONE, answer |-> NONE]
Done(a) == [pc |-> "done", at |-> NONE, via |-> NONE, answer |-> a]
Unresolved == [m \in Nodes |-> NONE]

Init == /\ status = [n \in Nodes |-> "down"]
        /\ auth = [n \in Nodes |-> Open]
        /\ addr = [n \in Nodes |-> 1]
        /\ resolved = [n \in Nodes |-> Unresolved]
        /\ member = [n \in Nodes |-> NONE]
        /\ readable = [n \in Nodes |-> TRUE]
        /\ log = [n \in Nodes |-> EmptyLog]
        /\ leader = NONE
        /\ known = [n \in Nodes |-> NONE]
        /\ probe = FirstProbe
        /\ writes = [w \in Writes |-> NewWrite]
        /\ committed = [w \in Writes |-> NONE]
        /\ past = [term |-> 0, inits |-> 0, stops |-> 0, faults |-> 0, blind |-> FALSE]

---------------------------------------------------------------------------
(* The guard of the node-to-node server *)

(* A node with a token asks every request for it, required or not.          *)
accepts_only_token(a, presented) == a.token = NONE \/ presented = a.token

(* PeerAuth.accepts: without a token everything passes, a wrong credential  *)
(* never does, and a missing one does until it is required.                 *)
accepts(a, presented) ==
    \/ a.token = NONE
    \/ IF presented = NONE THEN ~a.required ELSE presented = a.token

(* The addresses found at the start are the ones used from then on.         *)
looked_up_once(n, m) == resolved[n]

(* PeerAddrs.allows, the address table after a request of m reaches n: a    *)
(* miss looks all peers up again before the request is refused.  Looking a  *)
(* name up always succeeds here.                                            *)
looked_up(n, m) ==
    IF ~PeerCheck \/ resolved[n][m] = addr[m] THEN resolved[n] ELSE addr

allows(n, m) == PeerCheck => looked_up(n, m)[m] = addr[m]

(* A request of m is served by n.                                           *)
Served(n, m) == Up(n) /\ allows(n, m) /\ accepts(auth[n], auth[m].token)

(* The address tables once the nodes in S have had a request of m.          *)
Heard(S, m) == resolved' = [n \in Nodes |->
                   IF n \in S /\ n # m /\ Up(n) THEN looked_up(n, m) ELSE resolved[n]]

---------------------------------------------------------------------------
(* Start and bootstrap *)

(* The rollout README.md describes: the token goes to every node first, and *)
(* only then does a node require it.                                        *)
Rollout(n) ==
    {auth[n], [token |-> Token, required |-> auth[n].required]} \cup
    IF \A m \in Nodes : auth[m].token # NONE
    THEN {[token |-> Token, required |-> TRUE]} ELSE {}

(* bootstrap: a node that has Raft state, or is not the lowest, waits for   *)
(* the leader.                                                              *)
Bootstraps(n, state) == n = Lowest /\ state = NONE

(* any_peer_initialized with credential a: the peers that report a cluster  *)
(* to node n.  Those before the first of them have been asked as well.      *)
Reporting(n, a) ==
    {m \in Others(n) : /\ Up(m) /\ member[m] # NONE
                       /\ allows(m, n) /\ accepts(auth[m], a.token)}

(* RaftNode::start and the start of bootstrap.  Unreadable metadata is      *)
(* discarded if any peer reports a cluster; otherwise the node fails to     *)
(* start.  The server listens before bootstrap runs.                        *)
start(n) ==
    LET state == IF readable[n] THEN member[n] ELSE NONE
    IN  /\ ~Up(n)
        /\ status' = [status EXCEPT ![n] =
                         IF Bootstraps(n, state) THEN "probing" ELSE "serving"]
        /\ probe' = IF n = Lowest THEN FirstProbe ELSE probe
        /\ readable' = [readable EXCEPT ![n] = TRUE]
        /\ member' = [member EXCEPT ![n] = state]
        /\ log' = [log EXCEPT ![n] = IF readable[n] THEN @ ELSE EmptyLog]
        /\ \E a \in Rollout(n) :
              /\ readable[n] \/ Reporting(n, a) # {}
              /\ auth' = [auth EXCEPT ![n] = a]
              /\ resolved' = [m \in Nodes |->
                    IF m = n THEN addr
                    ELSE IF ~readable[n] /\ Up(m) /\ m <= Min(Reporting(n, a))
                    THEN looked_up(m, n) ELSE resolved[m]]
        /\ UNCHANGED <<addr, leader, known, committed, writes, past>>

(* Every peer that answers is taken to have no cluster.                     *)
ReportsCluster_never(m) == FALSE

(* server.rs initialized: is_initialized of the peer.                       *)
ReportsCluster(m) == member[m] # NONE

(* probe_peer_initialized, answered.  The first peer that reports a cluster *)
(* ends the search.                                                         *)
probe_answered(m) ==
    /\ status[Lowest] = "probing"
    /\ probe.todo # {} /\ m = Min(probe.todo)
    /\ Served(m, Lowest)
    /\ Heard({m}, Lowest)
    /\ IF ReportsCluster(m)
       THEN /\ status' = [status EXCEPT ![Lowest] = "serving"]
            /\ probe' = FirstProbe
       ELSE /\ probe' = [probe EXCEPT !.todo = @ \ {m}, !.reached = TRUE]
            /\ UNCHANGED status
    /\ UNCHANGED <<auth, addr, member, readable, raft, writes, past>>

(* probe_peer_initialized without an answer: the peer is down or refuses,   *)
(* or two seconds pass.                                                     *)
probe_silent(m) ==
    /\ status[Lowest] = "probing"
    /\ probe.todo # {} /\ m = Min(probe.todo)
    /\ probe' = [probe EXCEPT !.todo = @ \ {m}, !.silent = TRUE]
    /\ Heard({m}, Lowest)
    /\ UNCHANGED <<status, auth, addr, member, readable, raft, writes, past>>

MoreAttempts == probe.attempt < MaxAttempts

(* The end of a round that reached nobody: another round, or, after the     *)
(* last, the refusal to initialize.                                         *)
round_failed ==
    /\ status[Lowest] = "probing"
    /\ probe.todo = {} /\ ~probe.reached
    /\ IF MoreAttempts
       THEN /\ probe' = [FirstProbe EXCEPT !.attempt = probe.attempt + 1]
            /\ UNCHANGED status
       ELSE /\ probe' = FirstProbe
            /\ status' = [status EXCEPT ![Lowest] = "serving"]
    /\ UNCHANGED <<auth, addr, resolved, member, readable, raft, writes, past>>

(* raft.initialize, skipped if the node was contacted meanwhile.            *)
initialize ==
    /\ status[Lowest] = "probing"
    /\ probe.todo = {} /\ probe.reached
    /\ status' = [status EXCEPT ![Lowest] = "serving"]
    /\ probe' = FirstProbe
    /\ IF member[Lowest] = NONE
       THEN /\ member' = [member EXCEPT ![Lowest] = past.inits + 1]
            /\ past' = [past EXCEPT !.inits = @ + 1,
                                    !.blind = @ \/ probe.silent]
       ELSE UNCHANGED <<member, past>>
    /\ UNCHANGED <<auth, addr, resolved, readable, raft, writes>>

---------------------------------------------------------------------------
(* Faults *)

(* A stop or crash.  A container comes back on another address.             *)
stop(n) ==
    /\ Up(n)
    /\ past.stops < MaxStops
    /\ past' = [past EXCEPT !.stops = @ + 1]
    /\ status' = [status EXCEPT ![n] = "down"]
    /\ addr' = [addr EXCEPT ![n] = @ + 1]
    /\ leader' = IF leader = n THEN NONE ELSE leader
    /\ known' = [known EXCEPT ![n] = NONE]
    /\ probe' = IF n = Lowest THEN FirstProbe ELSE probe
    /\ writes' = [w \in Writes |->
                     IF writes[w].at = n THEN Done(NONE) ELSE writes[w]]
    /\ resolved' = [resolved EXCEPT ![n] = Unresolved]
    /\ UNCHANGED <<auth, member, readable, log, committed>>

(* A stopped node loses its disk.                                           *)
lose_disk(n) ==
    /\ ~Up(n) /\ past.faults < MaxFaults /\ member[n] # NONE
    /\ past' = [past EXCEPT !.faults = @ + 1]
    /\ member' = [member EXCEPT ![n] = NONE]
    /\ log' = [log EXCEPT ![n] = EmptyLog]
    /\ UNCHANGED <<status, auth, addr, resolved, readable, leader, known,
                   committed, probe, writes>>

(* A stopped node's Raft metadata becomes unreadable.                       *)
lose_metadata(n) ==
    /\ ~Up(n) /\ past.faults < MaxFaults /\ member[n] # NONE
    /\ past' = [past EXCEPT !.faults = @ + 1]
    /\ readable' = [readable EXCEPT ![n] = FALSE]
    /\ UNCHANGED <<status, auth, addr, resolved, member, raft, probe, writes>>

---------------------------------------------------------------------------
(* openraft, over the guarded requests.  What two clusters initialized one  *)
(* after the other do to each other is left open.                           *)

Joins(S, n) == member' = [m \in Nodes |-> IF m \in S THEN member[n] ELSE member[m]]

UpToDate(a, b) == \/ a.term > b.term
                  \/ a.term = b.term /\ b.writes \subseteq a.writes

(* A majority none of which has a newer log votes for the candidate, which  *)
(* opens its term with an entry of its own.  A node that is asked for its   *)
(* vote counts as initialized from then on.                                 *)
elect(n) ==
    LET asked == {m \in Others(n) : Served(m, n)}
        voters == {m \in asked : UpToDate(log[n], log[m])} \cup {n}
    IN  /\ leader = NONE /\ Up(n) /\ member[n] # NONE
        /\ OneCluster /\ Majority(voters)
        /\ leader' = n
        /\ past' = [past EXCEPT !.term = @ + 1]
        /\ log' = [log EXCEPT ![n].term = past.term + 1]
        /\ known' = [known EXCEPT ![n] = n]
        /\ Joins(asked, n)
        /\ Heard(asked, n)
        /\ UNCHANGED <<status, auth, addr, readable, committed, probe, writes>>

(* The leader loses touch with its followers.                               *)
step_down ==
    /\ leader # NONE /\ past.stops < MaxStops
    /\ past' = [past EXCEPT !.stops = @ + 1]
    /\ leader' = NONE
    /\ UNCHANGED <<node, log, known, committed, probe, writes>>

(* append_entries and install_snapshot of NetworkConnection: the node takes *)
(* over the leader's log.  A node that was never contacted becomes part of  *)
(* the cluster.                                                             *)
replicate(m) ==
    /\ leader # NONE /\ m # leader
    /\ log[m] # log[leader] \/ known[m] # leader \/ member[m] = NONE
    /\ Served(m, leader) /\ OneCluster
    /\ log' = [log EXCEPT ![m] = log[leader]]
    /\ known' = [known EXCEPT ![m] = leader]
    /\ Joins({m}, leader)
    /\ Heard({m}, leader)
    /\ UNCHANGED <<status, auth, addr, readable, leader, committed, probe,
                   writes, past>>

(* The leader commits what a majority stores; the state machine finds the   *)
(* command applicable or refuses it.                                        *)
commit(w) ==
    /\ leader # NONE /\ w \in log[leader].writes /\ committed[w] = NONE
    /\ Majority({n \in Nodes : log[n] = log[leader]})
    /\ \E outcome \in {"ok", "refused"} :
          committed' = [committed EXCEPT ![w] = outcome]
    /\ UNCHANGED <<node, log, leader, known, probe, writes, past>>

---------------------------------------------------------------------------
(* Writes *)

(* client_write on the leader appends the command and waits for its commit. *)
Propose(w, n) == log' = [log EXCEPT ![n].writes = @ \cup {w}]

(* RaftNode::write: the leader proposes, another node forwards to the       *)
(* leader it knows of, or fails.                                            *)
write(w, n) ==
    /\ writes[w].pc = "new" /\ status[n] = "serving"
    /\ IF n = leader
       THEN /\ Propose(w, n)
            /\ writes' = [writes EXCEPT ![w] = [pc |-> "waiting", at |-> n,
                                                via |-> n, answer |-> NONE]]
       ELSE /\ writes' = [writes EXCEPT ![w] =
                  IF known[n] \in {NONE, n} THEN Done("error")
                  ELSE [pc |-> "forward", at |-> n, via |-> known[n], answer |-> NONE]]
            /\ UNCHANGED log
    /\ UNCHANGED <<node, leader, known, committed, probe, past>>

Answer(w, a) == writes' = [writes EXCEPT ![w] = Done(a)]

(* RaftNode::forward with server.rs apply: refused by the guard, out of     *)
(* reach, or no longer the leader, the other node makes it an error.        *)
forward(w) ==
    LET to == writes[w].via
    IN  /\ writes[w].pc = "forward"
        /\ Heard({to}, writes[w].at)
        /\ IF Served(to, writes[w].at) /\ leader = to
           THEN /\ Propose(w, to)
                /\ writes' = [writes EXCEPT ![w].pc = "waiting"]
           ELSE /\ Answer(w, "error")
                /\ UNCHANGED log
        /\ UNCHANGED <<status, auth, addr, member, readable, leader, known,
                       committed, probe, past>>

(* A forwarded write is taken for done as soon as the leader has it.        *)
answered_early(w) ==
    /\ writes[w].pc = "waiting" /\ leader = writes[w].via
    /\ Answer(w, "ok")
    /\ UNCHANGED <<node, raft, probe, past>>

(* outcome_to_result of the applied command.                                *)
answered(w) ==
    /\ writes[w].pc = "waiting" /\ leader = writes[w].via
    /\ committed[w] # NONE
    /\ Answer(w, committed[w])
    /\ UNCHANGED <<node, raft, probe, past>>

(* The answer of another node is lost, or the leader steps down before it   *)
(* commits: an error, whatever becomes of the write.                        *)
unanswered(w) ==
    /\ writes[w].pc = "waiting"
    /\ writes[w].via # writes[w].at \/ leader # writes[w].via
    /\ Answer(w, "error")
    /\ UNCHANGED <<node, raft, probe, past>>

(* What goes on by itself: stopped nodes are started again, a probe ends    *)
(* within two seconds, openraft keeps electing and replicating.             *)
Progress == \/ \E n \in Nodes : \/ start(n) \/ elect(n) \/ replicate(n)
                                \/ probe_answered(n) \/ probe_silent(n)
            \/ round_failed \/ initialize
            \/ \E w \in Writes : commit(w) \/ forward(w) \/ answered(w)

Next == \/ Progress
        \/ \E n \in Nodes : stop(n) \/ lose_disk(n) \/ lose_metadata(n)
        \/ step_down
        \/ \E w \in Writes : \/ unanswered(w)
                             \/ \E n \in Nodes : write(w, n)

Spec == Init /\ [][Next]_vars

(* Some step of Progress is taken as long as one can be.                    *)
FairSpec == Spec /\ WF_vars(Progress)

---------------------------------------------------------------------------
(* Properties *)

(* "the rollout pass must not split a cluster" (raft/peer.rs) and "Set the  *)
(* token on every node first, then turn this on everywhere" (README.md): at *)
(* every point of a rollout in that order, with nodes restarting one after  *)
(* the other, every running node serves every other running node.           *)
RolloutKeepsPeersTalking ==
    \A m, n \in Nodes : Up(n) /\ Up(m) => Served(n, m)

(* "NOT re-initializing - this node lost its local state and will be caught *)
(* up by the current leader" (bootstrap): the lowest node, having lost its  *)
(* state, starts a second cluster only if a peer did not answer its probe,  *)
(* or another node lost its state as well.                                  *)
SecondClusterOnlyBlind == past.blind \/ past.faults > 1 \/ OneCluster

(* What write and forward report is what happened: a write reported as done *)
(* or as refused was committed with that outcome and, as long as no node    *)
(* lost its log, a majority stores it.                                      *)
AnswerIsTheOutcome ==
    \A w \in Writes :
        writes[w].answer \in {"ok", "refused"} =>
            /\ committed[w] = writes[w].answer
            /\ \/ past.faults > 0
               \/ Majority({n \in Nodes : w \in log[n].writes})

(* The lowest node has given up looking for peers, or the only node with    *)
(* state cannot read it: only another start, or the operator, helps.        *)
Waiting == \/ status[Lowest] = "serving" /\ \A n \in Nodes : member[n] = NONE
           \/ \E n \in Nodes : ~readable[n]

(* Every first boot, and every return of a node that lost its state, ends   *)
(* with all nodes in one cluster; or, for lack of an answer, with the       *)
(* lowest node waiting or a second cluster.                                 *)
ClusterForms ==
    <>[](\/ \A n \in Nodes : member[n] # NONE
         \/ Waiting \/ past.blind)

(* A write reported as done on one node reaches every node's store, so a    *)
(* read that RaftStore serves from the local store is stale for a while     *)
(* only, through restarts, address changes and the token rollout.           *)
DoneReachesEveryNode ==
    \A w \in Writes :
        writes[w].answer = "ok" ~>
            (past.faults > 0 \/ \A n \in Nodes : w \in log[n].writes)
=============================================================================
