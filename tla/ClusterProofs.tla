---------------------------- MODULE ClusterProofs ----------------------------
(***************************************************************************)
(* Theorems about Cluster, for clusters of any size and any number of      *)
(* restarts, address changes and faults.                                   *)
(***************************************************************************)
EXTENDS Cluster, FiniteSetTheorems, TLAPS

---------------------------------------------------------------------------
(* The rollout of the token *)

(* What a node runs with.                                                   *)
Credentials == [token : {NONE, Token}, required : BOOLEAN]

(* Some node requires the token only once every node has it: what makes     *)
(* every step of the rollout compatible with every other.                   *)
RolloutInOrder ==
    /\ auth \in [Nodes -> Credentials]
    /\ \A n \in Nodes : auth[n].required => \A m \in Nodes : auth[m].token # NONE

(* The order of the rollout is kept by every step.                          *)
LEMMA RolloutStep == RolloutInOrder /\ [Next]_vars => RolloutInOrder'
<1> SUFFICES ASSUME RolloutInOrder, [Next]_vars PROVE RolloutInOrder'
  OBVIOUS
<1>1. ASSUME NEW n \in Nodes, start(n) PROVE RolloutInOrder'
  <2>1. PICK a \in Rollout(n) : auth' = [auth EXCEPT ![n] = a]
    BY <1>1, Zenon DEF start
  <2>2. /\ a \in Credentials
        /\ a.token = NONE => auth[n].token = NONE
        /\ a.required => \A m \in Nodes : auth[m].token # NONE
    <3>1. CASE a = auth[n]
      BY <3>1 DEF RolloutInOrder
    <3>2. CASE a = [token |-> Token, required |-> auth[n].required]
      BY <3>2, ClusterAssumption DEF RolloutInOrder, Credentials
    <3>3. CASE /\ a = [token |-> Token, required |-> TRUE]
               /\ \A m \in Nodes : auth[m].token # NONE
      BY <3>3, ClusterAssumption DEF RolloutInOrder, Credentials
    <3> QED
      BY <3>1, <3>2, <3>3 DEF Rollout
  <2> QED
    BY <2>1, <2>2 DEF RolloutInOrder
<1>2. \/ UNCHANGED auth
      \/ \E n \in Nodes : start(n)
  BY Zenon DEF Next, Progress, vars, node, elect, replicate, probe_answered,
         probe_silent, round_failed, initialize, commit, forward, answered,
         stop, lose_disk, lose_metadata, step_down, unanswered, write
<1> QED
  BY <1>1, <1>2 DEF RolloutInOrder

(* Rolled out in the documented order, the cluster token never keeps two    *)
(* running nodes apart, and neither do restarts on new addresses            *)
(* (peer.rs, accepts and allows; server.rs, guard).                         *)
THEOREM RolloutKeepsPeersTalkingAlways == Spec => []RolloutKeepsPeersTalking
<1>1. Init => RolloutInOrder
  BY DEF Init, RolloutInOrder, Credentials, Open
<1>2. RolloutInOrder => RolloutKeepsPeersTalking
  <2> SUFFICES ASSUME RolloutInOrder, NEW m \in Nodes, NEW n \in Nodes, Up(n)
               PROVE  Served(n, m)
    BY DEF RolloutKeepsPeersTalking
  <2>1. allows(n, m)
    BY DEF allows, looked_up
  <2>2. accepts(auth[n], auth[m].token)
    BY ClusterAssumption DEF accepts, RolloutInOrder, Credentials
  <2> QED
    BY <2>1, <2>2 DEF Served
<1> QED
  BY <1>1, <1>2, RolloutStep, PTL DEF Spec

---------------------------------------------------------------------------
(* Shapes *)

(* A log, and a client write on its way.                                    *)
Logs == [term : Nat, writes : SUBSET Writes]
Requests == [pc : {"new", "forward", "waiting", "done"}, at : Nodes \cup {NONE},
             via : Nodes \cup {NONE}, answer : {NONE, "ok", "refused", "error"}]

(* The search of the lowest node and the history.                           *)
Probes == [attempt : Nat, todo : SUBSET Others(Lowest), reached : BOOLEAN, silent : BOOLEAN]
Pasts == [term : Nat, inits : Nat, stops : Nat, faults : Nat, blind : BOOLEAN]

(* The shapes of what the theorems are about.  A leader runs and is a       *)
(* member, and a write is forwarded to a node.                              *)
Shapes ==
    /\ status \in [Nodes -> {"down", "probing", "serving"}]
    /\ member \in [Nodes -> Nat \cup {NONE}]
    /\ readable \in [Nodes -> BOOLEAN]
    /\ log \in [Nodes -> Logs]
    /\ leader \in Nodes \cup {NONE}
    /\ known \in [Nodes -> Nodes \cup {NONE}]
    /\ probe \in Probes
    /\ writes \in [Writes -> Requests]
    /\ committed \in [Writes -> {NONE, "ok", "refused"}]
    /\ past \in Pasts
    /\ leader # NONE => Up(leader) /\ member[leader] # NONE
    /\ \A w \in Writes : writes[w].pc = "forward" => writes[w].via \in Nodes

(* Without a fault, all metadata can be read.                               *)
AllReadable == \A n \in Nodes : readable[n]

---------------------------------------------------------------------------
(* Invariants *)

(* The nodes from which a write cannot be lost: any node whose log is as    *)
(* new as theirs, and so may win their vote, has the write as well.         *)
Safe(w) == {m \in Nodes : /\ w \in log[m].writes
                          /\ \A n \in Nodes : UpToDate(log[n], log[m]) => w \in log[n].writes}

(* Terms grow; the logs of the current term are the leader's, or behind it. *)
TermsInv ==
    /\ \A n \in Nodes : log[n].term <= past.term
    /\ leader # NONE =>
          /\ log[leader].term = past.term
          /\ \A n \in Nodes : log[n].term = past.term => log[n].writes \subseteq log[leader].writes

(* A committed write is safe on a majority, and the leader has it.          *)
CommitInv ==
    \A w \in Writes : committed[w] # NONE =>
        /\ Majority(Safe(w))
        /\ leader # NONE => w \in log[leader].writes

(* What is reported is what was committed.                                  *)
AnswerInv ==
    \A w \in Writes : writes[w].answer \in {"ok", "refused"} => committed[w] = writes[w].answer

(* The inductive invariant behind AnswerIsTheOutcome.                       *)
OutcomeInv == /\ Shapes
              /\ AnswerInv
              /\ past.faults = 0 => AllReadable /\ TermsInv /\ CommitInv

(* Some node is a member of a cluster.                                      *)
Founded == \E n \in Nodes : member[n] # NONE

(* The inductive invariant behind SecondClusterOnlyBlind.  Only the lowest  *)
(* node founds a cluster, so it is a member of every one until a fault      *)
(* takes its state; and then the search has a member still to ask.          *)
FoundingInv ==
    past.blind \/ past.faults > 1 \/
      /\ OneCluster
      /\ past.faults = 0 => AllReadable
      /\ past.faults = 0 \/ ~AllReadable => (Founded => member[Lowest] # NONE)
      /\ \A m, n \in Nodes : ~readable[m] /\ ~readable[n] => m = n
      /\ status[Lowest] = "probing" /\ ~probe.silent /\ member[Lowest] = NONE /\ Founded =>
            \E m \in probe.todo : member[m] # NONE

---------------------------------------------------------------------------
(* Every step keeps the shapes *)

(* The lowest node is one.                                                  *)
LEMMA LowestIsNode == Lowest \in Nodes
<1> DEFINE R == {ss \in Nat \X Nat : ss[1] < ss[2]}
<1>1. IsWellFoundedOn(R, Nat)
  BY NatLessThanWellFounded DEF OpToRel
<1>2. Nodes # {} /\ Nodes \subseteq Nat
  BY ClusterAssumption, FS_EmptySet
<1> HIDE DEF R
<1>3. PICK z \in Nodes : \A y \in Nodes : ~(<<y, z>> \in R)
  BY <1>1, <1>2, WFMin, Zenon
<1>4. \A y \in Nodes : z <= y
  <2>1. \A y \in Nodes : ~(y < z)
    BY <1>2, <1>3, Zenon DEF R
  <2> QED
    BY <1>2, <2>1
<1> QED
  BY <1>3, <1>4, Zenon DEF Lowest, Min

(* What becomes of the history.                                             *)
LEMMA HistoryStep ==
    ASSUME Shapes, [Next]_vars
    PROVE  /\ past' \in Pasts
           /\ \/ past'.term = past.term
              \/ past'.term = past.term + 1 /\ \E n \in Nodes : elect(n)
           /\ \/ past'.faults = past.faults
              \/ past'.faults = past.faults + 1 /\ \E n \in Nodes : lose_disk(n) \/ lose_metadata(n)
           /\ past'.blind = past.blind \/ initialize
<1>1. past \in Pasts /\ probe.silent \in BOOLEAN
  BY DEF Shapes, Probes
<1>2. \/ UNCHANGED past
      \/ past' = [past EXCEPT !.stops = past.stops + 1]
      \/ past' = [past EXCEPT !.term = past.term + 1] /\ \E n \in Nodes : elect(n)
      \/ past' = [past EXCEPT !.faults = past.faults + 1]
            /\ \E n \in Nodes : lose_disk(n) \/ lose_metadata(n)
      \/ past' = [past EXCEPT !.inits = past.inits + 1, !.blind = past.blind \/ probe.silent]
            /\ initialize
  BY Zenon DEF Next, Progress, vars, start, elect, replicate, probe_answered,
         probe_silent, round_failed, initialize, commit, forward, answered,
         stop, lose_disk, lose_metadata, step_down, unanswered, write
<1>3. CASE UNCHANGED past
  BY <1>1, <1>3
<1>4. CASE past' = [past EXCEPT !.stops = past.stops + 1]
  BY <1>1, <1>4 DEF Pasts
<1>5. CASE past' = [past EXCEPT !.term = past.term + 1] /\ \E n \in Nodes : elect(n)
  BY <1>1, <1>5 DEF Pasts
<1>6. CASE past' = [past EXCEPT !.faults = past.faults + 1]
             /\ \E n \in Nodes : lose_disk(n) \/ lose_metadata(n)
  BY <1>1, <1>6 DEF Pasts
<1>7. CASE past' = [past EXCEPT !.inits = past.inits + 1, !.blind = past.blind \/ probe.silent]
             /\ initialize
  <2> DEFINE b == past.blind \/ probe.silent
  <2>1. b \in BOOLEAN /\ past' = [past EXCEPT !.inits = past.inits + 1, !.blind = b]
    BY <1>7
  <2> HIDE DEF b
  <2>2. /\ past'.inits = past.inits + 1 /\ past'.term = past.term
        /\ past'.faults = past.faults
    BY <1>1, <2>1 DEF Pasts
  <2>3. past.inits + 1 \in Nat
    BY <1>1 DEF Pasts
  <2>4. past' \in Pasts
    BY <1>1, <2>1, <2>3, Zenon DEF Pasts
  <2> QED
    BY <1>7, <2>2, <2>4, Zenon
<1> QED
  BY <1>2, <1>3, <1>4, <1>5, <1>6, <1>7

(* Nodes keep their shapes.                                                 *)
LEMMA NodeStep ==
    ASSUME Shapes, [Next]_vars
    PROVE  /\ status' \in [Nodes -> {"down", "probing", "serving"}]
           /\ member' \in [Nodes -> Nat \cup {NONE}]
           /\ readable' \in [Nodes -> BOOLEAN]
           /\ probe' \in Probes
<1>1. /\ status \in [Nodes -> {"down", "probing", "serving"}]
      /\ member \in [Nodes -> Nat \cup {NONE}] /\ readable \in [Nodes -> BOOLEAN]
      /\ probe \in Probes /\ past.inits + 1 \in Nat /\ leader \in Nodes \cup {NONE}
      /\ Lowest \in Nodes /\ MaxAttempts \in Nat
  BY LowestIsNode, ClusterAssumption DEF Shapes, Pasts
<1>2. status' \in [Nodes -> {"down", "probing", "serving"}]
  <2>1. UNCHANGED status \/ \E n \in Nodes, s \in {"down", "probing", "serving"} :
           status' = [status EXCEPT ![n] = s]
    BY <1>1, Zenon DEF Next, Progress, vars, node, start, elect, replicate, probe_answered,
           probe_silent, round_failed, initialize, commit, forward, answered,
           stop, lose_disk, lose_metadata, step_down, unanswered, write
  <2> QED
    BY <1>1, <2>1, Zenon
<1>3. member' \in [Nodes -> Nat \cup {NONE}]
  <2>1. \/ UNCHANGED member
        \/ \E n \in Nodes, v \in Nat \cup {NONE} : member' = [member EXCEPT ![n] = v]
        \/ \E n \in Nodes, S \in SUBSET Nodes : Joins(S, n)
    <3>1. ASSUME NEW n \in Nodes, start(n) PROVE \E v \in Nat \cup {NONE} : member' = [member EXCEPT ![n] = v]
      BY <1>1, <3>1, Zenon DEF start
    <3>2. ASSUME NEW n \in Nodes, elect(n) PROVE \E S \in SUBSET Nodes : Joins(S, n)
      <4> DEFINE S == {m \in Others(n) : Served(m, n)}
      <4>1. Joins(S, n) /\ S \in SUBSET Nodes
        BY <3>2 DEF elect, Others
      <4> QED
        BY <4>1, Zenon
    <3>3. ASSUME NEW m \in Nodes, replicate(m) PROVE \E n \in Nodes, S \in SUBSET Nodes : Joins(S, n)
      <4>1. Joins({m}, leader) /\ leader \in Nodes
        BY <1>1, <3>3 DEF replicate
      <4> QED
        BY <4>1
    <3> QED
      BY <1>1, <3>1, <3>2, <3>3, Zenon DEF Next, Progress, vars, node, probe_answered,
           probe_silent, round_failed, initialize, commit, forward, answered,
           stop, lose_disk, lose_metadata, step_down, unanswered, write
  <2>2. CASE UNCHANGED member
    BY <1>1, <2>2
  <2>3. CASE \E n \in Nodes, v \in Nat \cup {NONE} : member' = [member EXCEPT ![n] = v]
    BY <1>1, <2>3
  <2>4. CASE \E n \in Nodes, S \in SUBSET Nodes : Joins(S, n)
    BY <1>1, <2>4 DEF Joins
  <2> QED
    BY <2>1, <2>2, <2>3, <2>4
<1>4. readable' \in [Nodes -> BOOLEAN]
  <2>1. UNCHANGED readable \/ \E n \in Nodes, b \in BOOLEAN : readable' = [readable EXCEPT ![n] = b]
    BY Zenon DEF Next, Progress, vars, node, start, elect, replicate, probe_answered,
           probe_silent, round_failed, initialize, commit, forward, answered,
           stop, lose_disk, lose_metadata, step_down, unanswered, write
  <2> QED
    BY <1>1, <2>1, Zenon
<1>5. probe' \in Probes
  <2>1. \/ UNCHANGED probe \/ probe' = FirstProbe
        \/ probe' = [FirstProbe EXCEPT !.attempt = probe.attempt + 1]
        \/ \E m \in Nodes : probe' = [probe EXCEPT !.todo = probe.todo \ {m}, !.reached = TRUE]
        \/ \E m \in Nodes : probe' = [probe EXCEPT !.todo = probe.todo \ {m}, !.silent = TRUE]
    BY Zenon DEF Next, Progress, vars, node, start, elect, replicate, probe_answered,
           probe_silent, round_failed, initialize, commit, forward, answered,
           stop, lose_disk, lose_metadata, step_down, unanswered, write
  <2>2. FirstProbe \in Probes /\ probe.attempt + 1 \in Nat
    BY <1>1 DEF FirstProbe, Probes
  <2>3. [FirstProbe EXCEPT !.attempt = probe.attempt + 1] \in Probes
    BY <2>2, Zenon DEF Probes
  <2>4. ASSUME NEW m \in Nodes
        PROVE  /\ [probe EXCEPT !.todo = probe.todo \ {m}, !.reached = TRUE] \in Probes
               /\ [probe EXCEPT !.todo = probe.todo \ {m}, !.silent = TRUE] \in Probes
    <3>1. probe.todo \ {m} \in SUBSET Others(Lowest)
      BY <1>1 DEF Probes
    <3> QED
      BY <1>1, <3>1, Zenon DEF Probes
  <2> QED
    BY <1>1, <2>1, <2>2, <2>3, <2>4, Zenon
<1> QED
  BY <1>2, <1>3, <1>4, <1>5

(* A client write is appended to the leader's log.                          *)
Proposed(w) == leader \in Nodes /\ Propose(w, leader) /\ UNCHANGED <<leader, committed, past>>

(* A node's log is gone, with its disk or with its metadata.                *)
Wiped(n) == log' = [log EXCEPT ![n] = EmptyLog] /\ (lose_disk(n) \/ ~readable[n])

(* What becomes of the logs.                                                *)
LEMMA LogMoves ==
    ASSUME Shapes, [Next]_vars
    PROVE  \/ UNCHANGED log
           \/ \E n \in Nodes : Wiped(n) \/ elect(n) \/ replicate(n)
           \/ \E w \in Writes : Proposed(w)
<1>1. log \in [Nodes -> Logs] /\ \A w \in Writes : writes[w].pc = "forward" => writes[w].via \in Nodes
  BY DEF Shapes
<1>2. ASSUME NEW n \in Nodes, start(n) PROVE UNCHANGED log \/ Wiped(n)
  BY <1>1, <1>2, Zenon DEF start, Wiped
<1>3. ASSUME NEW n \in Nodes, lose_disk(n) PROVE Wiped(n)
  BY <1>3 DEF lose_disk, Wiped
<1>4. ASSUME NEW w \in Writes, NEW n \in Nodes, write(w, n) PROVE UNCHANGED log \/ Proposed(w)
  BY <1>4, Zenon DEF write, Proposed
<1>5. ASSUME NEW w \in Writes, forward(w) PROVE UNCHANGED log \/ Proposed(w)
  BY <1>1, <1>5, Zenon DEF forward, Proposed
<1> QED
  BY <1>2, <1>3, <1>4, <1>5, Zenon DEF Next, Progress, vars, node, raft, probe_answered,
       probe_silent, round_failed, initialize, commit, answered,
       stop, lose_metadata, step_down, unanswered

(* Logs, leader and writes keep their shapes.                               *)
LEMMA RaftStep ==
    ASSUME Shapes, [Next]_vars
    PROVE  /\ log' \in [Nodes -> Logs]
           /\ leader' \in Nodes \cup {NONE}
           /\ known' \in [Nodes -> Nodes \cup {NONE}]
           /\ writes' \in [Writes -> Requests]
           /\ committed' \in [Writes -> {NONE, "ok", "refused"}]
           /\ \A w \in Writes : writes'[w].pc = "forward" => writes'[w].via \in Nodes
<1>1. /\ log \in [Nodes -> Logs] /\ leader \in Nodes \cup {NONE}
      /\ known \in [Nodes -> Nodes \cup {NONE}] /\ writes \in [Writes -> Requests]
      /\ committed \in [Writes -> {NONE, "ok", "refused"}] /\ past.term \in Nat
      /\ \A w \in Writes : writes[w].pc = "forward" => writes[w].via \in Nodes
  BY DEF Shapes, Pasts
<1>2. log' \in [Nodes -> Logs]
  <2>1. CASE UNCHANGED log
    BY <1>1, <2>1
  <2>2. ASSUME NEW n \in Nodes, Wiped(n) PROVE log' \in [Nodes -> Logs]
    BY <1>1, <2>2 DEF Wiped, EmptyLog, Logs
  <2>3. ASSUME NEW n \in Nodes, elect(n) PROVE log' \in [Nodes -> Logs]
    BY <1>1, <2>3 DEF elect, Logs
  <2>4. ASSUME NEW n \in Nodes, replicate(n) PROVE log' \in [Nodes -> Logs]
    <3>1. log[leader] \in Logs /\ log' = [log EXCEPT ![n] = log[leader]]
      BY <1>1, <2>4 DEF replicate
    <3> QED
      BY <1>1, <3>1
  <2>5. ASSUME NEW w \in Writes, Proposed(w) PROVE log' \in [Nodes -> Logs]
    BY <1>1, <2>5 DEF Proposed, Propose, Logs
  <2> QED
    BY <2>1, <2>2, <2>3, <2>4, <2>5, LogMoves, Zenon
<1>3. leader' \in Nodes \cup {NONE}
  <2>1. leader' = leader \/ leader' = NONE \/ leader' \in Nodes
    BY Zenon DEF Next, Progress, vars, node, raft, start, elect, replicate, probe_answered,
         probe_silent, round_failed, initialize, commit, forward, answered,
         stop, lose_disk, lose_metadata, step_down, unanswered, write
  <2> QED
    BY <1>1, <2>1
<1>4. known' \in [Nodes -> Nodes \cup {NONE}]
  <2>1. UNCHANGED known \/ \E n \in Nodes, m \in Nodes \cup {NONE} : known' = [known EXCEPT ![n] = m]
    BY <1>1, Zenon DEF Next, Progress, vars, node, raft, start, elect, replicate, probe_answered,
         probe_silent, round_failed, initialize, commit, forward, answered,
         stop, lose_disk, lose_metadata, step_down, unanswered, write
  <2> QED
    BY <1>1, <2>1, Zenon
<1>5. committed' \in [Writes -> {NONE, "ok", "refused"}]
  <2>1. UNCHANGED committed \/ \E w \in Writes, o \in {"ok", "refused"} :
           committed' = [committed EXCEPT ![w] = o]
    BY Zenon DEF Next, Progress, vars, node, raft, start, elect, replicate, probe_answered,
         probe_silent, round_failed, initialize, commit, forward, answered,
         stop, lose_disk, lose_metadata, step_down, unanswered, write
  <2> QED
    BY <1>1, <2>1, Zenon
<1>6. /\ writes' \in [Writes -> Requests]
      /\ \A w \in Writes : writes'[w].pc = "forward" => writes'[w].via \in Nodes
  <2> DEFINE Good(x) == x \in Requests /\ (x.pc = "forward" => x.via \in Nodes)
  <2>1. \A w \in Writes : Good(writes[w])
    BY <1>1
  <2>2. \A a \in {NONE, "ok", "refused", "error"} : Good(Done(a))
    BY DEF Done, Requests
  <2>3. ASSUME NEW w \in Writes, NEW x, Good(x), writes' = [writes EXCEPT ![w] = x]
        PROVE  writes' \in [Writes -> Requests] /\ \A u \in Writes : Good(writes'[u])
    BY <1>1, <2>1, <2>3
  <2>4. ASSUME NEW n \in Nodes, stop(n)
        PROVE  writes' \in [Writes -> Requests] /\ \A u \in Writes : Good(writes'[u])
    <3>1. writes' = [w \in Writes |-> IF writes[w].at = n THEN Done(NONE) ELSE writes[w]]
      BY <2>4 DEF stop
    <3> HIDE DEF Good
    <3>2. \A u \in Writes : Good(writes'[u])
      BY <2>1, <2>2, <3>1
    <3> QED
      BY <3>1, <3>2 DEF Good
  <2>5. ASSUME NEW w \in Writes, NEW n \in Nodes, write(w, n)
        PROVE  \E x : Good(x) /\ writes' = [writes EXCEPT ![w] = x]
    <3>1. /\ Good([pc |-> "waiting", at |-> n, via |-> n, answer |-> NONE])
          /\ known[n] \notin {NONE, n} =>
                Good([pc |-> "forward", at |-> n, via |-> known[n], answer |-> NONE])
      BY <1>1 DEF Requests
    <3> HIDE DEF Good
    <3> QED
      BY <2>2, <2>5, <3>1, Zenon DEF write
  <2>6. ASSUME NEW w \in Writes, forward(w)
        PROVE  \E x : Good(x) /\ writes' = [writes EXCEPT ![w] = x]
    <3>1. \/ writes' = [writes EXCEPT ![w] = Done("error")]
          \/ writes' = [writes EXCEPT ![w].pc = "waiting"]
      BY <2>6 DEF forward, Answer
    <3>2. Good([writes[w] EXCEPT !.pc = "waiting"])
      BY <1>1 DEF Requests
    <3> HIDE DEF Good
    <3> QED
      BY <2>2, <3>1, <3>2, Zenon
  <2>7. ASSUME NEW w \in Writes, answered(w) \/ unanswered(w)
        PROVE  \E x : Good(x) /\ writes' = [writes EXCEPT ![w] = x]
    <3>1. \/ writes' = [writes EXCEPT ![w] = Done("error")]
          \/ writes' = [writes EXCEPT ![w] = Done(committed[w])] /\ committed[w] \in {NONE, "ok", "refused"}
      BY <1>1, <2>7 DEF answered, unanswered, Answer
    <3> HIDE DEF Good
    <3> QED
      BY <2>2, <3>1, Zenon
  <2>8. CASE UNCHANGED writes
    BY <1>1, <2>8
  <2> HIDE DEF Good
  <2>9. writes' \in [Writes -> Requests] /\ \A u \in Writes : Good(writes'[u])
    BY <1>1, <2>1, <2>3, <2>4, <2>5, <2>6, <2>7, <2>8, Zenon
         DEF Next, Progress, vars, node, raft, start, elect, replicate, probe_answered,
         probe_silent, round_failed, initialize, commit,
         lose_disk, lose_metadata, step_down
  <2> QED
    BY <2>9 DEF Good
<1> QED
  BY <1>2, <1>3, <1>4, <1>5, <1>6

(* A stopped node loses its state, or starts without it.                    *)
Lost(n) ==
    /\ ~Up(n) /\ member' = [member EXCEPT ![n] = NONE]
    /\ lose_disk(n) \/ (start(n) /\ ~readable[n])

(* The lowest node founds a cluster.                                        *)
Founds == /\ initialize /\ member[Lowest] = NONE
          /\ member' = [member EXCEPT ![Lowest] = past.inits + 1]
          /\ past'.blind = (past.blind \/ probe.silent)

(* Nodes join the cluster of node n.                                        *)
Joined(n) ==
    /\ member[n] # NONE
    /\ \A m \in Nodes : member'[m] \in {member[m], member[n]}
    /\ UNCHANGED <<status, readable, probe>> /\ past'.faults = past.faults

(* What becomes of the memberships.                                         *)
LEMMA MemberMoves ==
    ASSUME Shapes, [Next]_vars
    PROVE  UNCHANGED member \/ Founds \/ \E n \in Nodes : Lost(n) \/ Joined(n)
<1>1. /\ member \in [Nodes -> Nat \cup {NONE}] /\ leader \in Nodes \cup {NONE}
      /\ leader # NONE => member[leader] # NONE
      /\ past \in Pasts
  BY DEF Shapes
<1>2. ASSUME NEW n \in Nodes, start(n) PROVE UNCHANGED member \/ Lost(n)
  BY <1>1, <1>2, Zenon DEF start, Lost
<1>3. ASSUME NEW n \in Nodes, lose_disk(n) PROVE Lost(n)
  BY <1>3 DEF lose_disk, Lost
<1>4. ASSUME initialize PROVE UNCHANGED member \/ Founds
  <2>1. CASE member[Lowest] = NONE
    <3>1. /\ past' = [past EXCEPT !.inits = past.inits + 1, !.blind = past.blind \/ probe.silent]
          /\ member' = [member EXCEPT ![Lowest] = past.inits + 1]
      BY <1>4, <2>1 DEF initialize
    <3>2. past'.blind = (past.blind \/ probe.silent)
      BY <1>1, <3>1, Zenon DEF Pasts
    <3> QED
      BY <1>4, <2>1, <3>1, <3>2 DEF Founds
  <2>2. CASE member[Lowest] # NONE
    BY <1>4, <2>2 DEF initialize
  <2> QED
    BY <2>1, <2>2
<1>5. ASSUME NEW n \in Nodes, elect(n) PROVE Joined(n)
  <2>1. past'.faults = past.faults
    BY <1>1, <1>5 DEF elect, Pasts
  <2> QED
    BY <1>1, <1>5, <2>1 DEF elect, Joins, Joined
<1>6. ASSUME NEW n \in Nodes, replicate(n) PROVE leader \in Nodes /\ Joined(leader)
  BY <1>1, <1>6 DEF replicate, Joins, Joined
<1> QED
  BY <1>2, <1>3, <1>4, <1>5, <1>6, Zenon DEF Next, Progress, vars, node, raft, probe_answered,
       probe_silent, round_failed, commit, forward, answered,
       stop, lose_metadata, step_down, unanswered, write

(* Every step keeps the shapes; the leader runs, and is a member.           *)
LEMMA ShapesStep ==
    ASSUME Shapes, [Next]_vars PROVE Shapes'
<1>1. /\ status \in [Nodes -> {"down", "probing", "serving"}]
      /\ member \in [Nodes -> Nat \cup {NONE}] /\ leader \in Nodes \cup {NONE}
      /\ leader # NONE => status[leader] # "down" /\ member[leader] # NONE
      /\ past.inits + 1 \in Nat /\ NONE \notin Nat /\ NONE \notin Nodes /\ Lowest \in Nodes
  BY LowestIsNode, ClusterAssumption DEF Shapes, Pasts, Up
<1>2. ASSUME leader' # NONE PROVE leader' \in Nodes /\ status'[leader'] # "down" /\ member'[leader'] # NONE
  <2>1. leader' = leader \/ \E n \in Nodes : elect(n)
    BY <1>2, Zenon DEF Next, Progress, vars, node, raft, start, replicate, probe_answered,
         probe_silent, round_failed, initialize, commit, forward, answered,
         stop, lose_disk, lose_metadata, step_down, unanswered, write
  <2>2. ASSUME NEW n \in Nodes, elect(n)
        PROVE  leader' \in Nodes /\ status'[leader'] # "down" /\ member'[leader'] # NONE
    <3>1. leader' = n /\ status'[n] # "down"
      BY <2>2 DEF elect, Up
    <3>2. member'[n] # NONE
      BY <1>1, <2>2 DEF elect, Joins
    <3> QED
      BY <3>1, <3>2
  <2>3. CASE leader' = leader
    <3>1. leader \in Nodes /\ status[leader] # "down" /\ member[leader] # NONE
      BY <1>1, <1>2, <2>3
    <3>2. status'[leader] # "down"
      <4>1. ASSUME NEW n \in Nodes, stop(n) PROVE status' = [status EXCEPT ![n] = "down"] /\ n # leader
        BY <1>1, <1>2, <2>3, <4>1 DEF stop
      <4>2. UNCHANGED status \/ (\E n \in Nodes : stop(n))
              \/ \E n \in Nodes, s \in {"probing", "serving"} : status' = [status EXCEPT ![n] = s]
        BY <1>1, Zenon DEF Next, Progress, vars, node, start, elect, replicate, probe_answered,
               probe_silent, round_failed, initialize, commit, forward, answered,
               lose_disk, lose_metadata, step_down, unanswered, write
      <4> QED
        BY <1>1, <3>1, <4>1, <4>2
    <3>3. member'[leader] # NONE
      <4>1. ASSUME NEW n \in Nodes, Lost(n) PROVE member'[leader] # NONE
        BY <1>1, <3>1, <4>1 DEF Lost, Up
      <4>2. ASSUME NEW n \in Nodes, Joined(n) PROVE member'[leader] # NONE
        BY <3>1, <4>2 DEF Joined
      <4>3. CASE Founds
        BY <1>1, <3>1, <4>3 DEF Founds
      <4> QED
        BY <3>1, <4>1, <4>2, <4>3, MemberMoves, Zenon
    <3> QED
      BY <2>3, <3>1, <3>2, <3>3, Zenon
  <2> QED
    BY <2>1, <2>2, <2>3
<1> QED
  BY <1>2, HistoryStep, NodeStep, RaftStep, Zenon DEF Shapes, Up

---------------------------------------------------------------------------
(* Elections and commitment *)

(* Terms, while nothing is lost.                                            *)
LEMMA TermsStep ==
    ASSUME Shapes, TermsInv, [Next]_vars, ~\E n \in Nodes : Wiped(n) PROVE TermsInv'
<1>1. /\ log \in [Nodes -> Logs] /\ leader \in Nodes \cup {NONE} /\ past.term \in Nat
      /\ NONE \notin Nodes
      /\ \A n \in Nodes : log[n].term \in Nat /\ log[n].term <= past.term
      /\ leader # NONE =>
            /\ log[leader].term = past.term
            /\ \A n \in Nodes : log[n].term = past.term => log[n].writes \subseteq log[leader].writes
  BY ClusterAssumption, Zenon DEF Shapes, Logs, Pasts, TermsInv
<1>2. ASSUME NEW n \in Nodes, elect(n) PROVE TermsInv'
  <2>1. /\ leader' = n /\ past' = [past EXCEPT !.term = past.term + 1]
        /\ log' = [log EXCEPT ![n].term = past.term + 1]
    BY <1>2 DEF elect
  <2>2. past'.term = past.term + 1 /\ log'[n].term = past.term + 1
        /\ \A m \in Nodes \ {n} : log'[m] = log[m]
    BY <1>1, <2>1 DEF Shapes, Pasts, Logs
  <2>3. \A m \in Nodes : log'[m].term <= past'.term /\ (log'[m].term = past'.term => m = n)
    BY <1>1, <2>2
  <2> QED
    BY <2>1, <2>2, <2>3 DEF TermsInv
<1>3. ASSUME ~\E n \in Nodes : elect(n) PROVE TermsInv'
  <2>1. past'.term = past.term
    BY <1>3, HistoryStep
  <2>2. leader' = leader \/ leader' = NONE
    BY <1>3, Zenon DEF Next, Progress, vars, node, raft, start, replicate, probe_answered,
         probe_silent, round_failed, initialize, commit, forward, answered,
         stop, lose_disk, lose_metadata, step_down, unanswered, write
  <2>3. CASE UNCHANGED log
    BY <1>1, <2>1, <2>2, <2>3 DEF TermsInv
  <2>4. ASSUME NEW m \in Nodes, replicate(m) PROVE TermsInv'
    <3>1. leader \in Nodes /\ log' = [log EXCEPT ![m] = log[leader]] /\ leader' = leader
      BY <1>1, <2>4 DEF replicate
    <3>2. \A n \in Nodes : log'[n] = log[n] \/ log'[n] = log[leader]
      BY <1>1, <3>1
    <3>3. log'[leader] = log[leader]
      BY <1>1, <3>1
    <3> QED
      BY <1>1, <2>1, <3>1, <3>2, <3>3 DEF TermsInv
  <2>5. ASSUME NEW w \in Writes, Proposed(w) PROVE TermsInv'
    <3>1. leader \in Nodes /\ log' = [log EXCEPT ![leader].writes = log[leader].writes \cup {w}]
          /\ leader' = leader
      BY <2>5 DEF Proposed, Propose
    <3>2. /\ log'[leader].term = log[leader].term
          /\ log'[leader].writes = log[leader].writes \cup {w}
          /\ \A n \in Nodes \ {leader} : log'[n] = log[n]
      BY <1>1, <3>1 DEF Logs
    <3> QED
      BY <1>1, <2>1, <3>1, <3>2 DEF TermsInv
  <2> QED
    BY <1>3, <2>3, <2>4, <2>5, LogMoves, Zenon
<1> QED
  BY <1>2, <1>3, Zenon

(* A larger set of nodes is a majority if a smaller one is; two majorities  *)
(* have a node in common.                                                   *)
LEMMA Majorities ==
    ASSUME NEW S \in SUBSET Nodes, NEW T \in SUBSET Nodes, Majority(S)
    PROVE  /\ S \subseteq T => Majority(T)
           /\ Majority(T) => S \cap T # {}
<1>1. IsFiniteSet(Nodes) /\ IsFiniteSet(S) /\ IsFiniteSet(T)
  BY ClusterAssumption, FS_Subset
<1>2. Cardinality(S) \in Nat /\ Cardinality(T) \in Nat /\ Cardinality(Nodes) \in Nat
  BY <1>1, FS_CardinalityType
<1>3. ASSUME S \subseteq T PROVE Majority(T)
  <2>1. Cardinality(S) <= Cardinality(T)
    BY <1>1, <1>3, FS_Subset
  <2> QED
    BY <1>2, <2>1 DEF Majority
<1>4. ASSUME Majority(T) PROVE S \cap T # {}
  <2>1. Cardinality(S) + Cardinality(T) > Cardinality(Nodes)
    BY <1>2, <1>4 DEF Majority
  <2> QED
    BY <1>1, <2>1, FS_MajoritiesIntersect
<1> QED
  BY <1>3, <1>4

(* Whoever is elected has every committed write.                            *)
LEMMA LeaderComplete ==
    ASSUME Shapes, CommitInv, NEW n \in Nodes, elect(n), NEW w \in Writes, committed[w] # NONE
    PROVE  w \in log[n].writes
<1> DEFINE voters == {m \in Others(n) : Served(m, n) /\ UpToDate(log[n], log[m])} \cup {n}
<1>1. Majority(voters) /\ voters \in SUBSET Nodes
  <2>1. voters = {m \in {k \in Others(n) : Served(k, n)} : UpToDate(log[n], log[m])} \cup {n}
    OBVIOUS
  <2> QED
    BY <2>1 DEF elect, Others
<1>2. Majority(Safe(w)) /\ Safe(w) \in SUBSET Nodes
  BY DEF CommitInv, Safe
<1> HIDE DEF voters
<1>3. PICK m \in Safe(w) : m \in voters
  BY <1>1, <1>2, Majorities
<1>4. m = n \/ UpToDate(log[n], log[m])
  BY <1>3 DEF voters
<1> QED
  BY <1>3, <1>4 DEF Safe

(* What is safe stays safe, while nothing is lost.                          *)
LEMMA SafeStays ==
    ASSUME Shapes, TermsInv, CommitInv, [Next]_vars, ~\E n \in Nodes : Wiped(n),
           NEW w \in Writes, committed[w] # NONE, NEW m \in Safe(w)
    PROVE  /\ w \in log'[m].writes
           /\ \A n \in Nodes : UpToDate(log'[n], log'[m]) => w \in log'[n].writes
<1>1. /\ log \in [Nodes -> Logs] /\ leader \in Nodes \cup {NONE} /\ past.term \in Nat
      /\ NONE \notin Nodes /\ m \in Nodes
      /\ \A n \in Nodes : log[n].term \in Nat /\ log[n].term <= past.term
      /\ w \in log[m].writes
      /\ \A n \in Nodes : UpToDate(log[n], log[m]) => w \in log[n].writes
      /\ leader # NONE => log[leader].term = past.term /\ w \in log[leader].writes
  BY ClusterAssumption, Zenon DEF Shapes, Logs, Pasts, TermsInv, CommitInv, Safe
<1>2. CASE UNCHANGED log
  BY <1>1, <1>2
<1>3. ASSUME NEW n \in Nodes, elect(n)
      PROVE  /\ w \in log'[m].writes
             /\ \A k \in Nodes : UpToDate(log'[k], log'[m]) => w \in log'[k].writes
  <2>1. w \in log[n].writes
    BY <1>3, LeaderComplete
  <2>2. log' = [log EXCEPT ![n].term = past.term + 1]
    BY <1>3 DEF elect
  <2>3. /\ log'[n].term = past.term + 1 /\ log'[n].writes = log[n].writes
        /\ \A k \in Nodes \ {n} : log'[k] = log[k]
    BY <1>1, <2>2 DEF Logs
  <2>4. CASE m = n
    <3>1. \A k \in Nodes \ {n} : ~UpToDate(log'[k], log'[n])
      BY <1>1, <2>3 DEF UpToDate
    <3> QED
      BY <2>1, <2>3, <2>4, <3>1
  <2>5. CASE m # n
    BY <1>1, <2>1, <2>3, <2>5
  <2> QED
    BY <2>4, <2>5
<1>4. ASSUME leader \in Nodes, NEW k \in Nodes, w \in log'[k].writes,
             log'[k].term = past.term, \A n \in Nodes : log'[n].term \in Nat /\ log'[n].term <= past.term,
             \A n \in Nodes \ {k} : log'[n] = log[n]
      PROVE  /\ w \in log'[m].writes
             /\ \A n \in Nodes : UpToDate(log'[n], log'[m]) => w \in log'[n].writes
  <2>1. CASE m = k
    <3>1. \A n \in Nodes : UpToDate(log'[n], log'[k]) => log'[k].writes \subseteq log'[n].writes
      BY <1>1, <1>4 DEF UpToDate
    <3> QED
      BY <1>4, <2>1, <3>1
  <2>2. CASE m # k
    BY <1>1, <1>4, <2>2
  <2> QED
    BY <2>1, <2>2
<1>5. ASSUME NEW k \in Nodes, replicate(k)
      PROVE  /\ w \in log'[m].writes
             /\ \A n \in Nodes : UpToDate(log'[n], log'[m]) => w \in log'[n].writes
  <2>1. leader \in Nodes /\ log' = [log EXCEPT ![k] = log[leader]]
    BY <1>1, <1>5 DEF replicate
  <2>2. log'[k] = log[leader] /\ \A n \in Nodes \ {k} : log'[n] = log[n]
    BY <1>1, <2>1
  <2>3. /\ w \in log'[k].writes /\ log'[k].term = past.term
        /\ \A n \in Nodes : log'[n].term \in Nat /\ log'[n].term <= past.term
    BY <1>1, <2>1, <2>2
  <2> QED
    BY <1>4, <2>1, <2>2, <2>3
<1>6. ASSUME NEW x \in Writes, Proposed(x)
      PROVE  /\ w \in log'[m].writes
             /\ \A n \in Nodes : UpToDate(log'[n], log'[m]) => w \in log'[n].writes
  <2>1. leader \in Nodes /\ log' = [log EXCEPT ![leader].writes = log[leader].writes \cup {x}]
    BY <1>6 DEF Proposed, Propose
  <2>2. /\ log'[leader].term = log[leader].term
        /\ log'[leader].writes = log[leader].writes \cup {x}
        /\ \A n \in Nodes \ {leader} : log'[n] = log[n]
    BY <1>1, <2>1 DEF Logs
  <2>3. /\ w \in log'[leader].writes /\ log'[leader].term = past.term
        /\ \A n \in Nodes : log'[n].term \in Nat /\ log'[n].term <= past.term
    BY <1>1, <2>1, <2>2
  <2> QED
    BY <1>4, <2>1, <2>2, <2>3, Zenon
<1> QED
  BY <1>2, <1>3, <1>5, <1>6, LogMoves, Zenon

(* A committed write stays safe on a majority and with the leader.          *)
LEMMA CommitStep ==
    ASSUME Shapes, TermsInv, CommitInv, [Next]_vars, ~\E n \in Nodes : Wiped(n) PROVE CommitInv'
<1> DEFINE Safe2(w) == {m \in Nodes : /\ w \in log'[m].writes
              /\ \A n \in Nodes : UpToDate(log'[n], log'[m]) => w \in log'[n].writes}
           Good(w) == /\ Majority(Safe2(w))
                      /\ leader' # NONE => w \in log'[leader'].writes
<1>1. /\ log \in [Nodes -> Logs] /\ leader \in Nodes \cup {NONE} /\ past.term \in Nat
      /\ NONE \notin Nodes
      /\ \A n \in Nodes : log[n].term \in Nat /\ log[n].term <= past.term
      /\ leader # NONE => log[leader].term = past.term
  BY ClusterAssumption DEF Shapes, Logs, Pasts, TermsInv
<1>2. ASSUME NEW w \in Writes, committed[w] # NONE PROVE Good(w)
  <2>1. Safe(w) \in SUBSET Nodes /\ Safe2(w) \in SUBSET Nodes /\ Majority(Safe(w))
        /\ (leader # NONE => w \in log[leader].writes)
    BY <1>2 DEF Safe, CommitInv
  <2>2. Safe(w) \subseteq Safe2(w)
    BY <1>2, <2>1, SafeStays
  <2> HIDE DEF Safe2
  <2>3. Majority(Safe2(w))
    BY <2>1, <2>2, Majorities
  <2>4. ASSUME NEW n \in Nodes, elect(n) PROVE w \in log'[leader'].writes
    <3>1. w \in log[n].writes
      BY <1>2, <2>4, LeaderComplete
    <3>2. leader' = n /\ log' = [log EXCEPT ![n].term = past.term + 1]
      BY <2>4 DEF elect
    <3> QED
      BY <1>1, <3>1, <3>2 DEF Logs
  <2>5. ASSUME leader' = leader, leader \in Nodes PROVE w \in log'[leader].writes \/ \E n \in Nodes : elect(n)
    <3>1. ASSUME NEW n \in Nodes, replicate(n) PROVE log'[leader] = log[leader]
      BY <1>1, <2>5, <3>1 DEF replicate
    <3>2. ASSUME NEW x \in Writes, Proposed(x) PROVE w \in log'[leader].writes
      BY <1>1, <2>1, <2>5, <3>2 DEF Proposed, Propose, Logs
    <3>3. w \in log[leader].writes
      BY <1>1, <2>1, <2>5
    <3> QED
      BY <3>1, <3>2, <3>3, LogMoves, Zenon
  <2>6. leader' = leader \/ leader' = NONE \/ \E n \in Nodes : elect(n)
    BY Zenon DEF Next, Progress, vars, node, raft, start, replicate, probe_answered,
         probe_silent, round_failed, initialize, commit, forward, answered,
         stop, lose_disk, lose_metadata, step_down, unanswered, write
  <2> QED
    BY <1>1, <2>3, <2>4, <2>5, <2>6
<1>3. ASSUME NEW w \in Writes, commit(w) PROVE Good(w)
  <2>1. /\ leader \in Nodes /\ w \in log[leader].writes /\ UNCHANGED <<log, leader>>
        /\ Majority({n \in Nodes : log[n] = log[leader]})
    BY <1>1, <1>3 DEF commit
  <2> DEFINE Q == {n \in Nodes : log[n] = log[leader]}
  <2>2. ASSUME NEW m \in Q PROVE m \in Safe2(w)
    <3>1. \A n \in Nodes : UpToDate(log[n], log[leader]) => log[leader].writes \subseteq log[n].writes
      BY <1>1, <2>1 DEF UpToDate
    <3> QED
      BY <2>1, <3>1
  <2>3. Q \in SUBSET Nodes /\ Safe2(w) \in SUBSET Nodes /\ Q \subseteq Safe2(w) /\ Majority(Q)
    BY <2>1, <2>2
  <2> HIDE DEF Q, Safe2
  <2>4. Majority(Safe2(w))
    BY <2>3, Majorities
  <2> QED
    BY <2>1, <2>4
<1>4. ASSUME NEW w \in Writes, committed'[w] # NONE PROVE committed[w] # NONE \/ commit(w)
  <2>1. ASSUME NEW x \in Writes, commit(x) PROVE x = w \/ committed'[w] = committed[w]
    BY <2>1 DEF commit, Shapes
  <2>2. UNCHANGED committed \/ \E x \in Writes : commit(x)
    BY Zenon DEF Next, Progress, vars, node, raft, start, elect, replicate, probe_answered,
         probe_silent, round_failed, initialize, forward, answered,
         stop, lose_disk, lose_metadata, step_down, unanswered, write
  <2> QED
    BY <1>4, <2>1, <2>2, Zenon
<1>5. \A w \in Writes : committed'[w] # NONE => Good(w)
  BY <1>2, <1>3, <1>4, Zenon
<1> QED
  BY <1>5 DEF CommitInv, Safe, Majority

(* An answer is the outcome, and the outcome of a write never changes.      *)
LEMMA AnswerStep ==
    ASSUME Shapes, AnswerInv, [Next]_vars PROVE AnswerInv'
<1>1. /\ writes \in [Writes -> Requests] /\ committed \in [Writes -> {NONE, "ok", "refused"}]
      /\ NONE \notin {"ok", "refused"}
  BY ClusterAssumption DEF Shapes
<1>2. ASSUME NEW w \in Writes
      PROVE  \/ writes'[w].answer = writes[w].answer
             \/ writes'[w].answer \notin {"ok", "refused"}
             \/ writes'[w].answer = committed[w] /\ UNCHANGED committed
  <2>1. ASSUME NEW x \in Writes, NEW a, writes' = [writes EXCEPT ![x] = Done(a)]
        PROVE  writes'[w].answer = writes[w].answer \/ (writes'[w].answer = a /\ w = x)
    BY <1>1, <2>1 DEF Done
  <2>2. ASSUME NEW n \in Nodes, stop(n)
        PROVE  writes'[w].answer = writes[w].answer \/ writes'[w].answer = NONE
    <3>1. writes' = [u \in Writes |-> IF writes[u].at = n THEN Done(NONE) ELSE writes[u]]
      BY <2>2 DEF stop
    <3> QED
      BY <3>1 DEF Done
  <2>3. ASSUME NEW x \in Writes, NEW n \in Nodes, write(x, n)
        PROVE  writes'[w].answer = writes[w].answer \/ writes'[w].answer \in {NONE, "error"}
    <3>1. \/ writes' = [writes EXCEPT ![x] = Done("error")]
          \/ writes' = [writes EXCEPT ![x] = [pc |-> "waiting", at |-> n, via |-> n, answer |-> NONE]]
          \/ writes' = [writes EXCEPT ![x] = [pc |-> "forward", at |-> n, via |-> known[n], answer |-> NONE]]
      BY <2>3 DEF write
    <3>2. CASE writes' = [writes EXCEPT ![x] = Done("error")]
      BY <2>1, <3>2, Zenon
    <3>3. CASE writes' = [writes EXCEPT ![x] = [pc |-> "waiting", at |-> n, via |-> n, answer |-> NONE]]
      BY <1>1, <3>3
    <3>4. CASE writes' = [writes EXCEPT ![x] = [pc |-> "forward", at |-> n, via |-> known[n], answer |-> NONE]]
      BY <1>1, <3>4
    <3> QED
      BY <3>1, <3>2, <3>3, <3>4
  <2>4. ASSUME NEW x \in Writes, forward(x)
        PROVE  writes'[w].answer = writes[w].answer \/ writes'[w].answer = "error"
    <3>1. \/ writes' = [writes EXCEPT ![x] = Done("error")]
          \/ writes' = [writes EXCEPT ![x].pc = "waiting"]
      BY <2>4 DEF forward, Answer
    <3>2. CASE writes' = [writes EXCEPT ![x].pc = "waiting"]
      BY <1>1, <3>2 DEF Requests
    <3> QED
      BY <2>1, <3>1, <3>2
  <2>5. ASSUME NEW x \in Writes, answered(x)
        PROVE  writes'[w].answer = writes[w].answer \/ (writes'[w].answer = committed[w] /\ UNCHANGED committed)
    <3>1. writes' = [writes EXCEPT ![x] = Done(committed[x])] /\ UNCHANGED committed
      BY <2>5 DEF answered, Answer, raft
    <3> QED
      BY <2>1, <3>1, Zenon
  <2>6. ASSUME NEW x \in Writes, unanswered(x)
        PROVE  writes'[w].answer = writes[w].answer \/ writes'[w].answer = "error"
    BY <2>1, <2>6, Zenon DEF unanswered, Answer
  <2>7. CASE UNCHANGED writes
    BY <2>7
  <2> QED
    BY <1>1, <2>2, <2>3, <2>4, <2>5, <2>6, <2>7, Zenon
       DEF Next, Progress, vars, node, raft, start, elect, replicate, probe_answered,
       probe_silent, round_failed, initialize, commit, lose_disk, lose_metadata, step_down
<1>3. ASSUME NEW w \in Writes, committed[w] # NONE PROVE committed'[w] = committed[w]
  <2>1. ASSUME NEW x \in Writes, commit(x) PROVE committed'[w] = committed[w]
    BY <1>1, <1>3, <2>1 DEF commit
  <2>2. UNCHANGED committed \/ \E x \in Writes : commit(x)
    BY Zenon DEF Next, Progress, vars, node, raft, start, elect, replicate, probe_answered,
         probe_silent, round_failed, initialize, forward, answered,
         stop, lose_disk, lose_metadata, step_down, unanswered, write
  <2> QED
    BY <2>1, <2>2, Zenon
<1> QED
  BY <1>1, <1>2, <1>3 DEF AnswerInv

(* Metadata becomes unreadable, and logs are lost, only by a counted fault. *)
LEMMA FaultsCount ==
    ASSUME Shapes, [Next]_vars, AllReadable, past'.faults = past.faults
    PROVE  AllReadable' /\ ~\E n \in Nodes : Wiped(n)
<1>1. past.faults \in Nat /\ past \in Pasts /\ readable \in [Nodes -> BOOLEAN]
  BY DEF Shapes, Pasts
<1>2. ASSUME NEW n \in Nodes, lose_disk(n) \/ lose_metadata(n) PROVE FALSE
  <2>1. past' = [past EXCEPT !.faults = past.faults + 1]
    BY <1>2 DEF lose_disk, lose_metadata
  <2>2. past'.faults = past.faults + 1
    BY <1>1, <2>1 DEF Pasts
  <2> QED
    BY <1>1, <2>2
<1>3. UNCHANGED readable \/ \E n \in Nodes : readable' = [readable EXCEPT ![n] = TRUE]
  BY <1>2, Zenon DEF Next, Progress, vars, node, start, elect, replicate, probe_answered,
         probe_silent, round_failed, initialize, commit, forward, answered,
         stop, lose_disk, step_down, unanswered, write
<1> QED
  BY <1>1, <1>2, <1>3 DEF AllReadable, Wiped

(* The system starts with no log and no member.                             *)
LEMMA ClusterInit == ASSUME Init PROVE OutcomeInv /\ FoundingInv
<1>1. /\ status = [n \in Nodes |-> "down"] /\ member = [n \in Nodes |-> NONE]
      /\ readable = [n \in Nodes |-> TRUE] /\ log = [n \in Nodes |-> EmptyLog]
      /\ leader = NONE /\ known = [n \in Nodes |-> NONE] /\ probe = FirstProbe
      /\ writes = [w \in Writes |-> NewWrite] /\ committed = [w \in Writes |-> NONE]
      /\ past = [term |-> 0, inits |-> 0, stops |-> 0, faults |-> 0, blind |-> FALSE]
  BY DEF Init
<1>2. EmptyLog \in Logs /\ FirstProbe \in Probes /\ NewWrite \in Requests /\ past \in Pasts
      /\ NewWrite.pc = "new" /\ NewWrite.answer = NONE /\ EmptyLog.term = 0
      /\ past.term = 0 /\ past.faults = 0
  BY <1>1 DEF EmptyLog, Logs, FirstProbe, Probes, NewWrite, Requests, Pasts
<1>3. NONE \notin {"ok", "refused"} /\ Lowest \in Nodes
  BY ClusterAssumption, LowestIsNode
<1>4. Shapes
  <2>1. \A w \in Writes : writes[w].pc # "forward"
    BY <1>1, <1>2
  <2> QED
    BY <1>1, <1>2, <2>1 DEF Shapes
<1>5. AllReadable /\ TermsInv /\ CommitInv /\ AnswerInv
  BY <1>1, <1>2, <1>3 DEF AllReadable, TermsInv, CommitInv, AnswerInv
<1>6. FoundingInv
  BY <1>1, <1>2, <1>3 DEF FoundingInv, AllReadable, OneCluster, Founded
<1> QED
  BY <1>4, <1>5, <1>6 DEF OutcomeInv

(* The inductive invariant behind AnswerIsTheOutcome holds.                 *)
THEOREM OutcomeInvariance == Spec => []OutcomeInv
<1>1. ASSUME OutcomeInv, [Next]_vars PROVE OutcomeInv'
  <2>1. Shapes /\ AnswerInv /\ (past.faults = 0 => AllReadable /\ TermsInv /\ CommitInv)
    BY <1>1 DEF OutcomeInv
  <2>2. Shapes' /\ AnswerInv'
    BY <1>1, <2>1, ShapesStep, AnswerStep
  <2>3. ASSUME past'.faults = 0 PROVE past.faults = 0
    <3>1. past.faults \in Nat /\ past'.faults \in {past.faults, past.faults + 1}
      BY <1>1, <2>1, HistoryStep DEF Shapes, Pasts
    <3> QED
      BY <2>3, <3>1
  <2>4. ASSUME past'.faults = 0 PROVE AllReadable' /\ TermsInv' /\ CommitInv'
    <3>1. past.faults = 0 /\ AllReadable /\ TermsInv /\ CommitInv
      BY <2>1, <2>3, <2>4
    <3>2. AllReadable' /\ ~\E n \in Nodes : Wiped(n)
      BY <1>1, <2>1, <2>4, <3>1, FaultsCount
    <3> QED
      BY <1>1, <2>1, <3>1, <3>2, TermsStep, CommitStep
  <2> QED
    BY <2>2, <2>4 DEF OutcomeInv
<1> QED
  BY <1>1, ClusterInit, PTL DEF Spec

(* What write and forward report of a command is what the state machine     *)
(* made of it; and unless a node lost its log, a majority stores it         *)
(* (raft/node.rs, write and forward; outcome_to_result).                    *)
THEOREM AnswerIsTheOutcomeAlways == Spec => []AnswerIsTheOutcome
<1>1. ASSUME OutcomeInv PROVE AnswerIsTheOutcome
  <2> SUFFICES ASSUME NEW w \in Writes, writes[w].answer \in {"ok", "refused"}
               PROVE  /\ committed[w] = writes[w].answer
                      /\ past.faults > 0 \/ Majority({n \in Nodes : w \in log[n].writes})
    BY DEF AnswerIsTheOutcome
  <2>1. committed[w] = writes[w].answer /\ committed[w] # NONE
    BY <1>1, ClusterAssumption DEF OutcomeInv, AnswerInv
  <2>2. CASE past.faults = 0
    <3> DEFINE Storing == {n \in Nodes : w \in log[n].writes}
    <3>1. /\ Majority(Safe(w)) /\ Safe(w) \in SUBSET Nodes /\ Storing \in SUBSET Nodes
          /\ Safe(w) \subseteq Storing
      BY <1>1, <2>1, <2>2 DEF OutcomeInv, CommitInv, Safe
    <3> HIDE DEF Storing
    <3>2. Majority(Storing)
      BY <3>1, Majorities
    <3> QED
      BY <2>1, <3>2 DEF Storing
  <2>3. CASE past.faults # 0
    <3>1. past.faults \in Nat
      BY <1>1 DEF OutcomeInv, Shapes, Pasts
    <3> QED
      BY <2>1, <2>3, <3>1
  <2> QED
    BY <2>2, <2>3
<1> QED
  BY <1>1, OutcomeInvariance, PTL

---------------------------------------------------------------------------
(* One cluster *)

(* The search begins with all peers; a peer it is through with is no        *)
(* member, or did not answer.                                               *)
LEMMA ProbeMoves ==
    ASSUME Shapes, [Next]_vars, status'[Lowest] = "probing"
    PROVE  \/ probe'.todo = Others(Lowest)
           \/ probe'.silent = TRUE
           \/ /\ status[Lowest] = "probing" /\ probe'.silent = probe.silent
              /\ \/ probe'.todo = probe.todo
                 \/ \E m \in Nodes : probe'.todo = probe.todo \ {m} /\ member[m] = NONE
<1>1. /\ probe \in Probes /\ status \in [Nodes -> {"down", "probing", "serving"}]
      /\ Lowest \in Nodes
  BY LowestIsNode DEF Shapes
<1>2. FirstProbe.todo = Others(Lowest)
      /\ [FirstProbe EXCEPT !.attempt = probe.attempt + 1].todo = Others(Lowest)
  BY DEF FirstProbe
<1>3. ASSUME NEW n \in Nodes, start(n) \/ stop(n)
      PROVE  probe' = FirstProbe \/ (UNCHANGED probe /\ status'[Lowest] = status[Lowest])
  BY <1>1, <1>3 DEF start, stop
<1>4. ASSUME NEW m \in Nodes, probe_answered(m)
      PROVE  \/ probe' = FirstProbe
             \/ /\ status[Lowest] = "probing" /\ probe'.silent = probe.silent
                /\ probe'.todo = probe.todo \ {m} /\ member[m] = NONE
  <2>1. CASE member[m] = NONE
    <3>1. probe' = [probe EXCEPT !.todo = probe.todo \ {m}, !.reached = TRUE]
          /\ status[Lowest] = "probing"
      BY <1>4, <2>1 DEF probe_answered, ReportsCluster
    <3>2. probe'.silent = probe.silent /\ probe'.todo = probe.todo \ {m}
      BY <1>1, <3>1, Zenon DEF Probes
    <3> QED
      BY <2>1, <3>1, <3>2
  <2>2. CASE member[m] # NONE
    BY <1>4, <2>2 DEF probe_answered, ReportsCluster
  <2> QED
    BY <2>1, <2>2
<1>5. ASSUME NEW m \in Nodes, probe_silent(m) PROVE probe'.silent = TRUE
  BY <1>1, <1>5 DEF probe_silent, Probes
<1>6. ASSUME round_failed \/ initialize
      PROVE  probe' = FirstProbe \/ probe' = [FirstProbe EXCEPT !.attempt = probe.attempt + 1]
  BY <1>6 DEF round_failed, initialize
<1>7. CASE UNCHANGED <<probe, status>>
  BY <1>7
<1> QED
  BY <1>2, <1>3, <1>4, <1>5, <1>6, <1>7, Zenon DEF Next, Progress, vars, node, raft,
       elect, replicate, commit, forward, answered,
       lose_disk, lose_metadata, step_down, unanswered, write

(* What is blind stays so, and what a fault makes unreadable.               *)
LEMMA ReadableMoves ==
    ASSUME Shapes, [Next]_vars
    PROVE  /\ past.blind => past'.blind
           /\ \/ UNCHANGED readable
              \/ \E n \in Nodes : readable' = [readable EXCEPT ![n] = TRUE]
              \/ \E n \in Nodes : /\ readable' = [readable EXCEPT ![n] = FALSE]
                                  /\ past'.faults = past.faults + 1
<1>1. past \in Pasts
  BY DEF Shapes
<1>2. ASSUME initialize, past.blind PROVE past'.blind
  <2>1. CASE member[Lowest] = NONE
    <3>1. past' = [past EXCEPT !.inits = past.inits + 1, !.blind = past.blind \/ probe.silent]
      BY <1>2, <2>1 DEF initialize
    <3>2. past'.blind = (past.blind \/ probe.silent)
      BY <1>1, <3>1, Zenon DEF Pasts
    <3> QED
      BY <1>2, <3>2, Zenon
  <2>2. CASE member[Lowest] # NONE
    BY <1>2, <2>2 DEF initialize
  <2> QED
    BY <2>1, <2>2
<1>3. past.blind => past'.blind
  BY <1>2, HistoryStep, Zenon
<1>4. ASSUME NEW n \in Nodes, lose_metadata(n)
      PROVE  readable' = [readable EXCEPT ![n] = FALSE] /\ past'.faults = past.faults + 1
  BY <1>1, <1>4 DEF lose_metadata, Pasts
<1> QED
  BY <1>3, <1>4, Zenon DEF Next, Progress, vars, node, start, elect, replicate, probe_answered,
         probe_silent, round_failed, initialize, commit, forward, answered,
         stop, lose_disk, step_down, unanswered, write

(* Every step keeps FoundingInv.  A blind founding or a second fault ends   *)
(* the obligation; without one, the lowest node founds a cluster only when  *)
(* its search went through all peers, so when there is none.                *)
LEMMA FoundingStep ==
    ASSUME Shapes, FoundingInv, [Next]_vars PROVE FoundingInv'
<1> SUFFICES ASSUME ~past'.blind, ~(past'.faults > 1)
             PROVE  FoundingInv'
  BY DEF FoundingInv
<1>1. /\ past \in Pasts /\ past.faults \in Nat /\ readable \in [Nodes -> BOOLEAN]
      /\ member \in [Nodes -> Nat \cup {NONE}] /\ Lowest \in Nodes
      /\ status \in [Nodes -> {"down", "probing", "serving"}]
  BY LowestIsNode DEF Shapes, Pasts
<1>2. past'.faults = past.faults \/ (past'.faults = past.faults + 1 /\ past.faults = 0)
  BY <1>1, HistoryStep
<1>3. ~past.blind /\ ~(past.faults > 1)
  BY <1>1, <1>2, ReadableMoves
<1>4. /\ OneCluster
      /\ past.faults = 0 => AllReadable
      /\ past.faults = 0 \/ ~AllReadable => (Founded => member[Lowest] # NONE)
      /\ \A m, n \in Nodes : ~readable[m] /\ ~readable[n] => m = n
      /\ status[Lowest] = "probing" /\ ~probe.silent /\ member[Lowest] = NONE /\ Founded =>
            \E m \in probe.todo : member[m] # NONE
  BY <1>3 DEF FoundingInv
<1>5. past'.faults = 0 => AllReadable'
  BY <1>1, <1>2, <1>4, FaultsCount
<1>6. /\ \A m, n \in Nodes : ~readable'[m] /\ ~readable'[n] => m = n
      /\ ~AllReadable' => past.faults = 0 \/ ~AllReadable
  <2>1. CASE UNCHANGED readable
    BY <1>4, <2>1 DEF AllReadable
  <2>2. ASSUME NEW n \in Nodes, readable' = [readable EXCEPT ![n] = TRUE]
        PROVE  <1>6!1 /\ <1>6!2
    BY <1>1, <1>4, <2>2 DEF AllReadable
  <2>3. ASSUME NEW n \in Nodes, readable' = [readable EXCEPT ![n] = FALSE], past.faults = 0
        PROVE  <1>6!1 /\ <1>6!2
    BY <1>1, <1>4, <2>3 DEF AllReadable
  <2>4. ASSUME past'.faults = past.faults + 1 PROVE past.faults = 0
    BY <1>1, <1>2, <2>4
  <2> QED
    BY <2>1, <2>2, <2>3, <2>4, ReadableMoves
<1> DEFINE Asks == status'[Lowest] = "probing" /\ ~probe'.silent /\ member'[Lowest] = NONE /\ Founded' =>
                      \E m \in probe'.todo : member'[m] # NONE
           Rooted == past'.faults = 0 \/ ~AllReadable' => (Founded' => member'[Lowest] # NONE)
<1>7. Founded' = (\E n \in Nodes : member'[n] # NONE)
  BY DEF Founded
<1>8. SUFFICES OneCluster' /\ Rooted /\ Asks
  BY <1>5, <1>6 DEF FoundingInv
<1>9. past'.faults = 0 => past.faults = 0
  BY <1>1, <1>2
<1>10. CASE UNCHANGED member
  <2>1. OneCluster' /\ Rooted
    BY <1>4, <1>6, <1>7, <1>9, <1>10 DEF OneCluster, Founded
  <2>2. ASSUME status'[Lowest] = "probing", ~probe'.silent, member'[Lowest] = NONE, Founded'
        PROVE  \E m \in probe'.todo : member'[m] # NONE
    <3>1. PICK f \in Nodes : member[f] # NONE
      BY <1>10, <2>2 DEF Founded
    <3>2. member[Lowest] = NONE /\ Founded
      BY <1>10, <2>2, <3>1 DEF Founded
    <3>3. CASE probe'.todo = Others(Lowest)
      BY <1>10, <3>1, <3>2, <3>3 DEF Others
    <3>4. ASSUME status[Lowest] = "probing", probe'.silent = probe.silent,
                 probe'.todo = probe.todo
                   \/ \E m \in Nodes : probe'.todo = probe.todo \ {m} /\ member[m] = NONE
          PROVE  \E m \in probe'.todo : member'[m] # NONE
      <4>1. PICK m \in probe.todo : member[m] # NONE
        BY <1>4, <2>2, <3>2, <3>4
      <4> QED
        BY <1>10, <3>4, <4>1
    <3> QED
      BY <2>2, <3>3, <3>4, ProbeMoves, Zenon
  <2> QED
    BY <2>1, <2>2
<1>11. CASE Founds
  <2>1. /\ status[Lowest] = "probing" /\ probe.todo = {} /\ member[Lowest] = NONE
        /\ member' = [member EXCEPT ![Lowest] = past.inits + 1]
        /\ ~probe.silent
    BY <1>11, Zenon DEF Founds, initialize
  <2>2. \A n \in Nodes : member[n] = NONE
    BY <1>4, <2>1 DEF Founded
  <2>3. past.inits + 1 # NONE
    BY <1>1, ClusterAssumption DEF Pasts
  <2>4. member'[Lowest] # NONE /\ \A n \in Nodes : member'[n] # NONE => n = Lowest
    BY <1>1, <2>1, <2>2, <2>3
  <2> QED
    BY <2>4 DEF OneCluster
<1>12. ASSUME NEW n \in Nodes, Joined(n) PROVE OneCluster' /\ Rooted /\ Asks
  <2>1. /\ member[n] # NONE
        /\ \A m \in Nodes : member'[m] \in {member[m], member[n]}
        /\ UNCHANGED <<status, readable, probe>> /\ past'.faults = past.faults
    BY <1>12 DEF Joined
  <2>2. OneCluster'
    BY <1>4, <2>1 DEF OneCluster
  <2>3. Founded /\ AllReadable' = AllReadable
    BY <2>1 DEF Founded, AllReadable
  <2>4. \A m \in Nodes : member[m] # NONE => member'[m] # NONE
    BY <2>1
  <2>5. Rooted
    BY <1>1, <1>4, <2>1, <2>3, <2>4
  <2>6. probe.todo \subseteq Nodes
    BY DEF Shapes, Probes, Others
  <2>7. Asks
    BY <1>1, <1>4, <2>1, <2>3, <2>4, <2>6, Zenon
  <2> QED
    BY <2>2, <2>5, <2>7
<1>13. ASSUME NEW n \in Nodes, Lost(n) PROVE OneCluster' /\ Rooted /\ Asks
  <2>1. /\ member' = [member EXCEPT ![n] = NONE] /\ ~Up(n)
        /\ lose_disk(n) \/ (start(n) /\ ~readable[n])
    BY <1>13 DEF Lost
  <2>2. OneCluster' /\ \A m \in Nodes : member'[m] # NONE => member[m] # NONE /\ m # n
    BY <1>1, <1>4, <2>1, Zenon DEF OneCluster
  <2>3. CASE lose_disk(n)
    <3>1. /\ past'.faults = past.faults + 1 /\ member[n] # NONE
          /\ UNCHANGED <<readable, status, probe>>
      BY <1>1, <2>3 DEF lose_disk, Pasts
    <3>2. past.faults = 0 /\ past'.faults = 1
      BY <1>1, <1>2, <3>1
    <3>3. Rooted
      BY <1>4, <3>1, <3>2 DEF AllReadable
    <3>4. member[Lowest] # NONE
      BY <1>4, <3>1, <3>2 DEF Founded
    <3>5. Asks
      BY <1>1, <2>1, <3>1, <3>4 DEF Up
    <3> QED
      BY <2>2, <3>3, <3>5
  <2>4. CASE start(n) /\ ~readable[n]
    <3>1. /\ readable' = [readable EXCEPT ![n] = TRUE] /\ past' = past
          /\ n = Lowest => probe' = FirstProbe
          /\ n # Lowest => probe' = probe /\ status'[Lowest] = status[Lowest]
      BY <1>1, <2>4 DEF start
    <3>2. ~AllReadable /\ past'.faults # 0
      BY <1>4, <2>4, <3>1 DEF AllReadable
    <3>3. AllReadable'
      BY <1>1, <1>4, <2>4, <3>1 DEF AllReadable
    <3>4. Rooted
      BY <3>2, <3>3
    <3>5. CASE n = Lowest
      <4>1. probe'.todo = Others(Lowest)
        BY <3>1, <3>5 DEF FirstProbe
      <4> QED
        BY <1>7, <2>2, <3>4, <3>5, <4>1 DEF Others
    <3>6. CASE n # Lowest
      <4>1. member'[Lowest] = NONE => member[Lowest] = NONE
        BY <1>1, <2>1, <3>6
      <4>2. Founded' => Founded
        BY <1>7, <2>2 DEF Founded
      <4> QED
        BY <1>4, <2>2, <3>2, <3>4, <4>1, <4>2
    <3> QED
      BY <3>5, <3>6
  <2> QED
    BY <2>1, <2>3, <2>4
<1> QED
  BY <1>10, <1>11, <1>12, <1>13, MemberMoves, Zenon

(* As long as no search that a peer left unanswered founded a cluster, and  *)
(* at most one node lost its state, all nodes are of one cluster: what the  *)
(* bootstrap search of the lowest node is for.                              *)
THEOREM SecondClusterOnlyBlindAlways == Spec => []SecondClusterOnlyBlind
<1>1. Init => FoundingInv
  BY ClusterInit
<1>2. OutcomeInv => Shapes
  BY DEF OutcomeInv
<1>3. Shapes /\ FoundingInv /\ [Next]_vars => FoundingInv'
  BY FoundingStep
<1>4. FoundingInv => SecondClusterOnlyBlind
  BY DEF FoundingInv, SecondClusterOnlyBlind
<1> QED
  BY <1>1, <1>2, <1>3, <1>4, OutcomeInvariance, PTL DEF Spec
=============================================================================
