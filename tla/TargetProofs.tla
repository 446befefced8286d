---------------------------- MODULE TargetProofs ----------------------------
(***************************************************************************)
(* Two invariants and an action property of TargetRotation for any number  *)
(* of workers and administrators, any timing and any number of crashes and *)
(* outages: Postgres only ever accepts passwords that were committed as a  *)
(* version first, an apply that failed in an undisturbed rotation is       *)
(* retried, and a rotation tries the password Postgres holds unless        *)
(* Postgres was left behind for longer than the grace period, or by more   *)
(* versions than the list of logins has entries.                           *)
(***************************************************************************)
EXTENDS TargetRotation, FiniteSetTheorems, TLAPS

(* The stages of a rotation after its commit.                               *)
PastCommit == {"candidates", "login", "retry"}

(* A rotation has a stage, a password and logins.                           *)
IsOperation(o) == {"pc", "password", "logins"} \subseteq DOMAIN o

Shaped(f) == f = [r \in Rotators |-> f[r]] /\ \A r \in Rotators : IsOperation(f[r])

(* A rotation past its commit has its password among the committed ones.    *)
Applicable(o, done) == o.pc \in PastCommit => o.password \in done

(* HeldWasCommitted is not inductive alone: what Postgres will accept next  *)
(* is the password of a rotation that got past its commit.                  *)
CommittedBeforeApplied ==
    /\ held \in committed
    /\ Shaped(ops)
    /\ \A r \in Rotators : Applicable(ops[r], committed)

(* A step that changes one rotation keeps the invariant if the new rotation *)
(* satisfies it.                                                            *)
LEMMA LocalStep ==
    ASSUME CommittedBeforeApplied, NEW r \in Rotators, NEW o,
           IsOperation(o), Applicable(o, committed'),
           ops' = [ops EXCEPT ![r] = o],
           committed \subseteq committed', held' \in committed'
    PROVE  CommittedBeforeApplied'
BY DEF CommittedBeforeApplied, Shaped, Applicable

(* An idle rotation has no password to apply.                               *)
LEMMA IdleIsFine ==
    ASSUME NEW done
    PROVE  IsOperation(Idle) /\ Applicable(Idle, done)
BY DEF IsOperation, Idle, Applicable, PastCommit

(* Trying the next login, or giving up, keeps the invariant, also when      *)
(* Postgres took the new password over.                                     *)
LEMMA LoginFailedStep ==
    ASSUME CommittedBeforeApplied, NEW r \in Rotators, ops[r].pc = "login",
           LoginFailed(r), committed' = committed,
           held' = held \/ held' = ops[r].password
    PROVE  CommittedBeforeApplied'
<1> DEFINE rest == ops[r].logins \ {FirstLogin(r)}
           p == IF rest = {} THEN "retry" ELSE "login"
           o == [ops[r] EXCEPT !.logins = rest, !.pc = p]
<1>1. ops' = [ops EXCEPT ![r] = o]
  BY Zenon DEF LoginFailed, CommittedBeforeApplied, Shaped
<1>2. ops[r].password \in committed
  BY DEF CommittedBeforeApplied, Applicable, PastCommit
<1>3. IsOperation(ops[r])
  BY DEF CommittedBeforeApplied, Shaped
<1> HIDE DEF rest, p
<1>4. IsOperation(o) /\ o.password = ops[r].password
  BY <1>3 DEF IsOperation
<1>5. held' \in committed'
  BY <1>2 DEF CommittedBeforeApplied
<1> HIDE DEF o
<1> QED
  BY <1>1, <1>2, <1>4, <1>5, LocalStep, Zenon DEF Applicable

(* The invariant holds of every step.                                       *)
LEMMA CommittedBeforeAppliedStep ==
    CommittedBeforeApplied /\ [Next]_vars => CommittedBeforeApplied'
<1> SUFFICES ASSUME CommittedBeforeApplied, [Next]_vars
             PROVE  CommittedBeforeApplied'
  OBVIOUS
<1>1. ASSUME NEW r \in Rotators, rotate(r) PROVE CommittedBeforeApplied'
  <2> DEFINE o == [pc |-> "commit", now |-> now,
                   previous |-> db.secrets[Secret].current,
                   password |-> minted + 1, logins |-> {}]
  <2>1. ops' = [ops EXCEPT ![r] = o] /\ committed' = committed /\ held' = held
    BY <1>1 DEF rotate
  <2>2. IsOperation(o) /\ Applicable(o, committed')
    BY DEF IsOperation, Applicable, PastCommit
  <2> QED
    BY <2>1, <2>2, LocalStep, Zenon DEF CommittedBeforeApplied
<1>2. ASSUME NEW r \in Rotators, commit(r) PROVE CommittedBeforeApplied'
  <2> DEFINE res == apply_command(db, PutCommand(r))
  <2>1. CASE res.result = "ok"
    <3> DEFINE o == [ops[r] EXCEPT !.pc = "candidates"]
    <3>1. /\ ops' = [ops EXCEPT ![r] = o]
          /\ committed' = committed \cup {ops[r].password}
          /\ held' = held
      BY <1>2, <2>1 DEF commit, Go
    <3>2. IsOperation(ops[r])
      BY DEF CommittedBeforeApplied, Shaped
    <3>3. IsOperation(o) /\ o.password = ops[r].password
      BY <3>2 DEF IsOperation
    <3> HIDE DEF o
    <3> QED
      BY <3>1, <3>3, LocalStep, Zenon DEF CommittedBeforeApplied, Applicable
  <2>2. CASE res.result # "ok"
    <3>1. /\ ops' = [ops EXCEPT ![r] = Idle]
          /\ committed' = committed /\ held' = held
      BY <1>2, <2>2 DEF commit
    <3> QED
      BY <3>1, IdleIsFine, LocalStep, Zenon DEF CommittedBeforeApplied
  <2> QED
    BY <2>1, <2>2
<1>3. ASSUME NEW r \in Rotators, self_login_candidates(r)
      PROVE  CommittedBeforeApplied'
  <2>1. PICK l : ops' = [ops EXCEPT ![r].logins = l,
                                    ![r].pc = IF l = {} THEN "retry" ELSE "login"]
    BY <1>3, Zenon DEF self_login_candidates
  <2> DEFINE p == IF l = {} THEN "retry" ELSE "login"
             o == [ops[r] EXCEPT !.logins = l, !.pc = p]
  <2>2. ops' = [ops EXCEPT ![r] = o]
    BY <2>1, Zenon DEF CommittedBeforeApplied, Shaped
  <2>3. ops[r].password \in committed /\ committed' = committed /\ held' = held
    BY <1>3 DEF self_login_candidates, CommittedBeforeApplied, Applicable, PastCommit
  <2>4. IsOperation(ops[r])
    BY DEF CommittedBeforeApplied, Shaped
  <2> HIDE DEF p
  <2>5. IsOperation(o) /\ o.password = ops[r].password
    BY <2>4 DEF IsOperation
  <2> HIDE DEF o
  <2> QED
    BY <2>2, <2>3, <2>5, LocalStep, Zenon DEF CommittedBeforeApplied, Applicable
<1>4. ASSUME NEW r \in Rotators, apply_refused(r) PROVE CommittedBeforeApplied'
  BY <1>4, LoginFailedStep DEF apply_refused
<1>5. ASSUME NEW r \in Rotators, apply_answer_lost(r) PROVE CommittedBeforeApplied'
  BY <1>5, LoginFailedStep DEF apply_answer_lost
<1>6. ASSUME NEW r \in Rotators, apply_accepted(r) PROVE CommittedBeforeApplied'
  <2>1. /\ ops' = [ops EXCEPT ![r] = Idle] /\ committed' = committed
        /\ held' = ops[r].password /\ ops[r].password \in committed
    BY <1>6 DEF apply_accepted, CommittedBeforeApplied, Applicable, PastCommit
  <2> QED
    BY <2>1, IdleIsFine, LocalStep, Zenon
<1>7. ASSUME NEW r \in Rotators, schedule_apply_retry(r) \/ crash(r)
      PROVE  CommittedBeforeApplied'
  <2>1. /\ ops' = [ops EXCEPT ![r] = Idle]
        /\ committed' = committed /\ held' = held
    BY <1>7 DEF schedule_apply_retry, crash
  <2> QED
    BY <2>1, IdleIsFine, LocalStep, Zenon DEF CommittedBeforeApplied
<1>8. CASE expire \/ tick \/ UNCHANGED vars
  BY <1>8 DEF expire, tick, vars, CommittedBeforeApplied
<1> QED
  BY <1>1, <1>2, <1>3, <1>4, <1>5, <1>6, <1>7, <1>8 DEF Next

(* Whatever password Postgres accepts was first committed as a version of   *)
(* the secret, for any number of rotators, crashes and outages              *)
(* (service.rs, rotate).                                                    *)
THEOREM HeldWasCommittedAlways == Spec => []HeldWasCommitted
<1>1. Init => CommittedBeforeApplied
  BY IdleIsFine DEF Init, CommittedBeforeApplied, Shaped
<1>2. CommittedBeforeApplied => HeldWasCommitted
  BY DEF CommittedBeforeApplied, HeldWasCommitted
<1> QED
  BY <1>1, <1>2, CommittedBeforeAppliedStep, PTL DEF Spec

---------------------------------------------------------------------------
(* A failed apply is retried *)

(* The shapes of a rotation and of the history.                             *)
Stages == {"idle", "commit"} \cup PastCommit
Logins == [version : VersionNos, password : Nat]
Operations == [pc : Stages, now : Nat, previous : Nat, password : Nat, logins : SUBSET Logins]
Pasts == [forced : Nat, crashes : Nat, disturbed : BOOLEAN]

(* The secret always has its row, a next rotation, and a current version    *)
(* that does not expire; a rotation has a version number left to take.      *)
Shapes ==
    /\ db \in Databases /\ db.secrets[Secret] # NONE /\ db.secrets[Secret].next # NONE
    /\ Current # NONE /\ Current.expires = NONE
    /\ now \in Nat /\ minted \in Nat /\ past \in Pasts
    /\ ops \in [Rotators -> Operations]
    /\ \A r \in Rotators : ops[r].pc # "idle" =>
          /\ ops[r].previous \in 1..(MaxVersion - 1)
          /\ ops[r].now <= now

(* What NeverSilentlyDiverges asks for when no rotation runs.               *)
InStep == held = Current.id \/ db.secrets[Secret].next <= now + Retry

(* The inductive invariant behind FailedApplyIsRetried.  Undisturbed, one   *)
(* rotation runs at a time; past its commit its version is the current one, *)
(* which is what schedule_apply_retry compares.                             *)
RetryInv ==
    /\ Shapes
    /\ past.disturbed \/
         /\ \A r, q \in Rotators : ops[r].pc # "idle" /\ ops[q].pc # "idle" => r = q
         /\ \A r \in Rotators : ops[r].pc \in PastCommit =>
               /\ ops[r].previous + 1 = db.secrets[Secret].current
               /\ ops[r].password = Current.id
         /\ (\A r \in Rotators : ops[r].pc \notin PastCommit) => InStep

(* What a settings change does to a row.                                    *)
LEMMA NewRow ==
    ASSUME NEW row \in SecretRow, NEW c, NEW t \in Nat,
           c.set_interval = NONE, c.set_grace = NONE, c.next = SetTo(t)
    PROVE  /\ apply_meta(row, c) \in SecretRow
           /\ apply_meta(row, c).current = row.current
           /\ apply_meta(row, c).next = t
<1>1. c.next.set = TRUE /\ c.next.to = t
  BY DEF SetTo
<1>2. apply_meta(row, c) = [row EXCEPT !.next = t]
  BY <1>1, Zenon DEF apply_meta, OrElse, SecretRow
<1> QED
  BY <1>2, Zenon DEF SecretRow, OptNat

(* The shape of what the tables hold about the secret.                      *)
LEMMA Stored ==
    ASSUME Shapes
    PROVE  /\ Secret \in Names
           /\ db.secrets[Secret] \in SecretRow /\ db.secrets[Secret].current \in VersionNos
           /\ db.secrets[Secret].next \in Nat
           /\ Current = db.versions[Secret][db.secrets[Secret].current]
           /\ Current \in VersionRow
<1>1. /\ db.secrets[Secret] \in SecretRow /\ Secret \in Names
      /\ db.versions[Secret] \in [VersionNos -> VersionRow \cup {NONE}]
  BY TargetAssumption DEF Shapes, Databases
<1>2. db.secrets[Secret].current \in VersionNos /\ db.secrets[Secret].next \in OptNat
  BY <1>1 DEF SecretRow
<1>3. Current = db.versions[Secret][db.secrets[Secret].current]
  BY DEF Current, current_version, Shapes
<1> QED
  BY <1>1, <1>2, <1>3 DEF Shapes, OptNat

(* The rows of a set of versions stay, with their passwords.                *)
KeepsRows(old, new, vs) ==
    \A v \in vs : \/ new[v] = old[v]
                  \/ new[v] # NONE /\ old[v] # NONE /\ new[v].id = old[v].id

(* A commit that wins makes its password the current version; the other     *)
(* versions stay stored.                                                    *)
LEMMA Put ==
    ASSUME Shapes, NEW r \in Rotators, ops[r].pc = "commit", commit(r)
    PROVE  \/ UNCHANGED <<db, committed>> /\ ops' = [ops EXCEPT ![r] = Idle]
           \/ /\ ops' = [ops EXCEPT ![r].pc = "candidates"]
              /\ db' \in Databases /\ db'.secrets[Secret] # NONE
              /\ db'.secrets[Secret].next \in Nat
              /\ db'.secrets[Secret].current = ops[r].previous + 1
              /\ Current' = Row(ops[r].password)
              /\ db.secrets[Secret].current = ops[r].previous
              /\ KeepsRows(db.versions[Secret], db'.versions[Secret],
                           VersionNos \ {ops[r].previous + 1})
<1> DEFINE c == PutCommand(r)
           p == ops[r].previous
           row == db.secrets[Secret]
           moved == [row EXCEPT !.current = p + 1]
           new == apply_meta(moved, c)
           inserted == [db.versions[Secret] EXCEPT ![p + 1] = Row(ops[r].password)]
           closed == [inserted EXCEPT ![p] = Superseded(@, c.supersede)]
<1>1. /\ c.op = "PutVersion" /\ c.name = Secret /\ c.expected = p /\ c.version = p + 1
      /\ c.row = Row(ops[r].password) /\ c.set_interval = NONE /\ c.set_grace = NONE
      /\ c.next = SetTo(ops[r].now + Interval) /\ c.supersede = ops[r].now + Grace
  BY DEF PutCommand
<1>2. /\ p \in VersionNos /\ p + 1 \in VersionNos /\ ops[r].now \in Nat
      /\ ops[r].password \in Nat
  BY VersionAssumption DEF Shapes, Operations, VersionNos
<1>3. ops[r].now + Interval \in Nat /\ c.supersede \in Nat
  BY <1>1, <1>2, TargetAssumption
<1>4. apply_command(db, c) = PutVersion(db, c)
  BY <1>1 DEF apply_command
<1> HIDE DEF c
<1>5. row \in SecretRow /\ row # NONE /\ Secret \in Names
  BY Stored DEF Shapes
<1>6. CASE row.current # p
  <2>1. PutVersion(db, c) = Refused(db, "version_conflict")
    BY <1>1, <1>5, <1>6, Zenon DEF PutVersion
  <2>2. apply_command(db, c).db = db /\ apply_command(db, c).result # "ok"
    BY <1>4, <2>1 DEF Refused
  <2> QED
    BY <2>2 DEF commit, c
<1>7. CASE row.current = p
  <2>1. PutVersion(db, c) = PutAccepted(db, c)
    BY <1>1, <1>5, <1>7, Zenon DEF PutVersion
  <2>2. PutAccepted(db, c) = Ok([secrets |-> [db.secrets EXCEPT ![Secret] = new],
                                 versions |-> [db.versions EXCEPT ![Secret] = closed]])
    BY <1>1, Zenon DEF PutAccepted
  <2>3. /\ apply_command(db, c).db = [secrets |-> [db.secrets EXCEPT ![Secret] = new],
                                      versions |-> [db.versions EXCEPT ![Secret] = closed]]
        /\ apply_command(db, c).result = "ok"
    <3> HIDE DEF new, closed
    <3> QED
      BY <1>4, <2>1, <2>2 DEF Ok
  <2>4. moved \in SecretRow /\ moved.current = p + 1
    BY <1>2, <1>5 DEF SecretRow
  <2> HIDE DEF moved
  <2>5. new \in SecretRow /\ new.current = p + 1 /\ new.next = ops[r].now + Interval
    BY <1>1, <1>3, <2>4, NewRow, Zenon
  <2>6. Row(ops[r].password) \in VersionRow
    BY <1>2 DEF Row, VersionRow, OptNat
  <2>7. inserted \in [VersionNos -> VersionRow \cup {NONE}]
        /\ inserted[p + 1] = Row(ops[r].password)
        /\ \A v \in VersionNos \ {p + 1} : inserted[v] = db.versions[Secret][v]
    BY <1>2, <1>5, <2>6 DEF Shapes, Databases
  <2> HIDE DEF inserted
  <2>8. Superseded(inserted[p], c.supersede) \in VersionRow \cup {NONE}
    BY <1>2, <1>3, <2>7 DEF Superseded, VersionRow, OptNat
  <2>15. \A v \in VersionNos \ {p + 1} :
           \/ closed[v] = db.versions[Secret][v]
           \/ /\ closed[v] # NONE /\ db.versions[Secret][v] # NONE
              /\ closed[v].id = db.versions[Secret][v].id
    <3> SUFFICES ASSUME NEW v \in VersionNos \ {p + 1}
                 PROVE  \/ closed[v] = db.versions[Secret][v]
                        \/ /\ closed[v] # NONE /\ db.versions[Secret][v] # NONE
                           /\ closed[v].id = db.versions[Secret][v].id
      OBVIOUS
    <3> DEFINE old == inserted[p]
               sup == Superseded(old, c.supersede)
    <3>1. closed[v] = IF v = p THEN sup ELSE inserted[v]
      BY <2>7, Zenon
    <3>2. CASE old = NONE
      BY <2>7, <3>1, <3>2, Zenon DEF Superseded
    <3>3. CASE old \in VersionRow
      <4>1. c.supersede \in OptNat
        BY <1>3 DEF OptNat
      <4>2. sup \in VersionRow /\ sup.id = old.id
        BY <3>3, <4>1 DEF Superseded, VersionRow
      <4> HIDE DEF sup, closed
      <4> QED
        BY <2>7, <3>1, <3>3, <4>2, NoneAssumption
    <3> QED
      BY <1>2, <2>7, <3>2, <3>3
  <2>9. closed \in [VersionNos -> VersionRow \cup {NONE}] /\ closed[p + 1] = Row(ops[r].password)
    <3>1. p + 1 # p
      BY <1>2 DEF VersionNos
    <3> HIDE DEF p
    <3> QED
      BY <1>2, <2>7, <2>8, <3>1
  <2> HIDE DEF new, closed
  <2>10. db' = [secrets |-> [db.secrets EXCEPT ![Secret] = new],
                versions |-> [db.versions EXCEPT ![Secret] = closed]]
         /\ ops' = [ops EXCEPT ![r].pc = "candidates"]
    BY <2>3, Zenon DEF commit, Go, c
  <2>11. db' \in Databases /\ db'.secrets[Secret] = new /\ db'.versions[Secret] = closed
    BY <1>5, <2>5, <2>9, <2>10 DEF Shapes, Databases
  <2>12. new # NONE
    BY <2>5, NoneAssumption
  <2>13. Current' = Row(ops[r].password)
    BY <2>5, <2>9, <2>11, <2>12 DEF Current, current_version
  <2>14. KeepsRows(db.versions[Secret], closed, VersionNos \ {p + 1})
    BY <2>15 DEF KeepsRows
  <2> QED
    BY <1>3, <1>7, <2>5, <2>10, <2>11, <2>12, <2>13, <2>14
<1> QED
  BY <1>6, <1>7

(* The other changes of the tables leave the current version alone.         *)
LEMMA SameCurrent ==
    ASSUME Shapes, db' \in Databases, db'.secrets[Secret] # NONE,
           db'.secrets[Secret].current = db.secrets[Secret].current,
           db'.versions[Secret][db.secrets[Secret].current] = Current
    PROVE  Current' = Current
BY Stored DEF Current, current_version

(* A retry is scheduled for the version the rotation put.                   *)
LEMMA Rescheduled ==
    ASSUME Shapes, NEW r \in Rotators, schedule_apply_retry(r)
    PROVE  /\ db' \in Databases /\ db'.secrets[Secret] # NONE
           /\ db'.secrets[Secret].current = db.secrets[Secret].current
           /\ db'.secrets[Secret].next \in Nat
           /\ ops[r].previous + 1 = db.secrets[Secret].current =>
                 db'.secrets[Secret].next = ops[r].now + Retry
           /\ Current' = Current
           /\ db'.versions = db.versions
<1> DEFINE c == [op |-> "UpdateMeta", name |-> Secret,
                 expected |-> ops[r].previous + 1, set_interval |-> NONE,
                 set_grace |-> NONE, next |-> SetTo(ops[r].now + Retry)]
           row == db.secrets[Secret]
           new == apply_meta(row, c)
<1>1. /\ c.op = "UpdateMeta" /\ c.name = Secret /\ c.expected = ops[r].previous + 1
      /\ c.set_interval = NONE /\ c.set_grace = NONE /\ c.next = SetTo(ops[r].now + Retry)
  OBVIOUS
<1>2. db' = UpdateMeta(db, c).db
  BY <1>1 DEF schedule_apply_retry, apply_command
<1> HIDE DEF c
<1>3. row \in SecretRow /\ row # NONE /\ Secret \in Names /\ row.next \in Nat
  BY Stored DEF Shapes
<1>4. CASE row.current # ops[r].previous + 1
  <2>1. db' = db
    BY <1>1, <1>2, <1>3, <1>4 DEF UpdateMeta, Refused
  <2> QED
    BY <1>3, <1>4, <2>1 DEF Current, Shapes
<1>5. CASE row.current = ops[r].previous + 1
  <2>1. db' = [db EXCEPT !.secrets[Secret] = new]
    BY <1>1, <1>2, <1>3, <1>5 DEF UpdateMeta, Ok
  <2>2. ops[r].now + Retry \in Nat
    BY TargetAssumption DEF Shapes, Operations
  <2>3. new \in SecretRow /\ new.current = row.current /\ new.next = ops[r].now + Retry
    BY <1>1, <1>3, <2>2, NewRow, Zenon
  <2> HIDE DEF new
  <2>4. db' \in Databases /\ db'.secrets[Secret] = new /\ db'.versions = db.versions
    BY <1>3, <2>1, <2>3, Zenon DEF Shapes, Databases
  <2>5. new # NONE
    BY <2>3, NoneAssumption
  <2>6. Current' = Current
    BY <2>3, <2>4, <2>5, Stored, SameCurrent
  <2> QED
    BY <2>2, <2>3, <2>4, <2>5, <2>6
<1> QED
  BY <1>4, <1>5

(* The sweep leaves the secret and its current version alone, and of the    *)
(* others takes away those whose grace period has ended.                    *)
LEMMA Swept ==
    ASSUME Shapes, expire
    PROVE  /\ db' \in Databases /\ db'.secrets = db.secrets /\ Current' = Current
           /\ \A v \in VersionNos : db'.versions[Secret][v] =
                 IF Expired(db.versions[Secret][v], now) THEN NONE ELSE db.versions[Secret][v]
<1> DEFINE kept == [n \in Names |-> [v \in VersionNos |->
                      IF Expired(db.versions[n][v], now) THEN NONE ELSE db.versions[n][v]]]
           c == [op |-> "ExpireGraceVersions", now |-> now]
<1>1. c.op = "ExpireGraceVersions" /\ c.now = now
  OBVIOUS
<1>2. db' = ExpireGraceVersions(db, c).db
  BY <1>1 DEF expire, apply_command
<1> HIDE DEF c
<1>3. db' = [db EXCEPT !.versions = kept]
  BY <1>1, <1>2 DEF ExpireGraceVersions, Ok
<1>4. kept \in [Names -> [VersionNos -> VersionRow \cup {NONE}]]
  BY DEF Shapes, Databases
<1>5. kept[Secret][db.secrets[Secret].current] = Current
  BY Stored, Zenon DEF Shapes, Expired
<1>8. \A v \in VersionNos : kept[Secret][v] =
         IF Expired(db.versions[Secret][v], now) THEN NONE ELSE db.versions[Secret][v]
  BY Stored, Zenon
<1> HIDE DEF kept
<1>6. db' \in Databases /\ db'.secrets = db.secrets /\ db'.versions = kept
  BY <1>3, <1>4, Zenon DEF Shapes, Databases
<1>7. db.secrets[Secret] # NONE
  BY DEF Shapes
<1> QED
  BY <1>5, <1>6, <1>7, <1>8, SameCurrent

(* A step of one rotation that leaves the tables alone.                     *)
LEMMA LoginStep ==
    ASSUME RetryInv, NEW r \in Rotators, NEW o \in Operations,
           ops' = [ops EXCEPT ![r] = o], UNCHANGED <<db, now, minted, past>>,
           o.pc # "idle" => /\ ops[r].pc # "idle" /\ o.previous = ops[r].previous
                            /\ o.now = ops[r].now /\ o.password = ops[r].password,
           o.pc \in PastCommit => ops[r].pc \in PastCommit,
           o.pc \notin PastCommit /\ ops[r].pc \in PastCommit => held' = Current.id,
           held' = held \/ ops[r].pc \in PastCommit
    PROVE  RetryInv'
<1>1. /\ ops \in [Rotators -> Operations] /\ Current' = Current
      /\ ops' \in [Rotators -> Operations]
      /\ \A q \in Rotators : ops'[q] = IF q = r THEN o ELSE ops[q]
  BY DEF RetryInv, Shapes, Current
<1>2. Shapes'
  BY <1>1 DEF RetryInv, Shapes
<1>3. SUFFICES ASSUME ~past.disturbed
               PROVE  /\ \A p, q \in Rotators : ops'[p].pc # "idle" /\ ops'[q].pc # "idle" => p = q
                      /\ \A q \in Rotators : ops'[q].pc \in PastCommit =>
                           /\ ops'[q].previous + 1 = db.secrets[Secret].current
                           /\ ops'[q].password = Current.id
                      /\ (\A q \in Rotators : ops'[q].pc \notin PastCommit) => InStep'
  BY <1>1, <1>2, Zenon DEF RetryInv
<1>4. "idle" \notin PastCommit
  BY DEF PastCommit
<1>5. /\ \A p, q \in Rotators : ops[p].pc # "idle" /\ ops[q].pc # "idle" => p = q
      /\ \A q \in Rotators : ops[q].pc \in PastCommit =>
           /\ ops[q].previous + 1 = db.secrets[Secret].current
           /\ ops[q].password = Current.id
      /\ (\A q \in Rotators : ops[q].pc \notin PastCommit) => InStep
  BY <1>3, Zenon DEF RetryInv
<1>6. ASSUME \A q \in Rotators : ops'[q].pc \notin PastCommit PROVE InStep'
  <2>1. CASE ops[r].pc \in PastCommit
    BY <1>1, <1>6, <2>1 DEF InStep
  <2>2. CASE ops[r].pc \notin PastCommit
    <3>1. InStep /\ held' = held
      BY <1>1, <1>5, <1>6, <2>2
    <3> QED
      BY <1>1, <3>1 DEF InStep
  <2> QED
    BY <2>1, <2>2
<1>7. \A p, q \in Rotators : ops'[p].pc # "idle" /\ ops'[q].pc # "idle" => p = q
  BY <1>1, <1>5
<1>8. \A q \in Rotators : ops'[q].pc \in PastCommit =>
           /\ ops'[q].previous + 1 = db.secrets[Secret].current
           /\ ops'[q].password = Current.id
  BY <1>1, <1>4, <1>5
<1> QED
  BY <1>6, <1>7, <1>8

(* Trying the next login, or giving up.                                     *)
LEMMA NextLogin ==
    ASSUME RetryInv, NEW r \in Rotators, ops[r].pc \in PastCommit, NEW l \in SUBSET Logins,
           ops' = [ops EXCEPT ![r].logins = l,
                              ![r].pc = IF l = {} THEN "retry" ELSE "login"],
           UNCHANGED <<db, now, minted, past>>
    PROVE  RetryInv'
<1> DEFINE p == IF l = {} THEN "retry" ELSE "login"
           o == [ops[r] EXCEPT !.logins = l, !.pc = p]
<1>1. ops' = [ops EXCEPT ![r] = o]
  BY Zenon DEF RetryInv, Shapes
<1>2. ops[r] \in Operations /\ p \in PastCommit
  BY DEF RetryInv, Shapes, PastCommit
<1> HIDE DEF p
<1>3. /\ o \in Operations /\ o.previous = ops[r].previous /\ o.now = ops[r].now
      /\ o.password = ops[r].password /\ o.pc = p
  BY <1>2, Zenon DEF Operations, Stages
<1> HIDE DEF o
<1>4. "idle" \notin PastCommit
  BY DEF PastCommit
<1> QED
  BY <1>1, <1>2, <1>3, <1>4, LoginStep

(* Every step keeps RetryInv.                                               *)
LEMMA RetryStep ==
    ASSUME RetryInv, [Next]_vars PROVE RetryInv'
<1>1. /\ Shapes /\ ops \in [Rotators -> Operations] /\ now \in Nat /\ past \in Pasts
      /\ Idle \in Operations /\ Idle.pc = "idle" /\ "idle" \notin PastCommit
  BY DEF RetryInv, Shapes, Idle, Operations, Stages, PastCommit
<1> DEFINE One(f) == \A p, q \in Rotators : f[p].pc # "idle" /\ f[q].pc # "idle" => p = q
           Fits(f, d, c) == \A q \in Rotators : f[q].pc \in PastCommit =>
                             /\ f[q].previous + 1 = d.secrets[Secret].current
                             /\ f[q].password = c.id
           Done(f) == \A q \in Rotators : f[q].pc \notin PastCommit
<1>2. /\ RetryInv' = (Shapes' /\ (past'.disturbed \/
             (One(ops') /\ Fits(ops', db', Current') /\ (Done(ops') => InStep'))))
      /\ past.disturbed \/ (One(ops) /\ Fits(ops, db, Current) /\ (Done(ops) => InStep))
  BY Zenon DEF RetryInv
<1>3. ASSUME NEW r \in Rotators, rotate(r) PROVE RetryInv'
  <2> DEFINE o == [pc |-> "commit", now |-> now, previous |-> db.secrets[Secret].current,
                   password |-> minted + 1, logins |-> {}]
             b == past.disturbed \/ \E q \in Rotators : ops[q].pc # "idle"
             m == IF r \in Admins THEN past.forced + 1 ELSE past.forced
  <2>1. /\ ops' = [ops EXCEPT ![r] = o] /\ UNCHANGED <<db, now, held>>
        /\ minted' = minted + 1 /\ next_version(db.secrets[Secret].current) # NONE
        /\ past' = [past EXCEPT !.forced = m, !.disturbed = b]
    BY <1>3 DEF rotate
  <2>2. db.secrets[Secret].current \in 1..(MaxVersion - 1)
    BY <2>1, Stored, <1>1, VersionAssumption DEF next_version, VersionNos
  <2>3. minted \in Nat /\ minted' \in Nat
    BY <1>1, <2>1 DEF Shapes
  <2>4. o \in Operations /\ o.pc = "commit" /\ o.now = now
        /\ o.previous \in 1..(MaxVersion - 1)
    BY <1>1, <2>2, <2>3 DEF Operations, Stages
  <2>5. past' \in Pasts /\ past'.disturbed = b
    <3>1. m \in Nat /\ b \in BOOLEAN
      BY <1>1 DEF Pasts
    <3> HIDE DEF m, b
    <3> QED
      BY <1>1, <2>1, <3>1, Zenon DEF Pasts
  <2> HIDE DEF o, m
  <2>6. /\ ops' \in [Rotators -> Operations] /\ Current' = Current
        /\ \A q \in Rotators : ops'[q] = IF q = r THEN o ELSE ops[q]
    BY <1>1, <2>1, <2>4 DEF Current
  <2>7. Shapes'
    BY <1>1, <2>1, <2>3, <2>4, <2>5, <2>6 DEF Shapes
  <2>8. ASSUME ~b PROVE One(ops') /\ Fits(ops', db', Current') /\ (Done(ops') => InStep')
    <3>1. \A q \in Rotators : ops[q].pc = "idle"
      BY <2>8
    <3>2. "commit" \notin PastCommit
      BY DEF PastCommit
    <3>3. One(ops') /\ Fits(ops', db', Current')
      BY <1>1, <2>4, <2>6, <3>1, <3>2
    <3>4. InStep
      BY <1>1, <1>2, <2>8, <3>1
    <3>5. InStep'
      BY <2>1, <2>6, <3>4 DEF InStep
    <3> QED
      BY <3>3, <3>5
  <2> QED
    BY <1>2, <2>5, <2>7, <2>8, Zenon
<1>4. ASSUME NEW r \in Rotators, commit(r) PROVE RetryInv'
  <2>1. ops[r].pc = "commit" /\ UNCHANGED <<now, held, minted, past>> /\ "commit" \notin PastCommit
    BY <1>4 DEF commit, PastCommit
  <2>2. CASE UNCHANGED <<db, committed>> /\ ops' = [ops EXCEPT ![r] = Idle]
    BY <1>1, <2>1, <2>2, LoginStep, Zenon
  <2>3. ASSUME /\ ops' = [ops EXCEPT ![r].pc = "candidates"]
               /\ db' \in Databases /\ db'.secrets[Secret] # NONE
               /\ db'.secrets[Secret].next \in Nat
               /\ db'.secrets[Secret].current = ops[r].previous + 1
               /\ Current' = Row(ops[r].password)
        PROVE  RetryInv'
    <3> DEFINE o == [ops[r] EXCEPT !.pc = "candidates"]
    <3>1. ops' = [ops EXCEPT ![r] = o]
      BY <1>1, <2>3
    <3>2. /\ o \in Operations /\ o.previous = ops[r].previous /\ o.now = ops[r].now
          /\ o.password = ops[r].password /\ o.pc = "candidates"
      BY <1>1 DEF Operations, Stages, PastCommit
    <3> HIDE DEF o
    <3>3. /\ ops' \in [Rotators -> Operations]
          /\ \A q \in Rotators : ops'[q] = IF q = r THEN o ELSE ops[q]
      BY <1>1, <3>1, <3>2
    <3>4. ops[r].password \in Nat
      BY <1>1 DEF Operations
    <3>5. Current'.expires = NONE /\ Current'.id = ops[r].password /\ Current' # NONE
      <4>1. Row(ops[r].password) \in VersionRow
        BY <3>4 DEF Row, VersionRow, OptNat
      <4>2. Row(ops[r].password).expires = NONE /\ Row(ops[r].password).id = ops[r].password
        BY DEF Row
      <4> QED
        BY <2>3, <4>1, <4>2, NoneAssumption
    <3>6. db'.secrets[Secret].next # NONE
      BY <2>3, NoneAssumption
    <3>7. Shapes'
      BY <1>1, <2>1, <2>3, <3>2, <3>3, <3>5, <3>6 DEF Shapes
    <3>8. ASSUME One(ops) PROVE One(ops') /\ Fits(ops', db', Current') /\ (Done(ops') => InStep')
      <4>1. \A q \in Rotators : q # r => ops'[q].pc = "idle"
        BY <2>1, <3>3, <3>8
      <4>2. ops'[r] = o /\ o.pc \in PastCommit
        BY <3>2, <3>3 DEF PastCommit
      <4> QED
        BY <1>1, <2>3, <3>2, <3>5, <4>1, <4>2
    <3> QED
      BY <1>2, <2>1, <3>7, <3>8, Zenon
  <2> QED
    BY <1>1, <1>4, <2>1, <2>2, <2>3, Put, Zenon
<1>5. ASSUME NEW r \in Rotators, self_login_candidates(r) PROVE RetryInv'
  <2> DEFINE stored == {v \in Candidates(ops[r].previous, ops[r].now) :
                           db.versions[Secret][v] # NONE}
             l == {[version |-> v, password |-> db.versions[Secret][v].id] : v \in stored}
  <2>1. /\ ops' = [ops EXCEPT ![r].logins = l,
                              ![r].pc = IF l = {} THEN "retry" ELSE "login"]
        /\ ops[r].pc \in PastCommit /\ UNCHANGED <<db, now, minted, past>>
    BY <1>5 DEF self_login_candidates, PastCommit
  <2>2. ops[r].previous \in VersionNos
    BY <1>1, <2>1, VersionAssumption DEF Shapes, VersionNos
  <2>3. Candidates(ops[r].previous, ops[r].now) \subseteq VersionNos
    BY <2>2 DEF Candidates, live_versions
  <2>4. db.versions[Secret] \in [VersionNos -> VersionRow \cup {NONE}]
    BY <1>1, TargetAssumption DEF Shapes, Databases
  <2>5. \A v \in stored : v \in VersionNos /\ db.versions[Secret][v].id \in Nat
    BY <2>3, <2>4 DEF VersionRow
  <2> HIDE DEF stored
  <2>6. l \in SUBSET Logins
    BY <2>5 DEF Logins
  <2> HIDE DEF l
  <2> QED
    BY <2>1, <2>6, NextLogin
<1>6. ASSUME NEW r \in Rotators, ops[r].pc = "login", LoginFailed(r),
             UNCHANGED <<db, now, minted, past>>
      PROVE  RetryInv'
  <2> DEFINE l == ops[r].logins \ {FirstLogin(r)}
  <2>1. ops' = [ops EXCEPT ![r].logins = l,
                           ![r].pc = IF l = {} THEN "retry" ELSE "login"]
    BY <1>6 DEF LoginFailed
  <2>2. l \in SUBSET Logins
    BY <1>1 DEF Operations
  <2> HIDE DEF l
  <2>3. ops[r].pc \in PastCommit
    BY <1>6 DEF PastCommit
  <2> QED
    BY <1>6, <2>1, <2>2, <2>3, NextLogin
<1>7. ASSUME NEW r \in Rotators, apply_accepted(r) PROVE RetryInv'
  <2>1. /\ ops[r].pc \in PastCommit /\ held' = ops[r].password
        /\ ops' = [ops EXCEPT ![r] = Idle] /\ UNCHANGED <<db, now, minted, past>>
    BY <1>7 DEF apply_accepted, PastCommit
  <2>2. CASE past.disturbed
    <3>1. ops' \in [Rotators -> Operations] /\ Current' = Current
          /\ \A q \in Rotators : ops'[q] = IF q = r THEN Idle ELSE ops[q]
      BY <1>1, <2>1 DEF Current
    <3>2. Shapes'
      BY <1>1, <2>1, <3>1 DEF Shapes
    <3> QED
      BY <1>2, <2>1, <2>2, <3>2, Zenon
  <2>3. CASE ~past.disturbed
    <3>1. held' = Current.id
      BY <1>2, <2>1, <2>3
    <3> QED
      BY <1>1, <2>1, <3>1, LoginStep, Zenon
  <2> QED
    BY <2>2, <2>3
<1>8. ASSUME NEW r \in Rotators, schedule_apply_retry(r) \/ crash(r) PROVE RetryInv'
  <2>1. /\ ops' = [ops EXCEPT ![r] = Idle] /\ UNCHANGED <<now, held, minted>>
        /\ ops[r].pc # "idle"
    BY <1>8 DEF schedule_apply_retry, crash
  <2>2. ops' \in [Rotators -> Operations]
        /\ \A q \in Rotators : ops'[q] = IF q = r THEN Idle ELSE ops[q]
    BY <1>1, <2>1
  <2>3. CASE schedule_apply_retry(r)
    <3>1. past' = past /\ ops[r].pc \in PastCommit
      BY <2>3 DEF schedule_apply_retry, PastCommit
    <3>2. /\ db' \in Databases /\ db'.secrets[Secret] # NONE
          /\ db'.secrets[Secret].current = db.secrets[Secret].current
          /\ db'.secrets[Secret].next \in Nat
          /\ ops[r].previous + 1 = db.secrets[Secret].current =>
                db'.secrets[Secret].next = ops[r].now + Retry
          /\ Current' = Current
      BY <1>1, <2>3, Rescheduled
    <3>3. db'.secrets[Secret].next # NONE
      BY <3>2, NoneAssumption
    <3>4. Shapes'
      BY <1>1, <2>1, <2>2, <3>1, <3>2, <3>3 DEF Shapes
    <3>5. ASSUME One(ops), Fits(ops, db, Current)
          PROVE  One(ops') /\ Fits(ops', db', Current') /\ (Done(ops') => InStep')
      <4>1. \A q \in Rotators : ops'[q].pc = "idle"
        BY <1>1, <2>1, <2>2, <3>5
      <4>2. db'.secrets[Secret].next = ops[r].now + Retry
        BY <3>1, <3>2, <3>5
      <4>3. ops[r].now <= now /\ ops[r].now \in Nat
        BY <1>1, <2>1 DEF Shapes, Operations
      <4>4. InStep'
        BY <1>1, <2>1, <4>2, <4>3, TargetAssumption DEF InStep
      <4> QED
        BY <1>1, <4>1, <4>4
    <3> QED
      BY <1>2, <3>1, <3>4, <3>5, Zenon
  <2>4. CASE crash(r)
    <3> DEFINE m == past.crashes + 1
    <3>1. UNCHANGED db /\ past' \in Pasts /\ past'.disturbed = TRUE
      <4>1. m \in Nat /\ past' = [past EXCEPT !.crashes = m, !.disturbed = TRUE] /\ UNCHANGED db
        BY <1>1, <2>4 DEF crash, Pasts
      <4> HIDE DEF m
      <4> QED
        BY <1>1, <4>1, Zenon DEF Pasts
    <3>2. Current' = Current
      BY <3>1 DEF Current
    <3>3. Shapes'
      BY <1>1, <2>1, <2>2, <3>1, <3>2 DEF Shapes
    <3> QED
      BY <1>2, <3>1, <3>3, Zenon
  <2> QED
    BY <1>8, <2>3, <2>4
<1>9. ASSUME expire PROVE RetryInv'
  <2>1. /\ db' \in Databases /\ db'.secrets = db.secrets /\ Current' = Current
        /\ UNCHANGED <<now, ops, held, minted, past>>
    BY <1>1, <1>9, Swept DEF expire
  <2>2. Shapes' /\ InStep' = InStep
    BY <1>1, <2>1 DEF Shapes, InStep
  <2> QED
    BY <1>2, <2>1, <2>2, Zenon
<1>10. ASSUME tick PROVE RetryInv'
  <2>1. now' = now + 1 /\ UNCHANGED <<db, ops, held, minted, past>>
    BY <1>10 DEF tick
  <2>2. Current' = Current
    BY <2>1 DEF Current
  <2>3. \A r \in Rotators : ops[r].now \in Nat
    BY <1>1 DEF Operations
  <2>4. Shapes'
    BY <1>1, <2>1, <2>2, <2>3 DEF Shapes
  <2>5. InStep => InStep'
    BY <1>1, <2>1, <2>2, Stored, TargetAssumption DEF InStep
  <2> QED
    BY <1>2, <2>1, <2>2, <2>4, <2>5, Zenon
<1>11. CASE UNCHANGED vars
  <2>1. UNCHANGED <<db, now, ops, held, minted, past>> /\ Current' = Current
    BY <1>11 DEF vars, Current
  <2>2. Shapes' /\ InStep' = InStep
    BY <1>1, <2>1 DEF Shapes, InStep
  <2> QED
    BY <1>2, <2>1, <2>2, Zenon
<1>12. ASSUME NEW r \in Rotators, apply_refused(r) \/ apply_answer_lost(r) PROVE RetryInv'
  BY <1>6, <1>12 DEF apply_refused, apply_answer_lost
<1> QED
  BY <1>3, <1>4, <1>5, <1>7, <1>8, <1>9, <1>10, <1>11, <1>12 DEF Next

(* The first state satisfies it.                                            *)
LEMMA RetryStart == Init => RetryInv
<1> SUFFICES ASSUME Init PROVE RetryInv
  OBVIOUS
<1> DEFINE s == [kind |-> "automatic", format |-> "userpass", interval |-> Interval,
                 grace |-> Grace, current |-> 1, next |-> Interval]
<1>1. s \in SecretRow /\ s.current = 1 /\ s.next = Interval /\ Interval \in Nat
  BY TargetAssumption, VersionAssumption DEF SecretRow, Kinds, Formats, OptNat, VersionNos
<1>2. Row(1) \in VersionRow /\ Row(1).expires = NONE /\ Row(1).id = 1 /\ 1 \in VersionNos
  BY VersionAssumption DEF Row, VersionRow, OptNat, VersionNos
<1>3. db = [EmptyDb EXCEPT !.secrets[Secret] = s, !.versions[Secret][1] = Row(1)]
  BY DEF Init
<1> HIDE DEF s
<1>4. db \in Databases /\ db.secrets[Secret] = s /\ db.versions[Secret][1] = Row(1)
  BY <1>1, <1>2, <1>3, TargetAssumption, Zenon DEF EmptyDb, Databases
<1>5. s # NONE /\ s.next # NONE /\ Row(1) # NONE
  BY <1>1, <1>2, NoneAssumption
<1>6. Current = Row(1)
  BY <1>1, <1>4, <1>5 DEF Current, current_version
<1>7. Idle \in Operations /\ Idle.pc = "idle" /\ "idle" \notin PastCommit
  BY DEF Idle, Operations, Stages, PastCommit
<1>8. past \in Pasts /\ \A r \in Rotators : ops[r] = Idle
  BY DEF Init, Pasts
<1>9. Shapes
  BY <1>2, <1>4, <1>5, <1>6, <1>7, <1>8 DEF Init, Shapes
<1>10. InStep
  BY <1>2, <1>6 DEF Init, InStep
<1> QED
  BY <1>7, <1>8, <1>9, <1>10, Zenon DEF RetryInv

(* As long as no rotation was disturbed, Postgres holds the current         *)
(* password or the next attempt is within the retry delay, whenever no      *)
(* rotation runs (service.rs, schedule_apply_retry).                        *)
THEOREM FailedApplyIsRetriedAlways == Spec => []FailedApplyIsRetried
<1>1. RetryInv => FailedApplyIsRetried
  <2>1. "idle" \notin PastCommit
    BY DEF PastCommit
  <2> QED
    BY <2>1 DEF RetryInv, InStep, FailedApplyIsRetried, NeverSilentlyDiverges
<1>2. RetryInv /\ [Next]_vars => RetryInv'
  BY RetryStep
<1> QED
  BY <1>1, <1>2, RetryStart, PTL DEF Spec

---------------------------------------------------------------------------
(* The password Postgres holds is tried *)

(* The current version or an earlier one has this password.                 *)
Holds(d, password) ==
    \E v \in VersionNos : /\ v <= d.secrets[Secret].current
                          /\ d.versions[Secret][v] # NONE
                          /\ d.versions[Secret][v].id = password

(* Nothing is stored above the current version.                             *)
NoNewer(d) == \A v \in VersionNos :
                 v > d.secrets[Secret].current => d.versions[Secret][v] = NONE

(* The inductive invariant behind HeldPasswordIsTried: undisturbed, the     *)
(* version whose password Postgres holds is still stored.                   *)
HeldInv == RetryInv /\ NoNewer(db) /\ (past.disturbed \/ Holds(db, held))

(* Postgres has not been left behind for too long: the version whose        *)
(* password it holds is in its grace period, and fewer rotations than the   *)
(* list of logins has entries have been committed since.                    *)
HeldInGrace ==
    past.disturbed \/ \A v \in VersionNos :
        LET row == db.versions[Secret][v]
        IN  row # NONE /\ row.id = held =>
              /\ row.expires # NONE => now < row.expires
              /\ db.secrets[Secret].current - v < MaxCandidates

(* Few versions are newer than v when v is not far behind.                  *)
LEMMA FewNewer ==
    ASSUME NEW v \in Nat, NEW p \in Nat, v < p, NEW m \in Nat, p + 1 - v < m,
           NEW S, \A u \in S : u \in Nat /\ v < u /\ u # p /\ u <= p + 1
    PROVE  Cardinality(S) < m - 1
<1> DEFINE T == (v + 1)..(p + 1)
<1>1. IsFiniteSet(T) /\ Cardinality(T) = p + 1 - v
  BY FS_Interval
<1>2. p \in T /\ S \subseteq T \ {p}
  OBVIOUS
<1> HIDE DEF T
<1>3. IsFiniteSet(T \ {p}) /\ Cardinality(T \ {p}) = p - v
  <2>1. IsFiniteSet(T \ {p}) /\ Cardinality(T \ {p}) = Cardinality(T) - 1
    BY <1>1, <1>2, FS_RemoveElement
  <2> QED
    BY <1>1, <2>1
<1>4. Cardinality(S) \in Nat /\ Cardinality(S) <= p - v
  <2>1. IsFiniteSet(S) /\ Cardinality(S) <= Cardinality(T \ {p})
    BY <1>2, <1>3, FS_Subset, Zenon
  <2> QED
    BY <1>3, <2>1, FS_CardinalityType
<1> QED
  BY <1>4

(* Every step keeps HeldInv, as long as Postgres is not left behind.        *)
LEMMA HeldStep ==
    ASSUME HeldInv, HeldInGrace, [Next]_vars PROVE HeldInv'
<1>1. RetryInv' /\ Shapes /\ past \in Pasts
  BY RetryStep DEF HeldInv, RetryInv, Shapes
<1>2. SUFFICES NoNewer(db') /\ (past'.disturbed \/ Holds(db', held'))
  BY <1>1 DEF HeldInv
<1>3. NoNewer(db) /\ (past.disturbed \/ Holds(db, held))
  BY DEF HeldInv
<1> DEFINE Goal == NoNewer(db') /\ (past'.disturbed \/ Holds(db', held'))
<1>4. ASSUME UNCHANGED <<db, held>>, past.disturbed => past'.disturbed PROVE Goal
  BY <1>3, <1>4
<1>5. ASSUME NEW r \in Rotators, rotate(r) \/ crash(r) PROVE Goal
  <2>1. past.disturbed => past'.disturbed
    BY <1>1, <1>5, Zenon DEF rotate, crash, Pasts
  <2> QED
    BY <1>4, <1>5, <2>1 DEF rotate, crash
<1>6. ASSUME NEW r \in Rotators, self_login_candidates(r) \/ apply_refused(r) PROVE Goal
  BY <1>4, <1>6 DEF self_login_candidates, apply_refused
<1>7. CASE tick \/ UNCHANGED vars
  BY <1>4, <1>7 DEF tick, vars
<1>8. ASSUME NEW r \in Rotators, commit(r) PROVE Goal
  <2>1. ops[r].pc = "commit" /\ UNCHANGED <<held, past>>
    BY <1>8 DEF commit
  <2>2. CASE UNCHANGED db
    BY <1>4, <2>1, <2>2
  <2>3. CASE /\ db'.secrets[Secret].current = ops[r].previous + 1
             /\ db.secrets[Secret].current = ops[r].previous
             /\ KeepsRows(db.versions[Secret], db'.versions[Secret],
                          VersionNos \ {ops[r].previous + 1})
    <3> DEFINE p == ops[r].previous
               old == db.versions[Secret]
               new == db'.versions[Secret]
    <3>1. p \in Nat
      BY <1>1, <2>1 DEF Shapes
    <3>2. \A v \in VersionNos \ {p + 1} :
             \/ new[v] = old[v]
             \/ new[v] # NONE /\ old[v] # NONE /\ new[v].id = old[v].id
      BY <2>3 DEF KeepsRows
    <3> HIDE DEF p, old, new
    <3>3. NoNewer(db')
      <4>1. ASSUME NEW v \in VersionNos, v > p + 1 PROVE new[v] = NONE
        <5>1. v > p /\ v # p + 1
          BY <3>1, <4>1 DEF VersionNos
        <5>2. old[v] = NONE
          BY <1>3, <2>3, <5>1 DEF NoNewer, p, old
        <5> QED
          BY <3>2, <5>1, <5>2
      <4> QED
        BY <2>3, <4>1 DEF NoNewer, p, new
    <3>4. ASSUME Holds(db, held) PROVE Holds(db', held')
      <4>1. PICK v \in VersionNos : v <= p /\ old[v] # NONE /\ old[v].id = held
        BY <2>3, <3>4 DEF Holds, p, old
      <4>2. v # p + 1 /\ v <= p + 1
        BY <3>1, <4>1 DEF VersionNos
      <4>3. new[v] # NONE /\ new[v].id = held'
        BY <2>1, <3>2, <4>1, <4>2
      <4> QED
        BY <2>3, <4>2, <4>3 DEF Holds, p, new
    <3> QED
      BY <1>3, <2>1, <3>3, <3>4
  <2> QED
    BY <1>1, <1>8, <2>1, <2>2, <2>3, Put
<1>9. ASSUME NEW r \in Rotators, apply_accepted(r) \/ apply_answer_lost(r) PROVE Goal
  <2>1. /\ ops[r].pc \in PastCommit /\ held' = ops[r].password /\ UNCHANGED <<db, past>>
    BY <1>9 DEF apply_accepted, apply_answer_lost, PastCommit
  <2>2. ASSUME ~past.disturbed PROVE Holds(db, ops[r].password)
    <3>1. ops[r].password = Current.id
      BY <2>1, <2>2 DEF HeldInv, RetryInv
    <3>2. /\ db.secrets[Secret].current \in VersionNos /\ Current # NONE
          /\ Current = db.versions[Secret][db.secrets[Secret].current]
      BY <1>1, Stored DEF Shapes
    <3>3. db.secrets[Secret].current <= db.secrets[Secret].current
      BY <3>2 DEF VersionNos
    <3> QED
      BY <3>1, <3>2, <3>3, Zenon DEF Holds
  <2> QED
    BY <1>3, <2>1, <2>2
<1>10. ASSUME NEW r \in Rotators, schedule_apply_retry(r) PROVE Goal
  <2>1. UNCHANGED <<held, past>>
    BY <1>10 DEF schedule_apply_retry
  <2>2. /\ db'.secrets[Secret].current = db.secrets[Secret].current
        /\ db'.versions = db.versions
    BY <1>1, <1>10, Rescheduled
  <2> QED
    BY <1>3, <2>1, <2>2, Zenon DEF NoNewer, Holds
<1>11. ASSUME expire PROVE Goal
  <2>1. UNCHANGED <<held, past>>
    BY <1>11 DEF expire
  <2>2. /\ db'.secrets = db.secrets
        /\ \A v \in VersionNos : db'.versions[Secret][v] =
              IF Expired(db.versions[Secret][v], now) THEN NONE ELSE db.versions[Secret][v]
    BY <1>1, <1>11, Swept
  <2>3. NoNewer(db')
    BY <1>3, <2>2, Zenon DEF NoNewer
  <2>4. ASSUME ~past.disturbed, Holds(db, held) PROVE Holds(db', held')
    <3>1. PICK v \in VersionNos : /\ v <= db.secrets[Secret].current
                                  /\ db.versions[Secret][v] # NONE
                                  /\ db.versions[Secret][v].id = held
      BY <2>4 DEF Holds
    <3> DEFINE row == db.versions[Secret][v]
    <3>2. row.expires # NONE => now < row.expires
      BY <2>4, <3>1, Zenon DEF HeldInGrace
    <3>3. row.expires # NONE => row.expires \in Nat
      <4>1. db.versions[Secret] \in [VersionNos -> VersionRow \cup {NONE}]
        BY <1>1, TargetAssumption DEF Shapes, Databases
      <4>2. row \in VersionRow
        BY <3>1, <4>1
      <4> QED
        BY <4>2 DEF VersionRow, OptNat
    <3>4. ~Expired(row, now)
      BY <1>1, <3>2, <3>3 DEF Expired, Shapes
    <3>5. db'.versions[Secret][v] = row
      BY <2>2, <3>4
    <3> QED
      BY <2>1, <2>2, <3>1, <3>5, Zenon DEF Holds
  <2> QED
    BY <1>3, <2>1, <2>3, <2>4
<1> QED
  BY <1>5, <1>6, <1>7, <1>8, <1>9, <1>10, <1>11 DEF Next

(* The list a rotation draws up then has the password Postgres holds.       *)
LEMMA HeldIsListed ==
    ASSUME HeldInv, HeldInGrace, [Next]_vars, MaxCandidates > 1, ~past.disturbed,
           NEW r \in Rotators, ops[r].pc = "candidates", ops'[r].pc \in {"login", "retry"}
    PROVE  \E l \in ops'[r].logins : l.password = held
<1>1. Shapes /\ ops \in [Rotators -> Operations] /\ now \in Nat
  BY DEF HeldInv, RetryInv, Shapes
<1>2. self_login_candidates(r)
  <2>1. ASSUME ops'[r] = ops[r] PROVE FALSE
    BY <2>1
  <2>2. ASSUME NEW q \in Rotators, NEW o, ops' = [ops EXCEPT ![q] = o],
               ops[q].pc # "candidates" PROVE FALSE
    <3>1. q # r
      BY <2>2
    <3> QED
      BY <1>1, <2>1, <2>2, <3>1
  <2>3. ASSUME NEW q \in Rotators, crash(q) PROVE FALSE
    <3>1. ops' = [ops EXCEPT ![q] = Idle]
      BY <2>3 DEF crash
    <3>2. ops'[r] = Idle \/ ops'[r] = ops[r]
      BY <1>1, <3>1
    <3> QED
      BY <2>1, <3>2 DEF Idle
  <2>4. ASSUME NEW q \in Rotators, LoginFailed(q), ops[q].pc = "login" PROVE FALSE
    <3>1. q # r
      BY <2>4
    <3>2. ops'[r] = ops[r]
      BY <1>1, <2>4, <3>1, Zenon DEF LoginFailed
    <3> QED
      BY <2>1, <3>2
  <2>5. ASSUME NEW q \in Rotators,
               rotate(q) \/ apply_accepted(q) \/ schedule_apply_retry(q) PROVE FALSE
    BY <2>2, <2>5 DEF rotate, apply_accepted, schedule_apply_retry
  <2>6. ASSUME NEW q \in Rotators, commit(q) PROVE FALSE
    <3>1. ops[q].pc = "commit" /\ (ops' = [ops EXCEPT ![q] = Idle] \/ ops' = Go(q, "candidates"))
      BY <2>6 DEF commit
    <3>2. q # r
      BY <3>1
    <3>3. ops'[r] = ops[r]
      BY <1>1, <3>1, <3>2, Zenon DEF Go
    <3> QED
      BY <2>1, <3>3
  <2>7. ASSUME NEW q \in Rotators, apply_refused(q) \/ apply_answer_lost(q) PROVE FALSE
    BY <2>4, <2>7 DEF apply_refused, apply_answer_lost
  <2>8. ASSUME NEW q \in Rotators, self_login_candidates(q), q # r PROVE FALSE
    <3>1. ops'[r] = ops[r]
      BY <1>1, <2>8, Zenon DEF self_login_candidates
    <3> QED
      BY <2>1, <3>1
  <2>9. CASE expire \/ tick \/ UNCHANGED vars
    BY <2>1, <2>9 DEF expire, tick, vars
  <2> QED
    BY <2>3, <2>5, <2>6, <2>7, <2>8, <2>9 DEF Next
<1>3. PICK v \in VersionNos : /\ v <= db.secrets[Secret].current
                              /\ db.versions[Secret][v] # NONE
                              /\ db.versions[Secret][v].id = held
  BY Zenon DEF HeldInv, Holds
<1> DEFINE row == db.versions[Secret][v]
           p == ops[r].previous
           t == ops[r].now
           live == live_versions(db, Secret, t) \ {p}
<1>4. /\ p + 1 = db.secrets[Secret].current /\ p \in Nat /\ t \in Nat /\ t <= now
  BY <1>1 DEF HeldInv, RetryInv, PastCommit, Shapes, Operations
<1>5. (row.expires # NONE => now < row.expires) /\ p + 1 - v < MaxCandidates
  <2>1. /\ row.expires # NONE => now < row.expires
        /\ db.secrets[Secret].current - v < MaxCandidates
    BY <1>3, Zenon DEF HeldInGrace
  <2>2. p + 1 = db.secrets[Secret].current
    BY <1>4, Zenon
  <2> DEFINE c == db.secrets[Secret].current
  <2>3. p + 1 = c /\ c - v < MaxCandidates
    BY <2>1, <2>2, Zenon
  <2>4. p \in Nat /\ v \in Nat /\ MaxCandidates \in Nat
    BY <1>4, TargetAssumption DEF VersionNos
  <2> HIDE DEF p, c
  <2>5. p + 1 - v < MaxCandidates
    BY <2>3, <2>4
  <2> QED
    BY <2>1, <2>5, Zenon
<1>6. \A u \in live : u \in Nat /\ u # p /\ u <= p + 1
  <2>1. \A u \in live : u \in VersionNos /\ u # p /\ db.versions[Secret][u] # NONE
    BY DEF live_versions
  <2>2. \A u \in VersionNos : u \in Nat
    BY DEF VersionNos
  <2>3. ASSUME NEW u \in live PROVE u <= p + 1
    <3>1. u \in VersionNos /\ ~(u > db.secrets[Secret].current)
      BY <2>1 DEF HeldInv, NoNewer
    <3> HIDE DEF live, p
    <3> QED
      BY <1>4, <2>2, <3>1
  <2> QED
    BY <2>1, <2>2, <2>3
<1>7. v \in Candidates(p, t)
  <2>1. CASE v = p
    BY <2>1 DEF Candidates
  <2>2. CASE v # p
    <3>1. row.expires = NONE \/ t < row.expires
      <4>1. db.versions[Secret] \in [VersionNos -> VersionRow \cup {NONE}]
        BY <1>1, TargetAssumption DEF Shapes, Databases
      <4>2. row \in VersionRow
        BY <1>3, <4>1, Zenon
      <4>3. row.expires # NONE => row.expires \in Nat
        BY <4>2 DEF VersionRow, OptNat
      <4> QED
        BY <1>1, <1>4, <1>5, <4>3
    <3>2. v \in live
      BY <1>3, <2>2, <3>1 DEF live_versions
    <3>3. Cardinality({u \in live : u > v}) < MaxCandidates - 1
      <4> DEFINE S == {u \in live : u > v}
      <4>1. \A u \in S : u \in Nat /\ v < u /\ u # p /\ u <= p + 1
        BY <1>6 DEF VersionNos
      <4>2. v \in Nat /\ v <= p + 1 /\ MaxCandidates \in Nat
        BY <1>3, <1>4, TargetAssumption DEF VersionNos
      <4> HIDE DEF S, live, p, t
      <4>3. CASE v = p + 1
        <5>1. S = {}
          BY <1>4, <4>1, <4>3
        <5>2. Cardinality(S) = 0
          BY <5>1, FS_EmptySet
        <5> QED
          BY <4>2, <5>2 DEF S
      <4>4. CASE v < p
        BY <1>4, <1>5, <4>1, <4>2, <4>4, FewNewer, Zenon DEF S
      <4> QED
        BY <1>4, <2>2, <4>2, <4>3, <4>4
    <3> QED
      BY <3>2, <3>3 DEF Candidates
  <2> QED
    BY <2>1, <2>2
<1> DEFINE stored == {u \in Candidates(p, t) : db.versions[Secret][u] # NONE}
           logins == {[version |-> u, password |-> db.versions[Secret][u].id] : u \in stored}
           l == [version |-> v, password |-> row.id]
<1>8. ops'[r].logins = logins
  <2> DEFINE f == IF logins = {} THEN "retry" ELSE "login"
  <2>1. ops' = [ops EXCEPT ![r].logins = logins, ![r].pc = f]
    BY <1>2, Zenon DEF self_login_candidates
  <2> HIDE DEF logins, f
  <2> QED
    BY <1>1, <2>1 DEF Operations
<1>9. l \in logins
  BY <1>3, <1>7, Zenon
<1>10. l.password = held
  BY <1>3
<1> HIDE DEF l, logins
<1> QED
  BY <1>8, <1>9, <1>10

(* As long as no rotation was disturbed, the logins a rotation tries always *)
(* include the password Postgres holds, provided that password's version is *)
(* in its grace period and fewer than MAX_LOGIN_CANDIDATES rotations have   *)
(* been committed since, for a list of at least two (service.rs,            *)
(* self_login_candidates).                                                  *)
THEOREM HeldPasswordIsTriedInGrace ==
    ASSUME MaxCandidates > 1
    PROVE  Spec /\ []HeldInGrace => HeldPasswordIsTried
<1>1. Init => HeldInv
  <2> SUFFICES ASSUME Init PROVE HeldInv
    OBVIOUS
  <2>1. RetryInv
    BY RetryStart
  <2> DEFINE s == [kind |-> "automatic", format |-> "userpass", interval |-> Interval,
                   grace |-> Grace, current |-> 1, next |-> Interval]
  <2>2. db = [EmptyDb EXCEPT !.secrets[Secret] = s, !.versions[Secret][1] = Row(1)]
    BY DEF Init
  <2>3. 1 \in VersionNos /\ Secret \in Names /\ s.current = 1
    BY TargetAssumption, VersionAssumption DEF VersionNos
  <2> HIDE DEF s
  <2>4. /\ db.secrets[Secret] = s /\ db.versions[Secret][1] = Row(1)
        /\ \A v \in VersionNos : v # 1 => db.versions[Secret][v] = NONE
    BY <2>2, <2>3, Zenon DEF EmptyDb
  <2>5. NoNewer(db)
    BY <2>3, <2>4 DEF NoNewer, VersionNos
  <2>6. Row(1).id = 1 /\ Row(1) # NONE
    <3>1. Row(1) \in VersionRow
      BY DEF Row, VersionRow, OptNat
    <3> QED
      BY <3>1, NoneAssumption, Zenon DEF Row
  <2>7. Holds(db, held)
    BY <2>3, <2>4, <2>6 DEF Init, Holds
  <2> QED
    BY <2>1, <2>5, <2>7 DEF HeldInv
<1>2. HeldInv /\ HeldInGrace /\ [Next]_vars => HeldInv'
  BY HeldStep
<1>3. HeldInv /\ HeldInGrace /\ [Next]_vars =>
         [\A r \in Rotators :
            ~past.disturbed /\
            ops[r].pc = "candidates" /\ ops'[r].pc \in {"login", "retry"} =>
                \E l \in ops'[r].logins : l.password = held]_vars
  BY HeldIsListed
<1> QED
  BY <1>1, <1>2, <1>3, PTL DEF Spec, HeldPasswordIsTried
=============================================================================
