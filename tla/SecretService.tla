--------------------------- MODULE SecretService ---------------------------
(***************************************************************************)
(* The secret operations of the service (service.rs) and of the rotation   *)
(* worker, running concurrently on one logical store.                      *)
(*                                                                         *)
(* A request that changes an existing secret does so in two or three       *)
(* separate store calls: it reads the secret row and the clock, reads the  *)
(* current version row of a userpass secret, and submits a command built   *)
(* from what it read.  Anything may happen between those calls.  Reads are *)
(* served by the local replica, so what a request reads may be older than  *)
(* the state at that moment; reading early and committing late gives the   *)
(* same histories.  Creating, deleting, expiring and restoring submit a    *)
(* command that depends on no read, and are single steps.                  *)
(***************************************************************************)
EXTENDS SecretStore

CONSTANTS Clients,     \* concurrent update / rotate calls of administrators
          Workers,     \* rotation workers (one on each node that leads)
          Intervals,   \* rotation_interval_secs a client may send
          Graces,      \* grace_period_secs a client may send
          MaxTime,     \* bound on the clock
          MaxWrites,   \* bound on committed versions
          MaxEpoch,    \* bound on deletes and restores of one secret
          BackupTimes  \* bound: when the administrator may take a backup

ASSUME InputAssumption == /\ Intervals \subseteq Nat \ {0}
                          /\ Graces \subseteq Nat
                          /\ MaxTime \in Nat
                          /\ MaxWrites \in Nat
                          /\ MaxEpoch \in Nat
                          /\ BackupTimes \subseteq Nat

Requests == Clients \cup Workers

VARIABLES db,       \* the replicated tables
          now,      \* now_unix()
          ops,      \* what each request has read so far and will submit
          due,      \* what is left of the list each worker is going through
          backup,   \* the backup an administrator holds, or NONE
          epoch,    \* history: deletes and restores each secret went through
          writes    \* history: versions committed, the source of row ids

vars == <<db, now, ops, due, backup, epoch, writes>>

NoCmd == [op |-> "None"]
Idle == [pc |-> "idle", cmd |-> NoCmd, epoch |-> 0]

NewRow(base) == [id |-> 0, base |-> base, clean |-> FALSE, expires |-> NONE]

PutCmds == [op : {"PutVersion"}, name : Names, expected : VersionNos,
            version : VersionNos, row : VersionRow, supersede : Nat,
            set_interval : OptNat, set_grace : OptNat, next : NextRotation]
MetaCmds == [op : {"UpdateMeta"}, name : Names, expected : VersionNos,
             set_interval : OptNat, set_grace : OptNat, next : NextRotation]

Operations == [pc : {"idle"}, cmd : {NoCmd}, epoch : Nat]
              \cup [pc : {"load"}, cmd : PutCmds, epoch : Nat]
              \cup [pc : {"commit"}, cmd : PutCmds \cup MetaCmds, epoch : Nat]

Init == /\ db = EmptyDb
        /\ now = 0
        /\ ops = [r \in Requests |-> Idle]
        /\ due = [w \in Workers |-> {}]
        /\ backup = NONE
        /\ epoch = [n \in Names |-> 0]
        /\ writes = 0

---------------------------------------------------------------------------
(* rotation.rs of the core crate: the sums saturate at i64::MAX, far above  *)
(* any time of a run.                                                       *)
next_rotation_unix(t, interval) == t + interval
grace_expiry_unix(t, grace) == t + grace

(* A create that forgets to schedule an automatic secret.                   *)
CreateRowUnscheduled(kind, format, interval, grace) ==
    [kind |-> kind, format |-> format, interval |-> interval, grace |-> grace,
     current |-> 1, next |-> NONE]

CreateRow(kind, format, interval, grace) ==
    [kind |-> kind, format |-> format, interval |-> interval, grace |-> grace,
     current |-> 1,
     next |-> IF kind = "automatic"
              THEN next_rotation_unix(now, interval) ELSE NONE]

create_secret(n, kind, format, interval, grace) ==
    /\ writes < MaxWrites
    /\ kind = "automatic" => interval # NONE
    /\ LET c == [op |-> "CreateSecret", name |-> n, version |-> 1,
                 secret |-> CreateRow(kind, format, interval, grace),
                 row |-> [NewRow(0) EXCEPT !.id = writes + 1, !.clean = TRUE]]
           res == apply_command(db, c)
       IN  /\ db' = res.db
           /\ writes' = IF res.result = "ok" THEN writes + 1 ELSE writes
    /\ UNCHANGED <<now, ops, due, backup, epoch>>

(* The identity a change of secret n would be derived from: an opaque       *)
(* value is replaced as a whole, but on top of the version that was read.   *)
BaseId(n) == IF current_version(db, n) = NONE THEN 0
             ELSE current_version(db, n).id

Start(r, n, pc, cmd) ==
    ops' = [ops EXCEPT ![r] = [pc |-> pc, cmd |-> cmd, epoch |-> epoch[n]]]

FirstCall(row) == IF row.format = "userpass" THEN "load" ELSE "commit"

(* The command a change of the secret's value submits, from the row read.   *)
PutCommand(n, row, set_interval, set_grace, next) ==
    [op |-> "PutVersion", name |-> n, expected |-> row.current,
     version |-> next_version(row.current), row |-> NewRow(BaseId(n)),
     supersede |-> grace_expiry_unix(now, row.grace),
     set_interval |-> set_interval, set_grace |-> set_grace, next |-> next]

(* update_secret of a request that carries new secret material              *)
update_value(r, n, set_interval, set_grace) ==
    LET row == db.secrets[n]
        interval == OrElse(set_interval, OrElse(row.interval, 0))
        next == IF row.kind = "automatic"
                THEN SetTo(next_rotation_unix(now, interval)) ELSE Keep
    IN  /\ ops[r].pc = "idle"
        /\ row # NONE
        /\ next_version(row.current) # NONE
        /\ Start(r, n, FirstCall(row),
                 PutCommand(n, row, set_interval, set_grace, next))
        /\ UNCHANGED <<db, now, due, backup, epoch, writes>>

(* update_secret of a request that changes only the settings                *)
update_settings(r, n, set_interval, set_grace) ==
    LET row == db.secrets[n]
        next == IF row.kind = "automatic" /\ set_interval # NONE
                THEN SetTo(next_rotation_unix(now, set_interval)) ELSE Keep
    IN  /\ ops[r].pc = "idle"
        /\ row # NONE
        /\ Start(r, n, "commit",
                 [op |-> "UpdateMeta", name |-> n, expected |-> row.current,
                  set_interval |-> set_interval, set_grace |-> set_grace,
                  next |-> next])
        /\ UNCHANGED <<db, now, due, backup, epoch, writes>>

Rotatable(row) == /\ row # NONE
                  /\ row.kind = "automatic"
                  /\ next_version(row.current) # NONE

rotate(r, n) ==
    LET row == db.secrets[n]
        next == SetTo(next_rotation_unix(now, OrElse(row.interval, 0)))
    IN  /\ ops[r].pc = "idle"
        /\ Rotatable(row)
        /\ Start(r, n, FirstCall(row), PutCommand(n, row, NONE, NONE, next))
        /\ UNCHANGED <<db, now, backup, epoch, writes>>

(* The worker's tick, after its sweep: read which secrets are due ...       *)
list_due(w) ==
    /\ ops[w].pc = "idle"
    /\ due[w] = {}
    /\ due' = [due EXCEPT ![w] = due_rotations(db, now)]
    /\ UNCHANGED <<db, now, ops, backup, epoch, writes>>

(* ... and rotate them one after the other, each from a fresh read of its   *)
(* row: by then it may have been rotated, deleted or re-created.            *)
rotate_due(w, n) ==
    /\ n \in due[w]
    /\ due' = [due EXCEPT ![w] = @ \ {n}]
    /\ \/ rotate(w, n)
       \/ /\ ops[w].pc = "idle"
          /\ ~Rotatable(db.secrets[n])
          /\ UNCHANGED <<db, now, ops, backup, epoch, writes>>

(* load_userpass: the version row may be gone by now, and the call fails.   *)
load_userpass(r) ==
    LET c == ops[r].cmd
        row == db.versions[c.name][c.expected]
    IN  /\ ops[r].pc = "load"
        /\ ops' = [ops EXCEPT ![r] =
                     IF row = NONE THEN Idle
                     ELSE [pc |-> "commit", epoch |-> ops[r].epoch,
                           cmd |-> [c EXCEPT !.row.base = row.id]]]
        /\ UNCHANGED <<db, now, due, backup, epoch, writes>>

Stamped(r) ==
    IF ops[r].cmd.op = "PutVersion"
    THEN [ops[r].cmd EXCEPT !.row.id = writes + 1,
                            !.row.clean = (ops[r].epoch = epoch[ops[r].cmd.name])]
    ELSE ops[r].cmd

(* store.apply(command), whether or not its answer reaches the caller       *)
commit(r) ==
    /\ ops[r].pc = "commit"
    /\ writes < MaxWrites
    /\ LET res == apply_command(db, Stamped(r))
       IN  /\ db' = res.db
           /\ writes' = IF res.result = "ok" /\ ops[r].cmd.op = "PutVersion"
                        THEN writes + 1 ELSE writes
    /\ ops' = [ops EXCEPT ![r] = Idle]
    /\ UNCHANGED <<now, due, backup, epoch>>

(* A failed KMS call, a dropped connection or a crash ends the request; the *)
(* worker goes on with its list unless its node stopped.                    *)
abandon(r) ==
    /\ ops[r].pc # "idle"
    /\ ops' = [ops EXCEPT ![r] = Idle]
    /\ \/ UNCHANGED due
       \/ r \in Workers /\ due' = [due EXCEPT ![r] = {}]
    /\ UNCHANGED <<db, now, backup, epoch, writes>>

delete_secret(n) ==
    LET res == apply_command(db, [op |-> "DeleteSecret", name |-> n])
    IN  /\ epoch[n] < MaxEpoch
        /\ res.result = "ok"
        /\ db' = res.db
        /\ epoch' = [epoch EXCEPT ![n] = @ + 1]
        /\ UNCHANGED <<now, ops, due, backup, writes>>

(* The sweep every tick of a worker begins with.  It depends on nothing the *)
(* worker read but the clock, which may be behind when it commits.          *)
expire(t) ==
    /\ db' = apply_command(db, [op |-> "ExpireGraceVersions", now |-> t]).db
    /\ UNCHANGED <<now, ops, due, backup, epoch, writes>>

take_backup ==
    /\ now \in BackupTimes
    /\ backup' = db
    /\ UNCHANGED <<db, now, ops, due, epoch, writes>>

restore ==
    /\ backup # NONE
    /\ \A n \in Names : epoch[n] < MaxEpoch
    /\ db' = apply_command(db, [op |-> "RestoreDatabase", data |-> backup]).db
    /\ epoch' = [n \in Names |-> epoch[n] + 1]
    /\ UNCHANGED <<now, ops, due, backup, writes>>

tick ==
    /\ now < MaxTime
    /\ now' = now + 1
    /\ UNCHANGED <<db, ops, due, backup, epoch, writes>>

OptIntervals == Intervals \cup {NONE}
OptGraces == Graces \cup {NONE}

Next ==
    \/ \E n \in Names, k \in Kinds, f \in Formats, i \in OptIntervals, g \in Graces :
          create_secret(n, k, f, i, g)
    \/ \E r \in Clients, n \in Names, i \in OptIntervals, g \in OptGraces :
          update_value(r, n, i, g)
    \/ \E r \in Clients, n \in Names, i \in OptIntervals, g \in OptGraces :
          update_settings(r, n, i, g)
    \/ \E r \in Clients, n \in Names : rotate(r, n) /\ UNCHANGED due
    \/ \E w \in Workers : list_due(w)
    \/ \E w \in Workers, n \in Names : rotate_due(w, n)
    \/ \E r \in Requests : load_userpass(r)
    \/ \E r \in Requests : commit(r)
    \/ \E r \in Requests : abandon(r)
    \/ \E n \in Names : delete_secret(n)
    \/ \E t \in 0..now : expire(t)
    \/ take_backup
    \/ restore
    \/ tick

Spec == Init /\ [][Next]_vars

(* The worker's interval timer keeps ticking, so a due secret is picked up; *)
(* a KMS or store call it makes may fail any number of times, but not for   *)
(* ever (strong fairness of the read and of the commit).                    *)
Fairness == /\ WF_vars(tick)
            /\ \A w \in Workers : /\ WF_vars(list_due(w))
                                  /\ WF_vars(\E n \in Names : rotate_due(w, n))
                                  /\ SF_vars(load_userpass(w))
                                  /\ SF_vars(commit(w))

FairSpec == Spec /\ Fairness

---------------------------------------------------------------------------
(* Properties *)

(* Every table row, pending command and backup has the shape model.rs and   *)
(* next_version's checked addition give it: no version number leaves i32.   *)
TypeOK == /\ db \in Databases
          /\ now \in Nat
          /\ ops \in [Requests -> Operations]
          /\ due \in [Workers -> SUBSET Names]
          /\ backup \in Databases \cup {NONE}
          /\ epoch \in [Names -> Nat]
          /\ writes \in Nat

(* The secret row and the version row it points to are written by different *)
(* calls and the sweep deletes version rows by date alone; still the row of *)
(* current_version exists and never expires, so a stored secret is readable *)
(* (engine.rs current_version, service.rs get_secret).                      *)
CurrentIsReadable(d) ==
    \A n \in Names : d.secrets[n] # NONE =>
        /\ current_version(d, n) # NONE
        /\ current_version(d, n).expires = NONE

CurrentAlwaysReadable == CurrentIsReadable(db)

(* However updates and rotations interleave, every version but the current  *)
(* one is older than it and has an expiry: a superseded credential cannot   *)
(* stay valid for ever (apply.rs PutVersion, ARCHITECTURE "expires_at").    *)
OnlyCurrentIsOpen(d) ==
    \A n \in Names, v \in VersionNos :
        d.secrets[n] # NONE /\ d.versions[n][v] # NONE /\ v # d.secrets[n].current
        => v < d.secrets[n].current /\ d.versions[n][v].expires # NONE

OnlyCurrentNeverExpires == OnlyCurrentIsOpen(db)

(* No version row outlives its secret, whatever command was pending when    *)
(* the secret was deleted or a backup restored (apply.rs DeleteSecret).     *)
NoOrphans(d) ==
    \A n \in Names : d.secrets[n] = NONE =>
        \A v \in VersionNos : d.versions[n][v] = NONE

NoOrphanVersions == NoOrphans(db)

(* An automatic secret always has a next rotation, so due_rotations finds   *)
(* it again: no mix of updates, rotations, re-creation under another kind   *)
(* or restores drops it from the worker's schedule.                         *)
Scheduled(d) ==
    \A n \in Names : d.secrets[n] # NONE /\ d.secrets[n].kind = "automatic"
        => d.secrets[n].next # NONE

AutomaticStaysScheduled == Scheduled(db)

(* expected_current prevents lost updates: a version whose request saw no   *)
(* delete or restore was derived from the very version it superseded, so a  *)
(* username or password carried over is never an outdated one.              *)
Derived(d) ==
    \A n \in Names, v \in VersionNos :
        /\ v + 1 \in VersionNos
        /\ d.versions[n][v] # NONE
        /\ d.versions[n][v + 1] # NONE
        /\ d.versions[n][v + 1].clean
        => d.versions[n][v + 1].base = d.versions[n][v].id

NoLostUpdate == Derived(db)

(* A pending command still fits the database it will meet: it proposes the  *)
(* next version number, and, as long as no delete or restore came between,  *)
(* its secret exists, has not gone back below the version that was read     *)
(* and, at that version, still has the row the command was derived from.    *)
PendingFits(r) ==
    LET c == ops[r].cmd
        s == db.secrets[c.name]
    IN  ops[r].pc # "idle" =>
        /\ c.next.set => c.next.to # NONE
        /\ c.op = "PutVersion" => c.version = c.expected + 1 /\ c.row.expires = NONE
        /\ ops[r].epoch <= epoch[c.name]
        /\ ops[r].epoch = epoch[c.name] =>
              /\ s # NONE
              /\ c.expected <= s.current
              /\ ops[r].pc = "commit" /\ c.op = "PutVersion" /\ c.expected = s.current
                   => c.row.base = db.versions[c.name][c.expected].id

(* All that the tables of a healthy vault satisfy at once.                  *)
Good(d) == /\ CurrentIsReadable(d)
           /\ OnlyCurrentIsOpen(d)
           /\ NoOrphans(d)
           /\ Scheduled(d)
           /\ Derived(d)

(* The inductive invariant the properties above rest on; a backup satisfies *)
(* what the tables do, which is why a restore is safe at any moment.        *)
IInv == /\ TypeOK
        /\ Good(db)
        /\ backup # NONE => Good(backup)
        /\ \A r \in Requests : PendingFits(r)

(* A version, once committed, is final while its secret lives: no step      *)
(* replaces its contents or moves an expiry that is set, and it is removed  *)
(* only after that expiry.                                                  *)
RowFinal(n, v) ==
    LET old == db.versions[n][v]
        new == db'.versions[n][v]
    IN  old # NONE /\ epoch'[n] = epoch[n] =>
            \/ /\ new # NONE
               /\ new.id = old.id
               /\ old.expires # NONE => new.expires = old.expires
            \/ new = NONE /\ old.expires # NONE /\ old.expires <= now

VersionsAreFinal == [][\A n \in Names, v \in VersionNos : RowFinal(n, v)]_vars

(* A due automatic secret is eventually rotated or rescheduled, whatever    *)
(* clients commit in between and however often the worker's own commit      *)
(* loses on expected_current; only the last version number ends rotation.   *)
DueIsRotated ==
    \A n \in Names :
        n \in due_rotations(db, now) /\ db.secrets[n].kind = "automatic"
        ~> \/ n \notin due_rotations(db, now)
           \/ db.secrets[n].kind = "manual"
           \/ db.secrets[n].current = MaxVersion
=============================================================================
