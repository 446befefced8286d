------------------------------- MODULE Rewrap -------------------------------
(***************************************************************************)
(* Re-wrapping data keys after a rotation of the KMS key: rewrap.rs,       *)
(* rewrap_worker.rs, the commands RewrapVersion and SetKmsRewrapState, and *)
(* seal_version, which stamps new versions with the watermark.             *)
(*                                                                         *)
(* A version row holds a data key wrapped by some generation of the KMS    *)
(* key's material, and a stamp (wrapped_rotation_at) saying up to which    *)
(* rotation it was re-wrapped.  A pass goes through the secrets, then the  *)
(* versions of each, asks KMS to re-encrypt the keys whose stamp is below  *)
(* its target and writes the results back one by one; versions are sealed, *)
(* deleted and expired meanwhile.  Each node runs a worker (any node may   *)
(* have become leader) and may serve a forced pass.                        *)
(*                                                                         *)
(* KMS is external: generation g stands for the rotation date of its       *)
(* material, 0 for a key never rotated.  A row's "dek" is the data key its *)
(* wrapped_dek unwraps to; "sealed" is the one its ciphertext needs.  A    *)
(* secret's current version is its highest.  Dates are left out: an        *)
(* expired version is one the sweep removes.                               *)
(***************************************************************************)
EXTENDS Integers, FiniteSets, FiniteSetsExt

CONSTANTS Names, Nodes, Sealers, NONE,
          Kinds,        \* {"worker"} or {"worker", "force"}
          MaxVersion,   \* bound on versions of a secret
          MaxRotations, \* bound on rotations of the KMS key
          MaxSeals,     \* bound on data keys generated
          MaxDeletes,   \* bound on deleted secrets
          MaxFaults     \* bound on failed calls and stopped passes

ASSUME RewrapAssumption ==
    /\ Kinds \subseteq {"worker", "force"}
    /\ {MaxVersion, MaxRotations, MaxSeals, MaxDeletes, MaxFaults} \subseteq Nat
    /\ NONE \notin Nat

VersionNos == 1..MaxVersion
Generations == 0..MaxRotations
OptGeneration == Generations \cup {NONE}
Actors == Nodes \X Kinds

VARIABLES kms,        \* generation of the key material KMS wraps with
          rows,       \* secret_versions
          watermark,  \* last_completed_rotation_at, NONE before the first tick
          busy,       \* rewrap_busy of each node
          passes,     \* what each worker or forced pass is doing
          seals,      \* versions being sealed
          keys,       \* history: data keys generated
          budget      \* history: how much of the other bounds is used

vars == <<kms, rows, watermark, busy, passes, seals, keys, budget>>

Row == [dek : Nat, sealed : Nat, material : Generations, stamp : OptGeneration]

ASSUME NoneIsNoRow == NONE \notin Row

NoPass == [pc |-> "idle", target |-> NONE, secrets |-> {}, name |-> NONE,
           todo |-> {}, wrapped |-> 0, failed |-> FALSE, seen |-> {}]
NoSeal == [pc |-> "idle", name |-> NONE, version |-> 0, row |-> NONE]

(* A row written before wrapped_rotation_at existed has no stamp.           *)
Legacy(k) == [dek |-> k, sealed |-> k, material |-> 0, stamp |-> NONE]

Init == /\ kms = 0
        /\ \E old \in SUBSET Names :
              /\ Cardinality(old) <= 1
              /\ rows = [n \in Names |-> [v \in VersionNos |->
                            IF n \in old /\ v = 1 THEN Legacy(1) ELSE NONE]]
        /\ watermark = NONE
        /\ busy = [p \in Nodes |-> FALSE]
        /\ passes = [a \in Actors |-> NoPass]
        /\ seals = [r \in Sealers |-> NoSeal]
        /\ keys = 1
        /\ budget = [deletes |-> 0, faults |-> 0]

---------------------------------------------------------------------------
(* KMS *)

latest_rotation_at == IF kms = 0 THEN NONE ELSE kms

rotate_cmk ==
    /\ kms < MaxRotations
    /\ kms' = kms + 1
    /\ UNCHANGED <<rows, watermark, busy, passes, seals, keys, budget>>

---------------------------------------------------------------------------
(* Versions come and go *)

Stored(n) == {v \in VersionNos : rows[n][v] # NONE}
Current(n) == IF Stored(n) = {} THEN 0 ELSE Max(Stored(n))

(* A create or a new value: seal_version asks KMS for a data key ...        *)
generate_data_key(r, n) ==
    /\ seals[r].pc = "idle"
    /\ Current(n) < MaxVersion
    /\ keys < MaxSeals
    /\ keys' = keys + 1
    /\ seals' = [seals EXCEPT ![r] =
                   [pc |-> "stamp", name |-> n, version |-> Current(n) + 1,
                    row |-> [dek |-> keys + 1, sealed |-> keys + 1,
                             material |-> kms, stamp |-> NONE]]]
    /\ UNCHANGED <<kms, rows, watermark, busy, passes, budget>>

(* ... and then reads the watermark for the stamp.                          *)
seal_version(r) ==
    /\ seals[r].pc = "stamp"
    /\ seals' = [seals EXCEPT ![r].row.stamp = IF watermark = NONE THEN 0 ELSE watermark,
                              ![r].pc = "commit"]
    /\ UNCHANGED <<kms, rows, watermark, busy, passes, keys, budget>>

(* CreateSecret or PutVersion, refused if the secret has moved on.          *)
put_version(r) ==
    LET s == seals[r]
    IN  /\ s.pc = "commit"
        /\ rows' = IF Current(s.name) = s.version - 1
                   THEN [rows EXCEPT ![s.name][s.version] = s.row] ELSE rows
        /\ seals' = [seals EXCEPT ![r] = NoSeal]
        /\ UNCHANGED <<kms, watermark, busy, passes, keys, budget>>

delete_secret(n) ==
    /\ Stored(n) # {}
    /\ budget.deletes < MaxDeletes
    /\ budget' = [budget EXCEPT !.deletes = @ + 1]
    /\ rows' = [rows EXCEPT ![n] = [v \in VersionNos |-> NONE]]
    /\ UNCHANGED <<kms, watermark, busy, passes, seals, keys>>

(* The sweep takes superseded versions only.                                *)
expire(n, v) ==
    /\ v \in Stored(n) \ {Current(n)}
    /\ rows' = [rows EXCEPT ![n][v] = NONE]
    /\ UNCHANGED <<kms, watermark, busy, passes, seals, keys, budget>>

---------------------------------------------------------------------------
(* A pass *)

Become(a, pass) == passes' = [passes EXCEPT ![a] = pass]

(* rewrap_worker tick: the latest rotation, before the watermark is read.   *)
tick(a) ==
    /\ a[2] = "worker"
    /\ passes[a].pc = "idle"
    /\ Become(a, [NoPass EXCEPT !.pc = "decide", !.target = latest_rotation_at])
    /\ UNCHANGED <<kms, rows, watermark, busy, seals, keys, budget>>

(* No watermark: adopt the latest rotation without a sweep.  Otherwise a    *)
(* pass runs only for a rotation beyond the watermark.                      *)
decide(a) ==
    LET latest == passes[a].target
        to == IF latest = NONE THEN 0 ELSE latest
    IN  /\ passes[a].pc = "decide"
        /\ Become(a, IF watermark = NONE
                     THEN [NoPass EXCEPT !.pc = "persist", !.target = to]
                     ELSE IF to > watermark
                     THEN [NoPass EXCEPT !.pc = "start", !.target = to]
                     ELSE NoPass)
        /\ UNCHANGED <<kms, rows, watermark, busy, seals, keys, budget>>

force(a) ==
    /\ a[2] = "force"
    /\ passes[a].pc = "idle"
    /\ Become(a, [NoPass EXCEPT !.pc = "start",
                     !.target = IF latest_rotation_at = NONE THEN 0 ELSE latest_rotation_at])
    /\ UNCHANGED <<kms, rows, watermark, busy, seals, keys, budget>>

(* History: the keys of all rows stored now.                                *)
SealedKeys == UNION {{rows[n][v].sealed : v \in Stored(n)} : n \in Names}

(* run_pass: take the busy flag or give up, then list the secrets.          *)
run_pass(a) ==
    /\ passes[a].pc = "start"
    /\ IF busy[a[1]]
       THEN Become(a, NoPass) /\ UNCHANGED busy
       ELSE /\ busy' = [busy EXCEPT ![a[1]] = TRUE]
            /\ Become(a, [passes[a] EXCEPT !.pc = "scan",
                             !.secrets = {n \in Names : Stored(n) # {}},
                             !.seen = SealedKeys])
    /\ UNCHANGED <<kms, rows, watermark, seals, keys, budget>>

needs_rewrap(row, target) == row.stamp = NONE \/ row.stamp < target

(* The versions of the next secret that need it, as they are now.           *)
live_versions(a, n) ==
    /\ passes[a].pc = "scan"
    /\ n \in passes[a].secrets
    /\ Become(a, [passes[a] EXCEPT !.pc = "rewrap", !.name = n, !.secrets = @ \ {n},
                     !.todo = {[version |-> v, dek |-> rows[n][v].dek] :
                         v \in {u \in Stored(n) : needs_rewrap(rows[n][u], passes[a].target)}}])
    /\ UNCHANGED <<kms, rows, watermark, busy, seals, keys, budget>>

(* Newest version first.                                                    *)
First(todo) == CHOOSE t \in todo : \A u \in todo : u.version <= t.version

reencrypt_data_key(a) ==
    /\ passes[a].pc = "rewrap"
    /\ passes[a].todo # {}
    /\ Become(a, [passes[a] EXCEPT !.pc = "write", !.wrapped = kms])
    /\ UNCHANGED <<kms, rows, watermark, busy, seals, keys, budget>>

(* A RewrapVersion that trusts whatever arrives last.                       *)
RewrapVersionUnguarded(n, v, dek, material, stamp) ==
    IF rows[n][v] = NONE THEN rows
    ELSE [rows EXCEPT ![n][v] = [@ EXCEPT !.dek = dek, !.material = material,
                                          !.stamp = stamp]]

(* A RewrapVersion that writes to the current version of the secret.        *)
RewrapVersionCurrent(n, v, dek, material, stamp) ==
    IF rows[n][v] = NONE THEN rows
    ELSE [rows EXCEPT ![n][Current(n)] = [@ EXCEPT !.dek = dek, !.material = material,
                                                   !.stamp = stamp]]

RewrapVersion(n, v, dek, material, stamp) ==
    IF rows[n][v] = NONE \/ ~needs_rewrap(rows[n][v], stamp) THEN rows
    ELSE [rows EXCEPT ![n][v] = [@ EXCEPT !.dek = dek, !.material = material,
                                          !.stamp = stamp]]

rewrap_one(a) ==
    LET p == passes[a]
        t == First(p.todo)
    IN  /\ p.pc = "write"
        /\ rows' = RewrapVersion(p.name, t.version, t.dek, p.wrapped, p.target)
        /\ Become(a, [p EXCEPT !.pc = "rewrap", !.todo = @ \ {t}])
        /\ UNCHANGED <<kms, watermark, busy, seals, keys, budget>>

(* A failed call that is not counted.                                       *)
rewrap_uncounted(a) ==
    /\ passes[a].pc \in {"rewrap", "write"}
    /\ passes[a].todo # {}
    /\ budget.faults < MaxFaults
    /\ budget' = [budget EXCEPT !.faults = @ + 1]
    /\ Become(a, [passes[a] EXCEPT !.pc = "rewrap", !.todo = @ \ {First(@)}])
    /\ UNCHANGED <<kms, rows, watermark, busy, seals, keys>>

(* The call to KMS or to the store fails: count it, go on with the next.    *)
rewrap_failed(a) ==
    /\ passes[a].pc \in {"rewrap", "write"}
    /\ passes[a].todo # {}
    /\ budget.faults < MaxFaults
    /\ budget' = [budget EXCEPT !.faults = @ + 1]
    /\ Become(a, [passes[a] EXCEPT !.pc = "rewrap", !.todo = @ \ {First(@)},
                                   !.failed = TRUE])
    /\ UNCHANGED <<kms, rows, watermark, busy, seals, keys>>

next_secret(a) ==
    /\ passes[a].pc = "rewrap"
    /\ passes[a].todo = {}
    /\ Become(a, [passes[a] EXCEPT !.pc = "scan"])
    /\ UNCHANGED <<kms, rows, watermark, busy, seals, keys, budget>>

(* The pass returns and the guard drops the flag; the caller persists the   *)
(* target unless something failed (or, when forced, KMS never rotated).     *)
pass_done(a) ==
    LET p == passes[a]
    IN  /\ p.pc = "scan"
        /\ p.secrets = {}
        /\ busy' = [busy EXCEPT ![a[1]] = FALSE]
        /\ Become(a, IF ~p.failed /\ (a[2] = "force" => p.target > 0)
                     THEN [p EXCEPT !.pc = "persist"] ELSE NoPass)
        /\ UNCHANGED <<kms, rows, watermark, seals, keys, budget>>

persist_completed(a) ==
    /\ passes[a].pc = "persist"
    /\ watermark' = passes[a].target
    /\ Become(a, NoPass)
    /\ UNCHANGED <<kms, rows, busy, seals, keys, budget>>

Running(a) == passes[a].pc \in {"scan", "rewrap", "write"}

(* A stop that leaves the busy flag set.                                    *)
stop_leaves_busy(a) ==
    /\ passes[a].pc # "idle"
    /\ budget.faults < MaxFaults
    /\ budget' = [budget EXCEPT !.faults = @ + 1]
    /\ Become(a, NoPass)
    /\ UNCHANGED <<kms, rows, watermark, busy, seals, keys>>

(* A read or a persist fails, the forcing client goes away or the node      *)
(* restarts: the guard drops the flag.                                      *)
stop(a) ==
    /\ passes[a].pc # "idle"
    /\ budget.faults < MaxFaults
    /\ budget' = [budget EXCEPT !.faults = @ + 1]
    /\ busy' = IF Running(a) THEN [busy EXCEPT ![a[1]] = FALSE] ELSE busy
    /\ Become(a, NoPass)
    /\ UNCHANGED <<kms, rows, watermark, seals, keys>>

---------------------------------------------------------------------------
Next == \/ rotate_cmk
        \/ \E r \in Sealers, n \in Names : generate_data_key(r, n)
        \/ \E r \in Sealers : seal_version(r)
        \/ \E r \in Sealers : put_version(r)
        \/ \E n \in Names : delete_secret(n)
        \/ \E n \in Names, v \in VersionNos : expire(n, v)
        \/ \E a \in Actors : \/ tick(a) \/ decide(a) \/ force(a) \/ run_pass(a)
                             \/ reencrypt_data_key(a) \/ rewrap_one(a)
                             \/ rewrap_failed(a) \/ next_secret(a) \/ pass_done(a)
                             \/ persist_completed(a) \/ stop(a)
        \/ \E a \in Actors, n \in Names : live_versions(a, n)

Spec == Init /\ [][Next]_vars

(* The leader's timer keeps ticking, and no call hangs for ever.            *)
Fairness ==
    \A a \in Actors :
        WF_vars(\/ tick(a) \/ decide(a) \/ run_pass(a)
                \/ \E n \in Names : live_versions(a, n)
                \/ reencrypt_data_key(a) \/ rewrap_one(a) \/ next_secret(a)
                \/ pass_done(a) \/ persist_completed(a))

FairSpec == Spec /\ Fairness

---------------------------------------------------------------------------
(* Properties *)

Passes == [pc : {"idle", "decide", "start", "scan", "rewrap", "write", "persist"},
           target : OptGeneration, secrets : SUBSET Names, name : Names \cup {NONE},
           todo : SUBSET [version : VersionNos, dek : Nat], wrapped : Generations,
           failed : BOOLEAN, seen : SUBSET Nat]

(* Rows, passes and seals have their shapes; a node's busy flag is set      *)
(* exactly while one of its passes runs (BusyGuard), never two.             *)
TypeOK == /\ kms \in Generations
          /\ rows \in [Names -> [VersionNos -> Row \cup {NONE}]]
          /\ watermark \in OptGeneration
          /\ passes \in [Actors -> Passes]
          /\ \A p \in Nodes : busy[p] <=> \E a \in Actors : a[1] = p /\ Running(a)
          /\ \A a, b \in Actors : Running(a) /\ Running(b) /\ a[1] = b[1] => a = b

(* "existing versions keep decrypting after a rotation" (docs/SECURITY.md): *)
(* the wrapped key of every row unwraps to the key its ciphertext was       *)
(* sealed with, whatever passes write back late.                            *)
EveryVersionOpens ==
    \A n \in Names, v \in VersionNos :
        rows[n][v] # NONE => rows[n][v].dek = rows[n][v].sealed

(* "a pass is resumable and idempotent" (docs/SECURITY.md): two passes for  *)
(* different rotations may interleave, yet a row changes only to a later    *)
(* stamp, and to key material no older than that stamp says.  (Material     *)
(* alone may go back: a pass for rotation 1 that KMS served at 3, then one  *)
(* for 2 that KMS served at 2.)                                             *)
NeverUnwound ==
    [][\A n \in Names, v \in VersionNos :
          LET old == rows[n][v]
              new == rows'[n][v]
          IN  old # NONE /\ new # NONE /\ new.sealed = old.sealed /\ new # old =>
                 /\ new.stamp # NONE
                 /\ old.stamp # NONE => new.stamp > old.stamp
                 /\ new.material >= new.stamp]_vars

(* "watermark not advanced, will retry next tick" (rewrap_worker.rs): a     *)
(* pass that advances the watermark has dealt with every version that was   *)
(* stored when it began, whatever failed, expired or was added meanwhile.   *)
WatermarkIsEarned ==
    [][\A a \in Actors :
          passes[a].pc = "persist" /\ passes'[a].pc = "idle" /\ watermark' # watermark =>
              \A n \in Names, v \in VersionNos :
                 rows[n][v] # NONE /\ rows[n][v].sealed \in passes[a].seen =>
                     ~needs_rewrap(rows[n][v], passes[a].target)]_vars

(* Every rotation of the key is eventually followed by a completed pass,    *)
(* after any number of failures and stops.                                  *)
WatermarkCatchesUp ==
    \A g \in Generations : kms = g ~> watermark # NONE /\ watermark >= g
=============================================================================
