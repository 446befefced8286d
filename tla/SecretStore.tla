---------------------------- MODULE SecretStore ----------------------------
(***************************************************************************)
(* The two secret tables of the embedded store and the commands that       *)
(* change them: the part of apply_command (store/apply.rs) that every node *)
(* of a cluster runs on every committed entry, and the reads of            *)
(* store/engine.rs the service builds its decisions on.                    *)
(*                                                                         *)
(* A database is a record of two total functions; a missing row is NONE.   *)
(* A command is a record whose "op" names the Rust variant.  Applying one  *)
(* returns the new database and the result the caller sees; every refusal  *)
(* returns the database it was given.                                      *)
(*                                                                         *)
(* Abstracted: descriptions, created_at / updated_at, the ciphertext and   *)
(* its key (module Rewrap), and secret names, which are model values, so   *)
(* the name check of check_secret_name always passes.  What a version row  *)
(* contains is its identity "id", which stands for the credential it       *)
(* stores, and "base", the identity of the row its contents were derived   *)
(* from (the username or password carried over).  "clean" is history: no   *)
(* delete or restore came between that read and the commit.                *)
(***************************************************************************)
EXTENDS Integers

CONSTANTS Names,        \* secret names
          MaxVersion,   \* i32::MAX, where next_version gives up
          NONE          \* Option::None, and a missing row

VersionNos == 1..MaxVersion
Kinds == {"manual", "automatic"}
Formats == {"opaque", "userpass"}
OptNat == Nat \cup {NONE}

SecretRow == [kind : Kinds, format : Formats, interval : OptNat, grace : Nat,
              current : VersionNos, next : OptNat]
VersionRow == [id : Nat, base : Nat, clean : BOOLEAN, expires : OptNat]

ASSUME VersionAssumption == MaxVersion \in Nat /\ MaxVersion >= 1
ASSUME NoneAssumption == /\ NONE \notin Nat
                         /\ NONE \notin SecretRow
                         /\ NONE \notin VersionRow

Databases == [secrets : [Names -> SecretRow \cup {NONE}],
              versions : [Names -> [VersionNos -> VersionRow \cup {NONE}]]]

EmptyDb == [secrets |-> [n \in Names |-> NONE],
            versions |-> [n \in Names |-> [v \in VersionNos |-> NONE]]]

(* NextRotation::Keep and NextRotation::Set *)
Keep == [set |-> FALSE, to |-> NONE]
SetTo(t) == [set |-> TRUE, to |-> t]
NextRotation == [set : BOOLEAN, to : OptNat]

Ok(db) == [db |-> db, result |-> "ok"]
Refused(db, why) == [db |-> db, result |-> why]

---------------------------------------------------------------------------
(* Commands *)

OrElse(option, default) == IF option = NONE THEN default ELSE option

apply_meta(row, c) ==
    [row EXCEPT !.interval = OrElse(c.set_interval, @),
                !.grace = OrElse(c.set_grace, @),
                !.next = IF c.next.set THEN c.next.to ELSE @]

(* Without the existence check a second create replaces the secret row and  *)
(* its first version.                                                       *)
CreateSecretUnchecked(db, c) ==
    Ok([db EXCEPT !.secrets[c.name] = c.secret,
                  !.versions[c.name][c.version] = c.row])

CreateSecret(db, c) ==
    IF db.secrets[c.name] # NONE
    THEN Refused(db, "conflict")
    ELSE Ok([db EXCEPT !.secrets[c.name] = c.secret,
                       !.versions[c.name][c.version] = c.row])

(* The row of expected_current gets its expiry unless it already has one.   *)
Superseded(row, expiry) ==
    IF row # NONE /\ row.expires = NONE
    THEN [row EXCEPT !.expires = expiry]
    ELSE row

PutAccepted(db, c) ==
    LET inserted == [db.versions[c.name] EXCEPT ![c.version] = c.row]
        closed == [inserted EXCEPT ![c.expected] = Superseded(@, c.supersede)]
    IN  Ok([secrets |-> [db.secrets EXCEPT
                            ![c.name] = apply_meta([@ EXCEPT !.current = c.version], c)],
            versions |-> [db.versions EXCEPT ![c.name] = closed]])

(* A put that does not compare the current version it was built from.       *)
PutVersionNoCompare(db, c) ==
    IF db.secrets[c.name] = NONE
    THEN Refused(db, "not_found")
    ELSE PutAccepted(db, c)

(* A put that leaves the superseded version valid for ever.                 *)
PutVersionNoSupersede(db, c) ==
    IF db.secrets[c.name] = NONE
    THEN Refused(db, "not_found")
    ELSE IF db.secrets[c.name].current # c.expected
    THEN Refused(db, "version_conflict")
    ELSE Ok([PutAccepted(db, c).db EXCEPT
                !.versions[c.name][c.expected] = db.versions[c.name][c.expected]])

(* A put that compares the version being written.                           *)
PutVersionComparesNew(db, c) ==
    IF db.secrets[c.name] = NONE
    THEN Refused(db, "not_found")
    ELSE IF db.secrets[c.name].current # c.version
    THEN Refused(db, "version_conflict")
    ELSE PutAccepted(db, c)

PutVersion(db, c) ==
    IF db.secrets[c.name] = NONE
    THEN Refused(db, "not_found")
    ELSE IF db.secrets[c.name].current # c.expected
    THEN Refused(db, "version_conflict")
    ELSE PutAccepted(db, c)

UpdateMeta(db, c) ==
    IF db.secrets[c.name] = NONE
    THEN Refused(db, "not_found")
    ELSE IF db.secrets[c.name].current # c.expected
    THEN Refused(db, "version_conflict")
    ELSE Ok([db EXCEPT !.secrets[c.name] = apply_meta(@, c)])

(* A delete that leaves the version rows behind.                            *)
DeleteSecretOnly(db, c) ==
    IF db.secrets[c.name] = NONE
    THEN Refused(db, "not_found")
    ELSE Ok([db EXCEPT !.secrets[c.name] = NONE])

DeleteSecret(db, c) ==
    IF db.secrets[c.name] = NONE
    THEN Refused(db, "not_found")
    ELSE Ok([db EXCEPT !.secrets[c.name] = NONE,
                       !.versions[c.name] = [v \in VersionNos |-> NONE]])

Expired(row, now) == row # NONE /\ row.expires # NONE /\ row.expires <= now

(* An expiry sweep that takes a missing expiry for one that has passed.     *)
ExpireEveryUnset(db, c) ==
    Ok([db EXCEPT !.versions = [n \in Names |-> [v \in VersionNos |->
            IF db.versions[n][v] # NONE /\ db.versions[n][v].expires = NONE
            THEN NONE ELSE db.versions[n][v]]]])

ExpireGraceVersions(db, c) ==
    Ok([db EXCEPT !.versions = [n \in Names |-> [v \in VersionNos |->
            IF Expired(db.versions[n][v], c.now)
            THEN NONE ELSE db.versions[n][v]]]])

(* A backup taken by dump_database holds every row of both tables, so a     *)
(* restore puts both tables back as they were.                              *)
RestoreDatabase(db, c) == Ok(c.data)

apply_command(db, c) ==
    CASE c.op = "CreateSecret" -> CreateSecret(db, c)
      [] c.op = "PutVersion" -> PutVersion(db, c)
      [] c.op = "UpdateMeta" -> UpdateMeta(db, c)
      [] c.op = "DeleteSecret" -> DeleteSecret(db, c)
      [] c.op = "ExpireGraceVersions" -> ExpireGraceVersions(db, c)
      [] c.op = "RestoreDatabase" -> RestoreDatabase(db, c)

---------------------------------------------------------------------------
(* Reads *)

current_version(db, n) ==
    IF db.secrets[n] = NONE THEN NONE
    ELSE db.versions[n][db.secrets[n].current]

live_versions(db, n, now) ==
    {v \in VersionNos : /\ db.versions[n][v] # NONE
                        /\ \/ db.versions[n][v].expires = NONE
                           \/ now < db.versions[n][v].expires}

due_rotations(db, now) ==
    {n \in Names : /\ db.secrets[n] # NONE
                   /\ db.secrets[n].next # NONE
                   /\ db.secrets[n].next <= now}

(* An addition that is not checked against i32::MAX.                        *)
next_version_unchecked(v) == v + 1

next_version(v) == IF v < MaxVersion THEN v + 1 ELSE NONE
=============================================================================
