------------------------ MODULE SecretServiceProofs -------------------------
(***************************************************************************)
(* Theorems about SecretService, for any number of secrets, requests and   *)
(* workers and any bound: IInv holds always, and with it the properties    *)
(* the runs check.  First what each command of apply_command does to a     *)
(* good database: it leaves a good one, which extends the old one unless   *)
(* it deletes.  Then requests in flight: what a pending command looks      *)
(* like, and that it still fits after a step of someone else; then one     *)
(* lemma per action; then the theorems.                                    *)
(***************************************************************************)
EXTENDS SecretService, TLAPS

(* Commands *)

(* apply_command runs the code of the command's own variant.                *)
LEMMA ApplyDispatch ==
    ASSUME NEW d, NEW c
    PROVE  /\ c.op = "CreateSecret" => apply_command(d, c) = CreateSecret(d, c)
           /\ c.op = "PutVersion" => apply_command(d, c) = PutVersion(d, c)
           /\ c.op = "UpdateMeta" => apply_command(d, c) = UpdateMeta(d, c)
           /\ c.op = "DeleteSecret" => apply_command(d, c) = DeleteSecret(d, c)
           /\ c.op = "ExpireGraceVersions" =>
                 apply_command(d, c) = ExpireGraceVersions(d, c)
           /\ c.op = "RestoreDatabase" => apply_command(d, c) = RestoreDatabase(d, c)
BY DEF apply_command

(* A stored secret row has the shape SecretRecord gives it.                 *)
LEMMA StoredRow ==
    ASSUME NEW d \in Databases, NEW n \in Names, d.secrets[n] # NONE
    PROVE  /\ d.secrets[n] \in SecretRow
           /\ d.secrets[n].current \in VersionNos
BY DEF Databases, SecretRow

(* A version slot holds a row or nothing.                                   *)
LEMMA StoredVersion ==
    ASSUME NEW d \in Databases, NEW n \in Names, NEW v \in VersionNos
    PROVE  d.versions[n][v] # NONE => d.versions[n][v] \in VersionRow
BY DEF Databases

(* apply_meta changes settings only, and keeps the row well formed.         *)
LEMMA ApplyMetaRow ==
    ASSUME NEW row \in SecretRow, NEW c,
           c.set_interval \in OptNat, c.set_grace \in OptNat, c.next \in NextRotation
    PROVE  /\ apply_meta(row, c) \in SecretRow
           /\ apply_meta(row, c).current = row.current
           /\ apply_meta(row, c).kind = row.kind
           /\ apply_meta(row, c).next = IF c.next.set THEN c.next.to ELSE row.next
BY NoneAssumption, Zenon DEF apply_meta, SecretRow, OrElse, OptNat, NextRotation

(* From d to e no secret is lost or goes back to an earlier version.        *)
Forward(d, e) ==
    \A n \in Names : d.secrets[n] # NONE =>
        e.secrets[n] # NONE /\ d.secrets[n].current <= e.secrets[n].current

(* From d to e every version keeps its contents and its expiry until that   *)
(* has passed t.                                                            *)
RowsKept(d, e, t) ==
    \A n \in Names, v \in VersionNos : d.versions[n][v] # NONE =>
        \/ /\ e.versions[n][v] # NONE
           /\ e.versions[n][v].id = d.versions[n][v].id
           /\ d.versions[n][v].expires # NONE =>
                 e.versions[n][v].expires = d.versions[n][v].expires
        \/ /\ e.versions[n][v] = NONE
           /\ d.versions[n][v].expires # NONE
           /\ d.versions[n][v].expires <= t

Extends(d, e, t) == Forward(d, e) /\ RowsKept(d, e, t)

(* A refused command leaves a database that extends itself.                 *)
LEMMA ExtendsSelf ==
    ASSUME NEW d \in Databases, NEW t
    PROVE  Extends(d, d, t)
BY StoredRow DEF Extends, Forward, RowsKept, VersionNos

(* The empty database of a first start is good.                             *)
LEMMA EmptyGood == EmptyDb \in Databases /\ Good(EmptyDb)
BY DEF EmptyDb, Databases, Good, CurrentIsReadable, OnlyCurrentIsOpen, NoOrphans,
       Scheduled, Derived, current_version

(* The expiry sweep keeps every current version, as it has no expiry.       *)
LEMMA ExpireGood ==
    ASSUME NEW d \in Databases, Good(d), NEW c, c.now \in Nat,
           NEW t \in Nat, c.now <= t
    PROVE  /\ ExpireGraceVersions(d, c).db \in Databases
           /\ Good(ExpireGraceVersions(d, c).db)
           /\ Extends(d, ExpireGraceVersions(d, c).db, t)
<1> DEFINE e == ExpireGraceVersions(d, c).db
<1>1. /\ e.secrets = d.secrets
      /\ e.versions = [n \in Names |-> [v \in VersionNos |->
            IF Expired(d.versions[n][v], c.now) THEN NONE ELSE d.versions[n][v]]]
      /\ e \in Databases
  BY Zenon DEF ExpireGraceVersions, Ok, Databases
<1>2. \A n \in Names, v \in VersionNos :
        /\ e.versions[n][v] \in {NONE, d.versions[n][v]}
        /\ d.versions[n][v] # NONE /\ d.versions[n][v].expires = NONE
             => e.versions[n][v] = d.versions[n][v]
  BY <1>1 DEF Expired
<1> HIDE DEF e
<1>3. CurrentIsReadable(e)
  <2> SUFFICES ASSUME NEW n \in Names, e.secrets[n] # NONE
               PROVE  /\ current_version(e, n) # NONE
                      /\ current_version(e, n).expires = NONE
    BY DEF CurrentIsReadable
  <2>1. d.secrets[n].current \in VersionNos
    BY <1>1, StoredRow
  <2>2. /\ d.versions[n][d.secrets[n].current] # NONE
        /\ d.versions[n][d.secrets[n].current].expires = NONE
    BY <1>1, Zenon DEF Good, CurrentIsReadable, current_version
  <2>3. e.versions[n][d.secrets[n].current] = d.versions[n][d.secrets[n].current]
    BY <1>2, <2>1, <2>2
  <2>4. current_version(e, n) = d.versions[n][d.secrets[n].current]
    BY <1>1, <2>3, Zenon DEF current_version
  <2> QED BY <2>2, <2>4, Zenon
<1>4. OnlyCurrentIsOpen(e)
  BY <1>1, <1>2 DEF Good, OnlyCurrentIsOpen
<1>5. NoOrphans(e)
  BY <1>1, <1>2 DEF Good, NoOrphans
<1>6. Scheduled(e)
  BY <1>1 DEF Good, Scheduled
<1>7. Derived(e)
  BY <1>1, <1>2 DEF Good, Derived
<1>8. Extends(d, e, t)
  <2>1. \A n \in Names, v \in VersionNos :
          d.versions[n][v] # NONE /\ e.versions[n][v] # d.versions[n][v] =>
             /\ e.versions[n][v] = NONE
             /\ d.versions[n][v].expires # NONE
             /\ d.versions[n][v].expires <= c.now
    BY <1>1 DEF Expired
  <2>2. \A n \in Names, v \in VersionNos :
          d.versions[n][v] # NONE /\ d.versions[n][v].expires # NONE =>
             d.versions[n][v].expires \in Nat
    BY StoredVersion DEF VersionRow, OptNat
  <2>3. \A n \in Names : d.secrets[n] # NONE => d.secrets[n].current \in Nat
    BY StoredRow DEF VersionNos
  <2>4. Forward(d, e)
    BY <1>1, <2>3 DEF Forward
  <2>5. RowsKept(d, e, t)
    <3> SUFFICES ASSUME NEW n \in Names, NEW v \in VersionNos,
                        d.versions[n][v] # NONE, e.versions[n][v] # d.versions[n][v]
                 PROVE  /\ e.versions[n][v] = NONE
                        /\ d.versions[n][v].expires # NONE
                        /\ d.versions[n][v].expires <= t
      BY DEF RowsKept
    <3> QED BY <2>1, <2>2
  <2> QED BY <2>4, <2>5 DEF Extends
<1> QED BY <1>1, <1>3, <1>4, <1>5, <1>6, <1>7, <1>8 DEF e, Good

(* Deleting a secret takes its versions with it and touches no other.       *)
LEMMA DeleteGood ==
    ASSUME NEW d \in Databases, Good(d), NEW c, c.name \in Names
    PROVE  /\ DeleteSecret(d, c).db \in Databases
           /\ Good(DeleteSecret(d, c).db)
<1> DEFINE e == DeleteSecret(d, c).db
<1>1. CASE d.secrets[c.name] = NONE
  BY <1>1 DEF DeleteSecret, Refused
<1>2. CASE d.secrets[c.name] # NONE
  <2>1. /\ e.secrets = [d.secrets EXCEPT ![c.name] = NONE]
        /\ e.versions = [d.versions EXCEPT ![c.name] = [v \in VersionNos |-> NONE]]
        /\ e \in Databases
    BY <1>2, Zenon DEF DeleteSecret, Ok, Databases
  <2>2. \A n \in Names :
          /\ e.secrets[n] = IF n = c.name THEN NONE ELSE d.secrets[n]
          /\ n # c.name => e.versions[n] = d.versions[n]
          /\ \A v \in VersionNos : n = c.name => e.versions[n][v] = NONE
    BY <2>1 DEF Databases
  <2> HIDE DEF e
  <2>3. CurrentIsReadable(e)
    BY <2>2, Zenon DEF Good, CurrentIsReadable, current_version
  <2>4. OnlyCurrentIsOpen(e)
    BY <2>2 DEF Good, OnlyCurrentIsOpen
  <2>5. NoOrphans(e)
    BY <2>2 DEF Good, NoOrphans
  <2>6. Scheduled(e)
    BY <2>2 DEF Good, Scheduled
  <2>7. Derived(e)
    BY <2>2 DEF Good, Derived
  <2> QED BY <2>1, <2>3, <2>4, <2>5, <2>6, <2>7 DEF e, Good
<1> QED BY <1>1, <1>2

(* Changing settings moves neither the current version nor any row.         *)
LEMMA MetaGood ==
    ASSUME NEW d \in Databases, Good(d), NEW c \in MetaCmds,
           c.next.set => c.next.to # NONE, NEW t
    PROVE  /\ UpdateMeta(d, c).db \in Databases
           /\ Good(UpdateMeta(d, c).db)
           /\ Extends(d, UpdateMeta(d, c).db, t)
<1> DEFINE e == UpdateMeta(d, c).db
           row == d.secrets[c.name]
<1>0. c.name \in Names
  BY DEF MetaCmds
<1>1. CASE row = NONE \/ row.current # c.expected
  BY <1>1, ExtendsSelf DEF UpdateMeta, Refused
<1>2. CASE ~(row = NONE \/ row.current # c.expected)
  <2>1. /\ apply_meta(row, c) \in SecretRow
        /\ apply_meta(row, c).current = row.current
        /\ apply_meta(row, c).kind = row.kind
        /\ row.next # NONE \/ row.kind # "automatic"
             => apply_meta(row, c).next # NONE \/ row.kind # "automatic"
    BY <1>0, <1>2, StoredRow, ApplyMetaRow DEF MetaCmds
  <2>2. /\ e.secrets = [d.secrets EXCEPT ![c.name] = apply_meta(row, c)]
        /\ e.versions = d.versions
        /\ e \in Databases
    BY <1>0, <1>2, <2>1, Zenon DEF UpdateMeta, Ok, Databases
  <2>3. \A n \in Names :
          /\ e.secrets[n] = IF n = c.name THEN apply_meta(row, c) ELSE d.secrets[n]
          /\ e.secrets[n] = NONE <=> d.secrets[n] = NONE
          /\ d.secrets[n] # NONE => /\ e.secrets[n].current = d.secrets[n].current
                                    /\ e.secrets[n].kind = d.secrets[n].kind
    BY <1>0, <1>2, <2>1, <2>2, NoneAssumption DEF Databases
  <2> HIDE DEF e
  <2>4. CurrentIsReadable(e)
    <3> SUFFICES ASSUME NEW n \in Names, e.secrets[n] # NONE
                 PROVE  /\ current_version(e, n) # NONE
                        /\ current_version(e, n).expires = NONE
      BY DEF CurrentIsReadable
    <3>1. current_version(e, n) = current_version(d, n)
      BY <2>2, <2>3, Zenon DEF current_version
    <3> QED BY <2>3, <3>1 DEF Good, CurrentIsReadable
  <2>5. OnlyCurrentIsOpen(e)
    BY <2>2, <2>3 DEF Good, OnlyCurrentIsOpen
  <2>6. NoOrphans(e)
    BY <2>2, <2>3 DEF Good, NoOrphans
  <2>7. Scheduled(e)
    BY <1>2, <2>1, <2>3 DEF Good, Scheduled
  <2>8. Derived(e)
    BY <2>2, <2>3 DEF Good, Derived
  <2>9. Extends(d, e, t)
    <3>1. \A n \in Names : d.secrets[n] # NONE => d.secrets[n].current \in Nat
      BY StoredRow DEF VersionNos
    <3>2. Forward(d, e)
      BY <2>3, <3>1 DEF Forward
    <3>3. RowsKept(d, e, t)
      BY <2>2 DEF RowsKept
    <3> QED BY <3>2, <3>3 DEF Extends
  <2> QED BY <2>2, <2>4, <2>5, <2>6, <2>7, <2>8, <2>9 DEF e, Good
<1> QED BY <1>1, <1>2

(* A create on a free name adds one secret with its first, open version.    *)
LEMMA CreateGood ==
    ASSUME NEW d \in Databases, Good(d), NEW c, c.name \in Names,
           c.secret \in SecretRow, c.secret.current = 1, c.version = 1,
           c.row \in VersionRow, c.row.expires = NONE,
           c.secret.kind = "automatic" => c.secret.next # NONE, NEW t
    PROVE  /\ CreateSecret(d, c).db \in Databases
           /\ Good(CreateSecret(d, c).db)
           /\ Extends(d, CreateSecret(d, c).db, t)
<1> DEFINE e == CreateSecret(d, c).db
<1>1. CASE d.secrets[c.name] # NONE
  BY <1>1, ExtendsSelf DEF CreateSecret, Refused
<1>2. CASE d.secrets[c.name] = NONE
  <2>0. 1 \in VersionNos
    BY VersionAssumption DEF VersionNos
  <2>1. /\ e.secrets = [d.secrets EXCEPT ![c.name] = c.secret]
        /\ e.versions = [d.versions EXCEPT ![c.name][1] = c.row]
        /\ e \in Databases
    BY <1>2, <2>0, Zenon DEF CreateSecret, Ok, Databases
  <2>2. \A n \in Names :
          /\ e.secrets[n] = IF n = c.name THEN c.secret ELSE d.secrets[n]
          /\ n # c.name => e.versions[n] = d.versions[n]
    BY <2>1 DEF Databases
  <2>3. \A v \in VersionNos :
          e.versions[c.name][v] = IF v = 1 THEN c.row ELSE NONE
    BY <1>2, <2>1 DEF Databases, Good, NoOrphans
  <2>4. c.secret # NONE /\ c.row # NONE
    BY NoneAssumption
  <2> HIDE DEF e
  <2>5. CurrentIsReadable(e)
    <3> SUFFICES ASSUME NEW n \in Names, e.secrets[n] # NONE
                 PROVE  /\ current_version(e, n) # NONE
                        /\ current_version(e, n).expires = NONE
      BY DEF CurrentIsReadable
    <3>1. CASE n = c.name
      BY <2>0, <2>2, <2>3, <2>4, <3>1, ZenonT(40) DEF current_version
    <3>2. CASE n # c.name
      <4>1. current_version(e, n) = current_version(d, n)
        BY <2>2, <3>2 DEF current_version
      <4> QED BY <2>2, <3>2, <4>1 DEF Good, CurrentIsReadable
    <3> QED BY <3>1, <3>2
  <2>6. OnlyCurrentIsOpen(e)
    BY <2>2, <2>3 DEF Good, OnlyCurrentIsOpen
  <2>7. NoOrphans(e)
    BY <2>2, <2>4 DEF Good, NoOrphans
  <2>8. Scheduled(e)
    BY <2>2 DEF Good, Scheduled
  <2>9. Derived(e)
    <3> SUFFICES ASSUME NEW n \in Names, NEW v \in VersionNos, v + 1 \in VersionNos,
                        e.versions[n][v] # NONE, e.versions[n][v + 1] # NONE,
                        e.versions[n][v + 1].clean
                 PROVE  e.versions[n][v + 1].base = e.versions[n][v].id
      BY DEF Derived
    <3>1. n # c.name
      BY <2>3 DEF VersionNos
    <3> QED BY <2>2, <3>1 DEF Good, Derived
  <2>10. Extends(d, e, t)
    <3>1. \A n \in Names : d.secrets[n] # NONE => d.secrets[n].current \in Nat
      BY StoredRow DEF VersionNos
    <3>2. Forward(d, e)
      BY <1>2, <2>2, <3>1 DEF Forward
    <3>3. RowsKept(d, e, t)
      <4> SUFFICES ASSUME NEW n \in Names, NEW v \in VersionNos,
                          d.versions[n][v] # NONE
                   PROVE  e.versions[n][v] = d.versions[n][v]
        BY DEF RowsKept
      <4> QED BY <1>2, <2>2 DEF Good, NoOrphans
    <3> QED BY <3>2, <3>3 DEF Extends
  <2> QED BY <2>1, <2>5, <2>6, <2>7, <2>8, <2>9, <2>10 DEF e, Good
<1> QED BY <1>1, <1>2

(* A put that wins on expected_current closes the row it supersedes and     *)
(* opens the next one; one that loses changes nothing.                      *)
LEMMA PutGood ==
    ASSUME NEW d \in Databases, Good(d), NEW c \in PutCmds,
           c.next.set => c.next.to # NONE,
           c.version = c.expected + 1, c.row.expires = NONE,
           /\ c.row.clean
           /\ d.secrets[c.name] # NONE
           /\ d.secrets[c.name].current = c.expected
           => c.row.base = d.versions[c.name][c.expected].id,
           NEW t
    PROVE  /\ PutVersion(d, c).db \in Databases
           /\ Good(PutVersion(d, c).db)
           /\ Extends(d, PutVersion(d, c).db, t)
<1> DEFINE e == PutVersion(d, c).db
           row == d.secrets[c.name]
           old == d.versions[c.name][c.expected]
           moved == [row EXCEPT !.current = c.version]
           new == apply_meta(moved, c)
           closed == [old EXCEPT !.expires = c.supersede]
           inserted == [d.versions[c.name] EXCEPT ![c.version] = c.row]
<1>0. /\ c.name \in Names
      /\ c.expected \in VersionNos /\ c.version \in VersionNos
      /\ c.version # c.expected /\ c.expected < c.version
      /\ c.row \in VersionRow /\ c.row # NONE
      /\ c.supersede \in Nat /\ c.supersede # NONE
  BY NoneAssumption DEF PutCmds, VersionNos
<1>1. CASE row = NONE \/ row.current # c.expected
  BY <1>1, ExtendsSelf DEF PutVersion, Refused
<1>2. CASE ~(row = NONE \/ row.current # c.expected)
  <2>1. /\ old # NONE /\ old.expires = NONE
        /\ old \in VersionRow
    BY <1>0, <1>2, StoredVersion, Zenon DEF Good, CurrentIsReadable, current_version
  <2>2. /\ closed \in VersionRow /\ closed # NONE
        /\ closed.id = old.id /\ closed.base = old.base /\ closed.clean = old.clean
        /\ closed.expires = c.supersede
        /\ Superseded(old, c.supersede) = closed
    BY <1>0, <2>1, NoneAssumption DEF VersionRow, OptNat, Superseded
  <2>3. /\ row \in SecretRow
        /\ moved \in SecretRow
        /\ moved.current = c.version
        /\ moved.kind = row.kind
        /\ moved.next = row.next
    BY <1>0, <1>2, StoredRow DEF SecretRow
  <2>4. /\ e.secrets = [d.secrets EXCEPT ![c.name] = new]
        /\ e.versions = [d.versions EXCEPT ![c.name] =
              [inserted EXCEPT ![c.expected] = Superseded(@, c.supersede)]]
        /\ e = [secrets |-> e.secrets, versions |-> e.versions]
    BY <1>2 DEF PutVersion, PutAccepted, Ok
  <2> HIDE DEF moved, closed, e
  <2>5. /\ c.set_interval \in OptNat /\ c.set_grace \in OptNat
        /\ c.next \in NextRotation
    BY DEF PutCmds
  <2>6. /\ new \in SecretRow /\ new # NONE
        /\ new.current = c.version
        /\ new.kind = row.kind
        /\ row.next # NONE => new.next # NONE
    BY <2>3, <2>5, ApplyMetaRow, NoneAssumption
  <2>7. /\ inserted \in [VersionNos -> VersionRow \cup {NONE}]
        /\ \A v \in VersionNos :
             inserted[v] = IF v = c.version THEN c.row ELSE d.versions[c.name][v]
    BY <1>0 DEF Databases
  <2> HIDE DEF new, inserted
  <2>8. \A n \in Names :
          /\ e.secrets[n] = IF n = c.name THEN new ELSE d.secrets[n]
          /\ n # c.name => e.versions[n] = d.versions[n]
    BY <1>0, <2>4 DEF Databases
  <2>9. e.versions[c.name] = [inserted EXCEPT ![c.expected] = closed]
    <3>1. inserted[c.expected] = old
      BY <1>0, <2>7
    <3>2. e.versions[c.name] = [inserted EXCEPT ![c.expected] = Superseded(@, c.supersede)]
      BY <1>0, <2>4 DEF Databases
    <3> QED BY <2>2, <3>1, <3>2
  <2>10. \A v \in VersionNos :
          e.versions[c.name][v] = IF v = c.version THEN c.row
                                  ELSE IF v = c.expected THEN closed
                                  ELSE d.versions[c.name][v]
    BY <1>0, <2>7, <2>9
  <2>11. e \in Databases
    <3>1. e.secrets \in [Names -> SecretRow \cup {NONE}]
      BY <1>0, <2>4, <2>6 DEF Databases
    <3>2. e.versions[c.name] \in [VersionNos -> VersionRow \cup {NONE}]
      BY <1>0, <2>2, <2>7, <2>9, Zenon
    <3>3. e.versions = [d.versions EXCEPT ![c.name] = e.versions[c.name]]
      BY <1>0, <2>4 DEF Databases
    <3>4. e.versions \in [Names -> [VersionNos -> VersionRow \cup {NONE}]]
      BY <3>2, <3>3 DEF Databases
    <3> QED BY <2>4, <3>1, <3>4, Zenon DEF Databases
  <2>12. CurrentIsReadable(e)
    <3> SUFFICES ASSUME NEW n \in Names, e.secrets[n] # NONE
                 PROVE  /\ current_version(e, n) # NONE
                        /\ current_version(e, n).expires = NONE
      BY Zenon DEF CurrentIsReadable
    <3>1. CASE n = c.name
      <4>1. e.secrets[n].current = c.version
        BY <2>6, <2>8, <3>1
      <4>2. e.versions[c.name][c.version] = c.row
        BY <1>0, <2>10
      <4> QED BY <1>0, <3>1, <4>1, <4>2, Zenon DEF current_version
    <3>2. CASE n # c.name
      <4>1. current_version(e, n) = current_version(d, n)
        BY <2>8, <3>2 DEF current_version
      <4> QED BY <2>8, <3>2, <4>1 DEF Good, CurrentIsReadable
    <3> QED BY <3>1, <3>2
  <2>13. OnlyCurrentIsOpen(e)
    <3> SUFFICES ASSUME NEW n \in Names, NEW v \in VersionNos,
                        e.secrets[n] # NONE, e.versions[n][v] # NONE,
                        v # e.secrets[n].current
                 PROVE  v < e.secrets[n].current /\ e.versions[n][v].expires # NONE
      BY DEF OnlyCurrentIsOpen
    <3>1. CASE n # c.name
      BY <2>8, <3>1 DEF Good, OnlyCurrentIsOpen
    <3>2. CASE n = c.name /\ v = c.expected
      BY <1>0, <2>2, <2>6, <2>8, <2>10, <3>2, ZenonT(40)
    <3>3. CASE n = c.name /\ v # c.expected
      <4>1. /\ e.secrets[n].current = c.version
            /\ e.versions[n][v] = d.versions[n][v]
        BY <2>6, <2>8, <2>10, <3>3
      <4>2. v < c.expected /\ d.versions[n][v].expires # NONE
        BY <1>2, <3>3, <4>1 DEF Good, OnlyCurrentIsOpen
      <4> QED BY <1>0, <4>1, <4>2 DEF VersionNos
    <3> QED BY <3>1, <3>2, <3>3
  <2>14. NoOrphans(e)
    BY <2>6, <2>8 DEF Good, NoOrphans
  <2>15. Scheduled(e)
    BY <1>2, <2>6, <2>8 DEF Good, Scheduled
  <2>16. Derived(e)
    <3> SUFFICES ASSUME NEW n \in Names, NEW v \in VersionNos, v + 1 \in VersionNos,
                        e.versions[n][v] # NONE, e.versions[n][v + 1] # NONE,
                        e.versions[n][v + 1].clean
                 PROVE  e.versions[n][v + 1].base = e.versions[n][v].id
      BY DEF Derived
    <3>1. CASE n # c.name
      BY <2>8, <3>1, SMTT(30) DEF Good, Derived
    <3>2. CASE n = c.name /\ v = c.expected
      BY <1>0, <1>2, <2>2, <2>10, <3>2, ZenonT(40)
    <3>3. CASE n = c.name /\ v # c.expected
      <4>1. v # c.version
        <5> SUFFICES ASSUME v = c.version PROVE FALSE
          OBVIOUS
        <5>1. v + 1 # c.version /\ v + 1 # c.expected
          BY <1>0 DEF VersionNos
        <5>2. d.versions[n][v + 1] # NONE
          BY <2>10, <3>3, <5>1
        <5>3. v + 1 < c.expected
          BY <1>2, <3>3, <5>1, <5>2 DEF Good, OnlyCurrentIsOpen
        <5> QED BY <1>0, <5>3 DEF VersionNos
      <4>2. v + 1 # c.version
        BY <3>3, SMTT(30) DEF VersionNos, PutCmds
      <4>3. /\ e.versions[n][v] = d.versions[n][v]
            /\ d.versions[n][v + 1] # NONE /\ d.versions[n][v + 1].clean
            /\ e.versions[n][v + 1].base = d.versions[n][v + 1].base
        BY <2>1, <2>2, <2>10, <3>3, <4>1, <4>2, Zenon
      <4> QED BY <4>3 DEF Good, Derived
    <3> QED BY <3>1, <3>2, <3>3
  <2>17. Extends(d, e, t)
    <3>1. \A n \in Names : d.secrets[n] # NONE => d.secrets[n].current \in Nat
      BY StoredRow DEF VersionNos
    <3>2. d.versions[c.name][c.version] = NONE
      BY <1>0, <1>2 DEF Good, OnlyCurrentIsOpen, VersionNos
    <3>3. e.secrets[c.name] # NONE /\ d.secrets[c.name].current <= e.secrets[c.name].current
      BY <1>0, <1>2, <2>6, <2>8 DEF VersionNos
    <3>4. Forward(d, e)
      BY <2>8, <3>1, <3>3 DEF Forward
    <3>5. RowsKept(d, e, t)
      <4> SUFFICES ASSUME NEW n \in Names, NEW v \in VersionNos,
                          d.versions[n][v] # NONE
                   PROVE  /\ e.versions[n][v] # NONE
                          /\ e.versions[n][v].id = d.versions[n][v].id
                          /\ d.versions[n][v].expires # NONE =>
                                e.versions[n][v].expires = d.versions[n][v].expires
        BY Zenon DEF RowsKept
      <4>1. CASE n = c.name /\ v = c.expected
        BY <1>0, <2>1, <2>2, <2>10, <4>1, Zenon
      <4>2. CASE ~(n = c.name /\ v = c.expected)
        BY <2>8, <2>10, <3>2, <4>2, ZenonT(40)
      <4> QED BY <4>1, <4>2
    <3> QED BY <3>4, <3>5 DEF Extends
  <2> QED BY <2>11, <2>12, <2>13, <2>14, <2>15, <2>16, <2>17, Zenon DEF e, Good
<1> QED BY <1>1, <1>2

---------------------------------------------------------------------------
(* Requests in flight *)

(* A step either counts a delete or restore of secret n, or moves n only    *)
(* forward and keeps the contents of the version that was current.          *)
Follows(n) ==
    \/ epoch[n] < epoch'[n]
    \/ /\ epoch'[n] = epoch[n]
       /\ db.secrets[n] # NONE =>
            /\ db'.secrets[n] # NONE
            /\ db.secrets[n].current <= db'.secrets[n].current
            /\ db'.versions[n][db.secrets[n].current].id
                 = db.versions[n][db.secrets[n].current].id

(* A command that extends the database moves every secret forward.          *)
LEMMA ExtendsFollows ==
    ASSUME IInv, NEW t, Extends(db, db', t), epoch' = epoch, NEW n \in Names
    PROVE  Follows(n)
<1> SUFFICES ASSUME db.secrets[n] # NONE
             PROVE  /\ db'.secrets[n] # NONE
                    /\ db.secrets[n].current <= db'.secrets[n].current
                    /\ db'.versions[n][db.secrets[n].current].id
                         = db.versions[n][db.secrets[n].current].id
  BY DEF Follows
<1>1. db.secrets[n].current \in VersionNos
  BY StoredRow, Zenon DEF IInv, TypeOK
<1>2. /\ db.versions[n][db.secrets[n].current] # NONE
      /\ db.versions[n][db.secrets[n].current].expires = NONE
  BY DEF IInv, Good, CurrentIsReadable, current_version
<1> QED BY <1>1, <1>2 DEF Extends, Forward, RowsKept

(* What an operation in progress looks like.                                *)
LEMMA PendingShape ==
    ASSUME TypeOK, NEW r \in Requests, ops[r].pc # "idle"
    PROVE  /\ ops[r].pc \in {"load", "commit"}
           /\ ops[r].epoch \in Nat
           /\ ops[r].cmd.name \in Names
           /\ ops[r].cmd.expected \in VersionNos
           /\ ops[r].cmd \in PutCmds \/ (ops[r].pc = "commit" /\ ops[r].cmd \in MetaCmds)
           /\ ops[r].cmd.op = "PutVersion" => ops[r].cmd \in PutCmds
           /\ ops[r].cmd.op # "PutVersion" => ops[r].cmd \in MetaCmds
<1>1. ops[r] \in Operations
  BY DEF TypeOK
<1>2. ops[r].epoch \in Nat
  BY <1>1 DEF Operations
<1>3. \/ ops[r].pc = "load" /\ ops[r].cmd \in PutCmds
      \/ ops[r].pc = "commit" /\ ops[r].cmd \in PutCmds \cup MetaCmds
  BY <1>1 DEF Operations
<1>4. ops[r].cmd \in PutCmds => ops[r].cmd.op = "PutVersion"
  BY DEF PutCmds
<1>5. ops[r].cmd \in MetaCmds => ops[r].cmd.op = "UpdateMeta"
  BY DEF MetaCmds
<1>6. ops[r].cmd.name \in Names /\ ops[r].cmd.expected \in VersionNos
  BY <1>3 DEF PutCmds, MetaCmds
<1> QED BY <1>2, <1>3, <1>4, <1>5, <1>6

(* A version between two others.                                            *)
LEMMA Between ==
    ASSUME NEW a \in Nat, NEW b \in Nat, NEW c \in Nat, a <= b, b <= c
    PROVE  a <= c /\ (a = c => a = b)
OBVIOUS

(* An operation in progress still fits after a step that follows.           *)
LEMMA PendingKept ==
    ASSUME IInv, NEW r \in Requests, ops'[r] = ops[r],
           epoch' \in [Names -> Nat],
           \A n \in Names : Follows(n), db' \in Databases
    PROVE  PendingFits(r)'
<1> SUFFICES ASSUME ops[r].pc # "idle"
             PROVE  PendingFits(r)'
  BY Zenon DEF PendingFits
<1> DEFINE c == ops[r].cmd
           s == db.secrets[c.name]
<1>1. /\ ops[r].epoch \in Nat /\ c.name \in Names /\ c.expected \in VersionNos
      /\ epoch[c.name] \in Nat /\ epoch'[c.name] \in Nat
  BY PendingShape DEF IInv, TypeOK
<1>2. PendingFits(r)
  BY DEF IInv
<1>3. /\ c.next.set => c.next.to # NONE
      /\ c.op = "PutVersion" => c.version = c.expected + 1 /\ c.row.expires = NONE
      /\ ops[r].epoch <= epoch[c.name]
      /\ ops[r].epoch = epoch[c.name] =>
            /\ s # NONE
            /\ c.expected <= s.current
            /\ ops[r].pc = "commit" /\ c.op = "PutVersion" /\ c.expected = s.current
                 => c.row.base = db.versions[c.name][c.expected].id
  BY <1>2, Zenon DEF PendingFits
<1> HIDE DEF c
<1>4. \/ epoch[c.name] < epoch'[c.name]
      \/ /\ epoch'[c.name] = epoch[c.name]
         /\ s # NONE => /\ db'.secrets[c.name] # NONE
                        /\ s.current <= db'.secrets[c.name].current
                        /\ db'.versions[c.name][s.current].id
                             = db.versions[c.name][s.current].id
  <2>1. Follows(c.name)
    BY <1>1, Zenon
  <2> QED BY <2>1, Zenon DEF Follows
<1> DEFINE a == ops[r].epoch
           b == epoch[c.name]
           d == epoch'[c.name]
<1>5. /\ a <= d
      /\ a = d => a = b /\ d = b /\ ~(b < d)
  <2>1. /\ a \in Nat /\ b \in Nat /\ d \in Nat
        /\ a <= b /\ (b < d \/ d = b)
    BY <1>1, <1>3, <1>4, Zenon
  <2> HIDE DEF a, b, d
  <2> QED BY <2>1
<1>6. ASSUME ops[r].epoch = epoch'[c.name]
      PROVE  /\ db'.secrets[c.name] # NONE
             /\ c.expected <= db'.secrets[c.name].current
             /\ ops[r].pc = "commit" /\ c.op = "PutVersion"
                /\ c.expected = db'.secrets[c.name].current
                  => c.row.base = db'.versions[c.name][c.expected].id
  <2>1. /\ ops[r].epoch = epoch[c.name]
        /\ s # NONE /\ c.expected <= s.current
        /\ db'.secrets[c.name] # NONE
        /\ s.current <= db'.secrets[c.name].current
        /\ db'.versions[c.name][s.current].id = db.versions[c.name][s.current].id
    <3>1. a = b /\ ~(b < d)
      BY <1>5, <1>6, Zenon
    <3> QED BY <1>3, <1>4, <3>1, Zenon
  <2>2. s.current \in Nat /\ db'.secrets[c.name].current \in Nat /\ c.expected \in Nat
    <3>1. s.current \in VersionNos
      BY <1>1, <2>1, StoredRow, Zenon DEF IInv, TypeOK
    <3>2. db'.secrets[c.name].current \in VersionNos
      BY <1>1, <2>1, StoredRow, Zenon
    <3> QED BY <1>1, <3>1, <3>2 DEF VersionNos
  <2>3. c.expected <= db'.secrets[c.name].current
    BY <2>1, <2>2, Between, Zenon
  <2>4. c.expected = db'.secrets[c.name].current => c.expected = s.current
    BY <2>1, <2>2
  <2> QED BY <1>3, <2>1, <2>3, <2>4, Zenon
<1> QED BY <1>3, <1>5, <1>6, Zenon DEF c, PendingFits

(* A step that changes the tables to good ones, counting or following every *)
(* secret, and ends at most one request, keeps IInv.                        *)
LEMMA TablesStep ==
    ASSUME IInv, due' \in [Workers -> SUBSET Names],
           db' \in Databases, Good(db'), epoch' \in [Names -> Nat],
           \A n \in Names : Follows(n), writes' \in Nat,
           ops' = ops \/ \E r \in Requests : ops' = [ops EXCEPT ![r] = Idle],
           UNCHANGED <<now, backup>>
    PROVE  IInv'
<1>1. Idle \in Operations /\ Idle.pc = "idle"
  BY DEF Idle, Operations
<1>2. ops' \in [Requests -> Operations]
  BY <1>1 DEF IInv, TypeOK
<1>3. TypeOK'
  BY <1>2 DEF IInv, TypeOK
<1>4. ASSUME NEW r \in Requests PROVE PendingFits(r)'
  <2>1. ops'[r] = ops[r] \/ ops'[r] = Idle
    BY DEF IInv, TypeOK
  <2>2. CASE ops'[r] = ops[r]
    BY <2>2, PendingKept
  <2>3. CASE ops'[r] = Idle
    BY <1>1, <2>3, Zenon DEF PendingFits
  <2> QED BY <2>1, <2>2, <2>3
<1>5. Good(db)'
  BY DEF Good, CurrentIsReadable, OnlyCurrentIsOpen, NoOrphans, Scheduled, Derived,
         current_version
<1>6. (backup # NONE => Good(backup))'
  BY ZenonT(40) DEF IInv, Good, CurrentIsReadable, OnlyCurrentIsOpen, NoOrphans, Scheduled,
         Derived, current_version
<1> QED BY <1>3, <1>4, <1>5, <1>6 DEF IInv

(* A step that changes only the operation of one request keeps IInv if the  *)
(* new operation has the right shape and fits.                              *)
LEMMA OperationStep ==
    ASSUME IInv, due' \in [Workers -> SUBSET Names],
           NEW r \in Requests, NEW o \in Operations,
           ops' = [ops EXCEPT ![r] = o],
           UNCHANGED <<db, now, backup, epoch, writes>>,
           PendingFits(r)'
    PROVE  IInv'
<1>1. TypeOK'
  BY DEF IInv, TypeOK
<1>2. ASSUME NEW q \in Requests PROVE PendingFits(q)'
  <2>1. CASE q = r
    BY <2>1
  <2>2. CASE q # r
    <3>1. ops'[q] = ops[q]
      BY <2>2 DEF IInv, TypeOK
    <3>2. PendingFits(q)
      BY DEF IInv
    <3> QED BY <3>1, <3>2, Zenon DEF PendingFits
  <2> QED BY <2>1, <2>2
<1>3. Good(db)' /\ (backup # NONE => Good(backup))'
  BY ZenonT(40) DEF IInv, Good, CurrentIsReadable, OnlyCurrentIsOpen, NoOrphans, Scheduled,
         Derived, current_version
<1> QED BY <1>1, <1>2, <1>3 DEF IInv

(* A request that ends fits trivially.                                      *)
LEMMA EndStep ==
    ASSUME IInv, due' \in [Workers -> SUBSET Names],
           NEW r \in Requests, ops' = [ops EXCEPT ![r] = Idle],
           UNCHANGED <<db, now, backup, epoch, writes>>
    PROVE  IInv'
<1>1. Idle \in Operations /\ Idle.pc = "idle"
  BY DEF Idle, Operations
<1>2. ops'[r] = Idle
  BY DEF IInv, TypeOK
<1>3. PendingFits(r)'
  BY <1>1, <1>2 DEF PendingFits
<1> QED BY <1>1, <1>3, OperationStep, Zenon

(* The first step of a request: the command is built from the row read.     *)
LEMMA StartStep ==
    ASSUME IInv, due' \in [Workers -> SUBSET Names],
           NEW r \in Requests, NEW n \in Names, NEW pc, NEW cmd,
           db.secrets[n] # NONE,
           \/ pc \in {"load", "commit"} /\ cmd \in PutCmds
           \/ pc = "commit" /\ cmd \in MetaCmds,
           cmd.name = n, cmd.expected = db.secrets[n].current,
           cmd.next.set => cmd.next.to # NONE,
           cmd.op = "PutVersion" => /\ cmd.version = cmd.expected + 1
                                    /\ cmd.row.expires = NONE
                                    /\ cmd.row.base = BaseId(n),
           Start(r, n, pc, cmd),
           UNCHANGED <<db, now, backup, epoch, writes>>
    PROVE  IInv'
<1> DEFINE o == [pc |-> pc, cmd |-> cmd, epoch |-> epoch[n]]
<1>1. epoch[n] \in Nat /\ db.secrets[n].current \in Nat
  BY StoredRow DEF IInv, TypeOK, VersionNos
<1>2. o \in Operations
  BY <1>1 DEF Operations
<1>3. ops' = [ops EXCEPT ![r] = o] /\ ops'[r] = o
  BY DEF Start, IInv, TypeOK
<1>4. BaseId(n) = db.versions[n][db.secrets[n].current].id
  BY Zenon DEF BaseId, current_version, IInv, Good, CurrentIsReadable
<1>5. /\ ops'[r].pc = pc /\ ops'[r].cmd = cmd /\ ops'[r].epoch = epoch[n]
      /\ epoch'[n] = epoch[n] /\ db'.secrets[n] = db.secrets[n]
      /\ db'.versions[n] = db.versions[n]
  <2>1. o.pc = pc /\ o.cmd = cmd /\ o.epoch = epoch[n]
    BY Zenon
  <2> QED BY <1>3, <2>1, Zenon
<1> HIDE DEF o
<1>6. PendingFits(r)'
  BY <1>1, <1>4, <1>5 DEF PendingFits
<1> QED BY <1>2, <1>3, <1>6, OperationStep, Zenon

(* The command update_secret and rotate build for a new value.              *)
LEMMA PutCommandShape ==
    ASSUME IInv, due' \in [Workers -> SUBSET Names],
           NEW n \in Names, db.secrets[n] # NONE,
           next_version(db.secrets[n].current) # NONE,
           NEW set_interval \in OptNat, NEW set_grace \in OptNat,
           NEW next \in NextRotation,
           NEW cmd, cmd = PutCommand(n, db.secrets[n], set_interval, set_grace, next)
    PROVE  /\ cmd \in PutCmds
           /\ cmd.op = "PutVersion" /\ cmd.name = n /\ cmd.next = next
           /\ cmd.expected = db.secrets[n].current
           /\ cmd.version = cmd.expected + 1
           /\ cmd.row.expires = NONE
           /\ cmd.row.base = BaseId(n)
<1> DEFINE row == db.secrets[n]
<1>1. row \in SecretRow /\ row.current \in VersionNos /\ row.grace \in Nat
  <2>1. row \in SecretRow /\ row.current \in VersionNos
    BY StoredRow, Zenon DEF IInv, TypeOK
  <2> QED BY <2>1, Zenon DEF SecretRow
<1>2. row.current + 1 \in VersionNos /\ next_version(row.current) = row.current + 1
  BY <1>1, VersionAssumption DEF next_version, VersionNos
<1>3. BaseId(n) \in Nat
  BY <1>1, StoredVersion DEF BaseId, current_version, IInv, TypeOK, VersionRow
<1>4. grace_expiry_unix(now, row.grace) \in Nat
  BY <1>1 DEF grace_expiry_unix, IInv, TypeOK
<1>5. NewRow(BaseId(n)) \in VersionRow
  BY <1>3 DEF NewRow, VersionRow, OptNat
<1> QED BY <1>1, <1>2, <1>4, <1>5 DEF PutCommand, PutCmds, NewRow

---------------------------------------------------------------------------
(* One lemma per action of SecretService: each preserves IInv and, for the *)
(* actions that write the tables, extends them unless it counts a delete   *)
(* or restore.                                                             *)

(* create_secret on a taken name changes nothing, on a free one adds rows.  *)
LEMMA CreateStep ==
    ASSUME IInv, due' \in [Workers -> SUBSET Names],
           NEW n \in Names, NEW k \in Kinds, NEW f \in Formats,
           NEW i \in OptIntervals, NEW g \in Graces, create_secret(n, k, f, i, g)
    PROVE  IInv' /\ Extends(db, db', now)
<1> DEFINE c == [op |-> "CreateSecret", name |-> n, version |-> 1,
                 secret |-> CreateRow(k, f, i, g),
                 row |-> [NewRow(0) EXCEPT !.id = writes + 1, !.clean = TRUE]]
<1>1. now \in Nat /\ writes \in Nat /\ i \in OptNat /\ g \in Nat
  BY InputAssumption DEF IInv, TypeOK, OptIntervals, OptNat
<1>2. k = "automatic" => i \in Nat
  BY <1>1 DEF create_secret, OptNat
<1>3. c.row \in VersionRow /\ c.row.expires = NONE
  <2>1. c.row = [id |-> writes + 1, base |-> 0, clean |-> TRUE, expires |-> NONE]
    BY Zenon DEF NewRow
  <2> HIDE DEF c
  <2> QED BY <1>1, <2>1 DEF VersionRow, OptNat
<1>4. /\ c.secret \in SecretRow /\ c.secret.current = 1
      /\ c.secret.kind = "automatic" => c.secret.next # NONE
  BY <1>1, <1>2, VersionAssumption, NoneAssumption
     DEF CreateRow, SecretRow, OptNat, VersionNos, next_rotation_unix
<1>5. c.name \in Names /\ c.version = 1 /\ c.op = "CreateSecret"
  OBVIOUS
<1>6. /\ db' = apply_command(db, c).db
      /\ writes' = IF apply_command(db, c).result = "ok" THEN writes + 1 ELSE writes
      /\ UNCHANGED <<now, ops, backup, epoch>>
  BY Zenon DEF create_secret
<1> HIDE DEF c
<1>7. db' = CreateSecret(db, c).db
  BY <1>5, <1>6, ApplyDispatch
<1>8. db \in Databases /\ Good(db)
  BY Zenon DEF IInv, TypeOK
<1>9. db' \in Databases /\ Good(db') /\ Extends(db, db', now)
  BY <1>3, <1>4, <1>5, <1>7, <1>8, CreateGood
<1>10. \A m \in Names : Follows(m)
  BY <1>6, <1>9, ExtendsFollows
<1>11. writes' \in Nat /\ epoch' \in [Names -> Nat]
  BY <1>1, <1>6 DEF IInv, TypeOK
<1> QED BY <1>6, <1>9, <1>10, <1>11, TablesStep

(* update_secret with a new value submits a put built from the row read.    *)
LEMMA UpdateValueStep ==
    ASSUME IInv, due' \in [Workers -> SUBSET Names],
           NEW r \in Requests, NEW n \in Names, NEW i \in OptIntervals,
           NEW g \in OptGraces, update_value(r, n, i, g)
    PROVE  IInv'
<1> DEFINE row == db.secrets[n]
           next == IF row.kind = "automatic"
                   THEN SetTo(next_rotation_unix(now, OrElse(i, OrElse(row.interval, 0))))
                   ELSE Keep
           cmd == PutCommand(n, row, i, g, next)
<1>1. i \in OptNat /\ g \in OptNat
  BY InputAssumption, Zenon DEF OptIntervals, OptGraces, OptNat
<1>2. /\ row # NONE /\ next_version(row.current) # NONE
      /\ Start(r, n, FirstCall(row), cmd)
      /\ UNCHANGED <<db, now, backup, epoch, writes>>
  BY DEF update_value
<1>3. row.interval \in OptNat
  BY <1>2, StoredRow, Zenon DEF IInv, TypeOK, SecretRow
<1>4. next_rotation_unix(now, OrElse(i, OrElse(row.interval, 0))) \in Nat
  <2>1. now \in Nat
    BY Zenon DEF IInv, TypeOK
  <2>2. OrElse(i, OrElse(row.interval, 0)) \in Nat
    BY <1>1, <1>3 DEF OrElse, OptNat
  <2> QED BY <2>1, <2>2 DEF next_rotation_unix
<1>5. next \in NextRotation /\ (next.set => next.to # NONE)
  BY <1>4, NoneAssumption DEF NextRotation, SetTo, Keep, OptNat
<1>6. FirstCall(row) \in {"load", "commit"}
  BY DEF FirstCall
<1> HIDE DEF next, cmd
<1>7. /\ cmd \in PutCmds
      /\ cmd.op = "PutVersion" /\ cmd.name = n /\ cmd.next = next
      /\ cmd.expected = row.current
      /\ cmd.version = cmd.expected + 1
      /\ cmd.row.expires = NONE
      /\ cmd.row.base = BaseId(n)
  <2>1. cmd = PutCommand(n, db.secrets[n], i, g, next)
    BY DEF cmd
  <2>2. next_version(db.secrets[n].current) # NONE /\ db.secrets[n] # NONE
    BY <1>2, Zenon
  <2> HIDE DEF row
  <2>3. /\ cmd \in PutCmds
        /\ cmd.op = "PutVersion" /\ cmd.name = n /\ cmd.next = next
        /\ cmd.expected = db.secrets[n].current
        /\ cmd.version = cmd.expected + 1
        /\ cmd.row.expires = NONE
        /\ cmd.row.base = BaseId(n)
    BY <1>1, <1>5, <2>1, <2>2, PutCommandShape
  <2> QED BY <2>3, Zenon DEF row
<1> QED BY <1>2, <1>5, <1>6, <1>7, StartStep

(* update_secret without a value submits a change of the settings only.     *)
LEMMA UpdateSettingsStep ==
    ASSUME IInv, due' \in [Workers -> SUBSET Names],
           NEW r \in Requests, NEW n \in Names, NEW i \in OptIntervals,
           NEW g \in OptGraces, update_settings(r, n, i, g)
    PROVE  IInv'
<1> DEFINE row == db.secrets[n]
           next == IF row.kind = "automatic" /\ i # NONE
                   THEN SetTo(next_rotation_unix(now, i)) ELSE Keep
           cmd == [op |-> "UpdateMeta", name |-> n, expected |-> row.current,
                   set_interval |-> i, set_grace |-> g, next |-> next]
<1>1. i \in OptNat /\ g \in OptNat
  BY InputAssumption DEF OptIntervals, OptGraces, OptNat
<1>2. /\ row # NONE
      /\ Start(r, n, "commit", cmd)
      /\ UNCHANGED <<db, now, backup, epoch, writes>>
  BY Zenon DEF update_settings
<1>3. next \in NextRotation /\ (next.set => next.to # NONE)
  <2>1. CASE row.kind = "automatic" /\ i # NONE
    <3>1. next = SetTo(next_rotation_unix(now, i))
      BY <2>1
    <3>2. next_rotation_unix(now, i) \in Nat
      BY <1>1, <2>1 DEF OptNat, next_rotation_unix, IInv, TypeOK
    <3> HIDE DEF next
    <3> QED BY <3>1, <3>2, NoneAssumption DEF NextRotation, SetTo, OptNat
  <2>2. CASE ~(row.kind = "automatic" /\ i # NONE)
    <3>1. next = Keep
      BY <2>2, Zenon
    <3> HIDE DEF next
    <3> QED BY <3>1 DEF NextRotation, Keep, OptNat
  <2> QED BY <2>1, <2>2
<1>4. row.current \in VersionNos
  BY <1>2, StoredRow, Zenon DEF IInv, TypeOK
<1> HIDE DEF next
<1>5. /\ cmd \in MetaCmds
      /\ cmd.op # "PutVersion" /\ cmd.name = n /\ cmd.next = next
      /\ cmd.expected = row.current
  BY <1>1, <1>3, <1>4, SMTT(30) DEF MetaCmds
<1> HIDE DEF cmd
<1> QED BY <1>2, <1>3, <1>5, StartStep, Zenon

(* rotate, by a client or by the worker, submits a put that reschedules.    *)
LEMMA RotateStep ==
    ASSUME IInv, due' \in [Workers -> SUBSET Names],
           NEW r \in Requests, NEW n \in Names, rotate(r, n)
    PROVE  IInv'
<1> DEFINE row == db.secrets[n]
           next == SetTo(next_rotation_unix(now, OrElse(row.interval, 0)))
           cmd == PutCommand(n, row, NONE, NONE, next)
<1>1. /\ row # NONE /\ next_version(row.current) # NONE
      /\ Start(r, n, FirstCall(row), cmd)
      /\ UNCHANGED <<db, now, backup, epoch, writes>>
  BY Zenon DEF rotate, Rotatable
<1>2. row.interval \in OptNat
  BY <1>1, StoredRow, Zenon DEF IInv, TypeOK, SecretRow
<1>3. next_rotation_unix(now, OrElse(row.interval, 0)) \in Nat
  BY <1>2 DEF next_rotation_unix, OrElse, OptNat, IInv, TypeOK
<1>4. next \in NextRotation /\ (next.set => next.to # NONE)
  BY <1>3, NoneAssumption DEF NextRotation, SetTo, OptNat
<1>5. FirstCall(row) \in {"load", "commit"} /\ NONE \in OptNat
  BY DEF FirstCall, OptNat
<1> HIDE DEF next, cmd
<1>6. /\ cmd \in PutCmds
      /\ cmd.op = "PutVersion" /\ cmd.name = n /\ cmd.next = next
      /\ cmd.expected = row.current
      /\ cmd.version = cmd.expected + 1
      /\ cmd.row.expires = NONE
      /\ cmd.row.base = BaseId(n)
  <2>1. cmd = PutCommand(n, db.secrets[n], NONE, NONE, next)
    BY DEF cmd
  <2>2. next_version(db.secrets[n].current) # NONE /\ db.secrets[n] # NONE
    BY <1>1, Zenon
  <2> HIDE DEF row
  <2>3. /\ cmd \in PutCmds
        /\ cmd.op = "PutVersion" /\ cmd.name = n /\ cmd.next = next
        /\ cmd.expected = db.secrets[n].current
        /\ cmd.version = cmd.expected + 1
        /\ cmd.row.expires = NONE
        /\ cmd.row.base = BaseId(n)
    BY <1>4, <1>5, <2>1, <2>2, PutCommandShape
  <2> QED BY <2>3, Zenon DEF row
<1> QED BY <1>1, <1>4, <1>5, <1>6, StartStep, Zenon

(* load_userpass bases the pending put on the row the command expects to    *)
(* supersede.                                                               *)
LEMMA LoadStep ==
    ASSUME IInv, due' \in [Workers -> SUBSET Names],
           NEW r \in Requests, load_userpass(r)
    PROVE  IInv'
<1> DEFINE c == ops[r].cmd
           row == db.versions[c.name][c.expected]
           new == [c EXCEPT !.row.base = row.id]
           o == [pc |-> "commit", epoch |-> ops[r].epoch, cmd |-> new]
<1>1. /\ ops[r].pc = "load"
      /\ ops' = [ops EXCEPT ![r] = IF row = NONE THEN Idle ELSE o]
      /\ UNCHANGED <<db, now, backup, epoch, writes>>
  BY DEF load_userpass, IInv, TypeOK
<1>2. CASE row = NONE
  BY <1>1, <1>2, EndStep, Zenon
<1>3. CASE row # NONE
  <2>1. ops[r] \in [pc : {"load"}, cmd : PutCmds, epoch : Nat]
    BY <1>1, Zenon DEF IInv, TypeOK, Operations
  <2>2. c \in PutCmds /\ c.name \in Names /\ c.expected \in VersionNos
        /\ c.row \in VersionRow /\ c.op = "PutVersion"
    BY <2>1 DEF PutCmds
  <2>3. row.id \in Nat
    BY <1>3, <2>2, StoredVersion, Zenon DEF IInv, TypeOK, VersionRow
  <2>4. ops[r].epoch \in Nat
    BY <2>1
  <2>5. /\ [c.row EXCEPT !.base = row.id] \in VersionRow
        /\ [c.row EXCEPT !.base = row.id].base = row.id
        /\ [c.row EXCEPT !.base = row.id].expires = c.row.expires
    BY <2>2, <2>3, Zenon DEF VersionRow
  <2>6. new = [c EXCEPT !.row = [c.row EXCEPT !.base = row.id]]
    BY <2>2 DEF PutCmds
  <2> DEFINE nrow == [c.row EXCEPT !.base = row.id]
  <2> HIDE DEF nrow
  <2>7. /\ new \in PutCmds
        /\ new.op = "PutVersion" /\ new.name = c.name /\ new.expected = c.expected
        /\ new.version = c.version /\ new.next = c.next
        /\ new.row = nrow
    BY <2>2, <2>5, <2>6, Zenon DEF PutCmds, nrow
  <2>8. nrow.base = row.id /\ nrow.expires = c.row.expires
    BY <2>5 DEF nrow
  <2> HIDE DEF new
  <2>9. o \in Operations
    BY <2>4, <2>7, Zenon DEF Operations
  <2>10. ops' = [ops EXCEPT ![r] = o] /\ ops'[r] = o
    BY <1>1, <1>3 DEF IInv, TypeOK
  <2>11. /\ c.next.set => c.next.to # NONE
         /\ c.version = c.expected + 1 /\ c.row.expires = NONE
         /\ ops[r].epoch <= epoch[c.name]
         /\ ops[r].epoch = epoch[c.name] =>
               db.secrets[c.name] # NONE /\ c.expected <= db.secrets[c.name].current
    BY <1>1, <2>2, ZenonT(40) DEF IInv, PendingFits
  <2> HIDE DEF c
  <2>12. PendingFits(r)'
    <3>1. /\ db' = db /\ epoch' = epoch
          /\ ops'[r].pc = "commit" /\ ops'[r].cmd = new /\ ops'[r].epoch = ops[r].epoch
      BY <1>1, <2>10
    <3> HIDE DEF o
    <3> QED BY <2>7, <2>8, <2>11, <3>1 DEF PendingFits
  <2> QED BY <1>1, <2>9, <2>10, <2>12, OperationStep, Zenon
<1> QED BY <1>2, <1>3, Zenon

(* commit submits the pending command: a put whose row still has to fit the *)
(* version it supersedes, or a change of settings.                          *)
LEMMA CommitStep ==
    ASSUME IInv, due' \in [Workers -> SUBSET Names],
           NEW r \in Requests, commit(r)
    PROVE  IInv' /\ Extends(db, db', now)
<1> DEFINE c == ops[r].cmd
           st == Stamped(r)
           same == ops[r].epoch = epoch[c.name]
           crow == c.row
           nrow == [crow EXCEPT !.id = writes + 1, !.clean = same]
<1>1. /\ ops[r].pc = "commit"
      /\ db' = apply_command(db, st).db
      /\ writes' = writes \/ writes' = writes + 1
      /\ ops' = [ops EXCEPT ![r] = Idle]
      /\ UNCHANGED <<now, backup, epoch>>
  BY DEF commit
<1>2. /\ db \in Databases /\ Good(db) /\ writes \in Nat /\ PendingFits(r)
      /\ epoch \in [Names -> Nat]
  BY DEF IInv, TypeOK
<1>3. /\ c.op = "PutVersion" => c \in PutCmds
      /\ c.op # "PutVersion" => c \in MetaCmds
      /\ c.name \in Names /\ c.expected \in VersionNos
  BY <1>1, PendingShape DEF IInv
<1>4. /\ c.next.set => c.next.to # NONE
      /\ c.op = "PutVersion" =>
           /\ c.version = c.expected + 1 /\ c.row.expires = NONE
           /\ same /\ c.expected = db.secrets[c.name].current
                => c.row.base = db.versions[c.name][c.expected].id
  BY <1>1, <1>2, Zenon DEF PendingFits
<1>5. db' \in Databases /\ Good(db') /\ Extends(db, db', now)
  <2>1. CASE c.op = "PutVersion"
    <3>1. c \in PutCmds /\ c.row \in VersionRow
      BY <1>3, <2>1 DEF PutCmds
    <3>2. same \in BOOLEAN
      OBVIOUS
    <3> HIDE DEF same
    <3>3. /\ nrow \in VersionRow /\ nrow.base = c.row.base
          /\ nrow.expires = c.row.expires /\ nrow.clean = same
      <4>1. writes + 1 \in Nat
        BY <1>2
      <4>2. crow \in VersionRow
        BY <3>1
      <4>3. crow.base = c.row.base /\ crow.expires = c.row.expires
        OBVIOUS
      <4> HIDE DEF crow
      <4>4. nrow \in VersionRow
        BY <3>2, <4>1, <4>2, Zenon DEF VersionRow
      <4>5. nrow.base = crow.base /\ nrow.expires = crow.expires
        BY <4>2 DEF VersionRow
      <4>6. nrow.clean = same
        BY <4>2 DEF VersionRow
      <4> QED BY <4>3, <4>4, <4>5, <4>6
    <3>4. st = [c EXCEPT !.row = nrow]
      BY <2>1, <3>1, Zenon DEF Stamped, same, PutCmds
    <3> HIDE DEF nrow
    <3>5. /\ st \in PutCmds
          /\ st.op = "PutVersion" /\ st.name = c.name /\ st.expected = c.expected
          /\ st.version = c.version /\ st.next = c.next /\ st.row = nrow
      BY <3>1, <3>3, <3>4, <2>1 DEF PutCmds
    <3> HIDE DEF st, c
    <3>6. db' = PutVersion(db, st).db
      BY <1>1, <3>5, ApplyDispatch
    <3>7. /\ st.next.set => st.next.to # NONE
          /\ st.version = st.expected + 1 /\ st.row.expires = NONE
          /\ st.row.clean /\ db.secrets[st.name].current = st.expected
               => st.row.base = db.versions[st.name][st.expected].id
      BY <1>4, <2>1, <3>3, <3>5, Zenon
    <3> QED BY <1>2, <3>5, <3>6, <3>7, PutGood, Zenon
  <2>2. CASE c.op # "PutVersion"
    <3>1. st = c /\ c \in MetaCmds /\ c.op = "UpdateMeta"
      BY <1>3, <2>2 DEF Stamped, MetaCmds
    <3> HIDE DEF st, c
    <3>2. db' = UpdateMeta(db, c).db
      BY <1>1, <3>1, ApplyDispatch
    <3> QED BY <1>2, <1>4, <3>1, <3>2, MetaGood
  <2> QED BY <2>1, <2>2, Zenon
<1>6. \A n \in Names : Follows(n)
  BY <1>1, <1>5, ExtendsFollows
<1>7. writes' \in Nat /\ epoch' \in [Names -> Nat]
  BY <1>1, <1>2
<1> QED BY <1>1, <1>5, <1>6, <1>7, TablesStep, Zenon

(* delete_secret counts its secret and leaves the others as they were.      *)
LEMMA DeleteStep ==
    ASSUME IInv, due' \in [Workers -> SUBSET Names],
           NEW n \in Names, delete_secret(n)
    PROVE  /\ IInv'
           /\ \A m \in Names : epoch'[m] = epoch[m] => db'.versions[m] = db.versions[m]
<1> DEFINE c == [op |-> "DeleteSecret", name |-> n]
<1>1. /\ db' = apply_command(db, c).db
      /\ apply_command(db, c).result = "ok"
      /\ epoch' = [epoch EXCEPT ![n] = @ + 1]
      /\ UNCHANGED <<now, ops, backup, writes>>
  BY DEF delete_secret
<1>2. c.name = n /\ c.op = "DeleteSecret"
  OBVIOUS
<1>3. db \in Databases /\ Good(db) /\ epoch \in [Names -> Nat] /\ writes \in Nat
  BY DEF IInv, TypeOK
<1> HIDE DEF c
<1>4. db' = DeleteSecret(db, c).db
  BY <1>1, <1>2, ApplyDispatch
<1>5. db' \in Databases /\ Good(db')
  BY <1>2, <1>3, <1>4, DeleteGood
<1>6. \A m \in Names : m # n =>
         db'.secrets[m] = db.secrets[m] /\ db'.versions[m] = db.versions[m]
  BY <1>2, <1>3, <1>4 DEF DeleteSecret, Ok, Refused, Databases
<1>7. /\ epoch' \in [Names -> Nat]
      /\ \A m \in Names : epoch'[m] = IF m = n THEN epoch[m] + 1 ELSE epoch[m]
  BY <1>1, <1>3
<1>8. ASSUME NEW m \in Names PROVE Follows(m)
  <2>1. CASE m = n
    <3>1. epoch[m] \in Nat /\ epoch'[m] = epoch[m] + 1
      BY <1>3, <1>7, <2>1
    <3>2. epoch[m] < epoch'[m]
      BY <3>1
    <3> QED BY <3>2 DEF Follows
  <2>2. CASE m # n
    <3>1. db.secrets[m] # NONE => db.secrets[m].current \in Nat
      BY <1>3, StoredRow DEF VersionNos
    <3>2. db.secrets[m] # NONE => db.secrets[m].current <= db.secrets[m].current
      BY <3>1
    <3>3. epoch'[m] = epoch[m]
      BY <1>7, <2>2
    <3> QED BY <1>6, <2>2, <3>2, <3>3, Zenon DEF Follows
  <2> QED BY <2>1, <2>2, Zenon
<1>9. IInv'
  BY <1>1, <1>3, <1>5, <1>7, <1>8, TablesStep
<1> QED BY <1>3, <1>6, <1>7, <1>9

(* expire removes only rows whose expiry the sweep's clock has reached.     *)
LEMMA ExpireStep ==
    ASSUME IInv, due' \in [Workers -> SUBSET Names],
           NEW t \in 0..now, expire(t)
    PROVE  IInv' /\ Extends(db, db', now)
<1> DEFINE c == [op |-> "ExpireGraceVersions", now |-> t]
<1>1. /\ db' = apply_command(db, c).db
      /\ UNCHANGED <<now, ops, backup, epoch, writes>>
  BY DEF expire
<1>2. now \in Nat
  BY DEF IInv, TypeOK
<1>3. c.op = "ExpireGraceVersions" /\ c.now \in Nat /\ c.now <= now
  BY <1>2
<1>4. /\ db \in Databases /\ Good(db)
      /\ writes' \in Nat /\ epoch' \in [Names -> Nat]
  BY <1>1 DEF IInv, TypeOK
<1> HIDE DEF c
<1>5. db' = ExpireGraceVersions(db, c).db
  BY <1>1, <1>3, ApplyDispatch
<1>6. db' \in Databases /\ Good(db') /\ Extends(db, db', now)
  BY <1>2, <1>3, <1>4, <1>5, ExpireGood
<1>7. \A n \in Names : Follows(n)
  BY <1>1, <1>6, ExtendsFollows
<1> QED BY <1>1, <1>4, <1>6, <1>7, TablesStep

(* take_backup keeps a copy of good tables.                                 *)
LEMMA BackupStep ==
    ASSUME IInv, due' \in [Workers -> SUBSET Names],
           take_backup
    PROVE  IInv'
<1>1. backup' = db /\ UNCHANGED <<db, now, ops, epoch, writes>>
  BY DEF take_backup
<1>2. TypeOK'
  BY <1>1 DEF IInv, TypeOK
<1>3. ASSUME NEW r \in Requests PROVE PendingFits(r)'
  BY <1>1, Zenon DEF IInv, PendingFits
<1>4. Good(db)' /\ Good(backup)'
  BY <1>1, ZenonT(40) DEF IInv, Good, CurrentIsReadable, OnlyCurrentIsOpen, NoOrphans, Scheduled,
         Derived, current_version
<1> QED BY <1>2, <1>3, <1>4 DEF IInv

(* restore puts back good tables and counts every secret, so that no        *)
(* operation in progress claims to follow them.                             *)
LEMMA RestoreStep ==
    ASSUME IInv, due' \in [Workers -> SUBSET Names],
           restore
    PROVE  IInv' /\ \A n \in Names : epoch'[n] # epoch[n]
<1> DEFINE c == [op |-> "RestoreDatabase", data |-> backup]
<1>1. /\ backup # NONE
      /\ db' = apply_command(db, c).db
      /\ epoch' = [n \in Names |-> epoch[n] + 1]
      /\ UNCHANGED <<now, ops, backup, writes>>
  BY DEF restore
<1>2. c.op = "RestoreDatabase" /\ c.data = backup
  OBVIOUS
<1>3. /\ backup \in Databases /\ Good(backup) /\ epoch \in [Names -> Nat]
      /\ writes' \in Nat
  BY <1>1 DEF IInv, TypeOK
<1> HIDE DEF c
<1>4. db' = backup
  BY <1>1, <1>2, ApplyDispatch DEF RestoreDatabase, Ok
<1>5. db' \in Databases /\ Good(db')
  BY <1>3, <1>4
<1>6. /\ epoch' \in [Names -> Nat]
      /\ \A n \in Names : epoch[n] < epoch'[n] /\ epoch'[n] # epoch[n]
  <2>1. \A n \in Names : epoch[n] \in Nat /\ epoch'[n] = epoch[n] + 1
    BY <1>1, <1>3, Zenon
  <2>2. \A x \in Nat : x + 1 \in Nat /\ x < x + 1 /\ x + 1 # x
    OBVIOUS
  <2> QED BY <1>1, <1>3, <2>1, <2>2, Zenon
<1>7. \A n \in Names : Follows(n)
  BY <1>6 DEF Follows
<1> QED BY <1>1, <1>3, <1>5, <1>6, <1>7, TablesStep

(* The clock moves nothing but itself.                                      *)
LEMMA ClockStep ==
    ASSUME IInv, due' \in [Workers -> SUBSET Names],
           now' \in Nat, UNCHANGED <<db, ops, backup, epoch, writes>>
    PROVE  IInv'
<1>1. TypeOK'
  BY DEF IInv, TypeOK
<1>2. ASSUME NEW r \in Requests PROVE PendingFits(r)'
  BY Zenon DEF IInv, PendingFits
<1>3. Good(db)' /\ (backup # NONE => Good(backup))'
  BY ZenonT(40) DEF IInv, Good, CurrentIsReadable, OnlyCurrentIsOpen, NoOrphans, Scheduled,
         Derived, current_version
<1> QED BY <1>1, <1>2, <1>3 DEF IInv

---------------------------------------------------------------------------
(* Invariance, and the theorems *)

(* A fresh vault satisfies the inductive invariant.                         *)
LEMMA InitIInv == Init => IInv
<1> SUFFICES ASSUME Init PROVE IInv
  OBVIOUS
<1>1. Idle \in Operations /\ Idle.pc = "idle"
  BY DEF Idle, Operations
<1>2. TypeOK
  BY <1>1, EmptyGood DEF Init, TypeOK
<1>3. \A r \in Requests : PendingFits(r)
  BY <1>1 DEF Init, PendingFits
<1> QED BY <1>2, <1>3, EmptyGood DEF Init, IInv

(* A worker's list only ever holds names of secrets.                        *)
LEMMA DueStep ==
    ASSUME IInv, [Next]_vars
    PROVE  due' \in [Workers -> SUBSET Names]
<1>1. due \in [Workers -> SUBSET Names]
  BY DEF IInv, TypeOK
<1>2. CASE due' = due
  BY <1>1, <1>2
<1>3. CASE \E w \in Workers : list_due(w)
  BY <1>1, <1>3 DEF list_due, due_rotations
<1>4. CASE \E w \in Workers, n \in Names : rotate_due(w, n)
  BY <1>1, <1>4 DEF rotate_due
<1>5. CASE \E r \in Requests : abandon(r)
  BY <1>1, <1>5 DEF abandon
<1> QED BY <1>2, <1>3, <1>4, <1>5, ZenonT(40)
        DEF Next, vars, create_secret, update_value, update_settings, load_userpass,
            commit, delete_secret, expire, take_backup, restore, tick

(* Every step of the service, the worker or the administrator preserves it. *)
LEMMA NextIInv == IInv /\ [Next]_vars => IInv'
<1> SUFFICES ASSUME IInv, [Next]_vars PROVE IInv'
  OBVIOUS
<1> due' \in [Workers -> SUBSET Names]
  BY DueStep
<1>0. \A r \in Clients : r \in Requests
  BY DEF Requests
<1>1. CASE \E n \in Names, k \in Kinds, f \in Formats, i \in OptIntervals, g \in Graces :
              create_secret(n, k, f, i, g)
  BY <1>1, CreateStep
<1>2. CASE \E r \in Clients, n \in Names, i \in OptIntervals, g \in OptGraces :
              update_value(r, n, i, g)
  BY <1>0, <1>2, UpdateValueStep
<1>3. CASE \E r \in Clients, n \in Names, i \in OptIntervals, g \in OptGraces :
              update_settings(r, n, i, g)
  BY <1>0, <1>3, UpdateSettingsStep
<1>4. CASE \E r \in Clients, n \in Names : rotate(r, n) /\ UNCHANGED due
  BY <1>0, <1>4, RotateStep
<1>5. CASE \E w \in Workers, n \in Names : rotate_due(w, n)
  <2> PICK w \in Workers, n \in Names : rotate_due(w, n)
    BY <1>5
  <2>1. CASE rotate(w, n)
    BY <2>1, RotateStep DEF Requests
  <2>2. CASE UNCHANGED <<db, now, ops, backup, epoch, writes>>
    BY <2>2, ClockStep DEF IInv, TypeOK
  <2> QED BY <2>1, <2>2 DEF rotate_due
<1>6. CASE \E r \in Requests : load_userpass(r)
  BY <1>6, LoadStep
<1>7. CASE \E r \in Requests : commit(r)
  BY <1>7, CommitStep
<1>8. CASE \E r \in Requests : abandon(r)
  BY <1>8, EndStep, Zenon DEF abandon
<1>9. CASE \E n \in Names : delete_secret(n)
  BY <1>9, DeleteStep
<1>10. CASE \E t \in 0..now : expire(t)
  BY <1>10, ExpireStep
<1>11. CASE take_backup
  BY <1>11, BackupStep
<1>12. CASE restore
  BY <1>12, RestoreStep
<1>13. CASE tick
  <2>1. now' \in Nat
    BY <1>13 DEF tick, IInv, TypeOK
  <2> QED BY <1>13, <2>1, ClockStep DEF tick
<1>14. CASE UNCHANGED vars
  <2>1. now' \in Nat
    BY <1>14 DEF vars, IInv, TypeOK
  <2> QED BY <1>14, <2>1, ClockStep DEF vars
<1>15. CASE \E w \in Workers : list_due(w)
  BY <1>15, ClockStep DEF list_due, IInv, TypeOK
<1> QED BY <1>1, <1>2, <1>3, <1>4, <1>5, <1>6, <1>7, <1>8, <1>9, <1>10, <1>11,
           <1>12, <1>13, <1>14, <1>15 DEF Next

(* IInv holds in every reachable state of the service.                      *)
THEOREM Invariance == Spec => []IInv
BY InitIInv, NextIInv, PTL DEF Spec

(* Type correctness: in particular no version number leaves the range that  *)
(* next_version's checked addition allows.                                  *)
THEOREM TypeCorrect == Spec => []TypeOK
<1>1. IInv => TypeOK
  BY DEF IInv
<1> QED BY <1>1, Invariance, PTL

(* A stored secret can always be read: get_secret finds the row that        *)
(* current_version names, however requests, sweeps, deletes and restores    *)
(* interleave.                                                              *)
THEOREM CurrentReadable == Spec => []CurrentAlwaysReadable
<1>1. IInv => CurrentAlwaysReadable
  BY DEF IInv, Good, CurrentAlwaysReadable
<1> QED BY <1>1, Invariance, PTL

(* No superseded credential stays valid for ever.                           *)
THEOREM SupersededExpires == Spec => []OnlyCurrentNeverExpires
<1>1. IInv => OnlyCurrentNeverExpires
  BY DEF IInv, Good, OnlyCurrentNeverExpires
<1> QED BY <1>1, Invariance, PTL

(* DeleteSecret and RestoreDatabase leave no version without its secret,    *)
(* and no pending command brings one back.                                  *)
THEOREM VersionsHaveSecrets == Spec => []NoOrphanVersions
<1>1. IInv => NoOrphanVersions
  BY DEF IInv, Good, NoOrphanVersions
<1> QED BY <1>1, Invariance, PTL

(* An automatic secret never drops out of due_rotations' schedule.          *)
THEOREM StaysScheduled == Spec => []AutomaticStaysScheduled
<1>1. IInv => AutomaticStaysScheduled
  BY DEF IInv, Good, AutomaticStaysScheduled
<1> QED BY <1>1, Invariance, PTL

(* expected_current prevents lost updates between any number of concurrent  *)
(* updates and rotations.                                                   *)
THEOREM LostUpdateFree == Spec => []NoLostUpdate
<1>1. IInv => NoLostUpdate
  BY Zenon DEF IInv, Good, NoLostUpdate
<1> QED BY <1>1, Invariance, PTL

(* A step that extends the tables, or leaves the rows alone, keeps every    *)
(* committed version final.                                                 *)
LEMMA ExtendsFinal ==
    ASSUME Extends(db, db', now), NEW n \in Names, NEW v \in VersionNos
    PROVE  RowFinal(n, v)
BY DEF Extends, RowsKept, RowFinal

(* Every step leaves committed versions final.                              *)
LEMMA NextFinal ==
    ASSUME IInv, Next, NEW n \in Names, NEW v \in VersionNos
    PROVE  RowFinal(n, v)
<1> due' \in [Workers -> SUBSET Names]
  BY DueStep
<1>1. CASE \E m \in Names, k \in Kinds, f \in Formats, i \in OptIntervals, g \in Graces :
              create_secret(m, k, f, i, g)
  BY <1>1, CreateStep, ExtendsFinal
<1>2. CASE \E r \in Requests : commit(r)
  BY <1>2, CommitStep, ExtendsFinal
<1>3. CASE \E t \in 0..now : expire(t)
  BY <1>3, ExpireStep, ExtendsFinal, Zenon
<1>4. CASE \E m \in Names : delete_secret(m)
  BY <1>4, DeleteStep DEF RowFinal
<1>5. CASE restore
  BY <1>5, RestoreStep DEF RowFinal
<1>6. CASE db' = db
  BY <1>6 DEF RowFinal
<1> QED BY <1>1, <1>2, <1>3, <1>4, <1>5, <1>6, Zenon
        DEF Next, update_value, update_settings, rotate, list_due, rotate_due,
            load_userpass, abandon, take_backup, tick

(* A committed version keeps its contents and its expiry until that expiry  *)
(* has passed, unless its secret is deleted or a backup restored.           *)
THEOREM FinalVersions == Spec => VersionsAreFinal
<1>1. IInv /\ [Next]_vars =>
        [\A n \in Names, v \in VersionNos : RowFinal(n, v)]_vars
  BY NextFinal
<1> QED BY <1>1, Invariance, PTL DEF Spec, VersionsAreFinal
=============================================================================
