---------------------------- MODULE AccessProofs ----------------------------
(***************************************************************************)
(* The tables of roles and tokens for any number of requests, roles,       *)
(* tokens, restarts and restores: IndexMatchesTokens, AdminRoleStays and   *)
(* RevokedStaysRevoked.                                                    *)
(***************************************************************************)
EXTENDS Access, TLAPS

(* Tables that satisfy both properties: what a dump may hold too.           *)
Sound(ro, to, ix) ==
    /\ ro \in [RoleNames -> RoleRecord \cup {NONE}]
    /\ to \in [Fingerprints -> TokenRecord \cup {NONE}]
    /\ ix \in [TokenNames -> Fingerprints \cup {NONE}]
    /\ ro["admin"] # NONE /\ ro["admin"].is_admin
    /\ \A f \in Fingerprints : to[f] # NONE => ix[to[f].name] = f
    /\ \A n \in TokenNames : ix[n] # NONE => to[ix[n]] # NONE /\ to[ix[n]].name = n

SoundNow == Sound(roles, tokens, tokens_by_name)

(* What a request carries that a later command uses.                        *)
Carries(q) ==
    /\ {"pc", "at", "is_admin"} \subseteq DOMAIN q
    /\ q.pc \in {"role", "touch", "add"} => q.fingerprint \in Fingerprints
    /\ q.pc = "touch" => q.at \in Nat
    /\ q.pc = "add" => q.add \in TokenRecord

RequestsCarry == DOMAIN requests = Requests /\ \A r \in Requests : Carries(requests[r])

SoundDump == backup # NONE => Sound(backup[1], backup[2], backup[3])

(* The inductive invariant: the properties hold of the tables and of the    *)
(* dump that may replace them.                                              *)
AccessInv == SoundNow /\ SoundDump /\ RequestsCarry /\ now \in Nat /\ epoch \in Nat

---------------------------------------------------------------------------
(* Each command keeps the tables sound *)

(* A role is created only where there is none.                              *)
LEMMA CreateRoleSound ==
    ASSUME SoundNow, NEW n \in RoleNames, NEW record \in RoleRecord,
           Write(CreateRole(n, record))
    PROVE  SoundNow'
BY AccessAssumption DEF SoundNow, Sound, Write, CreateRole, tables

(* Setting permissions leaves is_admin alone.                               *)
LEMMA SetPermissionsSound ==
    ASSUME SoundNow, NEW n \in RoleNames, NEW rules \in RuleSets,
           Write(SetPermissions(n, rules))
    PROVE  SoundNow'
<1>1. CASE roles[n] = NONE
  BY <1>1 DEF SoundNow, Write, SetPermissions, tables
<1>2. CASE roles[n] # NONE
  <2> DEFINE new == [roles[n] EXCEPT !.permissions = rules]
  <2>1. roles[n] \in RoleRecord
    BY <1>2 DEF SoundNow, Sound
  <2>2. /\ new \in RoleRecord /\ new.is_admin = roles[n].is_admin
        /\ new # NONE
    BY <2>1, NoneIsNoRecord DEF RoleRecord
  <2>3. /\ roles' = [roles EXCEPT ![n] = new]
        /\ tokens' = tokens /\ tokens_by_name' = tokens_by_name
    BY <1>2 DEF SoundNow, Sound, Write, SetPermissions
  <2> HIDE DEF new
  <2> QED
    BY <2>2, <2>3, AccessAssumption DEF SoundNow, Sound
<1> QED
  BY <1>1, <1>2

(* Roles other than the built-in one may go.                                *)
LEMMA DeleteRoleSound ==
    ASSUME SoundNow, NEW n \in RoleNames,
           Write(IF n = "admin" THEN tables ELSE DeleteRole(n))
    PROVE  SoundNow'
<1>1. CASE n = "admin" \/ HasTokens(n)
  BY <1>1 DEF SoundNow, Write, DeleteRole, tables
<1>2. CASE n # "admin" /\ ~HasTokens(n)
  <2>1. /\ roles' = [roles EXCEPT ![n] = NONE]
        /\ tokens' = tokens /\ tokens_by_name' = tokens_by_name
    BY <1>2 DEF Write, DeleteRole
  <2> QED
    BY <1>2, <2>1, AccessAssumption DEF SoundNow, Sound
<1> QED
  BY <1>1, <1>2

(* A token is added under a fresh fingerprint and a fresh name only.        *)
LEMMA AddTokenSound ==
    ASSUME SoundNow, NEW f \in Fingerprints, NEW token \in TokenRecord
    PROVE  LET t == AddToken(f, token) IN Sound(roles, t[2], t[3])
<1>1. CASE tokens[f] # NONE \/ tokens_by_name[token.name] # NONE
  BY <1>1 DEF SoundNow, AddToken, tables
<1>2. CASE tokens[f] = NONE /\ tokens_by_name[token.name] = NONE
  <2> DEFINE to == [tokens EXCEPT ![f] = token]
             ix == [tokens_by_name EXCEPT ![token.name] = f]
  <2>1. AddToken(f, token) = <<roles, to, ix>>
    BY <1>2 DEF AddToken
  <2>2. token.name \in TokenNames /\ token # NONE /\ f # NONE
    BY NoneIsNoRecord, AccessAssumption DEF TokenRecord
  <2>3. /\ to \in [Fingerprints -> TokenRecord \cup {NONE}]
        /\ ix \in [TokenNames -> Fingerprints \cup {NONE}]
    BY <2>2 DEF SoundNow, Sound
  <2>4. ASSUME NEW g \in Fingerprints, to[g] # NONE PROVE ix[to[g].name] = g
    <3>1. CASE g = f
      BY <3>1, <2>2 DEF SoundNow, Sound
    <3>2. CASE g # f
      <4>1. tokens[g] # NONE /\ to[g] = tokens[g] /\ tokens[g].name \in TokenNames
        BY <3>2, <2>4 DEF SoundNow, Sound, TokenRecord
      <4>2. tokens_by_name[tokens[g].name] = g /\ g # NONE
        BY <4>1, AccessAssumption DEF SoundNow, Sound
      <4> QED
        BY <1>2, <4>1, <4>2 DEF SoundNow, Sound
    <3> QED
      BY <3>1, <3>2
  <2>5. ASSUME NEW m \in TokenNames, ix[m] # NONE
        PROVE  to[ix[m]] # NONE /\ to[ix[m]].name = m
    <3>1. CASE m = token.name
      BY <3>1, <2>2 DEF SoundNow, Sound
    <3>2. CASE m # token.name
      <4>1. ix[m] = tokens_by_name[m] /\ ix[m] \in Fingerprints
        BY <3>2, <2>5 DEF SoundNow, Sound
      <4>2. tokens[ix[m]] # NONE /\ tokens[ix[m]].name = m
        BY <2>5, <4>1 DEF SoundNow, Sound
      <4> QED
        BY <1>2, <4>1, <4>2 DEF SoundNow, Sound
    <3> QED
      BY <3>1, <3>2
  <2> HIDE DEF to, ix
  <2> QED
    BY <2>1, <2>3, <2>4, <2>5 DEF SoundNow, Sound
<1> QED
  BY <1>1, <1>2

(* A token's row may change as long as it keeps its name.                   *)
LEMMA SameNameSound ==
    ASSUME SoundNow, NEW f \in Fingerprints, NEW new \in TokenRecord,
           tokens[f] # NONE, new.name = tokens[f].name,
           tokens' = [tokens EXCEPT ![f] = new], UNCHANGED <<roles, tokens_by_name>>
    PROVE  SoundNow'
<1>1. new # NONE
  BY NoneIsNoRecord
<1> QED
  BY <1>1 DEF SoundNow, Sound

(* Revoking changes a row and keeps its name.                               *)
LEMMA RevokeTokenSound ==
    ASSUME SoundNow, NEW n \in TokenNames, Write(RevokeToken(n))
    PROVE  SoundNow'
<1> DEFINE f == tokens_by_name[n]
           new == [tokens[f] EXCEPT !.revoked = TRUE]
<1>1. CASE f = NONE \/ tokens[f] = NONE \/ tokens[f].revoked
  BY <1>1 DEF SoundNow, Write, RevokeToken, tables
<1>2. CASE f # NONE /\ tokens[f] # NONE /\ ~tokens[f].revoked
  <2>1. f \in Fingerprints
    BY <1>2 DEF SoundNow, Sound
  <2>2. tokens[f] \in TokenRecord
    BY <1>2, <2>1 DEF SoundNow, Sound
  <2>3. new \in TokenRecord /\ new.name = tokens[f].name
    BY <2>2, Zenon DEF TokenRecord
  <2>4. /\ tokens' = [tokens EXCEPT ![f] = new]
        /\ roles' = roles /\ tokens_by_name' = tokens_by_name
    BY <1>2, <2>1 DEF SoundNow, Sound, Write, RevokeToken
  <2> HIDE DEF f, new
  <2> QED
    BY <1>2, <2>1, <2>3, <2>4, SameNameSound, Zenon
<1> QED
  BY <1>1, <1>2

(* A touch changes a row and keeps its name.                                *)
LEMMA TouchTokenSound ==
    ASSUME SoundNow, NEW f \in Fingerprints, NEW at \in Nat, NEW read,
           Write(TouchToken(f, at, read))
    PROVE  SoundNow'
<1> DEFINE new == [tokens[f] EXCEPT !.last_used_at = at]
<1>1. CASE tokens[f] = NONE
  BY <1>1 DEF SoundNow, Write, TouchToken, tables
<1>2. CASE tokens[f] # NONE
  <2>1. tokens[f] \in TokenRecord
    BY <1>2 DEF SoundNow, Sound
  <2>2. new \in TokenRecord /\ new.name = tokens[f].name
    BY <2>1 DEF TokenRecord
  <2>3. /\ tokens' = [tokens EXCEPT ![f] = new]
        /\ roles' = roles /\ tokens_by_name' = tokens_by_name
    BY <1>2 DEF SoundNow, Sound, Write, TouchToken
  <2> HIDE DEF new
  <2> QED
    BY <1>2, <2>2, <2>3, SameNameSound, Zenon
<1> QED
  BY <1>1, <1>2

---------------------------------------------------------------------------
(* Requests *)

(* A request that is idle, or has nothing left to write, carries nothing.   *)
LEMMA NothingCarried ==
    /\ Carries(Idle)
    /\ \A b : Carries(Ready(b))
BY DEF Carries, Idle, Ready

(* One request replaced by a good one.                                      *)
LEMMA OneReplaced ==
    ASSUME RequestsCarry, NEW r \in Requests, NEW q, Carries(q),
           requests' = [requests EXCEPT ![r] = q]
    PROVE  RequestsCarry'
BY DEF RequestsCarry, Carries

(* Every step keeps the requests in shape.                                  *)
LEMMA RequestsStep == AccessInv /\ [Next]_vars => RequestsCarry'
<1> SUFFICES ASSUME AccessInv, [Next]_vars PROVE RequestsCarry'
  OBVIOUS
<1> USE DEF AccessInv
<1>1. ASSUME NEW r \in Requests, Answered(r) PROVE RequestsCarry'
  BY <1>1, NothingCarried, OneReplaced, Zenon DEF Answered
<1>2. ASSUME NEW r \in Requests, NEW f \in Fingerprints, token_by_fingerprint(r, f)
      PROVE  RequestsCarry'
  <2> DEFINE q == [Idle EXCEPT !.pc = "role", !.fingerprint = f,
                               !.record = tokens[f]]
  <2>1. Carries(q)
    BY DEF Carries, Idle
  <2> QED
    BY <1>2, <2>1, OneReplaced, Zenon DEF token_by_fingerprint
<1>3. ASSUME NEW r \in Requests, role(r) PROVE RequestsCarry'
  <2> DEFINE found == roles[requests[r].record.role]
             is_admin == found # NONE /\ found.is_admin
             q == [requests[r] EXCEPT !.pc = "touch", !.at = now,
                                      !.is_admin = is_admin]
  <2>1. Carries(requests[r]) /\ requests[r].pc = "role"
    BY <1>3 DEF role, RequestsCarry
  <2>2. \/ requests' = [requests EXCEPT ![r] = q]
        \/ requests' = [requests EXCEPT ![r] = Ready(is_admin)]
    BY <1>3, Zenon DEF role
  <2> HIDE DEF is_admin
  <2>3. Carries(q)
    BY <2>1 DEF Carries
  <2> HIDE DEF q
  <2> QED
    BY <2>2, <2>3, NothingCarried, OneReplaced
<1>4. ASSUME NEW r \in Requests, touch(r) PROVE RequestsCarry'
  BY <1>4, NothingCarried, OneReplaced, Zenon DEF touch
<1>5. ASSUME NEW r \in Requests, NEW n \in TokenNames, NEW role_name \in RoleNames,
             NEW f \in Fingerprints, create_token(r, n, role_name, f)
      PROVE  RequestsCarry'
  <2> DEFINE t == [name |-> n, role |-> role_name, last_used_at |-> NONE,
                   revoked |-> FALSE]
             q == [Idle EXCEPT !.pc = "add", !.fingerprint = f, !.add = t]
  <2>1. CASE roles[role_name] = NONE
    BY <1>1, <1>5, <2>1 DEF create_token
  <2>2. CASE roles[role_name] # NONE
    <3>1. requests' = [requests EXCEPT ![r] = q]
      BY <1>5, <2>2 DEF create_token
    <3>2. t \in TokenRecord
      BY DEF TokenRecord
    <3> HIDE DEF t
    <3>3. Carries(q)
      BY <3>2 DEF Carries, Idle
    <3> HIDE DEF q
    <3> QED
      BY <3>1, <3>3, OneReplaced, Zenon
  <2> QED
    BY <2>1, <2>2
<1>6. CASE restart
  BY <1>6, NothingCarried DEF restart, RequestsCarry
<1>7. CASE tick \/ UNCHANGED vars
  BY <1>7 DEF tick, vars, RequestsCarry
<1> QED
  BY <1>1, <1>2, <1>3, <1>4, <1>5, <1>6, <1>7
     DEF Next, add_token, take_backup, restore, leave, create_role,
         set_permissions, delete_role, revoke_token

(* Every step keeps the tables sound.                                       *)
LEMMA TablesStep == AccessInv /\ [Next]_vars => SoundNow'
<1> SUFFICES ASSUME AccessInv, [Next]_vars PROVE SoundNow'
  OBVIOUS
<1> USE DEF AccessInv
<1>1. CASE restart
  <2>1. BootRecord \in TokenRecord /\ BootToken \in Fingerprints
    BY AccessAssumption DEF BootRecord, TokenRecord
  <2>2. seed_admin_role(roles) = roles
    BY DEF seed_admin_role, SoundNow, Sound
  <2> QED
    BY <1>1, <2>1, <2>2, AddTokenSound DEF restart, SoundNow
<1>2. ASSUME NEW r \in Requests, touch(r) PROVE SoundNow'
  <2>1. CASE Write(tables)
    BY <2>1 DEF Write, tables, SoundNow
  <2>2. CASE ~Write(tables)
    BY <1>2, <2>2, TouchTokenSound DEF touch, RequestsCarry, Carries
  <2> QED
    BY <2>1, <2>2
<1>3. ASSUME NEW r \in Requests, add_token(r) PROVE SoundNow'
  <2> DEFINE t == AddToken(requests[r].fingerprint, requests[r].add)
  <2>1. Sound(roles, t[2], t[3])
    BY <1>3, AddTokenSound DEF add_token, RequestsCarry, Carries
  <2>2. t[1] = roles
    BY DEF AddToken, tables
  <2> HIDE DEF t
  <2>3. Write(t)
    BY <1>3 DEF add_token, t
  <2> QED
    BY <2>1, <2>2, <2>3 DEF Write, SoundNow
<1>4. ASSUME NEW r \in Requests, restore(r) PROVE SoundNow'
  BY <1>4 DEF restore, Write, SoundDump, SoundNow
<1>5. ASSUME NEW r \in Requests, NEW n \in RoleNames, NEW record \in RoleRecord,
             create_role(r, n, record)
      PROVE  SoundNow'
  BY <1>5, CreateRoleSound DEF create_role
<1>6. ASSUME NEW r \in Requests, NEW n \in RoleNames, NEW rules \in RuleSets,
             set_permissions(r, n, rules)
      PROVE  SoundNow'
  BY <1>6, SetPermissionsSound DEF set_permissions
<1>7. ASSUME NEW r \in Requests, NEW n \in RoleNames, delete_role(r, n)
      PROVE  SoundNow'
  BY <1>7, DeleteRoleSound DEF delete_role
<1>8. ASSUME NEW r \in Requests, NEW n \in TokenNames, revoke_token(r, n)
      PROVE  SoundNow'
  BY <1>8, RevokeTokenSound DEF revoke_token
<1>9. ASSUME UNCHANGED tables PROVE SoundNow'
  BY <1>9 DEF tables, SoundNow
<1> QED
  BY <1>1, <1>2, <1>3, <1>4, <1>5, <1>6, <1>7, <1>8, <1>9, Zenon
     DEF Next, vars, tick, token_by_fingerprint, role, take_backup, leave,
         create_token

(* The inductive step.                                                      *)
LEMMA AccessInvStep == AccessInv /\ [Next]_vars => AccessInv'
<1> SUFFICES ASSUME AccessInv, [Next]_vars PROVE AccessInv'
  OBVIOUS
<1>1. /\ backup' = backup \/ backup' = tables
      /\ now' = now \/ now' = now + 1
      /\ epoch' = epoch \/ epoch' = epoch + 1
  BY Zenon DEF Next, vars, restart, tick, token_by_fingerprint, role, touch,
         add_token, take_backup, restore, leave, create_role, set_permissions,
         delete_role, create_token, revoke_token
<1>2. SoundDump'
  BY <1>1 DEF AccessInv, SoundDump, SoundNow, tables
<1> QED
  BY <1>1, <1>2, RequestsStep, TablesStep DEF AccessInv

(* The tables after the first start satisfy the invariant.                  *)
LEMMA AccessInvInit == Init => AccessInv
<1> SUFFICES ASSUME Init PROVE AccessInv
  OBVIOUS
<1>1. BootRecord \in TokenRecord /\ BootRecord.name = "bootstrap-admin"
  BY AccessAssumption DEF BootRecord, TokenRecord
<1>2. AdminRole \in RoleRecord /\ AdminRole.is_admin
  BY AccessAssumption DEF AdminRole, RoleRecord
<1>3. SoundNow
  BY <1>1, <1>2, AccessAssumption, NoneIsNoRecord DEF Init, SoundNow, Sound
<1>4. SoundDump /\ RequestsCarry /\ now \in Nat /\ epoch \in Nat
  BY NothingCarried DEF Init, SoundDump, RequestsCarry
<1> QED
  BY <1>3, <1>4 DEF AccessInv

(* The token table and its index name exactly each other in every reachable *)
(* state: commands, interleaved guards, restarts and restores included      *)
(* (apply.rs, AddToken and RevokeToken).                                    *)
THEOREM IndexMatchesTokensAlways == Spec => []IndexMatchesTokens
<1>1. AccessInv => IndexMatchesTokens
  BY DEF AccessInv, SoundNow, Sound, IndexMatchesTokens
<1> QED
  BY <1>1, AccessInvInit, AccessInvStep, PTL DEF Spec

(* The built-in admin role never disappears and never loses is_admin        *)
(* (manage.rs, delete_role; apply.rs, SetPermissions).                      *)
THEOREM AdminRoleStaysAlways == Spec => []AdminRoleStays
<1>1. AccessInv => AdminRoleStays
  BY Zenon DEF AccessInv, SoundNow, Sound, AdminRoleStays
<1> QED
  BY <1>1, AccessInvInit, AccessInvStep, PTL DEF Spec

(* What a step other than a restore may do to the rows of the tokens: add   *)
(* one, revoke one, or touch one as it is.                                  *)
RowStep == \/ tokens' = tokens
           \/ \E g \in Fingerprints, token \in TokenRecord :
                 tokens[g] = NONE /\ tokens' = [tokens EXCEPT ![g] = token]
           \/ \E g \in Fingerprints : tokens' = [tokens EXCEPT ![g].revoked = TRUE]
           \/ \E g \in Fingerprints, at \in Nat :
                 tokens' = [tokens EXCEPT ![g].last_used_at = at]

(* Every step but a restore is one of these.                                *)
LEMMA RowSteps ==
    ASSUME AccessInv, [Next]_vars, epoch' = epoch PROVE RowStep
<1>1. CASE restart
  <2>1. BootRecord \in TokenRecord /\ BootToken \in Fingerprints
    BY AccessAssumption DEF BootRecord, TokenRecord
  <2> QED
    BY <1>1, <2>1, Zenon DEF restart, AddToken, tables, RowStep
<1>2. ASSUME NEW r \in Requests, touch(r) PROVE RowStep
  <2>1. requests[r].fingerprint \in Fingerprints /\ requests[r].at \in Nat
    BY <1>2 DEF touch, AccessInv, RequestsCarry, Carries
  <2>2. \/ tokens' = tokens
        \/ tokens' = [tokens EXCEPT ![requests[r].fingerprint].last_used_at
                                       = requests[r].at]
    BY <1>2 DEF touch, Write, TouchToken, tables
  <2> QED
    BY <2>1, <2>2, Zenon DEF RowStep
<1>3. ASSUME NEW r \in Requests, add_token(r) PROVE RowStep
  <2>1. requests[r].fingerprint \in Fingerprints /\ requests[r].add \in TokenRecord
    BY <1>3 DEF add_token, AccessInv, RequestsCarry, Carries
  <2> QED
    BY <1>3, <2>1, Zenon DEF add_token, Write, AddToken, tables, RowStep
<1>4. ASSUME NEW r \in Requests, restore(r) PROVE RowStep
  BY <1>4 DEF restore, AccessInv
<1>5. ASSUME NEW r \in Requests, NEW n \in TokenNames, revoke_token(r, n)
      PROVE  RowStep
  <2>1. \/ tokens' = tokens
        \/ /\ tokens_by_name[n] # NONE
           /\ tokens' = [tokens EXCEPT ![tokens_by_name[n]].revoked = TRUE]
    BY <1>5 DEF revoke_token, Write, RevokeToken, tables
  <2>2. tokens_by_name[n] # NONE => tokens_by_name[n] \in Fingerprints
    BY DEF AccessInv, SoundNow, Sound
  <2> QED
    BY <2>1, <2>2, Zenon DEF RowStep
<1>6. ASSUME NEW r \in Requests, NEW n \in RoleNames,
             \/ \E record \in RoleRecord : create_role(r, n, record)
             \/ \E rules \in RuleSets : set_permissions(r, n, rules)
             \/ delete_role(r, n)
      PROVE  RowStep
  BY <1>6 DEF create_role, set_permissions, delete_role, Write, CreateRole,
              SetPermissions, DeleteRole, tables, RowStep
<1>7. ASSUME UNCHANGED tables PROVE RowStep
  BY <1>7 DEF tables, RowStep
<1> QED
  BY <1>1, <1>2, <1>3, <1>4, <1>5, <1>6, <1>7, Zenon
     DEF Next, vars, tick, token_by_fingerprint, role, take_backup, leave,
         create_token

(* A revoked token stays revoked unless a backup is restored, whatever a    *)
(* request that authenticated before the revocation still writes            *)
(* (guards.rs, AdminActor; apply.rs, TouchToken).                           *)
THEOREM RevokedStaysRevokedAlways == Spec => RevokedStaysRevoked
<1>1. ASSUME AccessInv, [Next]_vars, NEW f \in Fingerprints,
             tokens[f] # NONE, tokens[f].revoked, epoch' = epoch
      PROVE  tokens'[f] # NONE /\ tokens'[f].revoked
  <2>1. /\ tokens \in [Fingerprints -> TokenRecord \cup {NONE}]
        /\ tokens[f] \in TokenRecord
    BY <1>1 DEF AccessInv, SoundNow, Sound
  <2>2. ASSUME NEW at \in Nat
        PROVE  LET new == [tokens[f] EXCEPT !.last_used_at = at]
               IN  new \in TokenRecord /\ new.revoked = tokens[f].revoked
    BY <2>1 DEF TokenRecord
  <2>3. LET new == [tokens[f] EXCEPT !.revoked = TRUE]
        IN  new \in TokenRecord /\ new.revoked
    BY <2>1, Zenon DEF TokenRecord
  <2>4. RowStep
    BY <1>1, RowSteps
  <2>5. CASE tokens' = tokens
    BY <1>1, <2>5
  <2>6. ASSUME NEW g \in Fingerprints, NEW token \in TokenRecord, tokens[g] = NONE,
               tokens' = [tokens EXCEPT ![g] = token]
        PROVE  tokens'[f] # NONE /\ tokens'[f].revoked
    <3>1. tokens'[f] = tokens[f]
      BY <1>1, <2>1, <2>6
    <3> QED
      BY <1>1, <3>1
  <2>7. ASSUME NEW g \in Fingerprints, tokens' = [tokens EXCEPT ![g].revoked = TRUE]
        PROVE  tokens'[f] # NONE /\ tokens'[f].revoked
    <3>1. tokens'[f] = tokens[f] \/ tokens'[f] = [tokens[f] EXCEPT !.revoked = TRUE]
      BY <2>1, <2>7, Zenon
    <3> QED
      BY <1>1, <2>3, <3>1, NoneIsNoRecord, Zenon
  <2>8. ASSUME NEW g \in Fingerprints, NEW at \in Nat,
               tokens' = [tokens EXCEPT ![g].last_used_at = at]
        PROVE  tokens'[f] # NONE /\ tokens'[f].revoked
    <3>1. tokens'[f] = tokens[f] \/ tokens'[f] = [tokens[f] EXCEPT !.last_used_at = at]
      BY <2>1, <2>8
    <3> QED
      BY <1>1, <2>2, <3>1, NoneIsNoRecord, Zenon
  <2> QED
    BY <2>4, <2>5, <2>6, <2>7, <2>8 DEF RowStep
<1>2. AccessInv /\ [Next]_vars
      => [\A f \in Fingerprints :
            tokens[f] # NONE /\ tokens[f].revoked /\ epoch' = epoch
            => tokens'[f] # NONE /\ tokens'[f].revoked]_vars
  BY <1>1
<1> QED
  BY <1>2, AccessInvInit, AccessInvStep, PTL DEF Spec, RevokedStaysRevoked
=============================================================================
