------------------------------- MODULE Access -------------------------------
(***************************************************************************)
(* Roles and tokens: the commands of store/apply.rs that write the tables  *)
(* roles, tokens and tokens_by_name, the handlers of manage.rs that issue  *)
(* them, the AdminActor guard every management request passes, and the     *)
(* seeding a start of the process does.                                    *)
(*                                                                         *)
(* A request reads its token, then its token's role, then perhaps writes   *)
(* the token's last_used_at; only then does the handler run, and a handler *)
(* may itself read before it writes.  Commands are atomic; everything else *)
(* interleaves.  Roles carry a set of permission rules as opaque values;   *)
(* names a validator rejects and requests whose token is unknown or        *)
(* revoked end without touching these tables and are left out.             *)
(***************************************************************************)
EXTENDS Integers, FiniteSets

CONSTANTS Requests, RoleNames, TokenNames, Fingerprints, RuleSets, NONE,
          BootToken,    \* fingerprint of VAULT_BOOTSTRAP_TOKEN
          TouchSecs,    \* VAULT_TOKEN_TOUCH_SECS
          MaxNow,       \* bound on the clock
          MaxRestarts,  \* bound on restarts of the process
          MaxRestores   \* bound on restored backups

ASSUME AccessAssumption ==
    /\ "admin" \in RoleNames
    /\ "bootstrap-admin" \in TokenNames
    /\ BootToken \in Fingerprints
    /\ {} \in RuleSets
    /\ {TouchSecs, MaxNow, MaxRestarts, MaxRestores} \subseteq Nat
    /\ NONE \notin Nat \cup Fingerprints \cup TokenNames \cup RoleNames

VARIABLES roles,           \* the table roles
          tokens,          \* the table tokens, by fingerprint
          tokens_by_name,  \* the index from token name to fingerprint
          requests,        \* management requests in flight
          now,             \* the clock
          backup,          \* a dump an operator keeps
          minted,          \* history: fingerprints given out
          restarts, epoch  \* history: restarts and restores so far

tables == <<roles, tokens, tokens_by_name>>
vars == <<tables, requests, now, backup, minted, restarts, epoch>>

RoleRecord == [is_admin : BOOLEAN, permissions : RuleSets]
TokenRecord == [name : TokenNames, role : RoleNames,
                last_used_at : Nat \cup {NONE}, revoked : BOOLEAN]

ASSUME NoneIsNoRecord == NONE \notin RoleRecord /\ NONE \notin TokenRecord

Idle == [pc |-> "idle", fingerprint |-> NONE, record |-> NONE, at |-> 0,
         is_admin |-> FALSE, add |-> NONE]

---------------------------------------------------------------------------
(* Commands: what each makes of the tables, <<roles, tokens, by name>>      *)

CreateRole(n, role) ==
    IF roles[n] # NONE THEN tables
    ELSE <<[roles EXCEPT ![n] = role], tokens, tokens_by_name>>

(* A SetPermissions that writes a fresh record.                             *)
SetPermissionsFresh(n, rules) ==
    IF roles[n] = NONE THEN tables
    ELSE <<[roles EXCEPT ![n] = [is_admin |-> FALSE, permissions |-> rules]],
           tokens, tokens_by_name>>

SetPermissions(n, rules) ==
    IF roles[n] = NONE THEN tables
    ELSE <<[roles EXCEPT ![n].permissions = rules], tokens, tokens_by_name>>

(* Any token row counts, a revoked one too.                                 *)
HasTokens(n) == \E f \in Fingerprints : tokens[f] # NONE /\ tokens[f].role = n

DeleteRole(n) ==
    IF HasTokens(n) THEN tables
    ELSE <<[roles EXCEPT ![n] = NONE], tokens, tokens_by_name>>

(* An AddToken that does not ask whether the name is taken.                 *)
AddTokenAnyName(f, token) ==
    IF tokens[f] # NONE THEN tables
    ELSE <<roles, [tokens EXCEPT ![f] = token],
           [tokens_by_name EXCEPT ![token.name] = f]>>

AddToken(f, token) ==
    IF tokens[f] # NONE \/ tokens_by_name[token.name] # NONE THEN tables
    ELSE <<roles, [tokens EXCEPT ![f] = token],
           [tokens_by_name EXCEPT ![token.name] = f]>>

RevokeToken(n) ==
    LET f == tokens_by_name[n]
    IN  IF f = NONE THEN tables
        ELSE IF tokens[f] = NONE \/ tokens[f].revoked THEN tables
        ELSE <<roles, [tokens EXCEPT ![f].revoked = TRUE], tokens_by_name>>

(* A TouchToken that writes back the record the guard read.                 *)
TouchTokenStale(f, at, read) ==
    IF tokens[f] = NONE THEN tables
    ELSE <<roles, [tokens EXCEPT ![f] = [read EXCEPT !.last_used_at = at]],
           tokens_by_name>>

TouchToken(f, at, read) ==
    IF tokens[f] = NONE THEN tables
    ELSE <<roles, [tokens EXCEPT ![f].last_used_at = at], tokens_by_name>>

Write(t) == roles' = t[1] /\ tokens' = t[2] /\ tokens_by_name' = t[3]

---------------------------------------------------------------------------
(* Starting the process *)

AdminRole == [is_admin |-> TRUE, permissions |-> {}]
BootRecord == [name |-> "bootstrap-admin", role |-> "admin",
               last_used_at |-> NONE, revoked |-> FALSE]

seed_admin_role(old) == IF old["admin"] = NONE THEN [old EXCEPT !["admin"] = AdminRole]
                        ELSE old

(* RedbStore::open and build_state: the admin role, then the bootstrap      *)
(* token unless its fingerprint or its name is known.  Requests are lost.   *)
restart ==
    LET seeded == AddToken(BootToken, BootRecord)
    IN  /\ restarts < MaxRestarts
        /\ restarts' = restarts + 1
        /\ roles' = seed_admin_role(roles)
        /\ tokens' = seeded[2]
        /\ tokens_by_name' = seeded[3]
        /\ requests' = [r \in Requests |-> Idle]
        /\ UNCHANGED <<now, backup, minted, epoch>>

(* After the first start.                                                   *)
Init == /\ roles = [n \in RoleNames |-> IF n = "admin" THEN AdminRole ELSE NONE]
        /\ tokens = [f \in Fingerprints |-> IF f = BootToken THEN BootRecord ELSE NONE]
        /\ tokens_by_name = [n \in TokenNames |->
                                IF n = "bootstrap-admin" THEN BootToken ELSE NONE]
        /\ requests = [r \in Requests |-> Idle]
        /\ now = 0
        /\ backup = NONE
        /\ minted = {BootToken}
        /\ restarts = 0
        /\ epoch = 0

---------------------------------------------------------------------------
(* The guard *)

(* Only a known token that is not revoked gets further.                     *)
token_by_fingerprint(r, f) ==
    /\ requests[r].pc = "idle"
    /\ tokens[f] # NONE
    /\ ~tokens[f].revoked
    /\ requests' = [requests EXCEPT ![r] = [Idle EXCEPT !.pc = "role",
                       !.fingerprint = f, !.record = tokens[f]]]
    /\ UNCHANGED <<tables, now, backup, minted, restarts, epoch>>

TouchDue(token) == token.last_used_at = NONE \/ now - token.last_used_at >= TouchSecs

(* Past the guard only the actor's rights are kept.                         *)
Ready(is_admin) == [Idle EXCEPT !.pc = "ready", !.is_admin = is_admin]

(* The role as it is now (no role, no rights), and whether a touch is due   *)
(* by the token record read before.                                         *)
role(r) ==
    LET q == requests[r]
        found == roles[q.record.role]
        is_admin == found # NONE /\ found.is_admin
    IN  /\ q.pc = "role"
        /\ requests' = [requests EXCEPT ![r] =
              IF TouchDue(q.record)
              THEN [q EXCEPT !.pc = "touch", !.at = now, !.is_admin = is_admin]
              ELSE Ready(is_admin)]
        /\ UNCHANGED <<tables, now, backup, minted, restarts, epoch>>

(* A failed write of last_used_at is ignored.                               *)
touch(r) ==
    LET q == requests[r]
    IN  /\ q.pc = "touch"
        /\ Write(TouchToken(q.fingerprint, q.at, q.record)) \/ Write(tables)
        /\ requests' = [requests EXCEPT ![r] = Ready(q.is_admin)]
        /\ UNCHANGED <<now, backup, minted, restarts, epoch>>

---------------------------------------------------------------------------
(* Management handlers, for requests that require_admin lets through *)

Admitted(r) == requests[r].pc = "ready" /\ requests[r].is_admin
Answered(r) == requests' = [requests EXCEPT ![r] = Idle]

create_role(r, n, record) ==
    /\ Admitted(r) /\ Answered(r)
    /\ Write(CreateRole(n, record))
    /\ UNCHANGED <<now, backup, minted, restarts, epoch>>

set_permissions(r, n, rules) ==
    /\ Admitted(r) /\ Answered(r)
    /\ Write(SetPermissions(n, rules))
    /\ UNCHANGED <<now, backup, minted, restarts, epoch>>

delete_role(r, n) ==
    /\ Admitted(r) /\ Answered(r)
    /\ Write(IF n = "admin" THEN tables ELSE DeleteRole(n))
    /\ UNCHANGED <<now, backup, minted, restarts, epoch>>

(* create_token reads the role and makes up a fresh token ...               *)
create_token(r, n, role_name, f) ==
    /\ Admitted(r)
    /\ f \notin minted
    /\ IF roles[role_name] = NONE
       THEN Answered(r) /\ UNCHANGED minted
       ELSE /\ requests' = [requests EXCEPT ![r] = [Idle EXCEPT !.pc = "add",
                  !.fingerprint = f,
                  !.add = [name |-> n, role |-> role_name,
                           last_used_at |-> NONE, revoked |-> FALSE]]]
            /\ minted' = minted \cup {f}
    /\ UNCHANGED <<tables, now, backup, restarts, epoch>>

(* ... and then adds it.                                                    *)
add_token(r) ==
    /\ requests[r].pc = "add"
    /\ Answered(r)
    /\ Write(AddToken(requests[r].fingerprint, requests[r].add))
    /\ UNCHANGED <<now, backup, minted, restarts, epoch>>

revoke_token(r, n) ==
    /\ Admitted(r) /\ Answered(r)
    /\ Write(RevokeToken(n))
    /\ UNCHANGED <<now, backup, minted, restarts, epoch>>

take_backup(r) ==
    /\ epoch < MaxRestores
    /\ Admitted(r) /\ Answered(r)
    /\ backup' = tables
    /\ UNCHANGED <<tables, now, minted, restarts, epoch>>

restore(r) ==
    /\ epoch < MaxRestores
    /\ backup # NONE
    /\ Admitted(r) /\ Answered(r)
    /\ Write(backup)
    /\ epoch' = epoch + 1
    /\ UNCHANGED <<now, backup, minted, restarts>>

(* Every other end of a request: denied, a handler that only reads, a       *)
(* handler of another module, a client that goes away.                      *)
leave(r) ==
    /\ requests[r].pc # "idle"
    /\ Answered(r)
    /\ UNCHANGED <<tables, now, backup, minted, restarts, epoch>>

tick ==
    /\ now < MaxNow
    /\ now' = now + 1
    /\ UNCHANGED <<tables, requests, backup, minted, restarts, epoch>>

---------------------------------------------------------------------------
Next ==
    \/ restart
    \/ tick
    \/ \E r \in Requests, f \in Fingerprints : token_by_fingerprint(r, f)
    \/ \E r \in Requests : role(r) \/ touch(r) \/ add_token(r) \/ take_backup(r)
                           \/ restore(r) \/ leave(r)
    \/ \E r \in Requests, n \in RoleNames :
          \/ \E record \in RoleRecord : create_role(r, n, record)
          \/ \E rules \in RuleSets : set_permissions(r, n, rules)
          \/ delete_role(r, n)
    \/ \E r \in Requests, n \in TokenNames :
          \/ \E role_name \in RoleNames, f \in Fingerprints :
                create_token(r, n, role_name, f)
          \/ revoke_token(r, n)

Spec == Init /\ [][Next]_vars

---------------------------------------------------------------------------
(* Properties *)

(* RevokeToken finds a token through tokens_by_name: the index and the      *)
(* table name exactly each other, so that every stored token can be revoked *)
(* and no two share a name, after any interleaving, restart and restore.    *)
IndexMatchesTokens ==
    /\ \A f \in Fingerprints : tokens[f] # NONE => tokens_by_name[tokens[f].name] = f
    /\ \A n \in TokenNames : tokens_by_name[n] # NONE =>
          tokens[tokens_by_name[n]] # NONE /\ tokens[tokens_by_name[n]].name = n

(* Revoking is final: no touch by a request that authenticated before, no   *)
(* second token of the name and no restart brings a token back.  Only       *)
(* restoring an older backup may.                                           *)
RevokedStaysRevoked ==
    [][\A f \in Fingerprints :
          tokens[f] # NONE /\ tokens[f].revoked /\ epoch' = epoch
          => tokens'[f] # NONE /\ tokens'[f].revoked]_vars

(* The built-in admin role exists and stays a superuser role, with or       *)
(* without tokens, whatever is deleted, changed or restored.                *)
AdminRoleStays == roles["admin"] # NONE /\ roles["admin"].is_admin
=============================================================================
