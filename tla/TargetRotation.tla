--------------------------- MODULE TargetRotation ---------------------------
(***************************************************************************)
(* Rotating a userpass secret that has a pg_replica target: rotate in      *)
(* service.rs with apply_target, self_login_candidates and                 *)
(* schedule_apply_retry, the worker's expiry sweep, and the Postgres role  *)
(* whose password is being changed.                                        *)
(*                                                                         *)
(* A rotation mints a password, commits it to the vault as the next        *)
(* version, collects the stored passwords it can log in with, tries them   *)
(* against Postgres one by one and, if none works, schedules a retry.      *)
(* Rotations of the worker and of administrators overlap, a handler can    *)
(* end at any await (a crash, or the client going away), and Postgres can  *)
(* be out of reach or its answer be lost.                                  *)
(*                                                                         *)
(* The secret authenticates as itself (login_secret absent or equal to its *)
(* own name).  A version row's id is the password it stores.  The list of  *)
(* target hosts is one primary that is reachable or not.                   *)
(***************************************************************************)
EXTENDS SecretStore, FiniteSets, FiniteSetsExt

CONSTANTS Secret,         \* the rotated secret
          Workers,        \* rotation workers: rotate only when due
          Admins,         \* administrators: rotate at any time
          Interval,       \* rotation_interval_secs
          Grace,          \* grace_period_secs
          Retry,          \* APPLY_RETRY_SECS
          MaxCandidates,  \* MAX_LOGIN_CANDIDATES
          DownTimes,      \* clock values at which Postgres is out of reach
          MaxTime,        \* bound on the clock
          MaxForced,      \* bound on administrators' rotations
          MaxCrashes      \* bound on handlers that end before their last step

ASSUME TargetAssumption ==
    /\ Secret \in Names
    /\ {Interval, Retry, MaxCandidates} \subseteq Nat \ {0}
    /\ {Grace, MaxTime, MaxForced, MaxCrashes} \subseteq Nat
    /\ DownTimes \subseteq Nat

Rotators == Workers \cup Admins

VARIABLES db,         \* the secret's rows
          now,        \* now_unix()
          ops,        \* each rotation in flight
          held,       \* the password Postgres accepts
          minted,     \* history: passwords generated so far
          committed,  \* history: passwords that became a version
          past        \* history: rotations forced, handlers that ended early,
                      \* and whether a rotation was disturbed: it began while
                      \* another was in flight, or ended before its last step

vars == <<db, now, ops, held, minted, committed, past>>

Idle == [pc |-> "idle", now |-> 0, previous |-> 0, password |-> 0, logins |-> {}]

Row(password) == [id |-> password, base |-> 0, clean |-> TRUE, expires |-> NONE]
Current == current_version(db, Secret)

(* The secret exists, and Postgres holds its first password.                *)
Init ==
    /\ db = [EmptyDb EXCEPT
                !.secrets[Secret] = [kind |-> "automatic", format |-> "userpass",
                                     interval |-> Interval, grace |-> Grace,
                                     current |-> 1, next |-> Interval],
                !.versions[Secret][1] = Row(1)]
    /\ now = 0
    /\ ops = [r \in Rotators |-> Idle]
    /\ held = 1
    /\ minted = 1
    /\ committed = {1}
    /\ past = [forced |-> 0, crashes |-> 0, disturbed |-> FALSE]

---------------------------------------------------------------------------
Go(r, pc) == [ops EXCEPT ![r].pc = pc]

(* rotate up to the commit: read the secret, mint a password.  A worker may *)
(* act on a list that is out of date; that is an administrator's rotation.  *)
rotate(r) ==
    LET row == db.secrets[Secret]
    IN  /\ ops[r].pc = "idle"
        /\ r \in Workers => Secret \in due_rotations(db, now)
        /\ r \in Admins => past.forced < MaxForced
        /\ next_version(row.current) # NONE
        /\ minted' = minted + 1
        /\ ops' = [ops EXCEPT ![r] = [pc |-> "commit", now |-> now,
                       previous |-> row.current, password |-> minted + 1,
                       logins |-> {}]]
        /\ past' = [past EXCEPT !.forced = IF r \in Admins THEN @ + 1 ELSE @,
                                !.disturbed = @ \/ \E o \in Rotators : ops[o].pc # "idle"]
        /\ UNCHANGED <<db, now, held, committed>>

(* grace_secs and the interval never change in this module, so the ones of  *)
(* the row are the ones the rotation read.                                  *)
PutCommand(r) ==
    [op |-> "PutVersion", name |-> Secret, expected |-> ops[r].previous,
     version |-> ops[r].previous + 1, row |-> Row(ops[r].password),
     supersede |-> ops[r].now + Grace, set_interval |-> NONE, set_grace |-> NONE,
     next |-> SetTo(ops[r].now + Interval)]

(* The order docs/INTEGRATION.md describes: the password goes to Postgres   *)
(* before the vault commits it.                                             *)
commit_after_apply(r) ==
    LET res == apply_command(db, PutCommand(r))
    IN  /\ ops[r].pc = "commit"
        /\ held' = ops[r].password
        /\ db' = res.db
        /\ committed' = IF res.result = "ok"
                        THEN committed \cup {ops[r].password} ELSE committed
        /\ ops' = [ops EXCEPT ![r] = Idle]
        /\ UNCHANGED <<now, minted, past>>

(* The rotation that loses on expected_current ends here.                   *)
commit(r) ==
    LET res == apply_command(db, PutCommand(r))
    IN  /\ ops[r].pc = "commit"
        /\ db' = res.db
        /\ IF res.result = "ok"
           THEN /\ committed' = committed \cup {ops[r].password}
                /\ ops' = Go(r, "candidates")
           ELSE /\ ops' = [ops EXCEPT ![r] = Idle]
                /\ UNCHANGED committed
        /\ UNCHANGED <<now, held, minted, past>>

(* A list of nothing but the version just superseded.                       *)
CandidatesPreviousOnly(previous, t) == {previous}

(* The versions tried: the one just superseded, then the newest live ones,  *)
(* the version just committed among them, MAX_LOGIN_CANDIDATES in all.      *)
Candidates(previous, t) ==
    LET live == live_versions(db, Secret, t) \ {previous}
    IN  {previous} \cup
        {v \in live : Cardinality({u \in live : u > v}) < MaxCandidates - 1}

self_login_candidates(r) ==
    LET stored == {v \in Candidates(ops[r].previous, ops[r].now) :
                      db.versions[Secret][v] # NONE}
        logins == {[version |-> v, password |-> db.versions[Secret][v].id] :
                      v \in stored}
    IN  /\ ops[r].pc = "candidates"
        /\ ops' = [ops EXCEPT ![r].logins = logins,
                              ![r].pc = IF logins = {} THEN "retry" ELSE "login"]
        /\ UNCHANGED <<db, now, held, minted, committed, past>>

Up == now \notin DownTimes

(* The previous version first, then from the newest down.                   *)
FirstLogin(r) ==
    CHOOSE l \in ops[r].logins :
        \/ l.version = ops[r].previous
        \/ /\ \A k \in ops[r].logins : k.version # ops[r].previous
           /\ \A k \in ops[r].logins : k.version <= l.version

(* One refused login ends the attempt.                                      *)
LoginFailedGivesUp(r) == ops' = [ops EXCEPT ![r].logins = {}, ![r].pc = "retry"]

(* A candidate fails: the next one is tried, or the apply has failed.       *)
LoginFailed(r) ==
    LET rest == ops[r].logins \ {FirstLogin(r)}
    IN  ops' = [ops EXCEPT ![r].logins = rest,
                           ![r].pc = IF rest = {} THEN "retry" ELSE "login"]

apply_refused(r) ==
    /\ ops[r].pc = "login"
    /\ ~Up \/ FirstLogin(r).password # held
    /\ LoginFailed(r)
    /\ UNCHANGED <<db, now, held, minted, committed, past>>

apply_accepted(r) ==
    /\ ops[r].pc = "login"
    /\ Up /\ FirstLogin(r).password = held
    /\ held' = ops[r].password
    /\ ops' = [ops EXCEPT ![r] = Idle]
    /\ UNCHANGED <<db, now, minted, committed, past>>

(* Postgres changes the password, but the connection fails before the       *)
(* answer: the vault takes it for a failure.                                *)
apply_answer_lost(r) ==
    /\ ops[r].pc = "login"
    /\ Up /\ FirstLogin(r).password = held
    /\ held' = ops[r].password
    /\ LoginFailed(r)
    /\ UNCHANGED <<db, now, minted, committed, past>>

(* A failed apply that leaves the next attempt a full interval away.        *)
no_apply_retry(r) ==
    /\ ops[r].pc = "retry"
    /\ ops' = [ops EXCEPT ![r] = Idle]
    /\ UNCHANGED <<db, now, held, minted, committed, past>>

schedule_apply_retry(r) ==
    /\ ops[r].pc = "retry"
    /\ db' = apply_command(db,
                [op |-> "UpdateMeta", name |-> Secret,
                 expected |-> ops[r].previous + 1, set_interval |-> NONE,
                 set_grace |-> NONE, next |-> SetTo(ops[r].now + Retry)]).db
    /\ ops' = [ops EXCEPT ![r] = Idle]
    /\ UNCHANGED <<now, held, minted, committed, past>>

(* The handler ends at an await: its node crashes, the HTTP client goes     *)
(* away, or a store or KMS call it makes fails.                             *)
crash(r) ==
    /\ ops[r].pc # "idle"
    /\ past.crashes < MaxCrashes
    /\ past' = [past EXCEPT !.crashes = @ + 1, !.disturbed = TRUE]
    /\ ops' = [ops EXCEPT ![r] = Idle]
    /\ UNCHANGED <<db, now, held, minted, committed>>

expire ==
    /\ db' = apply_command(db, [op |-> "ExpireGraceVersions", now |-> now]).db
    /\ UNCHANGED <<now, ops, held, minted, committed, past>>

tick ==
    /\ now < MaxTime
    /\ now' = now + 1
    /\ UNCHANGED <<db, ops, held, minted, committed, past>>

Next == \/ \E r \in Rotators : \/ rotate(r)
                               \/ commit(r)
                               \/ self_login_candidates(r)
                               \/ apply_refused(r)
                               \/ apply_accepted(r)
                               \/ apply_answer_lost(r)
                               \/ schedule_apply_retry(r)
                               \/ crash(r)
        \/ expire
        \/ tick

Spec == Init /\ [][Next]_vars

(* The worker's timer keeps ticking and no await hangs for ever.            *)
Fairness == /\ WF_vars(tick)
            /\ \A w \in Workers : WF_vars(rotate(w))
            /\ \A r \in Rotators :
                 WF_vars(\/ commit(r) \/ self_login_candidates(r)
                         \/ apply_refused(r) \/ apply_accepted(r)
                         \/ schedule_apply_retry(r))

FairSpec == Spec /\ Fairness

---------------------------------------------------------------------------
(* Properties *)

(* "A concurrent rotation loses here, on expected_current, and never        *)
(* touches the external system" (service.rs): whatever password Postgres    *)
(* accepts was first committed as a version of the secret.                  *)
HeldWasCommitted == held \in committed

(* "the vault and Postgres never silently diverge" and "the secret is       *)
(* scheduled for another attempt about a minute later" (docs/API.md): when  *)
(* no rotation is running, Postgres holds the current password or the next  *)
(* attempt is no further away than the retry delay.                         *)
NeverSilentlyDiverges ==
    (\A r \in Rotators : ops[r].pc = "idle") =>
        \/ held = Current.id
        \/ db.secrets[Secret].next <= now + Retry

(* As long as no rotation was disturbed, a failed apply always leaves the   *)
(* next attempt within the retry delay, whoever rotated and whichever       *)
(* answer of Postgres was lost.                                             *)
FailedApplyIsRetried == past.disturbed \/ NeverSilentlyDiverges

(* "the password the external system holds may be the one just superseded,  *)
(* or an older one if an earlier apply failed" (service.rs,                 *)
(* self_login_candidates): the list a rotation draws up contains the        *)
(* password Postgres holds, as long as no rotation was disturbed.           *)
HeldPasswordIsTried ==
    [][\A r \in Rotators :
          ~past.disturbed /\
          ops[r].pc = "candidates" /\ ops'[r].pc \in {"login", "retry"} =>
              \E l \in ops'[r].logins : l.password = held]_vars

(* A divergence does not last: Postgres ends up with the current password   *)
(* once it can be reached again, or a rotation is disturbed first.          *)
EventuallyInStep ==
    [](held # Current.id => <>(held = Current.id \/ past.disturbed))
=============================================================================
