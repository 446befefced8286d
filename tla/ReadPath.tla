------------------------------ MODULE ReadPath ------------------------------
(***************************************************************************)
(* Reading and verifying one secret on one node: ReaderGuard and the first *)
(* steps of AdminActor (guards.rs), the failure counters (lockout.rs and   *)
(* RecordAuthFailure), get_secret, verify and open_version (service.rs),   *)
(* the cache of data keys (cache.rs) and RetryingKms (kms.rs).             *)
(*                                                                         *)
(* Requests of one peer overlap.  A failure counter is read before a       *)
(* request is judged and written after, with other requests in between;    *)
(* versions are replaced, expire, are re-wrapped, or the secret is deleted *)
(* and created again while a request holds the rows it has read; KMS goes  *)
(* away; a client goes away; the node restarts.                            *)
(*                                                                         *)
(* A version's value is stood for by the data key that seals it: every     *)
(* version has its own.                                                    *)
(***************************************************************************)
EXTENDS Integers, Sequences, FiniteSets

CONSTANTS Requests,      \* requests a peer has in flight at a time
          NONE,
          Scenarios,     \* VAULT_AUTH_MAX_FAILURES (0 turns the counters off),
                         \* the requests made, and bounds on ticks and events
          Window,        \* VAULT_AUTH_WINDOW_SECS
          Lockout,       \* VAULT_AUTH_LOCKOUT_SECS
          Grace,         \* grace period of a superseded version
          Ttl,           \* VAULT_DEK_CACHE_TTL_SECS
          MaxEntries,    \* MAX_ENTRIES of the cache
          MaxRetries,    \* VAULT_KMS_MAX_RETRIES
          MaxVersion     \* bound on version numbers

ASSUME ReadPathAssumption ==
    /\ IsFiniteSet(Requests)
    /\ {Window, Lockout, Grace, Ttl, MaxEntries, MaxRetries, MaxVersion}
          \subseteq Nat
    /\ Scenarios \subseteq [failures : Nat, requests : SUBSET Requests,
                       ticks : Nat, events : Nat]
    /\ MaxEntries > 0 /\ MaxVersion > 0
    /\ NONE \notin Nat

VARIABLES now,       \* now_unix()
          rows,      \* the secret's stored versions
          current,   \* its current version, 0 when there is no such secret
          kms,       \* whether KMS answers
          cache,     \* DekCache
          lockouts,  \* LOCKOUTS: the peer's own counter and its verify one
          requests,  \* each request in flight
          keys,      \* history: data keys generated so far
          failed,    \* history: when each recorded failure came
          denied,    \* history: whether a guard ever refused the peer
          seen,      \* history: whether the presented value was live at some
                     \* time, and at all times, since the request came
          events,    \* history: how many events there were
          scenario   \* the configuration, which never changes

secret == <<rows, current, keys>>
history == <<failed, denied>>
vars == <<now, secret, kms, cache, lockouts, requests, history, seen, events,
          scenario>>

Versions == 1..MaxVersion
Counters == {"peer", "verify"}

(* A row: its data key, how often that key was wrapped anew, its expiry.    *)
Row(key) == [key |-> key, wrapped |-> 0, expires |-> NONE]
Rows == [key : Nat, wrapped : Nat, expires : Nat \cup {NONE}]

(* A row of LOCKOUTS.                                                       *)
LockoutRecord == [failures : Nat, window_start : Nat, locked_until : Nat \cup {NONE}]

(* A missing row is no row.                                                 *)
ASSUME NoneIsNoRow == NONE \notin Rows \cup LockoutRecord

Idle == [pc |-> "idle", kind |-> NONE, value |-> 0, at |-> 0, todo |-> {},
         attempt |-> 0]
Unseen == [ever |-> FALSE, always |-> FALSE]

Init == /\ now = 0
        /\ rows = [v \in Versions |-> IF v = 1 THEN Row(1) ELSE NONE]
        /\ current = 1
        /\ kms = TRUE
        /\ cache = {}
        /\ lockouts = [c \in Counters |-> NONE]
        /\ requests = [q \in Requests |-> Idle]
        /\ keys = 1
        /\ failed = [c \in Counters |-> <<>>]
        /\ denied = FALSE
        /\ seen = [q \in Requests |-> Unseen]
        /\ events = 0
        /\ scenario \in Scenarios

---------------------------------------------------------------------------
(* What happens around the requests *)

MaxFailures == scenario.failures

Happens == /\ events < scenario.events
           /\ events' = events + 1
           /\ UNCHANGED scenario

tick ==
    /\ now < scenario.ticks
    /\ now' = now + 1
    /\ UNCHANGED <<secret, kms, cache, lockouts, requests, history, events, scenario>>

(* CreateSecret, or PutVersion: the old version stays for the grace period. *)
put_version ==
    /\ Happens
    /\ current < MaxVersion
    /\ keys' = keys + 1
    /\ current' = current + 1
    /\ rows' = [v \in Versions |->
                   IF v = current + 1 THEN Row(keys + 1)
                   ELSE IF v = current THEN [rows[v] EXCEPT !.expires = now + Grace]
                   ELSE rows[v]]
    /\ UNCHANGED <<now, kms, cache, lockouts, requests, history>>

(* DeleteSecret: a secret created later starts at version 1 again.          *)
delete_secret ==
    /\ Happens
    /\ current > 0
    /\ current' = 0
    /\ rows' = [v \in Versions |-> NONE]
    /\ UNCHANGED <<now, keys, kms, cache, lockouts, requests, history>>

(* RewrapVersion: the same data key, wrapped anew.                          *)
rewrap_version(v) ==
    /\ Happens
    /\ rows[v] # NONE
    /\ rows' = [rows EXCEPT ![v].wrapped = @ + 1]
    /\ UNCHANGED <<now, current, keys, kms, cache, lockouts, requests, history>>

expire_grace_versions ==
    /\ \E v \in Versions : rows[v] # NONE /\ rows[v].expires # NONE
                              /\ rows[v].expires <= now
    /\ rows' = [v \in Versions |->
                   IF rows[v] # NONE /\ rows[v].expires # NONE
                         /\ rows[v].expires <= now
                   THEN NONE ELSE rows[v]]
    /\ UNCHANGED <<now, current, keys, kms, cache, lockouts, requests, history,
                   events, scenario>>

kms_changes ==
    /\ Happens
    /\ kms' = ~kms
    /\ UNCHANGED <<now, secret, cache, lockouts, requests, history>>

(* The node stops and starts: requests and cache go, the counters stay.     *)
restart ==
    /\ Happens
    /\ cache' = {}
    /\ requests' = [q \in Requests |-> Idle]
    /\ UNCHANGED <<now, secret, kms, lockouts, history>>

---------------------------------------------------------------------------
(* Failure counters *)

(* check_key *)
Locked(c) == /\ lockouts[c] # NONE
             /\ lockouts[c].locked_until # NONE
             /\ lockouts[c].locked_until > now

(* A window that takes one failure more.                                    *)
Full_strict(failures) == failures > MaxFailures

Full(failures) == failures >= MaxFailures

(* RecordAuthFailure: a window that has passed starts over; the lock is set *)
(* by the failure that fills the window and by every later one in it.       *)
RecordAuthFailure(c) ==
    LET old == IF lockouts[c] = NONE
               THEN [failures |-> 0, window_start |-> now, locked_until |-> NONE]
               ELSE lockouts[c]
        elapsed == now - old.window_start >= Window
        failures == (IF elapsed THEN 0 ELSE old.failures) + 1
    IN  [failures |-> failures,
         window_start |-> IF elapsed THEN now ELSE old.window_start,
         locked_until |-> IF Full(failures) THEN now + Lockout
                          ELSE old.locked_until]

(* record_key: a failure the store does not take is only logged.            *)
Record(c) ==
    \/ UNCHANGED <<lockouts, failed>>
    \/ /\ MaxFailures # 0
       /\ lockouts' = [lockouts EXCEPT ![c] = RecordAuthFailure(c)]
       /\ failed' = [failed EXCEPT ![c] = Append(@, now)]

---------------------------------------------------------------------------
(* Requests *)

Go(q, pc) == requests' = [requests EXCEPT ![q].pc = pc]
End(q) == requests' = [requests EXCEPT ![q] = Idle]

around == <<now, secret, kms, events, scenario>>

(* ReaderGuard or AdminActor turns the peer away: its address is not on the *)
(* allowlist, or its token is missing, unknown or revoked.                  *)
guard_refuses(q) ==
    /\ requests[q].pc = "idle"
    /\ ~Locked("peer")
    /\ Go(q, "denied")
    /\ UNCHANGED <<around, cache, lockouts, history>>

record_denied(q) ==
    /\ requests[q].pc = "denied"
    /\ Record("peer")
    /\ denied' = TRUE
    /\ End(q)
    /\ UNCHANGED <<around, cache>>

Stored(v) == [version |-> v, key |-> rows[v].key, wrapped |-> rows[v].wrapped]

(* ReaderGuard lets the peer through, and get_secret reads the current      *)
(* version, if there is one.                                                *)
get_secret(q) ==
    /\ requests[q].pc = "idle"
    /\ ~Locked("peer")
    /\ current # 0
    /\ requests' = [requests EXCEPT ![q] =
                       [Idle EXCEPT !.pc = "open", !.kind = "get",
                                    !.todo = {Stored(current)}]]
    /\ UNCHANGED <<around, cache, lockouts, history>>

(* ReaderGuard and check_verify let the peer through with a value: the      *)
(* empty one, which is refused at once, one a version has or had, or        *)
(* another.  Then verify reads the clock.                                   *)
verify(q) ==
    /\ requests[q].pc = "idle"
    /\ ~Locked("peer") /\ ~Locked("verify")
    /\ \/ requests' = [requests EXCEPT ![q] =
                          [Idle EXCEPT !.pc = "invalid", !.kind = "verify"]]
       \/ \E value \in 0..keys :
             requests' = [requests EXCEPT ![q] =
                            [Idle EXCEPT !.pc = "read", !.kind = "verify",
                                         !.value = value, !.at = now]]
    /\ UNCHANGED <<around, cache, lockouts, history>>

(* Nothing but the current version.                                         *)
live_versions_current(t) == {current} \ {0}

live_versions(t) ==
    {v \in Versions : /\ rows[v] # NONE
                      /\ rows[v].expires = NONE \/ t < rows[v].expires}

(* verify reads the live versions.                                          *)
verify_read(q) ==
    LET live == live_versions(requests[q].at)
    IN  /\ requests[q].pc = "read"
        /\ requests' = [requests EXCEPT
                           ![q].pc = IF live = {} THEN "invalid" ELSE "open",
                           ![q].at = 0,
                           ![q].todo = {Stored(v) : v \in live}]
        /\ UNCHANGED <<around, cache, lockouts, history>>

(* The newest version the request has not opened yet.                       *)
Next_row(q) == CHOOSE r \in requests[q].todo :
                   \A o \in requests[q].todo : o.version <= r.version

(* What follows when open_version has a data key for the row: with a key    *)
(* that is not the row's the ciphertext does not open.                      *)
Opened(q, key) ==
    LET row == Next_row(q)
        rest == requests[q].todo \ {row}
    IN  IF key # row.key THEN Go(q, "garbled")
        ELSE IF requests[q].kind = "get" THEN End(q)
        ELSE IF requests[q].value = row.key
        THEN requests' = [requests EXCEPT ![q].pc = "valid", ![q].todo = {},
                                          ![q].attempt = 0]
        ELSE requests' = [requests EXCEPT
                ![q] = [@ EXCEPT !.pc = IF rest = {} THEN "invalid" ELSE "open",
                                 !.todo = rest, !.attempt = 0]]

(* Entries told apart by version number.                                    *)
cache_key_version(row) == row.version

(* The cache is keyed by the wrapped key.                                   *)
cache_key(row) == <<row.key, row.wrapped>>

Fresh(e) == now - e.at < Ttl

(* DekCache.get, a hit.                                                     *)
cache_hit(q) ==
    /\ requests[q].pc = "open"
    /\ \E e \in cache : /\ e.tag = cache_key(Next_row(q))
                        /\ Fresh(e)
                        /\ Opened(q, e.key)
    /\ UNCHANGED <<around, cache, lockouts, history>>

(* DekCache.get, a miss: an entry that is too old goes.                     *)
cache_miss(q) ==
    LET found == {e \in cache : e.tag = cache_key(Next_row(q))}
    IN  /\ requests[q].pc = "open"
        /\ \A e \in found : ~Fresh(e)
        /\ cache' = cache \ found
        /\ Go(q, "kms")
        /\ UNCHANGED <<around, lockouts, history>>

(* A full cache that only drops what is too old.                            *)
Evict_stale(entries) == entries

(* A full cache loses an oldest entry.                                      *)
Evict(entries) ==
    IF Cardinality(entries) < MaxEntries THEN entries
    ELSE entries \ {CHOOSE e \in entries : \A o \in entries : e.at <= o.at}

(* DekCache.put: a full cache first drops what is too old.                  *)
put(row) ==
    LET kept == {e \in cache : Cardinality(cache) < MaxEntries \/ Fresh(e)}
    IN  {e \in Evict(kept) : e.tag # cache_key(row)}
        \cup {[tag |-> cache_key(row), at |-> now, key |-> row.key]}

(* decrypt_data_key succeeds; the key goes to the cache.                    *)
kms_answers(q) ==
    /\ requests[q].pc = "kms" /\ kms
    /\ cache' = IF Ttl = 0 THEN cache ELSE put(Next_row(q))
    /\ Opened(q, Next_row(q).key)
    /\ UNCHANGED <<around, lockouts, history>>

(* A retry that is not counted.                                             *)
Retry_uncounted(q) == UNCHANGED requests

(* One retry too many.                                                      *)
Retries_inclusive(attempt) == attempt <= MaxRetries

Retries(attempt) == attempt < MaxRetries

(* RetryingKms tries again, up to max_retries times; then the request fails.*)
Retry(q) == IF Retries(requests[q].attempt)
            THEN requests' = [requests EXCEPT ![q].attempt = @ + 1]
            ELSE End(q)

kms_fails(q) ==
    /\ requests[q].pc = "kms" /\ ~kms
    /\ Retry(q)
    /\ UNCHANGED <<around, cache, lockouts, history>>

(* audit, and the answer that the value is valid, or that the row is        *)
(* unreadable.                                                              *)
answer(q) ==
    /\ requests[q].pc \in {"valid", "garbled"}
    /\ End(q)
    /\ UNCHANGED <<around, cache, lockouts, history>>

(* Wrong values count as failures of the peer itself.                       *)
verify_key_peer == "peer"

verify_key == "verify"

(* audit, record_verify, and the answer that the value is not valid.        *)
record_verify(q) ==
    /\ requests[q].pc = "invalid"
    /\ Record(verify_key)
    /\ End(q)
    /\ UNCHANGED <<around, cache, denied>>

(* The client goes away; the handler is dropped at an await.                *)
abandon(q) ==
    /\ requests[q].pc # "idle"
    /\ Happens
    /\ End(q)
    /\ UNCHANGED <<now, secret, kms, cache, lockouts, history>>

Serve(q) == \/ record_denied(q) \/ verify_read(q) \/ cache_hit(q)
            \/ cache_miss(q) \/ kms_answers(q) \/ kms_fails(q) \/ answer(q) \/ record_verify(q)

(* The values that are stored and not expired.                              *)
LiveValues == {x \in 1..keys : \E v \in Versions :
                  /\ rows[v] # NONE /\ rows[v].key = x
                  /\ rows[v].expires # NONE => now < rows[v].expires}

(* Keeps `seen' up to date with every step.                                 *)
Observe ==
    seen' = [q \in Requests |->
        LET live == requests'[q].value \in LiveValues'
        IN  IF requests'[q].kind # "verify" THEN Unseen
            ELSE IF requests[q].pc = "idle" THEN [ever |-> live, always |-> live]
            ELSE [ever |-> seen[q].ever \/ live, always |-> seen[q].always /\ live]]

Next == /\ \/ \E q \in scenario.requests :
                \/ guard_refuses(q) \/ get_secret(q) \/ verify(q)
                \/ Serve(q) \/ abandon(q)
           \/ tick \/ put_version \/ delete_secret \/ expire_grace_versions
           \/ \E v \in Versions : rewrap_version(v)
           \/ kms_changes \/ restart
        /\ Observe

Spec == Init /\ [][Next]_vars

(* A handler whose await is over goes on.                                   *)
FairSpec == Spec /\ \A q \in Requests : WF_requests(Serve(q))

---------------------------------------------------------------------------
(* Properties *)

(* The versions, the cache, the counters and the requests have their        *)
(* shapes; the current version is stored.                                   *)
TypeOK ==
    /\ scenario \in Scenarios /\ keys \in Nat
    /\ now \in 0..scenario.ticks /\ events \in 0..scenario.events
    /\ kms \in BOOLEAN /\ denied \in BOOLEAN
    /\ \A v \in Versions :
          rows[v] = NONE \/ rows[v] \in [key : 1..keys, wrapped : Nat,
                                        expires : Nat \cup {NONE}]
    /\ current = 0 \/ rows[current] # NONE
    /\ \A e \in cache : e.at \in 0..now /\ e.key \in 1..keys
    /\ \A c \in Counters :
          /\ failed[c] \in Seq(0..now)
          /\ lockouts[c] = NONE \/ lockouts[c] \in [failures : Nat \ {0},
                 window_start : 0..now, locked_until : Nat \cup {NONE}]
    /\ \A q \in Requests :
          /\ requests[q].pc \in {"idle", "denied", "read", "open", "kms", "valid",
                                 "invalid", "garbled"}
          /\ requests[q].attempt \in 0..MaxRetries
          /\ requests[q].pc \in {"open", "kms"} => requests[q].todo # {}

(* The failures recorded within the last Window seconds.                    *)
Recent(c) == {i \in 1..Len(failed[c]) : now - failed[c][i] < Window}

(* However the requests of a peer overlap, and although a window starts     *)
(* over without looking back, the failures recorded within any Window       *)
(* seconds stay below two windows' worth plus the requests in flight, if a  *)
(* lock lasts as long as a window.                                          *)
GuessBudget ==
    MaxFailures > 1 /\ Window <= Lockout => \A c \in Counters :
        Cardinality(Recent(c)) <= 2 * MaxFailures - 3 + Cardinality(scenario.requests)

(* "Lockout separation" (docs/SECURITY.md): wrong values presented to       *)
(* verify never lock a peer out of reading.                                 *)
WrongValuesNeverLockReads == lockouts["peer"] # NONE => denied

(* A cached data key is always the key of the row it is used for, through   *)
(* rotations, re-wrapping and a secret deleted and created again under the  *)
(* same version numbers.                                                    *)
CachedKeyOpens == \A q \in Requests : requests[q].pc # "garbled"

(* verify calls a value valid only if it was live at some moment of the     *)
(* request, and invalid only if there was a moment when it was not: a value *)
(* in its grace period verifies, whatever else happens meanwhile.           *)
VerifyIsExact ==
    \A q \in Requests :
        /\ requests[q].pc = "valid" => seen[q].ever
        /\ requests[q].pc = "invalid" => ~seen[q].always

(* The cache never holds more than MAX_ENTRIES keys, whatever mix of fresh  *)
(* and outdated entries it is full of when the next key arrives.            *)
CacheBounded == Cardinality(cache) <= MaxEntries

(* Every request ends, even if KMS never comes back.                        *)
RequestsEnd == \A q \in Requests : requests[q].pc # "idle" ~> requests[q].pc = "idle"
=============================================================================
