--------------------------- MODULE ReadPathProofs ---------------------------
(***************************************************************************)
(* The invariants of ReadPath for any number of overlapping requests,      *)
(* versions, cache entries and events: a cached key fits the row it is     *)
(* used for, wrong values never lock a peer out of reading, the cache      *)
(* stays within its limit, everything keeps its shape, and verify answers  *)
(* exactly.  GuessBudget is proved in LockoutProofs.                       *)
(***************************************************************************)
EXTENDS ReadPath, FiniteSetTheorems, WellFoundedInduction, TLAPS

(* The shape of a request as far as its stage is concerned.                 *)
HasStage(o) == {"pc", "todo", "attempt"} \subseteq DOMAIN o

Staged == /\ DOMAIN requests = Requests
          /\ \A q \in Requests : HasStage(requests[q])

(* The name of a cache entry begins with the key it holds.                  *)
TagFits(e) == \E w : e.tag = <<e.key, w>>

(* CachedKeyOpens is not inductive alone: that a hit opens the row follows  *)
(* from how every entry came into the cache.                                *)
CacheFits == /\ Staged
             /\ \A e \in cache : TagFits(e)
             /\ CachedKeyOpens

(* The requests made are requests.                                          *)
KnownRequests == scenario.requests \subseteq Requests

(* A request moved to a stage other than "garbled" keeps the requests in    *)
(* shape.                                                                   *)
LEMMA OneMoved ==
    ASSUME Staged, CachedKeyOpens, NEW q \in Requests, NEW o,
           requests' = [requests EXCEPT ![q] = o],
           HasStage(o), o.pc # "garbled"
    PROVE  Staged' /\ CachedKeyOpens'
BY DEF Staged, CachedKeyOpens

(* The same for Go.                                                         *)
LEMMA Moved ==
    ASSUME Staged, CachedKeyOpens, NEW q \in Requests, NEW pc, Go(q, pc),
           pc # "garbled"
    PROVE  Staged' /\ CachedKeyOpens'
<1> DEFINE o == [requests[q] EXCEPT !.pc = pc]
<1>1. requests' = [requests EXCEPT ![q] = o]
  BY DEF Go, Staged
<1>2. HasStage(o) /\ o.pc = pc
  BY DEF Staged, HasStage
<1> QED
  BY <1>1, <1>2, OneMoved, Zenon

(* The same for End.                                                        *)
LEMMA Ended ==
    ASSUME Staged, CachedKeyOpens, NEW q \in Requests, End(q)
    PROVE  Staged' /\ CachedKeyOpens'
<1>1. HasStage(Idle) /\ Idle.pc # "garbled"
  BY DEF HasStage, Idle
<1> QED
  BY <1>1, OneMoved, Zenon DEF End

(* A row opened with its own key never ends up unreadable.                  *)
LEMMA OpenedFits ==
    ASSUME Staged, CachedKeyOpens, NEW q \in Requests, NEW key,
           Opened(q, key), key = Next_row(q).key
    PROVE  Staged' /\ CachedKeyOpens'
<1> DEFINE row == Next_row(q)
           rest == requests[q].todo \ {row}
           p == IF rest = {} THEN "invalid" ELSE "open"
           found == [requests[q] EXCEPT !.pc = "valid", !.todo = {}, !.attempt = 0]
           other == [requests[q] EXCEPT !.pc = p, !.todo = rest, !.attempt = 0]
<1> HasStage(requests[q])
  BY DEF Staged
<1>1. CASE requests[q].kind = "get"
  BY <1>1, Ended DEF Opened
<1>2. CASE requests[q].kind # "get" /\ requests[q].value = row.key
  <2>1. requests' = [requests EXCEPT ![q] = found]
    BY <1>2, Zenon DEF Opened, Staged
  <2>2. HasStage(found) /\ found.pc # "garbled"
    BY DEF HasStage
  <2> QED
    BY <2>1, <2>2, OneMoved, Zenon
<1>3. CASE requests[q].kind # "get" /\ requests[q].value # row.key
  <2>1. requests' = [requests EXCEPT ![q] = other]
    BY <1>3 DEF Opened
  <2>2. HasStage(other) /\ other.pc = p /\ p # "garbled"
    <3> HIDE DEF rest
    <3> QED BY DEF HasStage
  <2> QED
    <3> HIDE DEF other
    <3> QED BY <2>1, <2>2, OneMoved, Zenon
<1> QED
  BY <1>1, <1>2, <1>3

(* The configuration never changes.                                         *)
LEMMA ScenarioStays == [Next]_vars => scenario' = scenario
BY Zenon DEF Next, vars, Serve, guard_refuses, get_secret, verify, record_denied,
       verify_read, cache_hit, cache_miss, kms_answers, kms_fails, answer,
       record_verify, abandon, tick, put_version, delete_secret,
       expire_grace_versions, rewrap_version, kms_changes, restart, Happens,
       around

(* The cache keeps its shape when a key is added.                           *)
LEMMA PutFits ==
    ASSUME NEW row, \A e \in cache : TagFits(e)
    PROVE  \A e \in put(row) : TagFits(e)
<1> DEFINE kept == {e \in cache : Cardinality(cache) < MaxEntries \/ Fresh(e)}
           new == [tag |-> cache_key(row), at |-> now, key |-> row.key]
<1>1. Evict(kept) \subseteq kept
  BY DEF Evict
<1>2. \A e \in put(row) : e \in cache \/ e = new
  BY <1>1 DEF put
<1>3. TagFits(new)
  BY DEF TagFits, cache_key
<1> QED
  BY <1>2, <1>3

(* Every step keeps every cached key with its row's name.                   *)
LEMMA CacheFitsStep ==
    ASSUME CacheFits, KnownRequests, [Next]_vars PROVE CacheFits'
<1> USE DEF CacheFits
<1>1. ASSUME NEW q \in Requests,
             guard_refuses(q) PROVE CacheFits'
  BY <1>1, Moved DEF guard_refuses
<1>2. ASSUME NEW q \in Requests,
             record_denied(q) \/ answer(q) \/ record_verify(q) \/ abandon(q)
      PROVE  CacheFits'
  BY <1>2, Ended DEF record_denied, answer, record_verify, abandon
<1>3. ASSUME NEW q \in Requests, get_secret(q)
      PROVE  CacheFits'
  <2> DEFINE o == [Idle EXCEPT !.pc = "open", !.kind = "get",
                               !.todo = {Stored(current)}]
  <2>1. HasStage(o) /\ o.pc # "garbled"
    BY DEF HasStage, Idle
  <2> QED
    BY <1>3, <2>1, OneMoved, Zenon DEF get_secret
<1>4. ASSUME NEW q \in Requests, verify(q)
      PROVE  CacheFits'
  <2>1. CASE requests' = [requests EXCEPT ![q] =
                 [Idle EXCEPT !.pc = "invalid", !.kind = "verify"]]
    <3> DEFINE o == [Idle EXCEPT !.pc = "invalid", !.kind = "verify"]
    <3>1. HasStage(o) /\ o.pc # "garbled"
      BY DEF HasStage, Idle
    <3> QED
      BY <1>4, <2>1, <3>1, OneMoved, Zenon DEF verify
  <2>2. ASSUME NEW value, requests' = [requests EXCEPT ![q] =
                 [Idle EXCEPT !.pc = "read", !.kind = "verify",
                              !.value = value, !.at = now]]
        PROVE  CacheFits'
    <3> DEFINE o == [Idle EXCEPT !.pc = "read", !.kind = "verify",
                                 !.value = value, !.at = now]
    <3>1. HasStage(o) /\ o.pc # "garbled"
      BY DEF HasStage, Idle
    <3> QED
      BY <1>4, <2>2, <3>1, OneMoved, Zenon DEF verify
  <2> QED
    BY <1>4, <2>1, <2>2, Zenon DEF verify
<1>5. ASSUME NEW q \in Requests, verify_read(q)
      PROVE  CacheFits'
  <2> DEFINE live == live_versions(requests[q].at)
             p == IF live = {} THEN "invalid" ELSE "open"
             t == {Stored(v) : v \in live}
             o == [requests[q] EXCEPT !.pc = p, !.at = 0, !.todo = t]
  <2>1. requests' = [requests EXCEPT ![q] = o]
    BY <1>5, Zenon DEF verify_read, Staged
  <2>2. p # "garbled" /\ cache' = cache
    BY <1>5, Zenon DEF verify_read
  <2> HIDE DEF live, p, t
  <2>3. HasStage(o) /\ o.pc = p
    BY DEF Staged, HasStage
  <2> HIDE DEF o
  <2> QED
    BY <2>1, <2>2, <2>3, OneMoved, Zenon
<1>6. ASSUME NEW q \in Requests, cache_hit(q)
      PROVE  CacheFits'
  <2>1. PICK e \in cache : e.tag = cache_key(Next_row(q)) /\ Opened(q, e.key)
    BY <1>6 DEF cache_hit
  <2>2. e.key = Next_row(q).key
    BY <2>1 DEF TagFits, cache_key
  <2> QED
    BY <1>6, <2>1, <2>2, OpenedFits DEF cache_hit
<1>7. ASSUME NEW q \in Requests, cache_miss(q)
      PROVE  CacheFits'
  <2>1. Go(q, "kms") /\ cache' \subseteq cache
    BY <1>7 DEF cache_miss
  <2> QED
    BY <2>1, Moved
<1>8. ASSUME NEW q \in Requests, kms_answers(q)
      PROVE  CacheFits'
  <2>1. \A e \in cache' : TagFits(e)
    BY <1>8, PutFits DEF kms_answers
  <2> QED
    BY <1>8, <2>1, OpenedFits DEF kms_answers
<1>9. ASSUME NEW q \in Requests, kms_fails(q)
      PROVE  CacheFits'
  <2> DEFINE o == [requests[q] EXCEPT !.attempt = @ + 1]
  <2>1. CASE Retries(requests[q].attempt)
    <3>1. requests' = [requests EXCEPT ![q] = o] /\ cache' = cache
      BY <1>9, <2>1 DEF kms_fails, Retry, Staged
    <3>2. HasStage(o) /\ o.pc = requests[q].pc /\ requests[q].pc = "kms"
      BY <1>9 DEF Staged, HasStage, kms_fails
    <3> HIDE DEF o
    <3> QED
      BY <3>1, <3>2, OneMoved, Zenon
  <2>2. CASE ~Retries(requests[q].attempt)
    BY <1>9, <2>2, Ended DEF kms_fails, Retry
  <2> QED
    BY <2>1, <2>2
<1>10. CASE restart
  <2>1. HasStage(Idle) /\ Idle.pc # "garbled"
    BY DEF HasStage, Idle
  <2> QED
    BY <1>10, <2>1 DEF restart, Staged, CachedKeyOpens
<1>11. CASE \/ tick \/ put_version \/ delete_secret \/ expire_grace_versions
            \/ kms_changes \/ \E v \in Versions : rewrap_version(v)
            \/ UNCHANGED vars
  <2>1. cache' = cache /\ requests' = requests
    BY <1>11 DEF tick, put_version, delete_secret, expire_grace_versions,
                 kms_changes, rewrap_version, vars
  <2> QED
    BY <2>1 DEF Staged, CachedKeyOpens
<1> QED
  BY <1>1, <1>2, <1>3, <1>4, <1>5, <1>6, <1>7, <1>8, <1>9, <1>10, <1>11
     DEF Next, Serve, KnownRequests

(* In every behaviour a cached key opens the row it is looked up for,       *)
(* whatever rotations, re-wraps, deletions and re-creations, evictions and  *)
(* restarts come between (cache.rs, get and put; service.rs, open_version). *)
THEOREM CachedKeyOpensAlways == Spec => []CachedKeyOpens
<1>1. Init => CacheFits /\ KnownRequests
  <2> SUFFICES ASSUME Init PROVE CacheFits /\ KnownRequests
    OBVIOUS
  <2>1. HasStage(Idle) /\ Idle.pc # "garbled"
    BY DEF HasStage, Idle
  <2>2. CacheFits
    BY <2>1 DEF Init, CacheFits, Staged, CachedKeyOpens
  <2>3. KnownRequests
    BY ReadPathAssumption DEF Init, KnownRequests
  <2> QED
    BY <2>2, <2>3
<1>2. CacheFits /\ KnownRequests /\ [Next]_vars => (CacheFits /\ KnownRequests)'
  BY CacheFitsStep, ScenarioStays DEF KnownRequests
<1>3. CacheFits => CachedKeyOpens
  BY DEF CacheFits
<1> QED
  BY <1>1, <1>2, <1>3, PTL DEF Spec

(* The counters exist, and only a refusal has touched the peer's own.       *)
PeerCounterClean == DOMAIN lockouts = Counters /\ WrongValuesNeverLockReads

(* Wrong values presented to verify, however many and however they overlap  *)
(* with other requests, never start the counter that locks a peer out of    *)
(* reading (lockout.rs, record_verify).                                     *)
THEOREM WrongValuesNeverLockReadsAlways == Spec => []WrongValuesNeverLockReads
<1>1. Init => PeerCounterClean
  BY DEF Init, PeerCounterClean, WrongValuesNeverLockReads, Counters
<1>2. ASSUME PeerCounterClean, [Next]_vars PROVE PeerCounterClean'
  <2>1. ASSUME NEW q \in scenario.requests, record_denied(q)
        PROVE  PeerCounterClean'
    BY <1>2, <2>1 DEF record_denied, Record, PeerCounterClean,
                      WrongValuesNeverLockReads
  <2>2. ASSUME NEW q \in scenario.requests, record_verify(q)
        PROVE  PeerCounterClean'
    BY <1>2, <2>2 DEF record_verify, Record, verify_key, PeerCounterClean, Counters,
                      WrongValuesNeverLockReads
  <2>3. \/ UNCHANGED <<lockouts, denied>>
        \/ \E q \in scenario.requests : record_denied(q) \/ record_verify(q)
    BY <1>2, Zenon DEF Next, vars, Serve, guard_refuses, get_secret, verify,
         verify_read, cache_hit, cache_miss, kms_answers, kms_fails, answer,
         abandon, tick, put_version, delete_secret, expire_grace_versions,
         rewrap_version, kms_changes, restart, history
  <2> QED
    BY <1>2, <2>1, <2>2, <2>3 DEF PeerCounterClean, WrongValuesNeverLockReads
<1>3. PeerCounterClean => WrongValuesNeverLockReads
  BY DEF PeerCounterClean
<1> QED
  BY <1>1, <1>2, <1>3, PTL DEF Spec

---------------------------------------------------------------------------
(* The limit of the cache *)

(* A set of numbers has a smallest one.                                     *)
LEMMA SmallestExists ==
    ASSUME NEW T, T \subseteq Nat, T # {}
    PROVE  \E x \in T : \A y \in T : x <= y
<1> DEFINE R == {ss \in Nat \X Nat : ss[1] < ss[2]}
<1>1. IsWellFoundedOn(R, Nat)
  BY NatLessThanWellFounded DEF OpToRel
<1> HIDE DEF R
<1>2. PICK x \in T : \A y \in T : ~(<<y, x>> \in R)
  BY <1>1, WFMin, Zenon
<1>3. ASSUME NEW y \in T, y < x PROVE FALSE
  <2>1. <<y, x>> \in R
    BY <1>3 DEF R
  <2> QED
    BY <1>2, <2>1
<1> QED
  BY <1>3

Dated(entries) == IsFiniteSet(entries) /\ \A e \in entries : e.at \in Nat

(* CacheBounded is not inductive alone: that a full cache loses an entry    *)
(* takes an oldest one to exist.                                            *)
WithinLimit == now \in Nat /\ Dated(cache) /\ CacheBounded

(* Eviction leaves room for one entry.                                      *)
LEMMA EvictMakesRoom ==
    ASSUME NEW entries, Dated(entries), Cardinality(entries) <= MaxEntries
    PROVE  /\ Evict(entries) \subseteq entries
           /\ Cardinality(Evict(entries)) < MaxEntries
<1> USE ReadPathAssumption
<1>1. CASE Cardinality(entries) < MaxEntries
  BY <1>1 DEF Evict
<1>2. CASE ~(Cardinality(entries) < MaxEntries)
  <2>1. Cardinality(entries) = MaxEntries /\ entries # {}
    BY <1>2, FS_CardinalityType, FS_EmptySet DEF Dated
  <2> DEFINE T == {e.at : e \in entries}
  <2>2. \E t \in T : \A u \in T : t <= u
    <3>1. T \subseteq Nat /\ T # {}
      BY <2>1 DEF Dated
    <3> HIDE DEF T
    <3> QED
      BY <3>1, SmallestExists, Zenon
  <2>3. \E e \in entries : \A o \in entries : e.at <= o.at
    BY <2>2
  <2> DEFINE oldest == CHOOSE e \in entries : \A o \in entries : e.at <= o.at
  <2>4. oldest \in entries
    BY <2>3
  <2> HIDE DEF oldest
  <2>5. Cardinality(entries \ {oldest}) = Cardinality(entries) - 1
    BY <2>4, FS_RemoveElement, Zenon DEF Dated
  <2>6. Evict(entries) = entries \ {oldest}
    BY <1>2 DEF Evict, oldest
  <2> QED
    BY <2>1, <2>5, <2>6
<1> QED
  BY <1>1, <1>2

(* Putting a key keeps the cache within its limit.                          *)
LEMMA PutWithinLimit ==
    ASSUME WithinLimit, NEW row
    PROVE  Dated(put(row)) /\ Cardinality(put(row)) <= MaxEntries
<1> USE ReadPathAssumption
<1> DEFINE kept == {e \in cache : Cardinality(cache) < MaxEntries \/ Fresh(e)}
           left == {e \in Evict(kept) : e.tag # cache_key(row)}
           new == [tag |-> cache_key(row), at |-> now, key |-> row.key]
<1>1. Dated(kept) /\ Cardinality(kept) <= MaxEntries
  <2>1. kept \in SUBSET cache
    OBVIOUS
  <2> HIDE DEF kept
  <2>2. /\ IsFiniteSet(kept) /\ Cardinality(kept) <= Cardinality(cache)
        /\ Cardinality(cache) \in Nat /\ Cardinality(kept) \in Nat
    BY <2>1, FS_Subset, FS_CardinalityType DEF WithinLimit, Dated
  <2> QED
    BY <2>1, <2>2 DEF WithinLimit, Dated, CacheBounded
<1>2. put(row) = left \cup {new}
  BY DEF put
<1> HIDE DEF kept
<1>3. /\ Evict(kept) \subseteq kept /\ Cardinality(Evict(kept)) < MaxEntries
  BY <1>1, EvictMakesRoom
<1>4. left \in SUBSET Evict(kept) /\ IsFiniteSet(Evict(kept))
  BY <1>1, <1>3, FS_Subset DEF Dated
<1>5. \A e \in left : e.at \in Nat
  BY <1>1, <1>3 DEF Dated
<1>6. new.at \in Nat
  BY DEF WithinLimit
<1> HIDE DEF left, new
<1>7. /\ IsFiniteSet(left) /\ Cardinality(left) <= Cardinality(Evict(kept))
      /\ Cardinality(left) \in Nat /\ Cardinality(Evict(kept)) \in Nat
  BY <1>4, FS_Subset, FS_CardinalityType
<1>8. /\ IsFiniteSet(left \cup {new})
      /\ Cardinality(left \cup {new}) <= Cardinality(left) + 1
  <2>1. /\ IsFiniteSet(left \cup {new})
        /\ \/ Cardinality(left \cup {new}) = Cardinality(left)
           \/ Cardinality(left \cup {new}) = Cardinality(left) + 1
    BY <1>7, FS_AddElement, Zenon
  <2> QED
    BY <1>7, <2>1
<1> QED
  <2>1. \A e \in left \cup {new} : e.at \in Nat
    BY <1>5, <1>6
  <2>2. Cardinality(left \cup {new}) <= MaxEntries
    BY <1>3, <1>7, <1>8, FS_CardinalityType
  <2> QED
    BY <1>2, <1>8, <2>1, <2>2, Zenon DEF Dated

(* The cache never holds more than MAX_ENTRIES keys, whatever is fresh or   *)
(* outdated in it when it is full (cache.rs, put).                          *)
THEOREM CacheBoundedAlways == Spec => []CacheBounded
<1> USE ReadPathAssumption
<1>1. Init => WithinLimit
  <2> SUFFICES ASSUME Init PROVE WithinLimit
    OBVIOUS
  <2>1. cache = {} /\ now = 0
    BY DEF Init
  <2> QED
    BY <2>1, FS_EmptySet DEF WithinLimit, Dated, CacheBounded
<1>2. ASSUME WithinLimit, [Next]_vars PROVE WithinLimit'
  <2>1. now' = now \/ now' = now + 1
    BY <1>2, Zenon DEF Next, vars, Serve, guard_refuses, get_secret, verify,
         verify_read, cache_hit, cache_miss, kms_answers, kms_fails, answer,
         record_denied, record_verify, abandon, tick, put_version,
         delete_secret, expire_grace_versions, rewrap_version, kms_changes,
         restart, around
  <2>2. cache' \subseteq cache \/ \E q : cache' = put(Next_row(q))
    BY <1>2, Zenon DEF Next, vars, Serve, guard_refuses, get_secret, verify,
         verify_read, cache_hit, cache_miss, kms_answers, kms_fails, answer,
         record_denied, record_verify, abandon, tick, put_version,
         delete_secret, expire_grace_versions, rewrap_version, kms_changes,
         restart
  <2>3. CASE cache' \subseteq cache
    <3>1. /\ IsFiniteSet(cache') /\ Cardinality(cache') <= Cardinality(cache)
          /\ Cardinality(cache) \in Nat /\ Cardinality(cache') \in Nat
      BY <1>2, <2>3, FS_Subset, FS_CardinalityType DEF WithinLimit, Dated
    <3> QED
      BY <1>2, <2>1, <2>3, <3>1 DEF WithinLimit, Dated, CacheBounded
  <2>4. ASSUME NEW row, cache' = put(row) PROVE WithinLimit'
    BY <1>2, <2>1, <2>4, PutWithinLimit DEF WithinLimit, Dated, CacheBounded
  <2> QED
    BY <2>2, <2>3, <2>4
<1>3. WithinLimit => CacheBounded
  BY DEF WithinLimit
<1> QED
  BY <1>1, <1>2, <1>3, PTL DEF Spec

---------------------------------------------------------------------------
(* Exact answers *)

(* The shapes of a row a request has read, of a request and of what was     *)
(* seen of it.                                                              *)
Copies == [version : Versions, key : Nat, wrapped : Nat]
Stages == {"idle", "denied", "read", "open", "kms", "valid", "invalid", "garbled"}
Calls == [pc : Stages, kind : {NONE, "get", "verify"}, value : Nat, at : Nat,
          todo : SUBSET Copies, attempt : 0..MaxRetries]
Sights == [ever : BOOLEAN, always : BOOLEAN]

(* The inductive invariant behind TypeOK.  The current version is stored    *)
(* and does not expire; what requests and cache hold are keys generated.    *)
Shapes ==
    /\ scenario \in Scenarios /\ now \in 0..scenario.ticks /\ events \in 0..scenario.events
    /\ kms \in BOOLEAN /\ denied \in BOOLEAN /\ keys \in Nat
    /\ rows \in [Versions -> Rows \cup {NONE}]
    /\ \A v \in Versions : rows[v] # NONE => rows[v].key \in 1..keys
    /\ current \in 0..MaxVersion
    /\ current # 0 => rows[current] # NONE /\ rows[current].expires = NONE
    /\ \A e \in cache : e.at \in 0..now /\ e.key \in 1..keys
    /\ DOMAIN lockouts = Counters
    /\ \A c \in Counters :
          lockouts[c] = NONE \/ lockouts[c] \in [failures : Nat \ {0},
              window_start : 0..now, locked_until : Nat \cup {NONE}]
    /\ failed \in [Counters -> Seq(0..now)]
    /\ requests \in [Requests -> Calls] /\ seen \in [Requests -> Sights]
    /\ \A q \in Requests :
          /\ requests[q].pc \in {"open", "kms"} =>
                requests[q].todo # {} /\ requests[q].kind \in {"get", "verify"}
          /\ requests[q].pc = "read" => requests[q].at <= now
          /\ requests[q].pc \in {"read", "valid", "invalid"} => requests[q].kind = "verify"
          /\ \A r \in requests[q].todo : r.key \in 1..keys

(* A row counts for a request that came at time t.                          *)
Counts(v, t) == rows[v] # NONE /\ (rows[v].expires = NONE \/ t < rows[v].expires)

(* What makes the answer of request q exact, at every stage: a value among  *)
(* the rows it will read or has read was live, and one that was live all    *)
(* along is among the rows left to open.                                    *)
Exact(q) ==
    LET o == requests[q]
    IN  o.kind = "verify" =>
          /\ o.pc = "read" => \A v \in Versions :
                Counts(v, o.at) /\ rows[v].key = o.value => seen[q].ever
          /\ o.pc \in {"open", "kms"} =>
                /\ \A r \in o.todo : r.key = o.value => seen[q].ever
                /\ seen[q].always => \E r \in o.todo : r.key = o.value
          /\ o.pc = "valid" => seen[q].ever
          /\ o.pc = "invalid" => ~seen[q].always

(* The inductive invariant behind VerifyIsExact.                            *)
ExactInv == Shapes /\ \A q \in Requests : Exact(q)

(* The constants and the configuration, as far as they are numbers.         *)
LEMMA Numbers ==
    ASSUME Shapes
    PROVE  /\ now \in Nat /\ keys \in Nat /\ events \in Nat
           /\ scenario.ticks \in Nat /\ scenario.events \in Nat /\ MaxFailures \in Nat
           /\ scenario.requests \subseteq Requests /\ MaxVersion \in Nat
<1>1. \A c \in Scenarios : /\ c.ticks \in Nat /\ c.events \in Nat /\ c.failures \in Nat
                            /\ c.requests \subseteq Requests
  BY ReadPathAssumption
<1>2. /\ scenario \in Scenarios /\ now \in 0..scenario.ticks /\ keys \in Nat
      /\ events \in 0..scenario.events
  BY Zenon DEF Shapes
<1> QED
  BY <1>1, <1>2, ReadPathAssumption DEF MaxFailures

(* A request at rest has the shape of one.                                  *)
LEMMA IdleShape == Idle \in Calls /\ 0 \in 0..MaxRetries
BY ReadPathAssumption DEF Calls, Idle, Stages

(* The current version is stored.                                           *)
LEMMA CurrentStored ==
    ASSUME Shapes, current # 0 PROVE current \in Versions /\ rows[current] # NONE
<1>1. current \in 0..MaxVersion /\ rows[current] # NONE
  BY Zenon DEF Shapes
<1> QED
  BY <1>1, Numbers DEF Versions

(* A request that has rows to open has a newest one.                        *)
LEMMA NextRow ==
    ASSUME Shapes, NEW q \in Requests, requests[q].todo # {}
    PROVE  Next_row(q) \in requests[q].todo
<1> DEFINE T == requests[q].todo
           D == {MaxVersion - r.version : r \in T}
<1>1. T \subseteq Copies /\ T # {}
  BY DEF Shapes, Calls
<1>2. \A r \in T : r.version \in 1..MaxVersion
  BY <1>1 DEF Copies, Versions
<1>3. MaxVersion \in Nat
  BY ReadPathAssumption
<1> HIDE DEF T
<1>4. D \subseteq Nat /\ D # {}
  BY <1>1, <1>2, <1>3
<1>5. PICK d \in D : \A e \in D : d <= e
  BY <1>4, SmallestExists, Zenon
<1>6. PICK r \in T : d = MaxVersion - r.version
  BY <1>5
<1>7. ASSUME NEW o \in T PROVE o.version <= r.version
  <2>1. d <= MaxVersion - o.version
    BY <1>5
  <2> QED
    BY <1>2, <1>3, <1>6, <2>1
<1>8. \E x \in T : \A o \in T : o.version <= x.version
  BY <1>6, <1>7
<1> QED
  BY <1>8 DEF Next_row, T

(* The requests when one of them becomes o.                                 *)
LEMMA Turned ==
    ASSUME Shapes, NEW q \in Requests, NEW o \in Calls, requests' = [requests EXCEPT ![q] = o]
    PROVE  /\ requests' \in [Requests -> Calls] /\ requests'[q] = o
           /\ \A p \in Requests : p # q => requests'[p] = requests[p]
BY DEF Shapes

(* What one request can do while time and secret stand still.               *)
Turn(q) ==
    LET o == requests[q]
        n == requests'[q]
        live == live_versions(o.at)
    IN  \/ n.pc \in {"denied", "garbled"} /\ n.todo = o.todo
        \/ /\ o.pc = "idle" /\ n.pc = "open" /\ n.kind = "get"
           /\ current # 0 /\ n.todo = {Stored(current)}
        \/ /\ o.pc = "idle" /\ n.pc = "invalid" /\ n.kind = "verify"
           /\ n.value = 0 /\ n.todo = {}
        \/ /\ o.pc = "idle" /\ n.pc = "read" /\ n.kind = "verify"
           /\ n.at = now /\ n.todo = {}
        \/ /\ o.pc = "read" /\ n.kind = o.kind /\ n.value = o.value
           /\ n.pc = IF live = {} THEN "invalid" ELSE "open"
           /\ n.todo = {Stored(v) : v \in live}
        \/ /\ o.pc \in {"open", "kms"} /\ n.kind = o.kind /\ n.value = o.value
           /\ \/ n.pc = "kms" /\ n.todo = o.todo
              \/ /\ o.kind = "verify" /\ n.pc = "valid" /\ n.todo = {}
                 /\ \E r \in o.todo : r.key = o.value
              \/ /\ o.kind = "verify" /\ n.pc = IF n.todo = {} THEN "invalid" ELSE "open"
                 /\ \E r \in o.todo : r.key # o.value /\ n.todo = o.todo \ {r}

(* A row read is a copy of a stored row.                                    *)
LEMMA StoredCopies ==
    ASSUME Shapes, NEW v \in Versions, rows[v] # NONE
    PROVE  Stored(v) \in Copies /\ Stored(v).key = rows[v].key
<1>1. rows[v] \in Rows
  BY DEF Shapes
<1> QED
  BY <1>1 DEF Stored, Copies, Rows

(* open_version with a key.                                                 *)
LEMMA OpenedTurn ==
    ASSUME Shapes, NEW q \in Requests, NEW key, requests[q].pc \in {"open", "kms"},
           Opened(q, key)
    PROVE  /\ requests' \in [Requests -> Calls]
           /\ requests'[q] = Idle \/ Turn(q)
           /\ \A p \in Requests : p # q => requests'[p] = requests[p]
<1> DEFINE o == requests[q]
           row == Next_row(q)
           rest == o.todo \ {row}
           p == IF rest = {} THEN "invalid" ELSE "open"
<1>1. /\ o \in Calls /\ row \in o.todo /\ o.kind \in {"get", "verify"}
      /\ requests \in [Requests -> Calls] /\ Idle \in Calls
      /\ 0 \in 0..MaxRetries
  <2>1. requests \in [Requests -> Calls] /\ row \in o.todo /\ o.kind \in {"get", "verify"}
    BY NextRow, Zenon DEF Shapes
  <2> QED BY <2>1, IdleShape, Zenon
<1>2. CASE key # row.key
  <2> DEFINE n == [o EXCEPT !.pc = "garbled"]
  <2>1. requests' = [requests EXCEPT ![q] = n]
    BY <1>1, <1>2 DEF Opened, Go
  <2>2. n \in Calls /\ n.pc = "garbled" /\ n.todo = o.todo
    BY <1>1 DEF Calls, Stages
  <2> HIDE DEF n
  <2> QED
    BY <2>1, <2>2, Turned, Zenon DEF Turn
<1>3. CASE key = row.key /\ o.kind = "get"
  BY <1>1, <1>3, Turned DEF Opened, End
<1>4. CASE key = row.key /\ o.kind # "get" /\ o.value = row.key
  <2> DEFINE n == [o EXCEPT !.pc = "valid", !.todo = {}, !.attempt = 0]
  <2>1. requests' = [requests EXCEPT ![q] = n]
    BY <1>1, <1>4, Zenon DEF Opened
  <2>2. /\ n \in Calls /\ n.pc = "valid" /\ n.todo = {} /\ n.kind = o.kind
        /\ n.value = o.value
    BY <1>1, Zenon DEF Calls, Stages
  <2> HIDE DEF n
  <2>3. requests'[q] = n /\ \E r \in o.todo : r.key = o.value
    BY <1>1, <1>4, <2>1, <2>2
  <2>4. Turn(q)
    BY <1>1, <1>4, <2>2, <2>3, Zenon DEF Turn
  <2> QED
    BY <2>1, <2>2, <2>4, Turned, Zenon
<1>5. CASE key = row.key /\ o.kind # "get" /\ o.value # row.key
  <2> DEFINE n == [o EXCEPT !.pc = p, !.todo = rest, !.attempt = 0]
  <2>1. requests' = [requests EXCEPT ![q] = n]
    BY <1>1, <1>5 DEF Opened
  <2>2. p \in Stages /\ rest \in SUBSET Copies
    BY <1>1 DEF Stages, Calls
  <2> HIDE DEF p, rest
  <2>3. n \in Calls /\ n.pc = p /\ n.todo = rest /\ n.kind = o.kind /\ n.value = o.value
    BY <1>1, <2>2, Zenon DEF Calls
  <2> HIDE DEF n
  <2>4. requests'[q] = n
    BY <1>1, <2>1
  <2>5. \E r \in o.todo : r.key # o.value /\ n.todo = o.todo \ {r}
    BY <1>1, <1>5, <2>3 DEF rest
  <2>6. Turn(q)
    BY <1>1, <1>5, <2>3, <2>4, <2>5, Zenon DEF Turn, p
  <2> QED
    BY <2>1, <2>3, <2>6, Turned, Zenon
<1> QED
  BY <1>2, <1>3, <1>4, <1>5

(* What becomes of the requests: they stay, end, or take a turn.            *)
LEMMA RequestMoves ==
    ASSUME Shapes, [Next]_vars
    PROVE  /\ requests' \in [Requests -> Calls]
           /\ \A q \in Requests : \/ requests'[q] = requests[q]
                                  \/ requests'[q] = Idle
                                  \/ UNCHANGED <<now, secret>> /\ Turn(q)
<1> DEFINE Goal == /\ requests' \in [Requests -> Calls]
                   /\ \A q \in Requests : \/ requests'[q] = requests[q]
                                          \/ requests'[q] = Idle
                                          \/ UNCHANGED <<now, secret>> /\ Turn(q)
<1>1. /\ requests \in [Requests -> Calls] /\ Idle \in Calls
      /\ scenario.requests \subseteq Requests /\ 0 \in 0..MaxRetries
  BY Numbers, IdleShape, Zenon DEF Shapes
<1>2. ASSUME NEW q \in Requests, NEW n \in Calls, requests' = [requests EXCEPT ![q] = n],
             n = Idle \/ (UNCHANGED <<now, secret>> /\ Turn(q))
      PROVE  Goal
  BY <1>1, <1>2, Turned
<1>3. ASSUME NEW q \in Requests, guard_refuses(q) PROVE Goal
  <2> DEFINE n == [requests[q] EXCEPT !.pc = "denied"]
  <2>1. requests' = [requests EXCEPT ![q] = n] /\ UNCHANGED <<now, secret>>
    BY <1>1, <1>3 DEF guard_refuses, Go, around
  <2>2. n \in Calls /\ n.pc = "denied" /\ n.todo = requests[q].todo
    BY <1>1 DEF Calls, Stages
  <2> HIDE DEF n
  <2>3. Turn(q)
    BY <1>1, <2>1, <2>2 DEF Turn
  <2> QED
    BY <1>2, <2>1, <2>2, <2>3, Zenon
<1>4. ASSUME NEW q \in Requests, End(q) PROVE Goal
  BY <1>1, <1>2, <1>4 DEF End
<1>5. ASSUME NEW q \in Requests, get_secret(q) PROVE Goal
  <2> DEFINE n == [Idle EXCEPT !.pc = "open", !.kind = "get", !.todo = {Stored(current)}]
  <2>1. /\ requests' = [requests EXCEPT ![q] = n] /\ UNCHANGED <<now, secret>>
        /\ requests[q].pc = "idle" /\ current # 0
    BY <1>5 DEF get_secret, around
  <2>2. current \in Versions /\ rows[current] # NONE
    BY <2>1, CurrentStored, Zenon
  <2>3. {Stored(current)} \in SUBSET Copies
    BY <2>2, StoredCopies
  <2>4. n \in Calls /\ n.pc = "open" /\ n.kind = "get" /\ n.todo = {Stored(current)}
    BY <1>1, <2>3, Zenon DEF Calls, Stages, Idle
  <2> HIDE DEF n
  <2>5. Turn(q)
    BY <1>1, <2>1, <2>4 DEF Turn
  <2> QED
    BY <1>2, <2>1, <2>4, <2>5, Zenon
<1>6. ASSUME NEW q \in Requests, verify(q) PROVE Goal
  <2> DEFINE m == [Idle EXCEPT !.pc = "invalid", !.kind = "verify"]
             n(value) == [Idle EXCEPT !.pc = "read", !.kind = "verify",
                                      !.value = value, !.at = now]
  <2>1. /\ UNCHANGED <<now, secret>> /\ requests[q].pc = "idle"
        /\ \/ requests' = [requests EXCEPT ![q] = m]
           \/ \E value \in 0..keys : requests' = [requests EXCEPT ![q] = n(value)]
    BY <1>6, Zenon DEF verify, around
  <2>2. CASE requests' = [requests EXCEPT ![q] = m]
    <3>1. m \in Calls /\ m.pc = "invalid" /\ m.kind = "verify" /\ m.value = 0 /\ m.todo = {}
      BY <1>1, Zenon DEF Calls, Stages, Idle
    <3> HIDE DEF m
    <3>2. Turn(q)
      BY <1>1, <2>1, <2>2, <3>1 DEF Turn
    <3> QED
      BY <1>2, <2>1, <2>2, <3>1, <3>2, Zenon
  <2>3. ASSUME NEW value \in 0..keys, requests' = [requests EXCEPT ![q] = n(value)]
        PROVE  Goal
    <3> DEFINE o == n(value)
    <3>1. now \in Nat /\ value \in Nat
      BY DEF Shapes
    <3>2. o \in Calls /\ o.pc = "read" /\ o.kind = "verify" /\ o.at = now /\ o.todo = {}
      BY <1>1, <3>1, Zenon DEF Calls, Stages, Idle
    <3>3. requests' = [requests EXCEPT ![q] = o]
      BY <2>3
    <3> HIDE DEF o
    <3>4. Turn(q)
      BY <1>1, <2>1, <3>2, <3>3, Zenon DEF Turn
    <3> QED
      BY <1>2, <2>1, <3>2, <3>3, <3>4, Zenon
  <2> QED
    BY <2>1, <2>2, <2>3, Zenon
<1>7. ASSUME NEW q \in Requests, verify_read(q) PROVE Goal
  <2> DEFINE o == requests[q]
             live == live_versions(o.at)
             p == IF live = {} THEN "invalid" ELSE "open"
             t == {Stored(v) : v \in live}
             n == [o EXCEPT !.pc = p, !.at = 0, !.todo = t]
  <2>1. requests' = [requests EXCEPT ![q] = n] /\ UNCHANGED <<now, secret>> /\ o.pc = "read"
    BY <1>1, <1>7, Zenon DEF verify_read, around
  <2>2. p \in Stages /\ t \in SUBSET Copies
    BY StoredCopies DEF Stages, live_versions
  <2> HIDE DEF p, t, live
  <2>3. n \in Calls /\ n.pc = p /\ n.todo = t /\ n.kind = o.kind /\ n.value = o.value
    BY <1>1, <2>2, Zenon DEF Calls
  <2> HIDE DEF n
  <2>4. requests'[q] = n
    BY <1>1, <2>1
  <2>5. Turn(q)
    BY <2>1, <2>3, <2>4 DEF Turn, p, t, live
  <2> QED
    BY <1>2, <2>1, <2>3, <2>5, Zenon
<1>8. ASSUME NEW q \in Requests, cache_hit(q) \/ kms_answers(q) PROVE Goal
  <2>1. PICK key : Opened(q, key) /\ requests[q].pc \in {"open", "kms"} /\ UNCHANGED <<now, secret>>
    BY <1>8 DEF cache_hit, kms_answers, around
  <2> QED
    <3>1. /\ requests' \in [Requests -> Calls]
          /\ requests'[q] = Idle \/ Turn(q)
          /\ \A p \in Requests : p # q => requests'[p] = requests[p]
      BY <2>1, OpenedTurn
    <3> QED
      BY <2>1, <3>1
<1>9. ASSUME NEW q \in Requests, cache_miss(q) PROVE Goal
  <2> DEFINE n == [requests[q] EXCEPT !.pc = "kms"]
  <2>1. /\ requests' = [requests EXCEPT ![q] = n] /\ UNCHANGED <<now, secret>>
        /\ requests[q].pc = "open"
    BY <1>1, <1>9 DEF cache_miss, Go, around
  <2>2. /\ n \in Calls /\ n.pc = "kms" /\ n.todo = requests[q].todo
        /\ n.kind = requests[q].kind /\ n.value = requests[q].value
    BY <1>1 DEF Calls, Stages
  <2> HIDE DEF n
  <2>3. Turn(q)
    BY <1>1, <2>1, <2>2 DEF Turn
  <2> QED
    BY <1>2, <2>1, <2>2, <2>3, Zenon
<1>10. ASSUME NEW q \in Requests, kms_fails(q) PROVE Goal
  <2> DEFINE a == requests[q].attempt + 1
             n == [requests[q] EXCEPT !.attempt = a]
  <2>1. CASE Retries(requests[q].attempt)
    <3>1. /\ requests' = [requests EXCEPT ![q] = n] /\ UNCHANGED <<now, secret>>
          /\ requests[q].pc = "kms"
      BY <1>1, <1>10, <2>1 DEF kms_fails, Retry, around
    <3>2. a \in 0..MaxRetries
      BY <1>1, <2>1, ReadPathAssumption DEF Retries, Calls
    <3> HIDE DEF a
    <3>3. /\ n \in Calls /\ n.pc = "kms" /\ n.todo = requests[q].todo
          /\ n.kind = requests[q].kind /\ n.value = requests[q].value
      BY <1>1, <3>1, <3>2 DEF Calls
    <3> HIDE DEF n
    <3>4. Turn(q)
      BY <1>1, <3>1, <3>3 DEF Turn
    <3> QED
      BY <1>2, <3>1, <3>3, <3>4, Zenon
  <2>2. CASE ~Retries(requests[q].attempt)
    BY <1>4, <1>10, <2>2 DEF kms_fails, Retry
  <2> QED
    BY <2>1, <2>2
<1>11. ASSUME restart PROVE Goal
  BY <1>1, <1>11 DEF restart
<1>12. ASSUME UNCHANGED requests PROVE Goal
  BY <1>1, <1>12
<1> HIDE DEF Goal
<1>13. ASSUME NEW q \in Requests,
              record_denied(q) \/ answer(q) \/ record_verify(q) \/ abandon(q)
       PROVE  Goal
  BY <1>4, <1>13 DEF record_denied, answer, record_verify, abandon
<1>14. ASSUME \/ tick \/ put_version \/ delete_secret \/ expire_grace_versions
              \/ kms_changes \/ \E v \in Versions : rewrap_version(v)
              \/ UNCHANGED vars
       PROVE  Goal
  BY <1>12, <1>14 DEF tick, put_version, delete_secret, expire_grace_versions,
                 kms_changes, rewrap_version, vars
<1>15. ASSUME NEW q \in scenario.requests,
              guard_refuses(q) \/ get_secret(q) \/ verify(q) \/ Serve(q) \/ abandon(q)
       PROVE  Goal
  <2>1. q \in Requests
    BY <1>1
  <2> QED
    BY <1>3, <1>5, <1>6, <1>7, <1>8, <1>9, <1>10, <1>13, <1>15, <2>1, Zenon DEF Serve
<1>16. Goal
  BY <1>11, <1>14, <1>15, Zenon DEF Next
<1> QED
  BY <1>16 DEF Goal

(* A stored row is kept with its key, and with its expiry if it had one, or *)
(* is new and open.                                                         *)
KeptOrNew(v) ==
    \/ rows'[v] = NONE
    \/ /\ rows[v] # NONE /\ rows'[v].key = rows[v].key
       /\ rows'[v].expires = rows[v].expires \/ rows[v].expires = NONE
    \/ rows'[v].expires = NONE /\ rows'[v].key \in 1..keys'

(* What becomes of the secret and of the clock.                             *)
LEMMA TablesMove ==
    ASSUME Shapes, [Next]_vars
    PROVE  /\ keys' \in Nat /\ keys <= keys'
           /\ rows' \in [Versions -> Rows \cup {NONE}]
           /\ \A v \in Versions : rows'[v] # NONE => rows'[v].key \in 1..keys'
           /\ current' \in 0..MaxVersion
           /\ current' # 0 => rows'[current'] # NONE /\ rows'[current'].expires = NONE
           /\ \A v \in Versions : KeptOrNew(v)
<1> DEFINE Goal == /\ keys' \in Nat /\ keys <= keys'
                   /\ rows' \in [Versions -> Rows \cup {NONE}]
                   /\ \A v \in Versions : rows'[v] # NONE => rows'[v].key \in 1..keys'
                   /\ current' \in 0..MaxVersion
                   /\ current' # 0 => rows'[current'] # NONE /\ rows'[current'].expires = NONE
                   /\ \A v \in Versions : KeptOrNew(v)
<1>1. /\ keys \in Nat /\ rows \in [Versions -> Rows \cup {NONE}]
      /\ \A v \in Versions : rows[v] # NONE => rows[v].key \in 1..keys
      /\ current \in 0..MaxVersion /\ MaxVersion \in Nat /\ now \in Nat
      /\ current # 0 => rows[current] # NONE /\ rows[current].expires = NONE
  BY Numbers, Zenon DEF Shapes
<1>2. ASSUME UNCHANGED secret PROVE Goal
  BY <1>1, <1>2 DEF secret, KeptOrNew
<1>3. ASSUME put_version PROVE Goal
  <2> DEFINE new == Row(keys + 1)
             old == [rows[current] EXCEPT !.expires = now + Grace]
  <2>1. /\ keys' = keys + 1 /\ current' = current + 1 /\ current < MaxVersion
        /\ rows' = [v \in Versions |-> IF v = current + 1 THEN new
                                       ELSE IF v = current THEN old ELSE rows[v]]
    BY <1>3 DEF put_version
  <2>2. new \in Rows /\ new.key = keys + 1 /\ new.expires = NONE
    BY <1>1 DEF Row, Rows
  <2>3. current \in Versions => old \in Rows /\ old.key = rows[current].key
    <3> SUFFICES ASSUME current \in Versions
                 PROVE  old \in Rows /\ old.key = rows[current].key
      OBVIOUS
    <3>1. rows[current] \in Rows /\ now + Grace \in Nat
      BY <1>1, ReadPathAssumption DEF Versions
    <3> QED
      BY <3>1 DEF Rows
  <2>4. current + 1 \in Versions /\ (current \in Versions => current # 0)
    BY <1>1, <2>1 DEF Versions
  <2> HIDE DEF new, old
  <2>5. \A v \in Versions : rows'[v] = IF v = current + 1 THEN new
                                       ELSE IF v = current THEN old ELSE rows[v]
    BY <2>1
  <2>6. rows' \in [Versions -> Rows \cup {NONE}]
    BY <1>1, <2>1, <2>2, <2>3
  <2>7. \A v \in Versions : KeptOrNew(v)
    BY <1>1, <2>1, <2>2, <2>3, <2>4, <2>5 DEF KeptOrNew
  <2>8. \A v \in Versions : rows'[v] # NONE => rows'[v].key \in 1..keys'
    BY <1>1, <2>1, <2>2, <2>3, <2>4, <2>5
  <2>9. rows'[current'] # NONE /\ rows'[current'].expires = NONE
    BY <2>1, <2>2, <2>4, <2>5, NoneIsNoRow
  <2> QED
    BY <1>1, <2>1, <2>6, <2>7, <2>8, <2>9
<1>4. ASSUME delete_secret PROVE Goal
  BY <1>1, <1>4 DEF delete_secret, KeptOrNew
<1>5. ASSUME NEW u \in Versions, rewrap_version(u) PROVE Goal
  <2> DEFINE w == rows[u].wrapped + 1
             new == [rows[u] EXCEPT !.wrapped = w]
  <2>1. /\ rows' = [rows EXCEPT ![u] = new] /\ rows[u] # NONE /\ UNCHANGED <<current, keys>>
    BY <1>1, <1>5 DEF rewrap_version
  <2>2. rows[u] \in Rows /\ w \in Nat
    BY <1>1, <2>1 DEF Rows
  <2> HIDE DEF w
  <2>3. new \in Rows /\ new.key = rows[u].key /\ new.expires = rows[u].expires
    BY <2>2 DEF Rows
  <2>4. new # NONE
    BY <2>3, NoneIsNoRow
  <2> HIDE DEF new
  <2>5. /\ rows' \in [Versions -> Rows \cup {NONE}]
        /\ \A v \in Versions : rows'[v] = IF v = u THEN new ELSE rows[v]
    BY <1>1, <2>1, <2>3
  <2>6. \A v \in Versions : KeptOrNew(v)
    BY <2>1, <2>3, <2>5 DEF KeptOrNew
  <2>7. current # 0 => current \in Versions
    BY <1>1 DEF Versions
  <2> QED
    BY <1>1, <2>1, <2>3, <2>4, <2>5, <2>6, <2>7
<1>6. ASSUME expire_grace_versions PROVE Goal
  <2>1. /\ \A v \in Versions : rows'[v] \in {rows[v], NONE}
        /\ \A v \in Versions : rows[v] # NONE /\ rows[v].expires = NONE => rows'[v] = rows[v]
        /\ rows' \in [Versions -> Rows \cup {NONE}] /\ UNCHANGED <<current, keys>>
    BY <1>1, <1>6 DEF expire_grace_versions
  <2>2. current # 0 => current \in Versions
    BY <1>1 DEF Versions
  <2>3. \A v \in Versions : KeptOrNew(v)
    BY <2>1 DEF KeptOrNew
  <2> QED
    BY <1>1, <2>1, <2>2, <2>3
<1> HIDE DEF Goal
<1>7. Goal
  BY <1>2, <1>3, <1>4, <1>5, <1>6, Zenon DEF Next, vars, Serve, guard_refuses, get_secret,
       verify, record_denied, verify_read, cache_hit, cache_miss, kms_answers, kms_fails,
       answer, record_verify, abandon, tick, kms_changes, restart, around
<1> QED
  BY <1>7 DEF Goal

(* The values the clock, the switches and the counts take.                  *)
LEMMA CountsMove ==
    ASSUME Shapes, [Next]_vars
    PROVE  /\ scenario' = scenario /\ now' \in 0..scenario.ticks /\ now <= now'
           /\ events' \in 0..scenario.events
           /\ kms' \in BOOLEAN /\ denied' \in BOOLEAN
<1>1. scenario \in Scenarios /\ scenario.ticks \in Nat /\ scenario.events \in Nat
      /\ now \in 0..scenario.ticks /\ events \in 0..scenario.events
      /\ kms \in BOOLEAN /\ denied \in BOOLEAN
  BY Numbers, Zenon DEF Shapes
<1>2. scenario' = scenario
  BY ScenarioStays
<1>3. now' = now \/ (now' = now + 1 /\ now < scenario.ticks)
  BY Zenon DEF Next, vars, secret, Serve, guard_refuses, get_secret, verify, record_denied,
       verify_read, cache_hit, cache_miss, kms_answers, kms_fails, answer,
       record_verify, abandon, tick, put_version, delete_secret,
       expire_grace_versions, rewrap_version, kms_changes, restart, around
<1>4. events' = events \/ (events' = events + 1 /\ events < scenario.events)
  BY Zenon DEF Next, vars, secret, Serve, guard_refuses, get_secret, verify, record_denied,
       verify_read, cache_hit, cache_miss, kms_answers, kms_fails, answer,
       record_verify, abandon, tick, put_version, delete_secret,
       expire_grace_versions, rewrap_version, kms_changes, restart, around, Happens
<1>5. kms' = kms \/ kms' = ~kms
  BY Zenon DEF Next, vars, secret, Serve, guard_refuses, get_secret, verify, record_denied,
       verify_read, cache_hit, cache_miss, kms_answers, kms_fails, answer,
       record_verify, abandon, tick, put_version, delete_secret,
       expire_grace_versions, rewrap_version, kms_changes, restart, around
<1>6. denied' = denied \/ denied' = TRUE
  BY Zenon DEF Next, vars, secret, Serve, guard_refuses, get_secret, verify, record_denied,
       verify_read, cache_hit, cache_miss, kms_answers, kms_fails, answer,
       record_verify, abandon, tick, put_version, delete_secret,
       expire_grace_versions, rewrap_version, kms_changes, restart, around, history
<1>7. kms' \in BOOLEAN /\ denied' \in BOOLEAN
  BY <1>1, <1>5, <1>6, Zenon
<1> QED
  BY <1>1, <1>2, <1>3, <1>4, <1>7

(* Time and the number of keys do not go back.                              *)
LEMMA NumbersMove ==
    ASSUME Shapes, [Next]_vars
    PROVE  /\ now \in Nat /\ now' \in Nat /\ now <= now'
           /\ keys \in Nat /\ keys' \in Nat /\ keys <= keys'
<1>1. now' \in 0..scenario.ticks /\ now <= now' /\ keys' \in Nat /\ keys <= keys'
  BY CountsMove, TablesMove, Zenon
<1> QED
  BY <1>1, Numbers

(* What becomes of the cache: entries go, and the key of a row that a       *)
(* request has read comes.                                                  *)
LEMMA CacheMoves ==
    ASSUME Shapes, [Next]_vars
    PROVE  \A e \in cache' : e.at \in 0..now' /\ e.key \in 1..keys'
<1>1. \A e \in cache' : e \in cache \/
         \E q \in scenario.requests : /\ requests[q].pc = "kms"
                                      /\ e = [tag |-> cache_key(Next_row(q)), at |-> now,
                                              key |-> Next_row(q).key]
  <2>1. ASSUME NEW q, kms_answers(q), NEW e \in cache', e \notin cache
        PROVE  /\ requests[q].pc = "kms"
               /\ e = [tag |-> cache_key(Next_row(q)), at |-> now, key |-> Next_row(q).key]
    BY <2>1 DEF kms_answers, put, Evict
  <2>2. ASSUME NEW q, cache_miss(q) PROVE cache' \subseteq cache
    BY <2>2 DEF cache_miss
  <2>3. ASSUME restart PROVE cache' \subseteq cache
    BY <2>3 DEF restart
  <2>4. \/ cache' = cache \/ restart
        \/ \E q \in scenario.requests : cache_miss(q) \/ kms_answers(q)
    BY Zenon DEF Next, vars, secret, Serve, guard_refuses, get_secret, verify, record_denied,
         verify_read, cache_hit, kms_fails, answer, record_verify, abandon, tick,
         put_version, delete_secret, expire_grace_versions, rewrap_version, kms_changes, around
  <2> QED
    BY <2>1, <2>2, <2>3, <2>4
<1>2. now \in Nat /\ now' \in Nat /\ now <= now' /\ keys \in Nat /\ keys' \in Nat /\ keys <= keys'
      /\ scenario.requests \subseteq Requests
  BY NumbersMove, Numbers, Zenon
<1>3. ASSUME NEW e \in cache PROVE e.at \in 0..now' /\ e.key \in 1..keys'
  <2>1. e.at \in 0..now /\ e.key \in 1..keys
    BY <1>3, Zenon DEF Shapes
  <2> QED
    BY <1>2, <2>1
<1>4. ASSUME NEW q \in Requests, requests[q].pc = "kms", NEW e,
             e = [tag |-> cache_key(Next_row(q)), at |-> now, key |-> Next_row(q).key]
      PROVE  e.at \in 0..now' /\ e.key \in 1..keys'
  <2>1. Next_row(q).key \in 1..keys
    BY <1>4, NextRow DEF Shapes
  <2>2. e.at = now /\ e.key = Next_row(q).key
    BY <1>4
  <2> QED
    BY <1>2, <2>1, <2>2
<1> QED
  BY <1>1, <1>2, <1>3, <1>4, Zenon

(* The shape of a counter.                                                  *)
Tallies(t) == [failures : Nat \ {0}, window_start : 0..t, locked_until : Nat \cup {NONE}]

(* A step counts a failure or leaves the counters as they are.              *)
LEMMA Recorded ==
    ASSUME [Next]_vars
    PROVE  \/ UNCHANGED <<lockouts, failed>>
           \/ \E c \in Counters :
                 /\ lockouts' = [lockouts EXCEPT ![c] = RecordAuthFailure(c)]
                 /\ failed' = [failed EXCEPT ![c] = Append(@, now)]
                 /\ UNCHANGED now
<1>1. "peer" \in Counters /\ verify_key \in Counters
  BY DEF Counters, verify_key
<1> QED
  BY <1>1, Zenon DEF Next, vars, secret, history, Serve, guard_refuses, get_secret, verify,
     record_denied, verify_read, cache_hit, cache_miss, kms_answers, kms_fails, answer,
     record_verify, abandon, tick, put_version, delete_secret,
     expire_grace_versions, rewrap_version, kms_changes, restart, around, Record

(* Times recorded so far are not later than now.                            *)
LEMMA TimesStay ==
    ASSUME NEW t \in Nat, NEW u \in Nat, t <= u, NEW s \in Seq(0..t)
    PROVE  s \in Seq(0..u)
BY 0..t \subseteq 0..u

(* What becomes of the failures recorded.                                   *)
LEMMA FailedMoves ==
    ASSUME Shapes, [Next]_vars
    PROVE  failed' \in [Counters -> Seq(0..now')]
<1>1. now \in Nat /\ now' \in Nat /\ now <= now' /\ failed \in [Counters -> Seq(0..now)]
  BY NumbersMove, Zenon DEF Shapes
<1>2. \A c \in Counters : failed[c] \in Seq(0..now')
  BY <1>1, TimesStay, Zenon
<1>3. CASE UNCHANGED failed
  BY <1>1, <1>2, <1>3
<1>4. ASSUME NEW c \in Counters, failed' = [failed EXCEPT ![c] = Append(@, now)]
      PROVE  failed' \in [Counters -> Seq(0..now')]
  <2>1. Append(failed[c], now) \in Seq(0..now')
    BY <1>1, <1>2
  <2> QED
    BY <1>1, <1>2, <1>4, <2>1
<1> QED
  BY <1>3, <1>4, Recorded

(* RecordAuthFailure writes a row that is one.                              *)
LEMMA TallyShape ==
    ASSUME Shapes, NEW c \in Counters PROVE RecordAuthFailure(c) \in Tallies(now)
<1>1. /\ DOMAIN lockouts = Counters
      /\ \A d \in Counters : lockouts[d] = NONE \/ lockouts[d] \in Tallies(now)
      /\ now \in Nat
  BY Numbers, Zenon DEF Shapes, Tallies
<1> DEFINE old == IF lockouts[c] = NONE
                  THEN [failures |-> 0, window_start |-> now, locked_until |-> NONE]
                  ELSE lockouts[c]
           elapsed == now - old.window_start >= Window
           failures == (IF elapsed THEN 0 ELSE old.failures) + 1
           start == IF elapsed THEN now ELSE old.window_start
           until == IF Full(failures) THEN now + Lockout ELSE old.locked_until
<1>2. old.failures \in Nat /\ old.window_start \in 0..now /\ old.locked_until \in Nat \cup {NONE}
  BY <1>1 DEF Tallies
<1> HIDE DEF old
<1>3. failures \in Nat \ {0} /\ start \in 0..now
  BY <1>1, <1>2
<1>4. until \in Nat \cup {NONE}
  BY <1>1, <1>2, ReadPathAssumption
<1>5. RecordAuthFailure(c) = [failures |-> failures, window_start |-> start,
                              locked_until |-> until]
  BY Zenon DEF RecordAuthFailure, old
<1> HIDE DEF failures, start, until
<1> QED
  BY <1>3, <1>4, <1>5 DEF Tallies

(* What becomes of the failure counters.                                    *)
LEMMA CountersMove ==
    ASSUME Shapes, [Next]_vars
    PROVE  /\ DOMAIN lockouts' = Counters
           /\ \A c \in Counters : lockouts'[c] = NONE \/ lockouts'[c] \in Tallies(now')
<1>1. /\ DOMAIN lockouts = Counters
      /\ \A c \in Counters : lockouts[c] = NONE \/ lockouts[c] \in Tallies(now)
      /\ now \in Nat
  BY Numbers, Zenon DEF Shapes, Tallies
<1>2. \A c \in Counters : RecordAuthFailure(c) \in Tallies(now)
  BY TallyShape, Zenon
<1>3. \/ UNCHANGED lockouts
      \/ \E c \in Counters : lockouts' = [lockouts EXCEPT ![c] = RecordAuthFailure(c)]
  BY Recorded
<1>4. now' \in Nat /\ now <= now'
  BY NumbersMove, Zenon
<1>5. Tallies(now) \subseteq Tallies(now')
  BY <1>1, <1>4 DEF Tallies
<1>6. CASE UNCHANGED lockouts
  BY <1>1, <1>5, <1>6
<1>7. ASSUME NEW c \in Counters, lockouts' = [lockouts EXCEPT ![c] = RecordAuthFailure(c)]
      PROVE  /\ DOMAIN lockouts' = Counters
             /\ \A d \in Counters : lockouts'[d] = NONE \/ lockouts'[d] \in Tallies(now')
  BY <1>1, <1>2, <1>5, <1>7
<1> QED
  BY <1>3, <1>6, <1>7

(* What Observe keeps of a request for verify that is not at rest.          *)
LEMMA SeenMoves ==
    ASSUME Shapes, Next
    PROVE  /\ seen' \in [Requests -> Sights]
           /\ \A q \in Requests : requests'[q].kind = "verify" =>
                LET live == requests'[q].value \in LiveValues'
                IN  IF requests[q].pc = "idle"
                    THEN seen'[q].ever = live /\ seen'[q].always = live
                    ELSE /\ seen'[q].ever = (seen[q].ever \/ live)
                         /\ seen'[q].always = (seen[q].always /\ live)
<1>1. seen \in [Requests -> Sights]
  BY DEF Shapes
<1> DEFINE live(q) == requests'[q].value \in LiveValues'
           a(q) == seen[q].ever \/ live(q)
           b(q) == seen[q].always /\ live(q)
<1>2. seen' = [q \in Requests |->
          IF requests'[q].kind # "verify" THEN Unseen
          ELSE IF requests[q].pc = "idle" THEN [ever |-> live(q), always |-> live(q)]
          ELSE [ever |-> a(q), always |-> b(q)]]
  BY Zenon DEF Next, Observe
<1>3. \A q \in Requests : live(q) \in BOOLEAN /\ a(q) \in BOOLEAN /\ b(q) \in BOOLEAN
  <2> TAKE q \in Requests
  <2>1. live(q) \in BOOLEAN
    OBVIOUS
  <2> HIDE DEF live
  <2>2. a(q) \in BOOLEAN
    OBVIOUS
  <2>3. b(q) \in BOOLEAN
    OBVIOUS
  <2> QED
    BY <2>1, <2>2, <2>3, Zenon
<1>4. Unseen \in Sights
  BY DEF Unseen, Sights
<1>5. \A q \in Requests : /\ [ever |-> live(q), always |-> live(q)] \in Sights
                          /\ [ever |-> a(q), always |-> b(q)] \in Sights
  BY <1>3, Zenon DEF Sights
<1> HIDE DEF live, a, b
<1>6. seen' \in [Requests -> Sights]
  BY <1>2, <1>4, <1>5
<1>7. ASSUME NEW q \in Requests, requests'[q].kind = "verify"
      PROVE  IF requests[q].pc = "idle"
             THEN seen'[q].ever = live(q) /\ seen'[q].always = live(q)
             ELSE seen'[q].ever = a(q) /\ seen'[q].always = b(q)
  BY <1>2, <1>7
<1> QED
  BY <1>6, <1>7, Zenon DEF live, a, b

(* Every step keeps the shapes.                                             *)
LEMMA ShapesStep ==
    ASSUME Shapes, [Next]_vars PROVE Shapes'
<1>1. requests' \in [Requests -> Calls]
  BY RequestMoves
<1>2. seen' \in [Requests -> Sights]
  <2>1. CASE Next
    BY <2>1, SeenMoves
  <2>2. CASE UNCHANGED vars
    BY <2>2, Zenon DEF vars, Shapes
  <2> QED
    BY <2>1, <2>2
<1>3. now \in Nat /\ now' \in Nat /\ now <= now' /\ keys \in Nat /\ keys' \in Nat /\ keys <= keys'
  BY NumbersMove, Zenon
<1> DEFINE Fine(o) == /\ o.pc \in {"open", "kms"} => o.todo # {} /\ o.kind \in {"get", "verify"}
                      /\ o.pc = "read" => o.at <= now'
                      /\ o.pc \in {"read", "valid", "invalid"} => o.kind = "verify"
                      /\ \A r \in o.todo : r.key \in 1..keys'
<1>4. ASSUME NEW q \in Requests PROVE Fine(requests[q])
  <2>1. requests[q] \in Calls
    BY DEF Shapes
  <2>2. /\ requests[q].at \in Nat
        /\ \A r \in requests[q].todo : r.key \in 1..keys
        /\ requests[q].pc = "read" => requests[q].at <= now
    BY <2>1, Zenon DEF Shapes, Calls
  <2>3. \A r \in requests[q].todo : r.key \in 1..keys'
    BY <1>3, <2>2
  <2>4. requests[q].pc = "read" => requests[q].at <= now'
    BY <1>3, <2>2
  <2> QED
    BY <2>3, <2>4, Zenon DEF Shapes
<1>5. Fine(Idle)
  BY DEF Idle
<1>6. ASSUME NEW q \in Requests, UNCHANGED <<now, secret>>, Turn(q) PROVE Fine(requests'[q])
  <2> DEFINE o == requests[q]
             n == requests'[q]
             live == live_versions(o.at)
  <2>1. UNCHANGED <<now, rows, current, keys>>
    BY <1>6 DEF secret
  <2>2. Fine(o)
    BY <1>4, Zenon
  <2>3. \A v \in Versions : rows[v] # NONE => Stored(v).key \in 1..keys'
    BY <2>1, StoredCopies DEF Shapes
  <2>4. live \subseteq {v \in Versions : rows[v] # NONE}
    BY Zenon DEF live_versions
  <2>5. current # 0 => current \in Versions /\ rows[current] # NONE
    BY CurrentStored, Zenon
  <2> HIDE DEF live
  <2>6. CASE n.pc \in {"denied", "garbled"} /\ n.todo = o.todo
    BY <2>2, <2>6, Zenon
  <2>7. CASE n.pc = "open" /\ n.kind = "get" /\ current # 0 /\ n.todo = {Stored(current)}
    BY <2>3, <2>5, <2>7
  <2>8. CASE n.pc = "invalid" /\ n.kind = "verify" /\ n.todo = {}
    BY <2>8
  <2>9. CASE n.pc = "read" /\ n.kind = "verify" /\ n.at = now /\ n.todo = {}
    BY <1>3, <2>9
  <2>10. CASE /\ o.pc = "read" /\ n.kind = o.kind
              /\ n.pc = IF live = {} THEN "invalid" ELSE "open"
              /\ n.todo = {Stored(v) : v \in live}
    <3>1. \A r \in n.todo : r.key \in 1..keys'
      BY <2>3, <2>4, <2>10
    <3>2. live # {} => n.todo # {}
      BY <2>10
    <3> QED
      BY <2>2, <2>10, <3>1, <3>2, Zenon
  <2>11. CASE o.pc \in {"open", "kms"} /\ n.kind = o.kind /\ n.pc = "kms" /\ n.todo = o.todo
    BY <2>2, <2>11, Zenon
  <2>12. CASE o.kind = "verify" /\ n.kind = o.kind /\ n.pc = "valid" /\ n.todo = {}
    BY <2>12
  <2>13. CASE /\ o.kind = "verify" /\ n.kind = o.kind
              /\ n.pc = IF n.todo = {} THEN "invalid" ELSE "open"
              /\ \E r \in o.todo : r.key # o.value /\ n.todo = o.todo \ {r}
    BY <2>2, <2>13
  <2> HIDE DEF Fine
  <2> QED
    BY <1>6, <2>6, <2>7, <2>8, <2>9, <2>10, <2>11, <2>12, <2>13, Zenon DEF Turn, live
<1> HIDE DEF Fine
<1>7. \A q \in Requests : Fine(requests'[q])
  BY <1>4, <1>5, <1>6, RequestMoves, Zenon
<1>8. /\ scenario' \in Scenarios /\ now' \in 0..scenario'.ticks /\ events' \in 0..scenario'.events
      /\ kms' \in BOOLEAN /\ denied' \in BOOLEAN
  BY CountsMove, Zenon DEF Shapes
<1>9. \A c \in Counters :
          lockouts'[c] = NONE \/ lockouts'[c] \in [failures : Nat \ {0},
              window_start : 0..now', locked_until : Nat \cup {NONE}]
  BY CountersMove DEF Tallies
<1> QED
  BY <1>1, <1>2, <1>7, <1>8, <1>9, TablesMove, CacheMoves, CountersMove, FailedMoves,
     Zenon DEF Shapes, Fine

(* A row that counts for a request is live by then or was.                  *)
LEMMA LiveNow ==
    ASSUME Shapes
    PROVE  /\ 0 \notin LiveValues
           /\ \A v \in Versions : Counts(v, now) => rows[v].key \in LiveValues
           /\ \A x \in LiveValues, t \in 0..now :
                 \E v \in Versions : Counts(v, t) /\ rows[v].key = x
<1>1. /\ now \in Nat /\ rows \in [Versions -> Rows \cup {NONE}]
      /\ \A v \in Versions : rows[v] # NONE => rows[v].key \in 1..keys
  BY Numbers, Zenon DEF Shapes
<1>2. 0 \notin LiveValues
  BY DEF LiveValues, Shapes
<1>3. \A v \in Versions : Counts(v, now) => rows[v].key \in LiveValues
  BY <1>1 DEF Counts, LiveValues
<1>4. ASSUME NEW x \in LiveValues, NEW t \in 0..now
      PROVE  \E v \in Versions : Counts(v, t) /\ rows[v].key = x
  <2>1. PICK v \in Versions : /\ rows[v] # NONE /\ rows[v].key = x
                              /\ rows[v].expires # NONE => now < rows[v].expires
    BY <1>4 DEF LiveValues
  <2>2. rows[v].expires \in Nat \cup {NONE}
    BY <1>1, <2>1 DEF Rows
  <2>3. rows[v].expires = NONE \/ t < rows[v].expires
    BY <1>1, <2>1, <2>2
  <2> QED
    BY <2>1, <2>3 DEF Counts
<1> QED
  BY <1>2, <1>3, <1>4, Zenon

(* A request for verify came no later than now.                             *)
LEMMA ReadAt ==
    ASSUME Shapes, NEW q \in Requests, requests[q].pc = "read"
    PROVE  requests[q].at \in 0..now
<1>1. requests[q] \in Calls /\ requests[q].at <= now
  BY Zenon DEF Shapes
<1>2. requests[q].at \in Nat /\ now \in Nat
  BY <1>1, Numbers, Zenon DEF Calls
<1> QED
  BY <1>1, <1>2

(* Every step keeps the answers exact.                                      *)
LEMMA ExactStep ==
    ASSUME ExactInv, [Next]_vars PROVE ExactInv'
<1>1. Shapes /\ Shapes'
  BY ShapesStep DEF ExactInv
<1>2. SUFFICES ASSUME NEW q \in Requests PROVE Exact(q)'
  BY <1>1 DEF ExactInv
<1> DEFINE o == requests[q]
           n == requests'[q]
           Reads(c, r, s) == c.pc = "read" => \A v \in Versions :
              (r[v] # NONE /\ (r[v].expires = NONE \/ c.at < r[v].expires)) /\ r[v].key = c.value
                 => s.ever
           Opens(c, s) == c.pc \in {"open", "kms"} =>
              /\ \A r \in c.todo : r.key = c.value => s.ever
              /\ s.always => \E r \in c.todo : r.key = c.value
           Ends(c, s) == (c.pc = "valid" => s.ever) /\ (c.pc = "invalid" => ~s.always)
<1>3. /\ Exact(q)' = (n.kind = "verify" =>
             Reads(n, rows', seen'[q]) /\ Opens(n, seen'[q]) /\ Ends(n, seen'[q]))
      /\ o.kind = "verify" =>
             Reads(o, rows, seen[q]) /\ Opens(o, seen[q]) /\ Ends(o, seen[q])
  BY Zenon DEF Exact, Counts, ExactInv
<1>4. CASE UNCHANGED vars
  BY <1>3, <1>4, Zenon DEF vars, secret
<1>5. CASE Next
  <2> SUFFICES ASSUME n.kind = "verify"
               PROVE  Reads(n, rows', seen'[q]) /\ Opens(n, seen'[q]) /\ Ends(n, seen'[q])
    BY <1>3, Zenon
  <2> DEFINE live == n.value \in LiveValues'
  <2>1. IF o.pc = "idle" THEN seen'[q].ever = live /\ seen'[q].always = live
        ELSE /\ seen'[q].ever = (seen[q].ever \/ live)
             /\ seen'[q].always = (seen[q].always /\ live)
    BY <1>1, <1>5, SeenMoves, Zenon
  <2>2. CASE n = Idle
    <3>1. n.pc = "idle"
      <4>1. Idle.pc = "idle"
        BY Zenon DEF Idle
      <4> QED
        BY <2>2, <4>1, Zenon
    <3> QED
      BY <3>1, Zenon
  <2>3. CASE n = o
    <3>1. CASE o.pc = "idle"
      BY <2>3, <3>1, Zenon
    <3>2. CASE o.pc # "idle"
      <4>1. /\ seen[q].ever => seen'[q].ever
            /\ seen'[q].always => seen[q].always
        BY <2>1, <3>2, Zenon
      <4>2. Opens(n, seen'[q]) /\ Ends(n, seen'[q])
        BY <1>3, <2>3, <4>1, Zenon
      <4>3. ASSUME n.pc = "read", NEW v \in Versions, rows'[v] # NONE,
                   rows'[v].expires = NONE \/ n.at < rows'[v].expires, rows'[v].key = n.value
            PROVE  seen'[q].ever
        <5>1. CASE rows[v] # NONE /\ rows'[v].key = rows[v].key
                     /\ (rows'[v].expires = rows[v].expires \/ rows[v].expires = NONE)
          BY <1>3, <2>3, <4>1, <4>3, <5>1, Zenon
        <5>2. CASE rows'[v].expires = NONE /\ rows'[v].key \in 1..keys'
          <6>1. rows'[v].key \in LiveValues'
            BY <4>3, <5>2 DEF LiveValues
          <6> QED
            BY <2>1, <3>2, <4>3, <6>1, Zenon
        <5> QED
          BY <1>1, <4>3, <5>1, <5>2, TablesMove DEF KeptOrNew
      <4> QED
        BY <4>2, <4>3
    <3> QED
      BY <3>1, <3>2
  <2>4. ASSUME UNCHANGED <<now, secret>>, Turn(q)
        PROVE  Reads(n, rows', seen'[q]) /\ Opens(n, seen'[q]) /\ Ends(n, seen'[q])
    <3> DEFINE L == live_versions(o.at)
    <3>1. LiveValues' = LiveValues /\ UNCHANGED <<now, rows>>
      BY <2>4 DEF LiveValues, secret
    <3>2. CASE n.pc \in {"denied", "garbled"}
      BY <3>2
    <3>3. CASE o.pc = "idle" /\ n.pc = "invalid" /\ n.value = 0
      <4>1. ~live
        BY <1>1, <3>1, <3>3, LiveNow, Zenon
      <4> QED
        BY <2>1, <3>3, <4>1, Zenon
    <3>4. CASE o.pc = "idle" /\ n.pc = "read" /\ n.at = now
      <4>1. \A v \in Versions : Counts(v, now) /\ rows[v].key = n.value => seen'[q].ever
        BY <1>1, <2>1, <3>1, <3>4, LiveNow, Zenon
      <4> QED
        BY <3>1, <3>4, <4>1 DEF Counts
    <3>5. CASE /\ o.pc = "read" /\ n.kind = o.kind /\ n.value = o.value
               /\ n.pc = IF L = {} THEN "invalid" ELSE "open"
               /\ n.todo = {Stored(v) : v \in L}
      <4>1. o.at \in 0..now
        BY <1>1, <3>5, ReadAt, Zenon
      <4>2. \A v \in Versions : v \in L <=> Counts(v, o.at)
        BY DEF live_versions, Counts
      <4>3. L \subseteq Versions
        BY DEF live_versions
      <4>4. \A v \in L : Stored(v).key = rows[v].key
        BY DEF Stored
      <4> HIDE DEF L
      <4>5. /\ seen[q].ever => seen'[q].ever
            /\ seen'[q].always => live
        BY <2>1, <3>5, Zenon
      <4>6. \A v \in L : rows[v].key = o.value => seen[q].ever
        BY <1>3, <3>5, <4>2, <4>3, Zenon DEF Counts
      <4>7. seen'[q].always => \E v \in L : rows[v].key = n.value
        BY <1>1, <3>1, <4>1, <4>2, <4>5, LiveNow, Zenon
      <4>8. Opens(n, seen'[q])
        BY <3>5, <4>4, <4>5, <4>6, <4>7, Zenon
      <4>9. Ends(n, seen'[q])
        BY <3>5, <4>7
      <4> QED
        BY <3>5, <4>8, <4>9
    <3>6. CASE o.pc \in {"open", "kms"} /\ n.kind = o.kind /\ n.value = o.value
      <4>1. /\ seen[q].ever => seen'[q].ever
            /\ seen'[q].always => seen[q].always
        BY <2>1, <3>6, Zenon
      <4>2. /\ \A r \in o.todo : r.key = n.value => seen'[q].ever
            /\ seen'[q].always => \E r \in o.todo : r.key = n.value
        BY <1>3, <3>6, <4>1, Zenon
      <4>3. CASE n.pc = "kms" /\ n.todo = o.todo
        BY <4>2, <4>3, Zenon
      <4>4. CASE n.pc = "valid" /\ \E r \in o.todo : r.key = o.value
        BY <3>6, <4>2, <4>4
      <4>5. ASSUME NEW r \in o.todo, r.key # o.value, n.todo = o.todo \ {r},
                   n.pc = IF n.todo = {} THEN "invalid" ELSE "open"
            PROVE  Reads(n, rows', seen'[q]) /\ Opens(n, seen'[q]) /\ Ends(n, seen'[q])
        <5>1. /\ \A s \in n.todo : s.key = n.value => seen'[q].ever
              /\ seen'[q].always => \E s \in n.todo : s.key = n.value
          BY <3>6, <4>2, <4>5, Zenon
        <5> QED
          BY <4>5, <5>1, Zenon
      <4>6. \/ n.pc = "kms" /\ n.todo = o.todo
            \/ n.pc = "valid" /\ \E r \in o.todo : r.key = o.value
            \/ /\ n.pc = IF n.todo = {} THEN "invalid" ELSE "open"
               /\ \E r \in o.todo : r.key # o.value /\ n.todo = o.todo \ {r}
            \/ n.pc \in {"denied", "garbled"}
        BY <2>4, <3>6, Zenon DEF Turn
      <4> QED
        BY <3>2, <4>3, <4>4, <4>5, <4>6, Zenon
    <3>7. CASE n.kind = "get"
      BY <3>7
    <3> HIDE DEF Reads, Opens, Ends
    <3> QED
      BY <2>4, <3>2, <3>3, <3>4, <3>5, <3>6, <3>7, Zenon DEF Turn
  <2> HIDE DEF Reads, Opens, Ends
  <2> QED
    BY <1>1, <2>2, <2>3, <2>4, RequestMoves, Zenon
<1> QED
  BY <1>4, <1>5

(* The shapes hold at the start, and no request is answered yet.            *)
LEMMA ExactStart == Init => ExactInv
<1> SUFFICES ASSUME Init PROVE ExactInv
  BY Zenon
<1>1. MaxVersion \in Nat /\ MaxVersion > 0 /\ MaxRetries \in Nat
      /\ scenario.ticks \in Nat /\ scenario.events \in Nat
  BY ReadPathAssumption DEF Init
<1>2. Row(1) \in Rows /\ Row(1).key = 1 /\ Row(1).expires = NONE
  BY DEF Row, Rows
<1>3. 1 \in Versions /\ Row(1) # NONE
  BY <1>1, <1>2, NoneIsNoRow DEF Versions
<1>4. /\ rows \in [Versions -> Rows \cup {NONE}] /\ rows[1] = Row(1)
      /\ \A v \in Versions : v # 1 => rows[v] = NONE
  BY <1>2, <1>3 DEF Init
<1>5. Idle \in Calls /\ Idle.pc = "idle" /\ Idle.todo = {}
  BY IdleShape DEF Idle
<1>6. Unseen \in Sights
  BY DEF Unseen, Sights
<1>7. requests \in [Requests -> Calls] /\ seen \in [Requests -> Sights]
      /\ \A q \in Requests : requests[q] = Idle
  BY <1>5, <1>6, Zenon DEF Init
<1>8. \A q \in Requests : Exact(q)
  BY <1>5, <1>7 DEF Exact
<1>9. /\ scenario \in Scenarios /\ now = 0 /\ events = 0 /\ kms = TRUE /\ denied = FALSE
      /\ keys = 1 /\ current = 1 /\ cache = {} /\ lockouts = [c \in Counters |-> NONE]
  BY DEF Init
<1>10. \A v \in Versions : rows[v] # NONE => rows[v].key \in 1..keys
  BY <1>2, <1>4, <1>9
<1>11. current \in 0..MaxVersion /\ rows[current] # NONE /\ rows[current].expires = NONE
  BY <1>1, <1>2, <1>3, <1>4, <1>9
<1>12. \A q \in Requests :
          /\ requests[q].pc \in {"open", "kms"} =>
                requests[q].todo # {} /\ requests[q].kind \in {"get", "verify"}
          /\ requests[q].pc = "read" => requests[q].at <= now
          /\ requests[q].pc \in {"read", "valid", "invalid"} => requests[q].kind = "verify"
          /\ \A r \in requests[q].todo : r.key \in 1..keys
  BY <1>5, <1>7
<1>13. now \in 0..scenario.ticks /\ events \in 0..scenario.events /\ keys \in Nat
  BY <1>1, <1>9
<1>14. failed \in [Counters -> Seq(0..now)]
  BY <1>9 DEF Init
<1>15. Shapes
  BY <1>4, <1>7, <1>9, <1>14, <1>10, <1>11, <1>12, <1>13, Zenon DEF Shapes
<1> QED
  BY <1>8, <1>15 DEF ExactInv

(* The inductive invariant of the answers, in every behaviour.              *)
THEOREM ExactInvariance == Spec => []ExactInv
<1>1. ExactInv /\ [Next]_vars => ExactInv'
  BY ExactStep
<1> QED
  BY <1>1, ExactStart, PTL DEF Spec

(* The secret, the cache, the counters and the requests keep their shapes,  *)
(* no request retries KMS more than MaxRetries times, and none looks for a  *)
(* row to open when it has none (service.rs; kms.rs, RetryingKms).          *)
THEOREM TypeCorrect == Spec => []TypeOK
<1>1. ExactInv => TypeOK
  <2> SUFFICES ASSUME Shapes PROVE TypeOK
    BY DEF ExactInv
  <2>1. \A v \in Versions : rows[v] = NONE \/ rows[v] \in [key : 1..keys, wrapped : Nat,
                                                          expires : Nat \cup {NONE}]
    BY DEF Shapes, Rows
  <2>2. \A q \in Requests :
          /\ requests[q].pc \in {"idle", "denied", "read", "open", "kms", "valid",
                                 "invalid", "garbled"}
          /\ requests[q].attempt \in 0..MaxRetries
          /\ requests[q].pc \in {"open", "kms"} => requests[q].todo # {}
    BY Zenon DEF Shapes, Calls, Stages
  <2>3. \A c \in Counters : failed[c] \in Seq(0..now)
    BY Zenon DEF Shapes
  <2> QED
    BY <2>1, <2>2, <2>3, Zenon DEF Shapes, TypeOK
<1> QED
  BY <1>1, ExactInvariance, PTL

(* verify calls a value valid only if it was live at some moment of the     *)
(* request and invalid only if at some moment it was not, for any number of *)
(* overlapping requests and whatever rotates, expires or is deleted in      *)
(* between (service.rs, verify).                                            *)
THEOREM VerifyIsExactAlways == Spec => []VerifyIsExact
<1>1. ExactInv => VerifyIsExact
  BY DEF ExactInv, Shapes, Exact, VerifyIsExact
<1> QED
  BY <1>1, ExactInvariance, PTL
=============================================================================
