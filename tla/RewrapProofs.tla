---------------------------- MODULE RewrapProofs ----------------------------
(***************************************************************************)
(* Theorems about Rewrap, for any number of secrets, versions, nodes,      *)
(* rotations and interleaved passes.                                       *)
(***************************************************************************)
EXTENDS Rewrap, WellFoundedInduction, TLAPS

(* The states of a pass in which it holds the busy flag of its node, and    *)
(* those in which it has a target.                                          *)
Held == {"scan", "rewrap", "write"}
Aimed == Held \cup {"start", "persist"}

(* The states in which it has the keys of a secret at hand.                 *)
Writing == {"rewrap", "write"}

(* A version being sealed.                                                  *)
Seal == [pc : {"idle", "stamp", "commit"}, name : Names \cup {NONE},
         version : Nat, row : Row \cup {NONE}]

(* A pass aims at a rotation that has happened and writes keys that KMS     *)
(* wrapped no earlier than that rotation.                                   *)
PassOK(p, generation) ==
    /\ p.target # NONE => p.target <= generation
    /\ p.pc \in Aimed => p.target # NONE
    /\ p.pc \in Writing => p.name \in Names
    /\ p.pc = "write" => p.todo # {} /\ p.wrapped >= p.target
    /\ p.pc = "persist" => ~p.failed

(* A seal in progress has a name, a version number and a row.               *)
SealOK(s) == s.pc # "idle" => s.name \in Names /\ s.version \in VersionNos /\ s.row \in Row

(* The shapes of all variables, and what each pass and seal is up to.       *)
Shapes ==
    /\ kms \in Generations
    /\ rows \in [Names -> [VersionNos -> Row \cup {NONE}]]
    /\ watermark \in OptGeneration
    /\ busy \in [Nodes -> BOOLEAN]
    /\ passes \in [Actors -> Passes]
    /\ seals \in [Sealers -> Seal]
    /\ keys \in Nat
    /\ budget \in [deletes : Nat, faults : Nat]
    /\ \A a \in Actors : PassOK(passes[a], kms)
    /\ \A r \in Sealers : SealOK(seals[r])

(* The busy flag of a node is held by exactly one of its passes.            *)
BusyInv ==
    /\ \A p \in Nodes : busy[p] => \E a \in Actors : a[1] = p /\ Running(a)
    /\ \A a \in Actors : Running(a) => busy[a[1]]
    /\ \A a, b \in Actors : Running(a) /\ Running(b) /\ a[1] = b[1] => a = b

(* The keys some row needs or some pass has seen.                           *)
Used == SealedKeys \cup UNION {passes[a].seen : a \in Actors}

(* A data key that is not yet stored is known to no row and no pass.        *)
FreshInv ==
    /\ \A k \in Used : k <= keys
    /\ \A r \in Sealers : seals[r].pc # "idle" =>
         /\ seals[r].row.sealed <= keys
         /\ seals[r].row.sealed \notin Used
         /\ \A q \in Sealers \ {r} :
               seals[q].pc # "idle" => seals[q].row.sealed # seals[r].row.sealed

(* Version v of n is still ahead of pass p.                                 *)
Ahead(p, n, v) ==
    \/ p.pc \in Held /\ n \in p.secrets
    \/ /\ p.pc \in Writing
       /\ p.name = n
       /\ \E t \in p.todo : t.version = v

(* Of the rows that were stored when it began, a pass that has not failed   *)
(* has dealt with each one or has it still ahead.                           *)
Earned(p, n, v, row) ==
    row # NONE /\ row.sealed \in p.seen /\ ~p.failed /\ p.pc \in Held \cup {"persist"}
        => ~needs_rewrap(row, p.target) \/ Ahead(p, n, v)

(* That holds of every pass and every row.                                  *)
EarnedInv == \A a \in Actors, n \in Names, v \in VersionNos :
                Earned(passes[a], n, v, rows[n][v])

(* A key a pass has read is the one of the row it goes back to, if that row *)
(* is still there, and versions are numbered beyond it.                     *)
ReadKeys(p) ==
    p.pc \in Writing =>
        \A t \in p.todo :
           /\ rows[p.name][t.version] # NONE => rows[p.name][t.version].sealed = t.dek
           /\ \E w \in Stored(p.name) : t.version <= w

(* Every key is the right one: in the rows, in the seals, in the passes.    *)
KeyInv == /\ EveryVersionOpens
          /\ \A r \in Sealers : seals[r].pc # "idle" => seals[r].row.dek = seals[r].row.sealed
          /\ \A a \in Actors : ReadKeys(passes[a])

(* The inductive invariant.                                                 *)
RewrapInv == /\ Shapes
             /\ BusyInv
             /\ FreshInv
             /\ EarnedInv
             /\ budget.deletes = 0 => KeyInv

---------------------------------------------------------------------------
(* The largest of some numbers *)

(* A set of numbers with a bound has a largest one.                         *)
LEMMA LargestExists ==
    ASSUME NEW b \in Nat, NEW S, S \subseteq 0..b, S # {}
    PROVE  \E x \in S : \A y \in S : y <= x
<1> DEFINE R == {ss \in Nat \X Nat : ss[1] < ss[2]}
           T == {b - x : x \in S}
<1>1. IsWellFoundedOn(R, Nat)
  BY NatLessThanWellFounded DEF OpToRel
<1>2. T \subseteq Nat
  <2>1. ASSUME NEW x \in S PROVE b - x \in Nat
    <3>1. x \in 0..b
      OBVIOUS
    <3> QED
      BY <3>1
  <2> QED
    BY <2>1
<1>3. T # {}
  BY Zenon
<1> HIDE DEF R
<1>4. PICK z \in T : \A y \in T : ~(<<y, z>> \in R)
  BY <1>1, <1>2, <1>3, WFMin, Zenon
<1>5. PICK x \in S : z = b - x
  BY <1>4
<1>6. ASSUME NEW y \in S PROVE y <= x
  <2>1. b - y \in T /\ b - y \in Nat /\ z \in Nat
    BY <1>2, <1>4
  <2>2. ~(b - y < z)
    BY <1>4, <2>1, Zenon DEF R
  <2>3. x \in 0..b /\ y \in 0..b
    OBVIOUS
  <2> QED
    BY <1>5, <2>2, <2>3
<1> QED
  BY <1>6

(* The current version is the highest one stored.                           *)
LEMMA CurrentIsHighest ==
    ASSUME NEW n \in Names
    PROVE  /\ \A v \in Stored(n) : v <= Current(n)
           /\ Stored(n) # {} => Current(n) \in Stored(n)
           /\ Current(n) \in 0..MaxVersion
<1>1. MaxVersion \in Nat /\ Stored(n) \subseteq 0..MaxVersion
  BY RewrapAssumption DEF Stored, VersionNos
<1>2. CASE Stored(n) = {}
  BY <1>1, <1>2 DEF Current
<1>3. CASE Stored(n) # {}
  <2>1. \E x \in Stored(n) : \A y \in Stored(n) : y <= x
    BY <1>1, <1>3, LargestExists, Zenon
  <2>2. Max(Stored(n)) \in Stored(n) /\ \A y \in Stored(n) : y <= Max(Stored(n))
    BY <2>1, Zenon DEF Max
  <2> QED
    BY <1>1, <1>3, <2>2 DEF Current
<1> QED
  BY <1>2, <1>3

(* The next version of a pass is one of those it has to do.                 *)
LEMMA FirstIsTodo ==
    ASSUME NEW todo \in SUBSET [version : VersionNos, dek : Nat], todo # {}
    PROVE  First(todo) \in todo
<1> DEFINE S == {t.version : t \in todo}
<1>1. MaxVersion \in Nat
  BY RewrapAssumption
<1>2. S \subseteq 0..MaxVersion
  BY <1>1 DEF VersionNos
<1>3. S # {}
  BY Zenon
<1>4. PICK x \in S : \A y \in S : y <= x
  BY <1>1, <1>2, <1>3, LargestExists, Zenon
<1>5. PICK t \in todo : x = t.version
  BY <1>4, Zenon
<1>6. \A u \in todo : u.version <= t.version
  BY <1>4, <1>5
<1> QED
  BY <1>5, <1>6, Zenon DEF First

---------------------------------------------------------------------------
(* Shapes *)

(* Rotations are numbers, and none of them is NONE.                         *)
LEMMA Targets == Generations \subseteq Nat /\ NONE \notin Generations /\ 0 \in Generations
BY RewrapAssumption DEF Generations

(* The steps of a pass.                                                     *)
Turn(a) ==
    \/ tick(a) \/ decide(a) \/ force(a) \/ run_pass(a)
    \/ reencrypt_data_key(a) \/ rewrap_one(a)
    \/ rewrap_failed(a) \/ next_secret(a) \/ pass_done(a)
    \/ persist_completed(a) \/ stop(a) \/ \E n \in Names : live_versions(a, n)

(* What stays of a pass while it runs.                                      *)
Same(a) == /\ passes'[a].target = passes[a].target
           /\ passes'[a].seen = passes[a].seen
           /\ passes'[a].failed = passes[a].failed

(* A pass begins, gives up or ends; if it was running, it drops the flag.   *)
Idled(a) ==
    /\ passes'[a].seen = {} /\ passes'[a].pc \notin Held
    /\ \/ passes[a].pc \notin Held /\ UNCHANGED busy
       \/ passes[a].pc \in Held /\ busy' = [busy EXCEPT ![a[1]] = FALSE]
    /\ UNCHANGED rows

(* It takes the flag and lists the secrets.                                 *)
Taken(a) ==
    /\ passes[a].pc \notin Held /\ passes'[a].pc = "scan"
    /\ ~busy[a[1]] /\ busy' = [busy EXCEPT ![a[1]] = TRUE]
    /\ passes'[a].secrets = {n \in Names : Stored(n) # {}}
    /\ passes'[a].seen = SealedKeys
    /\ UNCHANGED rows

(* It reads the versions of the next secret.                                *)
Read(a, n) ==
    /\ passes[a].pc = "scan" /\ passes'[a].pc = "rewrap" /\ Same(a)
    /\ passes'[a].name = n /\ passes'[a].secrets = passes[a].secrets \ {n}
    /\ passes'[a].todo = {[version |-> v, dek |-> rows[n][v].dek] :
          v \in {u \in Stored(n) : needs_rewrap(rows[n][u], passes[a].target)}}
    /\ UNCHANGED <<rows, busy>>

(* KMS has wrapped the next key for it, or the secret is done.              *)
Proceeds(a) ==
    /\ passes[a].pc = "rewrap" /\ Same(a)
    /\ passes'[a].name = passes[a].name /\ passes'[a].todo = passes[a].todo
    /\ passes'[a].secrets = passes[a].secrets
    /\ passes'[a].pc = "write" \/ (passes'[a].pc = "scan" /\ passes[a].todo = {})
    /\ UNCHANGED <<rows, busy>>

(* One version is dealt with, or the call for it fails.                     *)
Dealt(a, t) ==
    /\ passes[a].pc \in Writing /\ passes'[a].pc = "rewrap"
    /\ t \in passes[a].todo /\ passes'[a].todo = passes[a].todo \ {t}
    /\ passes'[a].name = passes[a].name /\ passes'[a].secrets = passes[a].secrets
    /\ passes'[a].target = passes[a].target /\ passes'[a].seen = passes[a].seen
    /\ \/ UNCHANGED rows /\ passes'[a].failed = TRUE
       \/ /\ passes[a].pc = "write" /\ Same(a)
          /\ rows' = RewrapVersion(passes[a].name, t.version, t.dek,
                                   passes[a].wrapped, passes[a].target)
    /\ UNCHANGED busy

(* All secrets are done: it drops the flag, and has its target to persist.  *)
Ended(a) ==
    /\ passes[a].pc = "scan" /\ passes[a].secrets = {}
    /\ passes'[a].pc = "persist" /\ Same(a)
    /\ busy' = [busy EXCEPT ![a[1]] = FALSE]
    /\ UNCHANGED rows

(* What a pass does in a step of its own.                                   *)
Moves(a) ==
    \/ Idled(a) \/ Taken(a) \/ Proceeds(a) \/ Ended(a)
    \/ \E n \in Names : Read(a, n)
    \/ \E t \in passes[a].todo : Dealt(a, t)

(* A step of a pass leaves a pass with its shape, makes one of these moves  *)
(* and leaves the other passes, the seals and KMS alone.                    *)
LEMMA TurnMoves ==
    ASSUME Shapes, NEW a \in Actors, Turn(a)
    PROVE  /\ passes' \in [Actors -> Passes] /\ PassOK(passes'[a], kms)
           /\ \A b \in Actors \ {a} : passes'[b] = passes[b]
           /\ Moves(a)
           /\ UNCHANGED <<kms, seals, keys>>
           /\ budget' \in [deletes : Nat, faults : Nat] /\ budget'.deletes = budget.deletes
<1> DEFINE p == passes[a]
           q == passes'[a]
<1>1. /\ p \in Passes /\ PassOK(p, kms) /\ kms \in Generations
      /\ passes \in [Actors -> Passes] /\ budget \in [deletes : Nat, faults : Nat]
  BY DEF Shapes
<1>2. UNCHANGED <<kms, seals, keys>>
  BY Zenon DEF Turn, tick, decide, force, run_pass, reencrypt_data_key, rewrap_one,
         rewrap_failed, next_secret, pass_done, persist_completed, stop, live_versions
<1>3. UNCHANGED budget \/ budget' = [budget EXCEPT !.faults = budget.faults + 1]
  BY Zenon DEF Turn, tick, decide, force, run_pass, reencrypt_data_key, rewrap_one,
         rewrap_failed, next_secret, pass_done, persist_completed, stop, live_versions
<1>4. budget' \in [deletes : Nat, faults : Nat] /\ budget'.deletes = budget.deletes
  BY <1>1, <1>3
<1>5. /\ NoPass \in Passes /\ NoPass.pc = "idle" /\ NoPass.seen = {} /\ ~NoPass.failed
      /\ NoPass.target = NONE
  BY Targets DEF NoPass, Passes, OptGeneration
<1>6. ASSUME NEW x \in Passes, Become(a, x), PassOK(x, kms), x = q => Moves(a)
      PROVE  /\ passes' \in [Actors -> Passes] /\ PassOK(q, kms) /\ Moves(a)
             /\ \A b \in Actors \ {a} : passes'[b] = passes[b]
  <2>1. passes' \in [Actors -> Passes] /\ q = x /\ \A b \in Actors \ {a} : passes'[b] = passes[b]
    BY <1>1, <1>6 DEF Become
  <2> QED
    BY <1>6, <2>1
<1> DEFINE Goal == /\ passes' \in [Actors -> Passes] /\ PassOK(q, kms) /\ Moves(a)
                   /\ \A b \in Actors \ {a} : passes'[b] = passes[b]
<1> SUFFICES Goal
  BY <1>2, <1>4
<1> HIDE DEF Goal
<1>7. ASSUME NEW t \in OptGeneration, t # NONE => t <= kms,
             NEW c \in {"decide", "start", "persist"}, c # "decide" => t # NONE,
             Become(a, [NoPass EXCEPT !.pc = c, !.target = t]),
             p.pc \notin Held, UNCHANGED <<rows, busy>>
      PROVE  Goal
  <2> DEFINE x == [NoPass EXCEPT !.pc = c, !.target = t]
  <2>1. x \in Passes
    BY <1>5, Zenon DEF Passes
  <2>2. x.pc = c /\ x.target = t /\ x.seen = {} /\ x.failed = NoPass.failed
    BY DEF NoPass
  <2> HIDE DEF x
  <2>3. PassOK(x, kms)
    BY <1>5, <1>7, <2>2 DEF PassOK, Aimed, Held, Writing
  <2>4. x = q => Moves(a)
    BY <1>7, <2>2 DEF Moves, Idled, Held
  <2> QED
    BY <1>6, <1>7, <2>1, <2>3, <2>4, Zenon DEF x, Goal
<1>8. ASSUME Become(a, NoPass), UNCHANGED rows,
             \/ p.pc \notin Held /\ UNCHANGED busy
             \/ p.pc \in Held /\ busy' = [busy EXCEPT ![a[1]] = FALSE]
      PROVE  Goal
  <2>1. PassOK(NoPass, kms)
    BY <1>5 DEF PassOK, Aimed, Held, Writing
  <2>2. NoPass = q => Moves(a)
    BY <1>5, <1>8, Zenon DEF Moves, Idled, Held
  <2> QED
    BY <1>5, <1>6, <1>8, <2>1, <2>2, Zenon DEF Goal
<1>9. CASE tick(a)
  <2>1. latest_rotation_at \in OptGeneration /\ (latest_rotation_at # NONE => latest_rotation_at <= kms)
    BY <1>1, Targets DEF latest_rotation_at, OptGeneration
  <2>2. Become(a, [NoPass EXCEPT !.pc = "decide", !.target = latest_rotation_at])
    BY <1>9 DEF tick
  <2>3. p.pc \notin Held /\ UNCHANGED <<rows, busy>>
    BY <1>9, Zenon DEF tick, Held
  <2> QED
    BY <1>7, <2>1, <2>2, <2>3, Zenon
<1>10. CASE force(a)
  <2> DEFINE t == IF latest_rotation_at = NONE THEN 0 ELSE latest_rotation_at
  <2>1. t \in OptGeneration /\ t # NONE /\ t <= kms
    BY <1>1, Targets DEF latest_rotation_at, OptGeneration
  <2>2. Become(a, [NoPass EXCEPT !.pc = "start", !.target = t])
    BY <1>10 DEF force
  <2>3. p.pc \notin Held /\ UNCHANGED <<rows, busy>>
    BY <1>10, Zenon DEF force, Held
  <2> HIDE DEF t
  <2> QED
    BY <1>7, <2>1, <2>2, <2>3, Zenon
<1>11. CASE decide(a)
  <2> DEFINE t == IF p.target = NONE THEN 0 ELSE p.target
  <2>1. p.target \in OptGeneration /\ (p.target # NONE => p.target <= kms)
    BY <1>1 DEF Passes, PassOK
  <2>2. t \in OptGeneration /\ t # NONE /\ t <= kms
    BY <1>1, <2>1, Targets DEF OptGeneration
  <2>3. \/ Become(a, [NoPass EXCEPT !.pc = "persist", !.target = t])
        \/ Become(a, [NoPass EXCEPT !.pc = "start", !.target = t])
        \/ Become(a, NoPass)
    BY <1>11 DEF decide
  <2>4. p.pc \notin Held /\ UNCHANGED <<rows, busy>>
    BY <1>11 DEF decide, Held
  <2> HIDE DEF t
  <2> QED
    BY <1>7, <1>8, <2>2, <2>3, <2>4, Zenon
<1>12. CASE persist_completed(a)
  <2>1. Become(a, NoPass) /\ UNCHANGED <<rows, busy>> /\ p.pc \notin Held
    BY <1>12 DEF persist_completed, Held
  <2> QED
    BY <1>8, <2>1
<1>13. CASE stop(a)
  <2>1. Become(a, NoPass) /\ UNCHANGED rows
    BY <1>13 DEF stop
  <2>2. \/ p.pc \notin Held /\ UNCHANGED busy
        \/ p.pc \in Held /\ busy' = [busy EXCEPT ![a[1]] = FALSE]
    BY <1>13, Zenon DEF stop, Running, Held
  <2> QED
    BY <1>8, <2>1, <2>2
<1>14. CASE run_pass(a)
  <2> DEFINE S == {n \in Names : Stored(n) # {}}
             x == [p EXCEPT !.pc = "scan", !.secrets = S, !.seen = SealedKeys]
  <2>1. CASE busy[a[1]]
    <3>1. p.pc \notin Held /\ Become(a, NoPass) /\ UNCHANGED <<rows, busy>>
      BY <1>14, <2>1, Zenon DEF run_pass, Held
    <3> QED
      BY <1>8, <3>1
  <2>2. CASE ~busy[a[1]]
    <3>1. /\ p.pc = "start" /\ Become(a, x) /\ UNCHANGED rows
          /\ busy' = [busy EXCEPT ![a[1]] = TRUE]
      BY <1>14, <2>2, Zenon DEF run_pass
    <3>2. SealedKeys \subseteq Nat
      <4>1. ASSUME NEW n \in Names, NEW v \in Stored(n) PROVE rows[n][v].sealed \in Nat
        <5>1. rows[n][v] \in Row
          BY DEF Stored, Shapes
        <5> QED
          BY <5>1 DEF Row
      <4> QED
        BY <4>1 DEF SealedKeys
    <3>3. S \subseteq Names
      OBVIOUS
    <3> HIDE DEF S
    <3>4. x \in Passes
      BY <1>1, <3>2, <3>3, Zenon DEF Passes
    <3>5. x.pc = "scan" /\ x.secrets = S /\ x.seen = SealedKeys /\ x.target = p.target
      BY <1>1 DEF Passes
    <3> HIDE DEF x
    <3>6. PassOK(x, kms)
      BY <1>1, <3>1, <3>5 DEF PassOK, Aimed, Held, Writing
    <3>7. x = q => Moves(a)
      BY <2>2, <3>1, <3>5 DEF Moves, Taken, Held, S
    <3> QED
      BY <1>6, <3>1, <3>4, <3>6, <3>7, Zenon DEF Goal
  <2> QED
    BY <2>1, <2>2
<1>15. ASSUME NEW n \in Names, live_versions(a, n) PROVE Goal
  <2> DEFINE V == {u \in Stored(n) : needs_rewrap(rows[n][u], p.target)}
             T == {[version |-> v, dek |-> rows[n][v].dek] : v \in V}
             S == p.secrets \ {n}
             x == [p EXCEPT !.pc = "rewrap", !.name = n, !.secrets = S, !.todo = T]
  <2>1. T \subseteq [version : VersionNos, dek : Nat]
    <3>1. ASSUME NEW v \in V PROVE v \in VersionNos /\ rows[n][v].dek \in Nat
      <4>1. v \in VersionNos /\ rows[n][v] \in Row
        BY DEF Stored, Shapes
      <4> QED
        BY <4>1 DEF Row
    <3> HIDE DEF V
    <3> QED
      BY <3>1
  <2>2. p.pc = "scan" /\ Become(a, x) /\ UNCHANGED <<rows, busy>>
    BY <1>1, <1>15 DEF live_versions, Passes
  <2>3. S \subseteq Names
    BY <1>1 DEF Passes
  <2> HIDE DEF S, T
  <2>4. x \in Passes
    BY <1>1, <2>1, <2>3, Zenon DEF Passes
  <2>5. /\ x.pc = "rewrap" /\ x.name = n /\ x.secrets = S /\ x.todo = T
        /\ x.target = p.target /\ x.seen = p.seen /\ x.failed = p.failed
    BY <1>1 DEF Passes
  <2> HIDE DEF x
  <2>6. PassOK(x, kms)
    BY <1>1, <2>2, <2>5 DEF PassOK, Aimed, Held, Writing
  <2>7. x = q => Read(a, n)
    BY <2>2, <2>5 DEF Read, Same, S, T
  <2> QED
    BY <1>6, <2>2, <2>4, <2>6, <2>7, Zenon DEF Goal, Moves
<1>16. CASE reencrypt_data_key(a)
  <2> DEFINE x == [p EXCEPT !.pc = "write", !.wrapped = kms]
  <2>1. x \in Passes
    BY <1>1, Zenon DEF Passes
  <2>2. /\ x.pc = "write" /\ x.wrapped = kms /\ x.secrets = p.secrets
        /\ x.name = p.name /\ x.todo = p.todo
        /\ x.target = p.target /\ x.seen = p.seen /\ x.failed = p.failed
    BY <1>1 DEF Passes
  <2>3. p.pc = "rewrap" /\ p.todo # {} /\ Become(a, x) /\ UNCHANGED <<rows, busy>>
    BY <1>16 DEF reencrypt_data_key
  <2> HIDE DEF x
  <2>4. PassOK(x, kms)
    BY <1>1, <2>2, <2>3, Targets DEF PassOK, Aimed, Held, Writing
  <2>5. x = q => Proceeds(a)
    BY <2>2, <2>3 DEF Proceeds, Same
  <2> QED
    BY <1>6, <2>1, <2>3, <2>4, <2>5, Zenon DEF Goal, Moves
<1>17. ASSUME NEW c \in {"scan", "persist"}, p.pc \in {"rewrap", "scan"},
              c = "persist" => ~p.failed,
              Become(a, [p EXCEPT !.pc = c]),
              NEW x, x = [p EXCEPT !.pc = c], x = q /\ x.pc = c
                /\ x.secrets = p.secrets /\ x.name = p.name /\ x.todo = p.todo
                /\ x.target = p.target /\ x.seen = p.seen /\ x.failed = p.failed => Moves(a)
       PROVE  Goal
  <2>1. x \in Passes
    BY <1>1, <1>17 DEF Passes
  <2>2. /\ x.pc = c /\ x.secrets = p.secrets /\ x.name = p.name /\ x.todo = p.todo
        /\ x.target = p.target /\ x.seen = p.seen /\ x.failed = p.failed
    BY <1>1, <1>17 DEF Passes
  <2>3. PassOK(x, kms)
    BY <1>1, <1>17, <2>2 DEF PassOK, Aimed, Held, Writing
  <2> QED
    BY <1>6, <1>17, <2>1, <2>2, <2>3, Zenon DEF Goal
<1>18. CASE next_secret(a)
  <2>1. p.pc = "rewrap" /\ p.todo = {} /\ Become(a, [p EXCEPT !.pc = "scan"]) /\ UNCHANGED <<rows, busy>>
    BY <1>18 DEF next_secret
  <2> QED
    BY <1>17, <2>1 DEF Moves, Proceeds, Same
<1>19. CASE pass_done(a)
  <2>1. /\ p.pc = "scan" /\ p.secrets = {} /\ UNCHANGED rows
        /\ busy' = [busy EXCEPT ![a[1]] = FALSE]
    BY <1>19 DEF pass_done
  <2>2. Become(a, NoPass) \/ (Become(a, [p EXCEPT !.pc = "persist"]) /\ ~p.failed)
    BY <1>19, Zenon DEF pass_done
  <2>3. CASE Become(a, NoPass)
    BY <1>8, <2>1, <2>3 DEF Held
  <2>4. CASE Become(a, [p EXCEPT !.pc = "persist"]) /\ ~p.failed
    BY <1>17, <2>1, <2>4 DEF Moves, Ended, Same
  <2> QED
    BY <2>2, <2>3, <2>4
<1>20. CASE rewrap_one(a) \/ rewrap_failed(a)
  <2> DEFINE t == First(p.todo)
             rest == p.todo \ {t}
             x == [p EXCEPT !.pc = "rewrap", !.todo = rest]
             y == [p EXCEPT !.pc = "rewrap", !.todo = rest, !.failed = TRUE]
  <2>1. p.pc \in Writing /\ p.todo # {} /\ p.todo \in SUBSET [version : VersionNos, dek : Nat]
    BY <1>1, <1>20 DEF Passes, PassOK, rewrap_one, rewrap_failed, Writing
  <2>2. t \in p.todo
    BY <2>1, FirstIsTodo
  <2>3. \/ /\ Become(a, x) /\ p.pc = "write" /\ UNCHANGED busy
           /\ rows' = RewrapVersion(p.name, t.version, t.dek, p.wrapped, p.target)
        \/ Become(a, y) /\ UNCHANGED <<rows, busy>>
    BY <1>1, <1>20 DEF rewrap_one, rewrap_failed, Passes
  <2>4. rest \in SUBSET [version : VersionNos, dek : Nat]
    BY <2>1
  <2>5. x \in Passes /\ y \in Passes
    <3> HIDE DEF rest
    <3> QED
      BY <1>1, <2>4, Zenon DEF Passes
  <2>6. /\ x.pc = "rewrap" /\ x.secrets = p.secrets /\ x.name = p.name /\ x.todo = rest
        /\ x.target = p.target /\ x.seen = p.seen /\ x.failed = p.failed
    BY <1>1 DEF Passes
  <2>7. /\ y.pc = "rewrap" /\ y.secrets = p.secrets /\ y.name = p.name /\ y.todo = rest
        /\ y.target = p.target /\ y.seen = p.seen /\ y.failed = TRUE
    BY <1>1 DEF Passes
  <2> HIDE DEF t, x, y
  <2>8. PassOK(x, kms) /\ PassOK(y, kms)
    BY <1>1, <2>1, <2>6, <2>7 DEF PassOK, Aimed, Held, Writing
  <2>9. CASE /\ Become(a, x) /\ p.pc = "write" /\ UNCHANGED busy
             /\ rows' = RewrapVersion(p.name, t.version, t.dek, p.wrapped, p.target)
    <3>1. x = q => Dealt(a, t)
      BY <2>2, <2>6, <2>9 DEF Dealt, Same, Writing
    <3> QED
      BY <1>6, <2>2, <2>5, <2>8, <2>9, <3>1, Zenon DEF Goal, Moves
  <2>10. CASE Become(a, y) /\ UNCHANGED <<rows, busy>>
    <3>1. y = q => Dealt(a, t)
      BY <2>1, <2>2, <2>7, <2>10 DEF Dealt, Writing
    <3> QED
      BY <1>6, <2>2, <2>5, <2>8, <2>10, <3>1, Zenon DEF Goal, Moves
  <2> QED
    BY <2>3, <2>9, <2>10
<1> QED
  BY <1>9, <1>10, <1>11, <1>12, <1>13, <1>14, <1>15, <1>16, <1>18, <1>19, <1>20, Zenon DEF Turn

---------------------------------------------------------------------------
(* Sealing *)

(* The steps of a version being sealed.                                     *)
SealTurn(r) == seal_version(r) \/ put_version(r) \/ \E n \in Names : generate_data_key(r, n)

(* KMS hands out a key no one else has.                                     *)
Minted(r) ==
    /\ seals[r].pc = "idle" /\ seals'[r].pc = "stamp" /\ keys' = keys + 1
    /\ seals'[r].row.sealed = keys + 1 /\ seals'[r].row.dek = keys + 1
    /\ UNCHANGED rows

(* The row it is about to store is stamped.                                 *)
Stamped(r) ==
    /\ seals[r].pc = "stamp" /\ seals'[r].pc = "commit"
    /\ seals'[r].row.sealed = seals[r].row.sealed /\ seals'[r].row.dek = seals[r].row.dek
    /\ UNCHANGED <<rows, keys>>

(* It is stored, in an empty slot beyond all versions ...                   *)
Stores(r, n, v) ==
    /\ seals[r].pc = "commit" /\ rows'[n][v] = seals[r].row /\ rows[n][v] = NONE
    /\ \A w \in Stored(n) : w < v

(* ... or refused.                                                          *)
Put(r) ==
    /\ seals[r].pc = "commit" /\ seals'[r].pc = "idle"
    /\ UNCHANGED keys
    /\ \A n \in Names, v \in VersionNos : rows'[n][v] = rows[n][v] \/ Stores(r, n, v)

(* A step of a seal does one of these and leaves everything else alone.     *)
LEMMA SealMoves ==
    ASSUME Shapes, NEW r \in Sealers, SealTurn(r)
    PROVE  /\ seals' \in [Sealers -> Seal] /\ SealOK(seals'[r])
           /\ rows' \in [Names -> [VersionNos -> Row \cup {NONE}]] /\ keys' \in Nat
           /\ \A q \in Sealers \ {r} : seals'[q] = seals[q]
           /\ Minted(r) \/ Stamped(r) \/ Put(r)
           /\ UNCHANGED <<kms, watermark, busy, passes, budget>>
<1> DEFINE s == seals[r]
           Goal == /\ seals' \in [Sealers -> Seal] /\ SealOK(seals'[r])
                   /\ rows' \in [Names -> [VersionNos -> Row \cup {NONE}]] /\ keys' \in Nat
                   /\ \A q \in Sealers \ {r} : seals'[q] = seals[q]
                   /\ Minted(r) \/ Stamped(r) \/ Put(r)
<1>1. /\ s \in Seal /\ SealOK(s) /\ seals \in [Sealers -> Seal]
      /\ rows \in [Names -> [VersionNos -> Row \cup {NONE}]]
      /\ watermark \in OptGeneration /\ kms \in Generations
      /\ keys \in Nat /\ MaxVersion \in Nat
  BY RewrapAssumption DEF Shapes
<1>2. UNCHANGED <<kms, watermark, busy, passes, budget>>
  BY DEF SealTurn, seal_version, put_version, generate_data_key
<1>3. ASSUME NEW x \in Seal, seals' = [seals EXCEPT ![r] = x], SealOK(x),
             rows' \in [Names -> [VersionNos -> Row \cup {NONE}]], keys' \in Nat,
             seals'[r] = x => Minted(r) \/ Stamped(r) \/ Put(r)
      PROVE  Goal
  BY <1>1, <1>3
<1> HIDE DEF Goal
<1>4. ASSUME NEW n \in Names, generate_data_key(r, n) PROVE Goal
  <2> DEFINE w == [dek |-> keys + 1, sealed |-> keys + 1, material |-> kms, stamp |-> NONE]
             x == [pc |-> "stamp", name |-> n, version |-> Current(n) + 1, row |-> w]
  <2>1. w \in Row /\ w.sealed = keys + 1 /\ w.dek = keys + 1
    BY <1>1 DEF Row, OptGeneration
  <2>2. Current(n) + 1 \in VersionNos /\ Current(n) + 1 \in Nat
    <3>1. Current(n) \in 0..MaxVersion /\ Current(n) < MaxVersion
      BY <1>4, CurrentIsHighest DEF generate_data_key
    <3> QED
      BY <1>1, <3>1 DEF VersionNos
  <2>3. /\ s.pc = "idle" /\ seals' = [seals EXCEPT ![r] = x]
        /\ keys' = keys + 1 /\ UNCHANGED rows
    BY <1>4 DEF generate_data_key
  <2> HIDE DEF w
  <2>4. x \in Seal
    BY <2>1, <2>2 DEF Seal
  <2>5. x.pc = "stamp" /\ x.name = n /\ x.version = Current(n) + 1 /\ x.row = w
    OBVIOUS
  <2> HIDE DEF x
  <2>6. SealOK(x)
    BY <2>1, <2>2, <2>5 DEF SealOK
  <2>7. seals'[r] = x => Minted(r)
    BY <2>1, <2>3, <2>5 DEF Minted
  <2>8. keys' \in Nat
    BY <1>1, <2>3
  <2> QED
    BY <1>1, <1>3, <2>3, <2>4, <2>6, <2>7, <2>8, Zenon
<1>5. ASSUME seal_version(r) PROVE Goal
  <2> DEFINE g == IF watermark = NONE THEN 0 ELSE watermark
             w == [s.row EXCEPT !.stamp = g]
             x == [s EXCEPT !.row = w, !.pc = "commit"]
  <2>1. s.pc = "stamp" /\ seals' = [seals EXCEPT ![r].row.stamp = g, ![r].pc = "commit"]
        /\ UNCHANGED <<rows, keys>>
    BY <1>5 DEF seal_version
  <2>2. g \in OptGeneration
    BY <1>1, Targets DEF OptGeneration
  <2>3. s.row \in Row /\ s.name \in Names /\ s.version \in VersionNos
    BY <1>1, <2>1 DEF SealOK
  <2>4. w \in Row /\ w.sealed = s.row.sealed /\ w.dek = s.row.dek
    BY <2>2, <2>3 DEF Row
  <2> HIDE DEF g
  <2>5. seals' = [seals EXCEPT ![r] = x]
    BY <1>1, <2>1 DEF Seal
  <2> HIDE DEF w
  <2>6. x \in Seal
    BY <1>1, <2>4, Zenon DEF Seal
  <2>7. x.pc = "commit" /\ x.row = w /\ x.name = s.name /\ x.version = s.version
    BY <1>1 DEF Seal
  <2> HIDE DEF x
  <2>8. SealOK(x)
    BY <2>3, <2>4, <2>7 DEF SealOK
  <2>9. seals'[r] = x => Stamped(r)
    BY <2>1, <2>4, <2>7 DEF Stamped
  <2> QED
    BY <1>1, <1>3, <2>1, <2>5, <2>6, <2>8, <2>9, Zenon
<1>6. ASSUME put_version(r) PROVE Goal
  <2>1. NoSeal \in Seal /\ NoSeal.pc = "idle" /\ SealOK(NoSeal)
    BY DEF NoSeal, Seal, SealOK
  <2>2. s.pc = "commit" /\ seals' = [seals EXCEPT ![r] = NoSeal] /\ UNCHANGED keys
    BY <1>6 DEF put_version
  <2>3. s.name \in Names /\ s.version \in VersionNos /\ s.row \in Row
    BY <1>1, <2>2 DEF SealOK
  <2>4. CASE Current(s.name) # s.version - 1
    <3>1. rows' = rows
      BY <1>6, <2>4 DEF put_version
    <3>2. seals'[r] = NoSeal => Put(r)
      BY <2>1, <2>2, <3>1 DEF Put
    <3> QED
      BY <1>1, <1>3, <2>1, <2>2, <3>1, <3>2, Zenon
  <2>5. CASE Current(s.name) = s.version - 1
    <3>1. rows' = [rows EXCEPT ![s.name][s.version] = s.row]
      BY <1>6, <2>5 DEF put_version
    <3>2. \A w \in Stored(s.name) : w < s.version
      <4>1. s.version \in Nat /\ \A w \in Stored(s.name) : w \in Nat /\ w <= s.version - 1
        BY <1>1, <2>3, <2>5, CurrentIsHighest DEF VersionNos, Stored
      <4> QED
        BY <4>1
    <3>3. rows[s.name][s.version] = NONE
      <4>1. s.version \in Nat /\ ~(s.version < s.version)
        BY <1>1, <2>3 DEF VersionNos
      <4> QED
        BY <2>3, <3>2, <4>1 DEF Stored
    <3>4. rows' \in [Names -> [VersionNos -> Row \cup {NONE}]]
      BY <1>1, <2>3, <3>1
    <3>5. \A n \in Names, v \in VersionNos :
             \/ rows'[n][v] = rows[n][v]
             \/ n = s.name /\ v = s.version /\ rows'[n][v] = s.row
      BY <1>1, <2>3, <3>1
    <3>6. seals'[r] = NoSeal => Put(r)
      BY <2>1, <2>2, <3>2, <3>3, <3>5 DEF Put, Stores
    <3> QED
      BY <1>1, <1>3, <2>1, <2>2, <3>4, <3>6, Zenon
  <2> QED
    BY <2>4, <2>5
<1> QED
  BY <1>2, <1>4, <1>5, <1>6, Zenon DEF SealTurn, Goal

---------------------------------------------------------------------------
(* What a step does to a row *)

(* A row is re-wrapped by a pass that had it to do: the same ciphertext, a  *)
(* later stamp, and key material no older than the stamp says.              *)
Rewrapped(a, t, n, v) ==
    /\ passes[a].pc = "write" /\ passes[a].name = n /\ t.version = v
    /\ rows[n][v] # NONE /\ rows'[n][v] # NONE
    /\ rows'[n][v].dek = t.dek /\ rows'[n][v].sealed = rows[n][v].sealed
    /\ rows'[n][v].stamp # NONE /\ rows'[n][v].material >= rows'[n][v].stamp
    /\ rows[n][v].stamp # NONE => rows'[n][v].stamp > rows[n][v].stamp
    /\ \A g \in Generations : ~needs_rewrap(rows[n][v], g) => ~needs_rewrap(rows'[n][v], g)

(* The version a pass deals with is the only row that changes, and needs    *)
(* nothing more unless the call failed.                                     *)
LEMMA WriteBack ==
    ASSUME Shapes, NEW a \in Actors, NEW t \in passes[a].todo, Dealt(a, t)
    PROVE  /\ rows' \in [Names -> [VersionNos -> Row \cup {NONE}]]
           /\ \A m \in Names, u \in VersionNos : rows'[m][u] = rows[m][u] \/ Rewrapped(a, t, m, u)
           /\ \/ passes'[a].failed = TRUE
              \/ /\ Same(a)
                 /\ rows'[passes[a].name][t.version] # NONE =>
                       ~needs_rewrap(rows'[passes[a].name][t.version], passes[a].target)
<1> DEFINE n == passes[a].name
           v == t.version
           s == passes[a].target
           g == passes[a].wrapped
           x == rows[n][v]
           e == [x EXCEPT !.dek = t.dek, !.material = g, !.stamp = s]
<1>1. rows \in [Names -> [VersionNos -> Row \cup {NONE}]]
  BY DEF Shapes
<1>2. CASE UNCHANGED rows /\ passes'[a].failed = TRUE
  BY <1>1, <1>2
<1>3. CASE /\ passes[a].pc = "write" /\ Same(a)
           /\ rows' = RewrapVersion(n, v, t.dek, g, s)
  <2>1. passes[a] \in Passes /\ PassOK(passes[a], kms)
    BY DEF Shapes
  <2>2. /\ n \in Names /\ v \in VersionNos /\ t.dek \in Nat /\ s # NONE /\ g >= s
        /\ g \in Generations /\ s \in Generations
    BY <1>3, <2>1 DEF PassOK, Passes, Aimed, Held, Writing, OptGeneration
  <2>3. s \in Nat
    BY <2>2, Targets, Zenon
  <2> HIDE DEF n, v, s, g
  <2>4. CASE x = NONE \/ ~needs_rewrap(x, s)
    <3>1. rows' = rows
      BY <1>3, <2>4, Zenon DEF RewrapVersion
    <3> QED
      BY <1>1, <1>3, <2>4, <3>1 DEF n, v, s
  <2>5. CASE ~(x = NONE \/ ~needs_rewrap(x, s))
    <3>1. x \in Row
      BY <1>1, <2>2, <2>5
    <3>2. e.dek = t.dek /\ e.material = g /\ e.stamp = s /\ e.sealed = x.sealed
      BY <3>1 DEF Row
    <3>3. e \in Row
      BY <2>2, <3>1, Zenon DEF Row, OptGeneration
    <3>4. rows' = [rows EXCEPT ![n][v] = e]
      BY <1>3, <2>5, Zenon DEF RewrapVersion
    <3>5. x.stamp = NONE \/ (x.stamp \in Nat /\ x.stamp < s)
      BY <2>5, <3>1, Targets, Zenon DEF needs_rewrap, Row, OptGeneration
    <3> HIDE DEF e
    <3>6. rows' \in [Names -> [VersionNos -> Row \cup {NONE}]] /\ rows'[n][v] = e
      BY <1>1, <2>2, <3>3, <3>4
    <3>7. \A m \in Names, u \in VersionNos : rows'[m][u] = rows[m][u] \/ (m = n /\ u = v)
      BY <1>1, <3>4
    <3>8. \A h \in Generations : ~needs_rewrap(x, h) => ~needs_rewrap(e, h)
      BY <2>2, <2>3, <3>2, <3>5, Targets DEF needs_rewrap
    <3>9. ~needs_rewrap(e, s)
      BY <2>2, <2>3, <3>2 DEF needs_rewrap
    <3>10. e # NONE
      BY <3>3, NoneIsNoRow, Zenon
    <3>11. Rewrapped(a, t, n, v)
      BY <1>3, <2>2, <2>3, <2>5, <3>2, <3>5, <3>6, <3>8, <3>10, Zenon DEF Rewrapped, n, v
    <3> QED
      BY <1>3, <3>6, <3>7, <3>9, <3>11 DEF n, v, s
  <2> QED
    BY <2>4, <2>5, Zenon
<1> QED
  BY <1>2, <1>3, Zenon DEF Dealt

(* A step is one of a pass, of a seal, a removal, a rotation or a stutter.  *)
LEMMA Steps ==
    ASSUME [Next]_vars
    PROVE  \/ \E a \in Actors : Turn(a)
           \/ \E r \in Sealers : SealTurn(r)
           \/ \E n \in Names : delete_secret(n) \/ \E v \in VersionNos : expire(n, v)
           \/ rotate_cmk \/ UNCHANGED vars
BY Zenon DEF Next, Turn, SealTurn

(* The rows keep their shape; one stays, goes, comes or is re-wrapped.      *)
LEMMA RowsMove ==
    ASSUME Shapes, [Next]_vars
    PROVE  /\ rows' \in [Names -> [VersionNos -> Row \cup {NONE}]]
           /\ \A n \in Names, v \in VersionNos :
                 \/ rows'[n][v] = rows[n][v]
                 \/ rows'[n][v] = NONE /\ (delete_secret(n) \/ expire(n, v))
                 \/ \E r \in Sealers : SealTurn(r) /\ Stores(r, n, v)
                 \/ \E a \in Actors : \E t \in passes[a].todo : Rewrapped(a, t, n, v)
<1>1. rows \in [Names -> [VersionNos -> Row \cup {NONE}]]
  BY DEF Shapes
<1>2. CASE UNCHANGED rows
  BY <1>1, <1>2
<1>3. ASSUME NEW a \in Actors, Turn(a), ~UNCHANGED rows
      PROVE  \E t \in passes[a].todo : Dealt(a, t)
  <2>1. Moves(a)
    BY <1>3, TurnMoves
  <2> QED
    BY <1>3, <2>1, Zenon DEF Moves, Idled, Taken, Proceeds, Ended, Read
<1>4. ASSUME NEW a \in Actors, NEW t \in passes[a].todo, Dealt(a, t)
      PROVE  /\ rows' \in [Names -> [VersionNos -> Row \cup {NONE}]]
             /\ \A n \in Names, v \in VersionNos :
                   rows'[n][v] = rows[n][v] \/ Rewrapped(a, t, n, v)
  BY <1>4, WriteBack, Zenon
<1>5. ASSUME NEW r \in Sealers, SealTurn(r)
      PROVE  /\ rows' \in [Names -> [VersionNos -> Row \cup {NONE}]]
             /\ \A n \in Names, v \in VersionNos :
                   rows'[n][v] = rows[n][v] \/ Stores(r, n, v)
  BY <1>5, SealMoves DEF Minted, Stamped, Put
<1>6. ASSUME NEW m \in Names, delete_secret(m) \/ \E u \in VersionNos : expire(m, u)
      PROVE  /\ rows' \in [Names -> [VersionNos -> Row \cup {NONE}]]
             /\ \A n \in Names, v \in VersionNos :
                   \/ rows'[n][v] = rows[n][v]
                   \/ rows'[n][v] = NONE /\ (delete_secret(n) \/ expire(n, v))
  <2>1. CASE delete_secret(m)
    <3>1. rows' = [rows EXCEPT ![m] = [v \in VersionNos |-> NONE]]
      BY <2>1 DEF delete_secret
    <3> QED
      BY <1>1, <2>1, <3>1
  <2>2. ASSUME NEW u \in VersionNos, expire(m, u)
        PROVE  /\ rows' \in [Names -> [VersionNos -> Row \cup {NONE}]]
               /\ \A n \in Names, v \in VersionNos :
                     rows'[n][v] = rows[n][v] \/ (rows'[n][v] = NONE /\ expire(n, v))
    <3>1. rows' = [rows EXCEPT ![m][u] = NONE]
      BY <2>2 DEF expire
    <3> QED
      BY <1>1, <2>2, <3>1
  <2> QED
    BY <1>6, <2>1, <2>2
<1>7. rotate_cmk \/ UNCHANGED vars => UNCHANGED rows
  BY DEF rotate_cmk, vars
<1> QED
  BY <1>2, <1>3, <1>4, <1>5, <1>6, <1>7, Steps, Zenon

(* Every step keeps the shapes.                                             *)
LEMMA ShapesStep ==
    ASSUME Shapes, [Next]_vars PROVE Shapes'
<1>1. /\ kms \in Generations /\ watermark \in OptGeneration /\ busy \in [Nodes -> BOOLEAN]
      /\ passes \in [Actors -> Passes] /\ seals \in [Sealers -> Seal] /\ keys \in Nat
      /\ budget \in [deletes : Nat, faults : Nat]
      /\ \A a \in Actors : PassOK(passes[a], kms)
      /\ \A r \in Sealers : SealOK(seals[r])
  BY DEF Shapes
<1>2. rows' \in [Names -> [VersionNos -> Row \cup {NONE}]]
  BY RowsMove
<1>3. CASE UNCHANGED vars
  BY <1>1, <1>2, <1>3, Zenon DEF Shapes, vars
<1>4. ASSUME NEW a \in Actors, Turn(a) PROVE Shapes'
  <2>1. /\ passes' \in [Actors -> Passes] /\ PassOK(passes'[a], kms)
        /\ \A b \in Actors \ {a} : passes'[b] = passes[b]
        /\ Moves(a) /\ UNCHANGED <<kms, seals, keys>>
        /\ budget' \in [deletes : Nat, faults : Nat]
    BY <1>4, TurnMoves
  <2>2. \A b \in Actors : PassOK(passes'[b], kms)
    BY <1>1, <2>1, Zenon
  <2>3. watermark' \in OptGeneration
    <3>1. CASE persist_completed(a)
      BY <1>1, <3>1 DEF persist_completed, Passes
    <3>2. UNCHANGED watermark \/ persist_completed(a)
      BY <1>4, Zenon DEF Turn, tick, decide, force, run_pass, reencrypt_data_key, rewrap_one,
             rewrap_failed, next_secret, pass_done, stop, live_versions
    <3> QED
      BY <1>1, <3>1, <3>2
  <2>4. busy' \in [Nodes -> BOOLEAN]
    <3>1. \/ UNCHANGED busy
          \/ busy' = [busy EXCEPT ![a[1]] = TRUE]
          \/ busy' = [busy EXCEPT ![a[1]] = FALSE]
      BY <2>1, Zenon DEF Moves, Idled, Taken, Proceeds, Ended, Read, Dealt
    <3> QED
      BY <1>1, <3>1, Zenon
  <2> QED
    BY <1>1, <1>2, <2>1, <2>2, <2>3, <2>4, Zenon DEF Shapes
<1>5. ASSUME NEW r \in Sealers, SealTurn(r) PROVE Shapes'
  <2>1. /\ seals' \in [Sealers -> Seal] /\ SealOK(seals'[r]) /\ keys' \in Nat
        /\ \A q \in Sealers \ {r} : seals'[q] = seals[q]
        /\ UNCHANGED <<kms, watermark, busy, passes, budget>>
    BY <1>5, SealMoves
  <2>2. \A q \in Sealers : SealOK(seals'[q])
    BY <1>1, <2>1, Zenon
  <2> QED
    BY <1>1, <1>2, <2>1, <2>2, Zenon DEF Shapes
<1>6. CASE rotate_cmk
  <2>1. /\ kms' \in Generations /\ kms' >= kms /\ kms \in Nat /\ kms' \in Nat
        /\ UNCHANGED <<watermark, busy, passes, seals, keys, budget>>
    BY <1>1, <1>6, RewrapAssumption DEF rotate_cmk, Generations
  <2>2. ASSUME NEW a \in Actors PROVE PassOK(passes[a], kms')
    <3>1. passes[a].target \in OptGeneration /\ PassOK(passes[a], kms)
      BY <1>1 DEF Passes
    <3>2. passes[a].target # NONE => passes[a].target \in Nat /\ passes[a].target <= kms
      BY <3>1, Targets, Zenon DEF PassOK, OptGeneration
    <3>3. passes[a].target # NONE => passes[a].target <= kms'
      BY <2>1, <3>2
    <3> QED
      BY <3>1, <3>3, Zenon DEF PassOK
  <2> QED
    BY <1>1, <1>2, <2>1, <2>2, Zenon DEF Shapes
<1>7. ASSUME NEW n \in Names, delete_secret(n) \/ \E v \in VersionNos : expire(n, v)
      PROVE  Shapes'
  <2>1. /\ UNCHANGED budget \/ budget' = [budget EXCEPT !.deletes = budget.deletes + 1]
        /\ UNCHANGED <<kms, watermark, busy, passes, seals, keys>>
    BY <1>7 DEF delete_secret, expire
  <2>2. budget' \in [deletes : Nat, faults : Nat]
    BY <1>1, <2>1
  <2> QED
    BY <1>1, <1>2, <2>1, <2>2, Zenon DEF Shapes
<1> QED
  BY <1>3, <1>4, <1>5, <1>6, <1>7, Steps, Zenon

---------------------------------------------------------------------------
(* The busy flag *)

(* Only a step of a pass touches the passes and the flags.                  *)
LEMMA OtherSteps ==
    ASSUME Shapes, [Next]_vars, ~\E a \in Actors : Turn(a)
    PROVE  UNCHANGED <<passes, busy>>
BY Steps, SealMoves, Zenon DEF vars, rotate_cmk, delete_secret, expire

(* The flag of a node is held by exactly one of its passes.                 *)
LEMMA BusyStep ==
    ASSUME Shapes, BusyInv, [Next]_vars PROVE BusyInv'
<1>1. CASE ~\E a \in Actors : Turn(a)
  BY <1>1, OtherSteps DEF BusyInv, Running
<1>2. ASSUME NEW a \in Actors, Turn(a) PROVE BusyInv'
  <2> DEFINE run(b) == passes[b].pc \in Held
             runs(b) == passes'[b].pc \in Held
             Held2 == /\ \A p \in Nodes : busy'[p] => \E b \in Actors : b[1] = p /\ runs(b)
                      /\ \A b \in Actors : runs(b) => busy'[b[1]]
                      /\ \A b, c \in Actors : runs(b) /\ runs(c) /\ b[1] = c[1] => b = c
  <2>1. Moves(a) /\ \A b \in Actors \ {a} : passes'[b] = passes[b]
    BY <1>2, TurnMoves
  <2>2. /\ \A p \in Nodes : busy[p] => \E b \in Actors : b[1] = p /\ run(b)
        /\ \A b \in Actors : run(b) => busy[b[1]]
        /\ \A b, c \in Actors : run(b) /\ run(c) /\ b[1] = c[1] => b = c
        /\ busy \in [Nodes -> BOOLEAN] /\ \A b \in Actors : b[1] \in Nodes
    BY DEF BusyInv, Running, Held, Shapes, Actors
  <2>3. /\ \A b \in Actors \ {a} : runs(b) <=> run(b)
        /\ \/ (runs(a) <=> run(a)) /\ UNCHANGED busy
           \/ runs(a) /\ ~busy[a[1]] /\ busy' = [busy EXCEPT ![a[1]] = TRUE]
           \/ ~runs(a) /\ run(a) /\ busy' = [busy EXCEPT ![a[1]] = FALSE]
    BY <2>1, Zenon DEF Moves, Idled, Taken, Proceeds, Ended, Read, Dealt, Held, Writing
  <2>4. Held2 => BusyInv'
    BY DEF BusyInv, Running, Held
  <2> HIDE DEF run, runs
  <2>5. CASE (runs(a) <=> run(a)) /\ UNCHANGED busy
    <3>1. \A b \in Actors : runs(b) <=> run(b)
      BY <2>3, <2>5
    <3> QED
      BY <2>2, <2>4, <2>5, <3>1
  <2>6. CASE runs(a) /\ ~busy[a[1]] /\ busy' = [busy EXCEPT ![a[1]] = TRUE]
    <3>1. \A b \in Actors : b[1] = a[1] => ~run(b)
      BY <2>2, <2>6
    <3>2. \A b, c \in Actors : runs(b) /\ runs(c) /\ b[1] = c[1] => b = c
      BY <2>2, <2>3, <2>6, <3>1
    <3> QED
      BY <2>2, <2>3, <2>4, <2>6, <3>2
  <2>7. CASE ~runs(a) /\ run(a) /\ busy' = [busy EXCEPT ![a[1]] = FALSE]
    <3>1. \A b \in Actors : runs(b) => run(b) /\ b[1] # a[1]
      BY <2>2, <2>3, <2>7
    <3>2. ASSUME NEW p \in Nodes, busy'[p] PROVE \E b \in Actors : b[1] = p /\ runs(b)
      <4>1. p # a[1] /\ busy[p]
        BY <2>2, <2>7, <3>2
      <4> QED
        BY <2>2, <2>3, <4>1
    <3> QED
      BY <2>2, <2>4, <2>7, <3>1, <3>2
  <2> QED
    BY <2>3, <2>5, <2>6, <2>7
<1> QED
  BY <1>1, <1>2

---------------------------------------------------------------------------
(* Fresh keys *)

(* Where a stored key is; keys are numbers.                                 *)
LEMMA KeyOfRow ==
    /\ \A k \in SealedKeys : \E n \in Names, v \in VersionNos :
          rows[n][v] # NONE /\ rows[n][v].sealed = k
    /\ \A n \in Names, v \in VersionNos : rows[n][v] # NONE => rows[n][v].sealed \in SealedKeys
    /\ Shapes => Used \subseteq Nat
<1>1. /\ \A k \in SealedKeys : \E n \in Names, v \in VersionNos :
            rows[n][v] # NONE /\ rows[n][v].sealed = k
      /\ \A n \in Names, v \in VersionNos : rows[n][v] # NONE => rows[n][v].sealed \in SealedKeys
  BY DEF SealedKeys, Stored
<1>2. ASSUME Shapes PROVE Used \subseteq Nat
  <2>1. \A r \in Row : r.sealed \in Nat
    BY DEF Row
  <2>2. SealedKeys \subseteq Nat
    BY <1>1, <1>2, <2>1 DEF Shapes
  <2>3. \A a \in Actors : passes[a].seen \subseteq Nat
    BY <1>2 DEF Shapes, Passes
  <2> QED
    BY <2>2, <2>3, Zenon DEF Used
<1> QED
  BY <1>1, <1>2

(* A key becomes known only when its version is stored.                     *)
LEMMA UsedMove ==
    ASSUME Shapes, [Next]_vars, NEW k \in Used', k \notin Used
    PROVE  \E r \in Sealers : /\ seals[r].pc = "commit" /\ seals'[r].pc = "idle"
                              /\ k = seals[r].row.sealed
<1>1. CASE k \in SealedKeys'
  <2>1. PICK n \in Names, v \in VersionNos : rows'[n][v] # NONE /\ rows'[n][v].sealed = k
    BY <1>1 DEF SealedKeys, Stored
  <2>2. rows[n][v] # NONE => rows[n][v].sealed # k
    BY KeyOfRow DEF Used
  <2>3. \A a \in Actors : \A t \in passes[a].todo : ~Rewrapped(a, t, n, v)
    BY <2>1, <2>2 DEF Rewrapped
  <2>4. PICK r \in Sealers : SealTurn(r) /\ Stores(r, n, v)
    BY <2>1, <2>2, <2>3, RowsMove, Zenon
  <2>5. Minted(r) \/ Stamped(r) \/ Put(r)
    BY <2>4, SealMoves
  <2> QED
    BY <2>1, <2>4, <2>5 DEF Stores, Minted, Stamped, Put
<1>2. CASE k \notin SealedKeys'
  <2>1. PICK b \in Actors : k \in passes'[b].seen
    BY <1>2 DEF Used
  <2>2. k \notin passes[b].seen /\ k \notin SealedKeys
    BY DEF Used
  <2>3. PICK a \in Actors : Turn(a)
    BY <2>1, <2>2, OtherSteps
  <2>4. Moves(a) /\ \A c \in Actors \ {a} : passes'[c] = passes[c]
    BY <2>3, TurnMoves, Zenon
  <2>5. passes'[a].seen \subseteq passes[a].seen \cup SealedKeys
    BY <2>4, Zenon DEF Moves, Idled, Taken, Proceeds, Ended, Read, Dealt, Same
  <2> QED
    BY <2>1, <2>2, <2>4, <2>5
<1> QED
  BY <1>1, <1>2

(* Keys that are not yet stored stay unknown.                               *)
LEMMA FreshStep ==
    ASSUME Shapes, FreshInv, [Next]_vars PROVE FreshInv'
<1> DEFINE key(r) == seals[r].row.sealed
           key2(r) == seals'[r].row.sealed
           open(r) == seals[r].pc # "idle"
           open2(r) == seals'[r].pc # "idle"
           kept(r) == ~open2(r) \/ (open(r) /\ key2(r) = key(r))
           Fresh == /\ \A k \in Used' : k <= keys'
                    /\ \A r \in Sealers : open2(r) =>
                          /\ key2(r) <= keys' /\ key2(r) \notin Used'
                          /\ \A q \in Sealers \ {r} : open2(q) => key2(q) # key2(r)
<1>1. Fresh => FreshInv'
  BY DEF FreshInv
<1>2. /\ \A k \in Used : k <= keys
      /\ \A r \in Sealers : open(r) =>
            /\ key(r) <= keys /\ key(r) \notin Used
            /\ \A q \in Sealers \ {r} : open(q) => key(q) # key(r)
  BY DEF FreshInv
<1>3. \A k \in Used' : k \in Used \/ \E r \in Sealers : open(r) /\ ~open2(r) /\ k = key(r)
  BY UsedMove
<1>4. keys \in Nat /\ Used \subseteq Nat /\ \A r \in Sealers : open(r) => key(r) \in Nat
  <2>1. \A r \in Row : r.sealed \in Nat
    BY DEF Row
  <2> QED
    BY <2>1, KeyOfRow DEF Shapes, SealOK
<1>5. \/ keys' = keys /\ \A r \in Sealers : kept(r)
      \/ \E r \in Sealers : /\ keys' = keys + 1 /\ ~open(r) /\ open2(r) /\ key2(r) = keys + 1
                            /\ \A q \in Sealers \ {r} : kept(q)
  <2>1. CASE UNCHANGED <<seals, keys>>
    BY <2>1
  <2>2. ASSUME NEW r \in Sealers, SealTurn(r)
        PROVE  /\ \A q \in Sealers \ {r} : seals'[q] = seals[q]
               /\ Minted(r) \/ Stamped(r) \/ Put(r)
    BY <2>2, SealMoves
  <2>3. ASSUME NEW a \in Actors, Turn(a) PROVE UNCHANGED <<seals, keys>>
    BY <2>3, TurnMoves
  <2>4. CASE \E r \in Sealers : SealTurn(r)
    BY <2>2, <2>4 DEF Minted, Stamped, Put
  <2> QED
    BY <2>1, <2>3, <2>4, Steps, Zenon DEF vars, rotate_cmk, delete_secret, expire
<1> HIDE DEF key, key2, open, open2
<1>6. CASE keys' = keys /\ \A r \in Sealers : kept(r)
  BY <1>1, <1>2, <1>3, <1>6
<1>7. ASSUME NEW r \in Sealers, keys' = keys + 1, ~open(r), open2(r), key2(r) = keys + 1,
             \A q \in Sealers \ {r} : kept(q)
      PROVE  Fresh
  <2>1. /\ \A k \in Used' : k <= keys' /\ k # keys + 1
        /\ \A q \in Sealers \ {r} : open2(q) => key2(q) <= keys' /\ key2(q) # keys + 1
    <3>1. ASSUME NEW k \in Used' PROVE k \in Nat /\ k <= keys
      BY <1>2, <1>3, <1>4, Zenon
    <3>2. ASSUME NEW q \in Sealers \ {r}, open2(q) PROVE key2(q) \in Nat /\ key2(q) <= keys
      BY <1>2, <1>4, <1>7, <3>2
    <3> QED
      BY <1>4, <1>7, <3>1, <3>2
  <2>2. key2(r) <= keys' /\ key2(r) \notin Used'
    BY <1>4, <1>7, <2>1
  <2>3. ASSUME NEW q \in Sealers, open2(q), q # r
        PROVE  /\ key2(q) <= keys' /\ key2(q) \notin Used' /\ key2(q) # key2(r)
               /\ \A p \in Sealers \ {q, r} : open2(p) => key2(p) # key2(q)
    BY <1>2, <1>3, <1>7, <2>1, <2>3, Zenon
  <2> QED
    BY <2>1, <2>2, <2>3
<1> QED
  BY <1>1, <1>5, <1>6, <1>7, Zenon

---------------------------------------------------------------------------
(* What a pass has dealt with *)

(* A row a pass has seen keeps its key, and stays dealt with.               *)
LEMMA RowKept ==
    ASSUME Shapes, FreshInv, [Next]_vars, NEW b \in Actors, NEW g \in Generations,
           NEW n \in Names, NEW v \in VersionNos,
           rows'[n][v] # NONE, rows'[n][v].sealed \in passes[b].seen
    PROVE  /\ rows[n][v] # NONE /\ rows[n][v].sealed \in passes[b].seen
           /\ ~needs_rewrap(rows[n][v], g) => ~needs_rewrap(rows'[n][v], g)
<1>1. ASSUME NEW r \in Sealers, Stores(r, n, v) PROVE FALSE
  <2>1. seals[r].row.sealed \notin Used /\ rows'[n][v].sealed = seals[r].row.sealed
    BY <1>1 DEF Stores, FreshInv
  <2> QED
    BY <2>1 DEF Used
<1>2. ASSUME NEW a \in Actors, NEW t \in passes[a].todo, Rewrapped(a, t, n, v)
      PROVE  /\ rows[n][v] # NONE /\ rows[n][v].sealed = rows'[n][v].sealed
             /\ ~needs_rewrap(rows[n][v], g) => ~needs_rewrap(rows'[n][v], g)
  BY <1>2 DEF Rewrapped
<1> QED
  BY <1>1, <1>2, RowsMove, Zenon

(* A pass that goes on has dealt with what is no longer ahead of it.        *)
LEMMA EarnedTurn ==
    ASSUME Shapes, FreshInv, EarnedInv, [Next]_vars, NEW a \in Actors, Turn(a),
           NEW n \in Names, NEW v \in VersionNos
    PROVE  Earned(passes'[a], n, v, rows'[n][v])
<1> DEFINE p == passes[a]
           q == passes'[a]
           Done == ~needs_rewrap(rows'[n][v], q.target)
<1>1. SUFFICES ASSUME rows'[n][v] # NONE, rows'[n][v].sealed \in q.seen,
                      ~q.failed, q.pc \in Held \cup {"persist"}
               PROVE  Done \/ Ahead(q, n, v)
  BY Zenon DEF Earned
<1>2. Moves(a) /\ PassOK(q, kms) /\ q \in Passes
  BY TurnMoves
<1>3. ASSUME q.target = p.target, q.seen = p.seen, q.failed = p.failed, p.pc \in Held
      PROVE  Done \/ Ahead(p, n, v)
  <2>1. q.target \in Generations
    BY <1>1, <1>2 DEF PassOK, Passes, Aimed, OptGeneration
  <2>2. Earned(p, n, v, rows[n][v])
    BY DEF EarnedInv
  <2>3. ~p.failed
    BY <1>1, <1>3, Zenon
  <2>4. /\ rows[n][v] # NONE /\ rows[n][v].sealed \in p.seen
        /\ ~needs_rewrap(rows[n][v], q.target) => Done
    BY <1>1, <1>3, <2>1, RowKept
  <2> QED
    BY <1>3, <2>2, <2>3, <2>4, Zenon DEF Earned
<1>4. CASE Idled(a)
  BY <1>1, <1>4 DEF Idled
<1>5. CASE Taken(a)
  <2>1. n \in q.secrets
    BY <1>1, <1>5 DEF Taken, Stored
  <2> QED
    BY <1>5, <2>1 DEF Taken, Ahead, Held
<1>6. CASE Proceeds(a)
  <2>1. Done \/ Ahead(p, n, v)
    BY <1>3, <1>6 DEF Proceeds, Same, Held
  <2> QED
    BY <1>6, <2>1 DEF Proceeds, Ahead, Held, Writing
<1>7. CASE Ended(a)
  <2>1. Done \/ Ahead(p, n, v)
    BY <1>3, <1>7 DEF Ended, Same, Held
  <2> QED
    BY <1>7, <2>1 DEF Ended, Ahead, Writing
<1>8. ASSUME NEW m \in Names, Read(a, m) PROVE Done \/ Ahead(q, n, v)
  <2>1. Done \/ Ahead(p, n, v)
    BY <1>3, <1>8 DEF Read, Same, Held
  <2>2. n \in p.secrets \/ Done
    BY <1>8, <2>1 DEF Read, Ahead, Writing
  <2>3. CASE n # m
    BY <1>8, <2>2, <2>3, Zenon DEF Read, Ahead, Held
  <2>4. CASE n = m /\ ~Done
    <3>1. v \in {w \in Stored(n) : needs_rewrap(rows[n][w], p.target)}
      BY <1>1, <1>8, <2>4, Zenon DEF Stored, Read, Same
    <3>2. [version |-> v, dek |-> rows[n][v].dek] \in q.todo
      BY <1>8, <2>4, <3>1 DEF Read
    <3>3. \E t \in q.todo : t.version = v
      BY <3>2
    <3> QED
      BY <1>8, <2>4, <3>3, Zenon DEF Read, Ahead, Writing
  <2> QED
    BY <2>3, <2>4, Zenon
<1>9. ASSUME NEW t \in passes[a].todo, Dealt(a, t) PROVE Done \/ Ahead(q, n, v)
  <2>1. Same(a) /\ (rows'[p.name][t.version] # NONE =>
                       ~needs_rewrap(rows'[p.name][t.version], p.target))
    BY <1>1, <1>9, WriteBack, Zenon
  <2>2. Done \/ Ahead(p, n, v)
    BY <1>3, <1>9, <2>1 DEF Dealt, Same, Held, Writing
  <2>3. CASE n = p.name /\ v = t.version
    BY <1>1, <2>1, <2>3, Zenon DEF Same
  <2>4. CASE ~(n = p.name /\ v = t.version)
    BY <1>9, <2>2, <2>4 DEF Dealt, Ahead, Held, Writing
  <2> QED
    BY <2>3, <2>4
<1> QED
  BY <1>2, <1>4, <1>5, <1>6, <1>7, <1>8, <1>9, Zenon DEF Moves

(* Passes earn their watermark step by step.                                *)
LEMMA EarnedStep ==
    ASSUME Shapes, FreshInv, EarnedInv, [Next]_vars PROVE EarnedInv'
<1>1. ASSUME NEW b \in Actors, NEW n \in Names, NEW v \in VersionNos, passes'[b] = passes[b]
      PROVE  Earned(passes'[b], n, v, rows'[n][v])
  <2>1. SUFFICES ASSUME rows'[n][v] # NONE, rows'[n][v].sealed \in passes[b].seen,
                        ~passes[b].failed, passes[b].pc \in Held \cup {"persist"}
                 PROVE  \/ ~needs_rewrap(rows'[n][v], passes[b].target)
                        \/ Ahead(passes[b], n, v)
    BY <1>1, Zenon DEF Earned
  <2>2. passes[b].target \in Generations /\ Earned(passes[b], n, v, rows[n][v])
    BY <2>1 DEF Shapes, PassOK, Passes, Aimed, OptGeneration, EarnedInv
  <2> QED
    BY <2>1, <2>2, RowKept DEF Earned
<1>2. ASSUME NEW a \in Actors, Turn(a) PROVE \A b \in Actors \ {a} : passes'[b] = passes[b]
  BY <1>2, TurnMoves
<1>3. ASSUME NEW b \in Actors, NEW n \in Names, NEW v \in VersionNos
      PROVE  Earned(passes'[b], n, v, rows'[n][v])
  BY <1>1, <1>2, OtherSteps, EarnedTurn, Zenon
<1> QED
  BY <1>3, Zenon DEF EarnedInv

---------------------------------------------------------------------------
(* Keys, while no secret is deleted *)

(* What was read of a row stays true of it: whatever expires, a version no  *)
(* older than any stored one stays stored.                                  *)
LEMMA ReadStays ==
    ASSUME Shapes, [Next]_vars, NEW n \in Names, ~delete_secret(n), NEW v \in VersionNos,
           NEW d \in Nat, rows[n][v] # NONE => rows[n][v].sealed = d,
           \E w \in Stored(n) : v <= w
    PROVE  /\ rows'[n][v] # NONE => rows'[n][v].sealed = d
           /\ \E w \in VersionNos : rows'[n][w] # NONE /\ v <= w
<1>1. PICK w \in Stored(n) : v <= w
  OBVIOUS
<1> DEFINE x == Current(n)
<1>2. x \in Stored(n) /\ w <= x
  BY CurrentIsHighest
<1>3. /\ x \in VersionNos /\ rows[n][x] # NONE
      /\ v \in Nat /\ w \in Nat /\ x \in Nat
  BY <1>2, RewrapAssumption DEF Stored, VersionNos
<1> HIDE DEF x
<1>4. ~expire(n, x)
  BY DEF expire, x
<1>5. \A r \in Sealers : ~Stores(r, n, x) /\ ~Stores(r, n, v)
  BY <1>1, <1>3 DEF Stores
<1>6. \A a \in Actors, u \in VersionNos : \A t \in passes[a].todo : Rewrapped(a, t, n, u) =>
         rows[n][u] # NONE /\ rows'[n][u] # NONE /\ rows'[n][u].sealed = rows[n][u].sealed
  BY DEF Rewrapped
<1>7. rows'[n][x] # NONE
  BY <1>3, <1>4, <1>5, <1>6, RowsMove, Zenon
<1>8. rows'[n][v] # NONE => rows'[n][v].sealed = d
  BY <1>5, <1>6, RowsMove, Zenon
<1>9. v <= x
  BY <1>1, <1>2, <1>3
<1> QED
  BY <1>3, <1>7, <1>8, <1>9

(* The keys a pass has at hand stay those of the rows they go back to.      *)
LEMMA ReadsStep ==
    ASSUME Shapes, KeyInv, [Next]_vars, ~\E n \in Names : delete_secret(n), NEW b \in Actors
    PROVE  ReadKeys(passes[b])'
<1> DEFINE Good(n, t) == /\ rows'[n][t.version] # NONE => rows'[n][t.version].sealed = t.dek
                         /\ \E w \in VersionNos : rows'[n][w] # NONE /\ t.version <= w
<1>1. SUFFICES ASSUME passes'[b].pc \in Writing, NEW t \in passes'[b].todo
               PROVE  Good(passes'[b].name, t)
  BY DEF ReadKeys, Stored
<1>2. CASE /\ passes[b].pc \in Writing /\ passes'[b].name = passes[b].name
           /\ passes'[b].todo \subseteq passes[b].todo
  <2> DEFINE n == passes[b].name
             v == t.version
             d == t.dek
  <2>1. /\ passes[b] \in Passes /\ PassOK(passes[b], kms) /\ ReadKeys(passes[b])
        /\ t \in passes[b].todo
    BY <1>2 DEF Shapes, KeyInv
  <2>2. n \in Names /\ v \in VersionNos /\ d \in Nat
    BY <1>2, <2>1, Zenon DEF PassOK, Passes
  <2>3. /\ rows[n][v] # NONE => rows[n][v].sealed = d
        /\ \E w \in Stored(n) : v <= w
    BY <1>2, <2>1 DEF ReadKeys
  <2> HIDE DEF n, v, d
  <2>4. /\ rows'[n][v] # NONE => rows'[n][v].sealed = d
        /\ \E w \in VersionNos : rows'[n][w] # NONE /\ v <= w
    BY <2>2, <2>3, ReadStays
  <2> QED
    BY <1>2, <2>4, Zenon DEF n, v, d
<1>3. ASSUME NEW n \in Names, Read(b, n) PROVE Good(passes'[b].name, t)
  <2>1. PICK v \in Stored(n) : t = [version |-> v, dek |-> rows[n][v].dek]
    BY <1>3 DEF Read
  <2>2. /\ v \in VersionNos /\ rows[n][v] # NONE /\ v \in Nat
        /\ rows[n][v].dek = rows[n][v].sealed
    BY RewrapAssumption DEF Stored, VersionNos, KeyInv, EveryVersionOpens
  <2>3. passes'[b].name = n /\ t.version = v /\ t.dek = rows[n][v].dek /\ rows' = rows
    BY <1>3, <2>1, Zenon DEF Read
  <2> QED
    BY <2>2, <2>3
<1>4. CASE Turn(b)
  <2>1. Moves(b)
    BY <1>4, TurnMoves, Zenon
  <2>2. \/ /\ passes[b].pc \in Writing /\ passes'[b].name = passes[b].name
           /\ passes'[b].todo \subseteq passes[b].todo
        \/ \E n \in Names : Read(b, n)
    BY <1>1, <2>1, Zenon DEF Moves, Idled, Taken, Proceeds, Ended, Dealt, Held, Writing
  <2> QED
    BY <1>2, <1>3, <2>2, Zenon
<1>5. CASE passes'[b] = passes[b]
  BY <1>1, <1>2, <1>5, Zenon
<1>6. ASSUME NEW a \in Actors, Turn(a), a # b PROVE passes'[b] = passes[b]
  BY <1>6, TurnMoves
<1> QED
  BY <1>4, <1>5, <1>6, OtherSteps, Zenon

(* Every key stays the right one, while no secret is deleted.               *)
LEMMA KeyStep ==
    ASSUME Shapes, KeyInv, [Next]_vars, ~\E n \in Names : delete_secret(n) PROVE KeyInv'
<1>1. ASSUME NEW n \in Names, NEW v \in VersionNos, rows'[n][v] # NONE
      PROVE  rows'[n][v].dek = rows'[n][v].sealed
  <2>1. CASE rows'[n][v] = rows[n][v]
    BY <1>1, <2>1 DEF KeyInv, EveryVersionOpens
  <2>2. ASSUME NEW r \in Sealers, Stores(r, n, v) PROVE rows'[n][v].dek = rows'[n][v].sealed
    BY <2>2, Zenon DEF Stores, KeyInv
  <2>3. ASSUME NEW a \in Actors, NEW t \in passes[a].todo, Rewrapped(a, t, n, v)
        PROVE  rows'[n][v].dek = rows'[n][v].sealed
    <3>1. ReadKeys(passes[a])
      BY DEF KeyInv
    <3> QED
      BY <2>3, <3>1 DEF ReadKeys, Rewrapped, Writing
  <2> QED
    BY <1>1, <2>1, <2>2, <2>3, RowsMove, Zenon
<1>2. ASSUME NEW q \in Sealers, seals'[q].pc # "idle"
      PROVE  seals'[q].row.dek = seals'[q].row.sealed
  <2>1. CASE seals'[q] = seals[q]
    BY <1>2, <2>1 DEF KeyInv
  <2>2. ASSUME NEW r \in Sealers, SealTurn(r)
        PROVE  /\ q # r => seals'[q] = seals[q]
               /\ Minted(r) \/ Stamped(r) \/ Put(r)
    BY <2>2, SealMoves, Zenon
  <2>3. CASE SealTurn(q)
    BY <1>2, <2>2, <2>3 DEF Minted, Stamped, Put, KeyInv
  <2>4. ASSUME NEW a \in Actors, Turn(a) PROVE UNCHANGED seals
    BY <2>4, TurnMoves
  <2>5. CASE UNCHANGED seals
    BY <2>1, <2>5
  <2> QED
    BY <2>1, <2>2, <2>3, <2>4, <2>5, Steps, Zenon DEF vars, rotate_cmk, delete_secret, expire
<1>3. \A b \in Actors : ReadKeys(passes[b])'
  BY ReadsStep
<1> QED
  BY <1>1, <1>2, <1>3, Zenon DEF KeyInv, EveryVersionOpens

(* Deletions are counted.                                                   *)
LEMMA DeletesGrow ==
    ASSUME Shapes, [Next]_vars, budget'.deletes = 0
    PROVE  budget.deletes = 0 /\ ~\E n \in Names : delete_secret(n)
<1>1. ASSUME NEW n \in Names, delete_secret(n) PROVE FALSE
  <2>1. /\ budget' = [budget EXCEPT !.deletes = budget.deletes + 1]
        /\ budget \in [deletes : Nat, faults : Nat]
    BY <1>1 DEF delete_secret, Shapes
  <2> QED
    BY <2>1
<1>2. ASSUME NEW a \in Actors, Turn(a) PROVE budget'.deletes = budget.deletes
  BY <1>2, TurnMoves
<1>3. ASSUME NEW r \in Sealers, SealTurn(r) PROVE UNCHANGED budget
  BY <1>3, SealMoves
<1> QED
  BY <1>1, <1>2, <1>3, Steps, Zenon DEF vars, rotate_cmk, expire

---------------------------------------------------------------------------
(* The theorems *)

(* The system starts with at most one row, from before the stamps, and no   *)
(* pass.                                                                    *)
LEMMA RewrapInit ==
    ASSUME Init PROVE RewrapInv
<1>1. PICK old \in SUBSET Names :
         rows = [n \in Names |-> [v \in VersionNos |->
                    IF n \in old /\ v = 1 THEN Legacy(1) ELSE NONE]]
  BY DEF Init
<1>2. Legacy(1) \in Row /\ Legacy(1).sealed = 1 /\ Legacy(1).dek = 1
  BY Targets DEF Legacy, Row, OptGeneration
<1>3. rows \in [Names -> [VersionNos -> Row \cup {NONE}]]
  BY <1>1, <1>2
<1>4. \A n \in Names, v \in VersionNos : rows[n][v] = NONE \/ rows[n][v] = Legacy(1)
  BY <1>1
<1>5. /\ kms = 0 /\ watermark = NONE /\ busy = [p \in Nodes |-> FALSE]
      /\ passes = [a \in Actors |-> NoPass] /\ seals = [r \in Sealers |-> NoSeal]
      /\ keys = 1 /\ budget = [deletes |-> 0, faults |-> 0]
  BY DEF Init
<1>6. NoPass.pc = "idle" /\ NoPass.seen = {} /\ NoSeal.pc = "idle" /\ NoSeal \in Seal
  BY DEF NoPass, NoSeal, Seal
<1>7. Shapes
  <2>1. NoPass \in Passes /\ PassOK(NoPass, kms)
    BY Targets, Zenon DEF NoPass, Passes, PassOK, Aimed, Held, Writing, OptGeneration
  <2>2. \A a \in Actors : passes[a] \in Passes /\ PassOK(passes[a], kms)
    BY <1>5, <2>1, Zenon
  <2>3. \A r \in Sealers : seals[r] \in Seal /\ SealOK(seals[r])
    BY <1>5, <1>6 DEF SealOK
  <2>4. /\ kms \in Generations /\ watermark \in OptGeneration /\ busy \in [Nodes -> BOOLEAN]
        /\ keys \in Nat /\ budget \in [deletes : Nat, faults : Nat]
    BY <1>5, Targets DEF OptGeneration
  <2>5. passes \in [Actors -> Passes] /\ seals \in [Sealers -> Seal]
    BY <1>5, <1>6, <2>1
  <2> QED
    BY <1>3, <2>2, <2>3, <2>4, <2>5, Zenon DEF Shapes
<1>8. \A a \in Actors : passes[a].pc = "idle" /\ passes[a].seen = {}
  BY <1>5, <1>6, Zenon
<1>9. \A r \in Sealers : seals[r].pc = "idle"
  BY <1>5, <1>6, Zenon
<1>10. BusyInv
  BY <1>5, <1>8 DEF BusyInv, Running
<1>11. FreshInv
  <2>1. \A k \in Used : k = 1
    BY <1>2, <1>4, <1>8, KeyOfRow DEF Used
  <2> QED
    BY <1>5, <1>9, <2>1 DEF FreshInv
<1>12. EarnedInv
  BY <1>8 DEF EarnedInv, Earned
<1>13. KeyInv
  BY <1>2, <1>4, <1>8, <1>9 DEF KeyInv, EveryVersionOpens, ReadKeys, Writing
<1> QED
  BY <1>7, <1>10, <1>11, <1>12, <1>13 DEF RewrapInv

(* The inductive invariant holds in every reachable state.                  *)
THEOREM RewrapInvariance == Spec => []RewrapInv
<1>1. ASSUME RewrapInv, [Next]_vars PROVE RewrapInv'
  <2>1. Shapes /\ BusyInv /\ FreshInv /\ EarnedInv /\ (budget.deletes = 0 => KeyInv)
    BY <1>1 DEF RewrapInv
  <2>2. Shapes' /\ BusyInv' /\ FreshInv' /\ EarnedInv'
    BY <1>1, <2>1, ShapesStep, BusyStep, FreshStep, EarnedStep
  <2>3. budget'.deletes = 0 => KeyInv'
    BY <1>1, <2>1, DeletesGrow, KeyStep
  <2> QED
    BY <2>2, <2>3 DEF RewrapInv
<1> QED
  BY <1>1, RewrapInit, PTL DEF Spec

(* The shapes, and one pass at a time on a node: the busy flag counts the   *)
(* passes that run.                                                         *)
THEOREM TypeCorrect == Spec => []TypeOK
<1>1. ASSUME RewrapInv PROVE TypeOK
  <2>1. Shapes /\ BusyInv
    BY <1>1 DEF RewrapInv
  <2>2. \A p \in Nodes : busy[p] <=> \E a \in Actors : a[1] = p /\ Running(a)
    BY <2>1 DEF BusyInv
  <2>3. \A a, b \in Actors : Running(a) /\ Running(b) /\ a[1] = b[1] => a = b
    BY <2>1 DEF BusyInv
  <2> QED
    BY <2>1, <2>2, <2>3 DEF TypeOK, Shapes
<1> QED
  BY <1>1, RewrapInvariance, PTL

(* While no secret has been deleted, every stored version opens, whatever   *)
(* passes overlap, fail or write back late.                                 *)
THEOREM EveryVersionOpensAlways == Spec => [](budget.deletes = 0 => EveryVersionOpens)
<1>1. RewrapInv => (budget.deletes = 0 => EveryVersionOpens)
  BY DEF RewrapInv, KeyInv
<1> QED
  BY <1>1, RewrapInvariance, PTL

(* No step takes a row back to an earlier stamp or behind its stamp.        *)
THEOREM NeverUnwoundAlways == Spec => NeverUnwound
<1> DEFINE Forward(n, v) ==
             LET old == rows[n][v]
                 new == rows'[n][v]
             IN  old # NONE /\ new # NONE /\ new.sealed = old.sealed /\ new # old =>
                    /\ new.stamp # NONE
                    /\ old.stamp # NONE => new.stamp > old.stamp
                    /\ new.material >= new.stamp
<1>1. ASSUME Shapes, [Next]_vars, NEW n \in Names, NEW v \in VersionNos PROVE Forward(n, v)
  <2>1. CASE rows'[n][v] = rows[n][v] \/ rows'[n][v] = NONE
    BY <2>1
  <2>2. ASSUME NEW r \in Sealers, Stores(r, n, v) PROVE Forward(n, v)
    BY <2>2, Zenon DEF Stores
  <2>3. ASSUME NEW a \in Actors, NEW t \in passes[a].todo, Rewrapped(a, t, n, v)
        PROVE  Forward(n, v)
    BY <2>3 DEF Rewrapped
  <2> HIDE DEF Forward
  <2> QED
    BY <1>1, <2>1, <2>2, <2>3, RowsMove, Zenon
<1>2. Shapes /\ [Next]_vars => [\A n \in Names, v \in VersionNos : Forward(n, v)]_vars
  BY <1>1, Zenon
<1>3. RewrapInv => Shapes
  BY DEF RewrapInv
<1> QED
  BY <1>2, <1>3, RewrapInvariance, PTL DEF Spec, NeverUnwound

(* A pass that advances the watermark has dealt with all it saw.            *)
THEOREM WatermarkIsEarnedAlways == Spec => WatermarkIsEarned
<1> DEFINE Paid(a) ==
             passes[a].pc = "persist" /\ passes'[a].pc = "idle" /\ watermark' # watermark =>
                 \A n \in Names, v \in VersionNos :
                    rows[n][v] # NONE /\ rows[n][v].sealed \in passes[a].seen =>
                        ~needs_rewrap(rows[n][v], passes[a].target)
<1>1. ASSUME RewrapInv, NEW a \in Actors PROVE Paid(a)
  <2>1. SUFFICES ASSUME passes[a].pc = "persist", NEW n \in Names, NEW v \in VersionNos,
                        rows[n][v] # NONE, rows[n][v].sealed \in passes[a].seen
                 PROVE  ~needs_rewrap(rows[n][v], passes[a].target)
    OBVIOUS
  <2>2. PassOK(passes[a], kms) /\ Earned(passes[a], n, v, rows[n][v])
    BY <1>1 DEF RewrapInv, Shapes, EarnedInv
  <2>3. ~passes[a].failed
    BY <2>1, <2>2, Zenon DEF PassOK
  <2>4. ~Ahead(passes[a], n, v)
    BY <2>1 DEF Ahead, Held, Writing
  <2> QED
    BY <2>1, <2>2, <2>3, <2>4, Zenon DEF Earned
<1>2. RewrapInv => [\A a \in Actors : Paid(a)]_vars
  BY <1>1, Zenon
<1> QED
  BY <1>2, RewrapInvariance, PTL DEF WatermarkIsEarned
=============================================================================
