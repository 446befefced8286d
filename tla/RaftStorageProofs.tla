------------------------- MODULE RaftStorageProofs -------------------------
(***************************************************************************)
(* The stored log of RaftStorage, for any number of nodes, log entries,    *)
(* crashes, snapshot transfers and discarded logs; then the replicated     *)
(* tables: what a node serves, what survives a crash, and that the storage *)
(* implements ReplicatedTables.                                            *)
(***************************************************************************)
EXTENDS RaftStorage, FiniteSetTheorems, WellFoundedInduction, TLAPS

(* The largest of some numbers *)

(* A set of numbers has a smallest one.                                     *)
LEMMA SmallestExists ==
    ASSUME NEW T, T \subseteq Nat, T # {}
    PROVE  \E x \in T : \A y \in T : x <= y
<1> DEFINE R == {ss \in Nat \X Nat : ss[1] < ss[2]}
<1>1. IsWellFoundedOn(R, Nat)
  BY NatLessThanWellFounded DEF OpToRel
<1> HIDE DEF R
<1>2. PICK x \in T : \A y \in T : ~(<<y, x>> \in R)
  BY <1>1, WFMin, Zenon
<1>3. ASSUME NEW y \in T, y < x PROVE FALSE
  <2>1. <<y, x>> \in R
    BY <1>3 DEF R
  <2> QED
    BY <1>2, <2>1
<1> QED
  BY <1>3

(* A set of numbers with a bound has a largest one, which is its Max.       *)
LEMMA MaxIsLargest ==
    ASSUME NEW b \in Nat, NEW S, S \subseteq 0..b, S # {}
    PROVE  Max(S) \in S /\ \A y \in S : y <= Max(S)
<1> DEFINE T == {b - x : x \in S}
<1>1. PICK z \in T : \A y \in T : z <= y
  <2>1. ASSUME NEW x \in S PROVE b - x \in Nat
    <3>1. x \in 0..b
      OBVIOUS
    <3> QED
      BY <3>1
  <2>2. T \subseteq Nat
    BY <2>1
  <2>3. T # {}
    BY Zenon
  <2> QED
    BY <2>2, <2>3, SmallestExists, Zenon
<1>2. PICK x \in S : z = b - x
  BY <1>1
<1>3. \A y \in S : x >= y
  BY <1>1, <1>2
<1> QED
  BY <1>3, Zenon DEF Max

---------------------------------------------------------------------------
(* What is on one node's disk *)

Slot == {"good", "stale", NONE}
Position == 0..MaxIndex
Status == {"up", "down", "normalizing"}

(* The entries in a log are the ones above lo up to hi.                     *)
Holding(slots, lo, hi) ==
    \A i \in Index : slots[i] # NONE <=> lo < i /\ i <= hi

(* An entry of a deposed leader has not been applied, and no entry of the   *)
(* agreed sequence comes after it.                                          *)
StaleIsLast(slots, a) ==
    \A i \in Index : slots[i] = "stale" =>
        i > a /\ \A j \in Index : j > i => slots[j] # "good"

(* The log of a node, given where it stands: applied a, purged p, believed  *)
(* snapshot e, build b, purge g, status s.  It starts right after what was  *)
(* purged or is being purged, at the latest after what was applied, and     *)
(* reaches at least what was applied.  A node that does not run has lost    *)
(* what was volatile.                                                       *)
NodeOK(slots, a, p, e, b, g, s) ==
    /\ \E lo \in p..a, hi \in a..MaxIndex :
          /\ Holding(slots, lo, hi)
          /\ s = "up" => lo = IF g = NONE THEN p ELSE g
          /\ s = "normalizing" => lo = a
    /\ e <= a
    /\ b # NONE => b <= a
    /\ s # "up" => g = NONE /\ b = NONE /\ e = 0
    /\ StaleIsLast(slots, a)

NodeInv(n) == NodeOK(log[n], applied[n], purged[n], engine[n], building[n],
                     purging[n], status[n])

(* LogIsContiguous and UnappliedIsKept are not inductive: what a crash      *)
(* leaves behind is not contiguous to META_PURGED, but to a place between   *)
(* META_PURGED and META_APPLIED, where normalize_raft_log finds it.         *)
StorageInv == TypeOK /\ \A n \in Nodes : NodeInv(n)

(* What the invariant says of one node.                                     *)
LEMMA OfNode ==
    ASSUME StorageInv, NEW n \in Nodes
    PROVE  /\ applied[n] \in Position /\ purged[n] \in Position
           /\ log[n] \in [Index -> Slot] /\ data[n] \in Counts
           /\ NodeOK(log[n], applied[n], purged[n], engine[n], building[n],
                     purging[n], status[n])
BY Zenon DEF StorageInv, TypeOK, NodeInv, Position, Slot

(* Where a log starts and ends.                                             *)
LEMMA Ends ==
    ASSUME NEW slots, NEW a \in Position, NEW p \in Position, NEW e, NEW b, NEW g, NEW s,
           NodeOK(slots, a, p, e, b, g, s)
    PROVE  /\ \E lo \in Position, hi \in Position :
                 /\ p <= lo /\ lo <= a /\ a <= hi
                 /\ Holding(slots, lo, hi)
                 /\ s = "normalizing" => lo = a
           /\ StaleIsLast(slots, a)
<1>1. PICK lo \in p..a, hi \in a..MaxIndex :
         Holding(slots, lo, hi) /\ (s = "normalizing" => lo = a)
  BY Zenon DEF NodeOK
<1>2. lo \in Position /\ hi \in Position /\ p <= lo /\ lo <= a /\ a <= hi
  BY BoundsAssumption DEF Position
<1> QED
  BY <1>1, <1>2, Zenon DEF NodeOK

(* A crash takes only what is volatile.                                     *)
LEMMA Crashed ==
    ASSUME NEW slots, NEW a \in Position, NEW p, NEW e, NEW b, NEW g, NEW s,
           NodeOK(slots, a, p, e, b, g, s)
    PROVE  NodeOK(slots, a, p, 0, NONE, NONE, "down")
<1>1. 0 <= a
  BY DEF Position
<1> QED
  BY <1>1, Zenon DEF NodeOK

(* A log cut down to what was not applied.                                  *)
LEMMA CutDown ==
    ASSUME NEW old, NEW slots, NEW a \in Position, NEW p \in Position, NEW e, NEW b,
           NEW g, NEW hi \in Position, NodeOK(old, a, p, e, b, g, "down"),
           a <= hi, Holding(slots, a, hi), StaleIsLast(slots, a)
    PROVE  NodeOK(slots, a, p, e, b, g, "normalizing")
<1>1. p <= a
  <2>1. PICK lo \in Position : p <= lo /\ lo <= a
    BY Ends, Zenon
  <2> QED
    BY <2>1, BoundsAssumption DEF Position
<1>2. a \in p..a /\ hi \in a..MaxIndex
  BY <1>1, BoundsAssumption DEF Position
<1> QED
  BY <1>2, Zenon DEF NodeOK

(* A normalized node that runs again.                                       *)
LEMMA Normalized ==
    ASSUME NEW slots, NEW a \in Position, NEW p \in Position, NEW e, NEW b, NEW g,
           NEW s, s <= a, NodeOK(slots, a, p, e, b, g, "normalizing")
    PROVE  NodeOK(slots, a, a, s, b, g, "up")
<1>1. PICK lo \in p..a, hi \in a..MaxIndex : Holding(slots, lo, hi) /\ lo = a
  BY Zenon DEF NodeOK
<1>2. a \in a..a /\ hi \in a..MaxIndex
  BY <1>1, BoundsAssumption DEF Position
<1>3. Holding(slots, a, hi) /\ StaleIsLast(slots, a) /\ g = NONE /\ (b # NONE => b <= a)
  BY <1>1, Zenon DEF NodeOK
<1> QED
  BY <1>2, <1>3, Zenon DEF NodeOK

(* The last entry of a log without a gap.                                   *)
LEMMA LastIs ==
    ASSUME TypeOK, NEW n \in Nodes, NEW lo \in Position, NEW hi \in lo..MaxIndex,
           Holding(log[n], lo, hi), purged[n] = lo
    PROVE  Last(n) = hi /\ Stored(n) = (lo + 1)..hi
<1> MaxIndex \in Nat
  BY BoundsAssumption
<1>1. Stored(n) = (lo + 1)..hi
  BY DEF Stored, Holding, Index, Position
<1>2. CASE hi = lo
  BY <1>1, <1>2 DEF Last
<1>3. CASE hi > lo
  <2>1. hi \in Stored(n) /\ Stored(n) # {}
    BY <1>1, <1>3 DEF Position
  <2>2. Stored(n) \subseteq 0..MaxIndex
    BY DEF Stored, Index
  <2>3. Max(Stored(n)) \in Stored(n) /\ hi <= Max(Stored(n))
    BY <2>1, <2>2, MaxIsLargest
  <2> QED
    BY <1>1, <2>1, <2>3 DEF Last, Position
<1> QED
  BY <1>1, <1>2, <1>3 DEF Position

(* The log of a running node between two purges.                            *)
LEMMA ReadyLog ==
    ASSUME StorageInv, NEW n \in Nodes, Ready(n)
    PROVE  /\ purged[n] <= applied[n]
           /\ Last(n) \in applied[n]..MaxIndex
           /\ Holding(log[n], purged[n], Last(n))
           /\ Stored(n) = (purged[n] + 1)..Last(n)
<1>1. PICK lo \in purged[n]..applied[n], hi \in applied[n]..MaxIndex :
         Holding(log[n], lo, hi) /\ lo = purged[n]
  BY DEF StorageInv, NodeInv, NodeOK, Ready
<1>2. lo \in Position /\ hi \in lo..MaxIndex /\ applied[n] \in Position
  BY <1>1, BoundsAssumption DEF StorageInv, TypeOK, Position
<1>3. Last(n) = hi /\ Stored(n) = (lo + 1)..hi
  BY <1>1, <1>2, LastIs DEF StorageInv
<1> QED
  BY <1>1, <1>2, <1>3 DEF Position

(* A step of one node keeps the invariant if it keeps the node's part of it.*)
LEMMA OneNode ==
    ASSUME StorageInv, TypeOK', NEW n \in Nodes, NodeInv(n)',
           \A m \in Nodes \ {n} :
              /\ log'[m] = log[m] /\ applied'[m] = applied[m]
              /\ purged'[m] = purged[m] /\ engine'[m] = engine[m]
              /\ building'[m] = building[m] /\ purging'[m] = purging[m]
              /\ status'[m] = status[m]
    PROVE  StorageInv'
BY Zenon DEF StorageInv, NodeInv

---------------------------------------------------------------------------
(* One lemma per action *)

(* An entry written right after the last one: append, on a leader or on a   *)
(* follower.                                                                *)
LEMMA WriteStep ==
    ASSUME StorageInv, NEW n \in Nodes, Ready(n), Last(n) < MaxIndex,
           NEW entry \in {"good", "stale"},
           entry = "good" => \A i \in Stored(n) : log[n][i] = "good",
           Write(n, Last(n) + 1, entry), top' \in 0..MaxIndex, committed' \in 0..top',
           budget' \in [crashes : Nat, installs : Nat, stale : Nat, resets : SUBSET Nodes],
           UNCHANGED <<applied, purged, data, snapshot, volatile, status>>
    PROVE  StorageInv'
<1> DEFINE k == Last(n) + 1
<1>0. /\ MaxIndex \in Nat /\ entry # NONE
      /\ log \in [Nodes -> [Index -> Slot]] /\ applied[n] \in Position
      /\ purged[n] \in Position
  BY BoundsAssumption, NoneAssumption, Zenon DEF StorageInv, TypeOK, Slot, Position
<1>1. /\ purged[n] <= applied[n] /\ Last(n) \in applied[n]..MaxIndex
      /\ Holding(log[n], purged[n], Last(n)) /\ Stored(n) = (purged[n] + 1)..Last(n)
  BY ReadyLog
<1>2. k \in Index /\ k > applied[n]
  BY <1>0, <1>1 DEF Index, Position
<1>3. /\ log' \in [Nodes -> [Index -> Slot]]
      /\ \A i \in Index : log'[n][i] = IF i = k THEN entry ELSE log[n][i]
      /\ \A m \in Nodes \ {n} : log'[m] = log[m]
  BY <1>0, <1>2 DEF Write, Slot
<1>4. TypeOK'
  BY <1>3 DEF StorageInv, TypeOK, volatile, Slot
<1>5. Holding(log'[n], purged[n], k)
  <2>1. ASSUME NEW i \in Index PROVE (i = k \/ i <= Last(n)) <=> i <= k
    BY <1>0, <1>1 DEF Index, Position
  <2>2. purged[n] < k
    BY <1>0, <1>1, <1>2 DEF Index, Position
  <2> HIDE DEF k
  <2> QED
    BY <1>0, <1>1, <1>3, <2>1, <2>2, Zenon DEF Holding
<1>6. StaleIsLast(log'[n], applied[n])
  <2>1. StaleIsLast(log[n], applied[n])
    BY DEF StorageInv, NodeInv, NodeOK
  <2>2. ASSUME NEW i \in Index, i > k PROVE log'[n][i] = NONE
    <3>1. i \in Int /\ k \in Int /\ Last(n) \in Int
      BY <1>0, <1>1 DEF Index, Position
    <3>2. i # k /\ ~(i <= Last(n))
      BY <2>2, <3>1
    <3>3. log'[n][i] = log[n][i]
      BY <1>3, <3>2
    <3> QED
      BY <1>1, <3>2, <3>3 DEF Holding
  <2>3. \A i \in Index : i < k /\ log[n][i] = "stale" => i \in Stored(n)
    BY NoneAssumption DEF Stored
  <2>4. \A i \in Index : i # k /\ log'[n][i] = "stale" => log[n][i] = "stale" /\ i < k
    BY <1>2, <1>3, <2>2, NoneAssumption DEF Index
  <2>5. NONE # "good" /\ NONE # "stale"
    BY NoneAssumption
  <2> QED
    BY <1>2, <1>3, <2>1, <2>2, <2>3, <2>4, <2>5 DEF StaleIsLast, Index
<1>7. NodeInv(n)'
  <2>1. k \in applied[n]..MaxIndex /\ purged[n] \in purged[n]..applied[n]
    BY <1>0, <1>1, <1>2 DEF Index, Position
  <2> HIDE DEF k
  <2> QED
    BY <1>5, <1>6, <2>1 DEF StorageInv, NodeInv, NodeOK, Ready, volatile
<1> QED
  BY <1>3, <1>4, <1>7, OneNode DEF volatile

(* A leader's entry extends its own log.                                    *)
LEMMA ProposeStep ==
    ASSUME StorageInv, NEW n \in Nodes, propose(n) PROVE StorageInv'
<1>1. top' \in 0..MaxIndex /\ committed' \in 0..top'
  BY BoundsAssumption DEF propose, StorageInv, TypeOK
<1> QED
  BY <1>1, WriteStep DEF propose, StorageInv, TypeOK

(* A deposed leader's entry ends a log.                                     *)
LEMMA AppendStaleStep ==
    ASSUME StorageInv, NEW n \in Nodes, append_stale(n) PROVE StorageInv'
<1>1. budget' \in [crashes : Nat, installs : Nat, stale : Nat, resets : SUBSET Nodes]
  <2>1. /\ budget \in [crashes : Nat, installs : Nat, stale : Nat, resets : SUBSET Nodes]
        /\ budget' = [budget EXCEPT !.stale = budget.stale + 1]
    BY DEF append_stale, StorageInv, TypeOK
  <2> QED
    BY <2>1
<1> QED
  BY <1>1, WriteStep, Zenon DEF append_stale, StorageInv, TypeOK

(* A follower's log grows by the next entry.                                *)
LEMMA AppendStep ==
    ASSUME StorageInv, NEW n \in Nodes, append(n) PROVE StorageInv'
<1>1. Last(n) < MaxIndex
  <2>1. Last(n) \in applied[n]..MaxIndex
    BY ReadyLog DEF append
  <2> QED
    BY <2>1, BoundsAssumption DEF append, StorageInv, TypeOK
<1> QED
  BY <1>1, WriteStep, Zenon DEF append, StorageInv, TypeOK

(* A leader's disagreement is about entries that were not applied.          *)
LEMMA TruncateStep ==
    ASSUME StorageInv, NEW n \in Nodes, truncate(n) PROVE StorageInv'
<1>1. PICK i \in Stored(n) :
         /\ log[n][i] = "stale"
         /\ log' = [log EXCEPT ![n] = [j \in Index |-> IF j >= i THEN NONE ELSE log[n][j]]]
  BY Zenon DEF truncate, StorageInv, TypeOK
<1>2. /\ purged[n] <= applied[n] /\ Last(n) \in applied[n]..MaxIndex
      /\ Holding(log[n], purged[n], Last(n)) /\ Stored(n) = (purged[n] + 1)..Last(n)
  BY ReadyLog DEF truncate
<1>3. /\ MaxIndex \in Nat /\ applied[n] \in Position /\ purged[n] \in Position
      /\ log \in [Nodes -> [Index -> Slot]] /\ i \in Index
  BY <1>1, BoundsAssumption DEF StorageInv, TypeOK, Position, Slot, Stored
<1>4. /\ log' \in [Nodes -> [Index -> Slot]]
      /\ \A j \in Index : log'[n][j] = IF j >= i THEN NONE ELSE log[n][j]
      /\ \A m \in Nodes \ {n} : log'[m] = log[m]
  BY <1>1, <1>3 DEF Slot
<1>5. StaleIsLast(log[n], applied[n])
  BY DEF StorageInv, NodeInv, NodeOK
<1>6. i > applied[n] /\ i <= Last(n)
  BY <1>1, <1>2, <1>3, <1>5 DEF StaleIsLast
<1>7. Holding(log'[n], purged[n], i - 1)
  BY <1>2, <1>3, <1>4, <1>6 DEF Holding, Index, Position
<1>8. StaleIsLast(log'[n], applied[n])
  BY <1>4, <1>5, NoneAssumption DEF StaleIsLast
<1>9. NodeInv(n)'
  <2>1. i - 1 \in applied[n]..MaxIndex /\ purged[n] \in purged[n]..applied[n]
    BY <1>2, <1>3, <1>6 DEF Index, Position
  <2> QED
    BY <1>7, <1>8, <2>1 DEF truncate, StorageInv, NodeInv, NodeOK, Ready, volatile
<1>10. TypeOK'
  BY <1>4, Zenon DEF truncate, StorageInv, TypeOK, volatile, Slot
<1> QED
  BY <1>4, <1>9, <1>10, OneNode DEF truncate, volatile

(* The entries applied are in the log, and none of them is stale.           *)
LEMMA ApplyStep ==
    ASSUME StorageInv, NEW n \in Nodes, apply(n) PROVE StorageInv'
<1>1. PICK k \in (applied[n] + 1)..committed :
         /\ \A i \in (applied[n] + 1)..k : log[n][i] = "good"
         /\ applied' = [applied EXCEPT ![n] = k]
         /\ data' = [data EXCEPT ![n] = [i \in Index |->
                        IF i > applied[n] /\ i <= k THEN data[n][i] + 1 ELSE data[n][i]]]
  BY Zenon DEF apply, StorageInv, TypeOK
<1>2. /\ MaxIndex \in Nat /\ applied[n] \in Position /\ purged[n] \in Position
      /\ committed \in 0..MaxIndex /\ data[n] \in Counts
  BY BoundsAssumption DEF StorageInv, TypeOK, Position
<1>3. k \in Index /\ k \in Position /\ k > applied[n]
  BY <1>1, <1>2 DEF Index, Position
<1>4. data' \in [Nodes -> Counts] /\ applied' \in [Nodes -> Position] /\ applied'[n] = k
  BY <1>1, <1>2, <1>3 DEF StorageInv, TypeOK, Counts, Position
<1>5. PICK lo \in purged[n]..applied[n], hi \in applied[n]..MaxIndex :
         /\ Holding(log[n], lo, hi)
         /\ lo = IF purging[n] = NONE THEN purged[n] ELSE purging[n]
  BY DEF apply, StorageInv, NodeInv, NodeOK
<1>6. k <= hi
  <2>1. log[n][k] # NONE
    BY <1>1, <1>2, <1>3, NoneAssumption DEF Position
  <2> QED
    BY <1>3, <1>5, <2>1 DEF Holding
<1>7. lo \in purged[n]..k /\ hi \in k..MaxIndex
  BY <1>2, <1>3, <1>5, <1>6 DEF Position
<1>8. StaleIsLast(log[n], k)
  <2>1. StaleIsLast(log[n], applied[n])
    BY DEF StorageInv, NodeInv, NodeOK
  <2>2. ASSUME NEW i \in Index, log[n][i] = "stale" PROVE i > k
    <3>1. i > applied[n] /\ i \notin (applied[n] + 1)..k
      BY <1>1, <2>1, <2>2 DEF StaleIsLast
    <3> QED
      BY <1>2, <1>3, <3>1 DEF Index, Position
  <2> QED
    BY <2>1, <2>2 DEF StaleIsLast
<1>9. engine[n] <= k /\ (building[n] # NONE => building[n] <= k)
  <2>1. /\ engine[n] <= applied[n] /\ engine[n] \in Position
        /\ building[n] # NONE => building[n] <= applied[n] /\ building[n] \in Position
    BY DEF StorageInv, NodeInv, NodeOK, TypeOK, Position
  <2> QED
    BY <1>2, <1>3, <2>1 DEF Position
<1>10. NodeInv(n)'
  BY <1>4, <1>5, <1>7, <1>8, <1>9 DEF apply, StorageInv, NodeInv, NodeOK, volatile
<1>11. TypeOK'
  BY <1>4 DEF apply, StorageInv, TypeOK, volatile, Position
<1> QED
  BY <1>1, <1>10, <1>11, OneNode DEF apply, volatile, StorageInv, TypeOK

(* A snapshot is built at a position that was applied.                      *)
LEMMA BuildStep ==
    ASSUME StorageInv, NEW n \in Nodes, build_begin(n) \/ build_end(n)
    PROVE  StorageInv'
<1>1. /\ MaxIndex \in Nat /\ applied[n] \in Position /\ engine[n] \in Position
      /\ building[n] \in Position \cup {NONE}
  BY BoundsAssumption, Zenon DEF StorageInv, TypeOK, Position
<1>2. CASE build_begin(n)
  <2>1. TypeOK' /\ building'[n] = applied[n]
    BY <1>1, <1>2, Zenon DEF build_begin, StorageInv, TypeOK, persistent, Position
  <2>2. NodeInv(n)'
    <3>1. applied[n] <= applied[n] /\ status[n] = "up"
      BY <1>1, <1>2 DEF build_begin, Ready, Position
    <3> QED
      BY <1>2, <2>1, <3>1, OfNode, Zenon DEF build_begin, NodeInv, NodeOK, persistent
  <2> QED
    BY <1>2, <2>1, <2>2, OneNode, Zenon DEF build_begin, persistent, StorageInv, TypeOK
<1>3. CASE build_end(n)
  <2>1. TypeOK' /\ building'[n] = NONE /\ engine'[n] = building[n]
    BY <1>1, <1>3, Zenon DEF build_end, StorageInv, TypeOK, Position
  <2>2. NodeInv(n)'
    BY <1>1, <1>3, <2>1 DEF build_end, StorageInv, NodeInv, NodeOK
  <2> QED
    BY <1>3, <2>1, <2>2, OneNode, Zenon DEF build_end, StorageInv, TypeOK
<1> QED
  BY <1>2, <1>3

(* What purge or install_snapshot leaves of a log.                          *)
LEMMA WithoutShape ==
    ASSUME NEW slots \in [Index -> Slot], NEW lo \in Position, NEW hi \in Position,
           NEW k \in Position, NEW a, lo <= k, k <= hi,
           Holding(slots, lo, hi), StaleIsLast(slots, a)
    PROVE  /\ Without(slots, k) \in [Index -> Slot]
           /\ Holding(Without(slots, k), k, hi)
           /\ StaleIsLast(Without(slots, k), a)
<1>1. MaxIndex \in Nat
  BY BoundsAssumption
<1>2. Without(slots, k) \in [Index -> Slot]
  BY DEF Without, Slot
<1>3. \A i \in Index : Without(slots, k)[i] = IF i <= k THEN NONE ELSE slots[i]
  BY DEF Without
<1>4. Holding(Without(slots, k), k, hi)
  BY <1>1, <1>3 DEF Holding, Index, Position
<1>5. StaleIsLast(Without(slots, k), a)
  BY <1>3, NoneAssumption, Zenon DEF StaleIsLast
<1> QED
  BY <1>2, <1>4, <1>5

(* The first half of a purge removes applied entries only.                  *)
LEMMA PurgeEntriesStep ==
    ASSUME StorageInv, NEW n \in Nodes, purge_entries(n) PROVE StorageInv'
<1>1. PICK k \in (purged[n] + 1)..engine[n] :
         /\ log' = [log EXCEPT ![n] = Without(log[n], k)]
         /\ purging' = [purging EXCEPT ![n] = k]
  BY Zenon DEF purge_entries, StorageInv, TypeOK
<1>2. /\ MaxIndex \in Nat /\ applied[n] \in Position /\ purged[n] \in Position
      /\ engine[n] \in Position /\ log[n] \in [Index -> Slot]
      /\ engine[n] <= applied[n] /\ StaleIsLast(log[n], applied[n])
  BY BoundsAssumption, Zenon DEF StorageInv, TypeOK, Position, Slot, NodeInv, NodeOK
<1>3. /\ Last(n) \in applied[n]..MaxIndex /\ Holding(log[n], purged[n], Last(n))
  BY ReadyLog DEF purge_entries
<1>4. /\ k \in Position /\ k \in purged[n]..applied[n] /\ Last(n) \in Position
      /\ purged[n] <= k /\ k <= Last(n)
  BY <1>2, <1>3 DEF Position
<1>5. /\ Without(log[n], k) \in [Index -> Slot]
      /\ Holding(Without(log[n], k), k, Last(n))
      /\ StaleIsLast(Without(log[n], k), applied[n])
  BY <1>2, <1>3, <1>4, WithoutShape, Zenon
<1>6. /\ log' \in [Nodes -> [Index -> Slot]] /\ log'[n] = Without(log[n], k)
      /\ purging' \in [Nodes -> Position \cup {NONE}] /\ purging'[n] = k
  BY <1>1, <1>4, <1>5, Zenon DEF StorageInv, TypeOK, Slot, Position
<1>7. TypeOK'
  BY <1>6, Zenon DEF purge_entries, StorageInv, TypeOK, Slot, Position
<1>8. k # NONE
  BY <1>4, NoneAssumption DEF Position
<1>9. NodeInv(n)'
  <2>1. purged'[n] = purged[n] /\ applied'[n] = applied[n] /\ status'[n] = "up"
    BY Zenon DEF purge_entries, Ready
  <2>2. engine'[n] = engine[n] /\ building'[n] = building[n]
    BY Zenon DEF purge_entries
  <2> QED
    BY <1>2, <1>3, <1>4, <1>5, <1>6, <1>8, <2>1, <2>2, OfNode, Zenon DEF NodeInv, NodeOK
<1> QED
  BY <1>1, <1>7, <1>9, OneNode DEF purge_entries, StorageInv, TypeOK

(* The second half records where the log now starts.                        *)
LEMMA PurgeMarkStep ==
    ASSUME StorageInv, NEW n \in Nodes, purge_mark(n) PROVE StorageInv'
<1>1. /\ MaxIndex \in Nat /\ applied[n] \in Position /\ purged[n] \in Position
      /\ purging[n] \in Position /\ purging[n] # NONE
  BY BoundsAssumption DEF purge_mark, StorageInv, TypeOK, Position
<1>2. TypeOK' /\ purged'[n] = purging[n] /\ purging'[n] = NONE
  BY <1>1, Zenon DEF purge_mark, StorageInv, TypeOK, Position
<1>3. NodeInv(n)'
  <2>1. PICK lo \in purged[n]..applied[n], hi \in applied[n]..MaxIndex :
           Holding(log[n], lo, hi) /\ lo = purging[n]
    BY <1>1 DEF purge_mark, StorageInv, NodeInv, NodeOK
  <2>2. purging[n] \in purging[n]..applied[n]
    BY <1>1, <2>1 DEF Position
  <2> QED
    BY <1>2, <2>1, <2>2, Zenon DEF purge_mark, StorageInv, NodeInv, NodeOK
<1> QED
  BY <1>2, <1>3, OneNode DEF purge_mark, StorageInv, TypeOK

(* A snapshot replaces a log that ends before it.                           *)
LEMMA InstallStep ==
    ASSUME StorageInv, NEW n \in Nodes, NEW m \in Nodes \ {n}, install_snapshot(n, m)
    PROVE  StorageInv'
<1> DEFINE k == applied[m]
<1>1. /\ Ready(n) /\ Last(n) < purged[m] /\ applied[n] < k /\ snapshot[m] # NONE
      /\ data' = [data EXCEPT ![n] = snapshot[m]]
      /\ applied' = [applied EXCEPT ![n] = k]
      /\ purged' = [purged EXCEPT ![n] = k]
      /\ log' = [log EXCEPT ![n] = Without(log[n], k)]
      /\ engine' = [engine EXCEPT ![n] = k]
      /\ budget' = [budget EXCEPT !.installs = budget.installs + 1]
      /\ UNCHANGED <<top, committed, snapshot, building, purging, status>>
  BY DEF install_snapshot, get_current_snapshot, StorageInv, TypeOK
<1>2. /\ MaxIndex \in Nat /\ k \in Position /\ applied[n] \in Position
      /\ purged[n] \in Position /\ purged[m] \in Position
      /\ log[n] \in [Index -> Slot] /\ snapshot[m] \in Counts
      /\ building[n] \in Position \cup {NONE}
  BY <1>1, BoundsAssumption DEF StorageInv, TypeOK, Position, Slot
<1>3. purged[m] <= k
  BY <1>2 DEF StorageInv, NodeInv, NodeOK, Position
<1>4. /\ Last(n) \in applied[n]..MaxIndex /\ Holding(log[n], purged[n], Last(n))
  BY <1>1, ReadyLog
<1> DEFINE w == Without(log[n], k)
<1>5. w \in [Index -> Slot] /\ \A i \in Index : w[i] = NONE
  <2>1. \A i \in Index : i > k => log[n][i] = NONE
    BY <1>1, <1>2, <1>3, <1>4 DEF Holding, Index, Position
  <2>2. \A i \in Index : w[i] = NONE
    BY <1>2, <2>1 DEF Without, Index, Position
  <2> QED
    BY <2>2 DEF Without, Slot
<1>6. Holding(w, k, k) /\ StaleIsLast(w, k)
  BY <1>2, <1>5, NoneAssumption DEF Holding, StaleIsLast, Index, Position
<1>7. /\ log' \in [Nodes -> [Index -> Slot]] /\ log'[n] = w
      /\ applied' \in [Nodes -> Position] /\ applied'[n] = k
      /\ purged' \in [Nodes -> Position] /\ purged'[n] = k
      /\ engine' \in [Nodes -> Position] /\ engine'[n] = k
      /\ data' \in [Nodes -> Counts]
  <2> HIDE DEF w
  <2> QED
    BY <1>1, <1>2, <1>5 DEF StorageInv, TypeOK, Slot, Position, w
<1>8. budget' \in [crashes : Nat, installs : Nat, stale : Nat, resets : SUBSET Nodes]
  <2>1. budget \in [crashes : Nat, installs : Nat, stale : Nat, resets : SUBSET Nodes]
    BY DEF StorageInv, TypeOK
  <2> QED
    BY <1>1, <2>1
<1>9. TypeOK'
  BY <1>1, <1>7, <1>8, Zenon DEF StorageInv, TypeOK, Slot, Position
<1>10. NodeInv(n)'
  <2>1. k \in k..k /\ k \in k..MaxIndex /\ k <= k
    BY <1>2 DEF Position
  <2>2. building[n] # NONE => building[n] <= k
    BY <1>1, <1>2 DEF StorageInv, NodeInv, NodeOK, Position
  <2>3. status'[n] = "up" /\ purging'[n] = NONE /\ building'[n] = building[n]
    BY <1>1 DEF Ready
  <2> HIDE DEF k, w
  <2> QED
    BY <1>6, <1>7, <2>1, <2>2, <2>3 DEF NodeInv, NodeOK
<1> QED
  BY <1>1, <1>9, <1>10, OneNode, Zenon DEF StorageInv, TypeOK

(* A crash loses only what is volatile.                                     *)
LEMMA CrashStep ==
    ASSUME StorageInv, NEW n \in Nodes, crash(n) PROVE StorageInv'
<1>1. budget' \in [crashes : Nat, installs : Nat, stale : Nat, resets : SUBSET Nodes]
  <2>1. /\ budget \in [crashes : Nat, installs : Nat, stale : Nat, resets : SUBSET Nodes]
        /\ budget' = [budget EXCEPT !.crashes = budget.crashes + 1]
    BY DEF crash, StorageInv, TypeOK
  <2> QED
    BY <2>1
<1>2. /\ engine' \in [Nodes -> Position] /\ engine'[n] = 0
      /\ building' \in [Nodes -> Position \cup {NONE}] /\ building'[n] = NONE
      /\ purging' \in [Nodes -> Position \cup {NONE}] /\ purging'[n] = NONE
      /\ status' \in [Nodes -> Status] /\ status'[n] = "down"
  BY BoundsAssumption DEF crash, StorageInv, TypeOK, Position, Status
<1>3. TypeOK'
  BY <1>1, <1>2, Zenon DEF crash, StorageInv, TypeOK, persistent, Position, Status
<1>4. NodeInv(n)'
  BY <1>2, OfNode, Crashed, Zenon DEF crash, NodeInv, persistent
<1> QED
  BY <1>2, <1>3, <1>4, OneNode, Zenon DEF crash, persistent, StorageInv, TypeOK

(* normalize_raft_log keeps what was not applied, and it is without a gap.  *)
LEMMA NormalizeLogStep ==
    ASSUME StorageInv, NEW n \in Nodes, normalize_log(n) PROVE StorageInv'
<1>1. /\ MaxIndex \in Nat /\ applied[n] \in Position /\ purged[n] \in Position
      /\ log[n] \in [Index -> Slot] /\ StaleIsLast(log[n], applied[n])
  BY BoundsAssumption, OfNode, Ends, Zenon
<1>2. PICK lo \in Position, hi \in Position :
         /\ purged[n] <= lo /\ lo <= applied[n] /\ applied[n] <= hi
         /\ Holding(log[n], lo, hi)
  BY OfNode, Ends, Zenon
<1>4. Floor(n) = applied[n]
  BY <1>1, <1>2 DEF Floor, Position
<1>5. \A i \in Index : i \in Contiguous(n) <=> applied[n] < i /\ i <= hi
  BY <1>1, <1>2, <1>4 DEF Contiguous, Stored, Holding, Index, Position
<1> DEFINE w == [i \in Index |-> IF i \in Contiguous(n) THEN log[n][i] ELSE NONE]
<1>6. w \in [Index -> Slot] /\ log' = [log EXCEPT ![n] = w]
  BY <1>1, Zenon DEF normalize_log, StorageInv, TypeOK, Slot
<1>7. Holding(w, applied[n], hi) /\ StaleIsLast(w, applied[n])
  <2>1. Holding(w, applied[n], hi)
    BY <1>2, <1>1, <1>5 DEF Holding, Index, Position
  <2>2. StaleIsLast(w, applied[n])
    BY <1>1, NoneAssumption, Zenon DEF StaleIsLast
  <2> QED
    BY <2>1, <2>2
<1> HIDE DEF w
<1>8. TypeOK' /\ log'[n] = w /\ status'[n] = "normalizing"
  BY <1>6 DEF normalize_log, StorageInv, TypeOK, volatile, Slot
<1>9. NodeInv(n)'
  <2>1. NodeOK(w, applied[n], purged[n], engine[n], building[n], purging[n], "normalizing")
    BY <1>1, <1>2, <1>7, OfNode, CutDown, Zenon DEF normalize_log
  <2> QED
    BY <1>8, <2>1, Zenon DEF normalize_log, NodeInv, volatile
<1> QED
  BY <1>6, <1>8, <1>9, OneNode, Zenon DEF normalize_log, volatile, StorageInv, TypeOK

(* META_PURGED then says so.                                                *)
LEMMA NormalizePurgedStep ==
    ASSUME StorageInv, NEW n \in Nodes, normalize_purged(n) PROVE StorageInv'
<1>1. /\ applied[n] \in Position /\ purged[n] \in Position
      /\ snapshot[n] \in Counts \cup {NONE} /\ data[n] \in Counts
      /\ status[n] = "normalizing"
  BY OfNode, Zenon DEF normalize_purged, StorageInv, TypeOK
<1>2. NodeOK(log[n], applied[n], purged[n], engine[n], building[n], purging[n],
             "normalizing")
  BY <1>1, OfNode, Zenon
<1>3. (IF purged[n] < applied[n] THEN applied[n] ELSE purged[n]) = applied[n]
  <2>1. PICK lo \in Position : purged[n] <= lo /\ lo <= applied[n]
    BY <1>1, <1>2, Ends, Zenon
  <2> QED
    BY <1>1, <2>1, BoundsAssumption DEF Position
<1>4. PICK s \in Counts \cup {NONE} :
         /\ purged' = [purged EXCEPT ![n] = applied[n]]
         /\ snapshot' = [snapshot EXCEPT ![n] = s]
         /\ engine' = [engine EXCEPT ![n] = IF s = NONE THEN 0 ELSE applied[n]]
  BY <1>1, <1>3, Zenon DEF normalize_purged
<1> DEFINE e == IF s = NONE THEN 0 ELSE applied[n]
<1>5. e \in Position /\ e <= applied[n]
  BY <1>1, BoundsAssumption DEF Position
<1>6. TypeOK'
  <2>1. purged' \in [Nodes -> Position]
    BY <1>1, <1>4, Zenon DEF StorageInv, TypeOK, Position
  <2>2. snapshot' \in [Nodes -> Counts \cup {NONE}]
    BY <1>4, Zenon DEF StorageInv, TypeOK
  <2>3. engine' \in [Nodes -> Position]
    BY <1>4, <1>5, Zenon DEF StorageInv, TypeOK, Position
  <2>4. status' \in [Nodes -> {"up", "down", "normalizing"}]
    BY Zenon DEF normalize_purged, StorageInv, TypeOK
  <2> QED
    BY <2>1, <2>2, <2>3, <2>4, Zenon DEF normalize_purged, StorageInv, TypeOK, Position
<1>7. /\ purged'[n] = applied[n] /\ engine'[n] = e /\ status'[n] = "up"
      /\ log'[n] = log[n] /\ applied'[n] = applied[n] /\ building'[n] = building[n]
      /\ purging'[n] = purging[n]
  BY <1>4, Zenon DEF normalize_purged, StorageInv, TypeOK
<1> HIDE DEF e
<1>8. NodeOK(log[n], applied[n], applied[n], e, building[n], purging[n], "up")
  BY <1>1, <1>2, <1>5, Normalized, Zenon
<1>9. NodeInv(n)'
  BY <1>7, <1>8, Zenon DEF NodeInv
<1> QED
  BY <1>4, <1>6, <1>9, OneNode, Zenon DEF normalize_purged, StorageInv, TypeOK

(* A node that discards its log and metadata starts from nothing.           *)
LEMMA ResetStep ==
    ASSUME StorageInv, NEW n \in Nodes, reset_raft_state(n) PROVE StorageInv'
<1>1. /\ MaxIndex \in Nat /\ committed \in Position
  BY BoundsAssumption DEF StorageInv, TypeOK, Position
<1>2. top' \in Position /\ committed <= top'
  <2> DEFINE S == {committed} \cup UNION {Stored(m) : m \in Nodes \ {n}}
  <2>1. S \subseteq 0..MaxIndex /\ committed \in S
    <3>1. \A m \in Nodes \ {n} : Stored(m) \subseteq 0..MaxIndex
      BY <1>1 DEF Stored, Index
    <3> QED
      BY <1>1, <3>1 DEF Position
  <2>2. Max(S) \in S /\ committed <= Max(S)
    BY <1>1, <2>1, MaxIsLargest, Zenon
  <2> QED
    BY <2>1, <2>2 DEF reset_raft_state, Position
<1>3. budget' \in [crashes : Nat, installs : Nat, stale : Nat, resets : SUBSET Nodes]
  <2>1. /\ budget \in [crashes : Nat, installs : Nat, stale : Nat, resets : SUBSET Nodes]
        /\ budget' = [budget EXCEPT !.resets = budget.resets \cup {n}]
    BY DEF reset_raft_state, StorageInv, TypeOK
  <2> QED
    BY <2>1
<1> DEFINE w == [i \in Index |-> NONE]
<1>4. /\ log' = [log EXCEPT ![n] = w] /\ w \in [Index -> Slot]
      /\ \A i \in Index : w[i] = NONE
  BY DEF reset_raft_state, Slot
<1> HIDE DEF w
<1>5. /\ TypeOK' /\ log'[n] = w /\ applied'[n] = 0 /\ purged'[n] = 0
      /\ status'[n] = "up"
  BY <1>1, <1>2, <1>3, <1>4
     DEF reset_raft_state, StorageInv, TypeOK, volatile, Slot, Position
<1>6. Holding(w, 0, 0) /\ StaleIsLast(w, 0)
  BY <1>4, NoneAssumption DEF Holding, StaleIsLast, Index
<1>7. engine'[n] = 0 /\ building'[n] = NONE /\ purging'[n] = NONE
  BY Zenon DEF reset_raft_state, volatile, StorageInv, NodeInv, NodeOK
<1>8. NodeInv(n)'
  <2>1. 0 \in 0..0 /\ 0 \in 0..MaxIndex
    BY <1>1
  <2> QED
    BY <1>5, <1>6, <1>7, <2>1 DEF NodeInv, NodeOK
<1> QED
  BY <1>4, <1>5, <1>8, OneNode, Zenon DEF reset_raft_state, volatile, StorageInv, TypeOK

---------------------------------------------------------------------------
(* The log *)

(* Nothing is stored on a node that never ran.                              *)
LEMMA StorageInit == Init => StorageInv
<1> SUFFICES ASSUME Init PROVE StorageInv
  OBVIOUS
<1>1. MaxIndex \in Nat
  BY BoundsAssumption
<1>2. TypeOK
  <2>1. 0 \in 0..MaxIndex /\ 0 \in 0..0 /\ [i \in Index |-> 0] \in Counts
    BY <1>1 DEF Counts
  <2>2. budget \in [crashes : Nat, installs : Nat, stale : Nat, resets : SUBSET Nodes]
    BY DEF Init
  <2> QED
    BY <2>1, <2>2, Zenon DEF Init, TypeOK
<1>3. ASSUME NEW n \in Nodes PROVE NodeInv(n)
  <2>1. /\ \A i \in Index : log[n][i] = NONE
        /\ applied[n] = 0 /\ purged[n] = 0 /\ engine[n] = 0
        /\ building[n] = NONE /\ purging[n] = NONE /\ status[n] = "up"
    BY DEF Init
  <2>2. Holding(log[n], 0, 0) /\ StaleIsLast(log[n], 0)
    BY <2>1, NoneAssumption DEF Holding, StaleIsLast, Index
  <2>3. 0 \in 0..0 /\ 0 \in 0..MaxIndex
    BY <1>1
  <2> QED
    BY <2>1, <2>2, <2>3 DEF NodeInv, NodeOK
<1> QED
  BY <1>2, <1>3 DEF StorageInv

(* A commit leaves every node's storage alone.                              *)
LEMMA CommitStep ==
    ASSUME StorageInv, commit PROVE StorageInv'
<1>1. TypeOK'
  BY DEF commit, StorageInv, TypeOK, persistent, volatile
<1>2. ASSUME NEW n \in Nodes PROVE NodeInv(n)'
  BY Zenon DEF commit, StorageInv, NodeInv, persistent, volatile
<1> QED
  BY <1>1, <1>2, Zenon DEF StorageInv

(* Every step keeps the inductive invariant.                                *)
LEMMA StorageStep == StorageInv /\ [Next]_vars => StorageInv'
<1> SUFFICES ASSUME StorageInv, [Next]_vars PROVE StorageInv'
  OBVIOUS
<1>1. ASSUME NEW n \in Nodes, Step(n) PROVE StorageInv'
  BY <1>1, ProposeStep, AppendStaleStep, AppendStep, TruncateStep, ApplyStep,
     BuildStep, PurgeEntriesStep, PurgeMarkStep, InstallStep, CrashStep,
     NormalizeLogStep, NormalizePurgedStep, ResetStep DEF Step
<1>2. CASE UNCHANGED vars
  <2>1. TypeOK'
    BY <1>2 DEF StorageInv, TypeOK, vars, persistent, volatile
  <2>2. ASSUME NEW n \in Nodes PROVE NodeInv(n)'
    BY <1>2, Zenon DEF StorageInv, NodeInv, vars, persistent, volatile
  <2> QED
    BY <2>1, <2>2, Zenon DEF StorageInv
<1> QED
  BY <1>1, <1>2, CommitStep DEF Next

(* The inductive invariant of the stored log holds always.                  *)
THEOREM StorageInvariance == Spec => []StorageInv
BY StorageInit, StorageStep, PTL DEF Spec

(* What raft/store.rs stores keeps its shape.                               *)
THEOREM TypeCorrect == Spec => []TypeOK
<1>1. StorageInv => TypeOK
  BY DEF StorageInv
<1> QED
  BY <1>1, StorageInvariance, PTL

(* The log openraft is given starts right after META_PURGED and has no gap, *)
(* for any crash between the transactions of a purge or of                  *)
(* normalize_raft_log.                                                      *)
THEOREM LogIsContiguousAlways == Spec => []LogIsContiguous
<1>1. StorageInv => LogIsContiguous
  BY ReadyLog DEF LogIsContiguous
<1> QED
  BY <1>1, StorageInvariance, PTL

(* No entry leaves a log before it is applied, by purge, normalize_raft_log *)
(* or install_snapshot.                                                     *)
THEOREM UnappliedIsKeptAlways == Spec => []UnappliedIsKept
<1>1. StorageInv => UnappliedIsKept
  <2> SUFFICES ASSUME StorageInv, NEW n \in Nodes
               PROVE  /\ purged[n] <= applied[n]
                      /\ purging[n] # NONE => purging[n] <= applied[n]
    BY Zenon DEF UnappliedIsKept
  <2>1. PICK lo \in purged[n]..applied[n] :
           status[n] = "up" => lo = IF purging[n] = NONE THEN purged[n] ELSE purging[n]
    BY DEF StorageInv, NodeInv, NodeOK
  <2>2. purging[n] # NONE => status[n] = "up"
    BY DEF StorageInv, NodeInv, NodeOK
  <2>3. purged[n] \in Nat /\ applied[n] \in Nat
    <3>1. purged[n] \in Position /\ applied[n] \in Position
      BY OfNode, Zenon
    <3> QED
      BY <3>1 DEF Position
  <2> QED
    BY <2>1, <2>2, <2>3
<1> QED
  BY <1>1, StorageInvariance, PTL

---------------------------------------------------------------------------
(* The tables *)

(* The tables in which the first k entries have taken effect once.          *)
Effects(k) == [i \in Index |-> IF i <= k THEN 1 ELSE 0]

(* A transferred snapshot holds the tables its label says.  The run         *)
(* RaftStaleSnapshot shows what happens otherwise: get_current_snapshot     *)
(* labels stored bytes with the last_applied of the moment.                 *)
TransferIsFresh ==
    \A n, m \in Nodes : install_snapshot(n, m) => snapshot[m] = Effects(applied[m])

(* Moreover it does not fall behind the tables a node kept when it          *)
(* discarded its log.                                                       *)
TransferIsForward ==
    \A n, m \in Nodes : install_snapshot(n, m) =>
        \A i \in Index : data[n][i] > 0 => i <= applied[m]

(* The tables of a node are those of META_APPLIED, or, if it discarded its  *)
(* log, those of some later moment with some entries applied again.         *)
TablesOf(n) ==
    IF n \in budget.resets
    THEN \E k \in applied[n]..committed : \A i \in Index : data[n][i] > 0 <=> i <= k
    ELSE data[n] = Effects(applied[n])

TablesInv == \A n \in Nodes : applied[n] <= committed /\ TablesOf(n)

(* Only apply, install_snapshot and reset_raft_state touch META_APPLIED or  *)
(* the tables, or make a node one that discarded its log.                   *)
LEMMA TablesMove ==
    ASSUME StorageInv, [Next]_vars
    PROVE  \/ /\ UNCHANGED <<applied, data>>
              /\ budget'.resets = budget.resets
              /\ committed' \in committed..(committed + 1)
              /\ committed' = committed \/ commit
           \/ \E n \in Nodes : \/ apply(n)
                               \/ reset_raft_state(n)
                               \/ \E m \in Nodes \ {n} : install_snapshot(n, m)
<1> DEFINE quiet == /\ UNCHANGED <<applied, data, committed>>
                    /\ budget'.resets = budget.resets
<1>1. committed \in Nat
  BY BoundsAssumption DEF StorageInv, TypeOK
<1>2. budget \in [crashes : Nat, installs : Nat, stale : Nat, resets : SUBSET Nodes]
  BY DEF StorageInv, TypeOK
<1>3. CASE UNCHANGED vars
  BY <1>1, <1>3 DEF vars, persistent
<1>4. CASE commit
  BY <1>1, <1>4 DEF commit, persistent
<1>5. ASSUME NEW n \in Nodes, append_stale(n) \/ crash(n) PROVE quiet
  <2>1. \/ budget' = [budget EXCEPT !.stale = budget.stale + 1]
        \/ budget' = [budget EXCEPT !.crashes = budget.crashes + 1]
    BY <1>5 DEF append_stale, crash
  <2>2. budget'.resets = budget.resets
    BY <1>2, <2>1, Zenon
  <2> QED
    BY <1>5, <2>2 DEF append_stale, crash, persistent
<1>6. ASSUME NEW n \in Nodes,
             \/ propose(n) \/ append(n) \/ truncate(n) \/ build_begin(n)
             \/ build_end(n) \/ purge_entries(n) \/ purge_mark(n)
             \/ normalize_log(n) \/ normalize_purged(n)
      PROVE  quiet
  BY <1>6 DEF propose, append, truncate, build_begin, build_end, purge_entries,
              purge_mark, normalize_log, normalize_purged, persistent
<1>7. quiet => /\ UNCHANGED <<applied, data>>
               /\ budget'.resets = budget.resets
               /\ committed' \in committed..(committed + 1)
               /\ committed' = committed
  BY <1>1
<1> HIDE DEF quiet
<1> QED
  BY <1>3, <1>4, <1>5, <1>6, <1>7, Zenon DEF Next, Step

(* A batch of entries takes effect in order.                                *)
LEMMA ApplyTables ==
    ASSUME StorageInv, TablesInv, NEW n \in Nodes, apply(n)
    PROVE  /\ TablesInv'
           /\ \A i \in Index : data[n][i] > 0 => data'[n][i] > 0
<1>1. PICK k \in (applied[n] + 1)..committed :
         /\ applied' = [applied EXCEPT ![n] = k]
         /\ data' = [data EXCEPT ![n] = [i \in Index |->
                        IF i > applied[n] /\ i <= k THEN data[n][i] + 1 ELSE data[n][i]]]
  BY Zenon DEF apply, StorageInv, TypeOK
<1>2. /\ MaxIndex \in Nat /\ applied[n] \in Position /\ committed \in Position
      /\ data[n] \in Counts /\ k \in Position /\ k > applied[n] /\ k <= committed
  BY <1>1, BoundsAssumption DEF StorageInv, TypeOK, Position
<1>3. /\ applied'[n] = k
      /\ data'[n] = [i \in Index |-> IF i > applied[n] /\ i <= k
                                     THEN data[n][i] + 1 ELSE data[n][i]]
      /\ \A x \in Nodes \ {n} : applied'[x] = applied[x] /\ data'[x] = data[x]
  BY <1>1, Zenon DEF StorageInv, TypeOK
<1>4. budget' = budget /\ committed' = committed
  BY DEF apply
<1>5. \A i \in Index : data[n][i] \in Nat
  BY <1>2, Zenon DEF Counts
<1>6. ASSUME n \in budget.resets PROVE TablesOf(n)'
  <2>1. PICK h \in applied[n]..committed : \A i \in Index : data[n][i] > 0 <=> i <= h
    BY <1>6 DEF TablesInv, TablesOf
  <2> DEFINE top2 == IF h < k THEN k ELSE h
  <2>2. top2 \in k..committed /\ h \in Position
    BY <1>2, <2>1 DEF Position
  <2>3. ASSUME NEW i \in Index PROVE data'[n][i] > 0 <=> i <= top2
    <3>1. data'[n][i] = IF i > applied[n] /\ i <= k THEN data[n][i] + 1 ELSE data[n][i]
      BY <1>3, Zenon
    <3>2. i \in Nat /\ h \in Nat /\ k \in Nat /\ applied[n] \in Nat /\ applied[n] <= h
      BY <1>2, <2>1, <2>2 DEF Index, Position
    <3> QED
      BY <1>5, <2>1, <3>1, <3>2
  <2> HIDE DEF top2
  <2> QED
    BY <1>3, <1>4, <1>6, <2>2, <2>3, Zenon DEF TablesOf
<1>7. ASSUME n \notin budget.resets PROVE TablesOf(n)'
  <2>1. data[n] = Effects(applied[n])
    BY <1>7 DEF TablesInv, TablesOf
  <2>2. data'[n] = Effects(k)
    BY <1>2, <1>3, <2>1 DEF Effects, Index, Position
  <2> QED
    BY <1>3, <1>4, <1>7, <2>2 DEF TablesOf
<1>8. TablesOf(n)' /\ applied'[n] <= committed'
  BY <1>2, <1>3, <1>4, <1>6, <1>7, Zenon
<1>9. \A x \in Nodes \ {n} : TablesOf(x)' /\ applied'[x] <= committed'
  BY <1>3, <1>4 DEF TablesInv, TablesOf
<1>10. \A i \in Index : data[n][i] > 0 => data'[n][i] > 0
  BY <1>3, <1>5
<1> QED
  BY <1>8, <1>9, <1>10 DEF TablesInv

(* A fresh snapshot brings the tables of a position the sender reached.     *)
LEMMA InstallTables ==
    ASSUME StorageInv, TablesInv, NEW n \in Nodes, NEW m \in Nodes \ {n},
           install_snapshot(n, m), TransferIsFresh
    PROVE  /\ TablesInv'
           /\ n \notin budget.resets =>
                 \A i \in Index : data[n][i] > 0 => data'[n][i] > 0
<1>1. /\ applied[n] < applied[m]
      /\ data' = [data EXCEPT ![n] = snapshot[m]]
      /\ applied' = [applied EXCEPT ![n] = applied[m]]
      /\ budget' = [budget EXCEPT !.installs = budget.installs + 1]
      /\ committed' = committed
  BY DEF install_snapshot, get_current_snapshot
<1>2. snapshot[m] = Effects(applied[m])
  BY DEF TransferIsFresh
<1>3. /\ applied'[n] = applied[m]
      /\ data'[n] = Effects(applied[m])
      /\ \A x \in Nodes \ {n} : applied'[x] = applied[x] /\ data'[x] = data[x]
  BY <1>1, <1>2 DEF StorageInv, TypeOK
<1>4. budget'.resets = budget.resets
  <2>1. budget \in [crashes : Nat, installs : Nat, stale : Nat, resets : SUBSET Nodes]
    BY DEF StorageInv, TypeOK
  <2> QED
    BY <1>1, <2>1, Zenon
<1>5. applied[m] \in Position /\ applied[n] \in Position /\ committed \in Nat
      /\ MaxIndex \in Nat
  BY BoundsAssumption DEF StorageInv, TypeOK, Position
<1>6. applied[m] <= committed
  BY DEF TablesInv
<1>7. applied[m] \in applied[m]..committed
  BY <1>5, <1>6 DEF Position
<1>8. \A i \in Index : data'[n][i] > 0 <=> i <= applied[m]
  BY <1>3, <1>5 DEF Effects, Index, Position
<1>9. TablesOf(n)' /\ applied'[n] <= committed'
  BY <1>1, <1>3, <1>6, <1>7, <1>8 DEF TablesOf
<1>10. \A x \in Nodes \ {n} : TablesOf(x)' /\ applied'[x] <= committed'
  BY <1>1, <1>3, <1>4 DEF TablesInv, TablesOf
<1>11. TablesInv'
  BY <1>9, <1>10 DEF TablesInv
<1>12. ASSUME n \notin budget.resets, NEW i \in Index, data[n][i] > 0
       PROVE  data'[n][i] > 0
  <2>1. data[n] = Effects(applied[n])
    BY <1>12 DEF TablesInv, TablesOf
  <2>2. i <= applied[n]
    BY <1>12, <2>1 DEF Effects
  <2>3. i <= applied[m]
    BY <1>1, <1>5, <2>2 DEF Index, Position
  <2> QED
    BY <1>8, <2>3
<1> QED
  BY <1>11, <1>12

(* A node that discards its log keeps its tables.                           *)
LEMMA ResetTables ==
    ASSUME StorageInv, TablesInv, NEW n \in Nodes, reset_raft_state(n)
    PROVE  TablesInv'
<1>1. /\ applied' = [applied EXCEPT ![n] = 0]
      /\ data' = data /\ committed' = committed
      /\ budget' = [budget EXCEPT !.resets = budget.resets \cup {n}]
      /\ n \notin budget.resets
  BY DEF reset_raft_state
<1>2. applied'[n] = 0 /\ \A x \in Nodes \ {n} : applied'[x] = applied[x]
  BY <1>1 DEF StorageInv, TypeOK
<1>3. budget'.resets = budget.resets \cup {n}
  <2>1. budget \in [crashes : Nat, installs : Nat, stale : Nat, resets : SUBSET Nodes]
    BY DEF StorageInv, TypeOK
  <2> QED
    BY <1>1, <2>1
<1>4. /\ applied[n] \in Position /\ committed \in Nat /\ MaxIndex \in Nat
      /\ applied[n] <= committed /\ data[n] = Effects(applied[n])
  BY <1>1, BoundsAssumption DEF StorageInv, TypeOK, Position, TablesInv, TablesOf
<1>5. applied[n] \in 0..committed /\ \A i \in Index : data[n][i] > 0 <=> i <= applied[n]
  BY <1>4 DEF Effects, Index, Position
<1>6. TablesOf(n)' /\ applied'[n] <= committed'
  BY <1>1, <1>2, <1>3, <1>4, <1>5 DEF TablesOf
<1>7. \A x \in Nodes \ {n} : TablesOf(x)' /\ applied'[x] <= committed'
  BY <1>1, <1>2, <1>3 DEF TablesInv, TablesOf
<1> QED
  BY <1>6, <1>7 DEF TablesInv

(* The tables begin empty.                                                  *)
LEMMA TablesInit == Init => TablesInv
<1> SUFFICES ASSUME Init, NEW n \in Nodes PROVE applied[n] <= committed /\ TablesOf(n)
  BY DEF TablesInv
<1>1. applied[n] = 0 /\ committed = 0 /\ n \notin budget.resets
  BY DEF Init
<1>2. data[n] = Effects(0)
  BY BoundsAssumption DEF Init, Effects, Index
<1> QED
  BY <1>1, <1>2 DEF TablesOf

(* Every step keeps the tables in line with META_APPLIED.                   *)
LEMMA TablesStep ==
    StorageInv /\ TablesInv /\ [Next]_vars /\ [TransferIsFresh]_vars => TablesInv'
<1> SUFFICES ASSUME StorageInv, TablesInv, [Next]_vars, [TransferIsFresh]_vars
             PROVE  TablesInv'
  OBVIOUS
<1>1. CASE /\ UNCHANGED <<applied, data>>
           /\ budget'.resets = budget.resets
           /\ committed' \in committed..(committed + 1)
  <2>1. committed \in Nat /\ \A n \in Nodes : applied[n] \in Nat
    BY BoundsAssumption DEF StorageInv, TypeOK
  <2>2. ASSUME NEW n \in Nodes PROVE applied'[n] <= committed' /\ TablesOf(n)'
    <3>1. \A k \in applied[n]..committed : k \in applied[n]..committed'
      BY <1>1, <2>1
    <3>2. applied[n] <= committed'
      BY <1>1, <2>1 DEF TablesInv
    <3>3. TablesOf(n)
      BY DEF TablesInv
    <3> QED
      BY <1>1, <3>1, <3>2, <3>3 DEF TablesOf
  <2> QED
    BY <2>2 DEF TablesInv
<1>2. ASSUME NEW n \in Nodes, NEW m \in Nodes \ {n}, install_snapshot(n, m)
      PROVE  TablesInv'
  <2>1. TransferIsFresh
    <3>1. applied' # applied
      BY <1>2 DEF install_snapshot, get_current_snapshot, StorageInv, TypeOK
    <3> QED
      BY <3>1 DEF vars, persistent
  <2> QED
    BY <1>2, <2>1, InstallTables
<1> QED
  BY <1>1, <1>2, TablesMove, ApplyTables, ResetTables

(* As long as every transfer is fresh, the tables of a node that kept its   *)
(* log are exactly the effect of the entries up to META_APPLIED.            *)
THEOREM TablesInvariance ==
    Spec /\ [][TransferIsFresh]_vars => [](StorageInv /\ TablesInv)
BY StorageInit, StorageStep, TablesInit, TablesStep, PTL DEF Spec

---------------------------------------------------------------------------
(* Durability *)

(* A node accounts for entry i, as CommittedIsDurable counts it.            *)
HasEntry(n, i) == log[n][i] = "good" \/ data[n][i] > 0 \/ n \in budget.resets

(* What META_APPLIED covers has taken effect.                               *)
LEMMA AppliedTook ==
    ASSUME StorageInv, TablesInv, NEW n \in Nodes, NEW i \in Index, i <= applied[n]
    PROVE  data[n][i] > 0
<1>1. applied[n] \in Nat /\ committed \in Nat /\ i \in Nat
  BY BoundsAssumption DEF StorageInv, TypeOK, Index
<1>2. CASE n \in budget.resets
  <2>1. PICK k \in applied[n]..committed : \A j \in Index : data[n][j] > 0 <=> j <= k
    BY <1>2 DEF TablesInv, TablesOf
  <2>2. i <= k
    BY <1>1, <2>1
  <2> QED
    BY <2>1, <2>2
<1>3. CASE n \notin budget.resets
  <2>1. data[n] = Effects(applied[n])
    BY <1>3 DEF TablesInv, TablesOf
  <2> QED
    BY <2>1 DEF Effects
<1> QED
  BY <1>2, <1>3

(* truncate, purge and normalize_raft_log remove an entry of the agreed     *)
(* sequence from a log only once it has taken effect.                       *)
LEMMA RemovedIsApplied ==
    ASSUME StorageInv, NEW n \in Nodes,
           \/ propose(n) \/ append_stale(n) \/ append(n) \/ truncate(n)
           \/ purge_entries(n) \/ normalize_log(n),
           NEW i \in Index, log[n][i] = "good"
    PROVE  log'[n][i] = "good" \/ i <= applied[n]
<1>1. /\ log[n] \in [Index -> Slot] /\ log \in [Nodes -> [Index -> Slot]]
      /\ MaxIndex \in Nat /\ applied[n] \in Position /\ purged[n] \in Position
      /\ top \in Position /\ engine[n] \in Position
  BY BoundsAssumption DEF StorageInv, TypeOK, Slot, Position
<1>2. "good" # NONE /\ "stale" # NONE
  BY NoneAssumption, Zenon
<1>3. CASE propose(n) \/ append_stale(n) \/ append(n)
  <2>1. Last(n) \in applied[n]..MaxIndex /\ Holding(log[n], purged[n], Last(n))
    BY <1>3, ReadyLog DEF propose, append_stale, append
  <2>2. \E e \in Slot : log' = [log EXCEPT ![n][Last(n) + 1] = e]
    BY <1>3 DEF propose, append_stale, append, Write, Slot
  <2>3. i <= Last(n)
    BY <1>2, <2>1 DEF Holding
  <2>4. i # Last(n) + 1
    BY <1>1, <2>1, <2>3 DEF Position, Index
  <2> QED
    BY <1>1, <2>2, <2>4
<1>4. CASE truncate(n)
  <2>1. PICK s \in Index :
           /\ log[n][s] = "stale"
           /\ log' = [log EXCEPT ![n] = [j \in Index |->
                         IF j >= s THEN NONE ELSE log[n][j]]]
    BY <1>1, <1>4, Zenon DEF truncate, Stored
  <2>2. StaleIsLast(log[n], applied[n])
    BY DEF StorageInv, NodeInv, NodeOK
  <2>3. ~(i >= s)
    BY <2>1, <2>2 DEF StaleIsLast, Index
  <2>4. log'[n] = [j \in Index |-> IF j >= s THEN NONE ELSE log[n][j]]
    BY <1>1, <2>1, Zenon
  <2> QED
    BY <2>3, <2>4
<1>5. CASE purge_entries(n)
  <2>1. PICK k \in (purged[n] + 1)..engine[n] : log' = [log EXCEPT ![n] = Without(log[n], k)]
    BY <1>1, <1>5, Zenon DEF purge_entries
  <2>2. engine[n] <= applied[n]
    BY Zenon DEF StorageInv, NodeInv, NodeOK
  <2>3. log'[n] = Without(log[n], k) /\ k <= applied[n] /\ k \in Nat
    <3>1. log'[n] = Without(log[n], k)
      BY <1>1, <2>1, Zenon
    <3>2. k <= applied[n] /\ k \in Nat
      <4>1. purged[n] \in Nat /\ engine[n] \in Nat /\ applied[n] \in Nat
        BY <1>1 DEF Position
      <4> QED
        BY <2>1, <2>2, <4>1
    <3> QED
      BY <3>1, <3>2, Zenon
  <2>4. log'[n][i] = "good" \/ i <= k
    BY <2>3, Zenon DEF Without
  <2> QED
    BY <1>1, <2>3, <2>4 DEF Index, Position
<1>6. CASE normalize_log(n)
  <2>1. log'[n] = [j \in Index |-> IF j \in Contiguous(n) THEN log[n][j] ELSE NONE]
    BY <1>1, <1>6, Zenon DEF normalize_log
  <2>2. PICK lo \in purged[n]..applied[n], hi \in applied[n]..MaxIndex : Holding(log[n], lo, hi)
    BY Zenon DEF StorageInv, NodeInv, NodeOK
  <2>3. lo \in Position /\ hi \in Position /\ lo <= applied[n] /\ purged[n] <= lo
    BY <1>1, <2>2 DEF Position
  <2>4. Floor(n) = applied[n]
    BY <1>1, <2>3 DEF Floor, Position
  <2>5. ASSUME i > applied[n] PROVE i \in Contiguous(n)
    <3>1. i <= hi
      BY <1>2, <2>2, Zenon DEF Holding
    <3>2. ASSUME NEW j \in (applied[n] + 1)..i PROVE j \in Stored(n)
      <4>1. j \in Index /\ lo < j /\ j <= hi
        BY <1>1, <2>3, <3>1 DEF Index, Position
      <4> QED
        BY <2>2, <4>1 DEF Stored, Holding
    <3>3. i \in Stored(n)
      BY <1>2, Zenon DEF Stored
    <3> QED
      BY <2>4, <2>5, <3>2, <3>3 DEF Contiguous
  <2>6. i > applied[n] \/ i <= applied[n]
    BY <1>1 DEF Index, Position
  <2>7. i \in Contiguous(n) => log'[n][i] = "good"
    BY <2>1, Zenon
  <2> QED
    BY <2>5, <2>6, <2>7, Zenon
<1> QED
  BY <1>3, <1>4, <1>5, <1>6, Zenon

(* An entry a node accounts for, it accounts for after any step of any      *)
(* node.                                                                    *)
LEMMA EntryStays ==
    ASSUME StorageInv, TablesInv, [Next]_vars, [TransferIsFresh]_vars,
           NEW x \in Nodes, NEW i \in Index, HasEntry(x, i)
    PROVE  HasEntry(x, i)'
<1>1. /\ log \in [Nodes -> [Index -> Slot]] /\ data \in [Nodes -> Counts]
      /\ budget \in [crashes : Nat, installs : Nat, stale : Nat, resets : SUBSET Nodes]
  BY DEF StorageInv, TypeOK, Slot
<1>2. ASSUME NEW n \in Nodes, apply(n) PROVE HasEntry(x, i)'
  <2>1. \A j \in Index : data[n][j] > 0 => data'[n][j] > 0
    BY <1>2, ApplyTables
  <2>2. log' = log /\ budget' = budget /\ \A y \in Nodes \ {n} : data'[y] = data[y]
    BY <1>1, <1>2 DEF apply
  <2> QED
    BY <2>1, <2>2 DEF HasEntry
<1>3. ASSUME NEW n \in Nodes, reset_raft_state(n) PROVE HasEntry(x, i)'
  <2>1. budget' = [budget EXCEPT !.resets = budget.resets \cup {n}]
    BY <1>3 DEF reset_raft_state
  <2>2. budget'.resets = budget.resets \cup {n}
    BY <1>1, <2>1
  <2>3. data' = data /\ \A y \in Nodes \ {n} : log'[y] = log[y]
    BY <1>1, <1>3, Zenon DEF reset_raft_state
  <2> QED
    BY <2>2, <2>3 DEF HasEntry
<1>4. ASSUME NEW n \in Nodes, NEW m \in Nodes \ {n}, install_snapshot(n, m)
      PROVE  HasEntry(x, i)'
  <2>1. /\ data' = [data EXCEPT ![n] = snapshot[m]]
        /\ log' = [log EXCEPT ![n] = Without(log[n], applied[m])]
        /\ applied' = [applied EXCEPT ![n] = applied[m]]
        /\ budget' = [budget EXCEPT !.installs = budget.installs + 1]
        /\ applied[n] < applied[m]
    BY <1>1, <1>4 DEF install_snapshot, get_current_snapshot
  <2>2. budget'.resets = budget.resets
    BY <1>1, <2>1
  <2>3. TransferIsFresh
    <3>1. applied' # applied
      BY <2>1 DEF StorageInv, TypeOK
    <3> QED
      BY <3>1 DEF vars, persistent
  <2>4. /\ data'[n] = Effects(applied[m]) /\ log'[n] = Without(log[n], applied[m])
        /\ \A y \in Nodes \ {n} : data'[y] = data[y] /\ log'[y] = log[y]
    BY <1>1, <1>4, <2>1, <2>3 DEF TransferIsFresh
  <2>5. ASSUME x = n, log[x][i] = "good" PROVE HasEntry(x, i)'
    BY <2>4, <2>5 DEF HasEntry, Effects, Without
  <2>6. n \notin budget.resets => \A j \in Index : data[n][j] > 0 => data'[n][j] > 0
    BY <1>4, <2>3, InstallTables
  <2> QED
    BY <2>2, <2>4, <2>5, <2>6 DEF HasEntry
<1>5. CASE UNCHANGED data /\ budget'.resets = budget.resets
  <2>1. ASSUME NEW n \in Nodes,
               \/ propose(n) \/ append_stale(n) \/ append(n) \/ truncate(n)
               \/ purge_entries(n) \/ normalize_log(n)
        PROVE  HasEntry(x, i)'
    <3>1. log[n][i] = "good" => log'[n][i] = "good" \/ data[n][i] > 0
      BY <2>1, RemovedIsApplied, AppliedTook
    <3>2. \A y \in Nodes \ {n} : log'[y] = log[y]
      BY <1>1, <2>1 DEF propose, append_stale, append, truncate, purge_entries,
                        normalize_log, Write
    <3> QED
      BY <1>5, <3>1, <3>2, Zenon DEF HasEntry
  <2>2. ASSUME UNCHANGED log PROVE HasEntry(x, i)'
    BY <1>5, <2>2 DEF HasEntry
  <2>3. ASSUME NEW n \in Nodes,
               \/ build_begin(n) \/ build_end(n) \/ purge_mark(n) \/ crash(n)
               \/ normalize_purged(n)
        PROVE  UNCHANGED log
    BY <2>3 DEF build_begin, build_end, purge_mark, crash, normalize_purged, persistent
  <2>4. commit \/ UNCHANGED vars => UNCHANGED log
    BY DEF commit, vars, persistent
  <2> QED
    BY <1>2, <1>3, <1>4, <2>1, <2>2, <2>3, <2>4, Zenon DEF Next, Step
<1> QED
  BY <1>2, <1>3, <1>4, <1>5, TablesMove, Zenon

(* More nodes than a majority are a majority.                               *)
LEMMA MajorityGrows ==
    ASSUME NEW S \in SUBSET Nodes, NEW T \in SUBSET Nodes, S \subseteq T, Majority(S)
    PROVE  Majority(T)
<1>1. IsFiniteSet(Nodes) /\ IsFiniteSet(S) /\ IsFiniteSet(T)
  BY NodesAssumption, FS_Subset
<1>2. Cardinality(S) <= Cardinality(T)
  BY <1>1, FS_Subset
<1>3. Cardinality(S) \in Nat /\ Cardinality(T) \in Nat /\ Cardinality(Nodes) \in Nat
  BY <1>1, FS_CardinalityType
<1> QED
  BY <1>2, <1>3 DEF Majority

(* Every step keeps committed entries durable.                              *)
LEMMA DurableStep ==
    /\ StorageInv /\ TablesInv /\ CommittedIsDurable
    /\ [Next]_vars /\ [TransferIsFresh]_vars
    => CommittedIsDurable'
<1> SUFFICES ASSUME StorageInv, TablesInv, CommittedIsDurable,
                    [Next]_vars, [TransferIsFresh]_vars,
                    NEW i \in 1..committed'
             PROVE  Majority({n \in Nodes : HasEntry(n, i)'})
  BY DEF CommittedIsDurable, Majority, HasEntry
<1> DEFINE S == {n \in Nodes : HasEntry(n, i)}
           T == {n \in Nodes : HasEntry(n, i)'}
<1>1. /\ MaxIndex \in Nat /\ committed \in Nat /\ committed <= top /\ top <= MaxIndex
      /\ top \in Nat
  BY BoundsAssumption DEF StorageInv, TypeOK
<1>2. committed' = committed \/ commit
  <2>1. \A n \in Nodes : apply(n) => committed' = committed
    BY DEF apply
  <2>2. \A n \in Nodes : reset_raft_state(n) => committed' = committed
    BY DEF reset_raft_state
  <2>3. \A n, m \in Nodes : install_snapshot(n, m) => committed' = committed
    BY DEF install_snapshot
  <2> QED
    BY <2>1, <2>2, <2>3, TablesMove
<1>3. i \in Index /\ (i \in 1..committed \/ (commit /\ i = committed + 1))
  <2>1. commit => committed' = committed + 1 /\ committed < top
    BY DEF commit
  <2> QED
    BY <1>1, <1>2, <2>1 DEF Index
<1>4. Majority(S)
  <2>1. CASE i \in 1..committed
    BY <2>1 DEF CommittedIsDurable, HasEntry
  <2>2. CASE commit /\ i = committed + 1
    <3>1. Majority({n \in Nodes : Holds(n, i)})
      BY <2>2 DEF commit
    <3>2. \A n \in Nodes : Holds(n, i) => HasEntry(n, i)
      BY <1>3, AppliedTook DEF Holds, HasEntry
    <3>3. {n \in Nodes : Holds(n, i)} \subseteq S
      BY <3>2
    <3> HIDE DEF S
    <3>4. S \in SUBSET Nodes
      BY DEF S
    <3> QED
      BY <3>1, <3>3, <3>4, MajorityGrows
  <2> QED
    BY <1>3, <2>1, <2>2
<1>5. S \subseteq T
  BY <1>3, EntryStays
<1>6. S \in SUBSET Nodes /\ T \in SUBSET Nodes
  OBVIOUS
<1> HIDE DEF S, T
<1>7. Majority(T)
  BY <1>4, <1>5, <1>6, MajorityGrows
<1> QED
  BY <1>7 DEF T

(* A committed write survives crashes at any point, restarts, purges and    *)
(* discarded logs, as long as a transferred snapshot holds what its label   *)
(* says (store.rs: truncate, purge, normalize_raft_log, install_snapshot).  *)
THEOREM CommittedIsDurableAlways ==
    Spec /\ [][TransferIsFresh]_vars => []CommittedIsDurable
<1>1. Init => CommittedIsDurable
  BY DEF Init, CommittedIsDurable
<1> QED
  BY <1>1, StorageInit, StorageStep, TablesInit, TablesStep, DurableStep, PTL DEF Spec

---------------------------------------------------------------------------
(* The storage implements ReplicatedTables *)

(* The tables as the refinement mapping of Abstract shows them.             *)
Shown == [n \in Nodes |-> IF n \in budget.resets
                          THEN [i \in Index |-> IF data[n][i] > 0 THEN 1 ELSE 0]
                          ELSE data[n]]

(* They are the effect of a prefix of the committed entries.                *)
LEMMA ShownIsPrefix ==
    ASSUME StorageInv, TablesInv, NEW n \in Nodes
    PROVE  \E k \in 0..committed :
               Shown[n] = Effects(k) /\ \A i \in Index : data[n][i] > 0 <=> i <= k
<1>1. applied[n] \in Nat /\ committed \in Nat /\ applied[n] <= committed
  BY BoundsAssumption DEF StorageInv, TypeOK, TablesInv
<1>2. CASE n \in budget.resets
  <2>1. PICK k \in applied[n]..committed : \A i \in Index : data[n][i] > 0 <=> i <= k
    BY <1>2 DEF TablesInv, TablesOf
  <2>2. Shown[n] = [i \in Index |-> IF data[n][i] > 0 THEN 1 ELSE 0]
    BY <1>2 DEF Shown
  <2>3. Shown[n] = Effects(k)
    BY <2>1, <2>2 DEF Effects
  <2>4. k \in 0..committed
    BY <1>1
  <2> QED
    BY <2>1, <2>3, <2>4
<1>3. CASE n \notin budget.resets
  <2>1. data[n] = Effects(applied[n]) /\ Shown[n] = data[n]
    BY <1>3 DEF TablesInv, TablesOf, Shown
  <2>2. \A i \in Index : data[n][i] > 0 <=> i <= applied[n]
    BY <2>1 DEF Effects
  <2>3. applied[n] \in 0..committed
    BY <1>1
  <2> QED
    BY <2>1, <2>2, <2>3
<1> QED
  BY <1>2, <1>3, Zenon

(* A step in which the tables of one node lose nothing advances them.       *)
LEMMA NothingLostAdvances ==
    ASSUME StorageInv, TablesInv, StorageInv', TablesInv', NEW n \in Nodes,
           committed' = committed,
           \A x \in Nodes \ {n} : Shown'[x] = Shown[x],
           \A i \in Index : data[n][i] > 0 => data'[n][i] > 0
    PROVE  Abstract!Advance(n) \/ UNCHANGED Shown
<1>1. PICK j \in 0..committed :
         Shown[n] = Effects(j) /\ \A i \in Index : data[n][i] > 0 <=> i <= j
  BY ShownIsPrefix
<1>2. PICK k \in 0..committed :
         Shown'[n] = Effects(k) /\ \A i \in Index : data'[n][i] > 0 <=> i <= k
  <2>1. (\E k \in 0..committed :
            Shown[n] = Effects(k) /\ \A i \in Index : data[n][i] > 0 <=> i <= k)'
    BY ShownIsPrefix, PTL
  <2> QED
    BY <2>1 DEF Effects
<1>3. committed \in 0..MaxIndex /\ MaxIndex \in Nat
  BY BoundsAssumption DEF StorageInv, TypeOK
<1>4. j <= k
  <2> SUFFICES ASSUME j > k PROVE FALSE
    BY <1>3
  <2>1. j \in Index
    BY <1>3 DEF Index
  <2> QED
    BY <1>1, <1>2, <1>3, <2>1
<1>5. CASE j = k
  <2>1. \A x \in Nodes : Shown'[x] = Shown[x]
    BY <1>1, <1>2, <1>5
  <2> QED
    BY <2>1 DEF Shown
<1>6. CASE j < k
  <2>1. Shown' = [Shown EXCEPT ![n] = Effects(k)]
    BY <1>2, Zenon DEF Shown
  <2>2. Abstract!Prefix(j) = Effects(j) /\ Abstract!Prefix(k) = Effects(k)
    BY Zenon DEF Abstract!Prefix, Effects, Index
  <2> QED
    BY <1>1, <1>6, <2>1, <2>2, Zenon DEF Abstract!Advance, Shown
<1> QED
  BY <1>3, <1>4, <1>5, <1>6

(* Every step of the storage is a step of the abstract tables or none.      *)
LEMMA RefinementStep ==
    /\ StorageInv /\ TablesInv /\ StorageInv' /\ TablesInv'
    /\ [Next]_vars /\ [TransferIsForward]_vars /\ [TransferIsFresh]_vars
    => [Abstract!Next]_<<committed, Shown>>
<1> SUFFICES ASSUME StorageInv, TablesInv, StorageInv', TablesInv', [Next]_vars,
                    [TransferIsForward]_vars, [TransferIsFresh]_vars
             PROVE  [Abstract!Next]_<<committed, Shown>>
  OBVIOUS
<1>1. CASE /\ UNCHANGED <<applied, data>>
           /\ budget'.resets = budget.resets
           /\ committed' = committed \/ commit
  <2>1. Shown' = Shown
    BY <1>1, Zenon DEF Shown
  <2>2. commit => committed < MaxIndex /\ committed' = committed + 1
    BY BoundsAssumption DEF commit, StorageInv, TypeOK
  <2>3. commit => Abstract!Commit
    BY <2>1, <2>2, Zenon DEF Abstract!Commit, Shown
  <2> QED
    BY <1>1, <2>1, <2>3 DEF Abstract!Next
<1>2. budget \in [crashes : Nat, installs : Nat, stale : Nat, resets : SUBSET Nodes]
      /\ data \in [Nodes -> Counts] /\ applied \in [Nodes -> Position]
      /\ MaxIndex \in Nat
  BY BoundsAssumption, Zenon DEF StorageInv, TypeOK, Position
<1>3. ASSUME NEW n \in Nodes, apply(n) PROVE Abstract!Advance(n) \/ UNCHANGED Shown
  <2>1. \A i \in Index : data[n][i] > 0 => data'[n][i] > 0
    BY <1>3, ApplyTables, Zenon
  <2>2. budget' = budget /\ \A x \in Nodes \ {n} : data'[x] = data[x]
    BY <1>2, <1>3, Zenon DEF apply
  <2>3. \A x \in Nodes \ {n} : Shown'[x] = Shown[x]
    BY <2>2 DEF Shown
  <2>4. committed' = committed
    BY <1>3 DEF apply
  <2> QED
    BY <2>1, <2>3, <2>4, NothingLostAdvances
<1>4. ASSUME NEW n \in Nodes, reset_raft_state(n)
      PROVE  Abstract!Advance(n) \/ UNCHANGED Shown
  <2>1. /\ budget' = [budget EXCEPT !.resets = budget.resets \cup {n}]
        /\ data' = data /\ committed' = committed
    BY <1>4 DEF reset_raft_state
  <2>2. budget'.resets = budget.resets \cup {n}
    BY <1>2, <2>1
  <2>3. \A x \in Nodes \ {n} : Shown'[x] = Shown[x]
    BY <2>1, <2>2 DEF Shown
  <2> QED
    BY <2>1, <2>3, NothingLostAdvances
<1>5. ASSUME NEW n \in Nodes, NEW m \in Nodes \ {n}, install_snapshot(n, m)
      PROVE  Abstract!Advance(n) \/ UNCHANGED Shown
  <2>1. /\ data' = [data EXCEPT ![n] = snapshot[m]]
        /\ applied' = [applied EXCEPT ![n] = applied[m]]
        /\ budget' = [budget EXCEPT !.installs = budget.installs + 1]
        /\ applied[n] < applied[m] /\ committed' = committed
    BY <1>5 DEF install_snapshot, get_current_snapshot
  <2>2. budget'.resets = budget.resets
    BY <1>2, <2>1
  <2>3. TransferIsFresh /\ TransferIsForward
    <3>1. applied' # applied
      BY <1>2, <2>1 DEF Position
    <3> QED
      BY <3>1 DEF vars, persistent
  <2>4. data'[n] = Effects(applied[m]) /\ \A x \in Nodes \ {n} : data'[x] = data[x]
    BY <1>2, <1>5, <2>1, <2>3, Zenon DEF TransferIsFresh
  <2>5. \A i \in Index : data[n][i] > 0 => i <= applied[m]
    BY <1>5, <2>3 DEF TransferIsForward
  <2>6. \A i \in Index : data[n][i] > 0 => data'[n][i] > 0
    BY <2>4, <2>5 DEF Effects
  <2>7. \A x \in Nodes \ {n} : Shown'[x] = Shown[x]
    BY <2>2, <2>4 DEF Shown
  <2> QED
    BY <2>1, <2>6, <2>7, NothingLostAdvances
<1>6. \A n \in Nodes : Abstract!Advance(n) => Abstract!Next
  BY DEF Abstract!Next
<1>7. \A n, m \in Nodes : \/ apply(n) \/ reset_raft_state(n) \/ install_snapshot(n, m)
                          => committed' = committed
  BY DEF apply, reset_raft_state, install_snapshot
<1> QED
  BY <1>1, <1>3, <1>4, <1>5, <1>6, <1>7, TablesMove, Zenon

(* Raft's storage implements the replicated tables: what a node serves is   *)
(* always the effect of a prefix of the committed entries and only moves    *)
(* forward, through crashes, purges, restarts and fresh, forward transfers. *)
THEOREM ImplementsTables ==
    Spec /\ [][TransferIsFresh]_vars /\ [][TransferIsForward]_vars
        => ImplementsReplicatedTables
<1>1. Init => Abstract!Init
  <2> SUFFICES ASSUME Init PROVE Abstract!Init
    OBVIOUS
  <2>1. committed = 0 /\ Shown = [n \in Nodes |-> Effects(0)]
    BY BoundsAssumption DEF Init, Shown, Effects, Index
  <2> QED
    BY <2>1, Zenon DEF Abstract!Init, Abstract!Prefix, Effects, Shown, Index
<1>2. [Abstract!Next]_<<committed, Shown>> =>
      [Abstract!Next]_<<committed, [n \in Nodes |->
                            IF n \in budget.resets
                            THEN [i \in Index |-> IF data[n][i] > 0 THEN 1 ELSE 0]
                            ELSE data[n]]>>
  BY DEF Shown
<1> QED
  BY <1>1, <1>2, TablesInvariance, RefinementStep, PTL
     DEF Spec, ImplementsReplicatedTables, Abstract!Spec
=============================================================================
