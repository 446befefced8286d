---------------------------- MODULE LockoutProofs ----------------------------
(***************************************************************************)
(* GuessBudget of ReadPath, for any limit, window and lock, any number of  *)
(* requests that overlap, and whatever happens around them.                *)
(***************************************************************************)
EXTENDS ReadPathProofs

(* Below, s is what `failed' has of a counter, r its row in LOCKOUTS, m the *)
(* limit, t the time, k how many requests have passed the counter and may   *)
(* yet add to it, and n how many requests there are.                        *)

(* How many failures came before the present window.                        *)
Before(s, r) == Len(s) - r.failures

(* Whether failure i filled its window or found it full, if the window      *)
(* before the present one began after b failures.                           *)
Fills(m, s, r, b, i) == i >= m + (IF i <= Before(s, r) THEN b ELSE Before(s, r))

(* The recent ones of these.                                                *)
Late(m, s, r, b, t) == {i \in 1..Len(s) : t - s[i] < Window /\ Fills(m, s, r, b, i)}

(* What a row says about the failures recorded.  None of the windows before *)
(* the last two, and not the first failure of the last but one, is within a *)
(* window's length of the present one.  A failure that fills its window     *)
(* locks.                                                                   *)
Accounted(m, s, r, b) ==
    /\ r.failures <= Len(s)
    /\ b \in 0..Before(s, r)
    /\ \A i \in 1..(Before(s, r) + 1) : s[i] <= r.window_start
    /\ \A i \in 1..Before(s, r) : i <= b + 1 => s[i] + Window <= r.window_start
    /\ \A i \in 1..Len(s) : Fills(m, s, r, b, i) =>
          r.locked_until # NONE /\ s[i] + Lockout <= r.locked_until

(* Once a failure has locked the counter, only what is in flight is added.  *)
Budgeted(m, s, r, t, k, n) ==
    \E b \in 0..Len(s) :
        /\ Accounted(m, s, r, b)
        /\ \/ Late(m, s, r, b, t) = {}
           \/ Cardinality(Late(m, s, r, b, t)) + k <= n

(* A request that has passed counter c and may yet add to it.               *)
Pending(c, o) ==
    IF c = "peer" THEN o.pc = "denied"
    ELSE o.kind = "verify" /\ o.pc \in {"read", "open", "kms", "invalid"}

InFlight(c) == {q \in scenario.requests : Pending(c, requests[q])}

(* The inductive invariant behind GuessBudget.                              *)
BudgetInv ==
    MaxFailures > 1 /\ Window <= Lockout => \A c \in Counters :
        IF lockouts[c] = NONE THEN failed[c] = <<>>
        ELSE Budgeted(MaxFailures, failed[c], lockouts[c], now,
                      Cardinality(InFlight(c)), Cardinality(scenario.requests))

(* Window and lock are numbers of seconds.                                  *)
LEMMA Spans == Window \in Nat /\ Lockout \in Nat
BY ReadPathAssumption

(* The failures that fill a window are finitely many.                       *)
LEMMA LateIsFinite ==
    ASSUME NEW t \in Nat, NEW m, NEW s \in Seq(0..t), NEW r, NEW b
    PROVE  IsFiniteSet(Late(m, s, r, b, t)) /\ Cardinality(Late(m, s, r, b, t)) \in Nat
<1>1. Late(m, s, r, b, t) \in SUBSET (1..Len(s)) /\ Len(s) \in Nat
  BY DEF Late
<1>2. IsFiniteSet(1..Len(s))
  BY <1>1, FS_Interval
<1> QED
  BY <1>1, <1>2, FS_Subset, FS_CardinalityType, Zenon

(* A failure a window's length before some moment that has passed.          *)
LEMMA NotRecent ==
    ASSUME NEW t \in Nat, NEW w \in 0..t, NEW x \in 0..t, x + Window <= w
    PROVE  ~(t - x < Window)
BY Spans

(* What a budgeted counter amounts to: two windows short of being full, the *)
(* older one without its first failure, and what was in flight.             *)
LEMMA WithinBudget ==
    ASSUME NEW t \in Nat, NEW m \in Nat, m > 1, NEW s \in Seq(0..t), NEW r \in Tallies(t),
           NEW k \in Nat, NEW n \in Nat, Budgeted(m, s, r, t, k, n)
    PROVE  Cardinality({i \in 1..Len(s) : t - s[i] < Window}) <= 2 * m - 3 + n
<1> DEFINE R == {i \in 1..Len(s) : t - s[i] < Window}
           B == Before(s, r)
<1>1. PICK b \in 0..Len(s) :
          /\ Accounted(m, s, r, b)
          /\ \/ Late(m, s, r, b, t) = {}
             \/ Cardinality(Late(m, s, r, b, t)) + k <= n
  BY Zenon DEF Budgeted
<1> DEFINE L == Late(m, s, r, b, t)
           P == (b + 2)..(b + m - 1)
           Q == (B + 1)..(B + m - 1)
<1>2. Len(s) \in Nat /\ b \in Nat /\ B \in Nat /\ r.window_start \in 0..t
  BY <1>1 DEF Accounted, Before, Tallies
<1>3. IsFiniteSet(L) /\ Cardinality(L) \in Nat /\ Cardinality(L) <= n
  <2>1. IsFiniteSet(L) /\ Cardinality(L) \in Nat
    BY LateIsFinite
  <2>2. L = {} => Cardinality(L) = 0
    BY FS_EmptySet, <2>1
  <2> HIDE DEF L
  <2> QED
    BY <1>1, <2>1, <2>2 DEF L
<1>4. R \subseteq (L \cup P) \cup Q
  <2> SUFFICES ASSUME NEW i \in R, i \notin L PROVE i \in P \cup Q
    BY Zenon
  <2>1. i \in 1..Len(s) /\ t - s[i] < Window /\ ~Fills(m, s, r, b, i) /\ s[i] \in 0..t
    BY DEF Late
  <2>2. CASE i <= B
    <3>1. i < m + b
      BY <1>2, <2>1, <2>2 DEF Fills
    <3>2. ASSUME i <= b + 1 PROVE FALSE
      <4>1. s[i] + Window <= r.window_start
        BY <1>1, <1>2, <2>1, <2>2, <3>2 DEF Accounted
      <4> QED
        BY <1>2, <2>1, <4>1, NotRecent, Zenon
    <3>3. i \in Nat /\ B \in Nat /\ b \in Nat
      BY <1>2, <2>1
    <3> HIDE DEF B, L, R
    <3> QED
      BY <2>2, <3>1, <3>2, <3>3
  <2>3. CASE ~(i <= B)
    <3>1. i < m + B
      BY <1>2, <2>1, <2>3 DEF Fills
    <3> QED
      BY <1>2, <2>1, <2>3, <3>1
  <2> QED
    BY <2>2, <2>3
<1> HIDE DEF L, R, B
<1>5. /\ IsFiniteSet(P) /\ Cardinality(P) = m - 2
      /\ IsFiniteSet(Q) /\ Cardinality(Q) = m - 1
  <2>1. b + 2 \in Int /\ b + m - 1 \in Int /\ B + 1 \in Int /\ B + m - 1 \in Int
    BY <1>2
  <2>2. /\ IsFiniteSet(P)
        /\ Cardinality(P) = IF b + 2 > b + m - 1 THEN 0 ELSE (b + m - 1) - (b + 2) + 1
    BY <2>1, FS_Interval, Zenon
  <2>3. /\ IsFiniteSet(Q)
        /\ Cardinality(Q) = IF B + 1 > B + m - 1 THEN 0 ELSE (B + m - 1) - (B + 1) + 1
    BY <2>1, FS_Interval, Zenon
  <2> HIDE DEF P, Q
  <2> QED
    BY <1>2, <2>2, <2>3
<1> HIDE DEF P, Q
<1>6. /\ IsFiniteSet(L \cup P) /\ Cardinality(L \cup P) \in Nat
      /\ Cardinality(L \cup P) <= Cardinality(L) + Cardinality(P)
  <2>1. /\ IsFiniteSet(L \cup P)
        /\ Cardinality(L \cup P) = Cardinality(L) + Cardinality(P) - Cardinality(L \cap P)
    BY <1>3, <1>5, FS_Union, Zenon
  <2>2. Cardinality(L \cap P) \in Nat /\ Cardinality(L \cup P) \in Nat
    BY <1>3, <2>1, FS_Intersection, FS_CardinalityType, Zenon
  <2> QED
    BY <1>3, <1>5, <2>1, <2>2
<1>7. /\ IsFiniteSet((L \cup P) \cup Q)
      /\ Cardinality((L \cup P) \cup Q) <= Cardinality(L \cup P) + Cardinality(Q)
      /\ Cardinality((L \cup P) \cup Q) \in Nat
  <2> DEFINE U == L \cup P
  <2>1. /\ IsFiniteSet(U \cup Q)
        /\ Cardinality(U \cup Q) = Cardinality(U) + Cardinality(Q) - Cardinality(U \cap Q)
    BY <1>6, <1>5, FS_Union, Zenon
  <2>2. Cardinality(U \cap Q) \in Nat /\ Cardinality(U \cup Q) \in Nat
    BY <1>6, <2>1, FS_Intersection, FS_CardinalityType, Zenon
  <2> HIDE DEF U
  <2>3. Cardinality(U \cup Q) <= Cardinality(U) + Cardinality(Q)
    BY <1>5, <1>6, <2>1, <2>2 DEF U
  <2> QED
    BY <2>1, <2>2, <2>3 DEF U
<1>8. Cardinality(R) <= Cardinality((L \cup P) \cup Q) /\ Cardinality(R) \in Nat
  BY <1>4, <1>7, FS_Subset, FS_CardinalityType
<1>9. Cardinality(R) <= 2 * m - 3 + n
  BY <1>3, <1>5, <1>6, <1>7, <1>8
<1> QED
  BY <1>9 DEF R

(* A counter with a recent failure that filled its window is locked.        *)
LEMMA LateLocks ==
    ASSUME Window <= Lockout, NEW t \in Nat, NEW m, NEW s \in Seq(0..t), NEW r \in Tallies(t),
           NEW b, Accounted(m, s, r, b), Late(m, s, r, b, t) # {}
    PROVE  r.locked_until # NONE /\ r.locked_until > t
<1>1. PICK i \in 1..Len(s) : t - s[i] < Window /\ Fills(m, s, r, b, i)
  BY DEF Late
<1>2. r.locked_until # NONE /\ s[i] + Lockout <= r.locked_until
  BY <1>1 DEF Accounted
<1>3. r.locked_until \in Nat /\ s[i] \in 0..t
  BY <1>2 DEF Tallies
<1> QED
  BY <1>1, <1>2, <1>3, Spans

(* Of a smaller set of failures there are no more, whoever left in between. *)
LEMMA FewerLate ==
    ASSUME NEW T, IsFiniteSet(T), NEW U \in SUBSET T, NEW k \in Nat, NEW j \in Nat, j <= k,
           NEW n \in Nat, T = {} \/ Cardinality(T) + k <= n
    PROVE  U = {} \/ Cardinality(U) + j <= n
<1>1. Cardinality(U) <= Cardinality(T) /\ Cardinality(U) \in Nat /\ Cardinality(T) \in Nat
  BY FS_Subset, FS_CardinalityType
<1> QED
  BY <1>1

(* Time passes, and requests leave.                                         *)
LEMMA LaterBudget ==
    ASSUME NEW t \in Nat, NEW u \in Nat, t <= u, NEW m, NEW s \in Seq(0..t), NEW r,
           NEW k \in Nat, NEW j \in Nat, j <= k, NEW n \in Nat, Budgeted(m, s, r, t, k, n)
    PROVE  Budgeted(m, s, r, u, j, n)
<1>1. PICK b \in 0..Len(s) :
          /\ Accounted(m, s, r, b)
          /\ \/ Late(m, s, r, b, t) = {}
             \/ Cardinality(Late(m, s, r, b, t)) + k <= n
  BY Zenon DEF Budgeted
<1>2. Late(m, s, r, b, u) \in SUBSET Late(m, s, r, b, t)
  <2>1. ASSUME NEW i \in 1..Len(s), u - s[i] < Window PROVE t - s[i] < Window
    BY <2>1, Spans
  <2> QED
    BY <2>1 DEF Late
<1>3. IsFiniteSet(Late(m, s, r, b, t))
  BY LateIsFinite
<1>4. Late(m, s, r, b, u) = {} \/ Cardinality(Late(m, s, r, b, u)) + j <= n
  <2> DEFINE T == Late(m, s, r, b, t)
             U == Late(m, s, r, b, u)
  <2>1. IsFiniteSet(T) /\ U \in SUBSET T /\ (T = {} \/ Cardinality(T) + k <= n)
    BY <1>1, <1>2, <1>3, Zenon
  <2> HIDE DEF T, U
  <2>2. U = {} \/ Cardinality(U) + j <= n
    BY <2>1, FewerLate
  <2> QED
    BY <2>2 DEF T, U
<1> QED
  BY <1>1, <1>4, Zenon DEF Budgeted

(* A counter that is not locked admits requests.                            *)
LEMMA OpenBudget ==
    ASSUME Window <= Lockout, NEW t \in Nat, NEW m, NEW s \in Seq(0..t), NEW r \in Tallies(t),
           NEW k, NEW j, NEW n, Budgeted(m, s, r, t, k, n),
           ~(r.locked_until # NONE /\ r.locked_until > t)
    PROVE  Budgeted(m, s, r, t, j, n)
<1>1. PICK b \in 0..Len(s) : Accounted(m, s, r, b)
  BY Zenon DEF Budgeted
<1>2. Late(m, s, r, b, t) = {}
  BY <1>1, LateLocks, Zenon
<1> QED
  BY <1>1, <1>2, Zenon DEF Budgeted

(* The first failure.                                                       *)
LEMMA FirstBudget ==
    ASSUME NEW t \in Nat, NEW m \in Nat, m > 1, NEW j, NEW n, NEW r,
           r = [failures |-> 1, window_start |-> t, locked_until |-> NONE]
    PROVE  Budgeted(m, <<t>>, r, t, j, n)
<1> DEFINE s == <<t>>
<1>1. Len(s) = 1 /\ s[1] = t /\ Before(s, r) = 0 /\ r.window_start = t /\ r.failures = 1
  BY DEF Before
<1>2. \A i \in 1..Len(s) : i = 1 /\ ~Fills(m, s, r, 0, i)
  BY <1>1 DEF Fills
<1> HIDE DEF s
<1>3. Accounted(m, s, r, 0)
  BY <1>1, <1>2 DEF Accounted
<1>4. Late(m, s, r, 0, t) = {}
  BY <1>2 DEF Late
<1>5. 0 \in 0..Len(s)
  BY <1>1
<1>6. Budgeted(m, s, r, t, j, n)
  BY <1>3, <1>4, <1>5, Zenon DEF Budgeted
<1> QED
  BY <1>6 DEF s

(* RecordAuthFailure of a row.                                              *)
Tallied(m, r, t) ==
    LET elapsed == t - r.window_start >= Window
        failures == (IF elapsed THEN 0 ELSE r.failures) + 1
    IN  [failures |-> failures,
         window_start |-> IF elapsed THEN t ELSE r.window_start,
         locked_until |-> IF failures >= m THEN t + Lockout ELSE r.locked_until]

(* One failure more after those recorded.                                   *)
LEMMA OneMore ==
    ASSUME NEW t \in Nat, NEW s \in Seq(0..t)
    PROVE  /\ Append(s, t) \in Seq(0..t) /\ Len(s) \in Nat
           /\ Len(Append(s, t)) = Len(s) + 1 /\ Append(s, t)[Len(s) + 1] = t
           /\ \A i \in 1..Len(s) : Append(s, t)[i] = s[i] /\ s[i] \in 0..t
OBVIOUS

(* A failure that starts the window over.                                   *)
LEMMA NextWindow ==
    ASSUME NEW t \in Nat, NEW m \in Nat, m > 1, NEW s \in Seq(0..t), NEW r \in Tallies(t),
           NEW k \in Nat, NEW j \in Nat, j <= k, NEW n \in Nat,
           Budgeted(m, s, r, t, k, n), t - r.window_start >= Window
    PROVE  Budgeted(m, Append(s, t), Tallied(m, r, t), t, j, n)
<1> DEFINE a == Append(s, t)
           x == Tallied(m, r, t)
           B == Before(s, r)
<1>1. PICK b \in 0..Len(s) :
          /\ Accounted(m, s, r, b)
          /\ \/ Late(m, s, r, b, t) = {}
             \/ Cardinality(Late(m, s, r, b, t)) + k <= n
  BY Zenon DEF Budgeted
<1>2. /\ Len(s) \in Nat /\ r.failures \in Nat /\ r.failures <= Len(s) /\ r.failures > 0
      /\ r.window_start \in 0..t /\ B = Len(s) - r.failures /\ B \in Nat /\ B < Len(s)
      /\ b \in 0..B
  BY <1>1 DEF Tallies, Accounted, Before
<1>3. x.failures = 1 /\ x.window_start = t /\ x.locked_until = r.locked_until
  BY DEF Tallied
<1>4. /\ Len(a) = Len(s) + 1 /\ a[Len(s) + 1] = t
      /\ \A i \in 1..Len(s) : a[i] = s[i] /\ s[i] \in 0..t
  BY OneMore, Zenon
<1> DEFINE N == Len(s)
<1>5. Before(a, x) = N /\ Before(s, r) = B /\ 1..Len(a) = 1..(N + 1)
  BY <1>2, <1>3, <1>4 DEF Before
<1> HIDE DEF a, x, B, N
<1>6. ASSUME NEW i \in 1..(N + 1), Fills(m, a, x, B, i)
      PROVE  i \in 1..Len(s) /\ Fills(m, s, r, b, i)
  <2>1. N \in Nat /\ B \in Nat /\ b \in Nat
    BY <1>2 DEF N
  <2>2. i >= m + (IF i <= N THEN B ELSE N)
    BY <1>5, <1>6, Zenon DEF Fills
  <2>3. i \in 1..N /\ i >= m + B
    BY <2>1, <2>2
  <2>4. i >= m + (IF i <= B THEN b ELSE B)
    BY <2>1, <2>3
  <2> QED
    BY <1>5, <2>3, <2>4, Zenon DEF Fills, N
<1>7. Accounted(m, a, x, B)
  <2>1. x.failures <= Len(a) /\ B \in 0..Before(a, x)
    <3>1. N \in Nat /\ B \in Nat /\ B < N
      BY <1>2, Zenon DEF N
    <3>2. 1 <= N + 1 /\ B \in 0..N
      BY <3>1
    <3> QED
      BY <1>3, <1>4, <1>5, <3>2, Zenon DEF N
  <2>2. ASSUME NEW i \in 1..(N + 1) PROVE a[i] <= x.window_start
    <3>1. CASE i = N + 1
      BY <1>3, <1>4, <3>1 DEF N
    <3>2. CASE i # N + 1
      <4>1. N \in Nat
        BY <1>2, Zenon DEF N
      <4>2. i \in 1..N
        BY <3>2, <4>1
      <4>3. a[i] = s[i] /\ s[i] \in 0..t
        BY <1>4, <4>2, Zenon DEF N
      <4> QED
        BY <1>3, <4>3
    <3> QED
      BY <3>1, <3>2
  <2>3. ASSUME NEW i \in 1..N, i <= B + 1 PROVE a[i] + Window <= x.window_start
    <3>1. i \in 1..(B + 1) /\ i \in 1..Len(s)
      <4>1. B \in Nat
        BY <1>2, Zenon
      <4>2. i \in 1..(B + 1)
        BY <2>3, <4>1
      <4> QED
        BY <2>3, <4>2, Zenon DEF N
    <3>2. s[i] <= r.window_start
      BY <1>1, <3>1 DEF Accounted, B
    <3>3. s[i] \in 0..t /\ a[i] = s[i]
      BY <1>4, <3>1
    <3> QED
      BY <1>2, <1>3, <3>2, <3>3, Spans
  <2>4. ASSUME NEW i \in 1..(N + 1), Fills(m, a, x, B, i)
        PROVE  x.locked_until # NONE /\ a[i] + Lockout <= x.locked_until
    <3>1. i \in 1..Len(s) /\ Fills(m, s, r, b, i)
      BY <1>6, <2>4
    <3> QED
      BY <1>1, <1>3, <1>4, <3>1 DEF Accounted
  <2> QED
    BY <1>5, <2>1, <2>2, <2>3, <2>4, Zenon DEF Accounted
<1>8. Late(m, a, x, B, t) \in SUBSET Late(m, s, r, b, t)
  BY <1>4, <1>5, <1>6, Zenon DEF Late
<1>9. Late(m, a, x, B, t) = {} \/ Cardinality(Late(m, a, x, B, t)) + j <= n
  <2> DEFINE T == Late(m, s, r, b, t)
             U == Late(m, a, x, B, t)
  <2>1. IsFiniteSet(T) /\ U \in SUBSET T /\ (T = {} \/ Cardinality(T) + k <= n)
    BY <1>1, <1>8, LateIsFinite, Zenon
  <2> HIDE DEF T, U
  <2>2. U = {} \/ Cardinality(U) + j <= n
    BY <2>1, FewerLate
  <2> QED
    BY <2>2 DEF T, U
<1>10. B \in 0..Len(a)
  BY <1>2, <1>4
<1>11. Budgeted(m, a, x, t, j, n)
  BY <1>7, <1>9, <1>10, Zenon DEF Budgeted
<1> QED
  BY <1>11 DEF a, x

(* A failure within the window, by a request that was in flight.            *)
LEMMA SameWindow ==
    ASSUME NEW t \in Nat, NEW m \in Nat, m > 1, NEW s \in Seq(0..t), NEW r \in Tallies(t),
           NEW k \in Nat, NEW j \in Nat, j < k, NEW n \in Nat, k <= n,
           Budgeted(m, s, r, t, k, n), ~(t - r.window_start >= Window)
    PROVE  Budgeted(m, Append(s, t), Tallied(m, r, t), t, j, n)
<1> DEFINE a == Append(s, t)
           x == Tallied(m, r, t)
           B == Before(s, r)
           N == Len(s)
           f == r.failures
<1>1. PICK b \in 0..Len(s) :
          /\ Accounted(m, s, r, b)
          /\ \/ Late(m, s, r, b, t) = {}
             \/ Cardinality(Late(m, s, r, b, t)) + k <= n
  BY Zenon DEF Budgeted
<1>2. /\ N \in Nat /\ f \in Nat /\ f <= N /\ f > 0
      /\ B = N - f /\ B \in Nat /\ B + 1 <= N /\ b \in 0..B
  BY <1>1 DEF Tallies, Accounted, Before
<1>3. /\ x.failures = f + 1 /\ x.window_start = r.window_start
      /\ x.locked_until = IF f + 1 >= m THEN t + Lockout ELSE r.locked_until
  BY DEF Tallied
<1>4. /\ Len(a) = N + 1 /\ a[N + 1] = t
      /\ \A i \in 1..N : a[i] = s[i] /\ s[i] \in 0..t
  BY OneMore, Zenon
<1> HIDE DEF a, x, N, f
<1>5. Before(a, x) = B /\ Before(s, r) = B /\ 1..Len(a) = 1..(N + 1)
  <2>1. Before(a, x) = (N + 1) - (f + 1)
    BY <1>3, <1>4, Zenon DEF Before
  <2>2. (N + 1) - (f + 1) = N - f
    BY <1>2
  <2> QED
    BY <1>2, <1>4, <2>1, <2>2, Zenon
<1> HIDE DEF B
<1>6. \A i : Fills(m, a, x, b, i) <=> Fills(m, s, r, b, i)
  BY <1>5, Zenon DEF Fills
<1>7. Fills(m, a, x, b, N + 1) => f + 1 >= m
  <2>1. ASSUME N + 1 >= m + (IF N + 1 <= B THEN b ELSE B) PROVE f + 1 >= m
    BY <1>2, <2>1
  <2> QED
    BY <1>5, <2>1, Zenon DEF Fills
<1>8. \A i \in 1..(N + 1) : i \in 1..N \/ i = N + 1
  BY <1>2
<1>9. \A i \in 1..(N + 1) : a[i] \in 0..t
  <2>1. t \in 0..t
    OBVIOUS
  <2> QED
    BY <1>4, <1>8, <2>1, Zenon
<1>10. Accounted(m, a, x, b)
  <2>1. x.failures <= Len(a) /\ b \in 0..Before(a, x)
    <3>1. f + 1 <= N + 1
      BY <1>2
    <3> QED
      BY <1>2, <1>3, <1>4, <1>5, <3>1, Zenon
  <2>2. ASSUME NEW i \in 1..(B + 1)
        PROVE  a[i] <= x.window_start
    <3>1. i \in 1..N
      BY <1>2
    <3>2. s[i] <= r.window_start
      BY <1>1, <1>5, Zenon DEF Accounted
    <3> QED
      BY <1>3, <1>4, <3>1, <3>2, Zenon
  <2>3. ASSUME NEW i \in 1..B, i <= b + 1 PROVE a[i] + Window <= x.window_start
    <3>1. i \in 1..N
      BY <1>2
    <3>2. s[i] + Window <= r.window_start
      BY <1>1, <1>5, <2>3, Zenon DEF Accounted
    <3> QED
      BY <1>3, <1>4, <3>1, <3>2, Zenon
  <2>4. ASSUME NEW i \in 1..(N + 1), Fills(m, a, x, b, i)
        PROVE  x.locked_until # NONE /\ a[i] + Lockout <= x.locked_until
    <3>1. CASE f + 1 >= m
      <4>1. a[i] \in 0..t /\ x.locked_until = t + Lockout
        BY <1>3, <1>9, <3>1, Zenon
      <4>2. t + Lockout # NONE
        BY Spans, ReadPathAssumption
      <4>3. a[i] + Lockout <= t + Lockout
        BY <4>1, Spans
      <4> QED
        BY <4>1, <4>2, <4>3, Zenon
    <3>2. CASE ~(f + 1 >= m)
      <4>1. i \in 1..N /\ Fills(m, s, r, b, i)
        BY <1>6, <1>7, <1>8, <2>4, <3>2, Zenon
      <4>2. r.locked_until # NONE /\ s[i] + Lockout <= r.locked_until
        BY <1>1, <4>1, Zenon DEF Accounted, N
      <4> QED
        BY <1>3, <1>4, <3>2, <4>1, <4>2, Zenon
    <3> QED
      BY <3>1, <3>2
  <2> QED
    BY <1>5, <2>1, <2>2, <2>3, <2>4, Zenon DEF Accounted
<1> DEFINE T == Late(m, s, r, b, t)
           U == Late(m, a, x, b, t)
<1>11. U \subseteq T \cup {N + 1}
  BY <1>4, <1>5, <1>6, <1>8, Zenon DEF Late, N
<1>12. IsFiniteSet(T) /\ Cardinality(T) \in Nat
  BY LateIsFinite, Zenon
<1>13. T = {} \/ Cardinality(T) + k <= n
  BY <1>1, Zenon
<1> HIDE DEF T, U
<1>14. Cardinality(U) + j <= n
  <2>1. /\ IsFiniteSet(T \cup {N + 1})
        /\ \/ Cardinality(T \cup {N + 1}) = Cardinality(T)
           \/ Cardinality(T \cup {N + 1}) = Cardinality(T) + 1
    BY <1>12, FS_AddElement, Zenon
  <2>2. Cardinality(U) \in Nat /\ Cardinality(U) <= Cardinality(T \cup {N + 1})
    BY <1>11, <2>1, FS_Subset, FS_CardinalityType
  <2>3. T = {} => Cardinality(T) = 0
    BY FS_EmptySet, <1>12
  <2> QED
    BY <1>12, <1>13, <2>1, <2>2, <2>3
<1>15. b \in 0..Len(a)
  BY <1>2, <1>4
<1>16. Budgeted(m, a, x, t, j, n)
  BY <1>10, <1>14, <1>15, Zenon DEF Budgeted, U
<1> QED
  BY <1>16 DEF a, x

---------------------------------------------------------------------------
(* The requests *)

(* A request at rest adds to no counter.                                    *)
LEMMA IdleIsNotPending == ASSUME NEW c \in Counters PROVE ~Pending(c, Idle)
BY DEF Pending, Idle

(* What open_version leaves pending was pending.                            *)
LEMMA OpenedStays ==
    ASSUME Shapes, NEW q \in Requests, NEW key, requests[q].pc \in {"open", "kms"},
           Opened(q, key), NEW c \in Counters, Pending(c, requests'[q])
    PROVE  Pending(c, requests[q])
<1> DEFINE o == requests[q]
           row == Next_row(q)
           rest == o.todo \ {row}
           p == IF rest = {} THEN "invalid" ELSE "open"
<1>1. o \in Calls /\ requests \in [Requests -> Calls]
  BY Zenon DEF Shapes
<1>2. ASSUME NEW n, requests' = [requests EXCEPT ![q] = n], n.kind = o.kind, n.pc # "denied"
      PROVE  Pending(c, o)
  <2>1. requests'[q] = n
    BY <1>1, <1>2
  <2> QED
    BY <1>2, <2>1, Zenon DEF Pending
<1>3. CASE key # row.key
  <2> DEFINE n == [o EXCEPT !.pc = "garbled"]
  <2>1. requests' = [requests EXCEPT ![q] = n]
    BY <1>1, <1>3, Zenon DEF Opened, Go
  <2>2. n.kind = o.kind /\ n.pc = "garbled"
    BY <1>1, Zenon DEF Calls
  <2> HIDE DEF n
  <2> QED
    BY <1>2, <2>1, <2>2, Zenon
<1>4. CASE key = row.key /\ o.kind = "get"
  <2>1. requests'[q] = Idle
    BY <1>1, <1>4, Zenon DEF Opened, End
  <2> QED
    BY <2>1, IdleIsNotPending, Zenon
<1>5. CASE key = row.key /\ o.kind # "get" /\ o.value = row.key
  <2> DEFINE n == [o EXCEPT !.pc = "valid", !.todo = {}, !.attempt = 0]
  <2>1. requests' = [requests EXCEPT ![q] = n]
    BY <1>1, <1>5, Zenon DEF Opened
  <2>2. n.kind = o.kind /\ n.pc = "valid"
    BY <1>1, Zenon DEF Calls
  <2> HIDE DEF n
  <2> QED
    BY <1>2, <2>1, <2>2, Zenon
<1>6. CASE key = row.key /\ o.kind # "get" /\ o.value # row.key
  <2> DEFINE n == [o EXCEPT !.pc = p, !.todo = rest, !.attempt = 0]
  <2>1. requests' = [requests EXCEPT ![q] = n]
    BY <1>1, <1>6, Zenon DEF Opened
  <2>2. p # "denied"
    OBVIOUS
  <2> HIDE DEF p, rest
  <2>3. n.kind = o.kind /\ n.pc = p
    BY <1>1, Zenon DEF Calls
  <2> HIDE DEF n
  <2> QED
    BY <1>2, <2>1, <2>2, <2>3, Zenon
<1> QED
  BY <1>3, <1>4, <1>5, <1>6

(* Only guard_refuses and verify let a request pass a counter, and they     *)
(* look at it.                                                              *)
LEMMA Enters ==
    ASSUME Shapes, Next, NEW p \in Requests, NEW c \in Counters,
           Pending(c, requests'[p]), ~Pending(c, requests[p])
    PROVE  ~Locked(c) /\ UNCHANGED <<now, lockouts, failed>>
<1>1. requests \in [Requests -> Calls] /\ scenario.requests \subseteq Requests
      /\ \A q \in Requests : requests[q] \in Calls
  BY Numbers, Zenon DEF Shapes
<1>2. ASSUME NEW q \in Requests, NEW n, requests' = [requests EXCEPT ![q] = n],
             Pending(c, n) => Pending(c, requests[q])
      PROVE  FALSE
  <2>1. requests'[p] = IF p = q THEN n ELSE requests[p]
    BY <1>1, <1>2
  <2> QED
    BY <1>2, <2>1, Zenon
<1>3. ASSUME NEW q \in Requests, End(q) PROVE FALSE
  BY <1>2, <1>3, IdleIsNotPending, Zenon DEF End
<1>4. ASSUME UNCHANGED requests PROVE FALSE
  BY <1>4, Zenon
<1>5. ASSUME NEW q \in Requests, guard_refuses(q) PROVE ~Locked(c) /\ UNCHANGED <<now, lockouts, failed>>
  <2> DEFINE n == [requests[q] EXCEPT !.pc = "denied"]
  <2>1. requests' = [requests EXCEPT ![q] = n]
    BY <1>1, <1>5, Zenon DEF guard_refuses, Go
  <2>2. n.pc = "denied"
    BY <1>1, Zenon DEF Calls
  <2> HIDE DEF n
  <2>3. c # "verify"
    BY <1>2, <2>1, <2>2, Zenon DEF Pending
  <2> QED
    BY <1>5, <2>3, Zenon DEF guard_refuses, around, history, Counters
<1>6. ASSUME NEW q \in Requests, verify(q) PROVE ~Locked(c) /\ UNCHANGED <<now, lockouts, failed>>
  <2>1. ASSUME c = "peer", NEW n, requests' = [requests EXCEPT ![q] = n], n.pc # "denied"
        PROVE  FALSE
    BY <1>2, <2>1, Zenon DEF Pending
  <2> DEFINE x == [Idle EXCEPT !.pc = "invalid", !.kind = "verify"]
             y(v) == [Idle EXCEPT !.pc = "read", !.kind = "verify", !.value = v, !.at = now]
  <2>2. x.pc # "denied" /\ \A v : y(v).pc # "denied"
    BY DEF Idle
  <2>3. requests' = [requests EXCEPT ![q] = x] \/ \E v : requests' = [requests EXCEPT ![q] = y(v)]
    BY <1>6, Zenon DEF verify
  <2> HIDE DEF x, y
  <2>4. c # "peer"
    BY <2>1, <2>2, <2>3, Zenon
  <2> QED
    BY <1>6, <2>4, Zenon DEF verify, around, history, Counters
<1>7. ASSUME NEW q \in Requests, get_secret(q) PROVE FALSE
  <2> DEFINE n == [Idle EXCEPT !.pc = "open", !.kind = "get", !.todo = {Stored(current)}]
  <2>1. requests' = [requests EXCEPT ![q] = n]
    BY <1>7, Zenon DEF get_secret
  <2>2. n.pc = "open" /\ n.kind = "get"
    BY DEF Idle
  <2> HIDE DEF n
  <2> QED
    BY <1>2, <2>1, <2>2 DEF Pending
<1>8. ASSUME NEW q \in Requests, verify_read(q) PROVE FALSE
  <2> DEFINE p1 == IF live_versions(requests[q].at) = {} THEN "invalid" ELSE "open"
             rows1 == {Stored(v) : v \in live_versions(requests[q].at)}
             n == [requests[q] EXCEPT !.pc = p1, !.at = 0, !.todo = rows1]
  <2>1. requests' = [requests EXCEPT ![q] = n] /\ requests[q].pc = "read"
    BY <1>1, <1>8, Zenon DEF verify_read
  <2>2. p1 # "denied"
    OBVIOUS
  <2> HIDE DEF p1, rows1
  <2>3. n.pc = p1 /\ n.kind = requests[q].kind
    BY <1>1, Zenon DEF Calls
  <2> HIDE DEF n
  <2> QED
    BY <1>2, <2>1, <2>2, <2>3 DEF Pending
<1>9. ASSUME NEW q \in Requests, cache_hit(q) \/ kms_answers(q) PROVE FALSE
  <2>1. PICK key : Opened(q, key) /\ requests[q].pc \in {"open", "kms"}
    BY <1>9, Zenon DEF cache_hit, kms_answers
  <2>2. \A r \in Requests : r # q => requests'[r] = requests[r]
    BY <2>1, OpenedTurn
  <2> QED
    <3>1. Pending(c, requests'[q]) => Pending(c, requests[q])
      BY <2>1, OpenedStays
    <3> QED
      BY <2>2, <3>1, Zenon
<1>10. ASSUME NEW q \in Requests, cache_miss(q) PROVE FALSE
  <2> DEFINE n == [requests[q] EXCEPT !.pc = "kms"]
  <2>1. requests' = [requests EXCEPT ![q] = n] /\ requests[q].pc = "open"
    BY <1>1, <1>10, Zenon DEF cache_miss, Go
  <2>2. n.pc = "kms" /\ n.kind = requests[q].kind
    BY <1>1, Zenon DEF Calls
  <2> HIDE DEF n
  <2> QED
    BY <1>2, <2>1, <2>2 DEF Pending
<1>11. ASSUME NEW q \in Requests, kms_fails(q) PROVE FALSE
  <2>1. CASE End(q)
    BY <1>3, <2>1
  <2>2. CASE ~End(q)
    <3> DEFINE n == [requests[q] EXCEPT !.attempt = @ + 1]
    <3>1. requests' = [requests EXCEPT ![q] = n]
      BY <1>1, <1>11, <2>2, Zenon DEF kms_fails, Retry
    <3>2. n.pc = requests[q].pc /\ n.kind = requests[q].kind
      BY <1>1, Zenon DEF Calls
    <3> HIDE DEF n
    <3> QED
      BY <1>2, <3>1, <3>2 DEF Pending
  <2> QED
    BY <2>1, <2>2
<1>12. ASSUME restart PROVE FALSE
  <2>1. requests'[p] = Idle
    BY <1>12, Zenon DEF restart
  <2> QED
    BY <2>1, IdleIsNotPending, Zenon
<1>13. \/ UNCHANGED requests \/ restart
       \/ \E q \in scenario.requests :
             \/ guard_refuses(q) \/ get_secret(q) \/ verify(q) \/ verify_read(q)
             \/ cache_hit(q) \/ cache_miss(q) \/ kms_answers(q) \/ kms_fails(q) \/ End(q)
  BY Zenon DEF Next, Serve, record_denied, answer, record_verify, abandon, tick, put_version,
     delete_secret, expire_grace_versions, rewrap_version, kms_changes
<1> QED
  BY <1>1, <1>3, <1>4, <1>5, <1>6, <1>7, <1>8, <1>9, <1>10, <1>11, <1>12, <1>13, Zenon

(* A step counts a failure of a request that was pending and ends, or       *)
(* leaves the counters as they are.                                         *)
LEMMA Recorder ==
    ASSUME Shapes, [Next]_vars
    PROVE  \/ UNCHANGED <<lockouts, failed>>
           \/ \E c \in Counters, q \in scenario.requests :
                 /\ Pending(c, requests[q]) /\ End(q)
                 /\ lockouts' = [lockouts EXCEPT ![c] = RecordAuthFailure(c)]
                 /\ failed' = [failed EXCEPT ![c] = Append(@, now)]
                 /\ UNCHANGED now
<1>1. "peer" \in Counters /\ verify_key \in Counters /\ verify_key # "peer"
  BY DEF Counters, verify_key
<1>2. \A q \in scenario.requests : requests[q].pc = "invalid" => requests[q].kind = "verify"
  BY Numbers DEF Shapes
<1>3. \A q \in scenario.requests :
         /\ requests[q].pc = "denied" => Pending("peer", requests[q])
         /\ requests[q].pc = "invalid" => Pending(verify_key, requests[q])
  BY <1>1, <1>2 DEF Pending
<1> QED
  BY <1>1, <1>3, Zenon DEF Next, vars, secret, history, Serve, guard_refuses, get_secret, verify,
     record_denied, verify_read, cache_hit, cache_miss, kms_answers, kms_fails, answer,
     record_verify, abandon, tick, put_version, delete_secret,
     expire_grace_versions, rewrap_version, kms_changes, restart, around, Record

(* The requests in flight are among those made.                             *)
LEMMA FlightSize ==
    ASSUME Shapes, NEW c, NEW F, F \subseteq InFlight(c)
    PROVE  /\ IsFiniteSet(F) /\ Cardinality(F) \in Nat
           /\ IsFiniteSet(InFlight(c)) /\ Cardinality(InFlight(c)) \in Nat
           /\ Cardinality(scenario.requests) \in Nat
           /\ Cardinality(F) <= Cardinality(InFlight(c))
           /\ Cardinality(InFlight(c)) <= Cardinality(scenario.requests)
<1>1. IsFiniteSet(scenario.requests)
  BY Numbers, ReadPathAssumption, FS_Subset
<1>2. InFlight(c) \in SUBSET scenario.requests
  BY Zenon DEF InFlight
<1>3. IsFiniteSet(InFlight(c)) /\ Cardinality(InFlight(c)) <= Cardinality(scenario.requests)
  BY <1>1, <1>2, FS_Subset, Zenon
<1>4. IsFiniteSet(F) /\ Cardinality(F) <= Cardinality(InFlight(c))
  BY <1>3, FS_Subset
<1> QED
  BY <1>1, <1>3, <1>4, FS_CardinalityType, Zenon

(* What RecordAuthFailure makes of a row, and of none.                      *)
LEMMA TallyOf ==
    ASSUME Shapes, NEW c \in Counters, MaxFailures > 1
    PROVE  /\ RecordAuthFailure(c) # NONE
           /\ lockouts[c] # NONE => RecordAuthFailure(c) = Tallied(MaxFailures, lockouts[c], now)
           /\ lockouts[c] = NONE => RecordAuthFailure(c) =
                 [failures |-> 1, window_start |-> now, locked_until |-> NONE]
<1>1. RecordAuthFailure(c) # NONE
  <2>1. RecordAuthFailure(c) \in LockoutRecord
    <3>1. now \in Nat /\ RecordAuthFailure(c) \in Tallies(now)
      BY TallyShape, Numbers
    <3> QED
      BY <3>1 DEF Tallies, LockoutRecord
  <2> QED
    BY <2>1, NoneIsNoRow
<1>2. ASSUME lockouts[c] # NONE
      PROVE  RecordAuthFailure(c) = Tallied(MaxFailures, lockouts[c], now)
  BY <1>2, Zenon DEF RecordAuthFailure, Tallied, Full
<1>3. ASSUME lockouts[c] = NONE
      PROVE  RecordAuthFailure(c) = [failures |-> 1, window_start |-> now, locked_until |-> NONE]
  <2> DEFINE old == [failures |-> 0, window_start |-> now, locked_until |-> NONE]
             elapsed == now - now >= Window
             f == (IF elapsed THEN 0 ELSE 0) + 1
  <2>1. f = 1 /\ ~(f >= MaxFailures)
    BY Numbers
  <2>2. old.failures = 0 /\ old.window_start = now /\ old.locked_until = NONE
    OBVIOUS
  <2>3. RecordAuthFailure(c) =
          [failures |-> f, window_start |-> IF elapsed THEN now ELSE now,
           locked_until |-> IF f >= MaxFailures THEN now + Lockout ELSE NONE]
    BY <1>3, <2>2, Zenon DEF RecordAuthFailure, Full
  <2> HIDE DEF f, elapsed
  <2> QED
    BY <2>1, <2>3, Zenon
<1> QED
  BY <1>1, <1>2, <1>3, Zenon

(* Every step keeps the counters within their budget.                       *)
LEMMA BudgetStep ==
    ASSUME Shapes, BudgetInv, [Next]_vars PROVE BudgetInv'
<1> DEFINE Goal(c) ==
        IF lockouts'[c] = NONE THEN failed'[c] = <<>>
        ELSE Budgeted(MaxFailures, failed'[c], lockouts'[c], now',
                      Cardinality(InFlight(c)'), Cardinality(scenario.requests))
<1>1. scenario' = scenario /\ MaxFailures' = MaxFailures
  BY ScenarioStays, Zenon DEF MaxFailures
<1> SUFFICES ASSUME MaxFailures > 1, Window <= Lockout, NEW c \in Counters PROVE Goal(c)
  BY <1>1, Zenon DEF BudgetInv
<1> DEFINE m == MaxFailures
           n == Cardinality(scenario.requests)
           k == Cardinality(InFlight(c))
           j == Cardinality(InFlight(c)')
           s == failed[c]
           r == lockouts[c]
<1>2. /\ now \in Nat /\ now' \in Nat /\ now <= now'
      /\ m \in Nat /\ s \in Seq(0..now)
      /\ r = NONE \/ r \in Tallies(now)
  BY Numbers, NumbersMove, Zenon DEF Shapes, Tallies
<1>3. k \in Nat /\ n \in Nat /\ k <= n
  BY FlightSize, Zenon
<1>4. IF r = NONE THEN s = <<>> ELSE Budgeted(m, s, r, now, k, n)
  BY Zenon DEF BudgetInv
<1>5. ASSUME failed'[c] = s, lockouts'[c] = r, InFlight(c)' \subseteq InFlight(c) PROVE Goal(c)
  <2>1. j \in Nat /\ j <= k
    BY <1>5, FlightSize, Zenon
  <2>2. CASE r = NONE
    BY <1>4, <1>5, <2>2, Zenon
  <2>3. CASE r # NONE
    <3> HIDE DEF j, k, m, n, s, r
    <3>1. Budgeted(m, s, r, now', j, n)
      BY <1>2, <1>3, <1>4, <2>1, <2>3, LaterBudget, Zenon
    <3> QED
      BY <1>5, <2>3, <3>1, Zenon DEF j, m, n
  <2> QED
    BY <2>2, <2>3
<1>6. CASE UNCHANGED <<lockouts, failed>>
  <2>1. CASE InFlight(c)' \subseteq InFlight(c)
    BY <1>5, <1>6, <2>1, Zenon
  <2>2. CASE ~(InFlight(c)' \subseteq InFlight(c))
    <3>1. PICK p \in Requests : Pending(c, requests'[p]) /\ ~Pending(c, requests[p])
      BY <1>1, <2>2, Numbers, Zenon DEF InFlight
    <3>2. Next
      BY <3>1, Zenon DEF vars
    <3>3. ~Locked(c) /\ now' = now
      BY <3>1, <3>2, Enters, Zenon
    <3>4. CASE r = NONE
      BY <1>4, <1>6, <3>4, Zenon
    <3>5. CASE r # NONE
      <4>1. ~(r.locked_until # NONE /\ r.locked_until > now)
        BY <3>3, <3>5, Zenon DEF Locked
      <4> HIDE DEF j, k, m, n, s, r
      <4>2. Budgeted(m, s, r, now, j, n)
        BY <1>2, <1>4, <3>5, <4>1, OpenBudget, Zenon
      <4> QED
        BY <1>6, <3>3, <3>5, <4>2, Zenon DEF j, m, n, s, r
    <3> QED
      BY <3>4, <3>5
  <2> QED
    BY <2>1, <2>2
<1>7. ASSUME NEW d \in Counters, NEW q \in scenario.requests,
             Pending(d, requests[q]), End(q),
             lockouts' = [lockouts EXCEPT ![d] = RecordAuthFailure(d)],
             failed' = [failed EXCEPT ![d] = Append(@, now)], now' = now
      PROVE  Goal(c)
  <2>1. requests'[q] = Idle /\ \A p \in Requests : p # q => requests'[p] = requests[p]
    BY <1>7, Numbers, Zenon DEF End, Shapes
  <2>2. InFlight(c)' \subseteq InFlight(c) \ {q}
    BY <1>1, <2>1, Numbers, IdleIsNotPending, Zenon DEF InFlight
  <2>3. /\ d # c => lockouts'[c] = r /\ failed'[c] = s
        /\ d = c => lockouts'[c] = RecordAuthFailure(c) /\ failed'[c] = Append(s, now)
    BY <1>7, Zenon DEF Shapes
  <2>4. CASE d # c
    BY <1>5, <2>2, <2>3, <2>4, Zenon
  <2>5. CASE d = c
    <3>1. q \in InFlight(c)
      BY <1>7, <2>5, Zenon DEF InFlight
    <3>2. j \in Nat /\ j < k
      <4> DEFINE F == InFlight(c) \ {q}
      <4>1. F \subseteq InFlight(c) /\ InFlight(c)' \in SUBSET F
        BY <2>2, Zenon
      <4>2. IsFiniteSet(F) /\ IsFiniteSet(InFlight(c)) /\ Cardinality(F) \in Nat
        BY <4>1, FlightSize, Zenon
      <4>3. Cardinality(F) = k - 1
        BY <3>1, <4>2, FS_RemoveElement, Zenon
      <4>4. IsFiniteSet(InFlight(c)') /\ j <= Cardinality(F)
        BY <4>1, <4>2, FS_Subset, Zenon
      <4>5. j \in Nat
        BY <4>4, FS_CardinalityType, Zenon
      <4> HIDE DEF F, j, k
      <4> QED
        BY <1>3, <4>2, <4>3, <4>4, <4>5
    <3>3. lockouts'[c] # NONE
      BY <2>3, <2>5, TallyOf, Zenon
    <3>4. CASE r = NONE
      <4> DEFINE x == [failures |-> 1, window_start |-> now, locked_until |-> NONE]
      <4>1. lockouts'[c] = x
        BY <2>3, <2>5, <3>4, TallyOf, Zenon
      <4>2. failed'[c] = <<now>>
        BY <1>4, <2>3, <2>5, <3>4
      <4> HIDE DEF x, j, m, n
      <4>3. Budgeted(m, <<now>>, x, now, j, n)
        BY <1>2, FirstBudget, Zenon DEF x, m
      <4> QED
        BY <1>7, <3>3, <4>1, <4>2, <4>3, Zenon DEF j, m, n
    <3>5. CASE r # NONE
      <4>1. lockouts'[c] = Tallied(m, r, now) /\ failed'[c] = Append(s, now)
        BY <2>3, <2>5, <3>5, TallyOf, Zenon
      <4>2. m > 1
        OBVIOUS
      <4> HIDE DEF j, k, m, n, s, r
      <4>3. j <= k
        BY <1>3, <3>2
      <4>4. Budgeted(m, Append(s, now), Tallied(m, r, now), now, j, n)
        BY <1>2, <1>3, <1>4, <3>2, <3>5, <4>2, <4>3, NextWindow, SameWindow, Zenon
      <4> QED
        BY <1>7, <3>3, <4>1, <4>4, Zenon DEF j, m, n
    <3> QED
      BY <3>4, <3>5
  <2> QED
    BY <2>4, <2>5
<1> HIDE DEF Goal
<1> QED
  BY <1>6, <1>7, Recorder, Zenon

(* The inductive invariant of the failure counters, in every behaviour.     *)
THEOREM BudgetInvariance == Spec => []BudgetInv
<1>1. Init => BudgetInv
  BY DEF Init, BudgetInv
<1>2. ExactInv /\ BudgetInv /\ [Next]_vars => BudgetInv'
  BY BudgetStep DEF ExactInv
<1> QED
  BY <1>1, <1>2, ExactInvariance, PTL DEF Spec

(* However the requests of a peer overlap, and whatever restarts, is        *)
(* abandoned or fails to be stored, the failures recorded within any Window *)
(* seconds stay below two windows' worth plus the requests in flight, if a  *)
(* lock lasts as long as a window (lockout.rs; state_machine.rs,            *)
(* RecordAuthFailure).                                                      *)
THEOREM GuessBudgetAlways == Spec => []GuessBudget
<1>1. ExactInv /\ BudgetInv => GuessBudget
  <2> SUFFICES ASSUME Shapes, BudgetInv, MaxFailures > 1, Window <= Lockout, NEW c \in Counters
               PROVE  Cardinality(Recent(c))
                         <= 2 * MaxFailures - 3 + Cardinality(scenario.requests)
    BY Zenon DEF ExactInv, GuessBudget
  <2> DEFINE m == MaxFailures
             n == Cardinality(scenario.requests)
             k == Cardinality(InFlight(c))
             s == failed[c]
             r == lockouts[c]
  <2>1. /\ now \in Nat /\ m \in Nat /\ m > 1 /\ s \in Seq(0..now)
        /\ r = NONE \/ r \in Tallies(now)
    BY Numbers, Zenon DEF Shapes, Tallies
  <2>2. k \in Nat /\ n \in Nat
    BY FlightSize, Zenon
  <2>3. IF r = NONE THEN s = <<>> ELSE Budgeted(m, s, r, now, k, n)
    BY Zenon DEF BudgetInv
  <2>4. Recent(c) = {i \in 1..Len(s) : now - s[i] < Window}
    BY Zenon DEF Recent
  <2> HIDE DEF k, m, n, s, r
  <2>5. CASE r = NONE
    <3>1. Recent(c) = {}
      BY <2>3, <2>4, <2>5
    <3>2. Cardinality(Recent(c)) = 0
      BY <3>1, FS_EmptySet, Zenon
    <3>3. 0 <= 2 * m - 3 + n
      BY <2>1, <2>2
    <3> QED
      BY <3>2, <3>3, Zenon DEF m, n
  <2>6. CASE r # NONE
    <3>1. Cardinality(Recent(c)) <= 2 * m - 3 + n
      BY <2>1, <2>2, <2>3, <2>4, <2>6, WithinBudget, Zenon
    <3> QED
      BY <3>1, Zenon DEF m, n
  <2> QED
    BY <2>5, <2>6
<1> QED
  BY <1>1, BudgetInvariance, ExactInvariance, PTL
==============================================================================
