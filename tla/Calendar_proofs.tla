-------------------------- MODULE Calendar_proofs --------------------------
(***************************************************************************)
(* Proofs about the calendar, for any users, wishes, window, length of the *)
(* day and number of days.                                                 *)
(*                                                                         *)
(* The search: the recursive functions of the loops have a solution        *)
(* (RecursionExists), a turn keeps what the loop knows of the minutes it   *)
(* has seen (TurnKeeps), and what it knows at the end is IsBest.           *)
(*                                                                         *)
(* The state: LockInv says who holds the mutex and the semaphore of the    *)
(* writers and what the counter of readers counts; it makes whoever is     *)
(* between the load and the store of a booking the only writer, so that    *)
(* LoadedIsFresh and with it BookingsCounted are kept.  BookingsCounted in *)
(* turn bounds the minutes of the calendar by the number of users, which   *)
(* the search needs to find every crowd below INT_MAX.                     *)
(***************************************************************************)
EXTENDS Calendar, FiniteSetTheorems, WellFoundedInduction, TLAPS

----------------------------------------------------------------------------
(* INDUCTION AND RECURSION OVER AN INTERVAL                                  *)

(* A set that holds the first number of an interval and with each number the *)
(* next one holds them all.                                                  *)
LEMMA Reaches ==
  ASSUME NEW a \in Int, NEW b \in Int, NEW T, a \in T,
         \A i \in a + 1..b : i - 1 \in T => i \in T
  PROVE  a..b \subseteq T
<1> DEFINE R == OpToRel(<, Nat)
           B == {n \in Nat : a + n <= b /\ a + n \notin T}
<1>1. IsWellFoundedOn(R, Nat)
  BY NatLessThanWellFounded
<1>2. \A x, y \in Nat : <<y, x>> \in R <=> y < x
  BY DEF OpToRel
<1>3. ASSUME B # {} PROVE FALSE
  <2>1. B \in SUBSET Nat
    OBVIOUS
  <2>2. \E n \in B : \A k \in B : ~ (<<k, n>> \in R)
    <3> HIDE DEF R, B
    <3> QED BY <1>1, <1>3, <2>1, WFMin
  <2>3. PICK n \in B : \A k \in B : ~ (<<k, n>> \in R)
    BY <2>2
  <2>4. n \in Nat /\ a + n <= b /\ a + n \notin T
    OBVIOUS
  <2>5. n # 0
    BY <2>4
  <2>6. n - 1 \in Nat /\ a + (n - 1) <= b /\ n - 1 < n /\ a + (n - 1) = a + n - 1
    BY <2>4, <2>5
  <2>7. <<n - 1, n>> \in R
    BY <1>2, <2>4, <2>6, Zenon
  <2>8. a + (n - 1) \in T
    BY <2>3, <2>6, <2>7
  <2>9. a + n \in a + 1..b
    BY <2>4, <2>5
  <2> QED BY <2>4, <2>6, <2>8, <2>9
<1>4. ASSUME NEW i \in a..b PROVE i \in T
  <2>1. i - a \in Nat /\ a + (i - a) = i
    OBVIOUS
  <2>2. a + (i - a) <= b
    BY <2>1
  <2>3. i - a \notin B
    BY <1>3
  <2> QED BY <2>1, <2>2, <2>3
<1> QED BY <1>4

(* A function defined from its value at the number before exists, when one   *)
(* step of the definition, the function G, stays in the values V.            *)
Unfolds(f, a, b, v, G) ==
  f = [i \in a..b |-> IF i = a THEN v ELSE G[<<i, f[i - 1]>>]]

LEMMA RecursionExists ==
  ASSUME NEW a \in Int, NEW b \in Int, a <= b, NEW V, NEW v \in V, NEW G \in [Int \X V -> V]
  PROVE  /\ \E f : Unfolds(f, a, b, v, G)
         /\ \A f : Unfolds(f, a, b, v, G) => f \in [a..b -> V]
<1> DEFINE T == {k \in Int : \E f \in [a..k -> V] : Unfolds(f, a, k, v, G)}
<1>1. a \in T
  <2> DEFINE f == [i \in a..a |-> v]
  <2>1. f \in [a..a -> V] /\ Unfolds(f, a, a, v, G)
    BY DEF Unfolds
  <2> HIDE DEF f
  <2> QED BY <2>1
<1>2. ASSUME NEW k \in a + 1..b, k - 1 \in T PROVE k \in T
  <2>0. k \in Int /\ a < k
    OBVIOUS
  <2>1. PICK s \in [a..(k - 1) -> V] : Unfolds(s, a, k - 1, v, G)
    BY <1>2
  <2> DEFINE f == [i \in a..k |-> IF i = k THEN G[<<k, s[k - 1]>>] ELSE s[i]]
  <2>2. s[k - 1] \in V
    BY <2>0
  <2>3. f \in [a..k -> V]
    <3>1. ASSUME NEW i \in a..k PROVE (IF i = k THEN G[<<k, s[k - 1]>>] ELSE s[i]) \in V
      BY <2>0, <2>2
    <3> QED BY <3>1
  <2>4. ASSUME NEW i \in a..k PROVE f[i] = IF i = a THEN v ELSE G[<<i, f[i - 1]>>]
    <3>1. CASE i = k
      <4>1. f[k - 1] = s[k - 1] /\ i # a
        BY <2>0, <3>1
      <4> QED BY <3>1, <4>1
    <3>2. CASE i # k
      <4>1. i \in a..(k - 1) /\ (i # a => i - 1 \in a..k /\ i - 1 # k)
        BY <2>0, <3>2
      <4>2. s[i] = IF i = a THEN v ELSE G[<<i, s[i - 1]>>]
        BY <2>1, <4>1 DEF Unfolds
      <4>3. f[i] = s[i] /\ (i # a => f[i - 1] = s[i - 1])
        BY <3>2, <4>1
      <4> QED BY <4>2, <4>3
    <3> QED BY <3>1, <3>2
  <2>5. Unfolds(f, a, k, v, G)
    <3>1. f = [i \in a..k |-> f[i]]
      OBVIOUS
    <3> HIDE DEF f
    <3> QED BY <2>4, <3>1 DEF Unfolds
  <2> HIDE DEF f
  <2> QED BY <2>0, <2>3, <2>5
<1>3. b \in T
  <2> HIDE DEF T
  <2>1. a..b \subseteq T
    BY <1>1, <1>2, Reaches
  <2> QED BY <2>1
<1>4. ASSUME NEW f, Unfolds(f, a, b, v, G) PROVE f \in [a..b -> V]
  <2>1. f = [i \in a..b |-> f[i]]
        /\ \A i \in a..b : f[i] = IF i = a THEN v ELSE G[<<i, f[i - 1]>>]
    BY <1>4 DEF Unfolds
  <2> DEFINE U == {i \in a..b : f[i] \in V}
  <2>2. a \in U
    <3>1. a \in a..b
      OBVIOUS
    <3>2. f[a] = v
      BY <2>1, <3>1
    <3> QED BY <3>1, <3>2
  <2>3. ASSUME NEW i \in a + 1..b, i - 1 \in U PROVE i \in U
    <3>1. i \in a..b /\ i \in Int /\ i # a /\ f[i - 1] \in V
      BY <2>3
    <3>2. f[i] = G[<<i, f[i - 1]>>]
      BY <2>1, <3>1
    <3>3. G[<<i, f[i - 1]>>] \in V
      BY <3>1
    <3> QED BY <3>1, <3>2, <3>3
  <2>4. a..b \subseteq U
    <3> HIDE DEF U
    <3> QED BY <2>2, <2>3, Reaches
  <2> QED BY <2>1, <2>4
<1> QED BY <1>3, <1>4

----------------------------------------------------------------------------
(* THE SEARCH                                                                *)

N == Cardinality(Users)

LEMMA SizesAreNatural ==
  /\ N \in Nat /\ MINUTES_IN_DAY \in Nat /\ MINUTES_IN_DAY > 0 /\ WINDOW \in Nat
  /\ Infinite \in Nat /\ N * MINUTES_IN_DAY < Infinite
BY CalendarAssumption, FS_CardinalityType DEF N, Infinite

(* A calendar that no minute of the day finds fuller than there are users.   *)
Calendars == {cal \in [Cells -> Nat] : \A m \in Minutes : cal[m] <= N}
Fits(m, duration) == m >= 0 /\ m + duration < MINUTES_IN_DAY

(* The crowd of a booking that ends before the day is a number, and no       *)
(* minute of it holds more than all the users.                               *)
LEMMA CrowdTyped ==
  ASSUME NEW cal \in Calendars, NEW d \in 1..MINUTES_IN_DAY, NEW m \in Int, Fits(m, d)
  PROVE  Crowd(cal, m, d) \in Nat /\ Crowd(cal, m, d) < Infinite
<1> DEFINE cell(j) == cal[m + j - 1]
           G == [x \in Int \X Int |-> IF x[1] \in 1..d THEN x[2] + cell(x[1]) ELSE 0]
           Sums(s) == s = [j \in 0..d |-> IF j = 0 THEN 0 ELSE s[j - 1] + cell(j)]
           sum == CHOOSE s : Sums(s)
<1>0. N \in Nat /\ MINUTES_IN_DAY \in Nat /\ Infinite \in Nat /\ d \in Nat /\ d <= MINUTES_IN_DAY
      /\ N * MINUTES_IN_DAY < Infinite
  BY SizesAreNatural
<1>1. ASSUME NEW j \in 1..d PROVE cell(j) \in 0..N
  <2>1. m + j - 1 \in Minutes /\ m + j - 1 \in Cells
    BY <1>0 DEF Fits, Minutes, Cells
  <2>2. cal[m + j - 1] \in Nat /\ cal[m + j - 1] <= N
    BY <2>1 DEF Calendars
  <2> QED BY <1>0, <2>2
<1>2. Crowd(cal, m, d) = sum[d]
  BY DEF Crowd
<1> HIDE DEF cell
<1>3. G \in [Int \X Int -> Int]
  <2>1. ASSUME NEW x \in Int \X Int
        PROVE  (IF x[1] \in 1..d THEN x[2] + cell(x[1]) ELSE 0) \in Int
    BY <1>0, <1>1
  <2> QED BY <2>1
<1>4. \E s : Sums(s)
  <2>0. /\ \E s : Unfolds(s, 0, d, 0, G)
        /\ \A s : Unfolds(s, 0, d, 0, G) => s \in [0..d -> Int]
    <3>1. 0 \in Int /\ d \in Int /\ 0 <= d
      BY <1>0
    <3> HIDE DEF G
    <3> QED BY <1>3, <3>1, RecursionExists
  <2>1. PICK s : Unfolds(s, 0, d, 0, G) /\ s \in [0..d -> Int]
    <3> HIDE DEF G
    <3> QED BY <2>0
  <2>2. ASSUME NEW j \in 0..d PROVE s[j] = IF j = 0 THEN 0 ELSE s[j - 1] + cell(j)
    <3>1. CASE j = 0
      BY <1>0, <2>1, <3>1 DEF Unfolds
    <3>2. CASE j # 0
      <4>1. j \in 1..d /\ j \in Int /\ s[j - 1] \in Int
        BY <1>0, <2>1, <3>2
      <4>2. s[j] = G[<<j, s[j - 1]>>]
        <5> HIDE DEF G
        <5> QED BY <2>1, <3>2 DEF Unfolds
      <4> QED BY <3>2, <4>1, <4>2
    <3> QED BY <3>1, <3>2
  <2>3. s = [j \in 0..d |-> s[j]]
    BY <2>1
  <2> QED BY <2>2, <2>3
<1>5. Sums(sum)
  <2> HIDE DEF Sums
  <2> QED BY <1>4
<1> HIDE DEF sum
<1>6. sum[0] = 0 /\ \A j \in 1..d : sum[j] = sum[j - 1] + cell(j)
  <2>1. \A j \in 0..d : sum[j] = IF j = 0 THEN 0 ELSE sum[j - 1] + cell(j)
    BY <1>5
  <2> QED BY <1>0, <2>1
<1> DEFINE T == {j \in 0..d : sum[j] \in Nat /\ sum[j] <= N * j}
<1>7. 0 \in T
  BY <1>0, <1>6
<1>8. ASSUME NEW j \in 0 + 1..d, j - 1 \in T PROVE j \in T
  <2>1. j \in 1..d /\ j \in Nat
    BY <1>0
  <2>2. sum[j] = sum[j - 1] + cell(j) /\ cell(j) \in 0..N
    BY <1>1, <1>6, <2>1
  <2>3. sum[j - 1] \in Nat /\ sum[j - 1] <= N * (j - 1)
    BY <1>8
  <2>4. N * (j - 1) + N = N * j
    BY <1>0, <2>1
  <2>5. N * (j - 1) \in Int /\ N * j \in Int
    BY <1>0, <2>1
  <2> HIDE DEF T
  <2>6. sum[j] \in Nat /\ sum[j] <= N * j
    BY <1>0, <2>2, <2>3, <2>4, <2>5
  <2> USE DEF T
  <2> QED BY <1>0, <2>1, <2>6
<1>9. 0..d \subseteq T
  <2> HIDE DEF T
  <2> QED BY <1>0, <1>7, <1>8, Reaches
<1>10. sum[d] \in Nat /\ sum[d] <= N * d
  BY <1>0, <1>9
<1>11. N * d <= N * MINUTES_IN_DAY /\ N * d \in Nat /\ N * MINUTES_IN_DAY \in Nat
  BY <1>0
<1> QED BY <1>0, <1>2, <1>10, <1>11

(* One turn of the loop.                                                     *)
Progress == [best : Int, sum : Int, closest : Int,
             emergency : Int, emergency_sum : Int, emergency_diff : Int]

LEMMA TurnTyped ==
  ASSUME NEW cal \in Calendars, NEW d \in 1..MINUTES_IN_DAY, NEW r \in Minutes, NEW m \in Int,
         NEW f \in Progress
  PROVE  Turn(f, cal, r, d, m) \in Progress
<1>0. r \in Int /\ d \in Int /\ MINUTES_IN_DAY \in Int
  BY SizesAreNatural DEF Minutes
<1>1. Abs(r - m) \in Int
  BY <1>0 DEF Abs
<1>2. CASE m >= MINUTES_IN_DAY \/ d + m >= MINUTES_IN_DAY
  BY <1>1, <1>2 DEF Turn, Progress
<1>3. CASE ~(m >= MINUTES_IN_DAY \/ d + m >= MINUTES_IN_DAY) /\ m < 0
  BY <1>3 DEF Turn
<1>4. CASE ~(m >= MINUTES_IN_DAY \/ d + m >= MINUTES_IN_DAY) /\ ~(m < 0)
  <2>1. Crowd(cal, m, d) \in Int
    <3>1. Fits(m, d)
      BY <1>0, <1>4 DEF Fits
    <3> QED BY <3>1, CrowdTyped
  <2> DEFINE sum == Crowd(cal, m, d)
             diff == Abs(r - m)
             better == sum < f.sum \/ (sum = f.sum /\ diff < f.closest)
             fallback == sum < f.emergency_sum
                         \/ (sum = f.emergency_sum /\ diff < f.emergency_diff)
             best_of == IF better THEN [f EXCEPT !.best = m, !.sum = sum, !.closest = diff] ELSE f
  <2>2. Turn(f, cal, r, d, m) =
          IF fallback
          THEN [best_of EXCEPT !.emergency = m, !.emergency_sum = sum, !.emergency_diff = diff]
          ELSE best_of
    BY <1>4 DEF Turn
  <2>3. sum \in Int /\ diff \in Int
    BY <1>1, <2>1
  <2> HIDE DEF sum, diff, better, fallback
  <2>4. best_of \in Progress
    BY <2>3 DEF Progress
  <2> HIDE DEF best_of
  <2> QED BY <2>2, <2>3, <2>4 DEF Progress
<1> QED BY <1>2, <1>3, <1>4

(* What the loop knows after its turn i: the best of the fitting minutes it  *)
(* has seen, or that there was none; and as long as there was none, whether  *)
(* it has met the wished minute.                                             *)
Seen(r, d, i) == {m \in Fitting(r, d) : m <= r + i}
NoWorse(cal, r, d, b, m) ==
  \/ Crowd(cal, b, d) < Crowd(cal, m, d)
  \/ /\ Crowd(cal, b, d) = Crowd(cal, m, d)
     /\ \/ Abs(r - b) < Abs(r - m)
        \/ Abs(r - b) = Abs(r - m) /\ b <= m
Knows(f, cal, r, d, i) ==
  /\ f \in Progress
  /\ Seen(r, d, i) = {} =>
       /\ f.best = -1 /\ f.sum = Infinite
       /\ IF i < 0 THEN f.emergency_diff > 0 ELSE f.emergency = r /\ f.emergency_diff = 0
  /\ Seen(r, d, i) # {} =>
       /\ f.best \in Seen(r, d, i)
       /\ f.sum = Crowd(cal, f.best, d) /\ f.closest = Abs(r - f.best)
       /\ \A m \in Seen(r, d, i) : NoWorse(cal, r, d, f.best, m)

LEMMA SeenGrows ==
  ASSUME NEW r \in Minutes, NEW d \in 1..MINUTES_IN_DAY, NEW i \in -WINDOW..WINDOW
  PROVE  Seen(r, d, i) = IF Fits(r + i, d) THEN Seen(r, d, i - 1) \cup {r + i}
                                          ELSE Seen(r, d, i - 1)
BY SizesAreNatural DEF Seen, Fitting, Fits, Minutes

LEMMA TurnKeeps ==
  ASSUME NEW cal \in Calendars, NEW d \in 1..MINUTES_IN_DAY, NEW r \in Minutes,
         NEW i \in -WINDOW..WINDOW, NEW f, Knows(f, cal, r, d, i - 1)
  PROVE  Knows(Turn(f, cal, r, d, r + i), cal, r, d, i)
<1> DEFINE m == r + i
           g == Turn(f, cal, r, d, m)
<1> SUFFICES Knows(g, cal, r, d, i)
  OBVIOUS
<1>0. /\ r \in Int /\ d \in Int /\ i \in Int /\ m \in Int
      /\ MINUTES_IN_DAY \in Nat /\ MINUTES_IN_DAY > 0 /\ 0 <= r /\ r < MINUTES_IN_DAY /\ d >= 1
  BY SizesAreNatural DEF Minutes
<1>1. f \in Progress
  BY DEF Knows
<1>2. g \in Progress
  BY <1>0, <1>1, TurnTyped
<1>3. CASE m >= MINUTES_IN_DAY \/ d + m >= MINUTES_IN_DAY
  <2>1. Seen(r, d, i) = Seen(r, d, i - 1)
    BY <1>0, <1>3, SeenGrows DEF Fits
  <2>2. g = IF Abs(r - m) < f.emergency_diff
            THEN [f EXCEPT !.emergency = m, !.emergency_diff = Abs(r - m)] ELSE f
    BY <1>3 DEF Turn
  <2>3. g.best = f.best /\ g.sum = f.sum /\ g.closest = f.closest
    BY <1>1, <2>2 DEF Progress
  <2>4. /\ r - m = -i /\ Abs(r - m) \in Int /\ (i = 0 <=> Abs(r - m) = 0) /\ Abs(r - m) >= 0
    BY <1>0 DEF Abs
  <2>5. g.emergency_diff = IF Abs(r - m) < f.emergency_diff THEN Abs(r - m) ELSE f.emergency_diff
    BY <1>1, <2>2, <2>4 DEF Progress
  <2>6. g.emergency = IF Abs(r - m) < f.emergency_diff THEN m ELSE f.emergency
    BY <1>1, <2>2, <2>4 DEF Progress
  <2>7. f.emergency_diff \in Int /\ f.emergency \in Int
    BY <1>1 DEF Progress
  <2>8. ASSUME Seen(r, d, i) = {}
        PROVE  IF i < 0 THEN g.emergency_diff > 0 ELSE g.emergency = r /\ g.emergency_diff = 0
    <3>1. IF i - 1 < 0 THEN f.emergency_diff > 0 ELSE f.emergency = r /\ f.emergency_diff = 0
      BY <2>1, <2>8 DEF Knows
    <3> HIDE DEF g
    <3> QED BY <1>0, <2>4, <2>5, <2>6, <2>7, <3>1
  <2> HIDE DEF g, m
  <2> QED BY <1>2, <2>1, <2>3, <2>8 DEF Knows
<1>4. CASE ~(m >= MINUTES_IN_DAY \/ d + m >= MINUTES_IN_DAY) /\ m < 0
  <2>1. Seen(r, d, i) = Seen(r, d, i - 1) /\ i < 0 /\ i - 1 < 0
    BY <1>0, <1>4, SeenGrows DEF Fits
  <2>2. g = f
    BY <1>4 DEF Turn
  <2> QED BY <2>1, <2>2 DEF Knows
<1>5. CASE ~(m >= MINUTES_IN_DAY \/ d + m >= MINUTES_IN_DAY) /\ ~(m < 0)
  <2>1. Fits(m, d)
    BY <1>0, <1>5 DEF Fits
  <2>2. Seen(r, d, i) = Seen(r, d, i - 1) \cup {m}
    BY <2>1, SeenGrows
  <2>3. Crowd(cal, m, d) \in Nat /\ Crowd(cal, m, d) < Infinite
    BY <1>0, <2>1, CrowdTyped
  <2> DEFINE better == Crowd(cal, m, d) < f.sum
                       \/ (Crowd(cal, m, d) = f.sum /\ Abs(r - m) < f.closest)
  <2>4. g.best = IF better THEN m ELSE f.best
    BY <1>1, <1>5 DEF Turn, Progress
  <2>5. g.sum = IF better THEN Crowd(cal, m, d) ELSE f.sum
    BY <1>1, <1>5 DEF Turn, Progress
  <2>6. g.closest = IF better THEN Abs(r - m) ELSE f.closest
    BY <1>1, <1>5 DEF Turn, Progress
  <2> HIDE DEF g
  <2>7. Abs(r - m) \in Int
    BY <1>0 DEF Abs
  <2>8. CASE Seen(r, d, i - 1) = {}
    <3>1. better
      BY <2>3, <2>8 DEF Knows
    <3>2. NoWorse(cal, r, d, m, m)
      BY <1>0 DEF NoWorse
    <3>3. Seen(r, d, i) = {m}
      BY <2>2, <2>8
    <3> HIDE DEF better, m
    <3> QED BY <1>2, <2>4, <2>5, <2>6, <3>1, <3>2, <3>3 DEF Knows
  <2>9. CASE Seen(r, d, i - 1) # {}
    <3>1. /\ f.best \in Seen(r, d, i - 1)
          /\ f.sum = Crowd(cal, f.best, d) /\ f.closest = Abs(r - f.best)
          /\ \A k \in Seen(r, d, i - 1) : NoWorse(cal, r, d, f.best, k)
      BY <2>9 DEF Knows
    <3>2. ASSUME NEW k \in Seen(r, d, i - 1)
          PROVE  /\ k \in Int /\ k < m /\ Crowd(cal, k, d) \in Nat /\ Abs(r - k) \in Int
      <4>1. k \in Int /\ k <= r + (i - 1) /\ Fits(k, d)
        BY <1>0, SizesAreNatural DEF Seen, Fitting, Fits
      <4>2. Crowd(cal, k, d) \in Nat
        BY <4>1, CrowdTyped
      <4>3. Abs(r - k) \in Int
        BY <1>0, <4>1 DEF Abs
      <4> QED BY <1>0, <4>1, <4>2, <4>3
    <3>3. CASE better
      <4>1. ASSUME NEW k \in Seen(r, d, i - 1) PROVE NoWorse(cal, r, d, m, k)
        <5>1. NoWorse(cal, r, d, f.best, k)
          BY <3>1
        <5>2. /\ k \in Int /\ k < m /\ Crowd(cal, k, d) \in Nat /\ Abs(r - k) \in Int
          BY <3>2
        <5>3. /\ Crowd(cal, f.best, d) \in Nat /\ Abs(r - f.best) \in Int
          BY <3>1, <3>2
        <5>4. Crowd(cal, m, d) < Crowd(cal, f.best, d)
              \/ (Crowd(cal, m, d) = Crowd(cal, f.best, d) /\ Abs(r - m) < Abs(r - f.best))
          BY <3>1, <3>3
        <5> HIDE DEF m, better
        <5> QED BY <2>3, <2>7, <5>1, <5>2, <5>3, <5>4 DEF NoWorse
      <4>2. NoWorse(cal, r, d, m, m)
        BY <1>0 DEF NoWorse
      <4>3. m \in Seen(r, d, i) /\ \A k \in Seen(r, d, i) : NoWorse(cal, r, d, m, k)
        BY <2>2, <4>1, <4>2
      <4>4. g.best = m /\ g.sum = Crowd(cal, m, d) /\ g.closest = Abs(r - m)
        BY <2>4, <2>5, <2>6, <3>3
      <4> HIDE DEF m, better
      <4> QED BY <1>2, <4>3, <4>4 DEF Knows
    <3>4. CASE ~better
      <4>1. NoWorse(cal, r, d, f.best, m)
        <5>1. /\ f.best \in Int /\ f.best < m
              /\ Crowd(cal, f.best, d) \in Nat /\ Abs(r - f.best) \in Int
          BY <3>1, <3>2
        <5>2. ~(Crowd(cal, m, d) < Crowd(cal, f.best, d))
              /\ ~(Crowd(cal, m, d) = Crowd(cal, f.best, d) /\ Abs(r - m) < Abs(r - f.best))
          BY <3>1, <3>4
        <5> HIDE DEF m, better
        <5> QED BY <1>0, <2>3, <2>7, <5>1, <5>2 DEF NoWorse
      <4>2. f.best \in Seen(r, d, i)
            /\ \A k \in Seen(r, d, i) : NoWorse(cal, r, d, f.best, k)
        BY <2>2, <3>1, <4>1
      <4>3. g.best = f.best /\ g.sum = f.sum /\ g.closest = f.closest
        BY <2>4, <2>5, <2>6, <3>4
      <4> HIDE DEF m, better
      <4> QED BY <1>2, <3>1, <4>2, <4>3 DEF Knows
    <3> QED BY <3>3, <3>4
  <2> QED BY <2>8, <2>9
<1> QED BY <1>3, <1>4, <1>5

(* The minute find_best_time gives is the best one, and one of the day.      *)
LEMMA FindsTheBest ==
  ASSUME NEW cal \in Calendars, NEW d \in 1..MINUTES_IN_DAY, NEW r \in Minutes
  PROVE  /\ IsBest(cal, r, d, FindBestTime(cal, r, d))
         /\ FindBestTime(cal, r, d) \in Minutes
<1> DEFINE a == -WINDOW - 1
           G == [x \in Int \X Progress |-> Turn(x[2], cal, r, d, r + x[1])]
           Loops(f) == f = [i \in a..WINDOW |->
                              IF i = a THEN NothingFound ELSE Turn(f[i - 1], cal, r, d, r + i)]
           found == CHOOSE f : Loops(f)
<1>0. /\ WINDOW \in Nat /\ a \in Int /\ a <= WINDOW /\ a < 0 /\ MINUTES_IN_DAY \in Nat
      /\ r \in Int /\ 0 <= r /\ r < MINUTES_IN_DAY /\ d \in Nat
  BY SizesAreNatural DEF Minutes
<1>1. FindBestTime(cal, r, d) = BestOf(found[WINDOW], d)
  BY DEF FindBestTime
<1>2. G \in [Int \X Progress -> Progress] /\ NothingFound \in Progress
  <2>1. ASSUME NEW x \in Int \X Progress PROVE Turn(x[2], cal, r, d, r + x[1]) \in Progress
    BY <1>0, TurnTyped
  <2>2. NothingFound \in Progress
    BY SizesAreNatural DEF NothingFound, Progress
  <2> QED BY <2>1, <2>2
<1>3. \E f : Loops(f)
  <2>0. /\ \E f : Unfolds(f, a, WINDOW, NothingFound, G)
        /\ \A f : Unfolds(f, a, WINDOW, NothingFound, G) => f \in [a..WINDOW -> Progress]
    <3>1. NothingFound \in Progress /\ WINDOW \in Int
      BY <1>0, <1>2
    <3> HIDE DEF G, a
    <3> QED BY <1>0, <1>2, <3>1, RecursionExists
  <2>1. PICK f : Unfolds(f, a, WINDOW, NothingFound, G) /\ f \in [a..WINDOW -> Progress]
    <3> HIDE DEF G, a
    <3> QED BY <2>0
  <2>2. ASSUME NEW i \in a..WINDOW
        PROVE  f[i] = IF i = a THEN NothingFound ELSE Turn(f[i - 1], cal, r, d, r + i)
    <3>1. f[i] = IF i = a THEN NothingFound ELSE G[<<i, f[i - 1]>>]
      <4> HIDE DEF G, a
      <4> QED BY <2>1 DEF Unfolds
    <3>2. CASE i = a
      BY <3>1, <3>2
    <3>3. CASE i # a
      <4>1. i \in Int /\ i - 1 \in a..WINDOW
        BY <1>0, <3>3
      <4>2. f[i - 1] \in Progress
        BY <2>1, <4>1
      <4>3. G[<<i, f[i - 1]>>] = Turn(f[i - 1], cal, r, d, r + i)
        BY <4>1, <4>2
      <4> HIDE DEF G, a
      <4> QED BY <3>1, <3>3, <4>3
    <3> QED BY <3>2, <3>3
  <2>3. f = [i \in a..WINDOW |-> f[i]]
    BY <2>1
  <2> HIDE DEF a
  <2> QED BY <2>2, <2>3
<1>4. Loops(found)
  <2> HIDE DEF Loops
  <2> QED BY <1>3
<1> HIDE DEF found
<1>5. \A i \in a..WINDOW :
        found[i] = IF i = a THEN NothingFound ELSE Turn(found[i - 1], cal, r, d, r + i)
  <2> HIDE DEF a
  <2> QED BY <1>4
<1> DEFINE T == {i \in a..WINDOW : Knows(found[i], cal, r, d, i)}
<1>6. a \in T
  <2>1. found[a] = NothingFound /\ a \in a..WINDOW
    BY <1>0, <1>5
  <2>2. Seen(r, d, a) = {}
    BY <1>0 DEF Seen, Fitting
  <2>3. Knows(NothingFound, cal, r, d, a)
    BY <1>0, <1>2, <2>2, SizesAreNatural DEF Knows, NothingFound
  <2> QED BY <2>1, <2>3
<1>7. ASSUME NEW i \in a + 1..WINDOW, i - 1 \in T PROVE i \in T
  <2>1. i \in a..WINDOW /\ i # a /\ i \in -WINDOW..WINDOW
    BY <1>0
  <2>2. found[i] = Turn(found[i - 1], cal, r, d, r + i)
    BY <1>5, <2>1
  <2>3. Knows(found[i - 1], cal, r, d, i - 1)
    BY <1>7
  <2>4. Knows(found[i], cal, r, d, i)
    BY <2>1, <2>2, <2>3, TurnKeeps
  <2> QED BY <2>1, <2>4
<1>8. a..WINDOW \subseteq T
  <2> HIDE DEF T, a
  <2> QED BY <1>0, <1>6, <1>7, Reaches
<1> DEFINE f == found[WINDOW]
<1>9. Knows(f, cal, r, d, WINDOW)
  BY <1>0, <1>8
<1>10. Seen(r, d, WINDOW) = Fitting(r, d)
  BY <1>0 DEF Seen, Fitting
<1> HIDE DEF f
<1> DEFINE b == BestOf(f, d)
<1>11. CASE Fitting(r, d) = {}
  <2>1. f.best = -1 /\ f.emergency = r
    BY <1>0, <1>9, <1>10, <1>11 DEF Knows
  <2>2. b = r
    BY <1>0, <2>1 DEF BestOf
  <2> QED BY <1>1, <1>11, <2>2 DEF IsBest, f
<1>12. CASE Fitting(r, d) # {}
  <2>1. /\ f.best \in Fitting(r, d)
        /\ \A m \in Fitting(r, d) : NoWorse(cal, r, d, f.best, m)
    BY <1>9, <1>10, <1>12 DEF Knows
  <2>2. f.best \in Int /\ f.best >= 0 /\ f.best < MINUTES_IN_DAY
    BY <1>0, <2>1 DEF Fitting
  <2>3. b = f.best
    BY <1>0, <2>2 DEF BestOf
  <2>4. IsBest(cal, r, d, b)
    <3> HIDE DEF b
    <3> QED BY <1>12, <2>1, <2>3 DEF IsBest, NoWorse
  <2>5. b \in Minutes
    BY <1>0, <2>2, <2>3 DEF Minutes
  <2> QED BY <1>1, <2>4, <2>5 DEF f
<1> QED BY <1>11, <1>12

----------------------------------------------------------------------------
(* THE LOCK                                                                  *)

(* Between taking and giving back the mutex; counted as readers; in the room *)
(* the readers keep the writers out of; writing.                             *)
MutexPCs   == {"lr_count", "lr_test", "lr_writer", "lr_release",
               "rr_count", "rr_test", "rr_writer", "rr_release"}
CountedPCs == {"lr_test", "lr_writer", "lr_release", "reading", "rr_mutex", "rr_count"}
RoomPCs    == {"lr_release", "reading", "rr_mutex", "rr_count", "rr_test", "rr_writer"}
WritingPCs == {"load", "store", "rw_book", "clear", "rw_clear"}

At(pcs) == {u \in Users : pc[u] \in pcs}
Holders == {p \in Processes : pc[p] \in WritingPCs}

MutexHeld ==
  /\ mutex = IF At(MutexPCs) = {} THEN 1 ELSE 0
  /\ \A u, v \in At(MutexPCs) : u = v
ReadersCounted == reader_count = Cardinality(At(CountedPCs))
(* What a reader knows when it goes to the semaphore of the writers.         *)
Learnt ==
  \A u \in Users : /\ pc[u] = "lr_writer" => reader_count = 1
                   /\ pc[u] = "rr_writer" => reader_count = 0
WriterHeld ==
  /\ writer = IF Holders = {} /\ At(RoomPCs) = {} THEN 1 ELSE 0
  /\ \A p, q \in Holders : p = q
  /\ Holders # {} => At(RoomPCs) = {}
LockInv == MutexHeld /\ ReadersCounted /\ Learnt /\ WriterHeld

PCsTyped ==
  /\ pc \in [Processes -> UserPCs \cup ClockPCs]
  /\ pc[Clock] \in ClockPCs /\ \A u \in Users : pc[u] \in UserPCs

LEMMA AtMoves ==
  ASSUME PCsTyped, NEW u \in Users, NEW to, pc' = [pc EXCEPT ![u] = to], NEW pcs
  PROVE  /\ At(pcs)' = IF to \in pcs THEN At(pcs) \cup {u} ELSE At(pcs) \ {u}
         /\ u \in At(pcs) <=> pc[u] \in pcs
         /\ (pc[u] \in pcs <=> to \in pcs) => At(pcs)' = At(pcs)
         /\ pc'[u] = to /\ \A v \in Users : v # u => pc'[v] = pc[v]
<1>1. Users \subseteq DOMAIN pc
  BY DEF PCsTyped, Processes
<1>2. pc'[u] = to /\ \A v \in Users : v # u => pc'[v] = pc[v]
  BY <1>1
<1>3. u \in At(pcs) <=> pc[u] \in pcs
  BY DEF At
<1>4. At(pcs)' = IF to \in pcs THEN At(pcs) \cup {u} ELSE At(pcs) \ {u}
  BY <1>2 DEF At
<1> QED BY <1>2, <1>3, <1>4

LEMMA ClockMoves ==
  ASSUME PCsTyped, NEW to, pc' = [pc EXCEPT ![Clock] = to]
  PROVE  /\ \A pcs : At(pcs)' = At(pcs)
         /\ pc'[Clock] = to /\ \A u \in Users : pc'[u] = pc[u]
BY CalendarAssumption DEF PCsTyped, Processes, At

LEMMA HoldersMove ==
  ASSUME PCsTyped, NEW p \in Processes, NEW to, pc' = [pc EXCEPT ![p] = to]
  PROVE  /\ Holders' = IF to \in WritingPCs THEN Holders \cup {p} ELSE Holders \ {p}
         /\ p \in Holders <=> pc[p] \in WritingPCs
         /\ (pc[p] \in WritingPCs <=> to \in WritingPCs) => Holders' = Holders
<1>1. pc'[p] = to /\ \A q \in Processes : q # p => pc'[q] = pc[q]
  BY DEF PCsTyped
<1>2. p \in Holders <=> pc[p] \in WritingPCs
  BY DEF Holders
<1>3. Holders' = IF to \in WritingPCs THEN Holders \cup {p} ELSE Holders \ {p}
  BY <1>1 DEF Holders
<1> QED BY <1>2, <1>3

LEMMA MutexStep ==
  ASSUME PCsTyped, MutexHeld, NEW u \in Users, NEW to, pc' = [pc EXCEPT ![u] = to],
         \/ pc[u] \notin MutexPCs /\ to \in MutexPCs /\ mutex > 0 /\ mutex' = mutex - 1
         \/ pc[u] \in MutexPCs /\ to \notin MutexPCs /\ mutex' = mutex + 1
         \/ (pc[u] \in MutexPCs <=> to \in MutexPCs) /\ mutex' = mutex
  PROVE  MutexHeld'
<1> DEFINE M == At(MutexPCs)
<1>1. /\ M' = IF to \in MutexPCs THEN M \cup {u} ELSE M \ {u}
      /\ u \in M <=> pc[u] \in MutexPCs
      /\ (pc[u] \in MutexPCs <=> to \in MutexPCs) => M' = M
  BY AtMoves
<1>2. mutex = (IF M = {} THEN 1 ELSE 0) /\ \A v, w \in M : v = w
  BY DEF MutexHeld
<1> HIDE DEF M
<1>3. mutex' = (IF M' = {} THEN 1 ELSE 0) /\ \A v, w \in M' : v = w
  <2>1. CASE pc[u] \notin MutexPCs /\ to \in MutexPCs /\ mutex > 0 /\ mutex' = mutex - 1
    <3>1. M = {} /\ mutex = 1
      BY <1>2, <2>1
    <3> QED BY <1>1, <2>1, <3>1
  <2>2. CASE pc[u] \in MutexPCs /\ to \notin MutexPCs /\ mutex' = mutex + 1
    <3>1. M = {u} /\ mutex = 0
      BY <1>1, <1>2, <2>2
    <3> QED BY <1>1, <2>2, <3>1
  <2>3. CASE (pc[u] \in MutexPCs <=> to \in MutexPCs) /\ mutex' = mutex
    BY <1>1, <1>2, <2>3
  <2> QED BY <2>1, <2>2, <2>3
<1> QED BY <1>3 DEF MutexHeld, M

LEMMA ReadersStep ==
  ASSUME PCsTyped, ReadersCounted, NEW u \in Users, NEW to, pc' = [pc EXCEPT ![u] = to],
         \/ pc[u] \notin CountedPCs /\ to \in CountedPCs /\ reader_count' = reader_count + 1
         \/ pc[u] \in CountedPCs /\ to \notin CountedPCs /\ reader_count' = reader_count - 1
         \/ (pc[u] \in CountedPCs <=> to \in CountedPCs) /\ reader_count' = reader_count
  PROVE  ReadersCounted' /\ reader_count' \in Nat
<1> DEFINE R == At(CountedPCs)
<1>1. /\ R' = IF to \in CountedPCs THEN R \cup {u} ELSE R \ {u}
      /\ u \in R <=> pc[u] \in CountedPCs
      /\ (pc[u] \in CountedPCs <=> to \in CountedPCs) => R' = R
  BY AtMoves
<1>2. reader_count = Cardinality(R)
  BY DEF ReadersCounted
<1>3. IsFiniteSet(R) /\ IsFiniteSet(R')
  <2>1. R \in SUBSET Users /\ R' \in SUBSET Users
    BY DEF At
  <2> QED BY <2>1, CalendarAssumption, FS_Subset
<1> HIDE DEF R
<1>4. Cardinality(R) \in Nat /\ Cardinality(R') \in Nat
  BY <1>3, FS_CardinalityType
<1>5. reader_count' = Cardinality(R')
  <2>1. CASE pc[u] \notin CountedPCs /\ to \in CountedPCs /\ reader_count' = reader_count + 1
    BY <1>1, <1>2, <1>3, <2>1, FS_AddElement
  <2>2. CASE pc[u] \in CountedPCs /\ to \notin CountedPCs /\ reader_count' = reader_count - 1
    BY <1>1, <1>2, <1>3, <2>2, FS_RemoveElement
  <2>3. CASE (pc[u] \in CountedPCs <=> to \in CountedPCs) /\ reader_count' = reader_count
    BY <1>1, <1>2, <2>3
  <2> QED BY <2>1, <2>2, <2>3
<1> QED BY <1>4, <1>5 DEF ReadersCounted, R

(* The reader that holds the mutex changes what readers know for itself.     *)
LEMMA LearntStep ==
  ASSUME PCsTyped, MutexHeld, Learnt, NEW u \in Users, NEW to, pc' = [pc EXCEPT ![u] = to],
         reader_count' = reader_count \/ pc[u] \in MutexPCs,
         to = "lr_writer" => reader_count' = 1, to = "rr_writer" => reader_count' = 0
  PROVE  Learnt'
<1>1. pc'[u] = to /\ \A v \in Users : v # u => pc'[v] = pc[v]
  BY AtMoves
<1>2. ASSUME NEW v \in Users, v # u
      PROVE  /\ pc'[v] = "lr_writer" => reader_count' = 1
             /\ pc'[v] = "rr_writer" => reader_count' = 0
  <2>1. pc[u] \in MutexPCs => pc[v] \notin MutexPCs
    BY <1>2 DEF MutexHeld, At
  <2>2. reader_count' = reader_count \/ pc[v] \notin {"lr_writer", "rr_writer"}
    BY <2>1 DEF MutexPCs
  <2> QED BY <1>1, <1>2, <2>2 DEF Learnt
<1> QED BY <1>1, <1>2 DEF Learnt

(* Somebody takes the semaphore of the writers, gives it back, or leaves the *)
(* room as empty or as full as it was.                                       *)
LEMMA WriterStep ==
  ASSUME PCsTyped, WriterHeld, NEW p \in Processes, NEW to, pc' = [pc EXCEPT ![p] = to],
         LET Inside == Holders \cup At(RoomPCs)
         IN \/ writer > 0 /\ writer' = writer - 1 /\ Inside' = {p}
            \/ Inside = {p} /\ writer' = writer + 1 /\ Inside' = {}
            \/ /\ writer' = writer /\ Holders' = Holders
               /\ At(RoomPCs) = {} <=> At(RoomPCs)' = {}
  PROVE  WriterHeld'
<1> DEFINE H == Holders
           R == At(RoomPCs)
<1>1. Clock \notin Users /\ R \subseteq Users /\ R' \subseteq Users
  BY CalendarAssumption DEF At
<1>2. /\ writer = IF H = {} /\ R = {} THEN 1 ELSE 0
      /\ \A q, w \in H : q = w
      /\ H # {} => R = {}
  BY DEF WriterHeld
<1>3. \A q : ~(q \in H' /\ q \in R')
  BY CalendarAssumption DEF Holders, At, WritingPCs, RoomPCs
<1> HIDE DEF H, R
<1>4. /\ writer' = IF H' = {} /\ R' = {} THEN 1 ELSE 0
      /\ \A q, w \in H' : q = w
      /\ H' # {} => R' = {}
  <2>1. CASE writer > 0 /\ writer' = writer - 1 /\ H' \cup R' = {p}
    <3>1. writer = 1
      BY <1>2, <2>1
    <3> QED BY <1>3, <2>1, <3>1
  <2>2. CASE H \cup R = {p} /\ writer' = writer + 1 /\ H' \cup R' = {}
    <3>1. writer = 0
      BY <1>2, <2>2
    <3> QED BY <2>2, <3>1
  <2>3. CASE writer' = writer /\ H' = H /\ (R = {} <=> R' = {})
    BY <1>2, <2>3
  <2> QED BY <2>1, <2>2, <2>3 DEF H, R
<1> QED BY <1>4 DEF WriterHeld, H, R

LEMMA LockStep ==
  ASSUME PCsTyped, LockInv, NEW u \in Users, NEW to, pc' = [pc EXCEPT ![u] = to],
         \/ pc[u] \notin MutexPCs /\ to \in MutexPCs /\ mutex > 0 /\ mutex' = mutex - 1
         \/ pc[u] \in MutexPCs /\ to \notin MutexPCs /\ mutex' = mutex + 1
         \/ (pc[u] \in MutexPCs <=> to \in MutexPCs) /\ mutex' = mutex,
         \/ pc[u] \notin CountedPCs /\ to \in CountedPCs /\ reader_count' = reader_count + 1
         \/ pc[u] \in CountedPCs /\ to \notin CountedPCs /\ reader_count' = reader_count - 1
         \/ (pc[u] \in CountedPCs <=> to \in CountedPCs) /\ reader_count' = reader_count,
         reader_count' = reader_count \/ pc[u] \in MutexPCs,
         to = "lr_writer" => reader_count' = 1, to = "rr_writer" => reader_count' = 0,
         LET Inside == Holders \cup At(RoomPCs)
         IN \/ writer > 0 /\ writer' = writer - 1 /\ Inside' = {u}
            \/ Inside = {u} /\ writer' = writer + 1 /\ Inside' = {}
            \/ /\ writer' = writer /\ Holders' = Holders
               /\ At(RoomPCs) = {} <=> At(RoomPCs)' = {}
  PROVE  LockInv' /\ reader_count' \in Nat
<1>1. MutexHeld'
  BY MutexStep DEF LockInv
<1>2. ReadersCounted' /\ reader_count' \in Nat
  BY ReadersStep DEF LockInv
<1>3. Learnt'
  BY LearntStep DEF LockInv
<1>4. WriterHeld'
  BY WriterStep DEF LockInv, Processes
<1> QED BY <1>1, <1>2, <1>3, <1>4 DEF LockInv

LEMMA RoomMoves ==
  ASSUME PCsTyped, NEW u \in Users, NEW to, pc' = [pc EXCEPT ![u] = to]
  PROVE  /\ pc[u] \notin WritingPCs /\ to \notin WritingPCs => Holders' = Holders
         /\ (pc[u] \in RoomPCs <=> to \in RoomPCs) => At(RoomPCs)' = At(RoomPCs)
         /\ to \in RoomPCs => At(RoomPCs)' = At(RoomPCs) \cup {u}
         /\ to \notin RoomPCs => At(RoomPCs)' = At(RoomPCs) \ {u}
<1>1. u \in Processes
  BY DEF Processes
<1>2. pc[u] \notin WritingPCs /\ to \notin WritingPCs => Holders' = Holders
  BY <1>1, HoldersMove
<1>3. /\ At(RoomPCs)' = IF to \in RoomPCs THEN At(RoomPCs) \cup {u} ELSE At(RoomPCs) \ {u}
      /\ (pc[u] \in RoomPCs <=> to \in RoomPCs) => At(RoomPCs)' = At(RoomPCs)
  BY AtMoves
<1> QED BY <1>2, <1>3

(* A step that enters and leaves neither the mutex, nor the count, nor the   *)
(* room, nor the writing.                                                    *)
LEMMA LockStays ==
  ASSUME PCsTyped, LockInv, NEW u \in Users, NEW to, pc' = [pc EXCEPT ![u] = to],
         \A S \in {MutexPCs, CountedPCs, RoomPCs, WritingPCs} : pc[u] \in S <=> to \in S,
         to \notin {"lr_writer", "rr_writer"}, UNCHANGED lockVars
  PROVE  LockInv' /\ reader_count' \in Nat
<1>1. mutex' = mutex /\ reader_count' = reader_count /\ writer' = writer
  BY DEF lockVars
<1>2. Holders' = Holders /\ At(RoomPCs)' = At(RoomPCs)
  BY AtMoves, HoldersMove DEF Processes
<1> QED BY <1>1, <1>2, LockStep

LEMMA LockReaderKeeps ==
  ASSUME PCsTyped, LockInv, NEW u \in Users, LockReaderRP(u) \/ LookForTime(u)
  PROVE  LockInv' /\ reader_count' \in Nat
<1> USE DEF Goto, MutexPCs, CountedPCs, RoomPCs, WritingPCs
<1> DEFINE R == At(RoomPCs)
           C == At(CountedPCs)
<1>0. /\ writer = IF Holders = {} /\ R = {} THEN 1 ELSE 0
      /\ Holders # {} => R = {}
      /\ reader_count = Cardinality(C)
      /\ \A v, w \in At(MutexPCs) : v = w
      /\ u \in Processes
  BY DEF LockInv, WriterHeld, ReadersCounted, MutexHeld, Processes
<1>1. CASE LockMutex(u, "lr_mutex", "lr_count")
  <2>1. pc[u] = "lr_mutex" /\ pc' = [pc EXCEPT ![u] = "lr_count"]
    BY <1>1 DEF LockMutex
  <2>2. Holders' = Holders /\ R' = R
    BY <1>0, <2>1, RoomMoves
  <2> QED BY <1>1, <2>1, <2>2, LockStep DEF LockMutex
<1>2. CASE CountReader(u)
  <2>1. pc[u] = "lr_count" /\ pc' = [pc EXCEPT ![u] = "lr_test"]
    BY <1>2 DEF CountReader
  <2>2. Holders' = Holders /\ R' = R
    BY <1>0, <2>1, RoomMoves
  <2> QED BY <1>2, <2>1, <2>2, LockStep DEF CountReader
<1>3. CASE FirstReader(u)
  <2>0. pc[u] = "lr_test" /\ UNCHANGED lockVars
    BY <1>3 DEF FirstReader
  <2>1. CASE reader_count = 1
    <3>1. pc' = [pc EXCEPT ![u] = "lr_writer"]
      BY <1>3, <2>1 DEF FirstReader
    <3>2. Holders' = Holders /\ R' = R
      BY <1>0, <2>0, <3>1, RoomMoves
    <3> QED BY <2>0, <2>1, <3>1, <3>2, LockStep DEF lockVars
  <2>2. CASE reader_count # 1
    <3>1. pc' = [pc EXCEPT ![u] = "lr_release"]
      BY <1>3, <2>2 DEF FirstReader
    <3>2. C # {u} /\ u \in C
      BY <1>0, <2>0, <2>2, FS_Singleton DEF At
    <3>3. PICK v \in C : v # u
      BY <3>2
    <3>4. v \in Users /\ pc[v] \notin MutexPCs /\ pc[v] \in CountedPCs
      BY <1>0, <2>0, <3>3 DEF At
    <3>5. v \in R
      BY <3>4 DEF At
    <3>6. Holders' = Holders /\ R' = R \cup {u}
      BY <1>0, <2>0, <3>1, RoomMoves
    <3> HIDE DEF R
    <3> QED BY <2>0, <3>1, <3>5, <3>6, LockStep DEF lockVars, R
  <2> QED BY <2>1, <2>2
<1>4. CASE LockWriter(u, "lr_writer", "lr_release")
  <2>1. pc[u] = "lr_writer" /\ pc' = [pc EXCEPT ![u] = "lr_release"]
        /\ writer > 0 /\ writer' = writer - 1
    BY <1>4 DEF LockWriter
  <2>2. Holders' = Holders /\ R' = R \cup {u}
    BY <1>0, <2>1, RoomMoves
  <2>3. Holders = {} /\ R = {}
    BY <1>0, <2>1
  <2>4. (Holders \cup R)' = {u}
    BY <2>2, <2>3
  <2> QED BY <1>4, <2>1, <2>4, LockStep DEF LockWriter
<1>5. CASE ReleaseMutex(u, "lr_release", "reading")
  <2>1. pc[u] = "lr_release" /\ pc' = [pc EXCEPT ![u] = "reading"]
    BY <1>5 DEF ReleaseMutex
  <2>2. Holders' = Holders /\ R' = R
    BY <1>0, <2>1, RoomMoves
  <2> QED BY <1>5, <2>1, <2>2, LockStep DEF ReleaseMutex
<1>6. CASE LookForTime(u)
  <2>1. pc[u] = "reading" /\ pc' = [pc EXCEPT ![u] = "rr_mutex"] /\ UNCHANGED lockVars
    BY <1>6 DEF LookForTime
  <2> QED BY <2>1, LockStays
<1> QED BY <1>1, <1>2, <1>3, <1>4, <1>5, <1>6 DEF LockReaderRP

LEMMA ReleaseReaderKeeps ==
  ASSUME PCsTyped, LockInv, NEW u \in Users, ReleaseReaderRP(u)
  PROVE  LockInv' /\ reader_count' \in Nat
<1> USE DEF Goto, MutexPCs, CountedPCs, RoomPCs, WritingPCs
<1> DEFINE R == At(RoomPCs)
           C == At(CountedPCs)
<1>0. /\ writer = IF Holders = {} /\ R = {} THEN 1 ELSE 0
      /\ Holders # {} => R = {}
      /\ reader_count = Cardinality(C)
      /\ \A v, w \in At(MutexPCs) : v = w
      /\ u \in Processes
  BY DEF LockInv, WriterHeld, ReadersCounted, MutexHeld, Processes
<1>1. CASE LockMutex(u, "rr_mutex", "rr_count")
  <2>1. pc[u] = "rr_mutex" /\ pc' = [pc EXCEPT ![u] = "rr_count"]
    BY <1>1 DEF LockMutex
  <2>2. Holders' = Holders /\ R' = R
    BY <1>0, <2>1, RoomMoves
  <2> QED BY <1>1, <2>1, <2>2, LockStep DEF LockMutex
<1>2. CASE UncountReader(u)
  <2>1. pc[u] = "rr_count" /\ pc' = [pc EXCEPT ![u] = "rr_test"]
    BY <1>2 DEF UncountReader
  <2>2. Holders' = Holders /\ R' = R
    BY <1>0, <2>1, RoomMoves
  <2> QED BY <1>2, <2>1, <2>2, LockStep DEF UncountReader
<1>3. CASE LastReader(u)
  <2>0. pc[u] = "rr_test" /\ UNCHANGED lockVars
    BY <1>3 DEF LastReader
  <2>1. CASE reader_count = 0
    <3>1. pc' = [pc EXCEPT ![u] = "rr_writer"]
      BY <1>3, <2>1 DEF LastReader
    <3>2. Holders' = Holders /\ R' = R
      BY <1>0, <2>0, <3>1, RoomMoves
    <3> QED BY <2>0, <2>1, <3>1, <3>2, LockStep DEF lockVars
  <2>2. CASE reader_count # 0
    <3>1. pc' = [pc EXCEPT ![u] = "rr_release"]
      BY <1>3, <2>2 DEF LastReader
    <3>2. C # {} /\ u \notin C
      BY <1>0, <2>0, <2>2, FS_EmptySet DEF At
    <3>3. PICK v \in C : v # u
      BY <3>2
    <3>4. v \in Users /\ pc[v] \notin MutexPCs /\ pc[v] \in CountedPCs
      BY <1>0, <2>0, <3>3 DEF At
    <3>5. v \in R
      BY <3>4 DEF At
    <3>6. Holders' = Holders /\ R' = R \ {u}
      <4>1. pc[u] = "rr_test" /\ "rr_release" \notin RoomPCs /\ "rr_release" \notin WritingPCs
            /\ pc[u] \notin WritingPCs
        BY <2>0
      <4> QED BY <3>1, <4>1, RoomMoves
    <3>7. R # {} /\ R' # {}
      BY <3>3, <3>5, <3>6
    <3> HIDE DEF R
    <3> QED BY <2>0, <3>1, <3>6, <3>7, LockStep DEF lockVars, R
  <2> QED BY <2>1, <2>2
<1>4. CASE ReleaseWriter(u, "rr_writer", "rr_release")
  <2>1. pc[u] = "rr_writer" /\ pc' = [pc EXCEPT ![u] = "rr_release"] /\ writer' = writer + 1
    BY <1>4 DEF ReleaseWriter
  <2>2. C = {}
    <3>1. reader_count = 0
      BY <2>1 DEF LockInv, Learnt
    <3>2. C \in SUBSET Users
      BY DEF At
    <3>3. IsFiniteSet(C)
      BY <3>2, CalendarAssumption, FS_Subset
    <3> HIDE DEF C
    <3> QED BY <1>0, <3>1, <3>3, FS_EmptySet
  <2>3. u \in R /\ Holders = {}
    BY <1>0, <2>1 DEF At
  <2>4. ASSUME NEW v \in R PROVE v = u
    <3>1. v \in Users /\ pc[v] \in RoomPCs /\ pc[v] \notin CountedPCs
      BY <2>2, <2>4 DEF At
    <3>2. pc[v] \in MutexPCs
      BY <3>1
    <3> QED BY <1>0, <2>1, <3>1, <3>2 DEF At
  <2>5. Holders' = Holders /\ R' = R \ {u}
    <3>1. "rr_release" \notin RoomPCs /\ "rr_release" \notin WritingPCs
          /\ pc[u] \notin WritingPCs
      BY <2>1
    <3> QED BY <2>1, <3>1, RoomMoves
  <2>6. Holders \cup R = {u} /\ (Holders \cup R)' = {}
    BY <2>3, <2>4, <2>5
  <2> QED BY <1>4, <2>1, <2>6, LockStep DEF ReleaseWriter
<1>5. CASE ReleaseMutex(u, "rr_release", "lw_book")
  <2>1. pc[u] = "rr_release" /\ pc' = [pc EXCEPT ![u] = "lw_book"]
    BY <1>5 DEF ReleaseMutex
  <2>2. Holders' = Holders /\ R' = R
    BY <1>0, <2>1, RoomMoves
  <2> QED BY <1>5, <2>1, <2>2, LockStep DEF ReleaseMutex
<1> QED BY <1>1, <1>2, <1>3, <1>4, <1>5 DEF ReleaseReaderRP

LEMMA BookKeeps ==
  ASSUME PCsTyped, LockInv, NEW u \in Users, StayHome(u) \/ WishFor(u) \/ Book(u)
  PROVE  LockInv' /\ reader_count' \in Nat
<1> USE DEF Goto, MutexPCs, CountedPCs, RoomPCs, WritingPCs
<1> DEFINE R == At(RoomPCs)
<1>0. /\ writer = IF Holders = {} /\ R = {} THEN 1 ELSE 0
      /\ \A p, q \in Holders : p = q
      /\ Holders # {} => R = {}
      /\ u \in Processes
  BY DEF LockInv, WriterHeld, Processes
<1>1. CASE StayHome(u)
  <2>1. pc[u] = "home" /\ pc' = [pc EXCEPT ![u] = "planned"] /\ UNCHANGED lockVars
    BY <1>1 DEF StayHome
  <2> QED BY <2>1, LockStays
<1>2. CASE WishFor(u)
  <2>1. pc[u] = "home" /\ pc' = [pc EXCEPT ![u] = "lr_mutex"] /\ UNCHANGED lockVars
    BY <1>2 DEF WishFor
  <2> QED BY <2>1, LockStays
<1>3. CASE LockWriter(u, "lw_book", "load")
  <2>1. pc[u] = "lw_book" /\ pc' = [pc EXCEPT ![u] = "load"]
        /\ writer > 0 /\ writer' = writer - 1
    BY <1>3 DEF LockWriter
  <2>2. Holders' = Holders \cup {u} /\ R' = R
    BY <1>0, <2>1, HoldersMove, RoomMoves
  <2>3. Holders = {} /\ R = {}
    BY <1>0, <2>1
  <2>4. (Holders \cup R)' = {u}
    BY <2>2, <2>3
  <2> QED BY <1>3, <2>1, <2>4, LockStep DEF LockWriter
<1>4. CASE Load(u)
  <2>1. pc[u] = "load" /\ pc' = [pc EXCEPT ![u] = "store"] /\ UNCHANGED lockVars
    BY <1>4 DEF Load
  <2> QED BY <2>1, LockStays
<1>5. CASE Store(u)
  <2>1. pc[u] = "store" /\ UNCHANGED lockVars
    BY <1>5 DEF Store
  <2>2. PICK to \in {"load", "rw_book"} : pc' = [pc EXCEPT ![u] = to]
    BY <1>5 DEF Store
  <2> QED BY <2>1, <2>2, LockStays
<1>6. CASE ReleaseWriter(u, "rw_book", "planned")
  <2>1. pc[u] = "rw_book" /\ pc' = [pc EXCEPT ![u] = "planned"] /\ writer' = writer + 1
    BY <1>6 DEF ReleaseWriter
  <2>2. Holders' = Holders \ {u} /\ R' = R
    BY <1>0, <2>1, HoldersMove, RoomMoves
  <2>3. u \in Holders
    BY <1>0, <2>1 DEF Holders
  <2>4. Holders \cup R = {u} /\ (Holders \cup R)' = {}
    <3> HIDE DEF R
    <3> QED BY <1>0, <2>2, <2>3
  <2> QED BY <1>6, <2>1, <2>4, LockStep DEF ReleaseWriter
<1> QED BY <1>1, <1>2, <1>3, <1>4, <1>5, <1>6 DEF Book

(* The clock moves only when everybody has planned and a day is left.        *)
PhaseInv == pc[Clock] # "day" => day < SIM_DURATION /\ \A u \in Users : pc[u] = "planned"

LEMMA ClockKeeps ==
  ASSUME PCsTyped, LockInv, PhaseInv, ClockStep
  PROVE  LockInv'
<1> USE DEF Goto
<1>0. /\ writer = IF Holders = {} /\ At(RoomPCs) = {} THEN 1 ELSE 0
      /\ \A p, q \in Holders : p = q
      /\ Holders # {} => At(RoomPCs) = {}
      /\ Clock \in Processes
  BY DEF LockInv, WriterHeld, Processes
<1>1. ASSUME NEW to, pc' = [pc EXCEPT ![Clock] = to], UNCHANGED <<mutex, reader_count>>,
             LET Inside == Holders \cup At(RoomPCs)
             IN \/ writer > 0 /\ writer' = writer - 1 /\ Inside' = {Clock}
                \/ Inside = {Clock} /\ writer' = writer + 1 /\ Inside' = {}
                \/ /\ writer' = writer /\ Holders' = Holders
                   /\ At(RoomPCs) = {} <=> At(RoomPCs)' = {}
      PROVE  LockInv'
  <2>1. WriterHeld'
    BY <1>0, <1>1, WriterStep DEF LockInv
  <2>2. At(MutexPCs)' = At(MutexPCs) /\ At(CountedPCs)' = At(CountedPCs)
        /\ \A u \in Users : pc'[u] = pc[u]
    BY <1>1, ClockMoves
  <2>3. mutex' = mutex /\ reader_count' = reader_count
    BY <1>1
  <2>4. MutexHeld'
    BY <2>2, <2>3 DEF LockInv, MutexHeld
  <2>5. ReadersCounted'
    BY <2>2, <2>3 DEF LockInv, ReadersCounted
  <2>6. Learnt'
    BY <2>2, <2>3 DEF LockInv, Learnt
  <2> QED BY <2>1, <2>4, <2>5, <2>6 DEF LockInv
<1>2. CASE EndOfDay
  <2>1. pc[Clock] = "day" /\ pc' = [pc EXCEPT ![Clock] = "lw_clear"] /\ UNCHANGED lockVars
    BY <1>2 DEF EndOfDay
  <2>2. Holders' = Holders /\ At(RoomPCs)' = At(RoomPCs)
    BY <1>0, <2>1, HoldersMove, ClockMoves DEF WritingPCs
  <2> QED BY <1>1, <2>1, <2>2 DEF lockVars
<1>3. CASE LockWriter(Clock, "lw_clear", "clear")
  <2>1. /\ pc[Clock] = "lw_clear" /\ pc' = [pc EXCEPT ![Clock] = "clear"]
        /\ writer > 0 /\ writer' = writer - 1 /\ UNCHANGED <<mutex, reader_count>>
    BY <1>3 DEF LockWriter
  <2>2. Holders' = Holders \cup {Clock} /\ At(RoomPCs)' = At(RoomPCs)
    BY <1>0, <2>1, HoldersMove, ClockMoves DEF WritingPCs
  <2>3. Holders = {} /\ At(RoomPCs) = {}
    BY <1>0, <2>1
  <2>4. (Holders \cup At(RoomPCs))' = {Clock}
    BY <2>2, <2>3
  <2> QED BY <1>1, <2>1, <2>4
<1>4. CASE ClearCalendar
  <2>1. pc[Clock] = "clear" /\ pc' = [pc EXCEPT ![Clock] = "rw_clear"] /\ UNCHANGED lockVars
    BY <1>4 DEF ClearCalendar
  <2>2. Holders' = Holders /\ At(RoomPCs)' = At(RoomPCs)
    BY <1>0, <2>1, HoldersMove, ClockMoves DEF WritingPCs
  <2> QED BY <1>1, <2>1, <2>2 DEF lockVars
<1>5. CASE ReleaseWriter(Clock, "rw_clear", "next")
  <2>1. /\ pc[Clock] = "rw_clear" /\ pc' = [pc EXCEPT ![Clock] = "next"]
        /\ writer' = writer + 1 /\ UNCHANGED <<mutex, reader_count>>
    BY <1>5 DEF ReleaseWriter
  <2>2. Holders' = Holders \ {Clock} /\ At(RoomPCs)' = At(RoomPCs)
    BY <1>0, <2>1, HoldersMove, ClockMoves DEF WritingPCs
  <2>3. Clock \in Holders
    BY <1>0, <2>1 DEF Holders, WritingPCs
  <2>4. Holders \cup At(RoomPCs) = {Clock} /\ (Holders \cup At(RoomPCs))' = {}
    BY <1>0, <2>2, <2>3
  <2> QED BY <1>1, <2>1, <2>4
<1>6. CASE NextDay
  <2>1. /\ pc[Clock] = "next" /\ UNCHANGED lockVars
        /\ pc' = [p \in Processes |-> IF p = Clock THEN "day" ELSE "home"]
    BY <1>6 DEF NextDay
  <2>2. \A u \in Users : pc[u] = "planned" /\ pc'[u] = "home"
    BY <2>1, CalendarAssumption DEF PhaseInv, Processes
  <2>3. /\ At(MutexPCs)' = At(MutexPCs) /\ At(CountedPCs)' = At(CountedPCs)
        /\ At(RoomPCs)' = At(RoomPCs)
    BY <2>2 DEF At, MutexPCs, CountedPCs, RoomPCs
  <2>4. pc'[Clock] = "day"
    BY <1>0, <2>1
  <2>5. Holders' = Holders
    BY <2>1, <2>2, <2>4 DEF Holders, Processes, WritingPCs
  <2>6. mutex' = mutex /\ reader_count' = reader_count /\ writer' = writer
    BY <2>1 DEF lockVars
  <2>7. MutexHeld'
    BY <2>3, <2>6 DEF LockInv, MutexHeld
  <2>8. ReadersCounted'
    BY <2>3, <2>6 DEF LockInv, ReadersCounted
  <2>9. Learnt'
    BY <2>2 DEF LockInv, Learnt
  <2>10. WriterHeld'
    BY <2>3, <2>5, <2>6 DEF LockInv, WriterHeld
  <2> QED BY <2>7, <2>8, <2>9, <2>10 DEF LockInv
<1> QED BY <1>2, <1>3, <1>4, <1>5, <1>6 DEF ClockStep

----------------------------------------------------------------------------
(* THE BOOKINGS                                                              *)

(* Who has not begun to book has booked nothing, who is booking has a minute *)
(* left; what it has loaded is still what the calendar says.                 *)
BookingPCs == {"load", "store"}
Progressing ==
  \A u \in Users :
    /\ pc[u] \notin WritingPCs \cup {"planned"} => next[u] = 0
    /\ pc[u] \in BookingPCs => next[u] < wish[u].duration
    /\ next[u] <= wish[u].duration
LoadedIsFresh == \A u \in Users : pc[u] = "store" => loaded[u] = calendar[Cell(u)]
Cleared == pc[Clock] \in {"rw_clear", "next"} => \A m \in Minutes : calendar[m] = 0

CalendarInv ==
  /\ CalendarTypeOK /\ LockInv /\ PhaseInv
  /\ Progressing /\ LoadedIsFresh /\ BookingsCounted /\ Cleared

Bookers(m) == {u \in Users : Booked(u, m)}

LEMMA BookersFinite ==
  ASSUME NEW m
  PROVE  /\ IsFiniteSet(Bookers(m)) /\ IsFiniteSet(Bookers(m)')
         /\ Cardinality(Bookers(m)) \in Nat /\ Cardinality(Bookers(m)) <= N
<1>1. Bookers(m) \in SUBSET Users /\ Bookers(m)' \in SUBSET Users /\ IsFiniteSet(Users)
  BY CalendarAssumption DEF Bookers
<1> QED BY <1>1, FS_Subset, FS_CardinalityType DEF N

LEMMA BookingTyped ==
  ASSUME CalendarTypeOK, Progressing, NEW u \in Users
  PROVE  /\ best[u] \in Nat /\ best[u] < MINUTES_IN_DAY
         /\ next[u] \in Nat /\ next[u] <= MINUTES_IN_DAY
         /\ wish[u].time \in Minutes /\ wish[u].duration \in 1..MINUTES_IN_DAY
         /\ Cell(u) \in Int /\ (pc[u] \in BookingPCs => Cell(u) \in Cells)
<1>1. MINUTES_IN_DAY \in Nat
  BY SizesAreNatural
<1>2. best[u] \in Minutes /\ next[u] \in 0..MINUTES_IN_DAY
      /\ wish[u] \in [time : Minutes, duration : 1..MINUTES_IN_DAY]
  BY DEF CalendarTypeOK
<1>3. pc[u] \in BookingPCs => next[u] < wish[u].duration
  BY DEF Progressing
<1>4. best[u] \in Nat /\ best[u] < MINUTES_IN_DAY /\ next[u] \in Nat /\ next[u] <= MINUTES_IN_DAY
  BY <1>1, <1>2 DEF Minutes
<1>5. wish[u].time \in Minutes /\ wish[u].duration \in 1..MINUTES_IN_DAY
  BY <1>2
<1>6. Cell(u) \in Int /\ (pc[u] \in BookingPCs => Cell(u) \in Cells)
  BY <1>1, <1>3, <1>4, <1>5 DEF Cell, Cells
<1> QED BY <1>4, <1>5, <1>6

(* While somebody plans, the calendar is one the search can read.            *)
LEMMA PlannersReadCalendars ==
  ASSUME CalendarInv, NEW u \in Users, pc[u] # "planned"
  PROVE  pc[Clock] = "day" /\ calendar \in Calendars
<1>1. pc[Clock] = "day"
  BY DEF CalendarInv, PhaseInv
<1>2. \A m \in Minutes : calendar[m] = Cardinality(Bookers(m))
  BY <1>1 DEF CalendarInv, BookingsCounted, Bookers
<1>3. calendar \in [Cells -> Nat]
  BY DEF CalendarInv, CalendarTypeOK
<1>4. \A m \in Minutes : calendar[m] <= N
  BY <1>2, BookersFinite
<1> QED BY <1>1, <1>3, <1>4 DEF Calendars

(* Steps that book nothing leave the bookings what they are, whatever they   *)
(* do with the best minute of a user who has booked nothing.                 *)
LEMMA BookingsStay ==
  ASSUME CalendarTypeOK, Progressing, BookingsCounted, UNCHANGED <<calendar, next>>,
         pc'[Clock] = "day" => pc[Clock] = "day",
         \A v \in Users : best'[v] = best[v] \/ (next[v] = 0 /\ best'[v] \in Int)
  PROVE  BookingsCounted'
<1>1. ASSUME NEW m \in Minutes PROVE Bookers(m)' = Bookers(m)
  <2>1. ASSUME NEW v \in Users PROVE Booked(v, m)' <=> Booked(v, m)
    <3>1. best[v] \in Nat /\ next[v] \in Nat /\ next'[v] = next[v]
      BY BookingTyped
    <3>2. CASE best'[v] = best[v]
      BY <3>1, <3>2 DEF Booked
    <3>3. CASE next[v] = 0 /\ best'[v] \in Int
      BY <3>1, <3>3 DEF Booked
    <3> QED BY <3>2, <3>3
  <2> QED BY <2>1 DEF Bookers
<1>2. \A m \in Minutes : calendar'[m] = calendar[m]
  OBVIOUS
<1> QED BY <1>1, <1>2 DEF BookingsCounted, Bookers

(* The steps of the lock touch nothing but the lock and one place.           *)
LEMMA LockStepKeepsBookings ==
  ASSUME CalendarInv, NEW u \in Users, NEW to \in UserPCs,
         pc' = [pc EXCEPT ![u] = to], UNCHANGED <<calendar, userVars, day>>,
         pc[u] # "planned",
         to \notin WritingPCs \cup {"planned"} => pc[u] \notin WritingPCs,
         to = "load" => pc[u] = "lw_book", to # "store",
         LockInv', reader_count' \in Nat
  PROVE  CalendarInv'
<1>0. /\ CalendarTypeOK /\ Progressing /\ LoadedIsFresh /\ BookingsCounted /\ Cleared
      /\ PCsTyped /\ Clock \notin Users /\ Clock \in Processes /\ u \in Processes
  BY CalendarAssumption DEF CalendarInv, CalendarTypeOK, PCsTyped, Processes
<1>1. /\ pc'[u] = to /\ \A p \in Processes : p # u => pc'[p] = pc[p]
      /\ pc' \in [Processes -> UserPCs \cup ClockPCs]
  BY <1>0 DEF PCsTyped
<1>2. pc'[Clock] = pc[Clock] /\ \A v \in Users : v # u => pc'[v] = pc[v]
  BY <1>0, <1>1 DEF Processes
<1>3. /\ calendar' = calendar /\ wish' = wish /\ best' = best /\ next' = next
      /\ loaded' = loaded /\ day' = day
  BY DEF userVars
<1>4. pc[Clock] = "day"
  BY PlannersReadCalendars
<1>5. CalendarTypeOK'
  <2>1. mutex' \in 0..1 /\ writer' \in 0..1
    BY DEF LockInv, MutexHeld, WriterHeld
  <2>2. pc'[Clock] \in ClockPCs /\ \A v \in Users : pc'[v] \in UserPCs
    BY <1>0, <1>1, <1>2 DEF PCsTyped
  <2> QED BY <1>0, <1>1, <1>3, <2>1, <2>2 DEF CalendarTypeOK
<1>6. PhaseInv'
  BY <1>2, <1>4 DEF PhaseInv
<1>7. Progressing'
  <2>1. ASSUME NEW v \in Users
        PROVE  /\ pc'[v] \notin WritingPCs \cup {"planned"} => next[v] = 0
               /\ pc'[v] \in BookingPCs => next[v] < wish[v].duration
               /\ next[v] <= wish[v].duration
    <3>1. CASE v # u
      BY <1>0, <1>2, <3>1 DEF Progressing
    <3>2. CASE v = u
      <4>1. to = "load" => next[u] = 0 /\ wish[u].duration >= 1
        BY <1>0, BookingTyped DEF Progressing, WritingPCs
      <4> QED BY <1>0, <1>1, <3>2, <4>1, BookingTyped DEF Progressing, BookingPCs, WritingPCs
    <3> QED BY <3>1, <3>2
  <2> QED BY <1>3, <2>1 DEF Progressing
<1>8. LoadedIsFresh'
  BY <1>0, <1>1, <1>2, <1>3 DEF LoadedIsFresh, Cell
<1>9. BookingsCounted'
  BY <1>0, <1>2, <1>3, BookingsStay
<1>10. Cleared'
  BY <1>0, <1>2, <1>3 DEF Cleared
<1> QED BY <1>5, <1>6, <1>7, <1>8, <1>9, <1>10 DEF CalendarInv

LEMMA LockingKeeps ==
  ASSUME CalendarInv, NEW u \in Users,
         \/ StayHome(u) \/ LockReaderRP(u) \/ ReleaseReaderRP(u)
         \/ LockWriter(u, "lw_book", "load") \/ ReleaseWriter(u, "rw_book", "planned")
  PROVE  CalendarInv'
<1>0. PCsTyped /\ LockInv
  BY DEF CalendarInv, CalendarTypeOK, PCsTyped
<1>1. LockInv' /\ reader_count' \in Nat
  BY <1>0, LockReaderKeeps, ReleaseReaderKeeps, BookKeeps DEF Book
<1>2. \E to \in UserPCs :
        /\ pc' = [pc EXCEPT ![u] = to] /\ UNCHANGED <<calendar, userVars, day>>
        /\ pc[u] # "planned" /\ to # "store"
        /\ to \notin WritingPCs \cup {"planned"} => pc[u] \notin WritingPCs
        /\ to = "load" => pc[u] = "lw_book"
  <2> USE DEF Goto, UserPCs, WritingPCs
  <2>1. CASE StayHome(u)
    BY <2>1 DEF StayHome
  <2>2. CASE LockReaderRP(u)
    <3>1. CASE LockMutex(u, "lr_mutex", "lr_count")
      BY <3>1 DEF LockMutex
    <3>2. CASE CountReader(u)
      BY <3>2 DEF CountReader
    <3>3. CASE FirstReader(u)
      <4>1. PICK to \in {"lr_writer", "lr_release"} : pc' = [pc EXCEPT ![u] = to]
        BY <3>3 DEF FirstReader
      <4> QED BY <3>3, <4>1 DEF FirstReader
    <3>4. CASE LockWriter(u, "lr_writer", "lr_release")
      BY <3>4 DEF LockWriter
    <3>5. CASE ReleaseMutex(u, "lr_release", "reading")
      BY <3>5 DEF ReleaseMutex
    <3> QED BY <2>2, <3>1, <3>2, <3>3, <3>4, <3>5 DEF LockReaderRP
  <2>3. CASE ReleaseReaderRP(u)
    <3>1. CASE LockMutex(u, "rr_mutex", "rr_count")
      BY <3>1 DEF LockMutex
    <3>2. CASE UncountReader(u)
      BY <3>2 DEF UncountReader
    <3>3. CASE LastReader(u)
      <4>1. PICK to \in {"rr_writer", "rr_release"} : pc' = [pc EXCEPT ![u] = to]
        BY <3>3 DEF LastReader
      <4> QED BY <3>3, <4>1 DEF LastReader
    <3>4. CASE ReleaseWriter(u, "rr_writer", "rr_release")
      BY <3>4 DEF ReleaseWriter
    <3>5. CASE ReleaseMutex(u, "rr_release", "lw_book")
      BY <3>5 DEF ReleaseMutex
    <3> QED BY <2>3, <3>1, <3>2, <3>3, <3>4, <3>5 DEF ReleaseReaderRP
  <2>4. CASE LockWriter(u, "lw_book", "load")
    BY <2>4 DEF LockWriter
  <2>5. CASE ReleaseWriter(u, "rw_book", "planned")
    BY <2>5 DEF ReleaseWriter
  <2> QED BY <2>1, <2>2, <2>3, <2>4, <2>5
<1> QED BY <1>1, <1>2, LockStepKeepsBookings

(* What every other step of a user leaves to show.                           *)
LEMMA UserMoves ==
  ASSUME CalendarInv, NEW u \in Users, NEW to \in UserPCs, pc' = [pc EXCEPT ![u] = to],
         pc[u] # "planned", LockInv'
  PROVE  /\ pc' \in [Processes -> UserPCs \cup ClockPCs]
         /\ pc'[Clock] = "day" /\ pc[Clock] = "day" /\ \A v \in Users : pc'[v] \in UserPCs
         /\ pc'[u] = to /\ \A v \in Users : v # u => pc'[v] = pc[v]
         /\ PhaseInv' /\ Cleared'
         /\ mutex' \in 0..1 /\ writer' \in 0..1
<1>0. PCsTyped /\ Clock \notin Users /\ u \in Processes /\ Clock \in Processes
  BY CalendarAssumption DEF CalendarInv, CalendarTypeOK, PCsTyped, Processes
<1>1. /\ pc'[u] = to /\ \A p \in Processes : p # u => pc'[p] = pc[p]
      /\ pc' \in [Processes -> UserPCs \cup ClockPCs]
  BY <1>0 DEF PCsTyped
<1>2. pc'[Clock] = pc[Clock] /\ \A v \in Users : v # u => pc'[v] = pc[v]
  BY <1>0, <1>1 DEF Processes
<1>3. pc[Clock] = "day"
  BY PlannersReadCalendars
<1>4. PhaseInv' /\ Cleared'
  BY <1>2, <1>3 DEF PhaseInv, Cleared
<1>5. \A v \in Users : pc'[v] \in UserPCs
  BY <1>0, <1>1, <1>2 DEF PCsTyped
<1>6. mutex' \in 0..1 /\ writer' \in 0..1
  BY DEF LockInv, MutexHeld, WriterHeld
<1> QED BY <1>1, <1>2, <1>3, <1>4, <1>5, <1>6

LEMMA WishKeeps ==
  ASSUME CalendarInv, NEW u \in Users, WishFor(u)
  PROVE  CalendarInv'
<1>0. /\ CalendarTypeOK /\ Progressing /\ LoadedIsFresh /\ BookingsCounted /\ PCsTyped /\ LockInv
  BY DEF CalendarInv, CalendarTypeOK, PCsTyped
<1>1. LockInv' /\ reader_count' \in Nat
  BY <1>0, BookKeeps
<1>2. /\ pc[u] = "home" /\ pc' = [pc EXCEPT ![u] = "lr_mutex"]
      /\ calendar' = calendar /\ best' = best /\ next' = next /\ loaded' = loaded /\ day' = day
  BY DEF WishFor, Goto
<1>3. PICK w \in Wishes : wish' = [wish EXCEPT ![u] = w]
  BY DEF WishFor
<1>4. /\ pc' \in [Processes -> UserPCs \cup ClockPCs]
      /\ pc'[Clock] = "day" /\ pc[Clock] = "day" /\ \A v \in Users : pc'[v] \in UserPCs
      /\ pc'[u] = "lr_mutex" /\ \A v \in Users : v # u => pc'[v] = pc[v]
      /\ PhaseInv' /\ Cleared' /\ mutex' \in 0..1 /\ writer' \in 0..1
  <2>1. "lr_mutex" \in UserPCs /\ pc[u] # "planned"
    BY <1>2 DEF UserPCs
  <2> QED BY <1>1, <1>2, <2>1, UserMoves
<1>5. w \in [time : Minutes, duration : 1..MINUTES_IN_DAY]
  BY <1>3, CalendarAssumption DEF Minutes
<1>6. wish' \in [Users -> [time : Minutes, duration : 1..MINUTES_IN_DAY]]
      /\ wish'[u] = w /\ \A v \in Users : v # u => wish'[v] = wish[v]
  BY <1>0, <1>3, <1>5 DEF CalendarTypeOK
<1>7. CalendarTypeOK'
  <2>1. pc'[Clock] \in ClockPCs
    BY <1>4 DEF ClockPCs
  <2> QED BY <1>0, <1>1, <1>2, <1>4, <1>6, <2>1 DEF CalendarTypeOK
<1>8. Progressing'
  <2>1. next[u] = 0 /\ w.duration >= 1 /\ MINUTES_IN_DAY \in Nat /\ w.duration \in Nat
    BY <1>0, <1>2, <1>5, SizesAreNatural DEF Progressing, WritingPCs
  <2>2. ASSUME NEW v \in Users
        PROVE  /\ pc'[v] \notin WritingPCs \cup {"planned"} => next[v] = 0
               /\ pc'[v] \in BookingPCs => next[v] < wish'[v].duration
               /\ next[v] <= wish'[v].duration
    <3>1. CASE v # u
      BY <1>0, <1>4, <1>6, <3>1 DEF Progressing
    <3>2. CASE v = u
      BY <1>4, <1>6, <2>1, <3>2 DEF BookingPCs
    <3> QED BY <3>1, <3>2
  <2> QED BY <1>2, <2>2 DEF Progressing
<1>9. LoadedIsFresh'
  BY <1>0, <1>2, <1>4 DEF LoadedIsFresh, Cell
<1>10. BookingsCounted'
  BY <1>0, <1>2, <1>4, BookingsStay
<1> QED BY <1>1, <1>4, <1>7, <1>8, <1>9, <1>10 DEF CalendarInv

LEMMA LookKeeps ==
  ASSUME CalendarInv, NEW u \in Users, LookForTime(u)
  PROVE  /\ CalendarInv'
         /\ IsBest(calendar, wish[u].time, wish[u].duration, best'[u])
<1>0. /\ CalendarTypeOK /\ Progressing /\ LoadedIsFresh /\ BookingsCounted /\ PCsTyped /\ LockInv
  BY DEF CalendarInv, CalendarTypeOK, PCsTyped
<1>1. LockInv' /\ reader_count' \in Nat
  BY <1>0, LockReaderKeeps
<1> DEFINE b == FindBestTime(calendar, wish[u].time, wish[u].duration)
<1>2. /\ pc[u] = "reading" /\ pc' = [pc EXCEPT ![u] = "rr_mutex"]
      /\ calendar' = calendar /\ wish' = wish /\ next' = next /\ loaded' = loaded /\ day' = day
      /\ best' = [best EXCEPT ![u] = b]
  BY DEF LookForTime, Goto
<1>3. IsBest(calendar, wish[u].time, wish[u].duration, b) /\ b \in Minutes
  <2>1. calendar \in Calendars
    BY <1>2, PlannersReadCalendars
  <2>2. wish[u].time \in Minutes /\ wish[u].duration \in 1..MINUTES_IN_DAY
    BY <1>0, BookingTyped
  <2> QED BY <2>1, <2>2, FindsTheBest
<1> HIDE DEF b
<1>4. /\ pc' \in [Processes -> UserPCs \cup ClockPCs]
      /\ pc'[Clock] = "day" /\ pc[Clock] = "day" /\ \A v \in Users : pc'[v] \in UserPCs
      /\ pc'[u] = "rr_mutex" /\ \A v \in Users : v # u => pc'[v] = pc[v]
      /\ PhaseInv' /\ Cleared' /\ mutex' \in 0..1 /\ writer' \in 0..1
  <2>1. "rr_mutex" \in UserPCs /\ pc[u] # "planned"
    BY <1>2 DEF UserPCs
  <2> QED BY <1>1, <1>2, <2>1, UserMoves
<1>5. best' \in [Users -> Minutes] /\ best'[u] = b /\ \A v \in Users : v # u => best'[v] = best[v]
  BY <1>0, <1>2, <1>3 DEF CalendarTypeOK
<1>6. CalendarTypeOK'
  <2>1. pc'[Clock] \in ClockPCs
    BY <1>4 DEF ClockPCs
  <2> QED BY <1>0, <1>1, <1>2, <1>4, <1>5, <2>1 DEF CalendarTypeOK
<1>7. next[u] = 0
  BY <1>0, <1>2 DEF Progressing, WritingPCs
<1>8. Progressing'
  <2>1. ASSUME NEW v \in Users
        PROVE  /\ pc'[v] \notin WritingPCs \cup {"planned"} => next[v] = 0
               /\ pc'[v] \in BookingPCs => next[v] < wish[v].duration
               /\ next[v] <= wish[v].duration
    <3>1. CASE v # u
      BY <1>0, <1>4, <3>1 DEF Progressing
    <3>2. CASE v = u
      BY <1>0, <1>4, <1>7, <3>2 DEF Progressing, BookingPCs
    <3> QED BY <3>1, <3>2
  <2> QED BY <1>2, <2>1 DEF Progressing
<1>9. LoadedIsFresh'
  <2>1. ASSUME NEW v \in Users, pc'[v] = "store" PROVE loaded[v] = calendar[best'[v] + next[v]]
    <3>1. v # u
      BY <1>4, <2>1
    <3> QED BY <1>0, <1>4, <1>5, <2>1, <3>1 DEF LoadedIsFresh, Cell
  <2> QED BY <1>2, <2>1 DEF LoadedIsFresh, Cell
<1>10. BookingsCounted'
  <2>1. \A v \in Users : best'[v] = best[v] \/ (next[v] = 0 /\ best'[v] \in Int)
    BY <1>3, <1>5, <1>7 DEF Minutes
  <2> QED BY <1>0, <1>2, <1>4, <2>1, BookingsStay
<1> QED BY <1>1, <1>3, <1>4, <1>5, <1>6, <1>8, <1>9, <1>10 DEF CalendarInv

LEMMA LoadKeeps ==
  ASSUME CalendarInv, NEW u \in Users, Load(u)
  PROVE  CalendarInv'
<1>0. /\ CalendarTypeOK /\ Progressing /\ LoadedIsFresh /\ BookingsCounted /\ PCsTyped /\ LockInv
  BY DEF CalendarInv, CalendarTypeOK, PCsTyped
<1>1. LockInv' /\ reader_count' \in Nat
  BY <1>0, BookKeeps DEF Book
<1>2. /\ pc[u] = "load" /\ pc' = [pc EXCEPT ![u] = "store"]
      /\ calendar' = calendar /\ wish' = wish /\ next' = next /\ best' = best /\ day' = day
      /\ loaded' = [loaded EXCEPT ![u] = calendar[Cell(u)]]
  BY DEF Load, Goto
<1>3. /\ pc' \in [Processes -> UserPCs \cup ClockPCs]
      /\ pc'[Clock] = "day" /\ pc[Clock] = "day" /\ \A v \in Users : pc'[v] \in UserPCs
      /\ pc'[u] = "store" /\ \A v \in Users : v # u => pc'[v] = pc[v]
      /\ PhaseInv' /\ Cleared' /\ mutex' \in 0..1 /\ writer' \in 0..1
  <2>1. "store" \in UserPCs /\ pc[u] # "planned"
    BY <1>2 DEF UserPCs
  <2> QED BY <1>1, <1>2, <2>1, UserMoves
<1>4. calendar[Cell(u)] \in Nat
  <2>1. Cell(u) \in Cells
    BY <1>0, <1>2, BookingTyped DEF BookingPCs
  <2> QED BY <1>0, <2>1 DEF CalendarTypeOK
<1>5. loaded' \in [Users -> Nat] /\ loaded'[u] = calendar[Cell(u)]
      /\ \A v \in Users : v # u => loaded'[v] = loaded[v]
  BY <1>0, <1>2, <1>4 DEF CalendarTypeOK
<1>6. CalendarTypeOK'
  <2>1. pc'[Clock] \in ClockPCs
    BY <1>3 DEF ClockPCs
  <2> QED BY <1>0, <1>1, <1>2, <1>3, <1>5, <2>1 DEF CalendarTypeOK
<1>7. Progressing'
  <2>1. ASSUME NEW v \in Users
        PROVE  /\ pc'[v] \notin WritingPCs \cup {"planned"} => next[v] = 0
               /\ pc'[v] \in BookingPCs => next[v] < wish[v].duration
               /\ next[v] <= wish[v].duration
    <3>1. CASE v # u
      BY <1>0, <1>3, <3>1 DEF Progressing
    <3>2. CASE v = u
      BY <1>0, <1>2, <1>3, <3>2 DEF Progressing, BookingPCs, WritingPCs
    <3> QED BY <3>1, <3>2
  <2> QED BY <1>2, <2>1 DEF Progressing
<1>8. LoadedIsFresh'
  <2>1. ASSUME NEW v \in Users, pc'[v] = "store" PROVE loaded'[v] = calendar[Cell(v)]
    BY <1>0, <1>3, <1>5, <2>1 DEF LoadedIsFresh
  <2>2. \A v \in Users : Cell(v)' = Cell(v)
    BY <1>2 DEF Cell
  <2> QED BY <1>2, <2>1, <2>2 DEF LoadedIsFresh
<1>9. BookingsCounted'
  BY <1>0, <1>2, <1>3, BookingsStay
<1> QED BY <1>1, <1>3, <1>6, <1>7, <1>8, <1>9 DEF CalendarInv

(* Nobody else is between loading and storing: the store counts the minute   *)
(* up from what the calendar still says.                                     *)
LEMMA StoreKeeps ==
  ASSUME CalendarInv, NEW u \in Users, Store(u)
  PROVE  CalendarInv'
<1>0. /\ CalendarTypeOK /\ Progressing /\ LoadedIsFresh /\ BookingsCounted /\ PCsTyped /\ LockInv
  BY DEF CalendarInv, CalendarTypeOK, PCsTyped
<1>1. LockInv' /\ reader_count' \in Nat
  BY <1>0, BookKeeps DEF Book
<1> DEFINE c == Cell(u)
           to == IF next[u] + 1 < wish[u].duration THEN "load" ELSE "rw_book"
<1>2. /\ pc[u] = "store" /\ pc' = [pc EXCEPT ![u] = to]
      /\ calendar' = [calendar EXCEPT ![c] = loaded[u] + 1]
      /\ next' = [next EXCEPT ![u] = next[u] + 1]
      /\ wish' = wish /\ best' = best /\ loaded' = loaded /\ day' = day
  BY <1>0 DEF Store, Goto, CalendarTypeOK
<1>3. to \in UserPCs /\ to \in {"load", "rw_book"}
  BY DEF UserPCs
<1>4. /\ pc' \in [Processes -> UserPCs \cup ClockPCs]
      /\ pc'[Clock] = "day" /\ pc[Clock] = "day" /\ \A v \in Users : pc'[v] \in UserPCs
      /\ pc'[u] = to /\ \A v \in Users : v # u => pc'[v] = pc[v]
      /\ PhaseInv' /\ Cleared' /\ mutex' \in 0..1 /\ writer' \in 0..1
  <2>1. pc[u] # "planned"
    BY <1>2
  <2> HIDE DEF to
  <2> QED BY <1>1, <1>2, <1>3, <2>1, UserMoves
<1>5. /\ best[u] \in Nat /\ next[u] \in Nat /\ MINUTES_IN_DAY \in Nat /\ c \in Cells
      /\ wish[u].duration \in 1..MINUTES_IN_DAY /\ next[u] < wish[u].duration
      /\ c = best[u] + next[u]
  BY <1>0, <1>2, BookingTyped, SizesAreNatural DEF BookingPCs, Progressing, Cell
<1>6. loaded[u] = calendar[c] /\ calendar[c] \in Nat
  BY <1>0, <1>2, <1>5 DEF LoadedIsFresh, CalendarTypeOK
<1>7. /\ calendar' \in [Cells -> Nat] /\ calendar'[c] = calendar[c] + 1
      /\ \A m \in Cells : m # c => calendar'[m] = calendar[m]
  <2> HIDE DEF c
  <2> QED BY <1>0, <1>2, <1>5, <1>6 DEF CalendarTypeOK
<1>8. /\ next' \in [Users -> 0..MINUTES_IN_DAY] /\ next'[u] = next[u] + 1
      /\ \A v \in Users : v # u => next'[v] = next[v]
  <2>1. next[u] + 1 \in 0..MINUTES_IN_DAY
    BY <1>5
  <2> QED BY <1>0, <1>2, <2>1 DEF CalendarTypeOK
<1>9. CalendarTypeOK'
  <2>1. pc'[Clock] \in ClockPCs
    BY <1>4 DEF ClockPCs
  <2> QED BY <1>0, <1>1, <1>2, <1>4, <1>7, <1>8, <2>1 DEF CalendarTypeOK
<1>10. Progressing'
  <2>1. ASSUME NEW v \in Users
        PROVE  /\ pc'[v] \notin WritingPCs \cup {"planned"} => next'[v] = 0
               /\ pc'[v] \in BookingPCs => next'[v] < wish[v].duration
               /\ next'[v] <= wish[v].duration
    <3>1. CASE v # u
      BY <1>0, <1>4, <1>8, <3>1 DEF Progressing
    <3>2. CASE v = u
      BY <1>4, <1>5, <1>8, <3>2 DEF BookingPCs, WritingPCs
    <3> QED BY <3>1, <3>2
  <2> QED BY <1>2, <2>1 DEF Progressing
<1>11. LoadedIsFresh'
  <2>1. ASSUME NEW v \in Users PROVE pc'[v] # "store"
    <3>1. CASE v = u
      BY <1>4, <3>1
    <3>2. CASE v # u
      <4>1. pc[v] \notin WritingPCs
        BY <1>0, <1>2, <3>2 DEF LockInv, WriterHeld, Holders, WritingPCs, Processes
      <4> QED BY <1>4, <3>2, <4>1 DEF WritingPCs
    <3> QED BY <3>1, <3>2
  <2> QED BY <2>1 DEF LoadedIsFresh
<1>12. BookingsCounted'
  <2>1. ASSUME NEW m \in Minutes PROVE calendar'[m] = Cardinality(Bookers(m)')
    <3>0. m \in Cells /\ m \in Int /\ calendar[m] = Cardinality(Bookers(m))
      BY <1>0, <1>4, <1>5, <2>1 DEF Minutes, Cells, BookingsCounted, Bookers
    <3>1. ASSUME NEW v \in Users, v # u PROVE Booked(v, m)' <=> Booked(v, m)
      BY <1>2, <1>8, <3>1 DEF Booked
    <3>2. Booked(u, m)' <=> Booked(u, m) \/ m = c
      BY <1>2, <1>5, <1>8, <3>0 DEF Booked
    <3>3. ~Booked(u, c)
      BY <1>5 DEF Booked
    <3> HIDE DEF c
    <3>4. CASE m = c
      <4>1. Bookers(m)' = Bookers(m) \cup {u} /\ u \notin Bookers(m)
        BY <3>1, <3>2, <3>3, <3>4 DEF Bookers
      <4>2. Cardinality(Bookers(m)') = Cardinality(Bookers(m)) + 1
        BY <4>1, BookersFinite, FS_AddElement
      <4> QED BY <1>7, <3>0, <3>4, <4>2
    <3>5. CASE m # c
      <4>1. Bookers(m)' = Bookers(m)
        BY <3>1, <3>2, <3>5 DEF Bookers
      <4> QED BY <1>7, <3>0, <3>5, <4>1
    <3> QED BY <3>4, <3>5
  <2> QED BY <2>1 DEF BookingsCounted, Bookers
<1> QED BY <1>1, <1>4, <1>9, <1>10, <1>11, <1>12 DEF CalendarInv

LEMMA UserKeeps ==
  ASSUME CalendarInv, NEW u \in Users, UserStep(u)
  PROVE  CalendarInv'
BY LockingKeeps, WishKeeps, LookKeeps, LoadKeeps, StoreKeeps DEF UserStep, Book

LEMMA ClockInvKept ==
  ASSUME CalendarInv, ClockStep
  PROVE  CalendarInv'
<1>0. /\ CalendarTypeOK /\ Progressing /\ LoadedIsFresh /\ BookingsCounted /\ PCsTyped
      /\ LockInv /\ PhaseInv /\ Cleared
      /\ Clock \notin Users /\ Clock \in Processes /\ MINUTES_IN_DAY \in Nat
  BY CalendarAssumption DEF CalendarInv, CalendarTypeOK, PCsTyped, Processes
<1>1. LockInv' /\ mutex' \in 0..1 /\ writer' \in 0..1
  <2>1. LockInv'
    BY <1>0, ClockKeeps
  <2> QED BY <2>1 DEF LockInv, MutexHeld, WriterHeld
(* Every step of the clock but NextDay moves the clock alone.                *)
<1>2. ASSUME NEW to \in ClockPCs \ {"day"}, pc' = [pc EXCEPT ![Clock] = to],
             UNCHANGED <<userVars, day, reader_count>>, \A u \in Users : pc[u] = "planned",
             day < SIM_DURATION,
             calendar' \in [Cells -> Nat],
             to \in {"rw_clear", "next"} => \A m \in Minutes : calendar'[m] = 0
      PROVE  CalendarInv'
  <2>1. /\ pc'[Clock] = to /\ \A u \in Users : pc'[u] = pc[u]
        /\ pc' \in [Processes -> UserPCs \cup ClockPCs]
    BY <1>0, <1>2 DEF PCsTyped, Processes
  <2>2. wish' = wish /\ best' = best /\ next' = next /\ loaded' = loaded /\ day' = day
        /\ reader_count' = reader_count
    BY <1>2 DEF userVars
  <2>3. CalendarTypeOK'
    <3>1. pc'[Clock] \in ClockPCs /\ \A u \in Users : pc'[u] \in UserPCs
      BY <1>0, <1>2, <2>1 DEF PCsTyped
    <3> QED BY <1>0, <1>1, <1>2, <2>1, <2>2, <3>1 DEF CalendarTypeOK
  <2>4. PhaseInv' /\ BookingsCounted' /\ Cleared'
    BY <1>2, <2>1, <2>2 DEF PhaseInv, BookingsCounted, Cleared
  <2>5. Progressing'
    BY <1>0, <2>1, <2>2 DEF Progressing
  <2>6. LoadedIsFresh'
    BY <1>2, <2>1 DEF LoadedIsFresh
  <2> QED BY <1>1, <2>3, <2>4, <2>5, <2>6 DEF CalendarInv
<1>3. calendar \in [Cells -> Nat]
      /\ (pc[Clock] # "day" => day < SIM_DURATION /\ \A u \in Users : pc[u] = "planned")
  BY <1>0 DEF CalendarTypeOK, PhaseInv
<1>4. CASE EndOfDay
  <2>1. /\ pc' = [pc EXCEPT ![Clock] = "lw_clear"] /\ calendar' = calendar
        /\ UNCHANGED <<userVars, day, reader_count>> /\ \A u \in Users : pc[u] = "planned"
        /\ day < SIM_DURATION
    BY <1>4 DEF EndOfDay, Goto, lockVars
  <2>2. "lw_clear" \in ClockPCs \ {"day"}
    BY DEF ClockPCs
  <2> QED BY <1>2, <1>3, <2>1, <2>2
<1>5. CASE LockWriter(Clock, "lw_clear", "clear")
  <2>1. /\ pc' = [pc EXCEPT ![Clock] = "clear"] /\ calendar' = calendar
        /\ UNCHANGED <<userVars, day, reader_count>> /\ pc[Clock] = "lw_clear"
    BY <1>5 DEF LockWriter, Goto
  <2>2. "clear" \in ClockPCs \ {"day"}
    BY DEF ClockPCs
  <2> QED BY <1>2, <1>3, <2>1, <2>2
<1>6. CASE ClearCalendar
  <2>1. /\ pc' = [pc EXCEPT ![Clock] = "rw_clear"] /\ pc[Clock] = "clear"
        /\ UNCHANGED <<userVars, day, reader_count>>
        /\ calendar' = [m \in Cells |-> IF m \in Minutes THEN 0 ELSE calendar[m]]
    BY <1>6 DEF ClearCalendar, Goto, lockVars
  <2>2. "rw_clear" \in ClockPCs \ {"day"}
    BY DEF ClockPCs
  <2>3. calendar' \in [Cells -> Nat]
    BY <1>3, <2>1
  <2>4. \A m \in Minutes : calendar'[m] = 0
    BY <1>0, <2>1 DEF Minutes, Cells
  <2> QED BY <1>2, <1>3, <2>1, <2>2, <2>3, <2>4
<1>7. CASE ReleaseWriter(Clock, "rw_clear", "next")
  <2>1. /\ pc' = [pc EXCEPT ![Clock] = "next"] /\ calendar' = calendar
        /\ UNCHANGED <<userVars, day, reader_count>> /\ pc[Clock] = "rw_clear"
    BY <1>7 DEF ReleaseWriter, Goto
  <2>2. "next" \in ClockPCs \ {"day"}
    BY DEF ClockPCs
  <2>3. \A m \in Minutes : calendar'[m] = 0
    BY <1>0, <2>1 DEF Cleared
  <2> QED BY <1>2, <1>3, <2>1, <2>2, <2>3
<1>8. CASE NextDay
  <2>1. /\ pc[Clock] = "next" /\ reader_count' = reader_count /\ calendar' = calendar
        /\ pc' = [p \in Processes |-> IF p = Clock THEN "day" ELSE "home"]
        /\ next' = [u \in Users |-> 0] /\ day' = day + 1
        /\ wish' = wish /\ best' = best /\ loaded' = loaded
    BY <1>8 DEF NextDay, lockVars
  <2>2. /\ pc'[Clock] = "day" /\ \A u \in Users : pc'[u] = "home"
        /\ pc' \in [Processes -> UserPCs \cup ClockPCs]
    BY <1>0, <2>1 DEF Processes, UserPCs, ClockPCs
  <2>3. next' \in [Users -> 0..MINUTES_IN_DAY] /\ \A u \in Users : next'[u] = 0
    BY <1>0, <2>1
  <2>4. CalendarTypeOK'
    <3>1. day' \in 0..SIM_DURATION
      BY <1>0, <2>1, CalendarAssumption DEF CalendarTypeOK, PhaseInv
    <3>2. pc'[Clock] \in ClockPCs /\ \A u \in Users : pc'[u] \in UserPCs
      BY <2>2 DEF ClockPCs, UserPCs
    <3> QED BY <1>0, <1>1, <2>1, <2>2, <2>3, <3>1, <3>2 DEF CalendarTypeOK
  <2>5. PhaseInv' /\ Cleared' /\ LoadedIsFresh'
    BY <2>2 DEF PhaseInv, Cleared, LoadedIsFresh
  <2>6. Progressing'
    <3>1. ASSUME NEW u \in Users
          PROVE  wish[u].duration \in Nat /\ 0 < wish[u].duration
      BY <1>0, BookingTyped
    <3> QED BY <2>1, <2>2, <2>3, <3>1 DEF Progressing, BookingPCs
  <2>7. BookingsCounted'
    <3>1. ASSUME NEW m \in Minutes PROVE Bookers(m)' = {}
      <4>1. ASSUME NEW u \in Users PROVE ~Booked(u, m)'
        <5>1. best'[u] \in Nat /\ next'[u] = 0
          BY <1>0, <2>1, <2>3, BookingTyped
        <5> QED BY <5>1 DEF Booked
      <4> QED BY <4>1 DEF Bookers
    <3>2. \A m \in Minutes : calendar'[m] = 0
      BY <1>0, <2>1 DEF Cleared
    <3> QED BY <3>1, <3>2, FS_EmptySet DEF BookingsCounted, Bookers
  <2> QED BY <1>1, <2>4, <2>5, <2>6, <2>7 DEF CalendarInv
<1> QED BY <1>4, <1>5, <1>6, <1>7, <1>8 DEF ClockStep

LEMMA CalendarInit == Init => CalendarInv
<1> SUFFICES ASSUME Init PROVE CalendarInv
  OBVIOUS
<1>0. /\ MINUTES_IN_DAY \in Nat /\ MINUTES_IN_DAY > 0 /\ SIM_DURATION \in Nat
      /\ Clock \notin Users /\ Clock \in Processes
  BY CalendarAssumption, SizesAreNatural DEF Processes
<1>1. pc[Clock] = "day" /\ \A u \in Users : pc[u] = "home"
  BY <1>0 DEF Init, Processes
<1>2. CalendarTypeOK
  <2>1. pc \in [Processes -> UserPCs \cup ClockPCs]
    BY DEF Init, UserPCs, ClockPCs
  <2>2. calendar \in [Cells -> Nat] /\ loaded \in [Users -> Nat]
    BY DEF Init
  <2>3. best \in [Users -> Minutes] /\ next \in [Users -> 0..MINUTES_IN_DAY]
    BY <1>0 DEF Init, Minutes
  <2>4. wish \in [Users -> [time : Minutes, duration : 1..MINUTES_IN_DAY]]
    BY <1>0 DEF Init, Minutes
  <2>5. mutex \in 0..1 /\ writer \in 0..1 /\ reader_count \in Nat /\ day \in 0..SIM_DURATION
    BY <1>0 DEF Init
  <2>6. pc[Clock] \in ClockPCs /\ \A u \in Users : pc[u] \in UserPCs
    BY <1>1 DEF ClockPCs, UserPCs
  <2> QED BY <2>1, <2>2, <2>3, <2>4, <2>5, <2>6 DEF CalendarTypeOK
<1>3. At(MutexPCs) = {} /\ At(CountedPCs) = {} /\ At(RoomPCs) = {} /\ Holders = {}
  BY <1>1 DEF At, Holders, Processes, MutexPCs, CountedPCs, RoomPCs, WritingPCs
<1>4. LockInv
  BY <1>1, <1>3, FS_EmptySet DEF Init, LockInv, MutexHeld, ReadersCounted, Learnt, WriterHeld
<1>5. PhaseInv /\ LoadedIsFresh /\ Cleared
  BY <1>1 DEF PhaseInv, LoadedIsFresh, Cleared
<1>6. Progressing
  BY <1>1 DEF Init, Progressing, BookingPCs
<1>7. BookingsCounted
  <2>1. ASSUME NEW m \in Minutes PROVE Bookers(m) = {}
    BY DEF Init, Bookers, Booked
  <2>2. \A m \in Minutes : calendar[m] = 0
    BY <1>0 DEF Init, Minutes, Cells
  <2> QED BY <2>1, <2>2, FS_EmptySet DEF BookingsCounted, Bookers
<1> QED BY <1>2, <1>4, <1>5, <1>6, <1>7 DEF CalendarInv

LEMMA CalendarInvUnchanged == CalendarInv /\ UNCHANGED vars => CalendarInv'
<1> SUFFICES ASSUME CalendarInv, UNCHANGED vars PROVE CalendarInv'
  OBVIOUS
<1> USE DEF vars, lockVars, userVars
<1>1. CalendarTypeOK' /\ PhaseInv' /\ Progressing' /\ Cleared'
  BY DEF CalendarInv, CalendarTypeOK, PhaseInv, Progressing, Cleared
<1>2. LoadedIsFresh'
  BY DEF CalendarInv, LoadedIsFresh, Cell
<1>3. BookingsCounted'
  BY DEF CalendarInv, BookingsCounted, Booked
<1>4. LockInv'
  BY DEF CalendarInv, LockInv, MutexHeld, ReadersCounted, Learnt, WriterHeld, Holders, At
<1> QED BY <1>1, <1>2, <1>3, <1>4 DEF CalendarInv

LEMMA CalendarInvKept == CalendarInv /\ [Next]_vars => CalendarInv'
<1> SUFFICES ASSUME CalendarInv, [Next]_vars PROVE CalendarInv'
  OBVIOUS
<1>1. ASSUME NEW u \in Users, UserStep(u) PROVE CalendarInv'
  BY <1>1, UserKeeps
<1>2. CASE ClockStep
  BY <1>2, ClockInvKept
<1>3. CASE Finished \/ UNCHANGED vars
  BY <1>3, CalendarInvUnchanged DEF Finished
<1> QED BY <1>1, <1>2, <1>3 DEF Next

LEMMA CalendarInvHolds == Spec => []CalendarInv
BY CalendarInit, CalendarInvKept, PTL DEF Spec

----------------------------------------------------------------------------
(* THEOREMS                                                                  *)

(* For any users, wishes, window and length of the day: the binary           *)
(* semaphores of the lock with priority to the readers stay binary, the      *)
(* minute a user books is one of the day, and no booking leaves the calendar *)
(* (calendar.c, lock_reader_RP and release_reader_RP of sem_utils.c).        *)
THEOREM CalendarTyped == Spec => []CalendarTypeOK
BY CalendarInvHolds, PTL DEF CalendarInv

(* For any users and wishes: no booking is lost, whatever order the searches *)
(* and the bookings interleave in, and none of an earlier day remains.       *)
THEOREM NoBookingIsLost == Spec => []BookingsCounted
BY CalendarInvHolds, PTL DEF CalendarInv

(* For any calendar the users of a day can make, any wish and any window:    *)
(* the loop of find_best_time gives the least crowded minute where the       *)
(* services fit, the nearest to the wished one among those, the earliest     *)
(* among the nearest, and the wished one when they fit nowhere.              *)
THEOREM TheBestTimeIsFound == Spec => GivesTheBestTime
<1>1. CalendarInv /\ [Next]_vars =>
        [\A u \in Users : pc[u] = "reading" /\ pc'[u] # "reading" =>
           IsBest(calendar, wish[u].time, wish[u].duration, best'[u])]_vars
  <2> SUFFICES ASSUME CalendarInv, Next, NEW u \in Users, pc[u] = "reading", pc'[u] # "reading"
               PROVE  IsBest(calendar, wish[u].time, wish[u].duration, best'[u])
    OBVIOUS
  <2>0. PCsTyped /\ Clock \notin Users
    BY CalendarAssumption DEF CalendarInv, CalendarTypeOK, PCsTyped
  <2>1. ~ClockStep
    <3>1. pc[Clock] = "day"
      BY PlannersReadCalendars
    <3> QED BY <3>1 DEF ClockStep, EndOfDay, LockWriter, ClearCalendar, ReleaseWriter,
                        NextDay, Goto
  <2>2. ~Finished
    BY DEF Finished
  <2>3. PICK v \in Users : UserStep(v)
    BY <2>1, <2>2 DEF Next
  <2>4. v = u
    <3>1. \E to : pc' = [pc EXCEPT ![v] = to]
      BY <2>3 DEF UserStep, StayHome, WishFor, LockReaderRP, LookForTime, ReleaseReaderRP, Book,
                  LockMutex, ReleaseMutex, CountReader, FirstReader, LockWriter, ReleaseWriter,
                  UncountReader, LastReader, Load, Store, Goto
    <3> QED BY <2>0, <3>1, AtMoves
  <2>5. LookForTime(u)
    BY <2>3, <2>4 DEF UserStep, StayHome, WishFor, LockReaderRP, ReleaseReaderRP, Book,
                  LockMutex, ReleaseMutex, CountReader, FirstReader, LockWriter, ReleaseWriter,
                  UncountReader, LastReader, Load, Store, Goto
  <2> QED BY <2>5, LookKeeps
<1> QED BY <1>1, CalendarInvHolds, PTL DEF Spec, GivesTheBestTime
=============================================================================
