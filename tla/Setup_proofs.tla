---------------------------- MODULE Setup_proofs ----------------------------
(***************************************************************************)
(* Proofs about Setup: what its operators compute, and an inductive        *)
(* invariant of the IPC objects over any number of runs.                   *)
(*                                                                         *)
(*   keys      check_exist_key finds a key exactly when the table holds it *)
(*             and says where it belongs (CheckFinds); so the table stays  *)
(*             sorted (InsertKeeps), every name gets a key of its own, and *)
(*             the names that come first get the same ones whatever the    *)
(*             configuration is (CommonRowsAgree, AddUsersAgree).          *)
(*   objects   the lists of the manager's creations and removals name each *)
(*             object once, and whatever is created is removed             *)
(*             (CreatedLists, RemovalsList, CreatedIsRemoved).             *)
(*   sharing   the shares of utils_assign_count_array are consecutive and  *)
(*             add up (AssignIs, BordersPart, SharedIsStaffed).            *)
(*   runs      SetupInv: who has made which object, how far the manager is *)
(*             and what is there by then. One lemma (Keeps...) per part,   *)
(*             one step per action in each.                                *)
(***************************************************************************)
EXTENDS Setup, FiniteSetTheorems, SequenceTheorems, WellFoundedInduction, TLAPS

----------------------------------------------------------------------------
(* INDUCTION AND RECURSION OVER AN INTERVAL                                  *)

(* A set that holds the first number of an interval and with each number the *)
(* next one holds them all.                                                  *)
LEMMA Reaches ==
  ASSUME NEW a \in Int, NEW b \in Int, NEW T, a \in T,
         \A i \in a + 1..b : i - 1 \in T => i \in T
  PROVE  a..b \subseteq T
<1> DEFINE R == OpToRel(<, Nat)
           B == {n \in Nat : a + n <= b /\ a + n \notin T}
<1>1. IsWellFoundedOn(R, Nat)
  BY NatLessThanWellFounded
<1>2. \A x, y \in Nat : <<y, x>> \in R <=> y < x
  BY DEF OpToRel
<1>3. ASSUME B # {} PROVE FALSE
  <2>1. B \in SUBSET Nat
    OBVIOUS
  <2>2. \E n \in B : \A k \in B : ~ (<<k, n>> \in R)
    <3> HIDE DEF R, B
    <3> QED BY <1>1, <1>3, <2>1, WFMin
  <2>3. PICK n \in B : \A k \in B : ~ (<<k, n>> \in R)
    BY <2>2
  <2>4. n \in Nat /\ a + n <= b /\ a + n \notin T
    OBVIOUS
  <2>5. n # 0
    BY <2>4
  <2>6. n - 1 \in Nat /\ a + (n - 1) <= b /\ n - 1 < n /\ a + (n - 1) = a + n - 1
    BY <2>4, <2>5
  <2>7. <<n - 1, n>> \in R
    BY <1>2, <2>4, <2>6, Zenon
  <2>8. a + (n - 1) \in T
    BY <2>3, <2>6, <2>7
  <2>9. a + n \in a + 1..b
    BY <2>4, <2>5
  <2> QED BY <2>4, <2>6, <2>8, <2>9
<1>4. ASSUME NEW i \in a..b PROVE i \in T
  <2>1. i - a \in Nat /\ a + (i - a) = i
    OBVIOUS
  <2>2. a + (i - a) <= b
    BY <2>1
  <2>3. i - a \notin B
    BY <1>3
  <2> QED BY <2>1, <2>2, <2>3
<1> QED BY <1>4

(* A function defined from its value at the number before exists, when one   *)
(* step of the definition, the function G, stays in the values V.            *)
Unfolds(f, a, b, v, G) ==
  f = [i \in a..b |-> IF i = a THEN v ELSE G[<<i, f[i - 1]>>]]

(* It exists and keeps to the values V.                                      *)
LEMMA RecursionExists ==
  ASSUME NEW a \in Int, NEW b \in Int, a <= b, NEW V, NEW v \in V, NEW G \in [Int \X V -> V]
  PROVE  /\ \E f : Unfolds(f, a, b, v, G)
         /\ \A f : Unfolds(f, a, b, v, G) => f \in [a..b -> V]
<1> DEFINE T == {k \in Int : \E f \in [a..k -> V] : Unfolds(f, a, k, v, G)}
<1>1. a \in T
  <2> DEFINE f == [i \in a..a |-> v]
  <2>1. f \in [a..a -> V] /\ Unfolds(f, a, a, v, G)
    BY DEF Unfolds
  <2> HIDE DEF f
  <2> QED BY <2>1
<1>2. ASSUME NEW k \in a + 1..b, k - 1 \in T PROVE k \in T
  <2>0. k \in Int /\ a < k
    OBVIOUS
  <2>1. PICK s \in [a..(k - 1) -> V] : Unfolds(s, a, k - 1, v, G)
    BY <1>2
  <2> DEFINE f == [i \in a..k |-> IF i = k THEN G[<<k, s[k - 1]>>] ELSE s[i]]
  <2>2. s[k - 1] \in V
    BY <2>0
  <2>3. f \in [a..k -> V]
    <3>1. ASSUME NEW i \in a..k PROVE (IF i = k THEN G[<<k, s[k - 1]>>] ELSE s[i]) \in V
      BY <2>0, <2>2
    <3> QED BY <3>1
  <2>4. ASSUME NEW i \in a..k PROVE f[i] = IF i = a THEN v ELSE G[<<i, f[i - 1]>>]
    <3>1. CASE i = k
      <4>1. f[k - 1] = s[k - 1] /\ i # a
        BY <2>0, <3>1
      <4> QED BY <3>1, <4>1
    <3>2. CASE i # k
      <4>1. i \in a..(k - 1) /\ (i # a => i - 1 \in a..k /\ i - 1 # k)
        BY <2>0, <3>2
      <4>2. s[i] = IF i = a THEN v ELSE G[<<i, s[i - 1]>>]
        BY <2>1, <4>1 DEF Unfolds
      <4>3. f[i] = s[i] /\ (i # a => f[i - 1] = s[i - 1])
        BY <3>2, <4>1
      <4> QED BY <4>2, <4>3
    <3> QED BY <3>1, <3>2
  <2>5. Unfolds(f, a, k, v, G)
    <3>1. f = [i \in a..k |-> f[i]]
      OBVIOUS
    <3> HIDE DEF f
    <3> QED BY <2>4, <3>1 DEF Unfolds
  <2> HIDE DEF f
  <2> QED BY <2>0, <2>3, <2>5
<1>3. b \in T
  <2> HIDE DEF T
  <2>1. a..b \subseteq T
    BY <1>1, <1>2, Reaches
  <2> QED BY <2>1
<1>4. ASSUME NEW f, Unfolds(f, a, b, v, G) PROVE f \in [a..b -> V]
  <2>1. f = [i \in a..b |-> f[i]]
        /\ \A i \in a..b : f[i] = IF i = a THEN v ELSE G[<<i, f[i - 1]>>]
    BY <1>4 DEF Unfolds
  <2> DEFINE U == {i \in a..b : f[i] \in V}
  <2>2. a \in U
    <3>1. a \in a..b
      OBVIOUS
    <3>2. f[a] = v
      BY <2>1, <3>1
    <3> QED BY <3>1, <3>2
  <2>3. ASSUME NEW i \in a + 1..b, i - 1 \in U PROVE i \in U
    <3>1. i \in a..b /\ i \in Int /\ i # a /\ f[i - 1] \in V
      BY <2>3
    <3>2. f[i] = G[<<i, f[i - 1]>>]
      BY <2>1, <3>1
    <3>3. G[<<i, f[i - 1]>>] \in V
      BY <3>1
    <3> QED BY <3>1, <3>2, <3>3
  <2>4. a..b \subseteq U
    <3> HIDE DEF U
    <3> QED BY <2>2, <2>3, Reaches
  <2> QED BY <2>1, <2>4
<1> QED BY <1>3, <1>4

(* One more value of a function leaves the others.                           *)
LEMMA WithIs ==
  ASSUME NEW f, NEW x, NEW v
  PROVE  /\ DOMAIN With(f, x, v) = DOMAIN f \cup {x}
         /\ With(f, x, v)[x] = v
         /\ \A y \in DOMAIN f : y # x => With(f, x, v)[y] = f[y]
         /\ With(f, x, v) = [y \in DOMAIN With(f, x, v) |-> With(f, x, v)[y]]
BY DEF With

(* The sequence s holds every element of S, each of them once.               *)
Enumerates(s, S) ==
  /\ s \in Seq(S)
  /\ \A x \in S : \E i \in 1..Len(s) : s[i] = x
  /\ \A i, j \in 1..Len(s) : s[i] = s[j] => i = j

(* Two lists without a name in common, one after the other.                  *)
LEMMA EnumeratesBoth ==
  ASSUME NEW S, NEW T, S \cap T = {}, NEW s, NEW t, Enumerates(s, S), Enumerates(t, T)
  PROVE  Enumerates(s \o t, S \cup T)
<1> DEFINE u == s \o t
           m == Len(s)
           n == Len(t)
<1>0. /\ s \in Seq(S) /\ t \in Seq(T)
      /\ m \in Nat /\ n \in Nat
      /\ \A x \in S : \E i \in 1..m : s[i] = x
      /\ \A x \in T : \E i \in 1..n : t[i] = x
      /\ \A i, j \in 1..m : s[i] = s[j] => i = j
      /\ \A i, j \in 1..n : t[i] = t[j] => i = j
  <2>1. s \in Seq(S) /\ t \in Seq(T)
    BY DEF Enumerates
  <2>2. m \in Nat /\ n \in Nat
    BY <2>1
  <2>3. (\A x \in S : \E i \in 1..m : s[i] = x) /\ \A x \in T : \E i \in 1..n : t[i] = x
    BY Zenon DEF Enumerates
  <2>4. (\A i, j \in 1..m : s[i] = s[j] => i = j) /\ \A i, j \in 1..n : t[i] = t[j] => i = j
    BY Zenon DEF Enumerates
  <2> QED BY <2>1, <2>2, <2>3, <2>4
<1>1. s \in Seq(S \cup T) /\ t \in Seq(S \cup T)
  BY <1>0
<1>2. u \in Seq(S \cup T) /\ Len(u) = m + n
  BY <1>0, <1>1
<1>3. \A i \in 1..m : i \in 1..Len(u) /\ u[i] = s[i] /\ s[i] \in S
  BY <1>0, <1>1, <1>2
<1>4. \A i \in 1..n : i + m \in 1..Len(u) /\ u[i + m] = t[i] /\ t[i] \in T
  BY <1>0, <1>1, <1>2
<1>5. \A i \in 1..Len(u) : i \in 1..m \/ (\E j \in 1..n : i = j + m)
  <2> SUFFICES ASSUME NEW i \in 1..Len(u), i \notin 1..m PROVE \E j \in 1..n : i = j + m
    OBVIOUS
  <2>1. i - m \in 1..n /\ i = (i - m) + m
    BY <1>0, <1>2
  <2> QED BY <2>1
<1> HIDE DEF u, m, n
<1>6. ASSUME NEW x \in S \cup T PROVE \E i \in 1..Len(u) : u[i] = x
  <2>1. CASE x \in S
    BY <1>0, <1>3, <2>1
  <2>2. CASE x \in T
    <3>1. PICK i \in 1..n : t[i] = x
      BY <1>0, <2>2
    <3> QED BY <1>4, <3>1
  <2> QED BY <2>1, <2>2
<1>7. ASSUME NEW i \in 1..Len(u), NEW j \in 1..Len(u), u[i] = u[j] PROVE i = j
  <2>1. CASE i \in 1..m /\ j \in 1..m
    BY <1>0, <1>3, <1>7, <2>1
  <2>2. ASSUME NEW k \in 1..n, i \in 1..m, j = k + m PROVE FALSE
    <3>1. u[i] \in S /\ u[j] \in T
      BY <1>3, <1>4, <2>2
    <3> QED BY <1>7, <3>1
  <2>3. ASSUME NEW k \in 1..n, j \in 1..m, i = k + m PROVE FALSE
    <3>1. u[j] \in S /\ u[i] \in T
      BY <1>3, <1>4, <2>3
    <3> QED BY <1>7, <3>1
  <2>4. ASSUME NEW k \in 1..n, NEW l \in 1..n, i = k + m, j = l + m PROVE i = j
    <3>1. t[k] = t[l]
      BY <1>4, <1>7, <2>4
    <3> QED BY <1>0, <2>4, <3>1
  <2> QED BY <1>5, <2>1, <2>2, <2>3, <2>4
<1>8. Enumerates(u, S \cup T)
  BY <1>2, <1>6, <1>7 DEF Enumerates
<1> QED BY <1>8 DEF u

----------------------------------------------------------------------------
(* NAMES, OBJECTS AND THEIR ORDER                                            *)

AllConfigs == Configs \cup {NoConfig}

(* The four numbers of a configuration, that of add_users included.          *)
LEMMA ConfigTyped ==
  ASSUME NEW c \in AllConfigs
  PROVE  /\ c.workers \in Nat /\ c.users \in Nat /\ c.extra \in Nat /\ c.seats \in Nat
         /\ c.users + c.extra \in Nat
BY SetupAssumption DEF AllConfigs, NoConfig

(* The names there is one object of, and those a configuration adds.         *)
OneSem == {"START", "SEATS", "SHM_SEATS_INFO", "DAY_STARTED", "PROC_READY",
  "NOTIFY_WORKER", "DAY_END", "NOTIFY_DISPENSER", "NOTIFY_USER", "NOTIFY_CLOCK",
  "ADD_USERS", "CLOCK_ADD_USERS", "PROC_CAN_DIE", "ALL_PROC_STOP", "STOP_SIM_EXPLODE"}
OneRP == {"CALENDAR_mutex", "CALENDAR_reader_count", "CALENDAR_writer",
  "MIN_COUNT_mutex", "MIN_COUNT_reader_count", "MIN_COUNT_writer"}
OneWP == {"SEATS_INFO_mutex", "SEATS_INFO_ar_count", "SEATS_INFO_wr_count",
  "SEATS_INFO_aw_count", "SEATS_INFO_ww_count", "SEATS_INFO_ok_read", "SEATS_INFO_ok_write"}
OneShm == {"SHM_SEATS_INDEX", "SHM_SEATS_INFO_SEG", "SHM_WORKERS_PID",
  "SHM_TICKET_DISPENSER_PID", "SHM_CALENDAR"}
OneMsg == {"MSG_DISPENSER", "MSG_CLOCK", "MSG_STATS_DATA", "MSG_STATS_METADATA"}
CommonNames == (OneSem \X {0}) \cup (OneRP \X {0}) \cup (OneWP \X {0}) \cup (OneShm \X {0})
Queues(name, n) == {name} \X (1..n)
QueueNames(c) == Queues("MSG_WORKER", c.workers) \cup Queues("MSG_USER", c.users + c.extra)
                 \cup (OneMsg \X {0})
Names(c) == CommonNames \cup QueueNames(c)
MIN_COUNT == <<"SHM_MIN_COUNT", 0>>

(* The names there is one object of.                                         *)
LEMMA EnumeratesSingle ==
  ASSUME NEW S, NEW s, Enumerates(s, S)
  PROVE  Enumerates(Single(s), S \X {0})
<1>1. s \in Seq(S) /\ Len(s) \in Nat /\ DOMAIN s = 1..Len(s)
  BY DEF Enumerates
<1>2. \A i \in 1..Len(s) : Single(s)[i] = <<s[i], 0>>
  BY <1>1 DEF Single
<1>3. Single(s) \in Seq(S \X {0}) /\ Len(Single(s)) = Len(s)
  BY <1>1 DEF Single
<1>4. ASSUME NEW x \in S \X {0} PROVE \E i \in 1..Len(s) : Single(s)[i] = x
  <2>1. PICK e \in S : x = <<e, 0>>
    OBVIOUS
  <2>2. PICK i \in 1..Len(s) : s[i] = e
    BY DEF Enumerates
  <2> QED BY <1>2, <2>1, <2>2
<1>5. \A i, j \in 1..Len(s) : Single(s)[i] = Single(s)[j] => i = j
  BY <1>2 DEF Enumerates
<1> QED BY <1>3, <1>4, <1>5 DEF Enumerates

(* The names that are numbered, as the queues of the workers are.            *)
LEMMA EnumeratesMany ==
  ASSUME NEW name, NEW n \in Nat
  PROVE  Enumerates(Many(name, n), Queues(name, n))
<1>1. Many(name, n) \in Seq(Queues(name, n)) /\ Len(Many(name, n)) = n
  BY DEF Many, Queues
<1>2. \A i \in 1..n : Many(name, n)[i] = <<name, i>>
  BY DEF Many
<1>3. \A x \in Queues(name, n) : \E i \in 1..n : Many(name, n)[i] = x
  BY <1>2 DEF Queues
<1> QED BY <1>1, <1>2, <1>3 DEF Enumerates

(* The users' queues from one number to another.                             *)
LEMMA EnumeratesUsers ==
  ASSUME NEW a \in Nat, NEW b \in Nat, a <= b
  PROVE  Enumerates(UserQueues(a + 1, b), {"MSG_USER"} \X (a + 1..b))
<1> DEFINE u == UserQueues(a + 1, b)
<1>1. u \in Seq({"MSG_USER"} \X (a + 1..b)) /\ Len(u) = b - a
  BY DEF UserQueues
<1>2. \A i \in 1..b - a : u[i] = <<"MSG_USER", a + i>>
  BY DEF UserQueues
<1> HIDE DEF u
<1>3. \A x \in {"MSG_USER"} \X (a + 1..b) : \E i \in 1..b - a : u[i] = x
  <2> SUFFICES ASSUME NEW k \in a + 1..b PROVE \E i \in 1..b - a : u[i] = <<"MSG_USER", k>>
    OBVIOUS
  <2>1. k - a \in 1..b - a /\ a + (k - a) = k
    OBVIOUS
  <2> QED BY <1>2, <2>1
<1>4. \A i, j \in 1..b - a : u[i] = u[j] => i = j
  BY <1>2
<1>5. Enumerates(u, {"MSG_USER"} \X (a + 1..b))
  BY <1>1, <1>3, <1>4 DEF Enumerates
<1> QED BY <1>5 DEF u

(* The names generate_key gives keys to, the common ones first.              *)
CommonKeyNames == SEM_KEYS \o SEMRP_KEYS \o SEMWP_KEYS \o SHM_KEYS
(* The names of all configurations, each once.                               *)
LEMMA CommonAreNamed ==
  /\ Enumerates(SEM_KEYS, OneSem \X {0}) /\ Enumerates(SEMRP_KEYS, OneRP \X {0})
  /\ Enumerates(SEMWP_KEYS, OneWP \X {0}) /\ Enumerates(SHM_KEYS, OneShm \X {0})
  /\ Enumerates(CommonKeyNames, CommonNames)
<1>1. Enumerates(SEM_KEYS, OneSem \X {0})
  <2>1. Enumerates(<<"START", "SEATS", "SHM_SEATS_INFO", "DAY_STARTED", "PROC_READY",
          "NOTIFY_WORKER", "DAY_END", "NOTIFY_DISPENSER", "NOTIFY_USER", "NOTIFY_CLOCK",
          "ADD_USERS", "CLOCK_ADD_USERS", "PROC_CAN_DIE", "ALL_PROC_STOP", "STOP_SIM_EXPLODE">>, OneSem)
    BY DEF Enumerates, OneSem
  <2> QED BY <2>1, EnumeratesSingle DEF SEM_KEYS
<1>2. Enumerates(SEMRP_KEYS, OneRP \X {0})
  <2>1. Enumerates(<<"CALENDAR_mutex", "CALENDAR_reader_count", "CALENDAR_writer",
          "MIN_COUNT_mutex", "MIN_COUNT_reader_count", "MIN_COUNT_writer">>, OneRP)
    BY DEF Enumerates, OneRP
  <2> QED BY <2>1, EnumeratesSingle DEF SEMRP_KEYS
<1>3. Enumerates(SEMWP_KEYS, OneWP \X {0})
  <2>1. Enumerates(<<"SEATS_INFO_mutex", "SEATS_INFO_ar_count", "SEATS_INFO_wr_count",
          "SEATS_INFO_aw_count", "SEATS_INFO_ww_count", "SEATS_INFO_ok_read", "SEATS_INFO_ok_write">>, OneWP)
    BY DEF Enumerates, OneWP
  <2> QED BY <2>1, EnumeratesSingle DEF SEMWP_KEYS
<1>4. Enumerates(SHM_KEYS, OneShm \X {0})
  <2>1. Enumerates(<<"SHM_SEATS_INDEX", "SHM_SEATS_INFO_SEG", "SHM_WORKERS_PID",
          "SHM_TICKET_DISPENSER_PID", "SHM_CALENDAR">>, OneShm)
    BY DEF Enumerates, OneShm
  <2> QED BY <2>1, EnumeratesSingle DEF SHM_KEYS
<1>5. Enumerates(SEM_KEYS \o SEMRP_KEYS, (OneSem \X {0}) \cup (OneRP \X {0}))
  <2>1. (OneSem \X {0}) \cap (OneRP \X {0}) = {}
    BY DEF OneSem, OneRP
  <2> QED BY <1>1, <1>2, <2>1, EnumeratesBoth
<1>6. Enumerates(SEM_KEYS \o SEMRP_KEYS \o SEMWP_KEYS, (OneSem \X {0}) \cup (OneRP \X {0}) \cup (OneWP \X {0}))
  <2>1. ((OneSem \X {0}) \cup (OneRP \X {0})) \cap (OneWP \X {0}) = {}
    BY DEF OneSem, OneRP, OneWP
  <2> QED BY <1>3, <1>5, <2>1, EnumeratesBoth
<1>7. Enumerates(CommonKeyNames, CommonNames)
  <2>1. ((OneSem \X {0}) \cup (OneRP \X {0}) \cup (OneWP \X {0})) \cap (OneShm \X {0}) = {}
    BY DEF OneSem, OneRP, OneWP, OneShm
  <2> QED BY <1>4, <1>6, <2>1, EnumeratesBoth DEF CommonKeyNames, CommonNames
<1> QED BY <1>1, <1>2, <1>3, <1>4, <1>7

(* MSG_KEYS names every queue of a configuration once.                       *)
LEMMA QueuesAreNamed ==
  ASSUME NEW c \in AllConfigs
  PROVE  Enumerates(MSG_KEYS(c), QueueNames(c))
<1>1. Enumerates(Many("MSG_WORKER", c.workers), Queues("MSG_WORKER", c.workers))
  BY ConfigTyped, EnumeratesMany
<1>2. Enumerates(Many("MSG_USER", c.users + c.extra), Queues("MSG_USER", c.users + c.extra))
  BY ConfigTyped, EnumeratesMany
<1>3. Enumerates(Single(<<"MSG_DISPENSER", "MSG_CLOCK", "MSG_STATS_DATA", "MSG_STATS_METADATA">>), OneMsg \X {0})
  <2>1. Enumerates(<<"MSG_DISPENSER", "MSG_CLOCK", "MSG_STATS_DATA", "MSG_STATS_METADATA">>, OneMsg)
    BY DEF Enumerates, OneMsg
  <2> QED BY <2>1, EnumeratesSingle
<1>4. Queues("MSG_WORKER", c.workers) \cap Queues("MSG_USER", c.users + c.extra) = {}
  BY DEF Queues
<1>5. (Queues("MSG_WORKER", c.workers) \cup Queues("MSG_USER", c.users + c.extra)) \cap (OneMsg \X {0}) = {}
  BY DEF Queues, OneMsg
<1>6. Enumerates(Many("MSG_WORKER", c.workers) \o Many("MSG_USER", c.users + c.extra),
                 Queues("MSG_WORKER", c.workers) \cup Queues("MSG_USER", c.users + c.extra))
  BY <1>1, <1>2, <1>4, EnumeratesBoth
<1> QED BY <1>3, <1>5, <1>6, EnumeratesBoth DEF MSG_KEYS, QueueNames

(* ftok_key_init generates a key for every name, once.                       *)
LEMMA KeysAreNamed ==
  ASSUME NEW c \in AllConfigs
  PROVE  Enumerates(KeyNames(c), Names(c))
<1>1. CommonNames \cap QueueNames(c) = {}
  BY DEF CommonNames, QueueNames, OneSem, OneRP, OneWP, OneShm, OneMsg, Queues
<1> QED BY <1>1, CommonAreNamed, QueuesAreNamed, EnumeratesBoth DEF KeyNames, CommonKeyNames, Names

(* What is created or removed is told by its kind and its name.              *)
Key(r) == <<r.kind, r.name>>
Keys(s) == [i \in 1..Len(s) |-> Key(s[i])]
Lists(s, R, S) == s \in Seq(R) /\ Enumerates(Keys(s), S)

(* Two lists of objects without one in common, one after the other.          *)
LEMMA ListsBoth ==
  ASSUME NEW R, NEW S, NEW T, S \cap T = {}, NEW s, NEW t, Lists(s, R, S), Lists(t, R, T)
  PROVE  Lists(s \o t, R, S \cup T)
<1>1. s \in Seq(R) /\ t \in Seq(R) /\ Enumerates(Keys(s), S) /\ Enumerates(Keys(t), T)
  BY DEF Lists
<1>2. s \o t \in Seq(R) /\ Len(s \o t) = Len(s) + Len(t) /\ Len(s) \in Nat /\ Len(t) \in Nat
  BY <1>1
<1>3. Enumerates(Keys(s) \o Keys(t), S \cup T)
  BY <1>1, EnumeratesBoth
<1>4. Keys(s \o t) = Keys(s) \o Keys(t)
  <2>1. \A i \in 1..Len(s) + Len(t) :
          (s \o t)[i] = IF i <= Len(s) THEN s[i] ELSE t[i - Len(s)]
    BY <1>1, <1>2
  <2>2. Keys(s) \o Keys(t) = [i \in 1..Len(s) + Len(t) |->
          IF i <= Len(s) THEN Keys(s)[i] ELSE Keys(t)[i - Len(s)]]
    <3>1. Keys(s) \in Seq(S) /\ Keys(t) \in Seq(T) /\ Len(Keys(s)) = Len(s) /\ Len(Keys(t)) = Len(t)
      BY <1>1, <1>2 DEF Enumerates, Keys
    <3> DEFINE u == Keys(s)
               v == Keys(t)
    <3>2. u \in Seq(S) /\ v \in Seq(T) /\ Len(u) = Len(s) /\ Len(v) = Len(t)
      BY <3>1
    <3> HIDE DEF u, v
    <3>3. u \in Seq(S \cup T) /\ v \in Seq(S \cup T)
      BY <3>2
    <3>4. u \o v \in Seq(S \cup T) /\ Len(u \o v) = Len(u) + Len(v)
      BY <3>3
    <3>5. u \o v = [i \in 1..Len(u) + Len(v) |-> (u \o v)[i]]
      <4>1. \A w \in Seq(S \cup T) : w = [i \in 1..Len(w) |-> w[i]]
        OBVIOUS
      <4>2. u \o v = [i \in 1..Len(u \o v) |-> (u \o v)[i]]
        BY <3>4, <4>1
      <4> QED BY <3>4, <4>2
    <3>6. \A i \in 1..Len(u) + Len(v) : (u \o v)[i] = IF i <= Len(u) THEN u[i] ELSE v[i - Len(u)]
      BY <3>3, <3>4
    <3>7. u \o v = [i \in 1..Len(u) + Len(v) |-> IF i <= Len(u) THEN u[i] ELSE v[i - Len(u)]]
      BY <3>5, <3>6
    <3> QED BY <3>2, <3>7 DEF u, v
  <2>3. Keys(s \o t) = [i \in 1..Len(s) + Len(t) |-> Key((s \o t)[i])]
    BY <1>2 DEF Keys
  <2>4. ASSUME NEW i \in 1..Len(s) + Len(t)
        PROVE Key((s \o t)[i]) = IF i <= Len(s) THEN Keys(s)[i] ELSE Keys(t)[i - Len(s)]
    BY <1>2, <2>1 DEF Keys
  <2> QED BY <2>2, <2>3, <2>4
<1> QED BY <1>2, <1>3, <1>4 DEF Lists

Of(kind, X) == {kind} \X (X \X {0})
(* The same for objects of one kind.                                         *)
LEMMA ListsOf ==
  ASSUME NEW R, NEW kind, NEW X, NEW Y, X \cap Y = {}, NEW s, NEW t,
         Lists(s, R, Of(kind, X)), Lists(t, R, Of(kind, Y))
  PROVE  Lists(s \o t, R, Of(kind, X \cup Y))
<1>1. Of(kind, X) \cap Of(kind, Y) = {} /\ Of(kind, X) \cup Of(kind, Y) = Of(kind, X \cup Y)
  BY DEF Of
<1> QED BY <1>1, ListsBoth

(* A sequence made of names entry by entry lists them.                       *)
LEMMA ListsNames ==
  ASSUME NEW S, NEW names, Enumerates(names, S), NEW R, NEW kind, NEW s,
         s = [i \in DOMAIN names |-> s[i]],
         \A i \in DOMAIN names : s[i] \in R /\ Key(s[i]) = <<kind, names[i]>>
  PROVE  Lists(s, R, {kind} \X S)
<1>1. names \in Seq(S) /\ Len(names) \in Nat /\ DOMAIN names = 1..Len(names)
  BY DEF Enumerates
<1>2. s \in Seq(R) /\ Len(s) = Len(names)
  BY <1>1
<1>3. Keys(s) = [i \in 1..Len(names) |-> <<kind, names[i]>>]
  BY <1>1, <1>2 DEF Keys
<1>4. Keys(s) \in Seq({kind} \X S) /\ Len(Keys(s)) = Len(names)
  BY <1>1, <1>3
<1>5. ASSUME NEW x \in {kind} \X S PROVE \E i \in 1..Len(names) : Keys(s)[i] = x
  <2>1. PICK e \in S : x = <<kind, e>>
    OBVIOUS
  <2>2. PICK i \in 1..Len(names) : names[i] = e
    BY DEF Enumerates
  <2> QED BY <1>3, <2>1, <2>2
<1>6. \A i, j \in 1..Len(names) : Keys(s)[i] = Keys(s)[j] => i = j
  <2>1. \A i, j \in 1..Len(names) : names[i] = names[j] => i = j
    BY DEF Enumerates
  <2> QED BY <1>3, <2>1
<1> QED BY <1>2, <1>4, <1>5, <1>6 DEF Lists, Enumerates

(* The entries of the lists.  What a servable configuration creates is not   *)
(* empty.                                                                    *)
CanServe(c) == c.workers > 0 /\ c.seats > 0 /\ c.users + c.extra > 0
Entries(c) ==
  {r \in [kind : {"sem", "shm", "msg"}, name : Names(c) \cup {MIN_COUNT}, n : Nat, reset : BOOLEAN] :
     CanServe(c) => r.n > 0}

(* A single semaphore or segment lists itself.                               *)
LEMMA ListsSem ==
  ASSUME NEW c \in AllConfigs, NEW name, NEW n \in Nat, NEW reset \in BOOLEAN,
         <<name, 0>> \in Names(c) \cup {MIN_COUNT}, CanServe(c) => n > 0
  PROVE  /\ Lists(Sem(name, n, reset), Entries(c), Of("sem", {name}))
         /\ Lists(Shm(name, n, reset), Entries(c), Of("shm", {name}))
<1>1. ASSUME NEW kind \in {"sem", "shm"}, NEW s, s = <<[kind |-> kind, name |-> <<name, 0>>, n |-> n, reset |-> reset]>>
      PROVE  Lists(s, Entries(c), Of(kind, {name}))
  <2>1. s \in Seq(Entries(c)) /\ Len(s) = 1
    BY <1>1 DEF Entries
  <2>2. Keys(s) = <<<<kind, <<name, 0>> >> >>
    BY <1>1, <2>1 DEF Keys, Key
  <2>3. Keys(s) \in Seq(Of(kind, {name})) /\ Len(Keys(s)) = 1 /\ Keys(s)[1] = <<kind, <<name, 0>> >>
    BY <2>2 DEF Of
  <2>4. \A x \in Of(kind, {name}) : x = <<kind, <<name, 0>> >>
    BY DEF Of
  <2>5. Enumerates(Keys(s), Of(kind, {name}))
    <3> DEFINE k == Keys(s)
    <3>1. k \in Seq(Of(kind, {name})) /\ Len(k) = 1 /\ k[1] = <<kind, <<name, 0>> >>
      BY <2>3
    <3> HIDE DEF k
    <3>2. \A x \in Of(kind, {name}) : \E i \in 1..Len(k) : k[i] = x
      BY <2>4, <3>1
    <3>3. \A i, j \in 1..Len(k) : k[i] = k[j] => i = j
      BY <3>1
    <3>4. Enumerates(k, Of(kind, {name}))
      BY <3>1, <3>2, <3>3 DEF Enumerates
    <3> QED BY <3>4 DEF k
  <2> QED BY <2>1, <2>5 DEF Lists
<1> QED BY <1>1 DEF Sem, Shm

(* Nothing lists nothing.                                                    *)
LEMMA ListsEmpty == ASSUME NEW R, NEW kind PROVE Lists(<<>>, R, Of(kind, {}))
<1>1. Keys(<<>>) = <<>> /\ Of(kind, {}) = {}
  BY DEF Keys, Of
<1>2. Enumerates(<<>>, {})
  BY DEF Enumerates
<1>3. <<>> \in Seq(R)
  OBVIOUS
<1> QED BY <1>1, <1>2, <1>3 DEF Lists

(* Semaphores and queues made from a list of names.                          *)
LEMMA ListsSems ==
  ASSUME NEW c \in AllConfigs, NEW S \in SUBSET Names(c), NEW names, Enumerates(names, S)
  PROVE  /\ Lists(Sems(names), Entries(c), {"sem"} \X S)
         /\ Lists(Msg(names), Entries(c), {"msg"} \X S)
<1>1. \A i \in DOMAIN names : names[i] \in Names(c)
  BY DEF Enumerates
<1>2. \A i \in DOMAIN names : Sems(names)[i] \in Entries(c) /\ Key(Sems(names)[i]) = <<"sem", names[i]>>
  BY <1>1 DEF Sems, Entries, Key
<1>3. \A i \in DOMAIN names : Msg(names)[i] \in Entries(c) /\ Key(Msg(names)[i]) = <<"msg", names[i]>>
  BY <1>1 DEF Msg, Entries, Key
<1>4. Sems(names) = [i \in DOMAIN names |-> Sems(names)[i]] /\ Msg(names) = [i \in DOMAIN names |-> Msg(names)[i]]
  BY DEF Sems, Msg
<1> QED BY <1>2, <1>3, <1>4, ListsNames

(* The keys of what a run creates: kinds and names, whatever their order.    *)
PlainSem == {"START", "SEATS", "SHM_SEATS_INFO", "DAY_STARTED", "DAY_END", "PROC_READY",
  "NOTIFY_DISPENSER", "NOTIFY_USER", "ADD_USERS", "CLOCK_ADD_USERS", "PROC_CAN_DIE",
  "STOP_SIM_EXPLODE"}
PlainShm == {"SHM_SEATS_INFO_SEG", "SHM_SEATS_INDEX", "SHM_TICKET_DISPENSER_PID",
  "SHM_CALENDAR", "SHM_MIN_COUNT"}
IfWorkers(c, X) == IF c.workers < 1 THEN {} ELSE X
SemKeys(c) == Of("sem", PlainSem \cup IfWorkers(c, {"NOTIFY_WORKER"}) \cup OneRP \cup OneWP)
ShmKeys(c) == Of("shm", PlainShm \cup IfWorkers(c, {"SHM_WORKERS_PID"}))
MsgKeys(c) == {"msg"} \X QueueNames(c)

(* The names without a number belong to every configuration.                 *)
LEMMA PlainNames ==
  ASSUME NEW c
  PROVE  \A name \in OneSem \cup OneRP \cup OneWP \cup OneShm \cup OneMsg : <<name, 0>> \in Names(c)
BY DEF Names, CommonNames, QueueNames

(* sem_init creates each semaphore of the configuration once.                *)
LEMMA SemInitLists ==
  ASSUME NEW c \in AllConfigs
  PROVE  Lists(SemInit(c), Entries(c), SemKeys(c))
<1> DEFINE R == Entries(c)
           s1 == Sem("START", 1, FALSE)
           s2 == Sem("SEATS", SERV_NUM, FALSE)
           s3 == Sems(Single(<<"SHM_SEATS_INFO", "DAY_STARTED", "DAY_END", "PROC_READY">>))
           s4 == WithWorkers(c, Sem("NOTIFY_WORKER", c.workers, TRUE))
           s5 == Sem("NOTIFY_DISPENSER", 1, TRUE)
           s6 == Sem("NOTIFY_USER", c.users + c.extra, TRUE)
           s7 == Sems(Single(<<"ADD_USERS", "CLOCK_ADD_USERS", "PROC_CAN_DIE", "STOP_SIM_EXPLODE">>))
           s8 == Sems(SEMRP_KEYS)
           s9 == Sems(SEMWP_KEYS)
           x3 == {"SHM_SEATS_INFO", "DAY_STARTED", "DAY_END", "PROC_READY"}
           x4 == IfWorkers(c, {"NOTIFY_WORKER"})
           x7 == {"ADD_USERS", "CLOCK_ADD_USERS", "PROC_CAN_DIE", "STOP_SIM_EXPLODE"}
           x == PlainSem \cup x4 \cup OneRP \cup OneWP
<1>0. SERV_NUM \in Nat /\ SERV_NUM > 0 /\ c.workers \in Nat /\ c.users + c.extra \in Nat
  BY SetupAssumption, ConfigTyped
<1>n. /\ <<"START", 0>> \in Names(c) /\ <<"SEATS", 0>> \in Names(c) /\ <<"NOTIFY_WORKER", 0>> \in Names(c)
      /\ <<"NOTIFY_DISPENSER", 0>> \in Names(c) /\ <<"NOTIFY_USER", 0>> \in Names(c)
      /\ (x3 \X {0}) \in SUBSET Names(c) /\ (x7 \X {0}) \in SUBSET Names(c)
      /\ (OneRP \X {0}) \in SUBSET Names(c) /\ (OneWP \X {0}) \in SUBSET Names(c)
  <2>1. {"START", "SEATS", "NOTIFY_WORKER", "NOTIFY_DISPENSER", "NOTIFY_USER"} \cup x3 \cup x7 \subseteq OneSem
    BY DEF OneSem
  <2> HIDE DEF x3, x7
  <2> QED BY <2>1, PlainNames
<1>1. Lists(s1, R, Of("sem", {"START"})) /\ Lists(s2, R, Of("sem", {"SEATS"}))
      /\ Lists(s5, R, Of("sem", {"NOTIFY_DISPENSER"}))
  <2>1. 1 \in Nat /\ 1 > 0 /\ TRUE \in BOOLEAN /\ FALSE \in BOOLEAN
    OBVIOUS
  <2>2. Lists(s1, R, Of("sem", {"START"}))
    BY <1>n, <2>1, ListsSem
  <2>3. Lists(s2, R, Of("sem", {"SEATS"}))
    BY <1>0, <1>n, <2>1, ListsSem
  <2>4. Lists(s5, R, Of("sem", {"NOTIFY_DISPENSER"}))
    BY <1>n, <2>1, ListsSem
  <2> QED BY <2>2, <2>3, <2>4
<1>2. Lists(s6, R, Of("sem", {"NOTIFY_USER"}))
  <2>1. CanServe(c) => c.users + c.extra > 0
    BY DEF CanServe
  <2> QED BY <1>0, <1>n, <2>1, ListsSem
<1>3. Lists(s4, R, Of("sem", x4))
  <2>1. CASE c.workers < 1
    BY <2>1, ListsEmpty DEF WithWorkers, IfWorkers
  <2>2. CASE ~(c.workers < 1)
    <3>1. CanServe(c) => c.workers > 0
      BY DEF CanServe
    <3>2. Lists(Sem("NOTIFY_WORKER", c.workers, TRUE), R, Of("sem", {"NOTIFY_WORKER"}))
      BY <1>0, <1>n, <3>1, ListsSem
    <3> QED BY <2>2, <3>2 DEF WithWorkers, IfWorkers
  <2> QED BY <2>1, <2>2
<1>4. Lists(s3, R, Of("sem", x3)) /\ Lists(s7, R, Of("sem", x7))
  <2>1. Enumerates(<<"SHM_SEATS_INFO", "DAY_STARTED", "DAY_END", "PROC_READY">>, x3)
    BY DEF Enumerates
  <2>2. Enumerates(<<"ADD_USERS", "CLOCK_ADD_USERS", "PROC_CAN_DIE", "STOP_SIM_EXPLODE">>, x7)
    BY DEF Enumerates
  <2> HIDE DEF x3, x7
  <2> QED BY <1>n, <2>1, <2>2, EnumeratesSingle, ListsSems DEF Of
<1>5. Lists(s8, R, Of("sem", OneRP)) /\ Lists(s9, R, Of("sem", OneWP))
  BY <1>n, CommonAreNamed, ListsSems DEF Of
<1>6. /\ {"START"} \cap {"SEATS"} = {}
      /\ ({"START"} \cup {"SEATS"}) \cap x3 = {}
      /\ ({"START"} \cup {"SEATS"} \cup x3) \cap x4 = {}
      /\ ({"START"} \cup {"SEATS"} \cup x3 \cup x4) \cap {"NOTIFY_DISPENSER"} = {}
      /\ ({"START"} \cup {"SEATS"} \cup x3 \cup x4 \cup {"NOTIFY_DISPENSER"}) \cap {"NOTIFY_USER"} = {}
      /\ ({"START"} \cup {"SEATS"} \cup x3 \cup x4 \cup {"NOTIFY_DISPENSER"} \cup {"NOTIFY_USER"}) \cap x7 = {}
  BY DEF IfWorkers
<1>7. /\ ({"START"} \cup {"SEATS"} \cup x3 \cup x4 \cup {"NOTIFY_DISPENSER"} \cup {"NOTIFY_USER"} \cup x7) \cap OneRP = {}
      /\ ({"START"} \cup {"SEATS"} \cup x3 \cup x4 \cup {"NOTIFY_DISPENSER"} \cup {"NOTIFY_USER"} \cup x7 \cup OneRP) \cap OneWP = {}
  BY DEF OneRP, OneWP, IfWorkers
<1>8. {"START"} \cup {"SEATS"} \cup x3 \cup x4 \cup {"NOTIFY_DISPENSER"} \cup {"NOTIFY_USER"} \cup x7 \cup OneRP \cup OneWP = x
  BY DEF PlainSem
<1>9. SemInit(c) = s1 \o s2 \o s3 \o s4 \o s5 \o s6 \o s7 \o s8 \o s9
  BY DEF SemInit
<1> HIDE DEF R, s1, s2, s3, s4, s5, s6, s7, s8, s9, x3, x4, x7
<1>a. Lists(s1 \o s2, R, Of("sem", {"START"} \cup {"SEATS"}))
  BY <1>1, <1>6, ListsOf
<1>b. Lists(s1 \o s2 \o s3, R, Of("sem", {"START"} \cup {"SEATS"} \cup x3))
  BY <1>a, <1>4, <1>6, ListsOf
<1>c. Lists(s1 \o s2 \o s3 \o s4, R, Of("sem", {"START"} \cup {"SEATS"} \cup x3 \cup x4))
  BY <1>b, <1>3, <1>6, ListsOf
<1>d. Lists(s1 \o s2 \o s3 \o s4 \o s5, R, Of("sem", {"START"} \cup {"SEATS"} \cup x3 \cup x4 \cup {"NOTIFY_DISPENSER"}))
  BY <1>c, <1>1, <1>6, ListsOf
<1>e. Lists(s1 \o s2 \o s3 \o s4 \o s5 \o s6, R, Of("sem", {"START"} \cup {"SEATS"} \cup x3 \cup x4 \cup {"NOTIFY_DISPENSER"} \cup {"NOTIFY_USER"}))
  BY <1>d, <1>2, <1>6, ListsOf
<1>f. Lists(s1 \o s2 \o s3 \o s4 \o s5 \o s6 \o s7, R, Of("sem", {"START"} \cup {"SEATS"} \cup x3 \cup x4 \cup {"NOTIFY_DISPENSER"} \cup {"NOTIFY_USER"} \cup x7))
  BY <1>e, <1>4, <1>6, ListsOf
<1>g. Lists(s1 \o s2 \o s3 \o s4 \o s5 \o s6 \o s7 \o s8, R, Of("sem", {"START"} \cup {"SEATS"} \cup x3 \cup x4 \cup {"NOTIFY_DISPENSER"} \cup {"NOTIFY_USER"} \cup x7 \cup OneRP))
  BY <1>f, <1>5, <1>7, ListsOf
<1>h. Lists(s1 \o s2 \o s3 \o s4 \o s5 \o s6 \o s7 \o s8 \o s9, R, Of("sem", x))
  BY <1>g, <1>5, <1>7, <1>8, ListsOf
<1> QED BY <1>9, <1>h DEF R, SemKeys, x4

(* shm_init creates each segment of the configuration once.                  *)
LEMMA ShmInitLists ==
  ASSUME NEW c \in AllConfigs
  PROVE  Lists(ShmInit(c), Entries(c), ShmKeys(c))
<1> DEFINE R == Entries(c)
           s1 == Shm("SHM_SEATS_INFO_SEG", c.seats, TRUE)
           s2 == Shm("SHM_SEATS_INDEX", SERV_NUM - 1, TRUE)
           s3 == WithWorkers(c, Shm("SHM_WORKERS_PID", c.workers, TRUE))
           s4 == Shm("SHM_TICKET_DISPENSER_PID", 1, FALSE)
           s5 == Shm("SHM_CALENDAR", 60 * 8, TRUE)
           s6 == Shm("SHM_MIN_COUNT", 1, TRUE)
           x3 == IfWorkers(c, {"SHM_WORKERS_PID"})
           x == PlainShm \cup x3
<1>0. SERV_NUM - 1 \in Nat /\ SERV_NUM - 1 > 0 /\ c.workers \in Nat /\ c.seats \in Nat
  BY SetupAssumption, ConfigTyped
<1>n. /\ <<"SHM_SEATS_INFO_SEG", 0>> \in Names(c) /\ <<"SHM_SEATS_INDEX", 0>> \in Names(c)
      /\ <<"SHM_WORKERS_PID", 0>> \in Names(c) /\ <<"SHM_TICKET_DISPENSER_PID", 0>> \in Names(c)
      /\ <<"SHM_CALENDAR", 0>> \in Names(c)
  BY PlainNames DEF OneShm
<1>m. 1 \in Nat /\ 1 > 0 /\ TRUE \in BOOLEAN /\ FALSE \in BOOLEAN /\ 60 * 8 \in Nat /\ 60 * 8 > 0
  OBVIOUS
<1>1. Lists(s1, R, Of("shm", {"SHM_SEATS_INFO_SEG"}))
  <2>1. CanServe(c) => c.seats > 0
    BY DEF CanServe
  <2> QED BY <1>0, <1>n, <1>m, <2>1, ListsSem
<1>2. Lists(s2, R, Of("shm", {"SHM_SEATS_INDEX"}))
  BY <1>0, <1>n, <1>m, ListsSem
<1>3. Lists(s3, R, Of("shm", x3))
  <2>1. CASE c.workers < 1
    BY <2>1, ListsEmpty DEF WithWorkers, IfWorkers
  <2>2. CASE ~(c.workers < 1)
    <3>1. CanServe(c) => c.workers > 0
      BY DEF CanServe
    <3>2. Lists(Shm("SHM_WORKERS_PID", c.workers, TRUE), R, Of("shm", {"SHM_WORKERS_PID"}))
      BY <1>0, <1>n, <1>m, <3>1, ListsSem
    <3> QED BY <2>2, <3>2 DEF WithWorkers, IfWorkers
  <2> QED BY <2>1, <2>2
<1>4. Lists(s4, R, Of("shm", {"SHM_TICKET_DISPENSER_PID"}))
  BY <1>n, <1>m, ListsSem
<1>5. Lists(s5, R, Of("shm", {"SHM_CALENDAR"}))
  BY <1>n, <1>m, ListsSem
<1>6. Lists(s6, R, Of("shm", {"SHM_MIN_COUNT"}))
  <2>1. <<"SHM_MIN_COUNT", 0>> \in Names(c) \cup {MIN_COUNT}
    BY DEF MIN_COUNT
  <2> QED BY <2>1, <1>m, ListsSem
<1>7. /\ {"SHM_SEATS_INFO_SEG"} \cap {"SHM_SEATS_INDEX"} = {}
      /\ ({"SHM_SEATS_INFO_SEG"} \cup {"SHM_SEATS_INDEX"}) \cap x3 = {}
      /\ ({"SHM_SEATS_INFO_SEG"} \cup {"SHM_SEATS_INDEX"} \cup x3) \cap {"SHM_TICKET_DISPENSER_PID"} = {}
      /\ ({"SHM_SEATS_INFO_SEG"} \cup {"SHM_SEATS_INDEX"} \cup x3 \cup {"SHM_TICKET_DISPENSER_PID"}) \cap {"SHM_CALENDAR"} = {}
      /\ ({"SHM_SEATS_INFO_SEG"} \cup {"SHM_SEATS_INDEX"} \cup x3 \cup {"SHM_TICKET_DISPENSER_PID"} \cup {"SHM_CALENDAR"}) \cap {"SHM_MIN_COUNT"} = {}
      /\ {"SHM_SEATS_INFO_SEG"} \cup {"SHM_SEATS_INDEX"} \cup x3 \cup {"SHM_TICKET_DISPENSER_PID"} \cup {"SHM_CALENDAR"} \cup {"SHM_MIN_COUNT"} = x
  BY DEF IfWorkers, PlainShm
<1>8. ShmInit(c) = s1 \o s2 \o s3 \o s4 \o s5 \o s6
  BY DEF ShmInit
<1> HIDE DEF R, s1, s2, s3, s4, s5, s6, x3
<1>a. Lists(s1 \o s2, R, Of("shm", {"SHM_SEATS_INFO_SEG"} \cup {"SHM_SEATS_INDEX"}))
  BY <1>1, <1>2, <1>7, ListsOf
<1>b. Lists(s1 \o s2 \o s3, R, Of("shm", {"SHM_SEATS_INFO_SEG"} \cup {"SHM_SEATS_INDEX"} \cup x3))
  BY <1>a, <1>3, <1>7, ListsOf
<1>c. Lists(s1 \o s2 \o s3 \o s4, R, Of("shm", {"SHM_SEATS_INFO_SEG"} \cup {"SHM_SEATS_INDEX"} \cup x3 \cup {"SHM_TICKET_DISPENSER_PID"}))
  BY <1>b, <1>4, <1>7, ListsOf
<1>d. Lists(s1 \o s2 \o s3 \o s4 \o s5, R, Of("shm", {"SHM_SEATS_INFO_SEG"} \cup {"SHM_SEATS_INDEX"} \cup x3 \cup {"SHM_TICKET_DISPENSER_PID"} \cup {"SHM_CALENDAR"}))
  BY <1>c, <1>5, <1>7, ListsOf
<1>e. Lists(s1 \o s2 \o s3 \o s4 \o s5 \o s6, R, Of("shm", x))
  BY <1>d, <1>6, <1>7, ListsOf
<1> QED BY <1>8, <1>e DEF R, ShmKeys, x3

(* msg_init creates each queue of the configuration once.                    *)
LEMMA MsgInitLists ==
  ASSUME NEW c \in AllConfigs
  PROVE  Lists(MsgInit(c), Entries(c), MsgKeys(c))
<1> DEFINE R == Entries(c)
           q1 == Queues("MSG_WORKER", c.workers)
           q2 == {"MSG_DISPENSER"} \X {0}
           q3 == Queues("MSG_USER", c.users + c.extra)
           q4 == {"MSG_CLOCK", "MSG_STATS_DATA", "MSG_STATS_METADATA"} \X {0}
           s1 == Msg(Many("MSG_WORKER", c.workers))
           s2 == Msg(Single(<<"MSG_DISPENSER">>))
           s3 == Msg(Many("MSG_USER", c.users + c.extra))
           s4 == Msg(Single(<<"MSG_CLOCK", "MSG_STATS_DATA", "MSG_STATS_METADATA">>))
<1>0. /\ q1 \in SUBSET Names(c) /\ q2 \in SUBSET Names(c) /\ q3 \in SUBSET Names(c) /\ q4 \in SUBSET Names(c)
      /\ q1 \cup q2 \cup q3 \cup q4 = QueueNames(c)
  <2>1. q2 \cup q4 = OneMsg \X {0}
    BY DEF OneMsg
  <2> HIDE DEF q1, q2, q3, q4
  <2>2. q1 \cup q2 \cup q3 \cup q4 = QueueNames(c)
    BY <2>1 DEF QueueNames, q1, q3
  <2>3. QueueNames(c) \subseteq Names(c)
    BY DEF Names
  <2> QED BY <2>2, <2>3
<1>1. Lists(s1, R, {"msg"} \X q1) /\ Lists(s3, R, {"msg"} \X q3)
  <2>1. Enumerates(Many("MSG_WORKER", c.workers), q1) /\ Enumerates(Many("MSG_USER", c.users + c.extra), q3)
    BY ConfigTyped, EnumeratesMany
  <2> QED BY <1>0, <2>1, ListsSems
<1>2. Lists(s2, R, {"msg"} \X q2) /\ Lists(s4, R, {"msg"} \X q4)
  <2>1. Enumerates(<<"MSG_DISPENSER">>, {"MSG_DISPENSER"})
    BY DEF Enumerates
  <2>2. Enumerates(<<"MSG_CLOCK", "MSG_STATS_DATA", "MSG_STATS_METADATA">>, {"MSG_CLOCK", "MSG_STATS_DATA", "MSG_STATS_METADATA"})
    BY DEF Enumerates
  <2>3. Enumerates(Single(<<"MSG_DISPENSER">>), q2)
    BY <2>1, EnumeratesSingle
  <2>4. Enumerates(Single(<<"MSG_CLOCK", "MSG_STATS_DATA", "MSG_STATS_METADATA">>), q4)
    BY <2>2, EnumeratesSingle
  <2> QED BY <1>0, <2>3, <2>4, ListsSems
<1>3. /\ ({"msg"} \X q1) \cap ({"msg"} \X q2) = {}
      /\ (({"msg"} \X q1) \cup ({"msg"} \X q2)) \cap ({"msg"} \X q3) = {}
      /\ (({"msg"} \X q1) \cup ({"msg"} \X q2) \cup ({"msg"} \X q3)) \cap ({"msg"} \X q4) = {}
  BY DEF Queues
<1>4. MsgInit(c) = s1 \o s2 \o s3 \o s4
  BY DEF MsgInit
<1> HIDE DEF R, s1, s2, s3, s4, q1, q2, q3, q4
<1>a. Lists(s1 \o s2, R, ({"msg"} \X q1) \cup ({"msg"} \X q2))
  BY <1>1, <1>2, <1>3, ListsBoth
<1>b. Lists(s1 \o s2 \o s3, R, ({"msg"} \X q1) \cup ({"msg"} \X q2) \cup ({"msg"} \X q3))
  BY <1>a, <1>1, <1>3, ListsBoth
<1>c. Lists(s1 \o s2 \o s3 \o s4, R, ({"msg"} \X q1) \cup ({"msg"} \X q2) \cup ({"msg"} \X q3) \cup ({"msg"} \X q4))
  BY <1>b, <1>2, <1>3, ListsBoth
<1>d. ({"msg"} \X q1) \cup ({"msg"} \X q2) \cup ({"msg"} \X q3) \cup ({"msg"} \X q4) = MsgKeys(c)
  <2>1. ({"msg"} \X q1) \cup ({"msg"} \X q2) \cup ({"msg"} \X q3) \cup ({"msg"} \X q4) = {"msg"} \X (q1 \cup q2 \cup q3 \cup q4)
    OBVIOUS
  <2> QED BY <1>0, <2>1 DEF MsgKeys
<1> QED BY <1>4, <1>c, <1>d DEF R

CreatedKeys(c) == SemKeys(c) \cup ShmKeys(c) \cup MsgKeys(c)
(* What the manager creates: each object of the configuration once.          *)
LEMMA CreatedLists ==
  ASSUME NEW c \in AllConfigs
  PROVE  Lists(Created(c), Entries(c), CreatedKeys(c))
<1>1. SemKeys(c) \cap ShmKeys(c) = {} /\ (SemKeys(c) \cup ShmKeys(c)) \cap MsgKeys(c) = {}
  BY DEF SemKeys, ShmKeys, MsgKeys, Of
<1>2. Lists(SemInit(c) \o ShmInit(c), Entries(c), SemKeys(c) \cup ShmKeys(c))
  BY <1>1, SemInitLists, ShmInitLists, ListsBoth
<1> QED BY <1>1, <1>2, MsgInitLists, ListsBoth DEF Created, CreatedKeys

(* The order of removal lists the same keys; with the objects of the         *)
(* workers even when there are none.                                         *)
Removables(c) == [kind : {"sem", "shm", "msg"}, name : Names(c) \cup {MIN_COUNT}]
RemovedKeys(c) ==
  Of("sem", PlainSem \cup {"NOTIFY_WORKER"} \cup OneRP \cup OneWP)
  \cup Of("shm", PlainShm \cup {"SHM_WORKERS_PID"}) \cup MsgKeys(c)
RemovalsOf(c, hasAdded) == Removals(c, IF hasAdded THEN c.users + c.extra ELSE c.users, hasAdded)

(* A list of names, as objects of one kind to be removed.                    *)
LEMMA ListsRemoved ==
  ASSUME NEW c, NEW kind \in {"sem", "shm", "msg"}, NEW S \in SUBSET (Names(c) \cup {MIN_COUNT}),
         NEW names, Enumerates(names, S)
  PROVE  Lists(Removed(kind, names), Removables(c), {kind} \X S)
<1>1. \A i \in DOMAIN names : names[i] \in Names(c) \cup {MIN_COUNT}
  BY DEF Enumerates
<1>2. \A i \in DOMAIN names : Removed(kind, names)[i] \in Removables(c) /\ Key(Removed(kind, names)[i]) = <<kind, names[i]>>
  BY <1>1 DEF Removed, Removables, Key
<1>3. Removed(kind, names) = [i \in DOMAIN names |-> Removed(kind, names)[i]]
  BY DEF Removed
<1> QED BY <1>2, <1>3, ListsNames

(* What it removes, whether or not users have been added: each once.         *)
LEMMA RemovalsList ==
  ASSUME NEW c \in AllConfigs, NEW hasAdded \in BOOLEAN
  PROVE  Lists(RemovalsOf(c, hasAdded), Removables(c), RemovedKeys(c))
<1> DEFINE nusers == IF hasAdded THEN c.users + c.extra ELSE c.users
           y1 == {"START", "SEATS", "SHM_SEATS_INFO", "DAY_STARTED",
                  "DAY_END", "PROC_READY", "NOTIFY_WORKER", "NOTIFY_DISPENSER", "NOTIFY_USER", "ADD_USERS",
                  "CLOCK_ADD_USERS", "PROC_CAN_DIE", "STOP_SIM_EXPLODE"}
           n1 == Single(<<"START", "SEATS", "SHM_SEATS_INFO", "DAY_STARTED",
                  "DAY_END", "PROC_READY", "NOTIFY_WORKER", "NOTIFY_DISPENSER", "NOTIFY_USER", "ADD_USERS",
                  "CLOCK_ADD_USERS", "PROC_CAN_DIE", "STOP_SIM_EXPLODE">>)
           y2 == {"SHM_SEATS_INFO_SEG", "SHM_SEATS_INDEX",
                  "SHM_WORKERS_PID", "SHM_TICKET_DISPENSER_PID", "SHM_MIN_COUNT", "SHM_CALENDAR"}
           n2 == Single(<<"SHM_SEATS_INFO_SEG", "SHM_SEATS_INDEX",
                  "SHM_WORKERS_PID", "SHM_TICKET_DISPENSER_PID", "SHM_MIN_COUNT", "SHM_CALENDAR">>)
           y5 == {"MSG_CLOCK", "MSG_STATS_DATA", "MSG_STATS_METADATA"} \X {0}
           m1 == Many("MSG_WORKER", c.workers)
           m2 == Single(<<"MSG_DISPENSER">>)
           m3 == UserQueues(1, nusers)
           m4 == IF hasAdded THEN <<>> ELSE UserQueues(nusers + 1, nusers + c.extra)
           m5 == Single(<<"MSG_CLOCK", "MSG_STATS_DATA", "MSG_STATS_METADATA">>)
           q1 == Queues("MSG_WORKER", c.workers)
           q2 == {"MSG_DISPENSER"} \X {0}
           q3 == Queues("MSG_USER", nusers)
           q4 == IF hasAdded THEN {} ELSE {"MSG_USER"} \X (nusers + 1..nusers + c.extra)
           semNames == (y1 \X {0}) \cup (OneRP \X {0}) \cup (OneWP \X {0})
<1>0. c.workers \in Nat /\ c.users \in Nat /\ c.extra \in Nat /\ nusers \in Nat
  BY ConfigTyped
<1>1. Lists(SemDeallocate, Removables(c), {"sem"} \X semNames)
  <2>1. Enumerates(n1, y1 \X {0})
    <3>1. Enumerates(<<"START", "SEATS", "SHM_SEATS_INFO", "DAY_STARTED",
                  "DAY_END", "PROC_READY", "NOTIFY_WORKER", "NOTIFY_DISPENSER", "NOTIFY_USER", "ADD_USERS",
                  "CLOCK_ADD_USERS", "PROC_CAN_DIE", "STOP_SIM_EXPLODE">>, y1)
      BY DEF Enumerates
    <3> QED BY <3>1, EnumeratesSingle
  <2>2. (y1 \X {0}) \cap (OneRP \X {0}) = {} /\ ((y1 \X {0}) \cup (OneRP \X {0})) \cap (OneWP \X {0}) = {}
    BY DEF OneRP, OneWP
  <2>3. semNames \in SUBSET (Names(c) \cup {MIN_COUNT})
    <3>1. y1 \subseteq OneSem
      BY DEF OneSem
    <3> HIDE DEF y1
    <3> QED BY <3>1, PlainNames
  <2>4. SemDeallocate = Removed("sem", n1 \o SEMRP_KEYS \o SEMWP_KEYS)
    BY DEF SemDeallocate
  <2> HIDE DEF y1, n1
  <2>5. Enumerates(n1 \o SEMRP_KEYS \o SEMWP_KEYS, semNames)
    <3>1. Enumerates(n1 \o SEMRP_KEYS, (y1 \X {0}) \cup (OneRP \X {0}))
      BY <2>1, <2>2, CommonAreNamed, EnumeratesBoth
    <3> QED BY <2>2, <3>1, CommonAreNamed, EnumeratesBoth
  <2> HIDE DEF semNames
  <2> QED BY <2>3, <2>4, <2>5, ListsRemoved
<1>2. Lists(ShmDeallocate, Removables(c), {"shm"} \X (y2 \X {0}))
  <2>1. Enumerates(n2, y2 \X {0})
    <3>1. Enumerates(<<"SHM_SEATS_INFO_SEG", "SHM_SEATS_INDEX",
                  "SHM_WORKERS_PID", "SHM_TICKET_DISPENSER_PID", "SHM_MIN_COUNT", "SHM_CALENDAR">>, y2)
      BY DEF Enumerates
    <3> QED BY <3>1, EnumeratesSingle
  <2>2. (y2 \X {0}) \in SUBSET (Names(c) \cup {MIN_COUNT})
    <3>1. y2 \subseteq OneShm \cup {"SHM_MIN_COUNT"}
      BY DEF OneShm
    <3> HIDE DEF y2
    <3> QED BY <3>1, PlainNames DEF MIN_COUNT
  <2>3. ShmDeallocate = Removed("shm", n2)
    BY DEF ShmDeallocate
  <2> HIDE DEF y2, n2
  <2> QED BY <2>1, <2>2, <2>3, ListsRemoved
<1>3. /\ Enumerates(m1, q1) /\ Enumerates(m2, q2) /\ Enumerates(m3, q3) /\ Enumerates(m5, y5)
  <2>1. Enumerates(<<"MSG_DISPENSER">>, {"MSG_DISPENSER"})
    BY DEF Enumerates
  <2>2. Enumerates(<<"MSG_CLOCK", "MSG_STATS_DATA", "MSG_STATS_METADATA">>, {"MSG_CLOCK", "MSG_STATS_DATA", "MSG_STATS_METADATA"})
    BY DEF Enumerates
  <2>3. Enumerates(m2, q2) /\ Enumerates(m5, y5)
    BY <2>1, <2>2, EnumeratesSingle
  <2>4. Enumerates(UserQueues(0 + 1, nusers), {"MSG_USER"} \X (0 + 1..nusers))
    <3> HIDE DEF nusers
    <3> QED BY <1>0, EnumeratesUsers
  <2>5. 0 + 1 = 1
    OBVIOUS
  <2>6. Enumerates(m3, q3)
    BY <2>4, <2>5 DEF Queues
  <2> QED BY <1>0, <2>3, <2>6, EnumeratesMany
<1>4. Enumerates(m4, q4)
  <2>1. CASE hasAdded
    BY <2>1 DEF Enumerates
  <2>2. CASE ~hasAdded
    <3>1. Enumerates(UserQueues(nusers + 1, nusers + c.extra), {"MSG_USER"} \X (nusers + 1..nusers + c.extra))
      <4> HIDE DEF nusers
      <4>1. nusers + c.extra \in Nat /\ nusers <= nusers + c.extra
        BY <1>0
      <4> QED BY <1>0, <4>1, EnumeratesUsers
    <3> QED BY <2>2, <3>1
  <2> QED BY <2>1, <2>2
<1>5. /\ q1 \cap q2 = {} /\ (q1 \cup q2) \cap q3 = {} /\ (q1 \cup q2 \cup q3) \cap q4 = {}
      /\ (q1 \cup q2 \cup q3 \cup q4) \cap y5 = {}
  <2> HIDE DEF nusers
  <2>1. q3 \cap q4 = {}
    BY <1>0 DEF Queues
  <2>2. q1 \cap q2 = {} /\ (q1 \cup q2) \cap q3 = {} /\ (q1 \cup q2) \cap q4 = {}
    BY DEF Queues
  <2>3. (q1 \cup q2 \cup q3 \cup q4) \cap y5 = {}
    BY DEF Queues
  <2> QED BY <2>1, <2>2, <2>3
<1>6. q1 \cup q2 \cup q3 \cup q4 \cup y5 = QueueNames(c)
  <2>1. q3 \cup q4 = Queues("MSG_USER", c.users + c.extra)
    <3>1. CASE hasAdded
      BY <3>1 DEF Queues
    <3>2. CASE ~hasAdded
      <4>1. 1..c.users + c.extra = (1..c.users) \cup (c.users + 1..c.users + c.extra)
        BY <1>0
      <4> QED BY <3>2, <4>1 DEF Queues
    <3> QED BY <3>1, <3>2
  <2>2. q2 \cup y5 = OneMsg \X {0}
    BY DEF OneMsg
  <2> HIDE DEF q1, q2, q3, q4, y5
  <2> QED BY <2>1, <2>2 DEF QueueNames, q1
<1>7. Lists(MsgDeallocate(c, nusers, hasAdded), Removables(c), MsgKeys(c))
  <2>1. MsgDeallocate(c, nusers, hasAdded) = Removed("msg", m1 \o m2 \o m3 \o m4 \o m5)
    BY DEF MsgDeallocate
  <2> HIDE DEF m1, m2, m3, m4, m5, q1, q2, q3, q4, y5, nusers
  <2>2. Enumerates(m1 \o m2, q1 \cup q2)
    BY <1>3, <1>5, EnumeratesBoth
  <2>3. Enumerates(m1 \o m2 \o m3, q1 \cup q2 \cup q3)
    BY <1>3, <1>5, <2>2, EnumeratesBoth
  <2>4. Enumerates(m1 \o m2 \o m3 \o m4, q1 \cup q2 \cup q3 \cup q4)
    BY <1>4, <1>5, <2>3, EnumeratesBoth
  <2>5. Enumerates(m1 \o m2 \o m3 \o m4 \o m5, QueueNames(c))
    BY <1>3, <1>5, <1>6, <2>4, EnumeratesBoth
  <2>6. QueueNames(c) \in SUBSET (Names(c) \cup {MIN_COUNT})
    BY DEF Names
  <2> QED BY <2>1, <2>5, <2>6, ListsRemoved DEF MsgKeys
<1>8. /\ {"sem"} \X semNames = Of("sem", PlainSem \cup {"NOTIFY_WORKER"} \cup OneRP \cup OneWP)
      /\ {"shm"} \X (y2 \X {0}) = Of("shm", PlainShm \cup {"SHM_WORKERS_PID"})
  <2>1. y1 = PlainSem \cup {"NOTIFY_WORKER"} /\ y2 = PlainShm \cup {"SHM_WORKERS_PID"}
    BY DEF PlainSem, PlainShm
  <2> HIDE DEF y1, y2
  <2> QED BY <2>1 DEF Of
<1>9. /\ ({"sem"} \X semNames) \cap ({"shm"} \X (y2 \X {0})) = {}
      /\ (({"sem"} \X semNames) \cup ({"shm"} \X (y2 \X {0}))) \cap MsgKeys(c) = {}
  <2> HIDE DEF semNames, y2
  <2> QED BY DEF MsgKeys
<1> HIDE DEF semNames, y2, nusers
<1>a. Lists(SemDeallocate \o ShmDeallocate, Removables(c), ({"sem"} \X semNames) \cup ({"shm"} \X (y2 \X {0})))
  BY <1>1, <1>2, <1>9, ListsBoth
<1>b. Lists(SemDeallocate \o ShmDeallocate \o MsgDeallocate(c, nusers, hasAdded), Removables(c),
            ({"sem"} \X semNames) \cup ({"shm"} \X (y2 \X {0})) \cup MsgKeys(c))
  BY <1>a, <1>7, <1>9, ListsBoth
<1> QED BY <1>8, <1>b DEF RemovalsOf, Removals, RemovedKeys, nusers

(* Whatever is created is removed; nothing else is, if there are workers.    *)
LEMMA CreatedIsRemoved ==
  ASSUME NEW c \in AllConfigs
  PROVE  /\ CreatedKeys(c) \subseteq RemovedKeys(c)
         /\ c.workers > 0 => CreatedKeys(c) = RemovedKeys(c)
<1>1. c.workers \in Nat
  BY ConfigTyped
<1>2. IfWorkers(c, {"NOTIFY_WORKER"}) \subseteq {"NOTIFY_WORKER"} /\ IfWorkers(c, {"SHM_WORKERS_PID"}) \subseteq {"SHM_WORKERS_PID"}
  BY DEF IfWorkers
<1>3. SemKeys(c) \subseteq Of("sem", PlainSem \cup {"NOTIFY_WORKER"} \cup OneRP \cup OneWP)
  BY <1>2 DEF SemKeys, Of
<1>4. ShmKeys(c) \subseteq Of("shm", PlainShm \cup {"SHM_WORKERS_PID"})
  BY <1>2 DEF ShmKeys, Of
<1>5. c.workers > 0 => SemKeys(c) = Of("sem", PlainSem \cup {"NOTIFY_WORKER"} \cup OneRP \cup OneWP)
                       /\ ShmKeys(c) = Of("shm", PlainShm \cup {"SHM_WORKERS_PID"})
  BY <1>1 DEF SemKeys, ShmKeys, IfWorkers
<1> QED BY <1>3, <1>4, <1>5 DEF CreatedKeys, RemovedKeys

----------------------------------------------------------------------------
(* THE SORTED TABLE OF THE KEYS                                              *)

Sorted(keys) == keys \in Seq(Int) /\ \A i, j \in 1..Len(keys) : i < j => keys[i] < keys[j]

(* Where a key is in a sorted table, or where it belongs.                    *)
Belongs(keys, new, p) ==
  /\ p \in 1..Len(keys) + 1
  /\ \A i \in 1..Len(keys) : (i < p => keys[i] < new) /\ (i >= p => keys[i] >= new)

(* Every new key belongs somewhere in a sorted table.                        *)
LEMMA BelongsSomewhere ==
  ASSUME NEW keys, Sorted(keys), NEW new \in Int
  PROVE  \E p : Belongs(keys, new, p)
<1> DEFINE n == Len(keys)
           T == {k \in Int : \E p \in 1..k + 1 : \A i \in 1..k : (i < p => keys[i] < new) /\ (i >= p => keys[i] >= new)}
<1>0. n \in Nat /\ (\A i \in 1..n : keys[i] \in Int) /\ \A i, j \in 1..n : i < j => keys[i] < keys[j]
  BY DEF Sorted
<1>1. 0 \in T
  OBVIOUS
<1>2. ASSUME NEW k \in 1..n, k - 1 \in T PROVE k \in T
  <2>1. PICK p \in 1..k : \A i \in 1..k - 1 : (i < p => keys[i] < new) /\ (i >= p => keys[i] >= new)
    BY <1>2
  <2>2. k \in Int /\ k \in 1..n /\ p \in Int /\ keys[k] \in Int
    BY <1>0, <2>1
  <2>3. CASE keys[k] >= new
    <3>1. \A i \in 1..k : (i < p => keys[i] < new) /\ (i >= p => keys[i] >= new)
      BY <2>1, <2>2, <2>3
    <3>2. p \in 1..k + 1 /\ k \in Int
      BY <2>1, <2>2
    <3> QED BY <3>1, <3>2
  <2>4. CASE keys[k] < new
    <3>1. \A i \in 1..k : (i < k + 1 => keys[i] < new) /\ (i >= k + 1 => keys[i] >= new)
      <4> SUFFICES ASSUME NEW i \in 1..k PROVE keys[i] < new
        BY <2>2
      <4>1. i \in 1..n /\ keys[i] \in Int
        BY <1>0, <2>2
      <4>2. i < k => keys[i] < keys[k]
        BY <1>0, <2>2, <4>1
      <4> QED BY <2>2, <2>4, <4>1, <4>2
    <3> QED BY <2>2, <3>1
  <2> QED BY <1>0, <2>2, <2>3, <2>4
<1>3. n \in T
  <2>1. 0..n \subseteq T
    <3> HIDE DEF T
    <3>1. \A i \in 0 + 1..n : i - 1 \in T => i \in T
      BY <1>2
    <3>2. 0 \in Int /\ n \in Int
      BY <1>0
    <3> HIDE DEF n
    <3> QED BY <1>1, <3>1, <3>2, Reaches
  <2> QED BY <1>0, <2>1
<1> QED BY <1>3 DEF Belongs

(* What the search gives between two positions when the key belongs to p.    *)
Clip(p, left, right) == IF p < left THEN left ELSE IF p > right + 1 THEN right + 1 ELSE p
Answer(keys, new, p, left, right) ==
  IF left > right THEN [found |-> FALSE, pos |-> left]
  ELSE [found |-> p \in left..right /\ keys[p] = new, pos |-> Clip(p, left, right)]

Turn(keys, new, search, left, right) ==
  LET center == left + (right - left) \div 2 IN
  IF left > right THEN [found |-> FALSE, pos |-> left]
  ELSE IF keys[center] = new THEN [found |-> TRUE, pos |-> center]
  ELSE IF keys[center] < new THEN search[<<center + 1, right>>]
  ELSE search[<<left, center - 1>>]
Searches(keys, new, search) ==
  search = [bounds \in (1..Len(keys) + 1) \X (0..Len(keys)) |->
              Turn(keys, new, search, bounds[1], bounds[2])]

(* check_exist_key is a search over the whole table.                         *)
LEMMA CheckSearches ==
  ASSUME NEW keys, NEW new
  PROVE  CheckExistKey(keys, new) = (CHOOSE search : Searches(keys, new, search))[<<1, Len(keys)>>]
BY DEF CheckExistKey, Searches, Turn

(* The turn of the search that the code takes agrees with the answer.        *)
LEMMA TurnAnswers ==
  ASSUME NEW keys, Sorted(keys), NEW new \in Int, NEW p, Belongs(keys, new, p), NEW search,
         NEW left \in 1..Len(keys) + 1, NEW right \in 0..Len(keys),
         left <= right => \A l \in 1..Len(keys) + 1, r \in 0..Len(keys) :
           r - l < right - left => search[<<l, r>>] = Answer(keys, new, p, l, r)
  PROVE  Turn(keys, new, search, left, right) = Answer(keys, new, p, left, right)
<1> DEFINE n == Len(keys)
           center == left + (right - left) \div 2
<1>0. /\ n \in Nat /\ (\A i \in 1..n : keys[i] \in Int) /\ \A i, j \in 1..n : i < j => keys[i] < keys[j]
      /\ p \in 1..n + 1
      /\ \A i \in 1..n : (i < p => keys[i] < new) /\ (i >= p => keys[i] >= new)
  BY DEF Sorted, Belongs
<1>1. CASE left > right
  BY <1>1 DEF Turn, Answer
<1>2. CASE left <= right
  <2>1. center \in left..right /\ center \in 1..n /\ center + 1 \in 1..n + 1 /\ center - 1 \in 0..n
        /\ right - (center + 1) < right - left /\ (center - 1) - left < right - left
        /\ left \in Int /\ right \in Int /\ center \in Int
    BY <1>0, <1>2
  <2>2. Turn(keys, new, search, left, right) =
          IF keys[center] = new THEN [found |-> TRUE, pos |-> center]
          ELSE IF keys[center] < new THEN search[<<center + 1, right>>]
          ELSE search[<<left, center - 1>>]
    BY <1>2, <2>1 DEF Turn
  <2>k. keys[center] \in Int /\ (center < p => keys[center] < new) /\ (center >= p => keys[center] >= new)
    BY <1>0, <2>1
  <2> HIDE DEF center
  <2>3. CASE keys[center] = new
    <3>1. center = p
      <4>1. center >= p
        BY <1>0, <2>1, <2>3
      <4>2. ASSUME center > p PROVE FALSE
        <5>1. p \in 1..n /\ keys[p] < keys[center] /\ keys[p] >= new /\ keys[p] \in Int
          BY <1>0, <2>1, <4>2
        <5> QED BY <2>3, <5>1
      <4> QED BY <1>0, <2>1, <4>1, <4>2
    <3>2. Clip(p, left, right) = p
      BY <2>1, <3>1 DEF Clip
    <3>3. Turn(keys, new, search, left, right) = [found |-> TRUE, pos |-> p]
      BY <2>2, <2>3, <3>1
    <3>4. p \in left..right /\ keys[p] = new /\ ~ (left > right)
      BY <1>2, <2>1, <2>3, <3>1
    <3> QED BY <3>2, <3>3, <3>4 DEF Answer
  <2>4. CASE keys[center] < new
    <3>1. p > center
      BY <1>0, <2>1, <2>4, <2>k
    <3>2. Turn(keys, new, search, left, right) = Answer(keys, new, p, center + 1, right)
      <4>1. search[<<center + 1, right>>] = Answer(keys, new, p, center + 1, right)
        BY <1>2, <2>1
      <4> QED BY <1>0, <2>1, <2>2, <2>4, <4>1
    <3>3. CASE center + 1 > right
      <4>1. center = right
        BY <2>1, <3>3
      <4>2. p \notin left..right /\ Clip(p, left, right) = right + 1
        BY <1>0, <2>1, <3>1, <4>1 DEF Clip
      <4>3. center + 1 = right + 1 /\ ~ (left > right)
        BY <1>2, <2>1, <4>1
      <4> QED BY <3>2, <3>3, <4>2, <4>3 DEF Answer
    <3>4. CASE center + 1 <= right
      <4>1. (p \in left..right <=> p \in center + 1..right) /\ Clip(p, left, right) = Clip(p, center + 1, right)
        BY <1>0, <2>1, <3>1, <3>4 DEF Clip
      <4> QED BY <1>2, <2>1, <3>2, <3>4, <4>1 DEF Answer
    <3> QED BY <2>1, <3>3, <3>4
  <2>5. CASE keys[center] > new
    <3>1. p <= center
      BY <1>0, <2>1, <2>5, <2>k
    <3>2. Turn(keys, new, search, left, right) = Answer(keys, new, p, left, center - 1)
      <4>1. search[<<left, center - 1>>] = Answer(keys, new, p, left, center - 1)
        BY <1>2, <2>1
      <4> QED BY <1>0, <2>1, <2>2, <2>5, <4>1
    <3>3. p = center => keys[p] # new
      BY <1>0, <2>1, <2>5
    <3>4. CASE left > center - 1
      <4>1. center = left
        BY <2>1, <3>4
      <4>2. ~ (p \in left..right /\ keys[p] = new) /\ Clip(p, left, right) = left
        BY <1>0, <2>1, <3>1, <3>3, <4>1 DEF Clip
      <4> QED BY <1>2, <2>1, <3>2, <3>4, <4>1, <4>2 DEF Answer
    <3>5. CASE left <= center - 1
      <4>1. (p \in left..right /\ keys[p] = new) <=> (p \in left..center - 1 /\ keys[p] = new)
        BY <1>0, <2>1, <3>1, <3>3, <3>5
      <4>2. Clip(p, left, right) = Clip(p, left, center - 1)
        BY <1>0, <2>1, <3>1, <3>5 DEF Clip
      <4> QED BY <1>2, <2>1, <3>2, <3>5, <4>1, <4>2 DEF Answer
    <3> QED BY <2>1, <3>4, <3>5
  <2> QED BY <1>0, <2>1, <2>3, <2>4, <2>5
<1> QED BY <1>1, <1>2

(* In a sorted table check_exist_key finds a key exactly when it is there,   *)
(* and tells where one that is not belongs.                                  *)
LEMMA CheckFinds ==
  ASSUME NEW keys, Sorted(keys), NEW new \in Int
  PROVE  LET check == CheckExistKey(keys, new) IN
         /\ check.found <=> \E i \in 1..Len(keys) : keys[i] = new
         /\ Belongs(keys, new, check.pos)
<1> DEFINE n == Len(keys)
           L == 1..n + 1
           R == 0..n
<1>0. n \in Nat /\ (\A i \in 1..n : keys[i] \in Int) /\ \A i, j \in 1..n : i < j => keys[i] < keys[j]
  BY DEF Sorted
<1>1. PICK p : Belongs(keys, new, p)
  BY BelongsSomewhere
<1>2. p \in 1..n + 1 /\ \A i \in 1..n : (i < p => keys[i] < new) /\ (i >= p => keys[i] >= new)
  BY <1>1 DEF Belongs
<1>3. \E search : Searches(keys, new, search)
  <2> DEFINE s == [b \in L \X R |-> Answer(keys, new, p, b[1], b[2])]
  <2>1. \A left \in L, right \in R : s[<<left, right>>] = Answer(keys, new, p, left, right)
    OBVIOUS
  <2> HIDE DEF s
  <2>2. \A left \in L, right \in R : Turn(keys, new, s, left, right) = Answer(keys, new, p, left, right)
    <3> TAKE left \in L, right \in R
    <3> QED BY <1>1, <2>1, TurnAnswers
  <2>3. s = [b \in L \X R |-> Turn(keys, new, s, b[1], b[2])]
    BY <2>2 DEF s
  <2> QED BY <2>3 DEF Searches
<1> DEFINE search == CHOOSE s : Searches(keys, new, s)
<1>4. Searches(keys, new, search)
  BY <1>3
<1>5. \A left \in L, right \in R : search[<<left, right>>] = Turn(keys, new, search, left, right)
  <2> HIDE DEF search
  <2> QED BY <1>4 DEF Searches
<1>6. CheckExistKey(keys, new) = search[<<1, n>>]
  BY CheckSearches
<1> HIDE DEF search
<1> DEFINE T == {k \in Int : \A left \in L, right \in R : right - left < k => search[<<left, right>>] = Answer(keys, new, p, left, right)}
<1>7. -n - 1 \in T
  <2>1. \A left \in L, right \in R : ~ (right - left < -n - 1)
    BY <1>0
  <2> QED BY <1>0, <2>1
<1>8. ASSUME NEW k \in (-n - 1) + 1..n, k - 1 \in T PROVE k \in T
  <2> SUFFICES ASSUME NEW left \in L, NEW right \in R, right - left < k
               PROVE  search[<<left, right>>] = Answer(keys, new, p, left, right)
    BY <1>0
  <2>1. \A l \in L, r \in R : r - l < right - left => search[<<l, r>>] = Answer(keys, new, p, l, r)
    <3> SUFFICES ASSUME NEW l \in L, NEW r \in R, r - l < right - left PROVE search[<<l, r>>] = Answer(keys, new, p, l, r)
      OBVIOUS
    <3>1. r - l < k - 1
      BY <1>0
    <3> QED BY <1>8, <3>1
  <2>2. Turn(keys, new, search, left, right) = Answer(keys, new, p, left, right)
    BY <1>1, <2>1, TurnAnswers
  <2> QED BY <1>5, <2>2
<1>9. n \in T
  <2>1. (-n - 1) \in Int /\ n \in Int /\ n \in (-n - 1)..n
    BY <1>0
  <2>2. \A k \in (-n - 1) + 1..n : k - 1 \in T => k \in T
    BY <1>8
  <2> HIDE DEF T, n
  <2>3. (-n - 1)..n \subseteq T
    BY <1>7, <2>1, <2>2, Reaches
  <2> QED BY <2>1, <2>3
<1>10. CheckExistKey(keys, new) = Answer(keys, new, p, 1, n)
  <2>1. 1 \in L /\ n \in R /\ n - 1 < n
    BY <1>0
  <2> QED BY <1>6, <1>9, <2>1
<1>11. CheckExistKey(keys, new).found <=> \E i \in 1..n : keys[i] = new
  <2>1. (\E i \in 1..n : keys[i] = new) <=> (p \in 1..n /\ keys[p] = new)
    <3> SUFFICES ASSUME NEW i \in 1..n, keys[i] = new PROVE p = i
      OBVIOUS
    <3>1. i >= p
      BY <1>0, <1>2
    <3>2. ASSUME i > p PROVE FALSE
      <4>1. p \in 1..n /\ keys[p] < keys[i] /\ keys[p] >= new /\ keys[p] \in Int
        BY <1>0, <1>2, <3>2
      <4> QED BY <4>1
    <3> QED BY <1>2, <3>1, <3>2
  <2>2. CheckExistKey(keys, new).found = IF 1 > n THEN FALSE ELSE p \in 1..n /\ keys[p] = new
    BY <1>10 DEF Answer
  <2>3. 1 > n => 1..n = {}
    BY <1>0
  <2> QED BY <2>1, <2>2, <2>3
<1>12. CheckExistKey(keys, new).pos = p
  BY <1>0, <1>2, <1>10 DEF Answer, Clip
<1> QED BY <1>1, <1>11, <1>12

----------------------------------------------------------------------------
(* THE KEYS                                                                  *)

(* What ftok gives ends with the stamp of the path.                          *)
LEMMA FtokIs ==
  ASSUME NEW stamp \in 0..255, NEW id \in Nat
  PROVE  \E x \in Nat : Ftok(stamp, id) = x * 256 + stamp
<1>1. id % ID_VALUES \in Nat
  BY SetupAssumption
<1> QED BY <1>1 DEF Ftok

(* The stamps of the paths are bytes, and none is that of the root.          *)
LEMMA StampsTyped ==
  /\ Len(Stamps) \in Nat /\ RootStamp \in 0..255 /\ ID_VALUES \in Nat /\ ID_VALUES > 0
  /\ \A i \in 1..Len(Stamps) : Stamps[i] \in 0..255 /\ Stamps[i] # RootStamp
<1>1. Stamps \in Seq(0..255) /\ RootStamp \in 0..255 /\ RootStamp \notin Range(Stamps) /\ ID_VALUES \in Nat \ {0}
  BY SetupAssumption
<1> QED BY <1>1 DEF Range

(* Dividing a number below a product.                                        *)
LEMMA DivBound ==
  ASSUME NEW a \in Nat, NEW b \in Nat, b > 0, NEW l \in Nat, a < l * b
  PROVE  a \div b \in Nat /\ a % b \in Nat /\ a \div b < l
OBVIOUS

(* A key that generate_key can try ends with the stamp of a path.            *)
LEMMA CandidateIs ==
  ASSUME NEW k \in 0..CANDIDATES - 1
  PROVE  \E x \in Nat, i \in 1..Len(Stamps) : Candidate(k) = x * 256 + Stamps[i]
<1> DEFINE m == ID_VALUES - 1
           l == Len(Stamps)
           q == k \div m
           r == k % m
<1>0. m \in Nat /\ l \in Nat /\ CANDIDATES \in Nat /\ CANDIDATES = l * m /\ k \in Nat /\ k < l * m
  BY StampsTyped DEF CANDIDATES
<1>1. m > 0
  BY <1>0
<1>2. q \in Nat /\ r \in Nat /\ q < l
  <2> HIDE DEF m, l
  <2> QED BY <1>0, <1>1, DivBound
<1>4. 1 + q \in 1..l /\ Stamps[1 + q] \in 0..255
  <2>1. 1 + q \in 1..l
    <3> HIDE DEF q, l
    <3> QED BY <1>0, <1>2
  <2> QED BY <2>1, StampsTyped
<1>5. Candidate(k) = Ftok(Stamps[1 + q], 1 + r)
  BY DEF Candidate
<1>6. 1 + r \in Nat
  BY <1>2
<1>7. \E x \in Nat : Ftok(Stamps[1 + q], 1 + r) = x * 256 + Stamps[1 + q]
  <2> HIDE DEF q, r
  <2> QED BY <1>4, <1>6, FtokIs
<1> QED BY <1>4, <1>5, <1>7

(* It is a number.                                                           *)
LEMMA CandidateNat ==
  ASSUME NEW k \in 0..CANDIDATES - 1
  PROVE  Candidate(k) \in Nat
<1>1. PICK x \in Nat, i \in 1..Len(Stamps) : Candidate(k) = x * 256 + Stamps[i]
  BY CandidateIs
<1>2. Stamps[i] \in 0..255
  BY StampsTyped
<1>3. \A s \in 0..255 : x * 256 + s \in Nat
  OBVIOUS
<1> QED BY <1>1, <1>2, <1>3

(* The timers' keys end with another stamp.                                  *)
LEMMA TimerKeyDiffers ==
  ASSUME NEW k \in 0..CANDIDATES - 1, NEW id \in Nat
  PROVE  Ftok(RootStamp, id) # Candidate(k)
<1>1. PICK x \in Nat, i \in 1..Len(Stamps) : Candidate(k) = x * 256 + Stamps[i]
  BY CandidateIs
<1>2. PICK y \in Nat : Ftok(RootStamp, id) = y * 256 + RootStamp
  BY FtokIs, StampsTyped
<1>3. Stamps[i] \in 0..255 /\ Stamps[i] # RootStamp /\ RootStamp \in 0..255
  BY StampsTyped
<1> DEFINE s == Stamps[i]
<1>4. \A a, b \in 0..255 : x * 256 + a = y * 256 + b => a = b
  OBVIOUS
<1> HIDE DEF s
<1> QED BY <1>1, <1>2, <1>3, <1>4

(* The new key goes where it belongs, and the table stays sorted.            *)
LEMMA InsertKeeps ==
  ASSUME NEW keys, Sorted(keys), NEW new \in Int, NEW p, Belongs(keys, new, p),
         \A i \in 1..Len(keys) : keys[i] # new
  PROVE  /\ Sorted(InsertAt(keys, p, new))
         /\ \E i \in 1..Len(InsertAt(keys, p, new)) : InsertAt(keys, p, new)[i] = new
         /\ \A j \in 1..Len(keys) : \E i \in 1..Len(InsertAt(keys, p, new)) : InsertAt(keys, p, new)[i] = keys[j]
<1> DEFINE n == Len(keys)
           s1 == SubSeq(keys, 1, p - 1)
           s2 == SubSeq(keys, p, n)
           t == InsertAt(keys, p, new)
<1>0. /\ n \in Nat /\ keys \in Seq(Int) /\ (\A i \in 1..n : keys[i] \in Int) /\ \A i, j \in 1..n : i < j => keys[i] < keys[j]
      /\ p \in 1..n + 1 /\ p \in Int
      /\ \A i \in 1..n : (i < p => keys[i] < new) /\ (i >= p => keys[i] > new)
  BY DEF Sorted, Belongs
<1>1. /\ s1 \in Seq(Int) /\ Len(s1) = p - 1 /\ \A i \in 1..p - 1 : s1[i] = keys[i]
      /\ s2 \in Seq(Int) /\ Len(s2) = n + 1 - p /\ \A i \in 1..n + 1 - p : s2[i] = keys[p + i - 1]
  <2>1. s1 \in Seq(Int) /\ Len(s1) = p - 1
    BY <1>0
  <2>2. \A i \in 1..p - 1 : s1[i] = keys[i]
    BY <1>0
  <2>3. s2 \in Seq(Int) /\ Len(s2) = n + 1 - p
    BY <1>0
  <2>4. \A i \in 1..n + 1 - p : s2[i] = keys[p + i - 1]
    BY <1>0
  <2> QED BY <2>1, <2>2, <2>3, <2>4
<1>2. t = s1 \o <<new>> \o s2
  BY DEF InsertAt
<1> HIDE DEF s1, s2, t
<1>3. /\ s1 \o <<new>> \in Seq(Int) /\ Len(s1 \o <<new>>) = p
      /\ \A i \in 1..p - 1 : (s1 \o <<new>>)[i] = s1[i]
      /\ (s1 \o <<new>>)[p] = new
  <2>1. <<new>> \in Seq(Int) /\ Len(<<new>>) = 1 /\ <<new>>[1] = new
    OBVIOUS
  <2>2. /\ s1 \o <<new>> \in Seq(Int) /\ Len(s1 \o <<new>>) = Len(s1) + Len(<<new>>)
        /\ \A i \in 1..Len(s1) + Len(<<new>>) :
             (s1 \o <<new>>)[i] = IF i <= Len(s1) THEN s1[i] ELSE <<new>>[i - Len(s1)]
    BY <1>1, <2>1, ConcatProperties, Zenon
  <2>3. Len(s1) + Len(<<new>>) = p /\ Len(s1) = p - 1 /\ p - (p - 1) = 1 /\ p \in 1..p /\ ~ (p <= p - 1)
    BY <1>0, <1>1, <2>1
  <2>4. \A i \in 1..p : (s1 \o <<new>>)[i] = IF i <= p - 1 THEN s1[i] ELSE <<new>>[i - (p - 1)]
    BY <2>2, <2>3
  <2>5. (s1 \o <<new>>)[p] = new
    BY <2>1, <2>3, <2>4
  <2>6. \A i \in 1..p - 1 : i \in 1..p /\ i <= p - 1
    BY <1>0
  <2>7. \A i \in 1..p - 1 : (s1 \o <<new>>)[i] = s1[i]
    BY <2>4, <2>6
  <2> QED BY <2>2, <2>3, <2>5, <2>7
<1>4. /\ t \in Seq(Int) /\ Len(t) = n + 1
      /\ \A i \in 1..p : t[i] = (s1 \o <<new>>)[i]
      /\ \A i \in p + 1..n + 1 : t[i] = s2[i - p]
  <2> DEFINE u == s1 \o <<new>>
  <2>1. u \in Seq(Int) /\ Len(u) = p
    BY <1>3
  <2> HIDE DEF u
  <2>2. /\ u \o s2 \in Seq(Int) /\ Len(u \o s2) = Len(u) + Len(s2)
        /\ \A i \in 1..Len(u) + Len(s2) : (u \o s2)[i] = IF i <= Len(u) THEN u[i] ELSE s2[i - Len(u)]
    BY <1>1, <2>1, ConcatProperties
  <2>3. t = u \o s2
    BY <1>2 DEF u
  <2>4. Len(u) + Len(s2) = n + 1 /\ Len(u) = p
    BY <1>0, <1>1, <2>1
  <2>5. \A i \in 1..n + 1 : t[i] = IF i <= p THEN u[i] ELSE s2[i - p]
    BY <2>2, <2>3, <2>4
  <2>6. (\A i \in 1..p : i \in 1..n + 1 /\ i <= p) /\ (\A i \in p + 1..n + 1 : i \in 1..n + 1 /\ ~ (i <= p))
    BY <1>0
  <2>7. (\A i \in 1..p : t[i] = u[i]) /\ \A i \in p + 1..n + 1 : t[i] = s2[i - p]
    BY <2>5, <2>6
  <2> QED BY <2>2, <2>3, <2>4, <2>7 DEF u
<1>5. \A i \in 1..n + 1 : t[i] = IF i < p THEN keys[i] ELSE IF i = p THEN new ELSE keys[i - 1]
  <2> TAKE i \in 1..n + 1
  <2>1. CASE i < p
    <3>1. i \in 1..p /\ i \in 1..p - 1
      BY <1>0, <2>1
    <3> QED BY <1>1, <1>3, <1>4, <2>1, <3>1
  <2>2. CASE i = p
    BY <1>0, <1>3, <1>4, <2>2
  <2>3. CASE i > p
    <3>1. i \in p + 1..n + 1 /\ i - p \in 1..n + 1 - p /\ p + (i - p) - 1 = i - 1
      BY <1>0, <2>3
    <3>2. t[i] = s2[i - p] /\ s2[i - p] = keys[p + (i - p) - 1]
      BY <1>1, <1>4, <3>1
    <3>3. ~ (i < p) /\ i # p
      BY <1>0, <2>3
    <3> QED BY <3>1, <3>2, <3>3
  <2> QED BY <1>0, <2>1, <2>2, <2>3
<1>6. Sorted(t)
  <2> SUFFICES ASSUME NEW i \in 1..n + 1, NEW j \in 1..n + 1, i < j PROVE t[i] < t[j]
    BY <1>4 DEF Sorted
  <2>1. CASE j < p
    BY <1>0, <1>5, <2>1
  <2>2. CASE j = p
    BY <1>0, <1>5, <2>2
  <2>3. CASE j > p
    <3>1. t[j] = keys[j - 1] /\ j - 1 \in 1..n /\ j - 1 >= p
      BY <1>0, <1>5, <2>3
    <3>2. CASE i < p
      <4>1. t[i] = keys[i] /\ i \in 1..n /\ i < j - 1 /\ j - 1 \in 1..n
        BY <1>0, <1>5, <3>1, <3>2
      <4> QED BY <1>0, <3>1, <4>1
    <3>3. CASE i = p
      BY <1>0, <1>5, <3>1, <3>3
    <3>4. CASE i > p
      <4>1. t[i] = keys[i - 1] /\ i - 1 \in 1..n /\ i - 1 < j - 1
        BY <1>0, <1>5, <3>4
      <4> QED BY <1>0, <3>1, <4>1
    <3> QED BY <1>0, <3>2, <3>3, <3>4
  <2> QED BY <1>0, <2>1, <2>2, <2>3
<1>7. p \in 1..Len(t) /\ t[p] = new
  BY <1>0, <1>4, <1>5
<1>8. ASSUME NEW j \in 1..n PROVE \E i \in 1..Len(t) : t[i] = keys[j]
  <2>1. CASE j < p
    <3>1. j \in 1..Len(t) /\ t[j] = keys[j]
      BY <1>0, <1>4, <1>5, <2>1
    <3> QED BY <3>1
  <2>2. CASE j >= p
    <3>1. j + 1 \in 1..Len(t) /\ t[j + 1] = keys[j]
      <4>1. j + 1 \in 1..n + 1 /\ ~ (j + 1 < p) /\ j + 1 # p /\ (j + 1) - 1 = j
        BY <1>0, <2>2
      <4> QED BY <1>4, <1>5, <4>1
    <3> QED BY <3>1
  <2> QED BY <1>0, <2>1, <2>2
<1> QED BY <1>6, <1>7, <1>8 DEF t

(* A set of numbers that is not empty holds its least one.                   *)
LEMMA LeastOf ==
  ASSUME NEW T \in SUBSET Nat, T # {}
  PROVE  Min(T) \in T
<1> DEFINE R == OpToRel(<, Nat)
<1>1. IsWellFoundedOn(R, Nat)
  BY NatLessThanWellFounded
<1>2. \A x, y \in Nat : <<y, x>> \in R <=> y < x
  BY DEF OpToRel
<1>3. \E x \in T : \A y \in T : ~ (<<y, x>> \in R)
  <2> HIDE DEF R
  <2> QED BY <1>1, WFMin
<1>4. PICK x \in T : \A y \in T : ~ (<<y, x>> \in R)
  BY <1>3
<1>5. ASSUME NEW y \in T PROVE x <= y
  <2>1. <<y, x>> \notin R
    BY <1>4
  <2>2. ~ (y < x)
    BY <1>2, <2>1, Zenon
  <2> QED BY <2>2
<1>6. \E z \in T : \A y \in T : z <= y
  BY <1>5
<1> QED BY <1>6 DEF Min

(* The tables generate_key works on: every name has a key of its own, a      *)
(* candidate that is in the sorted table; SHM_MIN_COUNT_KEY is -1.           *)
Known(c) == Names(c) \cup {MIN_COUNT}
Given(c) == UNION {[D -> Int] : D \in SUBSET Known(c)}
Tables(c) ==
  {g \in [next : Nat, keys : Seq(Int), exhausted : BOOLEAN, of : Given(c)] :
     /\ Sorted(g.keys)
     /\ MIN_COUNT \in DOMAIN g.of /\ g.of[MIN_COUNT] = -1
     /\ \A n \in DOMAIN g.of \ {MIN_COUNT} :
          /\ \E j \in 1..Len(g.keys) : g.keys[j] = g.of[n]
          /\ \E k \in 0..CANDIDATES - 1 : g.of[n] = Candidate(k)
     /\ \A n, m \in DOMAIN g.of : g.of[n] = g.of[m] => n = m}

(* No key is generated for SHM_MIN_COUNT.                                    *)
LEMMA MinCountIsExtra ==
  ASSUME NEW c
  PROVE  MIN_COUNT \notin Names(c)
BY DEF MIN_COUNT, Names, CommonNames, QueueNames, Queues, OneSem, OneRP, OneWP, OneShm, OneMsg

(* What it means to give keys to some of the names.                          *)
LEMMA GivenIs ==
  ASSUME NEW c, NEW f
  PROVE  f \in Given(c) <=> /\ DOMAIN f \in SUBSET Known(c)
                            /\ f = [n \in DOMAIN f |-> f[n]] /\ \A n \in DOMAIN f : f[n] \in Int
<1>1. ASSUME f \in Given(c)
      PROVE  DOMAIN f \in SUBSET Known(c) /\ f = [n \in DOMAIN f |-> f[n]] /\ \A n \in DOMAIN f : f[n] \in Int
  <2>1. PICK D \in SUBSET Known(c) : f \in [D -> Int]
    BY <1>1 DEF Given
  <2> QED BY <2>1
<1>2. ASSUME DOMAIN f \in SUBSET Known(c), f = [n \in DOMAIN f |-> f[n]], \A n \in DOMAIN f : f[n] \in Int
      PROVE  f \in Given(c)
  <2>1. f \in [DOMAIN f -> Int]
    BY <1>2
  <2> QED BY <1>2, <2>1 DEF Given
<1> QED BY <1>1, <1>2

(* One key more: new, in its place, or the paths are exhausted.              *)
LEMMA GenerateKeeps ==
  ASSUME NEW c \in AllConfigs, NEW g \in Tables(c), NEW name \in Names(c)
  PROVE  LET h == GenerateKey(g, name) IN
         /\ h \in Tables(c)
         /\ \/ h.exhausted /\ h.of = g.of
            \/ /\ ~g.exhausted /\ ~h.exhausted
               /\ DOMAIN h.of = DOMAIN g.of \cup {name}
               /\ \A m \in DOMAIN g.of : m # name => h.of[m] = g.of[m]
<1> DEFINE untried == {k \in g.next..CANDIDATES - 1 : ~CheckExistKey(g.keys, Candidate(k)).found}
           k == Min(untried)
           key == Candidate(k)
           h == GenerateKey(g, name)
<1>0. /\ g \in [next : Nat, keys : Seq(Int), exhausted : BOOLEAN, of : Given(c)]
      /\ Sorted(g.keys)
      /\ MIN_COUNT \in DOMAIN g.of /\ g.of[MIN_COUNT] = -1
      /\ \A n \in DOMAIN g.of \ {MIN_COUNT} :
          /\ \E j \in 1..Len(g.keys) : g.keys[j] = g.of[n]
          /\ \E i \in 0..CANDIDATES - 1 : g.of[n] = Candidate(i)
      /\ \A n, m \in DOMAIN g.of : g.of[n] = g.of[m] => n = m
  BY DEF Tables
<1>1. CASE g.exhausted \/ untried = {}
  <2>1. h = [g EXCEPT !.exhausted = TRUE]
    BY <1>1 DEF GenerateKey
  <2> HIDE DEF h, untried, k, key
  <2>2. /\ h \in [next : Nat, keys : Seq(Int), exhausted : BOOLEAN, of : Given(c)]
        /\ h.of = g.of /\ h.keys = g.keys /\ h.exhausted
    BY <1>0, <2>1
  <2>3. h \in Tables(c)
    BY <1>0, <2>2 DEF Tables
  <2> QED BY <2>2, <2>3 DEF h
<1>2. CASE ~ (g.exhausted \/ untried = {})
  <2>1. k \in untried
    <3>1. untried \in SUBSET Nat
      BY <1>0
    <3> HIDE DEF untried
    <3> QED BY <1>2, <3>1, LeastOf
  <2>2. k \in 0..CANDIDATES - 1 /\ k \in Nat /\ ~CheckExistKey(g.keys, key).found
    <3> HIDE DEF k
    <3> QED BY <1>0, <2>1
  <2>3. key \in Nat
    <3> HIDE DEF k
    <3> QED BY <2>2, CandidateNat
  <2> DEFINE p == CheckExistKey(g.keys, key).pos
             keys == InsertAt(g.keys, p, key)
  <2>4. h = [next |-> k + 1, keys |-> keys, of |-> With(g.of, name, key), exhausted |-> FALSE]
    BY <1>2 DEF GenerateKey
  <2>5. (\A i \in 1..Len(g.keys) : g.keys[i] # key) /\ Belongs(g.keys, key, p)
    <3> HIDE DEF k, key
    <3>1. key \in Int
      BY <2>3
    <3> QED BY <1>0, <2>2, <3>1, CheckFinds
  <2>6. /\ Sorted(keys) /\ (\E i \in 1..Len(keys) : keys[i] = key)
        /\ \A j \in 1..Len(g.keys) : \E i \in 1..Len(keys) : keys[i] = g.keys[j]
    <3> HIDE DEF key, p
    <3>1. key \in Int
      BY <2>3
    <3> QED BY <1>0, <2>5, <3>1, InsertKeeps
  <2>7. \E i \in 0..CANDIDATES - 1 : key = Candidate(i)
    <3> HIDE DEF k
    <3> QED BY <2>2
  <2> HIDE DEF h, untried, k, key, p, keys
  <2>8. name # MIN_COUNT
    BY MinCountIsExtra
  <2> DEFINE of == With(g.of, name, key)
  <2>9. /\ DOMAIN of = DOMAIN g.of \cup {name} /\ of[name] = key
        /\ \A m \in DOMAIN g.of : m # name => of[m] = g.of[m]
        /\ of = [n \in DOMAIN of |-> of[n]]
    BY DEF With
  <2>10. h.of = of /\ h.keys = keys /\ ~h.exhausted /\ h.next = k + 1
    BY <2>4
  <2>11. h \in [next : Nat, keys : Seq(Int), exhausted : BOOLEAN, of : Given(c)]
    <3>1. keys \in Seq(Int)
      BY <2>6 DEF Sorted
    <3>2. of \in Given(c)
      <4>1. g.of \in Given(c)
        BY <1>0
      <4>2. DOMAIN g.of \in SUBSET Known(c) /\ \A n \in DOMAIN g.of : g.of[n] \in Int
        BY <4>1, GivenIs
      <4> HIDE DEF of
      <4>3. DOMAIN of \in SUBSET Known(c) /\ \A n \in DOMAIN of : of[n] \in Int
        BY <2>3, <2>9, <4>2 DEF Known
      <4> QED BY <2>9, <4>3, GivenIs
    <3> HIDE DEF of
    <3> QED BY <2>2, <2>4, <2>10, <3>1, <3>2
  <2> HIDE DEF of
  <2>12. MIN_COUNT \in DOMAIN of /\ of[MIN_COUNT] = -1
    BY <1>0, <2>8, <2>9
  <2>13. ASSUME NEW n \in DOMAIN of \ {MIN_COUNT}
         PROVE  /\ \E j \in 1..Len(keys) : keys[j] = of[n]
                /\ \E i \in 0..CANDIDATES - 1 : of[n] = Candidate(i)
    <3>1. CASE n = name
      BY <2>6, <2>7, <2>9, <3>1
    <3>2. CASE n # name
      <4>1. n \in DOMAIN g.of \ {MIN_COUNT} /\ of[n] = g.of[n]
        BY <2>9, <3>2
      <4> QED BY <1>0, <2>6, <4>1
    <3> QED BY <3>1, <3>2
  <2>14. ASSUME NEW n \in DOMAIN g.of PROVE g.of[n] # key
    <3>1. CASE n = MIN_COUNT
      BY <1>0, <2>3, <3>1
    <3>2. CASE n # MIN_COUNT
      BY <1>0, <2>5, <3>2
    <3> QED BY <3>1, <3>2
  <2>15. ASSUME NEW n \in DOMAIN of, NEW m \in DOMAIN of, of[n] = of[m] PROVE n = m
    <3>1. CASE n = name /\ m # name
      BY <2>9, <2>14, <2>15, <3>1
    <3>2. CASE n # name /\ m = name
      BY <2>9, <2>14, <2>15, <3>2
    <3>3. CASE n # name /\ m # name
      BY <1>0, <2>9, <2>15, <3>3
    <3> QED BY <3>1, <3>2, <3>3
  <2>16. h \in Tables(c)
    BY <2>6, <2>10, <2>11, <2>12, <2>13, <2>15 DEF Tables
  <2>17. ~g.exhausted
    BY <1>2
  <2> QED BY <2>9, <2>10, <2>16, <2>17 DEF h
<1> QED BY <1>1, <1>2

(* The rows of a process's computation: the table after every name.          *)
NoKeys == [next |-> 0, keys |-> <<>>, exhausted |-> FALSE, of |-> [n \in {<<"SHM_MIN_COUNT", 0>>} |-> -1]]
IsRows(c, g) ==
  g = [i \in 0..Len(KeyNames(c)) |-> IF i = 0 THEN NoKeys ELSE GenerateKey(g[i - 1], KeyNames(c)[i])]
Rows(c) == CHOOSE g : IsRows(c, g)

(* The names in the order of ftok_key_init.                                  *)
LEMMA KeyNamesTyped ==
  ASSUME NEW c \in AllConfigs
  PROVE  /\ Len(KeyNames(c)) \in Nat
         /\ \A i \in 1..Len(KeyNames(c)) : KeyNames(c)[i] \in Names(c)
         /\ \A n \in Names(c) : \E i \in 1..Len(KeyNames(c)) : KeyNames(c)[i] = n
         /\ \A i, j \in 1..Len(KeyNames(c)) : KeyNames(c)[i] = KeyNames(c)[j] => i = j
<1> DEFINE s == KeyNames(c)
<1>1. Enumerates(s, Names(c))
  BY KeysAreNamed
<1> HIDE DEF s
<1>2. s \in Seq(Names(c)) /\ Len(s) \in Nat
  BY <1>1 DEF Enumerates
<1>3. (\A n \in Names(c) : \E i \in 1..Len(s) : s[i] = n) /\ \A i, j \in 1..Len(s) : s[i] = s[j] => i = j
  BY <1>1, Zenon DEF Enumerates
<1>4. \A i \in 1..Len(s) : s[i] \in Names(c)
  BY <1>2
<1> QED BY <1>2, <1>3, <1>4 DEF s

(* The table to begin with holds the key -1 of SHM_MIN_COUNT alone.          *)
LEMMA NoKeysIsTable ==
  ASSUME NEW c
  PROVE  NoKeys \in Tables(c) /\ DOMAIN NoKeys.of = {MIN_COUNT}
<1> DEFINE f == [n \in {<<"SHM_MIN_COUNT", 0>>} |-> -1]
<1>1. DOMAIN f = {MIN_COUNT} /\ f[MIN_COUNT] = -1 /\ f = [n \in DOMAIN f |-> f[n]]
  BY DEF MIN_COUNT
<1> HIDE DEF f
<1>2. f \in Given(c)
  BY <1>1, GivenIs DEF Known
<1>3. NoKeys = [next |-> 0, keys |-> <<>>, exhausted |-> FALSE, of |-> f]
  BY DEF NoKeys, f
<1>4. Sorted(<<>>)
  BY DEF Sorted
<1>5. <<>> \in Seq(Int)
  OBVIOUS
<1>6. NoKeys \in [next : Nat, keys : Seq(Int), exhausted : BOOLEAN, of : Given(c)]
  BY <1>2, <1>3, <1>5
<1>7. NoKeys.keys = <<>> /\ NoKeys.of = f
  BY <1>3
<1> QED BY <1>1, <1>4, <1>6, <1>7 DEF Tables

(* ftok_key_init is a run of generate_key over the names, row after row.     *)
LEMMA RowsAre ==
  ASSUME NEW c \in AllConfigs
  PROVE  /\ Rows(c)[0] = NoKeys
         /\ \A i \in 1..Len(KeyNames(c)) : Rows(c)[i] = GenerateKey(Rows(c)[i - 1], KeyNames(c)[i])
         /\ \A i \in 0..Len(KeyNames(c)) : Rows(c)[i] \in Tables(c)
         /\ FtokKeyInit(c) = Rows(c)[Len(KeyNames(c))]
<1> DEFINE n == Len(KeyNames(c))
           V == Tables(c)
           G == [x \in Int \X V |-> IF x[1] \in 1..n THEN GenerateKey(x[2], KeyNames(c)[x[1]]) ELSE x[2]]
<1>0. n \in Nat /\ NoKeys \in V
  BY KeyNamesTyped, NoKeysIsTable
<1>1. G \in [Int \X V -> V]
  <2>1. ASSUME NEW x \in Int \X V
        PROVE (IF x[1] \in 1..n THEN GenerateKey(x[2], KeyNames(c)[x[1]]) ELSE x[2]) \in V
    <3>1. x[2] \in V
      OBVIOUS
    <3> HIDE DEF V, n
    <3>2. CASE x[1] \in 1..n
      <4>1. KeyNames(c)[x[1]] \in Names(c)
        BY <3>2, KeyNamesTyped DEF n
      <4>2. GenerateKey(x[2], KeyNames(c)[x[1]]) \in V
        BY <3>1, <4>1, GenerateKeeps DEF V
      <4> QED BY <3>2, <4>2
    <3>3. CASE x[1] \notin 1..n
      BY <3>1, <3>3
    <3> QED BY <3>2, <3>3
  <2> HIDE DEF V, n
  <2> QED BY <2>1
<1>2. \A i \in 1..n, g \in V : G[<<i, g>>] = GenerateKey(g, KeyNames(c)[i])
  <2> HIDE DEF V, n
  <2> TAKE i \in 1..n, g \in V
  <2>1. <<i, g>> \in Int \X V
    OBVIOUS
  <2> QED BY <2>1
<1> HIDE DEF V, n, G
<1>3. /\ \E f : Unfolds(f, 0, n, NoKeys, G)
      /\ \A f : Unfolds(f, 0, n, NoKeys, G) => f \in [0..n -> V]
  <2>1. 0 \in Int /\ n \in Int /\ 0 <= n
    BY <1>0
  <2> QED BY <1>0, <1>1, <2>1, RecursionExists
<1>4. ASSUME NEW f, Unfolds(f, 0, n, NoKeys, G) PROVE IsRows(c, f)
  <2>1. f \in [0..n -> V]
    BY <1>3, <1>4
  <2>2. f = [i \in 0..n |-> IF i = 0 THEN NoKeys ELSE G[<<i, f[i - 1]>>]]
    BY <1>4 DEF Unfolds
  <2>3. ASSUME NEW i \in 0..n PROVE (IF i = 0 THEN NoKeys ELSE G[<<i, f[i - 1]>>]) = (IF i = 0 THEN NoKeys ELSE GenerateKey(f[i - 1], KeyNames(c)[i]))
    <3>1. CASE i = 0
      BY <3>1
    <3>2. CASE i # 0
      <4>1. i \in 1..n /\ f[i - 1] \in V
        BY <1>0, <2>1, <3>2
      <4> QED BY <1>2, <3>2, <4>1
    <3> QED BY <3>1, <3>2
  <2>4. f = [i \in 0..n |-> IF i = 0 THEN NoKeys ELSE GenerateKey(f[i - 1], KeyNames(c)[i])]
    BY <2>2, <2>3
  <2> QED BY <2>4 DEF IsRows, n
<1>5. IsRows(c, Rows(c))
  <2>1. \E g : IsRows(c, g)
    BY <1>3, <1>4
  <2> QED BY <2>1 DEF Rows
<1> DEFINE g == Rows(c)
<1>6. g = [i \in 0..n |-> IF i = 0 THEN NoKeys ELSE GenerateKey(g[i - 1], KeyNames(c)[i])]
  BY <1>5 DEF IsRows, n
<1>7. FtokKeyInit(c) = g[n]
  BY DEF FtokKeyInit, Rows, IsRows, NoKeys, n
<1> HIDE DEF g
<1>8. g[0] = NoKeys /\ \A i \in 1..n : g[i] = GenerateKey(g[i - 1], KeyNames(c)[i])
  BY <1>0, <1>6
<1> DEFINE T == {i \in Int : g[i] \in V}
<1>9. 0..n \subseteq T
  <2>1. 0 \in T
    BY <1>0, <1>8
  <2>2. ASSUME NEW i \in 0 + 1..n, i - 1 \in T PROVE i \in T
    <3>1. i \in 1..n /\ i \in Int /\ g[i - 1] \in V
      BY <1>0, <2>2
    <3>2. KeyNames(c)[i] \in Names(c)
      BY <3>1, KeyNamesTyped DEF n
    <3>3. GenerateKey(g[i - 1], KeyNames(c)[i]) \in V
      BY <3>1, <3>2, GenerateKeeps DEF V
    <3> QED BY <1>8, <3>1, <3>3
  <2>3. 0 \in Int /\ n \in Int
    BY <1>0
  <2> HIDE DEF T
  <2> QED BY <2>1, <2>2, <2>3, Reaches
<1>10. \A i \in 0..n : g[i] \in V
  BY <1>9
<1> QED BY <1>7, <1>8, <1>10 DEF g, n, V

(* A row has one key more than the row before, or the paths are exhausted.   *)
LEMMA RowStep ==
  ASSUME NEW c \in AllConfigs, NEW i \in 1..Len(KeyNames(c))
  PROVE  LET g == Rows(c)[i - 1]
             h == Rows(c)[i]
         IN \/ h.exhausted /\ h.of = g.of
            \/ /\ ~g.exhausted /\ ~h.exhausted
               /\ DOMAIN h.of = DOMAIN g.of \cup {KeyNames(c)[i]}
               /\ \A m \in DOMAIN g.of : m # KeyNames(c)[i] => h.of[m] = g.of[m]
<1>1. i - 1 \in 0..Len(KeyNames(c)) /\ KeyNames(c)[i] \in Names(c)
  BY KeyNamesTyped
<1>2. Rows(c)[i - 1] \in Tables(c) /\ Rows(c)[i] = GenerateKey(Rows(c)[i - 1], KeyNames(c)[i])
  BY <1>1, RowsAre
<1> QED BY <1>1, <1>2, GenerateKeeps

(* Until the paths are exhausted every name so far has its key; a process    *)
(* that comes to the end has one for every name.                             *)
LEMMA RowsKnow ==
  ASSUME NEW c \in AllConfigs, NEW i \in 0..Len(KeyNames(c)), ~Rows(c)[i].exhausted
  PROVE  /\ DOMAIN Rows(c)[i].of = {MIN_COUNT} \cup {KeyNames(c)[j] : j \in 1..i}
         /\ \A j \in 0..i : ~Rows(c)[j].exhausted
<1> DEFINE n == Len(KeyNames(c))
           g == Rows(c)
           P(k) == /\ DOMAIN g[k].of = {MIN_COUNT} \cup {KeyNames(c)[j] : j \in 1..k}
                   /\ \A j \in 0..k : ~g[j].exhausted
           T == {k \in Int : g[k].exhausted \/ P(k)}
<1>0. n \in Nat
  BY KeyNamesTyped
<1>1. 0 \in T
  <2>1. DOMAIN g[0].of = {MIN_COUNT} /\ g[0] = NoKeys
    BY RowsAre, NoKeysIsTable
  <2>2. ~g[0].exhausted
    BY <2>1 DEF NoKeys
  <2>3. P(0)
    BY <2>1, <2>2
  <2> QED BY <2>3
<1>2. ASSUME NEW k \in 0 + 1..n, k - 1 \in T PROVE k \in T
  <2>1. k \in 1..n /\ k \in Int /\ k > 0
    BY <1>0
  <2>2. \/ g[k].exhausted /\ g[k].of = g[k - 1].of
        \/ /\ ~g[k - 1].exhausted /\ ~g[k].exhausted
           /\ DOMAIN g[k].of = DOMAIN g[k - 1].of \cup {KeyNames(c)[k]}
    BY <2>1, RowStep
  <2>3. CASE ~g[k].exhausted
    <3>1. P(k - 1) /\ DOMAIN g[k].of = DOMAIN g[k - 1].of \cup {KeyNames(c)[k]}
      BY <1>2, <2>2, <2>3
    <3>2. \A j \in 0..k : j = k \/ j \in 0..k - 1
      BY <2>1
    <3>3. {KeyNames(c)[j] : j \in 1..k} = {KeyNames(c)[j] : j \in 1..k - 1} \cup {KeyNames(c)[k]}
      <4>1. \A j \in 1..k : j = k \/ j \in 1..k - 1
        BY <2>1
      <4>2. k \in 1..k /\ \A j \in 1..k - 1 : j \in 1..k
        BY <2>1
      <4> QED BY <4>1, <4>2, Zenon
    <3>4. P(k)
      BY <2>3, <3>1, <3>2, <3>3, Zenon
    <3> QED BY <2>1, <3>4
  <2> QED BY <2>1, <2>3
<1>3. 0..n \subseteq T
  <2>1. 0 \in Int /\ n \in Int
    BY <1>0
  <2> HIDE DEF T, n
  <2> QED BY <1>1, <1>2, <2>1, Reaches
<1>4. i \in T
  BY <1>3
<1> QED BY <1>4

(* The names that come first have the keys every process gives them.         *)
LEMMA CommonRows ==
  ASSUME NEW c \in AllConfigs
  PROVE  /\ Len(CommonKeyNames) \in 0..Len(KeyNames(c))
         /\ \A i \in 1..Len(CommonKeyNames) : KeyNames(c)[i] = CommonKeyNames[i]
         /\ \A i \in Len(CommonKeyNames) + 1..Len(KeyNames(c)) : KeyNames(c)[i] \notin CommonNames
<1> DEFINE s == CommonKeyNames
           t == MSG_KEYS(c)
<1>1. KeyNames(c) = s \o t
  BY DEF KeyNames, CommonKeyNames
<1>2. s \in Seq(CommonNames) /\ t \in Seq(QueueNames(c))
  BY CommonAreNamed, QueuesAreNamed DEF Enumerates
<1>3. CommonNames \cap QueueNames(c) = {}
  BY DEF CommonNames, QueueNames, OneSem, OneRP, OneWP, OneShm, OneMsg, Queues
<1> HIDE DEF s, t
<1>4. Len(s) \in Nat /\ Len(t) \in Nat /\ Len(s \o t) = Len(s) + Len(t)
      /\ \A i \in 1..Len(t) : t[i] \in QueueNames(c)
  BY <1>2
<1>5. \A i \in 1..Len(s) + Len(t) : (s \o t)[i] = IF i <= Len(s) THEN s[i] ELSE t[i - Len(s)]
  BY <1>2
<1>6. ASSUME NEW i \in Len(s) + 1..Len(s) + Len(t) PROVE (s \o t)[i] \notin CommonNames
  <2>1. i - Len(s) \in 1..Len(t) /\ i \in 1..Len(s) + Len(t) /\ ~ (i <= Len(s))
    BY <1>4
  <2>2. (s \o t)[i] = t[i - Len(s)]
    BY <1>5, <2>1
  <2> QED BY <1>3, <1>4, <2>1, <2>2
<1>7. \A i \in 1..Len(s) : (s \o t)[i] = s[i]
  BY <1>4, <1>5
<1> QED BY <1>1, <1>4, <1>6, <1>7 DEF s

(* They are the same for every configuration.                                *)
LEMMA CommonRowsAgree ==
  ASSUME NEW c \in AllConfigs, NEW d \in AllConfigs
  PROVE  Rows(c)[Len(CommonKeyNames)] = Rows(d)[Len(CommonKeyNames)]
<1> DEFINE m == Len(CommonKeyNames)
           T == {i \in Int : Rows(c)[i] = Rows(d)[i]}
<1>0. m \in 0..Len(KeyNames(c)) /\ m \in 0..Len(KeyNames(d)) /\ Len(KeyNames(c)) \in Nat /\ Len(KeyNames(d)) \in Nat
  BY CommonRows, KeyNamesTyped
<1>1. 0 \in T
  BY RowsAre
<1>2. ASSUME NEW i \in 0 + 1..m, i - 1 \in T PROVE i \in T
  <2>1. i \in Int /\ i \in 1..m /\ i \in 1..Len(KeyNames(c)) /\ i \in 1..Len(KeyNames(d))
    BY <1>0
  <2>2. KeyNames(c)[i] = CommonKeyNames[i] /\ KeyNames(d)[i] = CommonKeyNames[i]
    BY <2>1, CommonRows
  <2>3. Rows(c)[i] = GenerateKey(Rows(c)[i - 1], KeyNames(c)[i]) /\ Rows(d)[i] = GenerateKey(Rows(d)[i - 1], KeyNames(d)[i])
    BY <2>1, RowsAre
  <2>4. Rows(c)[i - 1] = Rows(d)[i - 1]
    BY <1>2
  <2> QED BY <2>1, <2>2, <2>3, <2>4
<1>3. 0..m \subseteq T
  <2>1. 0 \in Int /\ m \in Int
    BY <1>0
  <2> HIDE DEF T, m
  <2> QED BY <1>1, <1>2, <2>1, Reaches
<1> QED BY <1>0, <1>3

(* A common name keeps the key it has.                                       *)
LEMMA CommonKeyStays ==
  ASSUME NEW c \in AllConfigs, NEW name \in CommonNames,
         name \in DOMAIN Rows(c)[Len(CommonKeyNames)].of
  PROVE  FtokKeyInit(c).of[name] = Rows(c)[Len(CommonKeyNames)].of[name]
<1> DEFINE m == Len(CommonKeyNames)
           n == Len(KeyNames(c))
           g == Rows(c)
           T == {i \in Int : name \in DOMAIN g[i].of /\ g[i].of[name] = g[m].of[name]}
<1>0. m \in 0..n /\ n \in Nat /\ m \in Int /\ n \in Int /\ m <= n
  BY CommonRows, KeyNamesTyped
<1>1. m \in T
  BY <1>0
<1>2. ASSUME NEW i \in m + 1..n, i - 1 \in T PROVE i \in T
  <2>1. i \in Int /\ i \in 1..n
    BY <1>0
  <2>2. KeyNames(c)[i] \notin CommonNames
    BY CommonRows
  <2>3. g[i].of = g[i - 1].of \/ /\ DOMAIN g[i].of = DOMAIN g[i - 1].of \cup {KeyNames(c)[i]}
                                 /\ \A x \in DOMAIN g[i - 1].of : x # KeyNames(c)[i] => g[i].of[x] = g[i - 1].of[x]
    BY <2>1, RowStep
  <2>4. name \in DOMAIN g[i - 1].of /\ g[i - 1].of[name] = g[m].of[name] /\ name # KeyNames(c)[i]
    BY <1>2, <2>2
  <2>5. name \in DOMAIN g[i].of /\ g[i].of[name] = g[m].of[name]
    BY <2>3, <2>4
  <2> QED BY <2>1, <2>5
<1>3. m..n \subseteq T
  <2> HIDE DEF T, n, m
  <2> QED BY <1>0, <1>1, <1>2, Reaches
<1>4. n \in T
  BY <1>0, <1>3
<1> QED BY <1>4, RowsAre

(* What the keys of a run are, when the paths are enough.                    *)
LEMMA KeysKnown ==
  ASSUME NEW c \in AllConfigs
  PROVE  /\ KeyTables[c] = FtokKeyInit(c) /\ KeyTables[c] \in Tables(c)
         /\ ~Exhausted(c) => DOMAIN KeyTables[c].of = Known(c)
<1> DEFINE n == Len(KeyNames(c))
<1>1. KeyTables[c] = FtokKeyInit(c)
  BY DEF KeyTables, AllConfigs
<1>2. n \in 0..n /\ FtokKeyInit(c) = Rows(c)[n] /\ Rows(c)[n] \in Tables(c)
  BY RowsAre, KeyNamesTyped
<1>3. ASSUME ~Exhausted(c) PROVE DOMAIN KeyTables[c].of = Known(c)
  <2>1. ~Rows(c)[n].exhausted
    BY <1>1, <1>2, <1>3 DEF Exhausted
  <2>2. DOMAIN Rows(c)[n].of = {MIN_COUNT} \cup {KeyNames(c)[j] : j \in 1..n}
    BY <1>2, <2>1, RowsKnow
  <2>3. {KeyNames(c)[j] : j \in 1..n} = Names(c)
    BY KeyNamesTyped
  <2> QED BY <1>1, <1>2, <2>2, <2>3 DEF Known
<1> QED BY <1>1, <1>2, <1>3

(* add_users finds the key of SEM_ADD_USERS without the configuration.       *)
LEMMA AddUsersAgree ==
  ASSUME NEW c \in AllConfigs, ~Exhausted(c)
  PROVE  ADD_USERS(NoConfig) = ADD_USERS(c)
<1> DEFINE m == Len(CommonKeyNames)
           A == <<"ADD_USERS", 0>>
<1>0. NoConfig \in AllConfigs /\ A \in CommonNames
  BY DEF AllConfigs, CommonNames, OneSem
<1>1. ~Rows(c)[m].exhausted
  <2> DEFINE n == Len(KeyNames(c))
  <2>1. n \in 0..n /\ m \in 0..n
    BY KeyNamesTyped, CommonRows
  <2>2. ~Rows(c)[n].exhausted
    BY RowsAre, KeysKnown DEF Exhausted
  <2> HIDE DEF m, n
  <2> QED BY <2>1, <2>2, RowsKnow DEF n
<1>2. A \in DOMAIN Rows(c)[m].of
  <2>1. DOMAIN Rows(c)[m].of = {MIN_COUNT} \cup {KeyNames(c)[j] : j \in 1..m}
    BY <1>1, CommonRows, RowsKnow
  <2>2. \E j \in 1..m : CommonKeyNames[j] = A
    BY <1>0, CommonAreNamed DEF Enumerates
  <2>3. \E j \in 1..m : KeyNames(c)[j] = A
    BY <2>2, CommonRows
  <2> QED BY <2>1, <2>3
<1>3. Rows(c)[m] = Rows(NoConfig)[m]
  BY <1>0, CommonRowsAgree
<1> HIDE DEF m, A
<1>4. FtokKeyInit(c).of[A] = FtokKeyInit(NoConfig).of[A]
  BY <1>0, <1>2, <1>3, CommonKeyStays DEF m
<1> QED BY <1>0, <1>4, KeysKnown DEF ADD_USERS, A

----------------------------------------------------------------------------
(* THE OBJECTS OF A CONFIGURATION                                            *)

(* What is created, entry by entry.                                          *)
LEMMA CreatedAre ==
  ASSUME NEW c \in AllConfigs
  PROVE  /\ Len(Created(c)) \in Nat
         /\ Range(Created(c)) = {Created(c)[i] : i \in 1..Len(Created(c))}
         /\ \A i \in 1..Len(Created(c)) : Created(c)[i] \in Entries(c)
         /\ \A i, j \in 1..Len(Created(c)) : Key(Created(c)[i]) = Key(Created(c)[j]) => i = j
         /\ \A k \in CreatedKeys(c) : \E i \in 1..Len(Created(c)) : Key(Created(c)[i]) = k
         /\ \A i \in 1..Len(Created(c)) : Key(Created(c)[i]) \in CreatedKeys(c)
<1> DEFINE s == Created(c)
           n == Len(s)
<1>1. s \in Seq(Entries(c)) /\ Enumerates(Keys(s), CreatedKeys(c))
  BY CreatedLists DEF Lists
<1> HIDE DEF s
<1>2. n \in Nat /\ Range(s) = {s[i] : i \in 1..n} /\ \A i \in 1..n : s[i] \in Entries(c)
  BY <1>1 DEF Range
<1>3. Len(Keys(s)) = n /\ \A i \in 1..n : Keys(s)[i] = Key(s[i])
  BY <1>1, <1>2 DEF Enumerates, Keys
<1>4. /\ Keys(s) \in Seq(CreatedKeys(c))
      /\ \A k \in CreatedKeys(c) : \E i \in 1..n : Keys(s)[i] = k
      /\ \A i, j \in 1..n : Keys(s)[i] = Keys(s)[j] => i = j
  BY <1>1, <1>3 DEF Enumerates
<1>5. \A i \in 1..n : Keys(s)[i] \in CreatedKeys(c)
  BY <1>3, <1>4
<1> HIDE DEF n
<1> QED BY <1>2, <1>3, <1>4, <1>5 DEF n, s

(* What is removed, entry by entry.                                          *)
LEMMA RemovalsAre ==
  ASSUME NEW c \in AllConfigs, NEW hasAdded \in BOOLEAN
  PROVE  /\ Len(RemovalsOf(c, hasAdded)) \in Nat
         /\ \A i \in 1..Len(RemovalsOf(c, hasAdded)) : RemovalsOf(c, hasAdded)[i] \in Removables(c)
         /\ \A i, j \in 1..Len(RemovalsOf(c, hasAdded)) :
              Key(RemovalsOf(c, hasAdded)[i]) = Key(RemovalsOf(c, hasAdded)[j]) => i = j
         /\ \A k \in CreatedKeys(c) : \E i \in 1..Len(RemovalsOf(c, hasAdded)) : Key(RemovalsOf(c, hasAdded)[i]) = k
         /\ c.workers > 0 => \A i \in 1..Len(RemovalsOf(c, hasAdded)) : Key(RemovalsOf(c, hasAdded)[i]) \in CreatedKeys(c)
<1> DEFINE s == RemovalsOf(c, hasAdded)
           n == Len(s)
<1>1. s \in Seq(Removables(c)) /\ Enumerates(Keys(s), RemovedKeys(c))
  BY RemovalsList DEF Lists
<1> HIDE DEF s
<1>2. n \in Nat /\ \A i \in 1..n : s[i] \in Removables(c)
  BY <1>1
<1>3. Len(Keys(s)) = n /\ \A i \in 1..n : Keys(s)[i] = Key(s[i])
  BY <1>1, <1>2 DEF Enumerates, Keys
<1>4. /\ Keys(s) \in Seq(RemovedKeys(c))
      /\ \A k \in RemovedKeys(c) : \E i \in 1..n : Keys(s)[i] = k
      /\ \A i, j \in 1..n : Keys(s)[i] = Keys(s)[j] => i = j
  BY <1>1, <1>3 DEF Enumerates
<1>5. \A i \in 1..n : Keys(s)[i] \in RemovedKeys(c)
  BY <1>3, <1>4
<1> HIDE DEF n
<1>6. CreatedKeys(c) \subseteq RemovedKeys(c) /\ (c.workers > 0 => CreatedKeys(c) = RemovedKeys(c))
  BY CreatedIsRemoved
<1> QED BY <1>2, <1>3, <1>4, <1>5, <1>6 DEF n, s

(* An object of a run has a handle.                                          *)
LEMMA HandleTyped ==
  ASSUME NEW c \in AllConfigs, ~Exhausted(c), NEW r, r.name \in Known(c), r.kind \in {"sem", "shm", "msg"}
  PROVE  Handle(c, r) \in {"sem", "shm", "msg"} \X Int
<1> DEFINE f == KeyTables[c].of
<1>1. KeyTables[c] \in Tables(c) /\ DOMAIN f = Known(c)
  BY KeysKnown
<1>2. f \in Given(c)
  BY <1>1 DEF Tables
<1>3. f[r.name] \in Int
  BY <1>1, <1>2, GivenIs
<1> HIDE DEF f
<1>4. Handle(c, r) = <<r.kind, f[r.name]>>
  BY DEF Handle, f
<1> QED BY <1>3, <1>4

(* Different objects have different handles.                                 *)
LEMMA HandlesDiffer ==
  ASSUME NEW c \in AllConfigs, ~Exhausted(c), NEW r, r.name \in Known(c), NEW q, q.name \in Known(c)
  PROVE  Handle(c, r) = Handle(c, q) <=> Key(r) = Key(q)
<1>1. KeyTables[c] \in Tables(c) /\ DOMAIN KeyTables[c].of = Known(c)
  BY KeysKnown
<1>2. \A n, m \in Known(c) : KeyTables[c].of[n] = KeyTables[c].of[m] => n = m
  BY <1>1 DEF Tables
<1>3. Handle(c, r) = <<r.kind, KeyTables[c].of[r.name]>> /\ Handle(c, q) = <<q.kind, KeyTables[c].of[q.name]>>
  BY DEF Handle
<1>4. Key(r) = <<r.kind, r.name>> /\ Key(q) = <<q.kind, q.name>>
  BY DEF Key
<1>5. KeyTables[c].of[r.name] = KeyTables[c].of[q.name] => r.name = q.name
  BY <1>2
<1> QED BY <1>3, <1>4, <1>5

(* The keys of the timers are numbers.                                       *)
LEMMA FtokNat ==
  ASSUME NEW id \in Nat
  PROVE  Ftok(RootStamp, id) \in Nat
<1>1. PICK y \in Nat : Ftok(RootStamp, id) = y * 256 + RootStamp
  BY FtokIs, StampsTyped
<1> QED BY <1>1, StampsTyped

(* The timers of the workers are objects of their own.                       *)
LEMMA TimersApart ==
  ASSUME NEW c \in AllConfigs, ~Exhausted(c), NEW r, r.name \in Known(c), NEW w \in Nat \ {0}
  PROVE  Handle(c, r) # Timer(w)
<1> DEFINE f == KeyTables[c].of
           t == Ftok(RootStamp, 333 + w - 1)
<1>1. KeyTables[c] \in Tables(c) /\ DOMAIN f = Known(c)
  BY KeysKnown
<1>2. /\ f[MIN_COUNT] = -1
      /\ \A n \in DOMAIN f \ {MIN_COUNT} : \E k \in 0..CANDIDATES - 1 : f[n] = Candidate(k)
  BY <1>1 DEF Tables
<1>3. 333 + w - 1 \in Nat
  OBVIOUS
<1>4. t \in Nat
  BY <1>3, FtokNat
<1>5. f[r.name] # t
  <2>1. CASE r.name = MIN_COUNT
    <3> HIDE DEF f, t
    <3> QED BY <1>2, <1>4, <2>1
  <2>2. CASE r.name # MIN_COUNT
    <3>1. PICK k \in 0..CANDIDATES - 1 : f[r.name] = Candidate(k)
      BY <1>1, <1>2, <2>2
    <3> QED BY <1>3, <3>1, TimerKeyDiffers
  <2> QED BY <2>1, <2>2
<1> QED BY <1>5 DEF Handle, Timer

(* A timer has a handle.                                                     *)
LEMMA TimerTyped ==
  ASSUME NEW w \in Nat \ {0}
  PROVE  Timer(w) \in {"sem", "shm", "msg"} \X Int
<1>1. 333 + w - 1 \in Nat
  OBVIOUS
<1>2. Ftok(RootStamp, 333 + w - 1) \in Int
  BY <1>1, FtokNat
<1> QED BY <1>2 DEF Timer

(* What a configuration creates has a handle of its own for each.            *)
LEMMA CreatedHandles ==
  ASSUME NEW c \in AllConfigs, ~Exhausted(c)
  PROVE  /\ Handles(c) = {Handle(c, Created(c)[i]) : i \in 1..Len(Created(c))}
         /\ \A i, j \in 1..Len(Created(c)) : Handle(c, Created(c)[i]) = Handle(c, Created(c)[j]) => i = j
         /\ \A i \in 1..Len(Created(c)) : Handle(c, Created(c)[i]) \in {"sem", "shm", "msg"} \X Int
<1>1. \A i \in 1..Len(Created(c)) : Created(c)[i].name \in Known(c) /\ Created(c)[i].kind \in {"sem", "shm", "msg"}
  BY CreatedAre DEF Entries, Known
<1>2. \A i, j \in 1..Len(Created(c)) : Handle(c, Created(c)[i]) = Handle(c, Created(c)[j]) => i = j
  BY <1>1, HandlesDiffer, CreatedAre
<1>3. \A i \in 1..Len(Created(c)) : Handle(c, Created(c)[i]) \in {"sem", "shm", "msg"} \X Int
  BY <1>1, HandleTyped
<1>4. Handles(c) = {Handle(c, Created(c)[i]) : i \in 1..Len(Created(c))}
  <2>1. Handles(c) = {Handle(c, o) : o \in Range(Created(c))}
    BY DEF Handles
  <2>2. Range(Created(c)) = {Created(c)[i] : i \in 1..Len(Created(c))}
    BY CreatedAre
  <2> QED BY <2>1, <2>2
<1> QED BY <1>2, <1>3, <1>4

(* A run has as many handles as it creates objects.                          *)
LEMMA HandlesCounted ==
  ASSUME NEW c \in AllConfigs, ~Exhausted(c)
  PROVE  Cardinality(Handles(c)) = Len(Created(c))
<1> DEFINE n == Len(Created(c))
           h(i) == Handle(c, Created(c)[i])
           f == [i \in 1..n |-> h(i)]
<1>1. Handles(c) = {h(i) : i \in 1..n} /\ (\A i, j \in 1..n : h(i) = h(j) => i = j) /\ n \in Nat
  BY CreatedHandles, CreatedAre
<1> HIDE DEF n, h
<1>2. f \in Bijection(1..n, Handles(c))
  <2>1. f \in [1..n -> Handles(c)]
    BY <1>1
  <2>2. \A i, j \in 1..n : f[i] = f[j] => i = j
    BY <1>1
  <2>3. \A x \in Handles(c) : \E i \in 1..n : f[i] = x
    BY <1>1
  <2> HIDE DEF f
  <2> QED BY <2>1, <2>2, <2>3 DEF Bijection, Injection, Surjection, IsInjective
<1>3. IsFiniteSet(1..n) /\ Cardinality(1..n) = n
  BY <1>1, FS_Interval
<1>4. Cardinality(Handles(c)) = Cardinality(1..n)
  <2>1. ExistsBijection(1..n, Handles(c))
    BY <1>2 DEF ExistsBijection
  <2> QED BY <1>3, <2>1, FS_Bijection
<1> QED BY <1>3, <1>4 DEF n

----------------------------------------------------------------------------
(* SHARING OUT                                                               *)

(* Borders that start at 0 and never go down part what is below the last of  *)
(* them: every number is between two of them, and between no other two.      *)
Borders(B, n) ==
  /\ \A i \in 1..n + 1 : B[i] \in Nat
  /\ B[1] = 0 /\ \A i \in 1..n : B[i] <= B[i + 1]

(* Borders between consecutive shares only grow.                             *)
LEMMA BordersGrow ==
  ASSUME NEW n \in Nat, NEW B, Borders(B, n), NEW i \in 1..n + 1, NEW j \in 1..n + 1, i <= j
  PROVE  B[i] <= B[j]
<1> DEFINE T == {k \in Int : B[i] <= B[k]}
<1>0. \A k \in 1..n + 1 : B[k] \in Nat
  BY DEF Borders
<1>1. i \in T
  BY <1>0
<1>2. ASSUME NEW k \in i + 1..n + 1, k - 1 \in T PROVE k \in T
  <2>1. k - 1 \in 1..n /\ k \in Int /\ (k - 1) + 1 = k /\ k \in 1..n + 1 /\ k - 1 \in 1..n + 1
    OBVIOUS
  <2>2. B[k - 1] <= B[k] /\ B[k - 1] \in Nat /\ B[k] \in Nat /\ B[i] \in Nat /\ B[i] <= B[k - 1]
    <3>1. B[k - 1] <= B[(k - 1) + 1]
      BY <2>1 DEF Borders
    <3> QED BY <1>0, <1>2, <2>1, <3>1
  <2> QED BY <2>1, <2>2
<1>3. i..n + 1 \subseteq T
  <2>1. i \in Int /\ n + 1 \in Int
    OBVIOUS
  <2> HIDE DEF T
  <2> DEFINE m == n + 1
  <2>2. \A k \in i + 1..m : k - 1 \in T => k \in T
    BY <1>2
  <2> HIDE DEF m
  <2>3. i..m \subseteq T
    BY <1>1, <2>1, <2>2, Reaches DEF m
  <2> QED BY <2>3 DEF m
<1> QED BY <1>3

(* They part the numbers up to the last: each is in one share, and one only. *)
LEMMA BordersPart ==
  ASSUME NEW n \in Nat, NEW B, Borders(B, n)
  PROVE  /\ \A x \in 1..B[n + 1] : \E s \in 1..n : x \in B[s] + 1..B[s + 1]
         /\ \A s, t \in 1..n : \A x \in Int : x \in B[s] + 1..B[s + 1] /\ x \in B[t] + 1..B[t + 1] => s = t
         /\ \A s \in 1..n : B[s + 1] <= B[n + 1]
<1>0. \A k \in 1..n + 1 : B[k] \in Nat
  BY DEF Borders
<1>1. ASSUME NEW x \in 1..B[n + 1] PROVE \E s \in 1..n : x \in B[s] + 1..B[s + 1]
  <2> DEFINE T == {k \in Int : x <= B[k] => \E s \in 1..n : x \in B[s] + 1..B[s + 1]}
  <2>0. x \in Nat /\ x > 0
    BY <1>0
  <2>1. 1 \in T
    BY <2>0 DEF Borders
  <2>2. ASSUME NEW k \in 1 + 1..n + 1, k - 1 \in T PROVE k \in T
    <3>1. k - 1 \in 1..n /\ k \in Int /\ (k - 1) + 1 = k /\ k \in 1..n + 1 /\ k - 1 \in 1..n + 1
      OBVIOUS
    <3>2. B[k] \in Nat /\ B[k - 1] \in Nat
      BY <1>0, <3>1
    <3>3. CASE x <= B[k - 1]
      BY <2>2, <3>1, <3>3
    <3>4. CASE ~ (x <= B[k - 1])
      <4>1. x <= B[k] => x \in B[k - 1] + 1..B[(k - 1) + 1]
        BY <2>0, <3>1, <3>2, <3>4
      <4> QED BY <3>1, <4>1
    <3> QED BY <3>3, <3>4
  <2>3. 1..n + 1 \subseteq T
    <3> HIDE DEF T
    <3> DEFINE m == n + 1
    <3>1. \A k \in 1 + 1..m : k - 1 \in T => k \in T
      BY <2>2
    <3>2. 1 \in Int /\ m \in Int
      OBVIOUS
    <3> HIDE DEF m
    <3>3. 1..m \subseteq T
      BY <2>1, <3>1, <3>2, Reaches
    <3> QED BY <3>3 DEF m
  <2>4. n + 1 \in T
    <3>1. n + 1 \in 1..n + 1
      OBVIOUS
    <3> HIDE DEF T
    <3> QED BY <2>3, <3>1
  <2>5. x <= B[n + 1]
    BY <1>0
  <2> QED BY <2>4, <2>5
<1>2. ASSUME NEW s \in 1..n, NEW t \in 1..n, NEW x \in Int, s < t,
             x \in B[s] + 1..B[s + 1], x \in B[t] + 1..B[t + 1]
      PROVE  FALSE
  <2>1. s + 1 \in 1..n + 1 /\ t \in 1..n + 1 /\ s + 1 <= t /\ s \in 1..n + 1 /\ t + 1 \in 1..n + 1
    BY <1>2
  <2>2. B[s + 1] <= B[t]
    BY <2>1, BordersGrow
  <2>3. B[s] \in Nat /\ B[s + 1] \in Nat /\ B[t] \in Nat /\ B[t + 1] \in Nat
    BY <1>0, <2>1
  <2> QED BY <1>2, <2>2, <2>3
<1>3. ASSUME NEW s \in 1..n, NEW t \in 1..n, NEW x \in Int,
             x \in B[s] + 1..B[s + 1], x \in B[t] + 1..B[t + 1]
      PROVE  s = t
  <2>1. ~ (s < t) /\ ~ (t < s)
    BY <1>2, <1>3
  <2> QED BY <2>1
<1>4. ASSUME NEW s \in 1..n PROVE B[s + 1] <= B[n + 1]
  <2>1. s + 1 \in 1..n + 1 /\ n + 1 \in 1..n + 1 /\ s + 1 <= n + 1
    OBVIOUS
  <2> QED BY <2>1, BordersGrow
<1> QED BY <1>1, <1>3, <1>4

(* What utils_assign_count_array gives: least or one more, and together the  *)
(* count.  What the services before the i-th have together is i - 1 times    *)
(* the least and the ones more.                                              *)
Least(size, count) == count \div size
More(size, count) == count - Least(size, count) * size
UpTo(size, count, j) == j * Least(size, count) + (IF j <= More(size, count) THEN j ELSE More(size, count))

(* Quotient and remainder of the division.                                   *)
LEMMA DivisionIs ==
  ASSUME NEW size \in Nat, size > 0, NEW count \in Nat
  PROVE  /\ Least(size, count) \in Nat /\ More(size, count) \in Nat /\ More(size, count) < size
         /\ size * Least(size, count) + More(size, count) = count
BY DEF Least, More

(* utils_assign_count_array gives each the quotient, the first ones one more, and the shares add up. *)
LEMMA AssignIs ==
  ASSUME NEW size \in Nat, size > 0, NEW count \in Nat
  PROVE  /\ AssignCount(size, count) = [i \in 1..size |-> IF i <= More(size, count) THEN Least(size, count) + 1 ELSE Least(size, count)]
         /\ \A i \in 1..size : AssignCount(size, count)[i] \in Nat
         /\ \A i \in 1..size : UpTo(size, count, i) = UpTo(size, count, i - 1) + AssignCount(size, count)[i]
         /\ \A i \in 0..size : UpTo(size, count, i) \in Nat
         /\ UpTo(size, count, 0) = 0 /\ UpTo(size, count, size) = count
<1> DEFINE q == Least(size, count)
           r == More(size, count)
           a == AssignCount(size, count)
<1>0. q \in Nat /\ r \in Nat /\ r < size /\ size * q + r = count
  BY DivisionIs
<1>1. a = [i \in 1..size |-> IF i <= r THEN q + 1 ELSE q]
  BY DEF AssignCount, More, Least
<1> HIDE DEF a, q, r
<1>2. \A i \in 1..size : a[i] = IF i <= r THEN q + 1 ELSE q
  BY <1>1
<1>3. \A i \in 1..size : a[i] \in Nat
  BY <1>0, <1>2
<1>4. \A i \in 1..size : i * q = (i - 1) * q + q
  BY <1>0
<1>5. ASSUME NEW i \in 1..size PROVE i * q + (IF i <= r THEN i ELSE r) = (i - 1) * q + (IF i - 1 <= r THEN i - 1 ELSE r) + a[i]
  <2> DEFINE x == i * q
             y == (i - 1) * q
  <2>1. x \in Nat /\ y \in Nat /\ x = y + q
    BY <1>0, <1>4
  <2> HIDE DEF x, y
  <2>2. x + (IF i <= r THEN i ELSE r) = y + (IF i - 1 <= r THEN i - 1 ELSE r) + a[i]
    BY <1>0, <1>2, <2>1
  <2> QED BY <2>2 DEF x, y
<1>6. \A i \in 0..size : i * q \in Nat
  BY <1>0
<1>7. \A i \in 0..size : i * q + (IF i <= r THEN i ELSE r) \in Nat
  BY <1>0, <1>6
<1>8. 0 * q + (IF 0 <= r THEN 0 ELSE r) = 0 /\ size * q + (IF size <= r THEN size ELSE r) = count
  BY <1>0
<1>9. \A i : UpTo(size, count, i) = i * q + (IF i <= r THEN i ELSE r)
  BY DEF UpTo, q, r
<1> HIDE DEF UpTo
<1>10. \A i \in 1..size : UpTo(size, count, i) = UpTo(size, count, i - 1) + a[i]
  BY <1>5, <1>9
<1>11. \A i \in 0..size : UpTo(size, count, i) \in Nat
  BY <1>7, <1>9
<1>12. UpTo(size, count, 0) = 0 /\ UpTo(size, count, size) = count
  BY <1>8, <1>9
<1> QED BY <1>1, <1>3, <1>10, <1>11, <1>12 DEF a, q, r

(* The sums of the code's loop.                                              *)
LEMMA BeforeIs ==
  ASSUME NEW size \in Nat, size > 0, NEW count \in Nat, NEW i \in 1..size + 1
  PROVE  Before(AssignCount(size, count), i) = UpTo(size, count, i - 1)
<1> DEFINE a == AssignCount(size, count)
           n == i - 1
           IsSum(sum) == sum = [j \in 0..n |-> IF j = 0 THEN 0 ELSE sum[j - 1] + a[j]]
           G == [x \in Int \X Nat |-> IF x[1] \in 1..size THEN x[2] + a[x[1]] ELSE x[2]]
           sum == CHOOSE f : IsSum(f)
<1>0. n \in 0..size /\ \A j \in 1..size : a[j] \in Nat
  BY AssignIs
<1>1. Before(a, i) = sum[n]
  BY DEF Before
<1>u. /\ \A j \in 1..size : UpTo(size, count, j) = UpTo(size, count, j - 1) + a[j]
      /\ \A j \in 0..size : UpTo(size, count, j) \in Nat
      /\ UpTo(size, count, 0) = 0
  BY AssignIs
<1> HIDE DEF n, a
<1>2. G \in [Int \X Nat -> Nat]
  <2>1. ASSUME NEW x \in Int \X Nat PROVE (IF x[1] \in 1..size THEN x[2] + a[x[1]] ELSE x[2]) \in Nat
    BY <1>0
  <2> QED BY <2>1
<1>3. \A j \in 1..n, y \in Nat : G[<<j, y>>] = y + a[j]
  <2> TAKE j \in 1..n, y \in Nat
  <2>1. <<j, y>> \in Int \X Nat /\ j \in 1..size
    BY <1>0
  <2> QED BY <2>1
<1> HIDE DEF G
<1>4. /\ \E f : Unfolds(f, 0, n, 0, G)
      /\ \A f : Unfolds(f, 0, n, 0, G) => f \in [0..n -> Nat]
  <2>1. 0 \in Int /\ n \in Int /\ 0 <= n /\ 0 \in Nat
    BY <1>0
  <2> QED BY <1>2, <2>1, RecursionExists
<1>5. ASSUME NEW f, Unfolds(f, 0, n, 0, G) PROVE IsSum(f)
  <2>1. f \in [0..n -> Nat]
    BY <1>4, <1>5
  <2>2. f = [j \in 0..n |-> IF j = 0 THEN 0 ELSE G[<<j, f[j - 1]>>]]
    BY <1>5 DEF Unfolds
  <2>3. ASSUME NEW j \in 0..n PROVE (IF j = 0 THEN 0 ELSE G[<<j, f[j - 1]>>]) = (IF j = 0 THEN 0 ELSE f[j - 1] + a[j])
    <3>1. CASE j = 0
      BY <3>1
    <3>2. CASE j # 0
      <4>1. j \in 1..n /\ f[j - 1] \in Nat
        BY <1>0, <2>1, <3>2
      <4> QED BY <1>3, <3>2, <4>1
    <3> QED BY <3>1, <3>2
  <2>4. f = [j \in 0..n |-> IF j = 0 THEN 0 ELSE f[j - 1] + a[j]]
    BY <2>2, <2>3
  <2> QED BY <2>4
<1>6. IsSum(sum)
  <2>1. \E f : IsSum(f)
    BY <1>4, <1>5
  <2> HIDE DEF IsSum
  <2> QED BY <2>1
<1> HIDE DEF sum
<1>7. sum[0] = 0 /\ \A j \in 1..n : sum[j] = sum[j - 1] + a[j]
  BY <1>0, <1>6
<1> DEFINE T == {j \in Int : sum[j] = UpTo(size, count, j)}
<1>8. 0 \in T
  BY <1>7, <1>u
<1>9. ASSUME NEW j \in 0 + 1..n, j - 1 \in T PROVE j \in T
  <2>1. j \in 1..n /\ j \in 1..size /\ j \in Int
    BY <1>0
  <2>2. sum[j] = sum[j - 1] + a[j] /\ sum[j - 1] = UpTo(size, count, j - 1)
    BY <1>7, <1>9, <2>1
  <2>3. UpTo(size, count, j) = UpTo(size, count, j - 1) + a[j]
    BY <1>u, <2>1
  <2> QED BY <2>1, <2>2, <2>3
<1>10. 0..n \subseteq T
  <2>1. 0 \in Int /\ n \in Int
    BY <1>0
  <2> HIDE DEF T
  <2> QED BY <1>8, <1>9, <2>1, Reaches
<1>11. n \in T
  BY <1>0, <1>10
<1>12. sum[n] = UpTo(size, count, n)
  BY <1>11
<1> QED BY <1>1, <1>12 DEF a, n

(* The borders between the services, when count things are shared out.       *)
BordersOf(size, count) == [i \in 1..size + 1 |-> Before(AssignCount(size, count), i)]

(* The sums of the shares are borders, from nothing to all there is.         *)
LEMMA SharedOut ==
  ASSUME NEW size \in Nat, size > 0, NEW count \in Nat
  PROVE  /\ Borders(BordersOf(size, count), size)
         /\ BordersOf(size, count)[1] = 0 /\ BordersOf(size, count)[size + 1] = count
         /\ \A i \in 1..size + 1 : BordersOf(size, count)[i] = Before(AssignCount(size, count), i)
         /\ \A i \in 1..size : BordersOf(size, count)[i + 1] = BordersOf(size, count)[i] + AssignCount(size, count)[i]
<1> DEFINE a == AssignCount(size, count)
           B == BordersOf(size, count)
<1>1. \A i \in 1..size + 1 : B[i] = Before(a, i) /\ B[i] = UpTo(size, count, i - 1)
  BY BeforeIs DEF BordersOf
<1>2. /\ \A i \in 1..size : a[i] \in Nat /\ UpTo(size, count, i) = UpTo(size, count, i - 1) + a[i]
      /\ \A i \in 0..size : UpTo(size, count, i) \in Nat
      /\ UpTo(size, count, 0) = 0 /\ UpTo(size, count, size) = count
  BY AssignIs
<1> HIDE DEF a, B
<1>3. \A i \in 1..size + 1 : B[i] \in Nat
  <2> TAKE i \in 1..size + 1
  <2>1. i - 1 \in 0..size
    OBVIOUS
  <2> QED BY <1>1, <1>2, <2>1
<1>4. B[1] = 0
  <2>1. 1 \in 1..size + 1 /\ 1 - 1 = 0
    OBVIOUS
  <2>2. B[1] = UpTo(size, count, 1 - 1)
    BY <1>1, <2>1
  <2> QED BY <1>2, <2>1, <2>2
<1>5. B[size + 1] = count
  <2>1. size + 1 \in 1..size + 1 /\ (size + 1) - 1 = size
    OBVIOUS
  <2>2. B[size + 1] = UpTo(size, count, (size + 1) - 1)
    BY <1>1, <2>1
  <2> QED BY <1>2, <2>1, <2>2
<1>6. ASSUME NEW i \in 1..size PROVE B[i + 1] = B[i] + a[i]
  <2>1. i \in 1..size + 1 /\ i + 1 \in 1..size + 1 /\ (i + 1) - 1 = i
    OBVIOUS
  <2>2. B[i + 1] = UpTo(size, count, (i + 1) - 1) /\ B[i] = UpTo(size, count, i - 1)
    BY <1>1, <2>1
  <2> QED BY <1>2, <2>1, <2>2
<1>7. \A i \in 1..size : B[i] <= B[i + 1]
  <2> TAKE i \in 1..size
  <2>1. B[i] \in Nat /\ a[i] \in Nat
    BY <1>2, <1>3
  <2> QED BY <1>6, <2>1
<1>8. Borders(B, size)
  BY <1>3, <1>4, <1>7 DEF Borders
<1> QED BY <1>1, <1>4, <1>5, <1>6, <1>8 DEF a, B

(* The arguments of the workers: each of its service, with the workers of    *)
(* that service.                                                             *)
LEMMA WorkersShared ==
  ASSUME NEW count \in Nat
  PROVE  LET wargs == WorkerArgs(AssignCount(SERV_NUM, count)) IN
         /\ DOMAIN wargs = 1..count
         /\ \A w \in 1..count : wargs[w].bounds = {v \in 1..count : wargs[v].service = wargs[w].service}
<1> DEFINE a == AssignCount(SERV_NUM, count)
           B == BordersOf(SERV_NUM, count)
           serv(w) == CHOOSE t \in 1..SERV_NUM : w \in Before(a, t) + 1..Before(a, t + 1)
           wargs == WorkerArgs(a)
<1>0. SERV_NUM \in Nat /\ SERV_NUM > 0
  BY SetupAssumption
<1>1. /\ Borders(B, SERV_NUM) /\ B[SERV_NUM + 1] = count
      /\ \A i \in 1..SERV_NUM + 1 : B[i] = Before(a, i)
  BY <1>0, SharedOut
<1>2. Before(a, SERV_NUM + 1) = count
  BY <1>0, <1>1
<1>3. wargs = [w \in 1..Before(a, SERV_NUM + 1) |-> [service |-> serv(w), bounds |-> Before(a, serv(w)) + 1..Before(a, serv(w) + 1)]]
  BY DEF WorkerArgs
<1> HIDE DEF a, B, wargs
<1>4. \A t \in 1..SERV_NUM : B[t] = Before(a, t) /\ B[t + 1] = Before(a, t + 1) /\ B[t] \in Nat /\ B[t + 1] \in Nat
  <2> TAKE t \in 1..SERV_NUM
  <2>1. t \in 1..SERV_NUM + 1 /\ t + 1 \in 1..SERV_NUM + 1
    BY <1>0
  <2> QED BY <1>1, <2>1 DEF Borders
<1>5. ASSUME NEW w \in 1..count PROVE serv(w) \in 1..SERV_NUM /\ w \in B[serv(w)] + 1..B[serv(w) + 1]
  <2>1. \E t \in 1..SERV_NUM : w \in B[t] + 1..B[t + 1]
    BY <1>0, <1>1, BordersPart
  <2>2. \E t \in 1..SERV_NUM : w \in Before(a, t) + 1..Before(a, t + 1)
    BY <1>4, <2>1
  <2>3. serv(w) \in 1..SERV_NUM /\ w \in Before(a, serv(w)) + 1..Before(a, serv(w) + 1)
    BY <2>2
  <2> HIDE DEF serv
  <2> QED BY <1>4, <2>3
<1> HIDE DEF serv
<1>6. \A w \in 1..count : wargs[w].service = serv(w) /\ wargs[w].bounds = B[serv(w)] + 1..B[serv(w) + 1]
  <2> TAKE w \in 1..count
  <2>1. wargs[w] = [service |-> serv(w), bounds |-> Before(a, serv(w)) + 1..Before(a, serv(w) + 1)]
    BY <1>2, <1>3
  <2> QED BY <1>4, <1>5, <2>1
<1>7. DOMAIN wargs = 1..count
  BY <1>2, <1>3
<1>8. ASSUME NEW w \in 1..count
      PROVE  wargs[w].bounds = {v \in 1..count : wargs[v].service = wargs[w].service}
  <2> DEFINE s == serv(w)
  <2>1. s \in 1..SERV_NUM /\ wargs[w].bounds = B[s] + 1..B[s + 1] /\ wargs[w].service = s
    BY <1>5, <1>6
  <2> HIDE DEF s
  <2>2. B[s] \in Nat /\ B[s + 1] \in Nat /\ B[s + 1] <= count
    BY <1>0, <1>1, <1>4, <2>1, BordersPart
  <2>3. ASSUME NEW v \in B[s] + 1..B[s + 1] PROVE v \in 1..count /\ wargs[v].service = s
    <3>1. v \in 1..count /\ v \in Int
      BY <2>2
    <3>2. serv(v) \in 1..SERV_NUM /\ v \in B[serv(v)] + 1..B[serv(v) + 1]
      BY <1>5, <3>1
    <3>3. serv(v) = s
      BY <1>0, <1>1, <2>1, <3>1, <3>2, BordersPart
    <3> QED BY <1>6, <3>1, <3>3
  <2>4. ASSUME NEW v \in 1..count, wargs[v].service = s PROVE v \in B[s] + 1..B[s + 1]
    <3>1. serv(v) = s /\ v \in B[serv(v)] + 1..B[serv(v) + 1]
      BY <1>5, <1>6, <2>4
    <3> QED BY <3>1
  <2> QED BY <2>1, <2>3, <2>4
<1> QED BY <1>7, <1>8 DEF wargs, a

(* What the manager has shared out when it forks its children.               *)
Shared ==
  /\ seatUnits = AssignCount(SERV_NUM, config.seats)
  /\ seatIndex = [i \in 1..SERV_NUM - 1 |-> Before(seatUnits, i + 1)]
  /\ args = IF config.workers < 1 THEN <<>> ELSE WorkerArgs(AssignCount(SERV_NUM, config.workers))

(* The arguments of the workers of a run.                                    *)
LEMMA SharedWorkers ==
  ASSUME config \in AllConfigs, Shared
  PROVE  /\ DOMAIN args = 1..config.workers
         /\ \A w \in DOMAIN args : args[w].bounds = {v \in DOMAIN args : args[v].service = args[w].service}
<1>1. config.workers \in Nat
  BY ConfigTyped
<1>2. CASE config.workers < 1
  BY <1>1, <1>2 DEF Shared
<1>3. CASE ~ (config.workers < 1)
  BY <1>1, <1>3, WorkersShared DEF Shared
<1> QED BY <1>2, <1>3

(* The part of the table of the seats that belongs to a service.             *)
LEMMA SharedBounds ==
  ASSUME config \in AllConfigs, Shared, NEW s \in 1..SERV_NUM
  PROVE  LET B == BordersOf(SERV_NUM, config.seats) IN
         /\ BoundsServ(s) = B[s]..B[s + 1] - 1
         /\ B[s] \in Nat /\ B[s + 1] \in Nat /\ B[s + 1] = B[s] + seatUnits[s] /\ seatUnits[s] \in Nat
<1> DEFINE B == BordersOf(SERV_NUM, config.seats)
           a == AssignCount(SERV_NUM, config.seats)
<1>0. SERV_NUM \in Nat /\ SERV_NUM > 0 /\ config.seats \in Nat
  BY SetupAssumption, ConfigTyped
<1>1. /\ Borders(B, SERV_NUM) /\ B[SERV_NUM + 1] = config.seats /\ B[1] = 0
      /\ \A i \in 1..SERV_NUM + 1 : B[i] = Before(a, i)
      /\ \A i \in 1..SERV_NUM : B[i + 1] = B[i] + a[i]
  BY <1>0, SharedOut
<1>2. a[s] \in Nat
  BY <1>0, AssignIs
<1>3. seatUnits = a /\ seatIndex = [i \in 1..SERV_NUM - 1 |-> Before(seatUnits, i + 1)]
  BY DEF Shared
<1> HIDE DEF a, B
<1>4. s # 1 => seatIndex[s - 1] = B[s]
  <2> HAVE s # 1
  <2>1. s - 1 \in 1..SERV_NUM - 1 /\ (s - 1) + 1 = s /\ s \in 1..SERV_NUM + 1
    BY <1>0
  <2>2. seatIndex[s - 1] = Before(a, (s - 1) + 1)
    BY <1>3, <2>1
  <2> QED BY <1>1, <2>1, <2>2
<1>5. s # SERV_NUM => seatIndex[s] = B[s + 1]
  <2> HAVE s # SERV_NUM
  <2>1. s \in 1..SERV_NUM - 1 /\ s + 1 \in 1..SERV_NUM + 1
    BY <1>0
  <2>2. seatIndex[s] = Before(a, s + 1)
    BY <1>3, <2>1
  <2> QED BY <1>1, <2>1, <2>2
<1>6. BoundsServ(s) = B[s]..B[s + 1] - 1
  BY <1>1, <1>4, <1>5 DEF BoundsServ
<1>7. B[s] \in Nat /\ B[s + 1] \in Nat
  <2>1. s \in 1..SERV_NUM + 1 /\ s + 1 \in 1..SERV_NUM + 1
    BY <1>0
  <2> QED BY <1>1, <2>1 DEF Borders
<1> QED BY <1>1, <1>2, <1>3, <1>6, <1>7 DEF B

(* Seats and workers as the code shares them out are Staffed.                *)
LEMMA SharedIsStaffed ==
  ASSUME config \in AllConfigs, Shared
  PROVE  Staffed
<1> DEFINE B == BordersOf(SERV_NUM, config.seats)
           n == SERV_NUM
           seats == config.seats
<1>0. n \in Nat /\ n > 0 /\ seats \in Nat
  BY SetupAssumption, ConfigTyped
<1>1. Borders(B, n) /\ B[n + 1] = seats
  BY <1>0, SharedOut
<1>2. \A s \in 1..n : /\ BoundsServ(s) = B[s]..B[s + 1] - 1
                      /\ B[s] \in Nat /\ B[s + 1] \in Nat /\ B[s + 1] = B[s] + seatUnits[s] /\ seatUnits[s] \in Nat
  BY SharedBounds
<1> HIDE DEF B
<1>3. ASSUME NEW s \in 1..n PROVE Cardinality(BoundsServ(s)) = seatUnits[s]
  <2> DEFINE x == B[s]
             y == B[s + 1] - 1
  <2>1. x \in Int /\ y \in Int /\ BoundsServ(s) = x..y /\ y - x + 1 = seatUnits[s] /\ (x > y => seatUnits[s] = 0)
    BY <1>2
  <2> HIDE DEF x, y
  <2> QED BY <2>1, FS_Interval
<1>4. ASSUME NEW s \in 1..n, NEW t \in 1..n, NEW x \in BoundsServ(s) \cap BoundsServ(t) PROVE s = t
  <2>0. x \in B[s]..B[s + 1] - 1 /\ x \in B[t]..B[t + 1] - 1
    BY <1>2
  <2>1. x \in Int /\ x + 1 \in Int /\ x + 1 \in B[s] + 1..B[s + 1] /\ x + 1 \in B[t] + 1..B[t + 1]
    <3>1. \A b, d \in Nat : x \in b..d - 1 => x \in Int /\ x + 1 \in Int /\ x + 1 \in b + 1..d
      OBVIOUS
    <3> QED BY <1>2, <2>0, <3>1
  <2> DEFINE y == x + 1
  <2> HIDE DEF y
  <2>2. y \in Int /\ y \in B[s] + 1..B[s + 1] /\ y \in B[t] + 1..B[t + 1]
    BY <2>1 DEF y
  <2> QED BY <1>0, <1>1, <2>2, BordersPart
<1>5. UNION {BoundsServ(s) : s \in 1..n} = 0..seats - 1
  <2>1. ASSUME NEW s \in 1..n, NEW x \in BoundsServ(s) PROVE x \in 0..seats - 1
    <3>1. B[s + 1] <= B[n + 1]
      BY <1>0, <1>1, BordersPart
    <3> QED BY <1>0, <1>1, <1>2, <3>1
  <2>2. ASSUME NEW x \in 0..seats - 1 PROVE \E s \in 1..n : x \in BoundsServ(s)
    <3> DEFINE y == x + 1
    <3>1. y \in 1..B[n + 1]
      BY <1>0, <1>1
    <3> HIDE DEF y
    <3>2. PICK s \in 1..n : y \in B[s] + 1..B[s + 1]
      BY <1>0, <1>1, <3>1, BordersPart
    <3>3. x \in B[s]..B[s + 1] - 1
      BY <1>0, <1>2, <3>2 DEF y
    <3> QED BY <1>2, <3>3
  <2> QED BY <2>1, <2>2
<1>6. ASSUME NEW s \in 1..n, NEW t \in 1..n PROVE seatUnits[s] <= seatUnits[t] + 1
  <2>1. seatUnits = [i \in 1..n |-> IF i <= More(n, seats) THEN Least(n, seats) + 1 ELSE Least(n, seats)]
    BY <1>0, AssignIs DEF Shared
  <2>2. Least(n, seats) \in Nat
    BY <1>0, DivisionIs
  <2> QED BY <2>1, <2>2
<1> HIDE DEF n, seats
<1>7. \A s, t \in 1..n : /\ s # t => BoundsServ(s) \cap BoundsServ(t) = {}
                         /\ seatUnits[s] <= seatUnits[t] + 1
  BY <1>4, <1>6
<1> QED BY <1>3, <1>5, <1>7, SharedWorkers DEF Staffed, n, seats

----------------------------------------------------------------------------
(* THE INVARIANT                                                             *)

Typed ==
  /\ DOMAIN objects \subseteq {"sem", "shm", "msg"} \X Int
  /\ \A h \in DOMAIN objects : objects[h] \in [n : Nat, own : BOOLEAN]
  /\ asked \in BOOLEAN /\ added \in BOOLEAN
  /\ phase \in {"off", "init", "run", "stop", "remove"}
  /\ pos \in Nat \ {0} /\ users \in Nat /\ runs \in 0..MaxRuns /\ crashes \in 0..MaxCrashes
  /\ config \in AllConfigs /\ dirty \subseteq Configs
  /\ ended \in {"none", "clean", "fatal", "crash"}

(* A run has a configuration with keys for everything, and knows how many    *)
(* users it has started.                                                     *)
Running ==
  phase # "off" =>
    /\ config \in Configs /\ ~Exhausted(config)
    /\ users = IF added THEN config.users + config.extra ELSE config.users

(* The children of a run: none while objects are created, all those of the   *)
(* distribution afterwards, all gone before objects are removed.  Only the   *)
(* clock may go before the others.                                           *)
Crewed ==
  /\ gone \subseteq up /\ up \subseteq Children
  /\ phase = "init" => up = {} /\ ~added
  /\ phase = "run" => gone \subseteq {<<"clock", 0>>}
  /\ phase \in {"run", "stop", "remove"} => Shared
  /\ phase \in {"stop", "remove"} => up = Children
  /\ phase = "remove" => gone = Children

(* Every object was made with its size by a run that did not end well or is  *)
(* going on.                                                                 *)
Makers == IF phase = "off" THEN dirty ELSE dirty \cup {config}
MadeBy(c, h) ==
  \/ h \in Timers(c) /\ objects[h].n = 1
  \/ /\ ~Exhausted(c)
     /\ \E i \in 1..Len(Created(c)) : h = Handle(c, Created(c)[i]) /\ objects[h].n = Created(c)[i].n
Origin == \A h \in DOMAIN objects : \E c \in Makers : MadeBy(c, h)

(* What the manager has created is there, and is the run's own if its        *)
(* creator resets it.                                                        *)
Present(i) ==
  /\ Handle(config, Created(config)[i]) \in DOMAIN objects
  /\ phase \in {"init", "run"} /\ Created(config)[i].reset => objects[Handle(config, Created(config)[i])].own
Progress ==
  /\ phase = "init" => pos <= Len(Created(config)) + 1 /\ \A i \in 1..pos - 1 : Present(i)
  /\ phase \in {"run", "stop"} => \A i \in 1..Len(Created(config)) : Present(i)

(* With nothing left by earlier runs everything is the run's own.            *)
AllOwn == dirty = {} /\ phase \in {"init", "run"} => \A h \in DOMAIN objects : objects[h].own

(* The timers go with their workers.                                         *)
TimersGone ==
  phase \in {"stop", "remove"} =>
    \A w \in DOMAIN args : <<"worker", w>> \in gone => Timer(w) \notin DOMAIN objects

(* Removal: what has been dealt with is gone, the rest is there.             *)
Removing ==
  phase = "remove" =>
    /\ pos <= Len(RemovalsOf(config, added)) + 1
    /\ \A i \in 1..pos - 1 : Handle(config, RemovalsOf(config, added)[i]) \notin DOMAIN objects
    /\ \A i \in 1..Len(Created(config)) :
         \/ Handle(config, Created(config)[i]) \in DOMAIN objects
         \/ \E j \in 1..pos - 1 : Key(RemovalsOf(config, added)[j]) = Key(Created(config)[i])

SetupInv ==
  /\ Typed /\ Running /\ Crewed /\ Origin /\ Progress /\ AllOwn /\ TimersGone /\ Removing

(* SetupInv holds before the first run.                                      *)
LEMMA InitIsInv == Init => SetupInv
<1> SUFFICES ASSUME Init PROVE SetupInv
  OBVIOUS
<1>1. /\ objects = <<>> /\ asked = FALSE /\ phase = "off" /\ pos = 1 /\ config = NoConfig
      /\ users = 0 /\ added = FALSE /\ up = {} /\ gone = {} /\ ended = "none" /\ dirty = {} /\ runs = 0 /\ crashes = 0
  BY DEF Init
<1>2. DOMAIN objects = {}
  BY <1>1
<1>3. Typed
  <2>1. runs \in 0..MaxRuns /\ crashes \in 0..MaxCrashes
    BY <1>1, SetupAssumption
  <2>2. config \in AllConfigs
    BY <1>1 DEF AllConfigs
  <2>3. DOMAIN objects \subseteq {"sem", "shm", "msg"} \X Int /\ \A h \in DOMAIN objects : objects[h] \in [n : Nat, own : BOOLEAN]
    BY <1>2
  <2>4. asked \in BOOLEAN /\ added \in BOOLEAN /\ dirty \subseteq Configs
    BY <1>1
  <2>5. phase \in {"off", "init", "run", "stop", "remove"} /\ ended \in {"none", "clean", "fatal", "crash"}
    BY <1>1
  <2>6. pos \in Nat \ {0} /\ users \in Nat
    BY <1>1
  <2> QED BY <2>1, <2>2, <2>3, <2>4, <2>5, <2>6 DEF Typed
<1>4. Running /\ Crewed /\ Progress /\ AllOwn /\ TimersGone /\ Removing
  BY <1>1 DEF Running, Crewed, Progress, AllOwn, TimersGone, Removing
<1>5. Origin
  BY <1>2 DEF Origin
<1> QED BY <1>3, <1>4, <1>5 DEF SetupInv

(* What a call with IPC_CREAT leaves.                                        *)
LEMMA GetIs ==
  ASSUME Typed, NEW h \in {"sem", "shm", "msg"} \X Int, NEW n \in Nat, NEW reset \in BOOLEAN,
         objects' = Get(h, n, reset)
  PROVE  /\ DOMAIN objects' = DOMAIN objects \cup {h}
         /\ \A g \in DOMAIN objects' : g # h => objects'[g] = objects[g]
         /\ h \in DOMAIN objects => objects'[h].n = objects[h].n /\ objects'[h].own = (objects[h].own \/ reset)
         /\ h \notin DOMAIN objects => objects'[h].n = n /\ objects'[h].own
         /\ DOMAIN objects' \subseteq {"sem", "shm", "msg"} \X Int
         /\ \A g \in DOMAIN objects' : objects'[g] \in [n : Nat, own : BOOLEAN]
<1> DEFINE v == IF h \in DOMAIN objects THEN [n |-> objects[h].n, own |-> objects[h].own \/ reset]
                ELSE [n |-> n, own |-> TRUE]
<1>1. objects' = With(objects, h, v)
  BY DEF Get
<1>2. /\ h \in DOMAIN objects => v.n = objects[h].n /\ v.own = (objects[h].own \/ reset)
      /\ h \notin DOMAIN objects => v.n = n /\ v.own
      /\ v \in [n : Nat, own : BOOLEAN]
  <2>1. CASE h \in DOMAIN objects
    <3>1. objects[h] \in [n : Nat, own : BOOLEAN]
      BY <2>1 DEF Typed
    <3>2. objects[h].n \in Nat /\ objects[h].own \in BOOLEAN
      BY <3>1
    <3>3. v = [n |-> objects[h].n, own |-> objects[h].own \/ reset]
      BY <2>1
    <3> QED BY <2>1, <3>2, <3>3
  <2>2. CASE h \notin DOMAIN objects
    <3>1. v = [n |-> n, own |-> TRUE]
      BY <2>2
    <3> QED BY <2>2, <3>1
  <2> QED BY <2>1, <2>2
<1> HIDE DEF v
<1>3. DOMAIN objects' = DOMAIN objects \cup {h} /\ objects'[h] = v /\ \A g \in DOMAIN objects : g # h => objects'[g] = objects[g]
  <2> DEFINE W == With(objects, h, v)
  <2>1. DOMAIN W = DOMAIN objects \cup {h} /\ W[h] = v /\ \A g \in DOMAIN objects : g # h => W[g] = objects[g]
    BY DEF With
  <2>2. objects' = W
    BY <1>1
  <2> HIDE DEF W
  <2> QED BY <2>1, <2>2
<1>4. \A g \in DOMAIN objects' : objects'[g] \in [n : Nat, own : BOOLEAN]
  <2> TAKE g \in DOMAIN objects'
  <2>1. CASE g = h
    BY <1>2, <1>3, <2>1
  <2>2. CASE g # h
    BY <1>3, <2>2 DEF Typed
  <2> QED BY <2>1, <2>2
<1>5. DOMAIN objects' \subseteq {"sem", "shm", "msg"} \X Int
  BY <1>3 DEF Typed
<1> QED BY <1>2, <1>3, <1>4, <1>5

(* A run goes on: its configuration and what it has keys for.                *)
LEMMA GoesOn ==
  ASSUME Typed, Running, phase # "off"
  PROVE  /\ config \in Configs /\ config \in AllConfigs /\ ~Exhausted(config)
         /\ Removals(config, users, added) = RemovalsOf(config, added) /\ added \in BOOLEAN
BY DEF Typed, Running, AllConfigs, RemovalsOf

(* The workers of a run are those that have arguments.                       *)
LEMMA CrewOf ==
  ASSUME Typed, Crewed, phase \in {"run", "stop", "remove"}
  PROVE  /\ DOMAIN args = 1..config.workers /\ config.workers \in Nat
         /\ \A p \in Workers : p = <<"worker", p[2]>> /\ p[2] \in 1..config.workers
         /\ \A w \in 1..config.workers : <<"worker", w>> \in Workers /\ <<"worker", w>> \in Children
         /\ \A w \in 1..config.workers : w \in Nat \ {0}
<1>1. Shared /\ config \in AllConfigs
  BY DEF Typed, Crewed
<1>2. DOMAIN args = 1..config.workers /\ config.workers \in Nat
  BY <1>1, SharedWorkers, ConfigTyped
<1> QED BY <1>2 DEF Workers, Children

(* Every step keeps Running.                                                 *)
LEMMA KeepsRunning ==
  ASSUME SetupInv, [Next]_vars
  PROVE  Running'
<1> USE DEF SetupInv
<1>1. ASSUME NEW c \in Configs, Start(c) PROVE Running'
  BY <1>1 DEF Start, Fatal, Running
<1>2. CASE CreateObject
  BY <1>2 DEF CreateObject, Fatal, Running
<1>3. CASE InitProcesses
  BY <1>3 DEF InitProcesses, Running
<1>4. CASE AddUsers
  BY <1>4 DEF AddUsers, Running
<1>5. CASE InitNewUsers
  BY <1>5 DEF InitNewUsers, Running
<1>6. CASE Stop
  BY <1>6 DEF Stop, Running
<1>7. ASSUME NEW p \in Children, ChildSetup(p) \/ ChildExit(p) PROVE Running'
  <2>1. UNCHANGED <<phase, config, users, added>>
    BY <1>7 DEF ChildSetup, ChildExit
  <2> QED BY <2>1 DEF Running
<1>8. CASE Deallocate
  BY <1>8 DEF Deallocate, Running
<1>9. CASE RemoveObject
  BY <1>9 DEF RemoveObject, Fatal, Running
<1>10. CASE End \/ Crash
  BY <1>10 DEF End, Crash, Running
<1>11. CASE UNCHANGED vars
  BY <1>11 DEF vars, Running
<1>12. CASE ClockStops \/ GetStatsFails
  BY <1>12 DEF ClockStops, GetStatsFails, Fatal, Running
<1> QED BY <1>1, <1>2, <1>3, <1>4, <1>5, <1>6, <1>7, <1>8, <1>9, <1>10, <1>11, <1>12 DEF Next

(* Every step keeps Crewed.                                                  *)
LEMMA KeepsCrewed ==
  ASSUME SetupInv, [Next]_vars
  PROVE  Crewed'
<1> USE DEF SetupInv
<1>1. ASSUME NEW c \in Configs, Start(c) PROVE Crewed'
  <2>1. up' = {} /\ gone' = {} /\ added' = FALSE /\ phase' \in {"off", "init"}
    BY <1>1 DEF Start, Fatal
  <2> QED BY <2>1 DEF Crewed
<1>2. CASE CreateObject
  <2>1. phase = "init" /\ phase' \in {"off", "init"} /\ UNCHANGED <<up, gone, added, args, users>>
    BY <1>2 DEF CreateObject, Fatal
  <2> QED BY <2>1 DEF Crewed, Children, Workers
<1>3. CASE InitProcesses
  <2>1. phase = "init" /\ phase' = "run" /\ UNCHANGED <<up, gone, config>> /\ Shared'
    BY <1>3 DEF InitProcesses, SeatsInitResources, Shared
  <2> QED BY <2>1 DEF Crewed
<1>4. CASE AddUsers
  BY <1>4 DEF AddUsers, Crewed, Children, Workers, Shared
<1>5. CASE InitNewUsers
  <2>1. /\ phase = "run" /\ UNCHANGED <<phase, up, gone, config, args, seatIndex, seatUnits>>
        /\ users' = users + config.extra /\ users \in Nat /\ config.extra \in Nat
    BY <1>5, ConfigTyped DEF InitNewUsers, Typed
  <2>2. Children \subseteq Children'
    <3>1. \A u \in 1..users : u \in 1..users'
      BY <2>1
    <3> QED BY <2>1, <3>1 DEF Children, Workers
  <2>3. Shared'
    BY <2>1 DEF Crewed, Shared
  <2> QED BY <2>1, <2>2, <2>3 DEF Crewed
<1>6. CASE Stop
  BY <1>6 DEF Stop, Crewed, Children, Workers, Shared
<1>7. ASSUME NEW p \in Children, ChildSetup(p) PROVE Crewed'
  BY <1>7 DEF ChildSetup, Crewed, Children, Workers, Shared
<1>8. ASSUME NEW p \in Children, ChildExit(p) PROVE Crewed'
  BY <1>8 DEF ChildExit, Crewed, Children, Workers, Shared
<1>9. CASE Deallocate
  BY <1>9 DEF Deallocate, Crewed, Children, Workers, Shared
<1>10. CASE RemoveObject
  BY <1>10 DEF RemoveObject, Fatal, Crewed, Children, Workers, Shared
<1>11. CASE End \/ Crash
  BY <1>11 DEF End, Crash, Crewed, Children, Workers
<1>12. CASE UNCHANGED vars
  BY <1>12 DEF vars, Crewed, Children, Workers, Shared
<1>13. CASE ClockStops
  BY <1>13 DEF ClockStops, Crewed, Children, Workers, Shared
<1>14. CASE GetStatsFails
  BY <1>14 DEF GetStatsFails, Fatal, Crewed, Children, Workers
<1> QED BY <1>1, <1>2, <1>3, <1>4, <1>5, <1>6, <1>7, <1>8, <1>9, <1>10, <1>11, <1>12, <1>13, <1>14 DEF Next

(* Creating an object: given up, or one object more.                         *)
LEMMA CreateIs ==
  ASSUME SetupInv, CreateObject, NEW o, o = Created(config)[pos], NEW h, h = Handle(config, o)
  PROVE  /\ phase = "init" /\ config \in AllConfigs /\ config \in Configs /\ ~Exhausted(config) /\ pos \in 1..Len(Created(config))
         /\ Len(Created(config)) \in Nat /\ o \in Entries(config) /\ o.n \in Nat /\ o.reset \in BOOLEAN /\ o.name \in Known(config)
         /\ h \in {"sem", "shm", "msg"} \X Int
         /\ UNCHANGED <<config, users, added, args, seatIndex, seatUnits, up, gone, runs, crashes>>
         /\ \/ /\ Refused(h, o.n) /\ UNCHANGED <<objects, asked, pos>>
               /\ phase' = "off" /\ ended' = "fatal" /\ dirty' = dirty \cup {config}
            \/ /\ ~Refused(h, o.n) /\ objects' = Get(h, o.n, o.reset)
               /\ asked' \in BOOLEAN /\ pos' = pos + 1 /\ UNCHANGED <<phase, ended, dirty>>
<1>1. phase = "init" /\ pos <= Len(Created(config)) /\ pos \in Nat \ {0}
  BY DEF CreateObject, SetupInv, Typed
<1>2. config \in AllConfigs /\ config \in Configs /\ ~Exhausted(config)
  BY <1>1, GoesOn DEF SetupInv
<1>3. Len(Created(config)) \in Nat /\ pos \in 1..Len(Created(config))
  BY <1>1, <1>2, CreatedAre
<1>4. o \in Entries(config)
  BY <1>2, <1>3, CreatedAre
<1>5. o.n \in Nat /\ o.reset \in BOOLEAN /\ o.name \in Known(config)
  BY <1>4 DEF Entries, Known
<1>6. h \in {"sem", "shm", "msg"} \X Int
  BY <1>2, <1>3, CreatedHandles
<1>7. UNCHANGED <<config, users, added, args, seatIndex, seatUnits, up, gone, runs, crashes>>
  BY DEF CreateObject
<1>8. IF Refused(h, o.n) THEN Fatal(config) /\ UNCHANGED <<objects, asked, pos>>
      ELSE /\ objects' = Get(h, o.n, o.reset)
           /\ asked' = (asked /\ h # ADD_USERS(config))
           /\ pos' = pos + 1
           /\ UNCHANGED <<phase, ended, dirty>>
  BY DEF CreateObject
<1>9. CASE Refused(h, o.n)
  BY <1>1, <1>2, <1>3, <1>4, <1>5, <1>6, <1>7, <1>8, <1>9 DEF Fatal
<1>10. CASE ~Refused(h, o.n)
  <2>1. asked' \in BOOLEAN
    BY <1>8, <1>10
  <2> QED BY <1>1, <1>2, <1>3, <1>4, <1>5, <1>6, <1>7, <1>8, <1>10, <2>1
<1> QED BY <1>9, <1>10

(* Removing one: given up, or one object less.                               *)
LEMMA RemoveIs ==
  ASSUME SetupInv, RemoveObject, NEW r, r = RemovalsOf(config, added)[pos], NEW h, h = Handle(config, r)
  PROVE  /\ phase = "remove" /\ config \in AllConfigs /\ config \in Configs /\ ~Exhausted(config) /\ added \in BOOLEAN
         /\ pos \in 1..Len(RemovalsOf(config, added)) /\ Len(RemovalsOf(config, added)) \in Nat
         /\ r.name \in Known(config)
         /\ UNCHANGED <<config, users, added, args, seatIndex, seatUnits, up, gone, runs, crashes>>
         /\ \/ /\ h \notin Handles(config) \cap DOMAIN objects /\ UNCHANGED <<objects, asked, pos>>
               /\ phase' = "off" /\ ended' = "fatal" /\ dirty' = dirty \cup {config}
            \/ /\ h \in Handles(config) \cap DOMAIN objects /\ objects' = [g \in DOMAIN objects \ {h} |-> objects[g]]
               /\ asked' \in BOOLEAN /\ pos' = pos + 1 /\ UNCHANGED <<phase, ended, dirty>>
<1>1. phase = "remove" /\ pos \in Nat \ {0}
  BY DEF RemoveObject, SetupInv, Typed
<1>2. config \in AllConfigs /\ config \in Configs /\ ~Exhausted(config) /\ added \in BOOLEAN
      /\ Removals(config, users, added) = RemovalsOf(config, added)
  BY <1>1, GoesOn DEF SetupInv
<1>3. Len(RemovalsOf(config, added)) \in Nat /\ pos \in 1..Len(RemovalsOf(config, added))
  <2>1. Len(RemovalsOf(config, added)) \in Nat
    BY <1>2, RemovalsAre
  <2>2. pos <= Len(RemovalsOf(config, added))
    BY <1>2 DEF RemoveObject
  <2> QED BY <1>1, <2>1, <2>2
<1>4. r \in Removables(config)
  BY <1>2, <1>3, RemovalsAre
<1>5. r.name \in Known(config)
  BY <1>4 DEF Removables, Known
<1>6. UNCHANGED <<config, users, added, args, seatIndex, seatUnits, up, gone, runs, crashes>>
  BY DEF RemoveObject
<1>7. IF h \notin Handles(config) \cap DOMAIN objects
      THEN Fatal(config) /\ UNCHANGED <<objects, asked, pos>>
      ELSE /\ objects' = [g \in DOMAIN objects \ {h} |-> objects[g]]
           /\ asked' = (asked /\ h # ADD_USERS(config))
           /\ pos' = pos + 1
           /\ UNCHANGED <<phase, ended, dirty>>
  BY <1>2 DEF RemoveObject
<1>8. CASE h \notin Handles(config) \cap DOMAIN objects
  BY <1>1, <1>2, <1>3, <1>5, <1>6, <1>7, <1>8 DEF Fatal
<1>9. CASE h \in Handles(config) \cap DOMAIN objects
  <2>1. asked' \in BOOLEAN
    BY <1>7, <1>9
  <2> QED BY <1>1, <1>2, <1>3, <1>5, <1>6, <1>7, <1>9, <2>1
<1> QED BY <1>8, <1>9

(* A child's setup: the timer of a worker is made, or nothing.               *)
LEMMA ChildIs ==
  ASSUME SetupInv, NEW p \in Children, ChildSetup(p)
  PROVE  /\ phase = "run" /\ UNCHANGED <<asked, phase, pos, config, users, added, args, gone, ended, dirty, runs, crashes>>
         /\ config \in AllConfigs /\ config \in Configs /\ ~Exhausted(config)
         /\ \/ objects' = objects
            \/ \E w \in 1..config.workers :
                 w \in Nat \ {0} /\ Timer(w) \in {"sem", "shm", "msg"} \X Int /\ objects' = Get(Timer(w), 1, FALSE)
<1>1. phase = "run" /\ UNCHANGED <<asked, phase, pos, config, users, added, args, gone, ended, dirty, runs, crashes>>
      /\ objects' = IF p \in Workers THEN Get(Timer(p[2]), 1, FALSE) ELSE objects
  BY DEF ChildSetup
<1>2. config \in AllConfigs /\ config \in Configs /\ ~Exhausted(config)
  BY <1>1, GoesOn DEF SetupInv
<1>3. CASE p \in Workers
  <2>1. p[2] \in 1..config.workers /\ p[2] \in Nat \ {0}
    BY <1>1, <1>3, CrewOf DEF SetupInv
  <2>2. Timer(p[2]) \in {"sem", "shm", "msg"} \X Int
    BY <2>1, TimerTyped
  <2> QED BY <1>1, <1>2, <1>3, <2>1, <2>2
<1>4. CASE p \notin Workers
  BY <1>1, <1>2, <1>4
<1> QED BY <1>3, <1>4

(* A child's exit: the timer of a worker goes, or nothing.                   *)
LEMMA ExitIs ==
  ASSUME SetupInv, NEW p \in Children, ChildExit(p)
  PROVE  /\ phase = "stop" /\ UNCHANGED <<asked, phase, pos, config, users, added, args, up, ended, dirty, runs, crashes>>
         /\ gone' = gone \cup {p}
         /\ config \in AllConfigs /\ config \in Configs /\ ~Exhausted(config)
         /\ \/ p \notin Workers /\ objects' = objects
            \/ \E w \in 1..config.workers :
                 /\ w \in Nat \ {0} /\ p = <<"worker", w>>
                 /\ objects' = [h \in DOMAIN objects \ {Timer(w)} |-> objects[h]]
<1>1. phase = "stop" /\ UNCHANGED <<asked, phase, pos, config, users, added, args, up, ended, dirty, runs, crashes>>
      /\ gone' = gone \cup {p}
      /\ objects' = IF p \in Workers THEN [h \in DOMAIN objects \ {Timer(p[2])} |-> objects[h]] ELSE objects
  BY DEF ChildExit
<1>2. config \in AllConfigs /\ config \in Configs /\ ~Exhausted(config)
  BY <1>1, GoesOn DEF SetupInv
<1>3. CASE p \in Workers
  <2>1. p[2] \in 1..config.workers /\ p[2] \in Nat \ {0} /\ p = <<"worker", p[2]>>
    BY <1>1, <1>3, CrewOf DEF SetupInv
  <2> QED BY <1>1, <1>2, <1>3, <2>1
<1>4. CASE p \notin Workers
  BY <1>1, <1>2, <1>4
<1> QED BY <1>3, <1>4

(* add_users: during a run it counts up the run's own semaphore.             *)
LEMMA AddUsersIs ==
  ASSUME SetupInv, AddUsers
  PROVE  /\ UNCHANGED <<phase, pos, config, users, added, args, seatIndex, seatUnits, up, gone, ended, dirty, runs, crashes>>
         /\ asked' = TRUE
         /\ phase # "off" => objects' = objects
         /\ DOMAIN objects' = DOMAIN objects
         /\ \A h \in DOMAIN objects : objects'[h].n = objects[h].n /\ objects'[h] \in [n : Nat, own : BOOLEAN]
<1> DEFINE k == ADD_USERS(NoConfig)
<1>1. /\ UNCHANGED <<phase, pos, config, users, added, args, seatIndex, seatUnits, up, gone, ended, dirty, runs, crashes>>
      /\ asked' = TRUE /\ k \in DOMAIN objects
      /\ IF phase # "off" /\ k = ADD_USERS(config) THEN UNCHANGED objects
         ELSE objects' = [objects EXCEPT ![k].own = FALSE]
  BY DEF AddUsers
<1>2. phase # "off" => k = ADD_USERS(config)
  BY GoesOn, AddUsersAgree DEF SetupInv
<1> HIDE DEF k
<1>3. \A h \in DOMAIN objects : objects[h] \in [n : Nat, own : BOOLEAN]
  BY DEF SetupInv, Typed
<1>4. CASE objects' = objects
  BY <1>1, <1>3, <1>4
<1>5. CASE objects' = [objects EXCEPT ![k].own = FALSE] /\ phase = "off"
  <2>1. DOMAIN objects' = DOMAIN objects
    BY <1>5
  <2>2. ASSUME NEW h \in DOMAIN objects PROVE objects'[h].n = objects[h].n /\ objects'[h] \in [n : Nat, own : BOOLEAN]
    <3>1. objects'[h] = IF h = k THEN [objects[h] EXCEPT !.own = FALSE] ELSE objects[h]
      BY <1>5
    <3>2. objects[h] \in [n : Nat, own : BOOLEAN]
      BY <1>3
    <3> QED BY <3>1, <3>2
  <2> QED BY <1>1, <1>5, <2>1, <2>2
<1> QED BY <1>1, <1>2, <1>4, <1>5

(* Starting a run: the keys are generated, or the paths are exhausted.       *)
LEMMA StartIs ==
  ASSUME SetupInv, NEW c \in Configs, Start(c)
  PROVE  /\ phase = "off" /\ config' = c /\ users' = c.users /\ added' = FALSE /\ pos' = 1 /\ runs' = runs + 1
         /\ runs < MaxRuns /\ up' = {} /\ gone' = {} /\ UNCHANGED <<asked, crashes>>
         /\ DOMAIN objects' = DOMAIN objects
         /\ \A h \in DOMAIN objects : objects'[h].n = objects[h].n /\ objects'[h] \in [n : Nat, own : BOOLEAN]
         /\ \/ Exhausted(c) /\ phase' = "off" /\ ended' = "fatal" /\ dirty' = dirty \cup {c}
            \/ ~Exhausted(c) /\ phase' = "init" /\ UNCHANGED <<ended, dirty>>
<1>1. /\ phase = "off" /\ config' = c /\ users' = c.users /\ added' = FALSE /\ pos' = 1 /\ runs' = runs + 1
      /\ runs < MaxRuns /\ up' = {} /\ gone' = {} /\ UNCHANGED <<asked, crashes>>
      /\ objects' = [h \in DOMAIN objects |-> [objects[h] EXCEPT !.own = FALSE]]
  BY DEF Start
<1>2. \/ Exhausted(c) /\ phase' = "off" /\ ended' = "fatal" /\ dirty' = dirty \cup {c}
      \/ ~Exhausted(c) /\ phase' = "init" /\ UNCHANGED <<ended, dirty>>
  BY DEF Start, Fatal
<1>3. ASSUME NEW h \in DOMAIN objects PROVE objects'[h].n = objects[h].n /\ objects'[h] \in [n : Nat, own : BOOLEAN]
  <2>1. objects'[h] = [objects[h] EXCEPT !.own = FALSE]
    BY <1>1
  <2>2. objects[h] \in [n : Nat, own : BOOLEAN]
    BY DEF SetupInv, Typed
  <2> QED BY <2>1, <2>2
<1> QED BY <1>1, <1>2, <1>3

(* Every step keeps the types.                                               *)
LEMMA KeepsTyped ==
  ASSUME SetupInv, [Next]_vars
  PROVE  Typed'
<1>0. /\ DOMAIN objects \subseteq {"sem", "shm", "msg"} \X Int
      /\ \A h \in DOMAIN objects : objects[h] \in [n : Nat, own : BOOLEAN]
      /\ asked \in BOOLEAN /\ added \in BOOLEAN
      /\ phase \in {"off", "init", "run", "stop", "remove"}
      /\ pos \in Nat \ {0} /\ users \in Nat /\ runs \in 0..MaxRuns /\ crashes \in 0..MaxCrashes
      /\ config \in AllConfigs /\ dirty \subseteq Configs
      /\ ended \in {"none", "clean", "fatal", "crash"}
  BY DEF SetupInv, Typed
<1>1. ASSUME NEW c \in Configs, Start(c) PROVE Typed'
  <2>1. /\ config' = c /\ users' = c.users /\ added' = FALSE /\ pos' = 1 /\ runs' = runs + 1
        /\ runs < MaxRuns /\ UNCHANGED <<asked, crashes>>
        /\ DOMAIN objects' = DOMAIN objects
        /\ \A h \in DOMAIN objects : objects'[h] \in [n : Nat, own : BOOLEAN]
        /\ phase' \in {"off", "init"} /\ dirty' \in {dirty, dirty \cup {c}} /\ ended' \in {ended, "fatal"}
    BY <1>1, StartIs
  <2>2. c \in AllConfigs /\ c.users \in Nat
    BY ConfigTyped DEF AllConfigs
  <2>3. runs' \in 0..MaxRuns
    BY <1>0, <2>1, SetupAssumption
  <2>6. dirty' \subseteq Configs
    BY <1>0, <2>1
  <2>7. ended' \in {"none", "clean", "fatal", "crash"}
    BY <1>0, <2>1
  <2>4. added' \in BOOLEAN
    BY <2>1, Zenon
  <2>10. pos' \in Nat \ {0}
    <3>1. pos' = 1
      BY <2>1
    <3> QED BY <3>1
  <2>9. phase' \in {"off", "init", "run", "stop", "remove"}
    BY <2>1, Zenon
  <2>8. asked' \in BOOLEAN /\ crashes' \in 0..MaxCrashes
    BY <1>0, <2>1
  <2>5. /\ DOMAIN objects' \subseteq {"sem", "shm", "msg"} \X Int
        /\ \A h \in DOMAIN objects' : objects'[h] \in [n : Nat, own : BOOLEAN]
    BY <1>0, <2>1
  <2> QED BY <2>1, <2>2, <2>3, <2>4, <2>5, <2>6, <2>7, <2>8, <2>9, <2>10 DEF Typed
<1>2. CASE CreateObject
  <2> DEFINE o == Created(config)[pos]
             h == Handle(config, o)
  <2>1. /\ phase = "init" /\ config \in Configs /\ o.n \in Nat /\ o.reset \in BOOLEAN
        /\ h \in {"sem", "shm", "msg"} \X Int
        /\ UNCHANGED <<config, users, added, runs, crashes>>
        /\ \/ /\ UNCHANGED <<objects, asked, pos>>
              /\ phase' = "off" /\ ended' = "fatal" /\ dirty' = dirty \cup {config}
           \/ /\ objects' = Get(h, o.n, o.reset)
              /\ asked' \in BOOLEAN /\ pos' = pos + 1 /\ UNCHANGED <<phase, ended, dirty>>
    BY <1>2, CreateIs
  <2> HIDE DEF o, h
  <2>2. CASE /\ UNCHANGED <<objects, asked, pos>>
             /\ phase' = "off" /\ ended' = "fatal" /\ dirty' = dirty \cup {config}
    BY <1>0, <2>1, <2>2 DEF Typed
  <2>3. CASE /\ objects' = Get(h, o.n, o.reset)
             /\ asked' \in BOOLEAN /\ pos' = pos + 1 /\ UNCHANGED <<phase, ended, dirty>>
    <3>1. DOMAIN objects' \subseteq {"sem", "shm", "msg"} \X Int /\ \A g \in DOMAIN objects' : objects'[g] \in [n : Nat, own : BOOLEAN]
      BY <2>1, <2>3, GetIs DEF SetupInv
    <3>2. pos' \in Nat \ {0}
      BY <1>0, <2>3
    <3> QED BY <1>0, <2>1, <2>3, <3>1, <3>2 DEF Typed
  <2> QED BY <2>1, <2>2, <2>3
<1>3. CASE InitProcesses
  BY <1>0, <1>3 DEF InitProcesses, Typed
<1>4. CASE AddUsers
  <2>1. /\ UNCHANGED <<phase, pos, config, users, added, ended, dirty, runs, crashes>> /\ asked' = TRUE
        /\ DOMAIN objects' = DOMAIN objects /\ \A h \in DOMAIN objects : objects'[h] \in [n : Nat, own : BOOLEAN]
    BY <1>4, AddUsersIs
  <2> QED BY <1>0, <2>1 DEF Typed
<1>5. CASE InitNewUsers
  <2>1. /\ users' = users + config.extra /\ added' = TRUE /\ asked' = FALSE
        /\ UNCHANGED <<objects, phase, pos, config, ended, dirty, runs, crashes>>
    BY <1>5 DEF InitNewUsers
  <2>2. users' \in Nat
    BY <1>0, <2>1, ConfigTyped
  <2> QED BY <1>0, <2>1, <2>2 DEF Typed
<1>6. CASE Stop
  BY <1>0, <1>6 DEF Stop, Typed
<1>7. ASSUME NEW p \in Children, ChildSetup(p) PROVE Typed'
  <2>1. UNCHANGED <<asked, phase, pos, config, users, added, ended, dirty, runs, crashes>>
    BY <1>7, ChildIs
  <2>2. DOMAIN objects' \subseteq {"sem", "shm", "msg"} \X Int /\ \A g \in DOMAIN objects' : objects'[g] \in [n : Nat, own : BOOLEAN]
    <3>1. CASE objects' = objects
      BY <1>0, <3>1
    <3>2. ASSUME NEW w \in 1..config.workers, Timer(w) \in {"sem", "shm", "msg"} \X Int, objects' = Get(Timer(w), 1, FALSE)
          PROVE  DOMAIN objects' \subseteq {"sem", "shm", "msg"} \X Int /\ \A g \in DOMAIN objects' : objects'[g] \in [n : Nat, own : BOOLEAN]
      <4> DEFINE t == Timer(w)
      <4>1. t \in {"sem", "shm", "msg"} \X Int /\ objects' = Get(t, 1, FALSE) /\ 1 \in Nat /\ FALSE \in BOOLEAN
        BY <3>2
      <4> HIDE DEF t
      <4> QED BY <4>1, GetIs DEF SetupInv
    <3> QED BY <1>7, <3>1, <3>2, ChildIs
  <2> QED BY <1>0, <2>1, <2>2 DEF Typed
<1>8. ASSUME NEW p \in Children, ChildExit(p) PROVE Typed'
  <2>1. UNCHANGED <<asked, phase, pos, config, users, added, ended, dirty, runs, crashes>>
    BY <1>8, ExitIs
  <2>2. objects' = objects \/ \E w \in 1..config.workers : objects' = [h \in DOMAIN objects \ {Timer(w)} |-> objects[h]]
    BY <1>8, ExitIs
  <2>3. DOMAIN objects' \subseteq {"sem", "shm", "msg"} \X Int /\ \A g \in DOMAIN objects' : objects'[g] \in [n : Nat, own : BOOLEAN]
    BY <1>0, <2>2
  <2> QED BY <1>0, <2>1, <2>3 DEF Typed
<1>9. CASE Deallocate
  BY <1>0, <1>9 DEF Deallocate, Typed
<1>10. CASE RemoveObject
  <2> DEFINE r == RemovalsOf(config, added)[pos]
             h == Handle(config, r)
  <2>1. /\ phase = "remove" /\ config \in Configs /\ UNCHANGED <<config, users, added, runs, crashes>>
        /\ \/ /\ UNCHANGED <<objects, asked, pos>>
              /\ phase' = "off" /\ ended' = "fatal" /\ dirty' = dirty \cup {config}
           \/ /\ objects' = [g \in DOMAIN objects \ {h} |-> objects[g]]
              /\ asked' \in BOOLEAN /\ pos' = pos + 1 /\ UNCHANGED <<phase, ended, dirty>>
    BY <1>10, RemoveIs
  <2> HIDE DEF r, h
  <2>2. DOMAIN objects' \subseteq {"sem", "shm", "msg"} \X Int /\ \A g \in DOMAIN objects' : objects'[g] \in [n : Nat, own : BOOLEAN]
    BY <1>0, <2>1
  <2>3. /\ asked' \in BOOLEAN /\ pos' \in Nat \ {0} /\ phase' \in {"off", "remove"}
        /\ dirty' \subseteq Configs /\ ended' \in {"none", "clean", "fatal", "crash"}
    BY <1>0, <2>1
  <2> QED BY <1>0, <2>1, <2>2, <2>3 DEF Typed
<1>11. CASE End
  BY <1>0, <1>11 DEF End, Typed
<1>12. CASE Crash
  <2>1. /\ phase' = "off" /\ ended' = "crash" /\ dirty' = dirty \cup {config} /\ crashes' = crashes + 1
        /\ crashes < MaxCrashes /\ UNCHANGED <<objects, asked, pos, config, users, added, runs>> /\ config \in Configs
    BY <1>12, GoesOn DEF Crash, SetupInv
  <2>2. crashes' \in 0..MaxCrashes
    BY <1>0, <2>1, SetupAssumption
  <2> QED BY <1>0, <2>1, <2>2 DEF Typed
<1>13. CASE UNCHANGED vars
  BY <1>0, <1>13 DEF vars, Typed
<1>14. CASE ClockStops
  BY <1>0, <1>14 DEF ClockStops, Typed
<1>15. CASE GetStatsFails
  <2>1. /\ phase' = "off" /\ ended' = "fatal" /\ dirty' = dirty \cup {config} /\ config \in Configs
        /\ UNCHANGED <<objects, asked, pos, config, users, added, runs, crashes>>
    BY <1>15, GoesOn DEF GetStatsFails, Fatal, SetupInv
  <2> QED BY <1>0, <2>1 DEF Typed
<1> QED BY <1>1, <1>2, <1>3, <1>4, <1>5, <1>6, <1>7, <1>8, <1>9, <1>10, <1>11, <1>12, <1>13, <1>14, <1>15 DEF Next

(* Objects keep their makers while their sizes stay.                         *)
LEMMA OriginStays ==
  ASSUME Origin, Makers \subseteq Makers',
         \A h \in DOMAIN objects' : h \in DOMAIN objects /\ objects'[h].n = objects[h].n
  PROVE  Origin'
<1>1. ASSUME NEW h \in DOMAIN objects' PROVE \E c \in Makers' : MadeBy(c, h)'
  <2>1. PICK c \in Makers : MadeBy(c, h)
    BY DEF Origin
  <2>2. MadeBy(c, h)'
    BY <2>1 DEF MadeBy
  <2> QED BY <2>1, <2>2
<1> QED BY <1>1 DEF Origin

(* One object more, made by a run.                                           *)
LEMMA OriginGrows ==
  ASSUME Origin, Typed, Makers \subseteq Makers', NEW h \in {"sem", "shm", "msg"} \X Int, NEW n \in Nat, NEW reset \in BOOLEAN,
         objects' = Get(h, n, reset), NEW c \in Makers',
         \/ (h \in Timers(c) /\ n = 1)
         \/ (~Exhausted(c) /\ \E i \in 1..Len(Created(c)) : h = Handle(c, Created(c)[i]) /\ n = Created(c)[i].n)
  PROVE  Origin'
<1>0. /\ DOMAIN objects' = DOMAIN objects \cup {h}
      /\ \A g \in DOMAIN objects' : g # h => objects'[g] = objects[g]
      /\ h \in DOMAIN objects => objects'[h].n = objects[h].n /\ objects'[h].own = (objects[h].own \/ reset)
      /\ h \notin DOMAIN objects => objects'[h].n = n /\ objects'[h].own
      /\ DOMAIN objects' \subseteq {"sem", "shm", "msg"} \X Int
      /\ \A g \in DOMAIN objects' : objects'[g] \in [n : Nat, own : BOOLEAN]
  BY GetIs, Zenon
<1>1. /\ DOMAIN objects' = DOMAIN objects \cup {h}
      /\ \A g \in DOMAIN objects' : g # h => objects'[g] = objects[g]
      /\ h \in DOMAIN objects => objects'[h].n = objects[h].n
      /\ h \notin DOMAIN objects => objects'[h].n = n
  BY <1>0
<1>2. ASSUME NEW g \in DOMAIN objects, objects'[g].n = objects[g].n PROVE \E d \in Makers' : MadeBy(d, g)'
  <2>1. PICK d \in Makers : MadeBy(d, g)
    BY DEF Origin
  <2>2. MadeBy(d, g)'
    BY <1>2, <2>1 DEF MadeBy
  <2> QED BY <2>1, <2>2
<1>3. ASSUME h \notin DOMAIN objects PROVE \E d \in Makers' : MadeBy(d, h)'
  <2>1. objects'[h].n = n
    BY <1>1, <1>3
  <2>2. MadeBy(c, h)'
    BY <2>1 DEF MadeBy
  <2> QED BY <2>2
<1>4. ASSUME NEW g \in DOMAIN objects' PROVE \E d \in Makers' : MadeBy(d, g)'
  <2>1. CASE g \in DOMAIN objects
    <3>1. objects'[g].n = objects[g].n
      BY <1>1, <2>1
    <3> QED BY <1>2, <2>1, <3>1
  <2>2. CASE g \notin DOMAIN objects
    BY <1>1, <1>3, <2>2
  <2> QED BY <2>1, <2>2
<1> QED BY <1>4 DEF Origin

(* When the removal is over nothing is left that this run has made.          *)
LEMMA EndLeavesNothing ==
  ASSUME SetupInv, phase = "remove", pos > Len(RemovalsOf(config, added)), NEW h \in DOMAIN objects
  PROVE  ~MadeBy(config, h)
<1>0. config \in AllConfigs /\ ~Exhausted(config) /\ added \in BOOLEAN
  BY GoesOn DEF SetupInv
<1>1. Len(RemovalsOf(config, added)) \in Nat /\ pos \in Nat
  BY <1>0, RemovalsAre DEF SetupInv, Typed
<1>2. ASSUME h \in Timers(config) PROVE FALSE
  <2>1. PICK w \in 1..config.workers : h = Timer(w)
    BY <1>2 DEF Timers
  <2>2. w \in DOMAIN args /\ <<"worker", w>> \in Children
    BY CrewOf DEF SetupInv
  <2>3. <<"worker", w>> \in gone
    BY <2>2 DEF SetupInv, Crewed
  <2> QED BY <2>1, <2>2, <2>3 DEF SetupInv, TimersGone
<1>3. ASSUME NEW i \in 1..Len(Created(config)), h = Handle(config, Created(config)[i]) PROVE FALSE
  <2>1. Key(Created(config)[i]) \in CreatedKeys(config) /\ Created(config)[i] \in Entries(config)
    BY <1>0, CreatedAre
  <2>2. PICK j \in 1..Len(RemovalsOf(config, added)) : Key(RemovalsOf(config, added)[j]) = Key(Created(config)[i])
    BY <1>0, <2>1, RemovalsAre
  <2>3. j \in 1..pos - 1
    BY <1>1
  <2>4. Handle(config, RemovalsOf(config, added)[j]) \notin DOMAIN objects
    BY <2>3 DEF SetupInv, Removing
  <2>5. RemovalsOf(config, added)[j].name \in Known(config) /\ Created(config)[i].name \in Known(config)
    BY <1>0, <2>1, RemovalsAre DEF Removables, Entries, Known
  <2>6. Handle(config, RemovalsOf(config, added)[j]) = Handle(config, Created(config)[i])
    BY <1>0, <2>2, <2>5, HandlesDiffer
  <2> QED BY <1>3, <2>4, <2>6
<1> QED BY <1>2, <1>3 DEF MadeBy

(* Every step keeps Origin: nothing is forgotten when a run ends well.       *)
LEMMA KeepsOrigin ==
  ASSUME SetupInv, [Next]_vars
  PROVE  Origin'
<1>0. Origin /\ Typed
  BY DEF SetupInv
<1>1. ASSUME NEW c \in Configs, Start(c) PROVE Origin'
  <2>1. /\ phase = "off" /\ config' = c /\ DOMAIN objects' = DOMAIN objects
        /\ \A h \in DOMAIN objects : objects'[h].n = objects[h].n
        /\ \/ phase' = "off" /\ dirty' = dirty \cup {c}
           \/ phase' = "init" /\ dirty' = dirty
    BY <1>1, StartIs
  <2>2. Makers \subseteq Makers'
    BY <2>1 DEF Makers
  <2> QED BY <1>0, <2>1, <2>2, OriginStays
<1>2. CASE CreateObject
  <2> DEFINE o == Created(config)[pos]
             h == Handle(config, o)
             n == o.n
             reset == o.reset
  <2>1. /\ phase = "init" /\ ~Exhausted(config) /\ n \in Nat /\ reset \in BOOLEAN
        /\ h \in {"sem", "shm", "msg"} \X Int /\ config' = config
        /\ \/ UNCHANGED objects /\ phase' = "off" /\ dirty' = dirty \cup {config}
           \/ objects' = Get(h, n, reset) /\ UNCHANGED <<phase, dirty>>
    BY <1>2, CreateIs
  <2>2. \E i \in 1..Len(Created(config)) : h = Handle(config, Created(config)[i]) /\ n = Created(config)[i].n
    <3>1. pos \in 1..Len(Created(config))
      BY <1>2, CreateIs
    <3> QED BY <3>1
  <2> HIDE DEF o, h, n, reset
  <2>3. Makers \subseteq Makers' /\ config \in Makers'
    BY <2>1 DEF Makers
  <2>4. CASE UNCHANGED objects
    BY <1>0, <2>3, <2>4, OriginStays
  <2>5. CASE objects' = Get(h, n, reset)
    BY <1>0, <2>1, <2>2, <2>3, <2>5, OriginGrows
  <2> QED BY <2>1, <2>4, <2>5
<1>3. CASE InitProcesses
  <2>1. Makers \subseteq Makers' /\ objects' = objects
    BY <1>3 DEF InitProcesses, Makers
  <2> QED BY <1>0, <2>1, OriginStays
<1>4. CASE AddUsers
  <2>1. /\ UNCHANGED <<phase, config, dirty>> /\ DOMAIN objects' = DOMAIN objects
        /\ \A h \in DOMAIN objects : objects'[h].n = objects[h].n
    BY <1>4, AddUsersIs
  <2>2. Makers \subseteq Makers'
    BY <2>1 DEF Makers
  <2> QED BY <1>0, <2>1, <2>2, OriginStays
<1>5. CASE InitNewUsers
  <2>1. Makers \subseteq Makers' /\ objects' = objects
    BY <1>5 DEF InitNewUsers, Makers
  <2> QED BY <1>0, <2>1, OriginStays
<1>6. CASE Stop
  <2>1. Makers \subseteq Makers' /\ objects' = objects
    BY <1>6 DEF Stop, Makers
  <2> QED BY <1>0, <2>1, OriginStays
<1>7. ASSUME NEW p \in Children, ChildSetup(p) PROVE Origin'
  <2>1. UNCHANGED <<phase, config, dirty>> /\ phase = "run"
    BY <1>7, ChildIs
  <2>2. Makers \subseteq Makers' /\ config \in Makers'
    BY <2>1 DEF Makers
  <2>3. CASE objects' = objects
    BY <1>0, <2>2, <2>3, OriginStays
  <2>4. ASSUME NEW w \in 1..config.workers, Timer(w) \in {"sem", "shm", "msg"} \X Int, objects' = Get(Timer(w), 1, FALSE)
        PROVE  Origin'
    <3> DEFINE t == Timer(w)
               one == 1
               reset == FALSE
    <3>1. /\ t \in {"sem", "shm", "msg"} \X Int /\ objects' = Get(t, one, reset) /\ one \in Nat /\ reset \in BOOLEAN
          /\ t \in Timers(config) /\ one = 1
      BY <2>4 DEF Timers
    <3> HIDE DEF t, one, reset
    <3> QED BY <1>0, <2>2, <3>1, OriginGrows
  <2> QED BY <1>7, <2>3, <2>4, ChildIs
<1>8. ASSUME NEW p \in Children, ChildExit(p) PROVE Origin'
  <2>1. UNCHANGED <<phase, config, dirty>>
    BY <1>8, ExitIs
  <2>2. objects' = objects \/ \E w \in 1..config.workers : objects' = [h \in DOMAIN objects \ {Timer(w)} |-> objects[h]]
    BY <1>8, ExitIs
  <2>3. \A h \in DOMAIN objects' : h \in DOMAIN objects /\ objects'[h].n = objects[h].n
    BY <2>2
  <2>4. Makers \subseteq Makers'
    BY <2>1 DEF Makers
  <2> QED BY <1>0, <2>3, <2>4, OriginStays
<1>9. CASE Deallocate
  <2>1. Makers \subseteq Makers' /\ objects' = objects
    BY <1>9 DEF Deallocate, Makers
  <2> QED BY <1>0, <2>1, OriginStays
<1>10. CASE RemoveObject
  <2> DEFINE h == Handle(config, RemovalsOf(config, added)[pos])
  <2>1. /\ phase = "remove" /\ config' = config
        /\ \/ UNCHANGED objects /\ phase' = "off" /\ dirty' = dirty \cup {config}
           \/ objects' = [g \in DOMAIN objects \ {h} |-> objects[g]] /\ UNCHANGED <<phase, dirty>>
    BY <1>10, RemoveIs
  <2> HIDE DEF h
  <2>2. \A g \in DOMAIN objects' : g \in DOMAIN objects /\ objects'[g].n = objects[g].n
    BY <2>1
  <2>3. Makers \subseteq Makers'
    BY <2>1 DEF Makers
  <2> QED BY <1>0, <2>2, <2>3, OriginStays
<1>11. CASE End
  <2>1. /\ phase = "remove" /\ phase' = "off" /\ dirty' = dirty \ {config} /\ objects' = objects
        /\ pos > Len(Removals(config, users, added))
    BY <1>11 DEF End
  <2>2. pos > Len(RemovalsOf(config, added))
    BY <2>1, GoesOn DEF SetupInv
  <2>3. ASSUME NEW h \in DOMAIN objects PROVE \E c \in Makers' : MadeBy(c, h)'
    <3>1. PICK c \in Makers : MadeBy(c, h)
      BY <1>0 DEF Origin
    <3>2. c # config
      BY <2>1, <2>2, <3>1, EndLeavesNothing
    <3>3. c \in Makers'
      BY <2>1, <3>2 DEF Makers
    <3>4. MadeBy(c, h)'
      BY <2>1, <3>1 DEF MadeBy
    <3> QED BY <3>3, <3>4
  <2> QED BY <2>1, <2>3 DEF Origin
<1>12. CASE Crash
  <2>1. Makers \subseteq Makers' /\ objects' = objects
    BY <1>12 DEF Crash, Makers
  <2> QED BY <1>0, <2>1, OriginStays
<1>13. CASE UNCHANGED vars
  <2>1. Makers \subseteq Makers' /\ objects' = objects
    BY <1>13 DEF vars, Makers
  <2> QED BY <1>0, <2>1, OriginStays
<1>14. CASE ClockStops \/ GetStatsFails
  <2>1. Makers \subseteq Makers' /\ objects' = objects
    BY <1>14 DEF ClockStops, GetStatsFails, Fatal, Makers
  <2> QED BY <1>0, <2>1, OriginStays
<1> QED BY <1>1, <1>2, <1>3, <1>4, <1>5, <1>6, <1>7, <1>8, <1>9, <1>10, <1>11, <1>12, <1>13, <1>14 DEF Next

(* What has been created stays while its object does.                        *)
LEMMA PresentStays ==
  ASSUME NEW i, Present(i), config' = config, phase' \in {phase, "stop"},
         Handle(config, Created(config)[i]) \in DOMAIN objects',
         phase' = phase => objects'[Handle(config, Created(config)[i])].own = objects[Handle(config, Created(config)[i])].own
  PROVE  Present(i)'
BY DEF Present

(* Every step keeps Progress: nobody removes what the children need.         *)
LEMMA KeepsProgress ==
  ASSUME SetupInv, [Next]_vars
  PROVE  Progress'
<1>0. Progress /\ Typed /\ pos \in Nat \ {0}
  BY DEF SetupInv, Typed
<1>a. ASSUME UNCHANGED <<objects, phase, pos, config>> PROVE Progress'
  BY <1>0, <1>a DEF Progress, Present
<1>1. ASSUME NEW c \in Configs, Start(c) PROVE Progress'
  <2>1. config' = c /\ pos' = 1 /\ phase' \in {"off", "init"}
    BY <1>1, StartIs
  <2>2. Len(Created(c)) \in Nat
    BY CreatedAre DEF AllConfigs
  <2>3. pos' <= Len(Created(config')) + 1 /\ 1..pos' - 1 = {}
    BY <2>1, <2>2
  <2> QED BY <2>1, <2>3 DEF Progress
<1>2. CASE CreateObject
  <2> DEFINE o == Created(config)[pos]
             h == Handle(config, o)
             n == o.n
             reset == o.reset
  <2>1. /\ phase = "init" /\ ~Exhausted(config) /\ config \in AllConfigs /\ n \in Nat /\ reset \in BOOLEAN
        /\ h \in {"sem", "shm", "msg"} \X Int /\ config' = config /\ pos \in 1..Len(Created(config)) /\ Len(Created(config)) \in Nat
        /\ \/ phase' = "off"
           \/ objects' = Get(h, n, reset) /\ pos' = pos + 1 /\ UNCHANGED phase
    BY <1>2, CreateIs
  <2>2. CASE phase' = "off"
    BY <2>2 DEF Progress
  <2>3. CASE objects' = Get(h, n, reset) /\ pos' = pos + 1 /\ UNCHANGED phase
    <3>o. o = Created(config)[pos] /\ h = Handle(config, Created(config)[pos]) /\ reset = Created(config)[pos].reset
      OBVIOUS
    <3> HIDE DEF o, h, n, reset
    <3>1. /\ DOMAIN objects' = DOMAIN objects \cup {h}
          /\ \A g \in DOMAIN objects' : g # h => objects'[g] = objects[g]
          /\ h \in DOMAIN objects => objects'[h].own = (objects[h].own \/ reset)
          /\ h \notin DOMAIN objects => objects'[h].own
      BY <1>0, <2>1, <2>3, GetIs
    <3>2. ASSUME NEW i \in 1..pos' - 1 PROVE Present(i)'
      <4>1. i \in 1..Len(Created(config)) /\ (i = pos \/ i \in 1..pos - 1)
        BY <1>0, <2>1, <2>3
      <4>2. CASE i = pos
        <5>1. h \in DOMAIN objects' /\ (reset => objects'[h].own)
          BY <3>1
        <5> QED BY <2>1, <3>o, <4>2, <5>1 DEF Present
      <4>3. CASE i # pos
        <5>1. i \in 1..pos - 1
          BY <4>1, <4>3
        <5>2. Present(i)
          BY <1>0, <2>1, <5>1 DEF Progress
        <5>3. Handle(config, Created(config)[i]) # h
          BY <2>1, <3>o, <4>1, <4>3, CreatedHandles
        <5>4. Handle(config, Created(config)[i]) \in DOMAIN objects
          BY <5>2 DEF Present
        <5>5. Handle(config, Created(config)[i]) \in DOMAIN objects'
              /\ objects'[Handle(config, Created(config)[i])] = objects[Handle(config, Created(config)[i])]
          BY <3>1, <5>3, <5>4
        <5> QED BY <2>1, <2>3, <5>2, <5>5, PresentStays
      <4> QED BY <4>2, <4>3
    <3>3. pos' <= Len(Created(config)) + 1
      BY <2>1, <2>3
    <3> QED BY <2>1, <2>3, <3>2, <3>3 DEF Progress
  <2> QED BY <2>1, <2>2, <2>3
<1>3. CASE InitProcesses
  <2>1. phase = "init" /\ phase' = "run" /\ objects' = objects /\ config' = config /\ pos > Len(Created(config))
    BY <1>3 DEF InitProcesses
  <2>2. config \in AllConfigs /\ Len(Created(config)) \in Nat
    BY <2>1, GoesOn, CreatedAre DEF SetupInv
  <2>3. ASSUME NEW i \in 1..Len(Created(config)) PROVE Present(i)'
    <3>1. i \in 1..pos - 1
      BY <1>0, <2>1, <2>2
    <3>2. Present(i)
      BY <1>0, <2>1, <3>1 DEF Progress
    <3> QED BY <2>1, <3>2 DEF Present
  <2> QED BY <2>1, <2>3 DEF Progress
<1>4. CASE AddUsers
  <2>1. UNCHANGED <<phase, pos, config>> /\ (phase # "off" => objects' = objects)
    BY <1>4, AddUsersIs
  <2>2. CASE phase = "off"
    BY <2>1, <2>2 DEF Progress
  <2>3. CASE phase # "off"
    BY <1>a, <2>1, <2>3
  <2> QED BY <2>2, <2>3
<1>5. CASE InitNewUsers
  BY <1>a, <1>5 DEF InitNewUsers
<1>6. CASE Stop
  <2>1. phase = "run" /\ phase' = "stop" /\ objects' = objects /\ config' = config
    BY <1>6 DEF Stop
  <2>2. ASSUME NEW i \in 1..Len(Created(config)) PROVE Present(i)'
    <3>1. Present(i)
      BY <1>0, <2>1 DEF Progress
    <3> QED BY <2>1, <3>1 DEF Present
  <2> QED BY <2>1, <2>2 DEF Progress
<1>7. ASSUME NEW p \in Children, ChildSetup(p) PROVE Progress'
  <2>1. UNCHANGED <<phase, pos, config>> /\ phase = "run" /\ config \in AllConfigs /\ ~Exhausted(config)
    BY <1>7, ChildIs
  <2>2. CASE objects' = objects
    BY <1>a, <2>1, <2>2
  <2>3. ASSUME NEW w \in 1..config.workers, w \in Nat \ {0}, Timer(w) \in {"sem", "shm", "msg"} \X Int, objects' = Get(Timer(w), 1, FALSE)
        PROVE  Progress'
    <3> DEFINE t == Timer(w)
    <3>0. t \in {"sem", "shm", "msg"} \X Int /\ objects' = Get(t, 1, FALSE) /\ 1 \in Nat /\ FALSE \in BOOLEAN
      BY <2>3
    <3>1. ASSUME NEW i \in 1..Len(Created(config)) PROVE Present(i)'
      <4>1. Present(i)
        BY <1>0, <2>1 DEF Progress
      <4>2. Created(config)[i].name \in Known(config)
        BY <2>1, CreatedAre DEF Entries, Known
      <4>3. Handle(config, Created(config)[i]) # t
        BY <2>1, <2>3, <4>2, TimersApart
      <4> HIDE DEF t
      <4>4. /\ DOMAIN objects' = DOMAIN objects \cup {t}
            /\ \A g \in DOMAIN objects' : g # t => objects'[g] = objects[g]
        BY <1>0, <3>0, GetIs
      <4>5. Handle(config, Created(config)[i]) \in DOMAIN objects
        BY <4>1 DEF Present
      <4> QED BY <2>1, <4>1, <4>3, <4>4, <4>5, PresentStays
    <3> QED BY <2>1, <3>1 DEF Progress
  <2> QED BY <1>7, <2>2, <2>3, ChildIs
<1>8. ASSUME NEW p \in Children, ChildExit(p) PROVE Progress'
  <2>1. UNCHANGED <<phase, pos, config>> /\ phase = "stop" /\ config \in AllConfigs /\ ~Exhausted(config)
    BY <1>8, ExitIs
  <2>2. CASE objects' = objects
    BY <1>a, <2>1, <2>2
  <2>3. ASSUME NEW w \in 1..config.workers, w \in Nat \ {0}, objects' = [h \in DOMAIN objects \ {Timer(w)} |-> objects[h]]
        PROVE  Progress'
    <3>1. ASSUME NEW i \in 1..Len(Created(config)) PROVE Present(i)'
      <4>1. Present(i)
        BY <1>0, <2>1 DEF Progress
      <4>2. Created(config)[i].name \in Known(config)
        BY <2>1, CreatedAre DEF Entries, Known
      <4>3. Handle(config, Created(config)[i]) # Timer(w)
        BY <2>1, <2>3, <4>2, TimersApart
      <4>5. Handle(config, Created(config)[i]) \in DOMAIN objects
        BY <4>1 DEF Present
      <4>6. Handle(config, Created(config)[i]) \in DOMAIN objects'
            /\ objects'[Handle(config, Created(config)[i])] = objects[Handle(config, Created(config)[i])]
        BY <2>3, <4>3, <4>5
      <4> QED BY <2>1, <4>1, <4>6, PresentStays
    <3> QED BY <2>1, <3>1 DEF Progress
  <2> QED BY <1>8, <2>2, <2>3, ExitIs
<1>9. CASE Deallocate
  BY <1>9 DEF Deallocate, Progress
<1>10. CASE RemoveObject
  <2>1. phase' \in {"off", "remove"}
    BY <1>10 DEF RemoveObject, Fatal
  <2> QED BY <2>1 DEF Progress
<1>11. CASE End \/ Crash
  BY <1>11 DEF End, Crash, Progress
<1>12. CASE UNCHANGED vars
  BY <1>a, <1>12 DEF vars
<1>13. CASE ClockStops
  BY <1>a, <1>13 DEF ClockStops
<1>14. CASE GetStatsFails
  BY <1>14 DEF GetStatsFails, Fatal, Progress
<1> QED BY <1>1, <1>2, <1>3, <1>4, <1>5, <1>6, <1>7, <1>8, <1>9, <1>10, <1>11, <1>12, <1>13, <1>14 DEF Next

(* Every step keeps AllOwn.                                                  *)
LEMMA KeepsAllOwn ==
  ASSUME SetupInv, [Next]_vars
  PROVE  AllOwn'
<1>0. AllOwn /\ Typed
  BY DEF SetupInv
<1>a. ASSUME UNCHANGED <<objects, phase, dirty>> PROVE AllOwn'
  BY <1>0, <1>a DEF AllOwn
<1>1. ASSUME NEW c \in Configs, Start(c) PROVE AllOwn'
  <2>1. /\ phase = "off" /\ DOMAIN objects' = DOMAIN objects
        /\ \/ phase' = "off"
           \/ phase' = "init" /\ dirty' = dirty
    BY <1>1, StartIs
  <2>2. dirty = {} => DOMAIN objects = {}
    BY <2>1 DEF SetupInv, Origin, Makers
  <2> QED BY <2>1, <2>2 DEF AllOwn
<1>2. CASE CreateObject
  <2> DEFINE o == Created(config)[pos]
             h == Handle(config, o)
             n == o.n
             reset == o.reset
  <2>1. /\ phase = "init" /\ n \in Nat /\ reset \in BOOLEAN
        /\ h \in {"sem", "shm", "msg"} \X Int
        /\ \/ phase' = "off"
           \/ objects' = Get(h, n, reset) /\ UNCHANGED <<phase, dirty>>
    BY <1>2, CreateIs
  <2> HIDE DEF o, h, n, reset
  <2>2. CASE phase' = "off"
    BY <2>2 DEF AllOwn
  <2>3. CASE objects' = Get(h, n, reset) /\ UNCHANGED <<phase, dirty>>
    <3>1. /\ DOMAIN objects' = DOMAIN objects \cup {h}
          /\ \A g \in DOMAIN objects' : g # h => objects'[g] = objects[g]
          /\ h \in DOMAIN objects => objects'[h].own = (objects[h].own \/ reset)
          /\ h \notin DOMAIN objects => objects'[h].own
      BY <1>0, <2>1, <2>3, GetIs
    <3> QED BY <1>0, <2>1, <2>3, <3>1 DEF AllOwn
  <2> QED BY <2>1, <2>2, <2>3
<1>3. CASE InitProcesses
  <2>1. phase = "init" /\ UNCHANGED <<objects, dirty>>
    BY <1>3 DEF InitProcesses
  <2> QED BY <1>0, <2>1 DEF AllOwn
<1>4. CASE AddUsers
  <2>1. UNCHANGED <<phase, dirty>> /\ (phase # "off" => objects' = objects)
    BY <1>4, AddUsersIs
  <2>2. CASE phase = "off"
    BY <2>1, <2>2 DEF AllOwn
  <2>3. CASE phase # "off"
    BY <1>a, <2>1, <2>3
  <2> QED BY <2>2, <2>3
<1>5. CASE InitNewUsers
  BY <1>a, <1>5 DEF InitNewUsers
<1>6. CASE Stop
  BY <1>6 DEF Stop, AllOwn
<1>7. ASSUME NEW p \in Children, ChildSetup(p) PROVE AllOwn'
  <2>1. UNCHANGED <<phase, dirty>> /\ phase = "run"
    BY <1>7, ChildIs
  <2>2. CASE objects' = objects
    BY <1>a, <2>1, <2>2
  <2>3. ASSUME NEW w \in 1..config.workers, Timer(w) \in {"sem", "shm", "msg"} \X Int, objects' = Get(Timer(w), 1, FALSE)
        PROVE  AllOwn'
    <3> DEFINE t == Timer(w)
    <3>0. t \in {"sem", "shm", "msg"} \X Int /\ objects' = Get(t, 1, FALSE) /\ 1 \in Nat /\ FALSE \in BOOLEAN
      BY <2>3
    <3> HIDE DEF t
    <3>1. /\ DOMAIN objects' = DOMAIN objects \cup {t}
          /\ \A g \in DOMAIN objects' : g # t => objects'[g] = objects[g]
          /\ t \in DOMAIN objects => objects'[t].own = (objects[t].own \/ FALSE)
          /\ t \notin DOMAIN objects => objects'[t].own
      BY <1>0, <3>0, GetIs
    <3> QED BY <1>0, <2>1, <3>1 DEF AllOwn
  <2> QED BY <1>7, <2>2, <2>3, ChildIs
<1>8. ASSUME NEW p \in Children, ChildExit(p) PROVE AllOwn'
  BY <1>8, ExitIs DEF AllOwn
<1>9. CASE Deallocate
  BY <1>9 DEF Deallocate, AllOwn
<1>10. CASE RemoveObject
  <2>1. phase' \in {"off", "remove"}
    BY <1>10 DEF RemoveObject, Fatal
  <2> QED BY <2>1 DEF AllOwn
<1>11. CASE End \/ Crash
  BY <1>11 DEF End, Crash, AllOwn
<1>12. CASE UNCHANGED vars
  BY <1>a, <1>12 DEF vars
<1>13. CASE ClockStops
  BY <1>a, <1>13 DEF ClockStops
<1>14. CASE GetStatsFails
  BY <1>14 DEF GetStatsFails, Fatal, AllOwn
<1> QED BY <1>1, <1>2, <1>3, <1>4, <1>5, <1>6, <1>7, <1>8, <1>9, <1>10, <1>11, <1>12, <1>13, <1>14 DEF Next

(* Every step keeps TimersGone.                                              *)
LEMMA KeepsTimersGone ==
  ASSUME SetupInv, [Next]_vars
  PROVE  TimersGone'
<1>0. TimersGone /\ Crewed /\ Typed
  BY DEF SetupInv
<1>a. ASSUME phase' = phase, args' = args, gone' = gone, phase \in {"stop", "remove"},
             DOMAIN objects' \subseteq DOMAIN objects
      PROVE  TimersGone'
  BY <1>0, <1>a DEF TimersGone
<1>1. ASSUME NEW c \in Configs, Start(c) PROVE TimersGone'
  BY <1>1, StartIs DEF TimersGone
<1>2. CASE CreateObject
  <2>1. phase' \in {"off", "init"}
    BY <1>2 DEF CreateObject, Fatal
  <2> QED BY <2>1 DEF TimersGone
<1>3. CASE InitProcesses
  BY <1>3 DEF InitProcesses, TimersGone
<1>4. CASE AddUsers
  <2>1. UNCHANGED <<phase, args, gone>> /\ DOMAIN objects' = DOMAIN objects
    BY <1>4, AddUsersIs
  <2> QED BY <1>0, <2>1 DEF TimersGone
<1>5. CASE InitNewUsers
  BY <1>5 DEF InitNewUsers, TimersGone
<1>6. CASE Stop
  <2>1. gone' = {}
    BY <1>6 DEF Stop
  <2> QED BY <2>1 DEF TimersGone
<1>7. ASSUME NEW p \in Children, ChildSetup(p) PROVE TimersGone'
  BY <1>7 DEF ChildSetup, TimersGone
<1>8. ASSUME NEW p \in Children, ChildExit(p) PROVE TimersGone'
  <2>1. /\ phase = "stop" /\ UNCHANGED <<phase, config, args>> /\ gone' = gone \cup {p}
        /\ \/ p \notin Workers /\ objects' = objects
           \/ \E w \in 1..config.workers : p = <<"worker", w>> /\ objects' = [h \in DOMAIN objects \ {Timer(w)} |-> objects[h]]
    BY <1>8, ExitIs
  <2>2. ASSUME NEW v \in DOMAIN args, <<"worker", v>> \in gone' PROVE Timer(v) \notin DOMAIN objects'
    <3>1. DOMAIN objects' \subseteq DOMAIN objects
      BY <2>1
    <3>2. CASE <<"worker", v>> \in gone
      BY <1>0, <2>1, <3>1, <3>2 DEF TimersGone
    <3>3. CASE <<"worker", v>> = p
      <4>1. p \in Workers
        BY <3>3 DEF Workers
      <4>2. PICK w \in 1..config.workers : p = <<"worker", w>> /\ objects' = [h \in DOMAIN objects \ {Timer(w)} |-> objects[h]]
        BY <2>1, <4>1
      <4>3. w = v
        BY <3>3, <4>2
      <4> QED BY <4>2, <4>3
    <3> QED BY <2>1, <2>2, <3>2, <3>3
  <2> QED BY <2>1, <2>2 DEF TimersGone
<1>9. CASE Deallocate
  <2>1. phase = "stop" /\ UNCHANGED <<objects, args, gone>>
    BY <1>9 DEF Deallocate
  <2> QED BY <1>0, <2>1 DEF TimersGone
<1>10. CASE RemoveObject
  <2> DEFINE h == Handle(config, RemovalsOf(config, added)[pos])
  <2>1. /\ phase = "remove" /\ UNCHANGED <<args, gone>>
        /\ \/ phase' = "off"
           \/ objects' = [g \in DOMAIN objects \ {h} |-> objects[g]] /\ UNCHANGED phase
    BY <1>10, RemoveIs
  <2> HIDE DEF h
  <2>2. CASE phase' = "off"
    BY <2>2 DEF TimersGone
  <2>3. CASE objects' = [g \in DOMAIN objects \ {h} |-> objects[g]] /\ UNCHANGED phase
    BY <1>a, <2>1, <2>3
  <2> QED BY <2>1, <2>2, <2>3
<1>11. CASE End \/ Crash
  BY <1>11 DEF End, Crash, TimersGone
<1>12. CASE UNCHANGED vars
  BY <1>0, <1>12 DEF vars, TimersGone
<1>13. CASE ClockStops \/ GetStatsFails
  BY <1>13 DEF ClockStops, GetStatsFails, Fatal, TimersGone
<1> QED BY <1>1, <1>2, <1>3, <1>4, <1>5, <1>6, <1>7, <1>8, <1>9, <1>10, <1>11, <1>12, <1>13 DEF Next

(* Every step keeps Removing: nothing is removed twice or left out.          *)
LEMMA KeepsRemoving ==
  ASSUME SetupInv, [Next]_vars
  PROVE  Removing'
<1>0. Removing /\ Typed /\ pos \in Nat \ {0}
  BY DEF SetupInv, Typed
<1>a. ASSUME UNCHANGED <<objects, phase, pos, config, added>> PROVE Removing'
  BY <1>0, <1>a DEF Removing
<1>1. ASSUME NEW c \in Configs, Start(c) PROVE Removing'
  BY <1>1, StartIs DEF Removing
<1>2. CASE CreateObject
  <2>1. phase' \in {"off", "init"}
    BY <1>2 DEF CreateObject, Fatal
  <2> QED BY <2>1 DEF Removing
<1>3. CASE InitProcesses
  BY <1>3 DEF InitProcesses, Removing
<1>4. CASE AddUsers
  <2>1. UNCHANGED <<phase, pos, config, added>> /\ (phase # "off" => objects' = objects)
    BY <1>4, AddUsersIs
  <2>2. CASE phase = "off"
    BY <2>1, <2>2 DEF Removing
  <2>3. CASE phase # "off"
    BY <1>a, <2>1, <2>3
  <2> QED BY <2>2, <2>3
<1>5. CASE InitNewUsers
  BY <1>5 DEF InitNewUsers, Removing
<1>6. CASE Stop
  BY <1>6 DEF Stop, Removing
<1>7. ASSUME NEW p \in Children, ChildSetup(p) \/ ChildExit(p) PROVE Removing'
  <2>1. phase' \in {"run", "stop"}
    BY <1>7 DEF ChildSetup, ChildExit
  <2> QED BY <2>1 DEF Removing
<1>8. CASE Deallocate
  <2>1. phase = "stop" /\ phase' = "remove" /\ pos' = 1 /\ UNCHANGED <<objects, config, added>>
    BY <1>8 DEF Deallocate
  <2>2. Len(RemovalsOf(config, added)) \in Nat
    BY <2>1, GoesOn, RemovalsAre DEF SetupInv
  <2>3. \A i \in 1..Len(Created(config)) : Handle(config, Created(config)[i]) \in DOMAIN objects
    BY <2>1 DEF SetupInv, Progress, Present
  <2>4. pos' <= Len(RemovalsOf(config, added)) + 1 /\ 1..pos' - 1 = {}
    BY <2>1, <2>2
  <2> QED BY <2>1, <2>3, <2>4 DEF Removing
<1>9. CASE RemoveObject
  <2> DEFINE r == RemovalsOf(config, added)[pos]
             h == Handle(config, r)
             s == RemovalsOf(config, added)
  <2>1. /\ phase = "remove" /\ UNCHANGED <<config, added>> /\ config \in AllConfigs /\ ~Exhausted(config)
        /\ r.name \in Known(config) /\ Len(s) \in Nat /\ pos \in 1..Len(s)
        /\ \/ phase' = "off"
           \/ objects' = [g \in DOMAIN objects \ {h} |-> objects[g]] /\ pos' = pos + 1 /\ UNCHANGED phase
    BY <1>9, RemoveIs
  <2>2. CASE phase' = "off"
    BY <2>2 DEF Removing
  <2>3. CASE objects' = [g \in DOMAIN objects \ {h} |-> objects[g]] /\ pos' = pos + 1 /\ UNCHANGED phase
    <3>0. r = s[pos] /\ h = Handle(config, s[pos]) /\ h = Handle(config, r) /\ s = RemovalsOf(config, added)
      OBVIOUS
    <3> HIDE DEF r, h, s
    <3>1. pos' <= Len(s) + 1 /\ \A j \in 1..pos' - 1 : j = pos \/ j \in 1..pos - 1
      BY <1>0, <2>1, <2>3
    <3>2. pos \in 1..pos' - 1 /\ \A j \in 1..pos - 1 : j \in 1..pos' - 1
      BY <1>0, <2>1, <2>3
    <3>3. ASSUME NEW j \in 1..pos' - 1 PROVE Handle(config, s[j]) \notin DOMAIN objects'
      <4>1. CASE j = pos
        BY <2>3, <3>0, <4>1
      <4>2. CASE j \in 1..pos - 1
        BY <1>0, <2>1, <2>3, <3>0, <4>2 DEF Removing
      <4> QED BY <3>1, <4>1, <4>2
    <3>4. ASSUME NEW i \in 1..Len(Created(config))
          PROVE  \/ Handle(config, Created(config)[i]) \in DOMAIN objects'
                 \/ \E j \in 1..pos' - 1 : Key(s[j]) = Key(Created(config)[i])
      <4> DEFINE k == Handle(config, Created(config)[i])
      <4>1. k \in DOMAIN objects \/ \E j \in 1..pos - 1 : Key(s[j]) = Key(Created(config)[i])
        BY <1>0, <2>1, <3>0 DEF Removing
      <4>2. CASE k = h
        <5>1. Created(config)[i].name \in Known(config)
          BY <2>1, CreatedAre DEF Entries, Known
        <5>2. Key(Created(config)[i]) = Key(r)
          BY <2>1, <3>0, <4>2, <5>1, HandlesDiffer
        <5> QED BY <3>0, <3>2, <5>2
      <4>3. CASE k # h
        BY <2>3, <3>2, <4>1, <4>3
      <4> QED BY <4>2, <4>3
    <3> QED BY <2>1, <2>3, <3>0, <3>1, <3>3, <3>4 DEF Removing
  <2> QED BY <2>1, <2>2, <2>3
<1>10. CASE End \/ Crash
  BY <1>10 DEF End, Crash, Removing
<1>11. CASE UNCHANGED vars
  BY <1>a, <1>11 DEF vars
<1>12. CASE ClockStops \/ GetStatsFails
  BY <1>12 DEF ClockStops, GetStatsFails, Fatal, Removing
<1> QED BY <1>1, <1>2, <1>3, <1>4, <1>5, <1>6, <1>7, <1>8, <1>9, <1>10, <1>11, <1>12 DEF Next

(* The manager does not give up on what the same configuration has left.     *)
LEMMA CreateGoesOn ==
  ASSUME SetupInv, CreateObject, phase' = "off", Servable(config)
  PROVE  dirty \ {config} # {}
<1> DEFINE o == Created(config)[pos]
           h == Handle(config, o)
<1>1. /\ phase = "init" /\ config \in AllConfigs /\ ~Exhausted(config) /\ pos \in 1..Len(Created(config))
      /\ o \in Entries(config) /\ o.n \in Nat /\ o.name \in Known(config)
      /\ Refused(h, o.n) /\ dirty' = dirty \cup {config}
  BY CreateIs
<1>2. o = Created(config)[pos] /\ h = Handle(config, Created(config)[pos])
  OBVIOUS
<1> HIDE DEF o, h
<1>3. ASSUME dirty \ {config} = {} PROVE FALSE
  <2>1. o.n > 0
    BY <1>1 DEF Entries, Servable, CanServe
  <2>2. h \in DOMAIN objects /\ objects[h].n < o.n
    BY <1>1, <2>1 DEF Refused
  <2>3. MadeBy(config, h)
    BY <1>1, <1>3, <2>2 DEF SetupInv, Origin, Makers
  <2>4. h \notin Timers(config)
    <3> SUFFICES ASSUME NEW w \in 1..config.workers, h = Timer(w) PROVE FALSE
      BY DEF Timers
    <3>1. w \in Nat \ {0}
      BY <1>1, ConfigTyped
    <3>2. Handle(config, o) # Timer(w)
      BY <1>1, <3>1, TimersApart
    <3> QED BY <1>2, <3>2
  <2>5. PICK i \in 1..Len(Created(config)) : h = Handle(config, Created(config)[i]) /\ objects[h].n = Created(config)[i].n
    BY <2>3, <2>4 DEF MadeBy
  <2>6. i = pos
    BY <1>1, <1>2, <2>5, CreatedHandles
  <2>7. objects[h].n = o.n
    BY <1>2, <2>5, <2>6
  <2> QED BY <1>1, <2>2, <2>7
<1> QED BY <1>3

(* The manager does not give up while it removes.                            *)
LEMMA RemoveGoesOn ==
  ASSUME SetupInv, RemoveObject, phase' = "off", Servable(config)
  PROVE  FALSE
<1> DEFINE s == RemovalsOf(config, added)
           r == s[pos]
           h == Handle(config, r)
<1>1. /\ phase = "remove" /\ config \in AllConfigs /\ ~Exhausted(config) /\ added \in BOOLEAN
      /\ pos \in 1..Len(s) /\ Len(s) \in Nat /\ r.name \in Known(config)
      /\ h \notin Handles(config) \cap DOMAIN objects
  BY RemoveIs
<1>2. Key(r) \in CreatedKeys(config)
  BY <1>1, RemovalsAre DEF Servable
<1>3. PICK i \in 1..Len(Created(config)) : Key(Created(config)[i]) = Key(r)
  BY <1>1, <1>2, CreatedAre
<1>4. Created(config)[i].name \in Known(config)
  BY <1>1, CreatedAre DEF Entries, Known
<1>5. Handle(config, Created(config)[i]) = h
  BY <1>1, <1>3, <1>4, HandlesDiffer
<1>6. h \in Handles(config)
  BY <1>1, <1>5, CreatedHandles
<1>7. PICK j \in 1..pos - 1 : Key(s[j]) = Key(Created(config)[i])
  BY <1>1, <1>5, <1>6 DEF SetupInv, Removing
<1>8. j = pos
  <2>1. j \in 1..Len(s) /\ Key(s[j]) = Key(s[pos])
    BY <1>1, <1>3, <1>7
  <2> QED BY <1>1, <2>1, RemovalsAre
<1> QED BY <1>1, <1>8

(* Once the children run, mail is from earlier runs that have left something. *)
LEMMA LeftoversAreLeft ==
  ASSUME SetupInv, phase = "run", NEW name, HasLeftovers(name)
  PROVE  dirty # {}
BY DEF SetupInv, AllOwn, HasLeftovers

(* SetupInv is an invariant: it holds at first and every step keeps it.      *)
THEOREM SetupInvariant == Spec => []SetupInv
<1>1. Init => SetupInv
  BY InitIsInv
<1>2. SetupInv /\ [Next]_vars => SetupInv'
  <2> SUFFICES ASSUME SetupInv, [Next]_vars PROVE SetupInv'
    OBVIOUS
  <2>1. Typed' /\ Running' /\ Crewed' /\ Origin'
    BY KeepsTyped, KeepsRunning, KeepsCrewed, KeepsOrigin
  <2>2. Progress' /\ AllOwn' /\ TimersGone' /\ Removing'
    BY KeepsProgress, KeepsAllOwn, KeepsTimersGone, KeepsRemoving
  <2> QED BY <2>1, <2>2 DEF SetupInv
<1> QED BY <1>1, <1>2, PTL DEF Spec

----------------------------------------------------------------------------
(* WHAT FOLLOWS                                                              *)

(* Every variable keeps its type, whatever is started, interrupted and       *)
(* removed (shm_init, sem_init, msg_init and their counterparts).            *)
THEOREM SetupTyped == Spec => []SetupTypeOK
<1>1. SetupInv => SetupTypeOK
  BY DEF SetupInv, Typed, Crewed, SetupTypeOK, AllConfigs
<1> QED BY <1>1, SetupInvariant, PTL

(* In every run different objects have different keys, the timers of the     *)
(* workers keys apart from them, and add_users, which knows nothing of the   *)
(* configuration, gets the key of SEM_ADD_USERS right (ftok_key_init).       *)
THEOREM SetupKeysAgree == Spec => []KeysAgree
<1>1. ASSUME SetupInv, phase # "off"
      PROVE  /\ Cardinality(Handles(config)) = Len(Created(config))
             /\ Timers(config) \cap Handles(config) = {}
             /\ ADD_USERS(NoConfig) = ADD_USERS(config)
  <2>1. config \in AllConfigs /\ ~Exhausted(config)
    BY <1>1, GoesOn DEF SetupInv
  <2>2. ASSUME NEW w \in 1..config.workers, Timer(w) \in Handles(config) PROVE FALSE
    <3>1. PICK i \in 1..Len(Created(config)) : Timer(w) = Handle(config, Created(config)[i])
      BY <2>1, <2>2, CreatedHandles
    <3>2. Created(config)[i].name \in Known(config)
      BY <2>1, CreatedAre DEF Entries, Known
    <3>3. w \in Nat \ {0}
      BY <2>1, ConfigTyped
    <3> QED BY <2>1, <3>1, <3>2, <3>3, TimersApart
  <2>3. Timers(config) \cap Handles(config) = {}
    BY <2>2 DEF Timers
  <2> QED BY <2>1, <2>3, HandlesCounted, AddUsersAgree
<1>2. SetupInv => KeysAgree
  BY <1>1 DEF KeysAgree
<1> QED BY <1>2, SetupInvariant, PTL

(* The children of a run find what the manager resets without anything of an *)
(* earlier run, however that one ended, and everything so when none has left *)
(* anything (the SETVAL and the clearing after every semget and shmget).     *)
THEOREM SetupFreshStart == Spec => []FreshStart
<1>1. ASSUME SetupInv, phase = "run", NEW o \in Range(Created(config)), o.reset \/ dirty = {}
      PROVE  Handle(config, o) \in DOMAIN objects /\ objects[Handle(config, o)].own
  <2>1. config \in AllConfigs
    BY <1>1, GoesOn DEF SetupInv
  <2>2. PICK i \in 1..Len(Created(config)) : o = Created(config)[i]
    BY <2>1, CreatedAre
  <2>3. Present(i)
    BY <1>1 DEF SetupInv, Progress
  <2>4. Handle(config, o) \in DOMAIN objects /\ (o.reset => objects[Handle(config, o)].own)
    BY <1>1, <2>2, <2>3 DEF Present
  <2>5. dirty = {} => objects[Handle(config, o)].own
    BY <1>1, <2>4 DEF SetupInv, AllOwn
  <2> QED BY <1>1, <2>4, <2>5
<1>2. SetupInv => FreshStart
  BY <1>1 DEF FreshStart
<1> QED BY <1>2, SetupInvariant, PTL

(* An object that outlives the runs was left by one that did not end well:   *)
(* what is removed at the end is all that was created (sem_deallocate,       *)
(* shm_deallocate, msg_deallocate and the exit of the workers).              *)
THEOREM SetupNothingLeft == Spec => []NothingLeft
<1>1. ASSUME SetupInv, phase = "off", NEW h \in DOMAIN objects
      PROVE  \E c \in dirty : h \in Handles(c) \cup Timers(c)
  <2>1. PICK c \in dirty : MadeBy(c, h)
    BY <1>1 DEF SetupInv, Origin, Makers
  <2>2. c \in AllConfigs
    BY <1>1, <2>1 DEF SetupInv, Typed, AllConfigs
  <2>3. ASSUME ~Exhausted(c), NEW i \in 1..Len(Created(c)), h = Handle(c, Created(c)[i]) PROVE h \in Handles(c)
    BY <2>2, <2>3, CreatedHandles
  <2> QED BY <2>1, <2>3 DEF MadeBy
<1>2. SetupInv => NothingLeft
  BY <1>1 DEF NothingLeft
<1> QED BY <1>2, SetupInvariant, PTL

(* The manager's creations and removals fail only with a configuration that  *)
(* cannot be served or on objects another one has left (log_fatal of the     *)
(* manager's setup and end): those of the same configuration fit.  During    *)
(* the days the clock stops and get_stats fails only on leftovers.           *)
THEOREM SetupFatalOnlyWhen == Spec => FatalOnlyWhen
<1>1. ASSUME SetupInv, Next, phase \in {"init", "remove"}, phase' = "off", ended' = "fatal"
      PROVE  ~Servable(config) \/ dirty \ {config} # {}
  <2>1. CreateObject \/ RemoveObject
    BY <1>1 DEF Next, Start, InitProcesses, AddUsers, InitNewUsers, Stop, ClockStops, GetStatsFails,
       ChildSetup, ChildExit, Deallocate, End, Crash
  <2> QED BY <1>1, <2>1, CreateGoesOn, RemoveGoesOn
<1>2. ASSUME SetupInv, Next, phase = "run", (phase' = "off" /\ ended' = "fatal") \/ gone' # gone
      PROVE  dirty # {}
  <2>1. ClockStops \/ GetStatsFails
    BY <1>2 DEF Next, Start, CreateObject, InitProcesses, AddUsers, InitNewUsers, Stop,
       ChildSetup, ChildExit, Deallocate, RemoveObject, End, Crash
  <2> QED BY <1>2, <2>1, LeftoversAreLeft DEF ClockStops, GetStatsFails
<1>3. SetupInv /\ [Next]_vars =>
        [/\ phase \in {"init", "remove"} /\ phase' = "off" /\ ended' = "fatal" =>
              ~Servable(config) \/ dirty \ {config} # {}
         /\ phase = "run" /\ phase' = "off" /\ ended' = "fatal" => dirty # {}
         /\ phase = "run" /\ gone' # gone => dirty # {}]_vars
  BY <1>1, <1>2
<1> QED BY <1>3, SetupInvariant, PTL DEF Spec, FatalOnlyWhen

(* While the children run the workers and the seats are shared out as they   *)
(* should be, for every number of them and of services                       *)
(* (utils_assign_count_array, init_workers, get_bounds_serv).                *)
THEOREM SetupStaffed == Spec => []Staffed
<1>1. ASSUME SetupInv, phase = "run" PROVE Staffed
  <2>1. config \in AllConfigs /\ Shared
    BY <1>1 DEF SetupInv, Typed, Crewed
  <2> QED BY <2>1, SharedIsStaffed
<1>2. SetupInv => Staffed
  <2>1. phase # "run" => Staffed
    BY DEF Staffed
  <2> QED BY <1>1, <2>1
<1> QED BY <1>2, SetupInvariant, PTL
=============================================================================
