------------------------ MODULE StatsChannel_proofs ------------------------
(***************************************************************************)
(* The metadata queue bounds the data queue, for any number of senders,    *)
(* reports, days and any capacity.                                         *)
(***************************************************************************)
EXTENDS StatsChannel, FiniteSetTheorems, TLAPS

(* Announced in the metadata queue, but the data not sent yet.               *)
Pending == {p \in Senders : pc[p] = "data"}
Awaited == IF awaited = NoStats THEN 0 ELSE 1

QueuesTyped ==
  /\ metadata \in Seq(Announcements)
  /\ awaited \in Announcements \cup {NoStats}
  /\ pc \in [Senders -> {"metadata", "data", "refused"}]
  /\ next \in [Senders -> Nat]

(* Whatever is in the data queue, or about to be, is still announced.        *)
Announced ==
  /\ IsFiniteSet(data)
  /\ Cardinality(data) + Cardinality(Pending) <= Len(metadata) + Awaited

ChannelInv == QueuesTyped /\ Announced /\ Len(metadata) <= MetaCap

LEMMA SendersAreFinite ==
  /\ IsFiniteSet(Senders)
  /\ IsFiniteSet(Pending) /\ Cardinality(Pending) \in Nat
  /\ IsFiniteSet(data) => Cardinality(data) \in Nat
<1>1. IsFiniteSet(UserIds)
  <2>1. IsFiniteSet(0..(NOF_USERS + N_NEW_USERS - 1))
    BY ChannelAssumption, FS_Interval
  <2>2. UserIds \in SUBSET (0..(NOF_USERS + N_NEW_USERS - 1))
    BY ChannelAssumption
  <2> QED BY <2>1, <2>2, FS_Subset
<1>2. IsFiniteSet(0..(NOF_WORKERS - 1))
  BY ChannelAssumption, FS_Interval
<1>3. IsFiniteSet({"user"}) /\ IsFiniteSet({"worker"})
  BY FS_Singleton
<1>4. IsFiniteSet(UserSenders) /\ IsFiniteSet(WorkerSenders)
  BY <1>1, <1>2, <1>3, FS_Product DEF UserSenders, WorkerSenders
<1>5. IsFiniteSet(Senders)
  BY <1>4, FS_Union DEF Senders
<1>6. IsFiniteSet(Pending)
  BY <1>5, FS_Subset DEF Pending
<1> QED BY <1>5, <1>6, FS_CardinalityType

(* The types of the reports are natural numbers.                             *)
LEMMA StatsTypeIsNat ==
  ASSUME NEW p \in Senders, NEW i \in Nat
  PROVE  StatsType(p, i) \in Nat /\ p[1] \in {"user", "worker"}
<1>1. CASE p \in UserSenders
  <2>1. p[1] = "user" /\ p[2] \in Nat
    <3>1. UserIds \subseteq Nat
      BY ChannelAssumption
    <3> QED BY <1>1, <3>1 DEF UserSenders
  <2>2. p[2] * SERV_NUM \in Nat
    BY <2>1, ChannelAssumption
  <2> QED BY <2>1, <2>2 DEF StatsType
<1>2. CASE p \in WorkerSenders
  <2>1. p[1] = "worker" /\ p[2] \in Nat
    BY <1>2, ChannelAssumption DEF WorkerSenders
  <2>2. (NOF_USERS + N_NEW_USERS) * (SERV_NUM + 3) \in Nat
    BY ChannelAssumption
  <2> QED BY <2>1, <2>2 DEF StatsType
<1> QED BY <1>1, <1>2 DEF Senders

(* No two reports have the same type: the users' are numbered in rows of     *)
(* SERV_NUM and end before the workers' begin (user.c:84, worker.c:95).      *)
THEOREM StatsTypesDiffer ==
  ASSUME NEW p \in Senders, NEW i \in Nat, i < NofReports(p),
         NEW q \in Senders, NEW j \in Nat, j < NofReports(q),
         StatsType(p, i) = StatsType(q, j)
  PROVE  p = q /\ i = j
<1> DEFINE U == NOF_USERS + N_NEW_USERS
<1>1. /\ U \in Nat /\ SERV_NUM \in Nat
      /\ UserIds \subseteq Nat /\ \A u \in UserIds : u + 1 <= U
  BY ChannelAssumption
<1>2. ASSUME NEW u \in Senders, NEW k \in Nat, k < NofReports(u), u \in UserSenders
      PROVE  /\ u = <<"user", u[2]>> /\ u[2] \in Nat /\ k < SERV_NUM
             /\ StatsType(u, k) = 1 + u[2] * SERV_NUM + k
             /\ StatsType(u, k) <= U * SERV_NUM
  <2>1. u = <<"user", u[2]>> /\ u[2] \in UserIds
    BY <1>2 DEF UserSenders
  <2>2. k < SERV_NUM /\ u[2] \in Nat /\ u[2] + 1 <= U
    <3>1. u[1] = "user"
      BY <2>1
    <3> QED BY <1>1, <1>2, <2>1, <3>1 DEF NofReports
  <2>3. (u[2] + 1) * SERV_NUM <= U * SERV_NUM
    BY <1>1, <2>2
  <2>4. StatsType(u, k) = 1 + u[2] * SERV_NUM + k
    BY <2>1 DEF StatsType
  <2>5. (u[2] + 1) * SERV_NUM = u[2] * SERV_NUM + SERV_NUM
    BY <1>1, <2>2
  <2>6. /\ u[2] * SERV_NUM \in Nat /\ U * SERV_NUM \in Nat
    BY <1>1, <2>2
  <2> QED BY <1>1, <2>1, <2>2, <2>3, <2>4, <2>5, <2>6
<1>3. ASSUME NEW w \in Senders, NEW k \in Nat, k < NofReports(w), w \in WorkerSenders
      PROVE  /\ w = <<"worker", w[2]>> /\ w[2] \in Nat /\ k = 0
             /\ StatsType(w, k) = U * (SERV_NUM + 3) + 1 + w[2]
             /\ StatsType(w, k) > U * SERV_NUM
  <2>1. w = <<"worker", w[2]>> /\ w[2] \in Nat
    BY <1>3, ChannelAssumption DEF WorkerSenders
  <2>2. k = 0 /\ StatsType(w, k) = U * (SERV_NUM + 3) + 1 + w[2]
    BY <1>3, <2>1 DEF StatsType, NofReports
  <2>3. U * (SERV_NUM + 3) = U * SERV_NUM + U * 3 /\ U * SERV_NUM \in Nat /\ U * 3 \in Nat
    BY <1>1
  <2> QED BY <1>1, <2>1, <2>2, <2>3
<1>4. CASE p \in UserSenders /\ q \in UserSenders
  <2>1. p[2] * SERV_NUM + i = q[2] * SERV_NUM + j
    <3>1. p[2] * SERV_NUM \in Nat /\ q[2] * SERV_NUM \in Nat
      BY <1>1, <1>2, <1>4
    <3> QED BY <1>2, <1>4, <3>1
  <2>2. ASSUME NEW a \in Nat, NEW b \in Nat, NEW k \in Nat, NEW l \in Nat, l < SERV_NUM,
               a * SERV_NUM + k = b * SERV_NUM + l
        PROVE  ~(a > b)
    <3> SUFFICES ASSUME a >= b + 1 PROVE FALSE
      OBVIOUS
    <3>1. a * SERV_NUM >= (b + 1) * SERV_NUM
      BY <1>1
    <3>2. (b + 1) * SERV_NUM = b * SERV_NUM + SERV_NUM
      BY <1>1
    <3>3. a * SERV_NUM \in Nat /\ b * SERV_NUM \in Nat
      BY <1>1
    <3> QED BY <1>1, <2>2, <3>1, <3>2, <3>3
  <2>3. p[2] \in Nat /\ q[2] \in Nat /\ i < SERV_NUM /\ j < SERV_NUM
    BY <1>2, <1>4
  <2>4. ~(p[2] > q[2])
    BY <2>1, <2>2, <2>3
  <2>5. ~(q[2] > p[2])
    BY <2>1, <2>2, <2>3
  <2>6. p[2] = q[2]
    BY <2>3, <2>4, <2>5
  <2>7. i = j
    <3>1. q[2] * SERV_NUM \in Nat
      BY <1>1, <2>3
    <3> QED BY <2>1, <2>6, <3>1
  <2>8. p = <<"user", p[2]>> /\ q = <<"user", q[2]>>
    BY <1>2, <1>4
  <2> QED BY <2>6, <2>7, <2>8, Zenon
<1>5. CASE p \in WorkerSenders /\ q \in WorkerSenders
  <2>1. U * (SERV_NUM + 3) \in Nat
    BY <1>1
  <2> QED BY <1>3, <1>5, <2>1
<1>6. CASE \/ p \in UserSenders /\ q \in WorkerSenders
           \/ p \in WorkerSenders /\ q \in UserSenders
  <2>1. U * SERV_NUM \in Nat
    BY <1>1
  <2>2. StatsType(p, i) \in Nat /\ StatsType(q, j) = StatsType(p, i)
    BY StatsTypeIsNat
  <2>3. CASE p \in UserSenders /\ q \in WorkerSenders
    <3>1. StatsType(p, i) <= U * SERV_NUM
      BY <1>2, <2>3
    <3>2. StatsType(q, j) > U * SERV_NUM
      BY <1>3, <2>3
    <3> QED BY <2>1, <2>2, <3>1, <3>2
  <2>4. CASE p \in WorkerSenders /\ q \in UserSenders
    <3>1. StatsType(q, j) <= U * SERV_NUM
      BY <1>2, <2>4
    <3>2. StatsType(p, i) > U * SERV_NUM
      BY <1>3, <2>4
    <3> QED BY <2>1, <2>2, <3>1, <3>2
  <2> QED BY <1>6, <2>3, <2>4
<1> QED BY <1>4, <1>5, <1>6 DEF Senders

LEMMA Init_ChannelInv == Init => ChannelInv
<1> SUFFICES ASSUME Init PROVE ChannelInv
  OBVIOUS
<1>1. data = {} /\ Pending = {} /\ metadata = <<>>
  BY DEF Init, Pending
<1>2. Announced
  BY <1>1, FS_EmptySet DEF Announced, Init, Awaited
<1> QED
  BY <1>1, <1>2, ChannelAssumption DEF Init, ChannelInv, QueuesTyped

LEMMA SendMetadata_Inv ==
  ASSUME ChannelInv, NEW p \in Senders, SendMetadata(p)
  PROVE  ChannelInv'
<1> USE DEF ChannelInv
<1>1. PICK a \in Announcements : metadata' = Append(metadata, a)
  BY StatsTypeIsNat DEF SendMetadata, Announcements, QueuesTyped
<1>2. Len(metadata') = Len(metadata) + 1 /\ metadata' \in Seq(Announcements)
  BY <1>1 DEF QueuesTyped
<1>3. Len(metadata') <= MetaCap
  BY <1>2, ChannelAssumption DEF SendMetadata, MetadataFits, QueuesTyped
<1>4. QueuesTyped'
  BY <1>2 DEF SendMetadata, QueuesTyped
<1>5. Pending' = Pending \cup {p} /\ p \notin Pending
  BY DEF SendMetadata, QueuesTyped, Pending
<1>6. Cardinality(Pending') = Cardinality(Pending) + 1
  BY <1>5, SendersAreFinite, FS_AddElement
<1>7. Announced'
  BY <1>2, <1>6, SendersAreFinite DEF Announced, Awaited, SendMetadata, QueuesTyped
<1> QED BY <1>3, <1>4, <1>7

LEMMA SendData_Inv ==
  ASSUME ChannelInv, NEW p \in Senders, SendData(p)
  PROVE  ChannelInv'
<1> USE DEF ChannelInv
<1>1. /\ UNCHANGED <<metadata, awaited>>
      /\ pc' = [pc EXCEPT ![p] = "metadata"] \/ pc' = [pc EXCEPT ![p] = "refused"]
      /\ data' = data \cup {Report(p)} \/ data' = data
      /\ pc[p] = "data"
  BY DEF SendData, Refused
<1>2. next' \in [Senders -> Nat]
  <2>1. NofReports(p) \in Nat \ {0}
    BY ChannelAssumption DEF NofReports
  <2>2. (next[p] + 1) % NofReports(p) \in Nat
    BY <2>1 DEF QueuesTyped
  <2> QED BY <2>2 DEF SendData, Refused, QueuesTyped
<1>3. QueuesTyped'
  BY <1>1, <1>2 DEF QueuesTyped
<1>4. Pending' = Pending \ {p} /\ p \in Pending
  BY <1>1 DEF QueuesTyped, Pending
<1>5. Cardinality(Pending') = Cardinality(Pending) - 1
  BY <1>4, SendersAreFinite, FS_RemoveElement
<1>6. IsFiniteSet(data') /\ Cardinality(data') <= Cardinality(data) + 1
  <2>1. IsFiniteSet(data) /\ Cardinality(data) \in Nat
    BY SendersAreFinite DEF Announced
  <2>2. CASE data' = data \cup {Report(p)}
    <3> DEFINE new == Report(p)
    <3>1. data' = data \cup {new}
      BY <2>2
    <3> HIDE DEF new
    <3> QED BY <2>1, <3>1, FS_AddElement
  <2> QED BY <1>1, <2>1, <2>2
<1>7. Cardinality(data') \in Nat
  BY <1>6, FS_CardinalityType
<1>8. Announced'
  BY <1>1, <1>5, <1>6, <1>7, SendersAreFinite DEF Announced, Awaited, QueuesTyped
<1> QED BY <1>1, <1>3, <1>8

LEMMA Manager_Inv ==
  ASSUME ChannelInv, ManagerStep
  PROVE  ChannelInv'
<1> USE DEF ChannelInv
<1>0. pc' = pc /\ next' = next /\ Pending' = Pending
  BY DEF ManagerStep, ReceiveMetadata, ReceiveData, DayCounted, senders, Pending
<1>1. CASE ReceiveMetadata
  <2>1. /\ Head(metadata) \in Announcements /\ Tail(metadata) \in Seq(Announcements)
        /\ Len(Tail(metadata)) = Len(metadata) - 1
    BY <1>1 DEF ReceiveMetadata, QueuesTyped
  <2>2. Awaited = 0 /\ Awaited' = 1
    BY <1>1, <2>1 DEF ReceiveMetadata, Awaited, Announcements, NoStats
  <2>3. Announced'
    BY <1>0, <1>1, <2>1, <2>2, SendersAreFinite DEF ReceiveMetadata, Announced, QueuesTyped
  <2> QED
    BY <1>0, <1>1, <2>1, <2>3, ChannelAssumption DEF ReceiveMetadata, QueuesTyped
<1>2. CASE ReceiveData
  <2>1. PICK d \in data : data' = data \ {d}
    BY <1>2 DEF ReceiveData
  <2>2. IsFiniteSet(data') /\ Cardinality(data') = Cardinality(data) - 1
    BY <2>1, FS_RemoveElement DEF Announced
  <2>3. Awaited = 1 /\ Awaited' = 0
    BY <1>2 DEF ReceiveData, Awaited
  <2>4. Announced'
    BY <1>0, <1>2, <2>2, <2>3, SendersAreFinite DEF ReceiveData, Announced, QueuesTyped
  <2> QED
    BY <1>0, <1>2, <2>4 DEF ReceiveData, QueuesTyped
<1>3. CASE DayCounted
  BY <1>0, <1>3 DEF DayCounted, QueuesTyped, Announced, Awaited
<1> QED BY <1>1, <1>2, <1>3 DEF ManagerStep

LEMMA ChannelInvHolds == Spec => []ChannelInv
<1>1. ChannelInv /\ [Next]_vars => ChannelInv'
  <2> SUFFICES ASSUME ChannelInv, [Next]_vars PROVE ChannelInv'
    OBVIOUS
  <2>1. CASE UNCHANGED vars
    BY <2>1 DEF vars, ChannelInv, QueuesTyped, Announced, Awaited, Pending
  <2>2. ASSUME NEW p \in Senders, SenderStep(p) PROVE ChannelInv'
    BY <2>2, SendMetadata_Inv, SendData_Inv DEF SenderStep
  <2> QED BY <2>1, <2>2, Manager_Inv DEF Next, Simulated
<1> QED BY <1>1, Init_ChannelInv, PTL DEF Spec

(* No more reports wait in the data queue than announcements fit into the    *)
(* metadata queue, and the one the manager is reading: what the senders may  *)
(* use of the data queue is bounded by msg.c:106 alone.                      *)
THEOREM DataQueueIsBounded == Spec => []DataBounded
<1>1. ChannelInv => DataBounded
  <2> SUFFICES ASSUME ChannelInv PROVE Cardinality(data) <= MetaCap + 1
    BY DEF DataBounded
  <2>1. /\ Cardinality(data) + Cardinality(Pending) <= Len(metadata) + Awaited
        /\ Cardinality(data) \in Nat /\ Cardinality(Pending) \in Nat
        /\ Len(metadata) \in Nat /\ Len(metadata) <= MetaCap
    BY SendersAreFinite DEF ChannelInv, Announced, QueuesTyped
  <2> QED BY <2>1, ChannelAssumption DEF Awaited
<1> QED BY <1>1, ChannelInvHolds, PTL

----------------------------------------------------------------------------
(* EVERY REPORT IS COUNTED ONCE                                              *)

(* The reports a sender has delivered for the manager's day.                 *)
Sent == {r \in AllReports : day[r[1]] = mday + 1 \/ r[2] < next[r[1]]}

(* A sender is in the manager's day or done with it; what it has delivered   *)
(* waits in the data queue or has been counted, once.                        *)
ReportsInv ==
  /\ mday \in 0..SIM_DURATION /\ got \in Nat
  /\ size \in [Senders -> Sizes \cup {0}]
  /\ day \in [Senders -> 0..SIM_DURATION]
  /\ \A p \in Senders :
       /\ next[p] \in 0..(NofReports(p) - 1)
       /\ day[p] \in {mday, mday + 1}
       /\ day[p] = mday + 1 => next[p] = 0
       /\ pc[p] = "data" => day[p] = mday /\ mday < SIM_DURATION /\ size[p] \in Sizes
  /\ counted \subseteq Sent /\ got = Cardinality(counted)
  /\ \A d \in data : /\ d.size \in Sizes /\ d.day \in Nat
                     /\ d.from \in Sent \ counted
  /\ \A d, e \in data : d.from = e.from => d = e

(* The bytes of the data queue, one by one.                                  *)
Bytes == UNION {{d} \X (1..d.size) : d \in data}
BytesInv == IsFiniteSet(Bytes) /\ cbytes = Cardinality(Bytes)

(* The reports of a sender are numbered from 0, and the number wraps.        *)
LEMMA ReportsNumbered ==
  ASSUME NEW p \in Senders, NEW k \in 0..(NofReports(p) - 1)
  PROVE  /\ NofReports(p) \in Nat \ {0} /\ <<p, k>> \in AllReports
         /\ k + 1 < NofReports(p) => (k + 1) % NofReports(p) = k + 1
         /\ k + 1 = NofReports(p) => (k + 1) % NofReports(p) = 0
<1>1. NofReports(p) \in Nat \ {0} /\ NofReports(p) <= SERV_NUM
  BY ChannelAssumption DEF NofReports
<1>2. k \in 0..SERV_NUM /\ k < NofReports(p) /\ k \in Nat
  BY <1>1, ChannelAssumption
<1>3. <<p, k>> \in AllReports
  BY <1>2 DEF AllReports
<1>4. ASSUME NEW n \in Nat \ {0}, NEW m \in Nat PROVE (m < n => m % n = m) /\ n % n = 0
  BY <1>4
<1> QED BY <1>1, <1>2, <1>3, <1>4

(* A set in a row of its own.                                                *)
LEMMA OneRow ==
  ASSUME NEW x, NEW S, IsFiniteSet(S)
  PROVE  IsFiniteSet({x} \X S) /\ Cardinality({x} \X S) = Cardinality(S)
<1>1. IsFiniteSet({x}) /\ Cardinality({x}) = 1 /\ Cardinality(S) \in Nat
  BY FS_Singleton, FS_CardinalityType
<1>2. IsFiniteSet({x} \X S) /\ Cardinality({x} \X S) = Cardinality({x}) * Cardinality(S)
  BY <1>1, FS_Product
<1> QED BY <1>1, <1>2

(* The manager expects as many reports as there are.                         *)
LEMMA ExpectedIsAll ==
  IsFiniteSet(AllReports) /\ Cardinality(AllReports) = Expected
<1>1. IsFiniteSet(UserIds)
  <2>1. IsFiniteSet(0..(NOF_USERS + N_NEW_USERS - 1))
    BY ChannelAssumption, FS_Interval
  <2> QED BY <2>1, ChannelAssumption, FS_Subset
<1>2. /\ IsFiniteSet(0..(NOF_WORKERS - 1)) /\ Cardinality(0..(NOF_WORKERS - 1)) = NOF_WORKERS
      /\ IsFiniteSet(0..(SERV_NUM - 1)) /\ Cardinality(0..(SERV_NUM - 1)) = SERV_NUM
  <2>1. ASSUME NEW n \in Nat PROVE IsFiniteSet(0..(n - 1)) /\ Cardinality(0..(n - 1)) = n
    <3>1. PICK b \in Int : b = n - 1
      OBVIOUS
    <3>2. IsFiniteSet(0..b) /\ Cardinality(0..b) = IF 0 > b THEN 0 ELSE b - 0 + 1
      BY FS_Interval
    <3> QED BY <3>1, <3>2
  <2> QED BY <2>1, ChannelAssumption
<1>3. Cardinality(UserIds) \in Nat
  BY <1>1, FS_CardinalityType
<1>4. IsFiniteSet(UserSenders) /\ Cardinality(UserSenders) = Cardinality(UserIds)
  BY <1>1, <1>3, OneRow DEF UserSenders
<1>5. IsFiniteSet(WorkerSenders) /\ Cardinality(WorkerSenders) = NOF_WORKERS
  BY <1>2, OneRow DEF WorkerSenders
<1> DEFINE U == UserSenders \X (0..(SERV_NUM - 1))
           W == WorkerSenders \X {0}
<1>6. IsFiniteSet(U) /\ Cardinality(U) = Cardinality(UserIds) * SERV_NUM
  <2>1. IsFiniteSet(U) /\ Cardinality(U) = Cardinality(UserSenders) * Cardinality(0..(SERV_NUM - 1))
    BY <1>2, <1>4, FS_Product
  <2> QED BY <1>2, <1>4, <2>1
<1>7. IsFiniteSet(W) /\ Cardinality(W) = NOF_WORKERS
  <2>1. IsFiniteSet({0}) /\ Cardinality({0}) = 1
    BY FS_Singleton
  <2>2. IsFiniteSet(W) /\ Cardinality(W) = NOF_WORKERS * 1
    BY <1>5, <2>1, FS_Product
  <2> QED BY <2>2, ChannelAssumption
<1>8. U \cap W = {}
  BY DEF UserSenders, WorkerSenders
<1>9. AllReports = U \cup W
  <2>1. \A p \in UserSenders : p[1] = "user" /\ NofReports(p) = SERV_NUM
    BY DEF UserSenders, NofReports
  <2>2. \A p \in WorkerSenders : p[1] = "worker" /\ NofReports(p) = 1
    BY DEF WorkerSenders, NofReports
  <2>3. Senders = UserSenders \cup WorkerSenders
    BY DEF Senders
  <2>4. 0..(SERV_NUM - 1) \subseteq 0..SERV_NUM /\ 0 \in 0..SERV_NUM
    BY ChannelAssumption
  <2>5. AllReports \subseteq U \cup W
    <3> SUFFICES ASSUME NEW p \in Senders, NEW i \in 0..SERV_NUM, i < NofReports(p)
                 PROVE  <<p, i>> \in U \cup W
      BY DEF AllReports
    <3>1. CASE p \in UserSenders
      BY <2>1, <3>1, ChannelAssumption
    <3>2. CASE p \in WorkerSenders
      BY <2>2, <3>2, ChannelAssumption
    <3> QED BY <2>3, <3>1, <3>2
  <2>6. U \subseteq AllReports
    BY <2>1, <2>3, <2>4, ChannelAssumption DEF AllReports
  <2>7. W \subseteq AllReports
    BY <2>2, <2>3, <2>4 DEF AllReports
  <2> QED BY <2>5, <2>6, <2>7
<1>10. Cardinality(U \cup W) = Cardinality(U) + Cardinality(W) - 0 /\ IsFiniteSet(U \cup W)
  BY <1>6, <1>7, <1>8, FS_Union, FS_EmptySet
<1>11. Cardinality(UserIds) * SERV_NUM \in Nat
  BY <1>3, ChannelAssumption
<1> QED BY <1>6, <1>7, <1>9, <1>10, <1>11, ChannelAssumption DEF Expected

(* A day can only be closed when everybody is done with it.                  *)
LEMMA DayClosed ==
  ASSUME ReportsInv, got = Expected
  PROVE  /\ counted = AllReports /\ data = {}
         /\ \A p \in Senders : day[p] = mday + 1 /\ next[p] = 0
<1>1. counted \subseteq AllReports /\ Cardinality(counted) = Cardinality(AllReports)
  BY ExpectedIsAll DEF ReportsInv, Sent
<1>2. counted = AllReports
  BY <1>1, ExpectedIsAll, FS_Subset
<1>3. data = {}
  BY <1>2 DEF ReportsInv, Sent
<1>4. ASSUME NEW p \in Senders PROVE day[p] = mday + 1
  <2>1. NofReports(p) \in Nat \ {0} /\ NofReports(p) - 1 \in 0..(NofReports(p) - 1)
    BY ChannelAssumption DEF NofReports
  <2>2. <<p, NofReports(p) - 1>> \in Sent
    BY <1>2, <2>1, ReportsNumbered DEF ReportsInv
  <2>3. ~(NofReports(p) - 1 < next[p])
    BY <2>1 DEF ReportsInv
  <2> QED BY <2>2, <2>3 DEF Sent
<1> QED BY <1>2, <1>3, <1>4 DEF ReportsInv

(* Delivering a report makes it, and no other, a sent one.                   *)
LEMMA Delivered ==
  ASSUME QueuesTyped, ReportsInv, NEW p \in Senders, SendData(p), ~Refused(p)
  PROVE  /\ Sent' = Sent \cup {<<p, next[p]>>} /\ <<p, next[p]>> \notin Sent
         /\ next'[p] \in 0..(NofReports(p) - 1)
         /\ \/ next'[p] = 0 /\ day'[p] = mday + 1
            \/ next'[p] = next[p] + 1 /\ day'[p] = mday
<1> DEFINE k == next[p]
           n == NofReports(p)
<1>1. /\ k \in 0..(n - 1) /\ day[p] = mday /\ mday \in Nat
      /\ n \in Nat \ {0} /\ <<p, k>> \in AllReports
  <2>1. k \in 0..(n - 1) /\ day[p] = mday /\ mday \in Nat
    BY ChannelAssumption DEF ReportsInv, SendData
  <2> QED BY <2>1, ReportsNumbered
<1>2. /\ next' = [next EXCEPT ![p] = (k + 1) % n] /\ mday' = mday
      /\ day' = [day EXCEPT ![p] = IF next'[p] = 0 THEN @ + 1 ELSE @]
  BY DEF SendData, manager
<1>3. IF k + 1 = n THEN next'[p] = 0 ELSE next'[p] = k + 1
  BY <1>1, <1>2, ReportsNumbered DEF QueuesTyped
<1>4. IF k + 1 = n THEN day'[p] = mday + 1 ELSE day'[p] = mday
  BY <1>1, <1>2, <1>3 DEF ReportsInv
<1>5. <<p, k>> \notin Sent
  BY <1>1 DEF Sent
<1>6. \A r \in AllReports : r[1] # p => (r \in Sent' <=> r \in Sent)
  BY <1>2 DEF Sent, AllReports, QueuesTyped, ReportsInv
<1>7. ASSUME NEW r \in AllReports, r[1] = p PROVE r \in Sent' <=> (r \in Sent \/ r = <<p, k>>)
  <2>1. r = <<p, r[2]>> /\ r[2] \in Nat /\ r[2] < n
    BY <1>7 DEF AllReports
  <2>2. r = <<p, k>> <=> r[2] = k
    BY <2>1
  <2>3. r \in Sent <=> r[2] < k
    BY <1>1, <1>7 DEF Sent
  <2>4. r \in Sent' <=> day'[p] = mday + 1 \/ r[2] < next'[p]
    BY <1>2, <1>7 DEF Sent
  <2> QED BY <1>1, <1>3, <1>4, <2>1, <2>2, <2>3, <2>4
<1>8. Sent' = Sent \cup {<<p, k>>}
  BY <1>1, <1>6, <1>7 DEF Sent
<1> QED BY <1>1, <1>3, <1>4, <1>5, <1>8

(* Only delivering adds to the reports that are sent.                        *)
LEMMA SendData_Reports ==
  ASSUME QueuesTyped, ReportsInv, NEW p \in Senders, SendData(p)
  PROVE  ReportsInv'
<1> USE DEF ReportsInv
<1>1. CASE Refused(p)
  <2>1. /\ UNCHANGED <<data, next, day, size, mday, got, counted>>
        /\ pc' = [pc EXCEPT ![p] = "refused"]
    BY <1>1 DEF SendData, Refused, DataFits, manager
  <2>2. Sent' = Sent
    BY <2>1 DEF Sent
  <2> QED BY <2>1, <2>2 DEF QueuesTyped
<1>2. CASE ~Refused(p)
  <2>1. /\ UNCHANGED <<size, mday, got, counted>>
        /\ data' = data \cup {Report(p)} /\ pc' = [pc EXCEPT ![p] = "metadata"]
        /\ pc[p] = "data" /\ \A q \in Senders \ {p} : next'[q] = next[q] /\ day'[q] = day[q]
    BY <1>2 DEF SendData, manager, QueuesTyped
  <2>2. /\ Sent' = Sent \cup {<<p, next[p]>>} /\ <<p, next[p]>> \notin Sent
        /\ next'[p] \in 0..(NofReports(p) - 1)
        /\ \/ next'[p] = 0 /\ day'[p] = mday + 1
           \/ next'[p] = next[p] + 1 /\ day'[p] = mday
    BY <1>2, Delivered
  <2>3. /\ mday < SIM_DURATION /\ SIM_DURATION \in Nat /\ mday \in Nat /\ size[p] \in Sizes
        /\ day[p] = mday
    BY <2>1, ChannelAssumption
  <2>4. /\ Report(p).from = <<p, next[p]>> /\ Report(p).size = size[p] /\ Report(p).day = mday
    BY <2>3 DEF Report
  <2>5. day' \in [Senders -> 0..SIM_DURATION]
    <3>1. day'[p] \in 0..SIM_DURATION
      BY <2>2, <2>3
    <3>2. DOMAIN day' = Senders /\ day' = [q \in Senders |-> day'[q]]
      BY <1>2 DEF SendData
    <3> QED BY <2>1, <3>1, <3>2
  <2>6. \A q \in Senders :
          /\ next'[q] \in 0..(NofReports(q) - 1)
          /\ day'[q] \in {mday, mday + 1}
          /\ day'[q] = mday + 1 => next'[q] = 0
          /\ pc'[q] = "data" => day'[q] = mday /\ mday < SIM_DURATION /\ size[q] \in Sizes
    BY <2>1, <2>2, <2>3 DEF QueuesTyped
  <2>7. counted' \subseteq Sent'
    BY <2>1, <2>2
  <2>8. \A d \in data' : /\ d.size \in Sizes /\ d.day \in Nat
                         /\ d.from \in Sent' \ counted'
    BY <2>1, <2>2, <2>3, <2>4
  <2>9. \A d, e \in data' : d.from = e.from => d = e
    BY <2>1, <2>2, <2>4
  <2> QED BY <2>1, <2>5, <2>6, <2>7, <2>8, <2>9
<1> QED BY <1>1, <1>2

LEMMA Manager_Reports ==
  ASSUME QueuesTyped, ReportsInv, ManagerStep
  PROVE  ReportsInv'
<1>1. CASE ReceiveMetadata
  <2>1. UNCHANGED <<data, cbytes, pc, next, size, day, mday, got, counted>>
    BY <1>1 DEF ReceiveMetadata, senders, manager
  <2> QED BY <2>1 DEF ReportsInv, Sent
<1>2. CASE ReceiveData
  <2>1. /\ UNCHANGED <<pc, next, size, day, mday>> /\ got' = got + 1
        /\ \E d \in data : data' = data \ {d} /\ counted' = counted \cup {d.from}
    BY <1>2 DEF ReceiveData, senders
  <2>2. PICK d \in data : data' = data \ {d} /\ counted' = counted \cup {d.from}
    BY <2>1
  <2>3. Sent' = Sent
    BY <2>1 DEF Sent
  <2>4. d.from \in Sent \ counted
    BY DEF ReportsInv
  <2>5. IsFiniteSet(counted)
    BY ExpectedIsAll, FS_Subset DEF ReportsInv, Sent
  <2>6. Cardinality(counted') = Cardinality(counted) + 1
    BY <2>2, <2>4, <2>5, FS_AddElement
  <2>7. \A e \in data' : e.from # d.from
    BY <2>2 DEF ReportsInv
  <2> QED BY <2>1, <2>2, <2>3, <2>4, <2>6, <2>7 DEF ReportsInv
<1>3. CASE DayCounted
  <2>1. /\ UNCHANGED <<data, pc, next, size, day>> /\ got' = 0 /\ counted' = {}
        /\ mday' = mday + 1 /\ mday < SIM_DURATION
    BY <1>3 DEF DayCounted, senders
  <2>2. data = {} /\ \A p \in Senders : day[p] = mday + 1 /\ next[p] = 0
    BY <1>3, DayClosed DEF DayCounted
  <2>3. \A p \in Senders : pc[p] # "data"
    BY <2>2, ChannelAssumption DEF ReportsInv
  <2>4. mday \in Nat /\ SIM_DURATION \in Nat
    BY ChannelAssumption DEF ReportsInv
  <2>5. Cardinality({}) = 0
    BY FS_EmptySet
  <2> QED BY <2>1, <2>2, <2>3, <2>4, <2>5 DEF ReportsInv
<1> QED BY <1>1, <1>2, <1>3 DEF ManagerStep

LEMMA ReportsStep ==
  ASSUME QueuesTyped, ReportsInv, [Next]_vars
  PROVE  ReportsInv'
<1>1. CASE UNCHANGED vars
  BY <1>1 DEF vars, ReportsInv, Sent
<1>2. ASSUME NEW p \in Senders, SendMetadata(p) PROVE ReportsInv'
  <2>1. /\ UNCHANGED <<data, next, day, mday, got, counted>>
        /\ pc' = [pc EXCEPT ![p] = "data"] /\ day[p] = mday /\ mday < SIM_DURATION
        /\ \E n \in Sizes : size' = [size EXCEPT ![p] = n]
    BY <1>2 DEF SendMetadata, manager
  <2>2. Sent' = Sent
    BY <2>1 DEF Sent
  <2> QED BY <2>1, <2>2 DEF ReportsInv, QueuesTyped
<1> QED BY <1>1, <1>2, SendData_Reports, Manager_Reports DEF Next, SenderStep, Simulated

(* No report before the manager has asked for the first day.                 *)
LEMMA InitReports == Init => QueuesTyped /\ ReportsInv
<1> SUFFICES ASSUME Init PROVE QueuesTyped /\ ReportsInv
  OBVIOUS
<1>1. QueuesTyped
  BY Init_ChannelInv DEF ChannelInv
<1>2. \A p \in Senders : 0 \in 0..(NofReports(p) - 1)
  BY ChannelAssumption DEF NofReports
<1>3. Sent = {}
  BY <1>2, ChannelAssumption DEF Init, Sent, AllReports
<1> QED BY <1>1, <1>2, <1>3, FS_EmptySet, ChannelAssumption DEF Init, ReportsInv

LEMMA ReportsHold == Spec => []ReportsInv
<1>1. ChannelInv /\ ReportsInv /\ [Next]_vars => ReportsInv'
  BY ReportsStep DEF ChannelInv
<1> QED BY <1>1, InitReports, ChannelInvHolds, PTL DEF Spec

(* get_stats only counts messages; still it closes a day with exactly one    *)
(* report of every user and service and of every worker (manager_main.c:205, *)
(* stats_handler.c:50).                                                      *)
THEOREM EveryReportIsCountedOnce == Spec => EveryReportOnce
<1>1. ReportsInv /\ [Next]_vars => [mday' # mday => counted = AllReports]_vars
  <2> SUFFICES ASSUME ReportsInv, Next, mday' # mday PROVE counted = AllReports
    OBVIOUS
  <2>1. DayCounted
    BY DEF Next, SenderStep, SendMetadata, SendData, ManagerStep, ReceiveMetadata, ReceiveData,
       Simulated, manager, vars
  <2> QED BY <2>1, DayClosed DEF DayCounted
<1> QED BY <1>1, ReportsHold, PTL DEF Spec, EveryReportOnce

----------------------------------------------------------------------------
(* THE BYTES OF THE DATA QUEUE                                               *)

(* A new report takes new bytes, and a received one frees its own.           *)
LEMMA InitBytes == Init => BytesInv
<1> SUFFICES ASSUME Init PROVE BytesInv
  OBVIOUS
<1>1. Bytes = {}
  BY DEF Init, Bytes
<1> QED BY <1>1, FS_EmptySet DEF Init, BytesInv

(* One report takes as many bytes as its size says.                          *)
LEMMA ReportBytes ==
  ASSUME NEW d, NEW n \in Nat
  PROVE  IsFiniteSet({d} \X (1..n)) /\ Cardinality({d} \X (1..n)) = n
<1>1. IsFiniteSet(1..n) /\ Cardinality(1..n) = n
  BY FS_Interval
<1> QED BY <1>1, OneRow

LEMMA AddBytes ==
  ASSUME BytesInv, NEW d, d \notin data, d.size \in Nat,
         data' = data \cup {d}, cbytes' = cbytes + d.size
  PROVE  BytesInv'
<1> DEFINE new == {d} \X (1..d.size)
<1>1. Bytes' = Bytes \cup new /\ Bytes \cap new = {}
  BY DEF Bytes
<1>2. IsFiniteSet(new) /\ Cardinality(new) = d.size
  BY ReportBytes
<1> HIDE DEF new
<1>3. IsFiniteSet(Bytes \cup new)
      /\ Cardinality(Bytes \cup new) = Cardinality(Bytes) + Cardinality(new) - 0
  BY <1>1, <1>2, FS_Union, FS_EmptySet DEF BytesInv
<1>4. Cardinality(Bytes) \in Nat
  BY FS_CardinalityType DEF BytesInv
<1> QED BY <1>1, <1>2, <1>3, <1>4 DEF BytesInv

LEMMA TakeBytes ==
  ASSUME BytesInv, NEW d \in data, d.size \in Nat,
         data' = data \ {d}, cbytes' = cbytes - d.size
  PROVE  BytesInv'
<1> DEFINE old == {d} \X (1..d.size)
<1>1. Bytes' = Bytes \ old /\ Bytes \cap old = old
  BY DEF Bytes
<1>2. IsFiniteSet(old) /\ Cardinality(old) = d.size
  BY ReportBytes
<1> HIDE DEF old
<1>3. IsFiniteSet(Bytes \ old) /\ Cardinality(Bytes \ old) = Cardinality(Bytes) - Cardinality(old)
  BY <1>1, FS_Difference DEF BytesInv
<1> QED BY <1>1, <1>2, <1>3 DEF BytesInv

LEMMA BytesStep ==
  ASSUME QueuesTyped, ReportsInv, BytesInv, [Next]_vars
  PROVE  BytesInv'
<1>1. CASE UNCHANGED <<data, cbytes>>
  BY <1>1 DEF BytesInv, Bytes
<1>2. ASSUME NEW p \in Senders, SendData(p), ~Refused(p) PROVE BytesInv'
  <2> DEFINE d == Report(p)
  <2>1. data' = data \cup {d} /\ cbytes' = cbytes + size[p]
    BY <1>2 DEF SendData
  <2>2. d.size = size[p] /\ d.from = <<p, next[p]>> /\ size[p] \in Nat
    BY <1>2, ChannelAssumption DEF Report, ReportsInv, SendData
  <2>3. d \notin data
    BY <1>2, <2>2, Delivered DEF ReportsInv
  <2> HIDE DEF d
  <2> QED BY <2>1, <2>2, <2>3, AddBytes
<1>3. CASE ReceiveData
  <2>1. PICK d \in data : data' = data \ {d} /\ cbytes' = cbytes - d.size
    BY <1>3 DEF ReceiveData
  <2>2. d.size \in Nat
    BY ChannelAssumption DEF ReportsInv
  <2> QED BY <2>1, <2>2, TakeBytes
<1>4. ASSUME NEW p \in Senders, SendMetadata(p) \/ (SendData(p) /\ Refused(p))
      PROVE  BytesInv'
  BY <1>1, <1>4 DEF SendMetadata, Refused
<1>5. ReceiveMetadata \/ DayCounted \/ UNCHANGED vars => UNCHANGED <<data, cbytes>>
  BY DEF ReceiveMetadata, DayCounted, vars
<1>6. ASSUME NEW p \in Senders, SenderStep(p) PROVE BytesInv'
  BY <1>2, <1>4, <1>6 DEF SenderStep
<1> QED BY <1>1, <1>3, <1>5, <1>6 DEF Next, ManagerStep, Simulated

(* All that is known of the channel.                                         *)
StatsInv == ChannelInv /\ ReportsInv /\ BytesInv

LEMMA StatsInvHolds == Spec => []StatsInv
<1>1. ChannelInv /\ ReportsInv /\ BytesInv /\ [Next]_vars => BytesInv'
  BY BytesStep DEF ChannelInv
<1> QED BY <1>1, InitBytes, ChannelInvHolds, ReportsHold, PTL DEF Spec, StatsInv

(* Every variable keeps its type: the queue never holds less than no bytes,  *)
(* no report is counted that nobody owes, no day is reported twice.          *)
THEOREM StatsChannelType == Spec => []StatsChannelTypeOK
<1>1. StatsInv => StatsChannelTypeOK
  <2> SUFFICES ASSUME StatsInv PROVE StatsChannelTypeOK
    OBVIOUS
  <2>1. cbytes \in Nat
    BY FS_CardinalityType DEF StatsInv, BytesInv
  <2>2. /\ metadata \in Seq(Announcements) /\ awaited \in Announcements \cup {NoStats}
        /\ pc \in [Senders -> {"metadata", "data", "refused"}]
    BY DEF StatsInv, ChannelInv, QueuesTyped
  <2>3. counted \subseteq AllReports /\ \A d \in data : d.from \in AllReports
    BY DEF StatsInv, ReportsInv, Sent
  <2> QED BY <2>1, <2>2, <2>3 DEF StatsInv, ReportsInv, StatsChannelTypeOK
<1> QED BY <1>1, StatsInvHolds, PTL

(* The room the data queue needs for IPC_NOWAIT: as many of the largest      *)
(* reports as there can be (msg.c:89, msg.c:106, user.c:95).                *)
RoomForReports ==
  \E largest \in Nat :
    (\A n \in Sizes : n <= largest) /\ (MetaCap + 1) * largest <= DataCap

(* With that much room no report is ever refused.                            *)
THEOREM NoReportIsRefused == RoomForReports => (Spec => []NobodyRefused)
<1> SUFFICES ASSUME RoomForReports PROVE Spec => []NobodyRefused
  OBVIOUS
<1>1. StatsInv => \A p \in Senders : pc[p] = "data" => DataFits(size[p])
  <2> SUFFICES ASSUME StatsInv, NEW p \in Senders, pc[p] = "data" PROVE DataFits(size[p])
    OBVIOUS
  <2> USE DEF StatsInv
  <2>1. PICK n \in Nat : (\A k \in Sizes : k <= n) /\ (MetaCap + 1) * n <= DataCap
    BY DEF RoomForReports
  <2>2. /\ Cardinality(data) \in Nat /\ IsFiniteSet(data) /\ Cardinality(Pending) \in Nat
        /\ Len(metadata) \in Nat /\ MetaCap \in Nat /\ DataCap \in Nat
    BY SendersAreFinite, ChannelAssumption DEF ChannelInv, Announced, QueuesTyped
  <2>3. Cardinality(Pending) # 0
    BY SendersAreFinite, FS_EmptySet DEF Pending
  <2>4. Cardinality(data) <= MetaCap
    BY <2>2, <2>3 DEF ChannelInv, Announced, Awaited
  <2>5. Bytes \subseteq data \X (1..n)
    <3>1. ASSUME NEW d \in data PROVE {d} \X (1..d.size) \subseteq data \X (1..n)
      <4>1. d.size \in Nat /\ d.size <= n
        BY <2>1, ChannelAssumption DEF ReportsInv
      <4> QED BY <4>1
    <3> QED BY <3>1 DEF Bytes
  <2>6. IsFiniteSet(1..n) /\ Cardinality(1..n) = n
    BY FS_Interval
  <2>7. /\ IsFiniteSet(data \X (1..n))
        /\ Cardinality(data \X (1..n)) = Cardinality(data) * Cardinality(1..n)
    BY <2>2, <2>6, FS_Product
  <2>8. cbytes <= Cardinality(data) * n /\ cbytes \in Nat
    BY <2>5, <2>6, <2>7, FS_Subset, FS_CardinalityType DEF BytesInv
  <2>9. Cardinality(data) * n <= MetaCap * n /\ (MetaCap + 1) * n = MetaCap * n + n
    BY <2>2, <2>4
  <2>10. size[p] <= n /\ size[p] \in Nat
    BY <2>1, ChannelAssumption DEF ReportsInv
  <2>11. MetaCap * n \in Nat /\ Cardinality(data) * n \in Nat
    BY <2>2
  <2> QED BY <2>1, <2>2, <2>8, <2>9, <2>10, <2>11 DEF DataFits
<1>2. Init => NobodyRefused
  BY DEF Init, NobodyRefused
<1>3. StatsInv /\ NobodyRefused /\ [Next]_vars => NobodyRefused'
  <2> SUFFICES ASSUME StatsInv, NobodyRefused, [Next]_vars PROVE NobodyRefused'
    OBVIOUS
  <2>1. ASSUME NEW p \in Senders, SendMetadata(p) \/ SendData(p) PROVE NobodyRefused'
    BY <1>1, <2>1 DEF SendMetadata, SendData, Refused, NobodyRefused, StatsInv, ChannelInv, QueuesTyped
  <2>2. CASE UNCHANGED pc
    BY <2>2 DEF NobodyRefused
  <2> QED BY <2>1, <2>2 DEF Next, SenderStep, ManagerStep, ReceiveMetadata, ReceiveData, DayCounted,
       Simulated, senders, vars
<1> QED BY <1>1, <1>2, <1>3, StatsInvHolds, PTL DEF Spec
=============================================================================
