--------------------------- MODULE Office_proofs ---------------------------
(***************************************************************************)
(* Proofs about the days of the post office, for any users, workers,       *)
(* services, seats, lists of requests and lengths of the day.              *)
(*                                                                         *)
(* Two invariants.  OfficeInv says what a message in a queue may be and    *)
(* that units and messages agree; it gives TypeOK, UnitsMatchMessages and  *)
(* NobodyStops.  ErrandInv rests on it and counts: the messages and hands  *)
(* that carry the request of a user, the services begun and completed, the *)
(* appointments to come; it gives the other three.                         *)
(***************************************************************************)
EXTENDS Office, FiniteSetTheorems, FunctionTheorems, SequenceTheorems, WellFoundedInduction, TLAPS

LEMMA LeastOf ==
  ASSUME NEW T \in SUBSET Nat, T # {}
  PROVE  \E x \in T : \A y \in T : x <= y
<1> DEFINE R == OpToRel(<, Nat)
<1>1. IsWellFoundedOn(R, Nat)
  BY NatLessThanWellFounded
<1>2. \A x, y \in Nat : <<y, x>> \in R <=> y < x
  BY DEF OpToRel
<1>3. \E x \in T : \A y \in T : ~ (<<y, x>> \in R)
  <2> HIDE DEF R
  <2> QED BY <1>1, WFMin
<1>4. PICK x \in T : \A y \in T : ~ (<<y, x>> \in R)
  BY <1>3
<1>5. ASSUME NEW y \in T PROVE x <= y
  <2>1. <<y, x>> \notin R
    BY <1>4
  <2>2. ~ (y < x)
    BY <1>2, <2>1, Zenon
  <2> QED BY <2>2
<1> QED BY <1>5

LEMMA FirstIs ==
  ASSUME NEW p, NEW t, NEW S, mail[p] \in Seq(S)
  PROVE  /\ Has(p, t) => /\ First(p, t) \in 1..Len(mail[p])
                         /\ mail[p][First(p, t)].type = t
         /\ ~Has(p, t) => \A i \in 1..Len(mail[p]) : mail[p][i].type # t
<1> DEFINE I == {i \in 1..Len(mail[p]) : mail[p][i].type = t}
<1>1. First(p, t) = IF I # {} THEN Min(I) ELSE 0
  BY DEF First, SelectInSeq
<1>2. CASE I = {}
  BY <1>1, <1>2 DEF Has
<1>3. CASE I # {}
  <2>1. \E x \in I : \A y \in I : x <= y
    <3> I \in SUBSET Nat
      OBVIOUS
    <3> HIDE DEF I
    <3> QED BY LeastOf, <1>3
  <2>2. Min(I) \in I
    BY <2>1 DEF Min
  <2>3. First(p, t) \in I /\ First(p, t) > 0
    BY <2>2, <1>1, <1>3
  <2> QED BY <2>3 DEF Has
<1> QED BY <1>2, <1>3

LEMMA RemovedAt ==
  ASSUME NEW S, NEW q \in Seq(S), NEW k \in 1..Len(q)
  PROVE  /\ RemoveAt(q, k) \in Seq(S)
         /\ Len(RemoveAt(q, k)) = Len(q) - 1
         /\ \A j \in 1..(Len(q) - 1) :
              RemoveAt(q, k)[j] = IF j < k THEN q[j] ELSE q[j + 1]
<1> DEFINE a == SubSeq(q, 1, k - 1)
           b == SubSeq(q, k + 1, Len(q))
<1>1. /\ a \in Seq(S) /\ Len(a) = k - 1
      /\ \A j \in 1..(k - 1) : a[j] = q[j]
  OBVIOUS
<1>2. /\ b \in Seq(S) /\ Len(b) = Len(q) - k
      /\ \A j \in 1..(Len(q) - k) : b[j] = q[k + j]
  OBVIOUS
<1>3. RemoveAt(q, k) = a \o b
  BY DEF RemoveAt
<1> HIDE DEF a, b
<1>4. /\ a \o b \in Seq(S) /\ Len(a \o b) = Len(q) - 1
      /\ \A j \in 1..(Len(q) - 1) : (a \o b)[j] = IF j < k THEN a[j] ELSE b[j - (k - 1)]
  <2>1. /\ a \o b \in Seq(S) /\ Len(a \o b) = Len(a) + Len(b)
        /\ \A j \in 1..(Len(a) + Len(b)) :
             (a \o b)[j] = IF j <= Len(a) THEN a[j] ELSE b[j - Len(a)]
    <3>1. a \in Seq(S) /\ b \in Seq(S)
      BY <1>1, <1>2
    <3> QED BY <3>1, ConcatProperties, Zenon
  <2>2. Len(a) + Len(b) = Len(q) - 1 /\ Len(a) = k - 1
    BY <1>1, <1>2
  <2>3. \A j \in 1..(Len(q) - 1) : j <= k - 1 <=> j < k
    OBVIOUS
  <2> QED BY <2>1, <2>2, <2>3
<1>5. ASSUME NEW j \in 1..(Len(q) - 1)
      PROVE  (a \o b)[j] = IF j < k THEN q[j] ELSE q[j + 1]
  <2>1. CASE j < k
    BY <1>1, <1>4, <2>1
  <2>2. CASE ~(j < k)
    <3>1. j - (k - 1) \in 1..(Len(q) - k) /\ k + (j - (k - 1)) = j + 1
      BY <2>2
    <3>2. b[j - (k - 1)] = q[j + 1]
      BY <1>2, <3>1
    <3> QED BY <1>4, <2>2, <3>2
  <2> QED BY <2>1, <2>2
<1> QED BY <1>3, <1>4, <1>5

----------------------------------------------------------------------------
(* THE MAILBOXES: what taking and putting a message does to them.          *)

MailTypes == [Receivers -> Seq(Message)]
Taken(m, p, k) == [m EXCEPT ![p] = RemoveAt(@, k)]
Put(m, q, x)   == [m EXCEPT ![q] = Append(@, x)]

(* The places of a mailbox m that hold messages of M, a set of pairs of a    *)
(* receiver and a message.                                                   *)
Spots(m, M) == {c \in Receivers \X Nat :
                  c[2] \in 1..Len(m[c[1]]) /\ <<c[1], m[c[1]][c[2]]>> \in M}
Inside(x, M) == IF x \in M THEN 1 ELSE 0

LEMMA ReceiversFinite ==
  IsFiniteSet(Receivers) /\ IsFiniteSet(Processes)
<1>1. IsFiniteSet({Dispenser}) /\ IsFiniteSet({Clock})
  BY FS_Singleton
<1>2. IsFiniteSet(Users \cup Workers)
  BY ProcessesAssumption, FS_Union
<1>3. IsFiniteSet(Receivers)
  BY <1>1, <1>2, FS_Union DEF Receivers
<1> QED BY <1>1, <1>3, FS_Union DEF Processes

LEMMA SpotsFinite ==
  ASSUME NEW m \in MailTypes, NEW M
  PROVE  IsFiniteSet(Spots(m, M)) /\ Cardinality(Spots(m, M)) \in Nat
<1> DEFINE Row(p) == {p} \X (1..Len(m[p]))
           Rows == {Row(p) : p \in Receivers}
<1>1. ASSUME NEW p \in Receivers
      PROVE  IsFiniteSet(Row(p))
  <2>1. Len(m[p]) \in Nat
    BY DEF MailTypes
  <2>2. IsFiniteSet({p}) /\ IsFiniteSet(1..Len(m[p]))
    <3>1. IsFiniteSet({p})
      BY FS_Singleton
    <3>2. IsFiniteSet(1..Len(m[p]))
      BY <2>1, FS_Interval
    <3> QED BY <3>1, <3>2
  <2> QED BY <2>2, FS_Product
<1>2. IsFiniteSet(Rows)
  <2> DEFINE f == [p \in Receivers |-> Row(p)]
  <2>1. f \in [Receivers -> Rows] /\ \A r \in Rows : \E p \in Receivers : f[p] = r
    OBVIOUS
  <2> HIDE DEF f, Rows
  <2>2. f \in Surjection(Receivers, Rows)
    BY <2>1, Fun_IsSurj
  <2> QED BY <2>2, ReceiversFinite, FS_Surjection
<1>3. IsFiniteSet(UNION Rows)
  BY <1>1, <1>2, FS_UNION
<1>4. Spots(m, M) \subseteq UNION Rows
  BY DEF Spots
<1>5. IsFiniteSet(Spots(m, M))
  BY <1>3, <1>4, FS_Subset
<1> QED BY <1>5, FS_CardinalityType

LEMMA SpotsPut ==
  ASSUME NEW m \in MailTypes, NEW q \in Receivers, NEW x \in Message, NEW M
  PROVE  /\ Put(m, q, x) \in MailTypes
         /\ Cardinality(Spots(Put(m, q, x), M)) =
              Cardinality(Spots(m, M)) + Inside(<<q, x>>, M)
<1> DEFINE n == Put(m, q, x)
           c == <<q, Len(m[q]) + 1>>
<1>1. /\ n \in MailTypes
      /\ Len(n[q]) = Len(m[q]) + 1 /\ Len(m[q]) \in Nat
      /\ n[q][Len(m[q]) + 1] = x
      /\ \A i \in 1..Len(m[q]) : n[q][i] = m[q][i]
      /\ \A p \in Receivers \ {q} : n[p] = m[p]
  BY DEF Put, MailTypes
<1>2. Spots(n, M) = Spots(m, M) \cup {d \in {c} : <<q, x>> \in M}
  BY <1>1 DEF Spots
<1>3. c \notin Spots(m, M)
  BY <1>1 DEF Spots
<1>4. IsFiniteSet(Spots(m, M)) /\ Cardinality(Spots(m, M)) \in Nat
  BY SpotsFinite
<1>5. CASE <<q, x>> \in M
  <2>1. Spots(n, M) = Spots(m, M) \cup {c}
    BY <1>2, <1>5
  <2> HIDE DEF n, c
  <2>2. Cardinality(Spots(n, M)) = Cardinality(Spots(m, M)) + 1
    BY <1>3, <1>4, <2>1, FS_AddElement
  <2> QED BY <1>1, <1>5, <2>2 DEF n, Inside
<1>6. CASE <<q, x>> \notin M
  <2>1. Spots(n, M) = Spots(m, M)
    BY <1>2, <1>6
  <2> QED BY <1>1, <1>4, <1>6, <2>1 DEF Inside
<1> QED BY <1>5, <1>6

LEMMA SpotsTaken ==
  ASSUME NEW m \in MailTypes, NEW p \in Receivers, NEW k \in 1..Len(m[p]), NEW M
  PROVE  /\ Taken(m, p, k) \in MailTypes
         /\ Cardinality(Spots(Taken(m, p, k), M)) =
              Cardinality(Spots(m, M)) - Inside(<<p, m[p][k]>>, M)
<1> DEFINE n == Taken(m, p, k)
           S == Spots(m, M) \ {<<p, k>>}
           T == Spots(n, M)
           f == [c \in S |-> IF c[1] = p /\ c[2] > k THEN <<p, c[2] - 1>> ELSE c]
<1>1. /\ n \in MailTypes
      /\ Len(n[p]) = Len(m[p]) - 1 /\ Len(m[p]) \in Nat
      /\ \A j \in 1..(Len(m[p]) - 1) : n[p][j] = IF j < k THEN m[p][j] ELSE m[p][j + 1]
      /\ \A r \in Receivers \ {p} : n[r] = m[r]
  <2>1. /\ n \in [Receivers -> Seq(Message)] /\ n[p] = RemoveAt(m[p], k)
        /\ \A r \in Receivers \ {p} : n[r] = m[r]
        /\ m[p] \in Seq(Message)
    BY RemovedAt DEF Taken, MailTypes
  <2> QED BY <2>1, RemovedAt DEF MailTypes
<1>2. f \in Bijection(S, T)
  <2>1. ASSUME NEW c \in S PROVE f[c] \in T
    <3>1. /\ c \in Receivers \X Nat /\ c # <<p, k>>
          /\ c[2] \in 1..Len(m[c[1]]) /\ <<c[1], m[c[1]][c[2]]>> \in M
      BY DEF Spots
    <3>2. CASE c[1] = p /\ c[2] > k
      <4>1. /\ c[2] - 1 \in 1..Len(n[p]) /\ n[p][c[2] - 1] = m[p][c[2]]
            /\ c[2] - 1 \in Nat
        BY <1>1, <3>1, <3>2
      <4>2. f[c] = <<p, c[2] - 1>>
        BY <3>2
      <4> HIDE DEF f, n
      <4> QED BY <3>1, <3>2, <4>1, <4>2 DEF Spots
    <3>3. CASE c[1] = p /\ c[2] <= k
      <4>1. c[2] # k
        BY <3>1, <3>3
      <4>2. /\ c[2] \in 1..Len(n[p]) /\ n[p][c[2]] = m[p][c[2]]
        BY <1>1, <3>1, <3>3, <4>1
      <4>3. f[c] = c
        BY <3>1, <3>3
      <4> HIDE DEF f, n
      <4> QED BY <3>1, <3>3, <4>2, <4>3 DEF Spots
    <3>4. CASE c[1] # p
      <4>1. f[c] = c
        BY <3>4
      <4>2. n[c[1]] = m[c[1]]
        BY <1>1, <3>1, <3>4
      <4> HIDE DEF f, n
      <4> QED BY <3>1, <4>1, <4>2 DEF Spots
    <3> QED BY <3>1, <3>2, <3>3, <3>4
  <2>2. ASSUME NEW c \in S, NEW d \in S, f[c] = f[d] PROVE c = d
    BY <2>2 DEF Spots
  <2>3. ASSUME NEW d \in T PROVE \E c \in S : f[c] = d
    <3>1. CASE d[1] = p /\ d[2] >= k
      <4>1. <<p, d[2] + 1>> \in S
        BY <1>1, <3>1 DEF Spots
      <4>2. f[<<p, d[2] + 1>>] = d
        BY <3>1, <4>1 DEF Spots
      <4> QED BY <4>1, <4>2
    <3>2. CASE ~(d[1] = p /\ d[2] >= k)
      <4>1. d \in S
        BY <1>1, <3>2 DEF Spots
      <4>2. f[d] = d
        BY <3>2, <4>1 DEF Spots
      <4> QED BY <4>1, <4>2
    <3> QED BY <3>1, <3>2
  <2>4. f \in [S -> T]
    BY <2>1
  <2> HIDE DEF f, S, T
  <2>5. f \in Surjection(S, T)
    BY <2>3, <2>4, Fun_IsSurj
  <2>6. f \in Injection(S, T)
    BY <2>2, <2>4, Fun_IsInj
  <2> QED BY <2>5, <2>6 DEF Bijection
<1>3. IsFiniteSet(Spots(m, M)) /\ Cardinality(Spots(m, M)) \in Nat
  BY SpotsFinite
<1>4. IsFiniteSet(S)
  BY <1>3, FS_Subset
<1>5. Cardinality(T) = Cardinality(S)
  <2>1. ExistsBijection(S, T)
    BY <1>2 DEF ExistsBijection
  <2> HIDE DEF S, T
  <2> QED BY <1>4, <2>1, FS_Bijection
<1>6. CASE <<p, m[p][k]>> \in M
  <2>1. <<p, k>> \in Spots(m, M)
    BY <1>6 DEF Spots
  <2>2. Cardinality(S) = Cardinality(Spots(m, M)) - 1
    BY <1>3, <2>1, FS_RemoveElement
  <2> QED BY <1>1, <1>5, <1>6, <2>2 DEF Inside
<1>7. CASE <<p, m[p][k]>> \notin M
  <2>1. S = Spots(m, M)
    BY <1>7 DEF Spots
  <2>2. Inside(<<p, m[p][k]>>, M) = 0
    BY <1>7 DEF Inside
  <2>3. Cardinality(T) = Cardinality(Spots(m, M)) - 0
    <3> HIDE DEF S, T
    <3> QED BY <1>3, <1>5, <2>1
  <2> QED BY <1>1, <2>2, <2>3
<1> QED BY <1>6, <1>7

BoxesTyped ==
  /\ mail \in MailTypes
  /\ units \in [Receivers -> Nat]
  /\ owes \in [Processes -> SUBSET Receivers]
PlacesTyped ==
  at \in [Receivers -> {"home", "enter", "core", "check", "collect", "tell",
                        "paused", "look", "copyMsg", "copySem", "answer", "stopped"}]
UsersTyped ==
  /\ filter \in [Users -> {USER_FILTER, TICKET_FILTER, SERVICE_FILTER}]
  /\ pending \in [Users -> Nat]
  /\ wanted \in [Users -> Services \cup {None}]
  /\ rem \in [Users -> [Services -> Int]]
  /\ completed \in [Users -> [Services -> Nat]]
  /\ visitors \subseteq Users /\ refused \subseteq Users
WorkersTyped ==
  /\ table \in [Table -> [taken : BOOLEAN, worker : Workers \cup {None}]]
  /\ seat \in [Workers -> Table \cup {None}]
  /\ late \subseteq Workers
  /\ rests \in [Workers -> 0..NOF_PAUSE]
  /\ source \in [Workers -> Workers \cup {None}]
  /\ serving \in [Workers -> Requests \cup {None}]
  /\ delivered \in [Workers -> Nat]
DeskTyped ==
  /\ request \in Requests \cup {None}
  /\ card \in [seat : Table \cup {None}, msg : Workers \cup {None}, sem : Workers \cup {None}]
  /\ torn \in BOOLEAN
ClockTyped ==
  /\ day \in 0..SIM_DURATION /\ minute \in 0..MINUTES_IN_DAY
  /\ agenda \subseteq [user : Users, nr : 1..N_REQUESTS, serv : Services,
                       time : 0..MINUTES_IN_DAY - 1]
  /\ pauses \subseteq [worker : Workers, time : 0..MINUTES_IN_DAY - 1]
  /\ told \in 0..3
Typed == /\ BoxesTyped /\ PlacesTyped /\ UsersTyped /\ WorkersTyped /\ DeskTyped /\ ClockTyped

LEMMA TypedIsType == Typed => TypeOK
<1> SUFFICES ASSUME Typed PROVE TypeOK
  OBVIOUS
<1>1. \A p \in Receivers : \A i \in DOMAIN mail[p] : mail[p][i] \in Message
  BY DEF Typed, BoxesTyped, MailTypes
<1> QED BY <1>1 DEF Typed, BoxesTyped, PlacesTyped, UsersTyped, WorkersTyped, DeskTyped,
     ClockTyped, TypeOK

LEMMA ProcessesDiffer ==
  /\ \A u \in Users : u \in Receivers /\ u \in Processes /\ u \notin Workers /\ u # Dispenser
                      /\ u # None /\ u # Clock
  /\ \A w \in Workers : w \in Receivers /\ w \in Processes /\ w \notin Users
                        /\ w # Dispenser /\ w # None /\ w # Clock
  /\ Dispenser \in Receivers /\ Dispenser \in Processes /\ Clock \in Processes
  /\ \A p \in Receivers : p \in Processes /\ p # Clock
                          /\ (p \in Users \/ p \in Workers \/ p = Dispenser)
  /\ Dispenser # Clock /\ Clock \notin Receivers
  /\ \A r \in Requests : r # None
  /\ \A i \in Table : i # None
  /\ \A s \in Services : s # None
BY ProcessesAssumption DEF Receivers, Processes

(* The message Gets finds.                                                   *)
LEMMA Getting ==
  ASSUME Typed, NEW p \in Receivers, NEW t, Gets(p, t)
  PROVE  /\ at[p] = "core" /\ Free(p) /\ units[p] > 0
         /\ p \in Workers => serving[p] = None
         /\ First(p, t) \in 1..Len(mail[p])
         /\ Msg(p, t) = mail[p][First(p, t)]
         /\ Msg(p, t) \in Message /\ Msg(p, t).type = t
         /\ Without(p, t) = Taken(mail, p, First(p, t))
<1>1. mail[p] \in Seq(Message)
  BY DEF Typed, BoxesTyped, MailTypes
<1>2. Wakes(p) /\ Has(p, t)
  BY DEF Gets
<1>3. /\ First(p, t) \in 1..Len(mail[p])
      /\ mail[p][First(p, t)].type = t
  BY <1>1, <1>2, FirstIs
<1>4. mail[p][First(p, t)] \in Message
  BY <1>1, <1>3
<1> QED BY <1>2, <1>3, <1>4 DEF Msg, Without, Taken, Wakes, Idle

LEMMA MessageKinds ==
  ASSUME NEW m \in Message
  PROVE  /\ m.type \in {"CLOCK_NOTIFC", "TICKET_REQ", "SERVICE_REQ", "TICKET_RESP"}
              => m.serv \in Services
         /\ m.type \in {"TICKET_REQ", "SERVICE_REQ"} => m.user \in Users /\ m \in Requests
         /\ m.type = "TICKET_RESP" =>
              m.card = NoCard \/ m.card \in [seat : Table, msg : Workers, sem : Workers]
         /\ m.type = "SEAT_FREE" => m.worker \in Workers
         /\ m.type \in {"DAY_ENDED", "PAUSE_NOTIFC", "SERVICE_RESP", "CLOCK_NOTIFC",
                        "TICKET_REQ", "SERVICE_REQ", "TICKET_RESP", "SEAT_FREE"}
BY DEF Message, Requests

LEMMA Messages ==
  /\ \A t \in {"DAY_ENDED", "PAUSE_NOTIFC", "SERVICE_RESP"} : [type |-> t] \in Message
  /\ \A s \in Services : [type |-> "CLOCK_NOTIFC", serv |-> s] \in Message
  /\ \A t \in {"TICKET_REQ", "SERVICE_REQ"}, u \in Users, s \in Services :
       [type |-> t, user |-> u, serv |-> s] \in Message
  /\ \A w \in Workers : [type |-> "SEAT_FREE", worker |-> w] \in Message
  /\ \A s \in Services, c \in {NoCard} \cup [seat : Table, msg : Workers, sem : Workers] :
       [type |-> "TICKET_RESP", serv |-> s, card |-> c] \in Message
BY DEF Message

LEMMA TakenKeeps ==
  ASSUME NEW m \in MailTypes, NEW p \in Receivers, NEW k \in 1..Len(m[p])
  PROVE  /\ Taken(m, p, k) \in MailTypes
         /\ Len(Taken(m, p, k)[p]) = Len(m[p]) - 1
         /\ \A r \in Receivers \ {p} : Taken(m, p, k)[r] = m[r]
         /\ \A r \in Receivers : \A j \in 1..Len(Taken(m, p, k)[r]) :
              \E i \in 1..Len(m[r]) : Taken(m, p, k)[r][j] = m[r][i]
<1> DEFINE n == Taken(m, p, k)
<1>1. /\ n \in [Receivers -> Seq(Message)] /\ n[p] = RemoveAt(m[p], k)
      /\ \A r \in Receivers \ {p} : n[r] = m[r]
      /\ m[p] \in Seq(Message)
  BY RemovedAt DEF Taken, MailTypes
<1>2. /\ Len(n[p]) = Len(m[p]) - 1 /\ Len(m[p]) \in Nat
      /\ \A j \in 1..(Len(m[p]) - 1) : n[p][j] = IF j < k THEN m[p][j] ELSE m[p][j + 1]
  BY <1>1, RemovedAt
<1>3. ASSUME NEW r \in Receivers, NEW j \in 1..Len(n[r])
      PROVE  \E i \in 1..Len(m[r]) : n[r][j] = m[r][i]
  <2>1. CASE r # p
    BY <1>1, <2>1
  <2>2. CASE r = p /\ j < k
    BY <1>2, <2>2
  <2>3. CASE r = p /\ j >= k
    <3>1. j + 1 \in 1..Len(m[p]) /\ n[p][j] = m[p][j + 1]
      BY <1>2, <2>3
    <3> QED BY <2>3, <3>1
  <2> QED BY <2>1, <2>2, <2>3, <1>2
<1> QED BY <1>1, <1>2, <1>3 DEF MailTypes

LEMMA PutKeeps ==
  ASSUME NEW m \in MailTypes, NEW q \in Receivers, NEW x \in Message
  PROVE  /\ Put(m, q, x) \in MailTypes
         /\ Len(Put(m, q, x)[q]) = Len(m[q]) + 1
         /\ \A r \in Receivers \ {q} : Put(m, q, x)[r] = m[r]
         /\ \A r \in Receivers : \A j \in 1..Len(Put(m, q, x)[r]) :
              \/ \E i \in 1..Len(m[r]) : Put(m, q, x)[r][j] = m[r][i]
              \/ r = q /\ Put(m, q, x)[r][j] = x
<1> DEFINE n == Put(m, q, x)
<1>1. /\ n \in MailTypes
      /\ Len(n[q]) = Len(m[q]) + 1 /\ Len(m[q]) \in Nat
      /\ n[q][Len(m[q]) + 1] = x
      /\ \A i \in 1..Len(m[q]) : n[q][i] = m[q][i]
      /\ \A p \in Receivers \ {q} : n[p] = m[p]
  BY DEF Put, MailTypes
<1>2. ASSUME NEW r \in Receivers, NEW j \in 1..Len(n[r])
      PROVE  \/ \E i \in 1..Len(m[r]) : n[r][j] = m[r][i]
             \/ r = q /\ n[r][j] = x
  <2>1. CASE r # q
    BY <1>1, <2>1
  <2>2. CASE r = q
    <3>1. j \in 1..Len(m[q]) \/ j = Len(m[q]) + 1
      BY <1>1, <2>2
    <3> QED BY <1>1, <2>2, <3>1
  <2> QED BY <2>1, <2>2
<1> QED BY <1>1, <1>2

(* A message to everybody of a group.                                        *)
Spread(m, G, x) == [p \in Receivers |-> IF p \in G THEN Append(m[p], x) ELSE m[p]]

LEMMA SpreadKeeps ==
  ASSUME NEW m \in MailTypes, NEW G, NEW x \in Message
  PROVE  /\ Spread(m, G, x) \in MailTypes
         /\ \A r \in Receivers :
              Len(Spread(m, G, x)[r]) = IF r \in G THEN Len(m[r]) + 1 ELSE Len(m[r])
         /\ \A r \in Receivers : \A j \in 1..Len(Spread(m, G, x)[r]) :
              \/ j \in 1..Len(m[r]) /\ Spread(m, G, x)[r][j] = m[r][j]
              \/ r \in G /\ j = Len(m[r]) + 1 /\ Spread(m, G, x)[r][j] = x
         /\ \A r \in Receivers : \A j \in 1..Len(m[r]) :
              j \in 1..Len(Spread(m, G, x)[r]) /\ Spread(m, G, x)[r][j] = m[r][j]
<1> DEFINE n == Spread(m, G, x)
<1>1. ASSUME NEW r \in Receivers
      PROVE  /\ n[r] \in Seq(Message)
             /\ Len(n[r]) = IF r \in G THEN Len(m[r]) + 1 ELSE Len(m[r])
             /\ \A j \in 1..Len(n[r]) : \/ j \in 1..Len(m[r]) /\ n[r][j] = m[r][j]
                                        \/ r \in G /\ j = Len(m[r]) + 1 /\ n[r][j] = x
             /\ \A j \in 1..Len(m[r]) : j \in 1..Len(n[r]) /\ n[r][j] = m[r][j]
  <2>1. m[r] \in Seq(Message)
    BY DEF MailTypes
  <2>2. CASE r \in G
    <3>1. n[r] = Append(m[r], x)
      BY <2>2 DEF Spread
    <3> HIDE DEF n
    <3> QED BY <2>1, <2>2, <3>1
  <2>3. CASE r \notin G
    <3>1. n[r] = m[r]
      BY <2>3 DEF Spread
    <3> HIDE DEF n
    <3> QED BY <2>1, <2>3, <3>1
  <2> QED BY <2>2, <2>3
<1>2. n \in MailTypes
  BY <1>1 DEF MailTypes, Spread
<1> HIDE DEF n
<1>3. QED BY <1>1, <1>2 DEF n

LEMMA SpotsSpread ==
  ASSUME NEW m \in MailTypes, NEW G, NEW x \in Message, NEW M,
         \A r \in Receivers : <<r, x>> \notin M
  PROVE  Spots(Spread(m, G, x), M) = Spots(m, M)
<1> DEFINE n == Spread(m, G, x)
<1>1. /\ \A r \in Receivers : \A j \in 1..Len(n[r]) :
           \/ j \in 1..Len(m[r]) /\ n[r][j] = m[r][j]
           \/ r \in G /\ j = Len(m[r]) + 1 /\ n[r][j] = x
      /\ \A r \in Receivers : \A j \in 1..Len(m[r]) :
           j \in 1..Len(n[r]) /\ n[r][j] = m[r][j]
  BY SpreadKeeps
<1> HIDE DEF n
<1>2. ASSUME NEW c \in Spots(n, M) PROVE c \in Spots(m, M)
  <2>1. /\ c[1] \in Receivers /\ c[2] \in 1..Len(n[c[1]])
        /\ <<c[1], n[c[1]][c[2]]>> \in M /\ c \in Receivers \X Nat
    BY DEF Spots
  <2>2. n[c[1]][c[2]] # x
    BY <2>1
  <2>3. c[2] \in 1..Len(m[c[1]]) /\ n[c[1]][c[2]] = m[c[1]][c[2]]
    BY <1>1, <2>1, <2>2
  <2> QED BY <2>1, <2>3 DEF Spots
<1>3. ASSUME NEW c \in Spots(m, M) PROVE c \in Spots(n, M)
  BY <1>1 DEF Spots
<1> QED BY <1>2, <1>3 DEF n

----------------------------------------------------------------------------
(* THE INVARIANT OF THE MESSAGES, and the steps of the actors.             *)

AtWork == {"enter", "core", "check", "collect"}

(* A seat is the service's for good, and whoever has had it is of the service. *)
TableInv ==
  \A s \in Services : \A i \in SeatsOf[s] :
    /\ table[i].taken => table[i].worker # None
    /\ table[i].worker # None => ServiceOf[table[i].worker] = s

(* A ticket: both of its workers are of the service; they are the same       *)
(* unless a ticket has been torn.                                            *)
Named(c, s) ==
  /\ c \in [seat : Table, msg : Workers, sem : Workers]
  /\ ServiceOf[c.msg] = s /\ ServiceOf[c.sem] = s
DeskInv ==
  LET d == at[Dispenser] IN
  /\ d \in {"home", "core", "look", "copyMsg", "copySem", "answer", "stopped"}
  /\ request # None <=> d \in {"look", "copyMsg", "copySem", "answer"}
  /\ request # None => Free(Dispenser)
  /\ d \notin {"copyMsg", "copySem", "answer"} => card = NoCard
  /\ d \in {"copyMsg", "copySem"} =>
       card.seat \in SeatsOf[request.serv] /\ table[card.seat].worker # None
  /\ d = "copySem" => card.msg # None /\ ServiceOf[card.msg] = request.serv
  /\ d = "answer" => card = NoCard \/ Named(card, request.serv)

(* Where a worker holds a request, and where it owes nobody a unit.          *)
WorkerInv ==
  \A w \in Workers :
    /\ at[w] \in {"home", "enter", "core", "check", "collect", "tell", "paused", "stopped"}
    /\ serving[w] # None => at[w] \in {"core", "check"}
    /\ at[w] \in {"enter", "collect", "tell"} => Free(w)
    /\ at[w] \in {"check", "collect"} =>
         source[w] \in Colleagues(w) /\ at[source[w]] = "paused"
UserInv == \A u \in Users : at[u] \in {"home", "core", "stopped"}

(* Every message is one its receiver expects, and what it says is so.        *)
Good(p, m) ==
  /\ p \in Users => m.type \in {"DAY_ENDED", "CLOCK_NOTIFC", "TICKET_RESP", "SERVICE_RESP"}
  /\ p \in Workers => m.type \in {"DAY_ENDED", "PAUSE_NOTIFC", "SEAT_FREE", "SERVICE_REQ"}
  /\ p = Dispenser => m.type \in {"DAY_ENDED", "TICKET_REQ"}
  /\ m.type = "SERVICE_REQ" => m.serv = ServiceOf[p]
  /\ m.type = "TICKET_RESP" /\ m.card # NoCard =>
       Named(m.card, m.serv) /\ (m.card.msg = m.card.sem \/ torn)
  /\ m.type = "SEAT_FREE" /\ at[p] # "home" =>
       m.worker \in Colleagues(p) /\ at[m.worker] = "paused"
  /\ m.type = "PAUSE_NOTIFC" /\ at[p] \in AtWork => rests[p] > 0
MailInv == \A p \in Receivers : \A i \in 1..Len(mail[p]) : Good(p, mail[p][i])

(* Who is to pause today may still do so.                                    *)
PauseInv == \A e \in pauses : at[e.worker] \in AtWork => rests[e.worker] > 0

OfficeInv == /\ Typed /\ TableInv /\ DeskInv /\ WorkerInv /\ UserInv /\ MailInv /\ PauseInv
             /\ NobodyStops /\ UnitsMatchMessages

(* What the steps of an actor leave alone.                                   *)
LEMMA Frames ==
  /\ ClockStep => UNCHANGED <<at, userVars, workerVars, deskVars>>
  /\ \A p : ReleaseUnit(p) => UNCHANGED <<mail, at, userVars, workerVars, deskVars, clockVars>>
  /\ \A p : NoMes(p) => UNCHANGED <<mail, owes, filter, wanted, rem, completed, visitors,
                                    refused, workerVars, deskVars, clockVars>>
  /\ \A p : DayEnded(p) => UNCHANGED <<owes, userVars, workerVars, deskVars, clockVars>>
  /\ \A u : UserStep(u) => UNCHANGED <<at, workerVars, deskVars, clockVars>>
  /\ \A d : DispenserStep(d) => UNCHANGED <<userVars, workerVars, clockVars>>
  /\ \A w : WorkerStep(w) => UNCHANGED <<userVars, deskVars, clockVars>>
<1>1. ClockStep => UNCHANGED <<at, userVars, workerVars, deskVars>>
  BY DEF ClockStep, SendUserNotific, SendWorkerPause, NextMinute, TellDayEnded
<1>2. \A p : ReleaseUnit(p) => UNCHANGED <<mail, at, userVars, workerVars, deskVars, clockVars>>
  BY DEF ReleaseUnit
<1>3. \A p : NoMes(p) => UNCHANGED <<mail, owes, filter, wanted, rem, completed, visitors,
                                     refused, workerVars, deskVars, clockVars>>
  BY DEF NoMes
<1>4. \A p : DayEnded(p) => UNCHANGED <<owes, userVars, workerVars, deskVars, clockVars>>
  BY DEF DayEnded, Receive
<1>5. \A u : UserStep(u) => UNCHANGED <<at, workerVars, deskVars, clockVars>>
  BY DEF UserStep, UserClockNotifc, UserTicketResp, UserServiceResp
<1>6. \A d : DispenserStep(d) => UNCHANGED <<userVars, workerVars, clockVars>>
  BY DEF DispenserStep, TicketReq, FindSeat, CopySeat, SendTicketResp
<1>7. \A w : WorkerStep(w) => UNCHANGED <<userVars, deskVars, clockVars>>
  BY DEF WorkerStep, EnterCore, WorkerServiceReq, SendServiceResp, WorkerSeatFree,
         CheckDayEnded, CollectPaused, WorkerDayEnded, WorkerPause, ComunicateFreeSeat
<1> QED BY <1>1, <1>2, <1>3, <1>4, <1>5, <1>6, <1>7

----------------------------------------------------------------------------
(* HOW THE STEPS KEEP IT: places, types, seats, tickets, mail, units.      *)

(* How a process moves during a day.                                         *)
LEMMA Moves ==
  ASSUME OfficeInv, Next, ~NewDay
  PROVE  /\ PlacesTyped'
         /\ \A p \in Receivers : at[p] \in {"home", "paused", "stopped"} => at'[p] = at[p]
         /\ torn => torn'
         /\ \A w \in Workers : at'[w] \in AtWork => at[w] \in AtWork /\ rests'[w] = rests[w]
<1> USE ProcessesDiffer
<1> DEFINE Move(p, from, to) ==
      p \in Receivers /\ at[p] \in from /\ at' = [at EXCEPT ![p] = to]
<1> DEFINE Dest == {"home", "core", "check", "collect", "tell", "paused", "look",
                    "copyMsg", "copySem", "answer", "stopped"}
           Becomes(p, to) == at' = [at EXCEPT ![p] = to]
           Calm == /\ PlacesTyped'
                   /\ \A q \in Receivers : at[q] \in {"home", "paused", "stopped"} => at'[q] = at[q]
                   /\ torn => torn'
                   /\ \A w \in Workers :
                        at'[w] \in AtWork => at[w] \in AtWork /\ rests'[w] = rests[w]
<1>0. PlacesTyped /\ Typed
  BY DEF OfficeInv, Typed
<1>1. CASE ClockStep \/ \E p \in Processes : ReleaseUnit(p)
  <2>1. UNCHANGED <<at, workerVars, deskVars>>
    BY <1>1, Frames
  <2> QED BY <1>0, <2>1 DEF workerVars, deskVars, PlacesTyped
<1>2. ASSUME NEW p \in Receivers, NoMes(p)
      PROVE  /\ UNCHANGED <<workerVars, deskVars>>
             /\ UNCHANGED at \/ Move(p, {"core"}, "stopped")
  BY <1>2, Frames DEF NoMes, Wakes, Idle
<1>3. ASSUME NEW p \in Receivers, DayEnded(p)
      PROVE  UNCHANGED <<workerVars, deskVars>> /\ Move(p, {"core"}, "home")
  BY <1>0, <1>3, Frames, Getting DEF DayEnded, Receive
<1>4. ASSUME NEW u \in Users, UserStep(u)
      PROVE  UNCHANGED <<workerVars, deskVars, at>>
  BY <1>4, Frames
<1>5. ASSUME DispenserStep(Dispenser)
      PROVE  /\ UNCHANGED workerVars
             /\ torn => torn'
             /\ \E to \in {"look", "copyMsg", "copySem", "answer", "core"} :
                  Move(Dispenser, {"core", "look", "copyMsg", "copySem", "answer"}, to)
  <2>1. UNCHANGED workerVars
    BY <1>5, Frames
  <2>2. CASE TicketReq(Dispenser)
    <3>1. at[Dispenser] = "core"
      BY <1>0, <2>2, Getting DEF TicketReq, Receive
    <3> QED BY <2>1, <2>2, <3>1 DEF TicketReq
  <2>3. CASE FindSeat(Dispenser)
    BY <2>1, <2>3 DEF FindSeat
  <2>4. CASE CopySeat(Dispenser)
    BY <2>1, <2>4 DEF CopySeat
  <2>5. CASE SendTicketResp(Dispenser)
    BY <2>1, <2>5 DEF SendTicketResp
  <2> QED BY <1>5, <2>2, <2>3, <2>4, <2>5 DEF DispenserStep
<1>6. ASSUME NEW w \in Workers, WorkerStep(w)
      PROVE  /\ UNCHANGED deskVars
             /\ \/ UNCHANGED <<at, rests>>
                \/ \E to \in {"core", "check", "collect", "home", "stopped"} :
                     Move(w, AtWork, to) /\ UNCHANGED rests
                \/ Move(w, AtWork, "tell") /\ rests' = [rests EXCEPT ![w] = @ - 1]
                \/ Move(w, {"tell"}, "paused") /\ UNCHANGED rests
  <2>0. UNCHANGED deskVars
    BY <1>6, Frames
  <2>1. CASE EnterCore(w)
    BY <2>0, <2>1 DEF EnterCore, AtWork
  <2>2. CASE WorkerServiceReq(w)
    <3>1. at[w] = "core"
      BY <1>0, <2>2, Getting DEF WorkerServiceReq, Receive
    <3> QED BY <2>0, <2>2, <3>1 DEF WorkerServiceReq, Provide, AtWork
  <2>3. CASE SendServiceResp(w)
    BY <2>0, <2>3 DEF SendServiceResp
  <2>4. CASE WorkerSeatFree(w)
    <3>1. at[w] = "core"
      BY <1>0, <2>4, Getting DEF WorkerSeatFree, Receive
    <3> QED BY <2>0, <2>4, <3>1 DEF WorkerSeatFree, AtWork
  <2>5. CASE CheckDayEnded(w)
    BY <2>0, <2>5 DEF CheckDayEnded, AtWork
  <2>6. CASE CollectPaused(w)
    BY <2>0, <2>6 DEF CollectPaused, Provide, AtWork
  <2>7. CASE WorkerDayEnded(w)
    <3>1. at[w] = "core"
      BY <1>0, <2>7, Getting DEF WorkerDayEnded, Receive
    <3> QED BY <2>0, <2>7, <3>1 DEF WorkerDayEnded, AtWork
  <2>8. CASE WorkerPause(w)
    <3>1. at[w] = "core"
      BY <1>0, <2>8, Getting DEF WorkerPause, Receive
    <3> QED BY <2>0, <2>8, <3>1 DEF WorkerPause, AtWork
  <2>9. CASE ComunicateFreeSeat(w)
    BY <2>0, <2>9 DEF ComunicateFreeSeat, workerVars
  <2> QED BY <1>6, <2>1, <2>2, <2>3, <2>4, <2>5, <2>6, <2>7, <2>8, <2>9 DEF WorkerStep
<1>7. rests \in [Workers -> 0..NOF_PAUSE]
  BY <1>0 DEF Typed, WorkersTyped
<1>8. CASE UNCHANGED <<workerVars, deskVars, at>>
  BY <1>0, <1>8 DEF workerVars, deskVars, PlacesTyped
<1>9. ASSUME NEW p \in Receivers, NEW to, Becomes(p, to),
             at[p] \notin {"home", "paused", "stopped"},
             to \in Dest,
             torn => torn', to \in AtWork /\ p \in Workers => at[p] \in AtWork,
             \A w \in Workers : rests'[w] = rests[w] \/ (w = p /\ to \notin AtWork)
      PROVE  Calm
  <2>1. /\ \A q \in Receivers : at'[q] = IF q = p THEN to ELSE at[q]
        /\ PlacesTyped'
    BY <1>0, <1>9 DEF PlacesTyped
  <2> QED BY <1>9, <2>1
<1>10. ASSUME NEW p \in Receivers, NoMes(p) \/ DayEnded(p)
       PROVE  Calm
  <2>1. UNCHANGED <<workerVars, deskVars>>
    BY <1>2, <1>3, <1>10
  <2>2. UNCHANGED at \/ Move(p, {"core"}, "stopped") \/ Move(p, {"core"}, "home")
    BY <1>2, <1>3, <1>10
  <2>3. CASE UNCHANGED at
    BY <1>8, <2>1, <2>3
  <2>4. CASE ~UNCHANGED at
    <3>1. PICK to \in {"stopped", "home"} : Move(p, {"core"}, to)
      BY <2>2, <2>4
    <3>2. (torn => torn') /\ rests' = rests
      BY <2>1 DEF deskVars, workerVars
    <3> QED BY <3>1, <3>2, <1>9 DEF AtWork
  <2> QED BY <2>3, <2>4
<1>11. ASSUME NEW d \in Receivers, d = Dispenser, DispenserStep(d)
       PROVE  Calm
  <2>1. PICK to \in {"look", "copyMsg", "copySem", "answer", "core"} :
             Move(d, {"core", "look", "copyMsg", "copySem", "answer"}, to)
    BY <1>5, <1>11
  <2>2. torn => torn'
    BY <1>5, <1>11
  <2>3. rests' = rests
    BY <1>5, <1>11 DEF workerVars
  <2>4. to \in AtWork /\ d \in Workers => at[d] \in AtWork
    BY <1>11
  <2>5. Becomes(d, to) /\ at[d] \notin {"home", "paused", "stopped"}
    BY <2>1
  <2>6. \A w \in Workers : rests'[w] = rests[w]
    BY <2>3
  <2>7. to \in Dest
    OBVIOUS
  <2> HIDE ProcessesDiffer DEF Dest, Becomes, Calm
  <2> QED BY <2>2, <2>4, <2>5, <2>6, <2>7, <1>9, Zenon
<1>12. ASSUME NEW w \in Workers, WorkerStep(w)
       PROVE  Calm
  <2>1. torn => torn'
    BY <1>6, <1>12 DEF deskVars
  <2>2. CASE UNCHANGED <<at, rests>>
    BY <1>0, <2>1, <2>2 DEF PlacesTyped
  <2>3. CASE \E to \in {"core", "check", "collect", "home", "stopped"} :
               Move(w, AtWork, to) /\ UNCHANGED rests
    <3>1. PICK to \in {"core", "check", "collect", "home", "stopped"} :
               Move(w, AtWork, to) /\ UNCHANGED rests
      BY <2>3
    <3>2. rests' = rests
      BY <3>1
    <3>3. at[w] \notin {"home", "paused", "stopped"} /\ at[w] \in AtWork
      BY <3>1 DEF AtWork
    <3>4. \A v \in Workers : rests'[v] = rests[v]
      BY <3>2
    <3>5. w \in Receivers /\ Becomes(w, to)
      BY <3>1
    <3>6. to \in Dest
      OBVIOUS
    <3> HIDE ProcessesDiffer DEF Dest, Becomes, Calm
    <3> QED BY <2>1, <3>3, <3>4, <3>5, <3>6, <1>9, Zenon
  <2>4. CASE Move(w, AtWork, "tell") /\ rests' = [rests EXCEPT ![w] = @ - 1]
    <3>1. \A v \in Workers : rests'[v] = rests[v] \/ (v = w /\ "tell" \notin AtWork)
      BY <1>7, <2>4 DEF AtWork
    <3> QED BY <2>1, <2>4, <3>1, <1>9 DEF AtWork
  <2>5. CASE Move(w, {"tell"}, "paused") /\ UNCHANGED rests
    <3>1. /\ w \in Receivers /\ at' = [at EXCEPT ![w] = "paused"]
          /\ at[w] \notin {"home", "paused", "stopped"} /\ "paused" \notin AtWork
          /\ \A v \in Workers : rests'[v] = rests[v]
      BY <2>5 DEF AtWork
    <3> HIDE ProcessesDiffer
    <3> QED BY <2>1, <3>1, <1>9
  <2> QED BY <1>6, <1>12, <2>2, <2>3, <2>4, <2>5
<1> QED BY <1>1, <1>4, <1>8, <1>10, <1>11, <1>12 DEF Next

LEMMA TableIsOf == \A s \in Services : SeatsOf[s] \subseteq Table /\ SeatsOf[s] \subseteq Nat
BY OfficeAssumption DEF Table

LEMMA Colleague ==
  ASSUME NEW w \in Workers, NEW v
  PROVE  v \in Colleagues(w) <=> v \in Workers /\ ServiceOf[v] = ServiceOf[w]
BY DEF Colleagues

(* The seats of a worker, and what a step does to them.                      *)
LEMMA SeatSteps ==
  ASSUME TableInv, WorkersTyped, NEW w \in Workers
  PROVE  /\ TakeSeat(w) => /\ table' \in [Table -> [taken : BOOLEAN, worker : Workers \cup {None}]]
                           /\ seat' \in [Workers -> Table \cup {None}]
                           /\ \E i \in SeatsOf[ServiceOf[w]] :
                                table' = [table EXCEPT ![i] = [taken |-> TRUE, worker |-> w]]
         /\ LeaveSeat(w) => /\ table' \in [Table -> [taken : BOOLEAN, worker : Workers \cup {None}]]
                            /\ seat' \in [Workers -> Table \cup {None}]
                            /\ \A i \in Table : /\ table'[i].worker = table[i].worker
                                                /\ table'[i].taken => table[i].taken
<1>1. ServiceOf[w] \in Services
  BY OfficeAssumption
<1>2. ASSUME TakeSeat(w)
      PROVE  /\ table' \in [Table -> [taken : BOOLEAN, worker : Workers \cup {None}]]
             /\ seat' \in [Workers -> Table \cup {None}]
             /\ \E i \in SeatsOf[ServiceOf[w]] :
                  table' = [table EXCEPT ![i] = [taken |-> TRUE, worker |-> w]]
  <2>1. PICK i \in SeatsOf[ServiceOf[w]] :
               /\ table' = [table EXCEPT ![i] = [taken |-> TRUE, worker |-> w]]
               /\ seat' = [seat EXCEPT ![w] = i]
    BY <1>2 DEF TakeSeat, FreeSeats
  <2>2. i \in Table
    BY <1>1, TableIsOf
  <2> QED BY <2>1, <2>2 DEF WorkersTyped
<1>3. ASSUME LeaveSeat(w)
      PROVE  /\ table' \in [Table -> [taken : BOOLEAN, worker : Workers \cup {None}]]
             /\ seat' \in [Workers -> Table \cup {None}]
             /\ \A i \in Table : /\ table'[i].worker = table[i].worker
                                 /\ table'[i].taken => table[i].taken
  <2>1. \A i \in Table : [table[i] EXCEPT !.taken = FALSE] =
                           [taken |-> FALSE, worker |-> table[i].worker]
    <3> SUFFICES ASSUME NEW i \in Table
                 PROVE  [table[i] EXCEPT !.taken = FALSE] =
                           [taken |-> FALSE, worker |-> table[i].worker]
      OBVIOUS
    <3> DEFINE e == table[i]
    <3>1. e \in [taken : BOOLEAN, worker : Workers \cup {None}]
      BY DEF WorkersTyped
    <3> HIDE DEF e
    <3> DEFINE d == [e EXCEPT !.taken = FALSE]
    <3>2. /\ d \in [taken : BOOLEAN, worker : Workers \cup {None}]
          /\ d.taken = FALSE /\ d.worker = e.worker
      BY <3>1
    <3> HIDE DEF d
    <3>3. d = [taken |-> FALSE, worker |-> e.worker]
      BY <3>2
    <3> QED BY <3>3 DEF d, e
  <2>2. \A i \in Table : table'[i] = IF i = seat[w]
                           THEN [taken |-> FALSE, worker |-> table[i].worker] ELSE table[i]
    BY <1>3, <2>1 DEF LeaveSeat
  <2>3. table' \in [Table -> [taken : BOOLEAN, worker : Workers \cup {None}]]
    <3>1. table' = [i \in Table |-> table'[i]]
      BY <1>3 DEF LeaveSeat
    <3>2. ASSUME NEW i \in Table
          PROVE  table'[i] \in [taken : BOOLEAN, worker : Workers \cup {None}]
      <4>1. table[i] \in [taken : BOOLEAN, worker : Workers \cup {None}]
        BY DEF WorkersTyped
      <4>2. table[i].worker \in Workers \cup {None}
        BY <4>1
      <4>3. [taken |-> FALSE, worker |-> table[i].worker] \in [taken : BOOLEAN, worker : Workers \cup {None}]
        BY <4>2
      <4> QED BY <2>2, <4>1, <4>3
    <3> QED BY <3>1, <3>2
  <2>4. seat' \in [Workers -> Table \cup {None}]
    BY <1>3 DEF LeaveSeat, WorkersTyped
  <2> QED BY <2>2, <2>3, <2>4
<1> QED BY <1>2, <1>3

(* Whose table entries change.                                               *)
LEMMA TableSteps ==
  ASSUME NEW w \in Workers, WorkerStep(w)
  PROVE  TakeSeat(w) \/ LeaveSeat(w) \/ UNCHANGED <<table, seat>>
BY DEF WorkerStep, EnterCore, WorkerServiceReq, SendServiceResp, WorkerSeatFree,
       CheckDayEnded, CollectPaused, WorkerDayEnded, WorkerPause, ComunicateFreeSeat, workerVars

LEMMA TableKept ==
  ASSUME OfficeInv, Next
  PROVE  /\ TableInv'
         /\ \A i \in Table : table[i].worker # None => table'[i].worker # None
<1> DEFINE Goal == /\ TableInv'
                   /\ \A i \in Table : table[i].worker # None => table'[i].worker # None
<1>0. TableInv /\ WorkersTyped
  BY DEF OfficeInv, Typed
<1>1. CASE UNCHANGED table
  BY <1>0, <1>1 DEF TableInv
<1>2. ASSUME NEW w \in Workers, TakeSeat(w)
      PROVE  Goal
  <2>1. PICK i \in SeatsOf[ServiceOf[w]] :
               table' = [table EXCEPT ![i] = [taken |-> TRUE, worker |-> w]]
    BY <1>0, <1>2, SeatSteps
  <2>2. i \in Table /\ ServiceOf[w] \in Services /\ w # None
    BY TableIsOf, OfficeAssumption, ProcessesDiffer
  <2>3. \A j \in Table : table'[j] = IF j = i THEN [taken |-> TRUE, worker |-> w] ELSE table[j]
    BY <1>0, <2>1, <2>2 DEF WorkersTyped
  <2>4. TableInv'
    <3> SUFFICES ASSUME NEW s \in Services, NEW j \in SeatsOf[s]
                 PROVE  /\ table'[j].taken => table'[j].worker # None
                        /\ table'[j].worker # None => ServiceOf[table'[j].worker] = s
      BY DEF TableInv
    <3>1. j \in Table
      BY TableIsOf
    <3>2. CASE j = i
      <4>1. s = ServiceOf[w]
        BY <2>2, <3>2, OfficeAssumption
      <4> QED BY <2>2, <2>3, <3>1, <3>2, <4>1
    <3>3. CASE j # i
      BY <1>0, <2>3, <3>1, <3>3 DEF TableInv
    <3> QED BY <3>2, <3>3
  <2>5. \A j \in Table : table[j].worker # None => table'[j].worker # None
    BY <2>2, <2>3
  <2> QED BY <2>4, <2>5
<1>3. ASSUME NEW w \in Workers, LeaveSeat(w)
      PROVE  Goal
  <2>1. \A i \in Table : /\ table'[i].worker = table[i].worker
                         /\ table'[i].taken => table[i].taken
    BY <1>0, <1>3, SeatSteps
  <2>2. TableInv'
    BY <1>0, <2>1, TableIsOf DEF TableInv
  <2> QED BY <2>1, <2>2
<1>4. CASE NewDay
  BY <1>1, <1>4 DEF NewDay
<1>5. CASE ClockStep
  BY <1>1, <1>5, Frames DEF workerVars
<1>6. CASE \E p \in Processes : ReleaseUnit(p)
  BY <1>1, <1>6, Frames DEF workerVars
<1>7. CASE \E p \in Receivers : NoMes(p) \/ DayEnded(p)
  BY <1>1, <1>7, Frames DEF workerVars
<1>8. CASE \E u \in Users : UserStep(u)
  BY <1>1, <1>8, Frames DEF workerVars
<1>9. CASE DispenserStep(Dispenser)
  BY <1>1, <1>9, Frames DEF workerVars
<1>10. ASSUME NEW w \in Workers, WorkerStep(w)
       PROVE  Goal
  BY <1>1, <1>2, <1>3, <1>10, TableSteps
<1> QED BY <1>4, <1>5, <1>6, <1>7, <1>8, <1>9, <1>10 DEF Next

(* The types of the users, of the dispenser and of the clock.                *)
LEMMA UsersTypedStep ==
  ASSUME OfficeInv, Next, ~NewDay
  PROVE  UsersTyped'
<1>0. UsersTyped /\ Typed
  BY DEF OfficeInv, Typed
<1>1. CASE UNCHANGED userVars
  BY <1>0, <1>1 DEF userVars, UsersTyped
<1>2. ASSUME NEW p \in Receivers, NoMes(p)
      PROVE  UsersTyped'
  BY <1>0, <1>2 DEF NoMes, UsersTyped
<1>3. ASSUME NEW u \in Users, UserClockNotifc(u)
      PROVE  UsersTyped'
  <2>1. Msg(u, "CLOCK_NOTIFC").serv \in Services
    BY <1>0, <1>3, Getting, MessageKinds, ProcessesDiffer DEF UserClockNotifc
  <2> QED BY <1>0, <1>3, <2>1 DEF UserClockNotifc, UsersTyped
<1>4. ASSUME NEW u \in Users, UserTicketResp(u)
      PROVE  UsersTyped'
  BY <1>0, <1>4 DEF UserTicketResp, UsersTyped
<1>5. ASSUME NEW u \in Users, UserServiceResp(u)
      PROVE  UsersTyped'
  <2> DEFINE s == wanted[u]
  <2>1. /\ filter' = [filter EXCEPT ![u] = USER_FILTER]
        /\ pending' = [pending EXCEPT ![u] = 0]
        /\ completed' = [completed EXCEPT ![u] = [completed[u] EXCEPT ![s] = @ + 1]]
        /\ rem' = [rem EXCEPT ![u] = [rem[u] EXCEPT ![s] = @ - 1]]
        /\ UNCHANGED <<wanted, visitors, refused>>
    BY <1>5 DEF UserServiceResp
  <2> HIDE DEF s
  <2>2. [completed[u] EXCEPT ![s] = @ + 1] \in [Services -> Nat]
    <3> DEFINE f == completed[u]
    <3>1. f \in [Services -> Nat]
      BY <1>0 DEF UsersTyped
    <3> HIDE DEF f
    <3>2. \A t \in Services : t = s => f[s] + 1 \in Nat
      BY <3>1
    <3>3. [f EXCEPT ![s] = @ + 1] \in [Services -> Nat]
      BY <3>1, <3>2
    <3> QED BY <3>3 DEF f
  <2>3. [rem[u] EXCEPT ![s] = @ - 1] \in [Services -> Int]
    <3> DEFINE f == rem[u]
    <3>1. f \in [Services -> Int]
      BY <1>0 DEF UsersTyped
    <3> HIDE DEF f
    <3>2. \A t \in Services : t = s => f[s] - 1 \in Int
      BY <3>1
    <3>3. [f EXCEPT ![s] = @ - 1] \in [Services -> Int]
      BY <3>1, <3>2
    <3> QED BY <3>3 DEF f
  <2> QED BY <1>0, <2>1, <2>2, <2>3 DEF UsersTyped
<1>6. CASE ClockStep
  BY <1>1, <1>6, Frames
<1>7. CASE \E p \in Processes : ReleaseUnit(p)
  BY <1>1, <1>7, Frames
<1>8. CASE \E p \in Receivers : DayEnded(p)
  BY <1>1, <1>8, Frames
<1>9. CASE DispenserStep(Dispenser)
  BY <1>1, <1>9, Frames
<1>10. CASE \E w \in Workers : WorkerStep(w)
  BY <1>1, <1>10, Frames
<1> QED BY <1>2, <1>3, <1>4, <1>5, <1>6, <1>7, <1>8, <1>9, <1>10 DEF Next, UserStep

LEMMA Finding ==
  ASSUME Typed, NEW p \in Receivers, NEW t, Has(p, t)
  PROVE  /\ First(p, t) \in 1..Len(mail[p])
         /\ Msg(p, t) = mail[p][First(p, t)]
         /\ Msg(p, t) \in Message /\ Msg(p, t).type = t
         /\ Without(p, t) = Taken(mail, p, First(p, t))
<1>1. mail[p] \in Seq(Message)
  BY DEF Typed, BoxesTyped, MailTypes
<1>2. /\ First(p, t) \in 1..Len(mail[p])
      /\ mail[p][First(p, t)].type = t
  BY <1>1, FirstIs
<1>3. mail[p][First(p, t)] \in Message
  BY <1>1, <1>2
<1> QED BY <1>2, <1>3 DEF Msg, Without, Taken

(* A worker is never asked for the service of another (worker.c:148).        *)
LEMMA Asked ==
  ASSUME OfficeInv, NEW p \in Receivers, Has(p, "SERVICE_REQ")
  PROVE  /\ Msg(p, "SERVICE_REQ") \in Requests
         /\ Msg(p, "SERVICE_REQ") # None
         /\ Msg(p, "SERVICE_REQ").serv = ServiceOf[p]
<1>1. Typed /\ MailInv
  BY DEF OfficeInv
<1>2. /\ First(p, "SERVICE_REQ") \in 1..Len(mail[p])
      /\ Msg(p, "SERVICE_REQ") = mail[p][First(p, "SERVICE_REQ")]
      /\ Msg(p, "SERVICE_REQ") \in Message /\ Msg(p, "SERVICE_REQ").type = "SERVICE_REQ"
  BY <1>1, Finding
<1>3. Good(p, Msg(p, "SERVICE_REQ"))
  BY <1>1, <1>2 DEF MailInv
<1> QED BY <1>2, <1>3, MessageKinds, ProcessesDiffer DEF Good

LEMMA AskedHere ==
  ASSUME OfficeInv, NEW w \in Workers
  PROVE  /\ WorkerServiceReq(w) =>
              /\ Has(w, "SERVICE_REQ") /\ at[w] = "core" /\ Free(w)
              /\ Msg(w, "SERVICE_REQ") \in Requests
              /\ Msg(w, "SERVICE_REQ") # None
              /\ Msg(w, "SERVICE_REQ").serv = ServiceOf[w]
         /\ CollectPaused(w) =>
              /\ source[w] \in Workers /\ at[source[w]] = "paused" /\ source[w] # w
              /\ ServiceOf[source[w]] = ServiceOf[w]
              /\ Has(source[w], "SERVICE_REQ") =>
                   /\ Msg(source[w], "SERVICE_REQ") \in Requests
                   /\ Msg(source[w], "SERVICE_REQ") # None
                   /\ Msg(source[w], "SERVICE_REQ").serv = ServiceOf[w]
<1>1. CASE WorkerServiceReq(w)
  <2>1. Has(w, "SERVICE_REQ") /\ at[w] = "core" /\ Free(w)
    BY <1>1 DEF WorkerServiceReq, Receive, Gets, Wakes, Idle
  <2> QED BY <1>1, <2>1, Asked, ProcessesDiffer DEF CollectPaused
<1>2. CASE CollectPaused(w)
  <2>1. at[w] = "collect"
    BY <1>2 DEF CollectPaused
  <2>2. source[w] \in Colleagues(w) /\ at[source[w]] = "paused"
    BY <2>1 DEF OfficeInv, WorkerInv
  <2>3. source[w] \in Workers /\ ServiceOf[source[w]] = ServiceOf[w] /\ source[w] # w
    BY <2>1, <2>2, Colleague
  <2>4. source[w] \in Receivers
    BY <2>3, ProcessesDiffer
  <2>5. ~WorkerServiceReq(w)
    BY <2>1 DEF WorkerServiceReq, Receive, Gets, Wakes, Idle
  <2> QED BY <2>2, <2>3, <2>4, <2>5, Asked
<1> QED BY <1>1, <1>2

LEMMA WorkersTypedStep ==
  ASSUME OfficeInv, Next, ~NewDay
  PROVE  WorkersTyped'
<1>0. WorkersTyped /\ Typed /\ TableInv /\ MailInv
  BY DEF OfficeInv, Typed
<1>1. CASE UNCHANGED workerVars
  BY <1>0, <1>1 DEF workerVars, WorkersTyped
<1>2. ASSUME NEW w \in Workers, WorkerStep(w)
      PROVE  WorkersTyped'
  <2>a. /\ table' \in [Table -> [taken : BOOLEAN, worker : Workers \cup {None}]]
        /\ seat' \in [Workers -> Table \cup {None}]
    BY <1>0, <1>2, TableSteps, SeatSteps DEF WorkersTyped
  <2>1. CASE EnterCore(w)
    BY <1>0, <2>a, <2>1 DEF EnterCore, WorkersTyped
  <2>2. CASE WorkerServiceReq(w)
    <3>1. Msg(w, "SERVICE_REQ") \in Requests
      BY <2>2, AskedHere
    <3>2. /\ UNCHANGED <<late, rests, source>>
          /\ serving' = [serving EXCEPT ![w] =
               IF Msg(w, "SERVICE_REQ").serv = ServiceOf[w] THEN Msg(w, "SERVICE_REQ") ELSE None]
          /\ delivered' = [delivered EXCEPT ![w] =
               IF Msg(w, "SERVICE_REQ").serv = ServiceOf[w] THEN @ + 1 ELSE @]
      BY <2>2 DEF WorkerServiceReq, Provide
    <3> QED BY <1>0, <2>a, <3>1, <3>2 DEF WorkersTyped
  <2>3. CASE SendServiceResp(w)
    BY <1>0, <2>a, <2>3 DEF SendServiceResp, WorkersTyped
  <2>4. CASE WorkerSeatFree(w)
    <3>1. Msg(w, "SEAT_FREE").worker \in Workers
      BY <1>0, <2>4, Getting, MessageKinds, ProcessesDiffer DEF WorkerSeatFree, Receive
    <3> QED BY <1>0, <2>a, <2>4, <3>1 DEF WorkerSeatFree, WorkersTyped
  <2>5. CASE CheckDayEnded(w)
    BY <1>0, <2>a, <2>5 DEF CheckDayEnded, WorkersTyped
  <2>6. CASE CollectPaused(w)
    BY <1>0, <2>a, <2>6, AskedHere DEF CollectPaused, Provide, WorkersTyped
  <2>7. CASE WorkerDayEnded(w)
    BY <1>0, <2>a, <2>7 DEF WorkerDayEnded, WorkersTyped
  <2>8. CASE WorkerPause(w)
    <3>1. /\ at[w] = "core"
          /\ First(w, "PAUSE_NOTIFC") \in 1..Len(mail[w])
          /\ mail[w][First(w, "PAUSE_NOTIFC")].type = "PAUSE_NOTIFC"
      BY <1>0, <2>8, Getting, ProcessesDiffer DEF WorkerPause, Receive
    <3>2. rests[w] > 0
      BY <1>0, <3>1, ProcessesDiffer DEF MailInv, Good, AtWork
    <3>3. rests[w] - 1 \in 0..NOF_PAUSE
      BY <1>0, <3>2, OfficeAssumption DEF WorkersTyped
    <3> QED BY <1>0, <2>a, <2>8, <3>3 DEF WorkerPause, WorkersTyped
  <2>9. CASE ComunicateFreeSeat(w)
    BY <1>1, <2>9 DEF ComunicateFreeSeat
  <2> QED BY <1>2, <2>1, <2>2, <2>3, <2>4, <2>5, <2>6, <2>7, <2>8, <2>9 DEF WorkerStep
<1>3. CASE ClockStep
  BY <1>1, <1>3, Frames
<1>4. CASE \E p \in Processes : ReleaseUnit(p)
  BY <1>1, <1>4, Frames
<1>5. CASE \E p \in Receivers : NoMes(p) \/ DayEnded(p)
  BY <1>1, <1>5, Frames
<1>6. CASE \E u \in Users : UserStep(u)
  BY <1>1, <1>6, Frames
<1>7. CASE DispenserStep(Dispenser)
  BY <1>1, <1>7, Frames
<1> QED BY <1>2, <1>3, <1>4, <1>5, <1>6, <1>7 DEF Next

LEMMA ClockTypedStep ==
  ASSUME OfficeInv, Next, ~NewDay
  PROVE  ClockTyped' /\ PauseInv'
<1>0. ClockTyped /\ PauseInv /\ MINUTES_IN_DAY \in Nat
  BY OfficeAssumption DEF OfficeInv, Typed
<1>1. pauses' \subseteq pauses => PauseInv'
  BY <1>0, Moves DEF PauseInv, ClockTyped
<1>2. CASE UNCHANGED clockVars
  BY <1>0, <1>1, <1>2 DEF clockVars, ClockTyped
<1>3. CASE SendUserNotific
  BY <1>0, <1>1, <1>3 DEF SendUserNotific, ClockTyped
<1>4. CASE SendWorkerPause
  BY <1>0, <1>1, <1>4 DEF SendWorkerPause, ClockTyped
<1>5. CASE NextMinute
  BY <1>0, <1>1, <1>5 DEF NextMinute, Ticking, ClockTyped
<1>6. CASE TellDayEnded
  BY <1>0, <1>1, <1>6 DEF TellDayEnded, ClockTyped
<1>7. CASE \E p \in Processes : ReleaseUnit(p)
  BY <1>2, <1>7, Frames
<1>8. CASE \E p \in Receivers : NoMes(p) \/ DayEnded(p)
  BY <1>2, <1>8, Frames
<1>9. CASE \E u \in Users : UserStep(u)
  BY <1>2, <1>9, Frames
<1>10. CASE DispenserStep(Dispenser)
  BY <1>2, <1>10, Frames
<1>11. CASE \E w \in Workers : WorkerStep(w)
  BY <1>2, <1>11, Frames
<1> QED BY <1>3, <1>4, <1>5, <1>6, <1>7, <1>8, <1>9, <1>10, <1>11 DEF Next, ClockStep

(* A process owes units only by steps of its own.                            *)
LEMMA Owing ==
  ASSUME BoxesTyped
  PROVE  /\ ClockStep => \A p \in Receivers : owes'[p] = owes[p]
         /\ \A p \in Processes : ReleaseUnit(p) =>
              \A q \in Processes : owes'[q] = IF q = p THEN {} ELSE owes[q]
         /\ \A u \in Users : UserStep(u) => \A p \in Processes \ {u} : owes'[p] = owes[p]
         /\ DispenserStep(Dispenser) =>
              \A p \in Processes \ {Dispenser} : owes'[p] = owes[p]
         /\ \A w \in Workers : WorkerStep(w) => \A p \in Processes \ {w} : owes'[p] = owes[p]
<1> DEFINE Same(r) == \A p \in Processes \ {r} : owes'[p] = owes[p]
<1>1. ASSUME NEW r, NEW G, owes' = owes \/ owes' = [owes EXCEPT ![r] = G]
      PROVE  Same(r)
  BY <1>1 DEF BoxesTyped
<1>2. ASSUME ClockStep
      PROVE  \A p \in Receivers : owes'[p] = owes[p]
  <2>1. UNCHANGED owes \/ \E G : owes' = [owes EXCEPT ![Clock] = G]
    BY <1>2 DEF ClockStep, SendUserNotific, SendWorkerPause, NextMinute, TellDayEnded, Send, mailVars
  <2>2. Same(Clock)
    BY <1>1, <2>1
  <2> QED BY <2>2, ProcessesDiffer
<1>3. ASSUME NEW p \in Processes, ReleaseUnit(p)
      PROVE  \A q \in Processes : owes'[q] = IF q = p THEN {} ELSE owes[q]
  BY <1>3 DEF ReleaseUnit, BoxesTyped
<1>4. ASSUME NEW u \in Users, UserStep(u)
      PROVE  Same(u)
  <2>1. UNCHANGED owes \/ \E G : owes' = [owes EXCEPT ![u] = G]
    BY <1>4 DEF UserStep, UserClockNotifc, UserTicketResp, UserServiceResp, Answer
  <2> QED BY <1>1, <2>1
<1>5. ASSUME DispenserStep(Dispenser)
      PROVE  Same(Dispenser)
  <2>1. UNCHANGED owes \/ \E G : owes' = [owes EXCEPT ![Dispenser] = G]
    BY <1>5 DEF DispenserStep, TicketReq, Receive, FindSeat, CopySeat, SendTicketResp, Send, mailVars
  <2> QED BY <1>1, <2>1
<1>6. ASSUME NEW w \in Workers, WorkerStep(w)
      PROVE  Same(w)
  <2>1. UNCHANGED owes \/ \E G : owes' = [owes EXCEPT ![w] = G]
    BY <1>6 DEF WorkerStep, EnterCore, WorkerServiceReq, SendServiceResp, WorkerSeatFree,
         CheckDayEnded, CollectPaused, WorkerDayEnded, WorkerPause, ComunicateFreeSeat, Receive,
         Send, mailVars
  <2> QED BY <1>1, <2>1
<1> QED BY <1>2, <1>3, <1>4, <1>5, <1>6

(* What a step of others leaves to the process p.                            *)
LEMMA OthersSteps ==
  ASSUME OfficeInv, Next, ~NewDay, NEW p \in Receivers,
         ~(p \in Users /\ UserStep(p)), ~(p = Dispenser /\ DispenserStep(Dispenser)),
         ~(p \in Workers /\ WorkerStep(p)), ~NoMes(p), ~DayEnded(p)
  PROVE  /\ at'[p] = at[p]
         /\ Free(p) => Free(p)'
<1>0. BoxesTyped /\ PlacesTyped /\ Typed
  BY DEF OfficeInv, Typed
<1>1. CASE ClockStep
  BY <1>0, <1>1, Frames, Owing DEF Free
<1>2. ASSUME NEW q \in Processes, ReleaseUnit(q)
      PROVE  at'[p] = at[p] /\ (Free(p) => Free(p)')
  BY <1>0, <1>2, Frames, Owing, ProcessesDiffer DEF Free
<1>3. ASSUME NEW q \in Receivers, NoMes(q) \/ DayEnded(q)
      PROVE  at'[p] = at[p] /\ (Free(p) => Free(p)')
  <2>1. q # p /\ owes' = owes
    BY <1>3, Frames
  <2>2. UNCHANGED at \/ at' = [at EXCEPT ![q] = "stopped"] \/ at' = [at EXCEPT ![q] = "home"]
    BY <1>3 DEF NoMes, DayEnded
  <2> QED BY <1>0, <2>1, <2>2 DEF Free, PlacesTyped
<1>4. ASSUME NEW u \in Users, UserStep(u)
      PROVE  at'[p] = at[p] /\ (Free(p) => Free(p)')
  <2>1. u # p
    BY <1>4
  <2> QED BY <1>0, <1>4, <2>1, Frames, Owing, ProcessesDiffer DEF Free
<1>5. CASE DispenserStep(Dispenser)
  <2>1. p # Dispenser
    BY <1>5
  <2>2. UNCHANGED at \/ \E to : at' = [at EXCEPT ![Dispenser] = to]
    BY <1>5 DEF DispenserStep, TicketReq, FindSeat, CopySeat, SendTicketResp
  <2> QED BY <1>0, <1>5, <2>1, <2>2, Owing, ProcessesDiffer DEF Free, PlacesTyped
<1>6. ASSUME NEW w \in Workers, WorkerStep(w)
      PROVE  at'[p] = at[p] /\ (Free(p) => Free(p)')
  <2>1. p # w
    BY <1>6
  <2>2. UNCHANGED at \/ \E to : at' = [at EXCEPT ![w] = to]
    BY <1>6 DEF WorkerStep, EnterCore, WorkerServiceReq, Provide, SendServiceResp, WorkerSeatFree,
         CheckDayEnded, CollectPaused, WorkerDayEnded, WorkerPause, ComunicateFreeSeat
  <2> QED BY <1>0, <1>6, <2>1, <2>2, Owing, ProcessesDiffer DEF Free, PlacesTyped
<1> QED BY <1>1, <1>2, <1>3, <1>4, <1>5, <1>6 DEF Next

LEMMA UserInvStep ==
  ASSUME OfficeInv, Next, ~NewDay
  PROVE  UserInv'
<1> SUFFICES ASSUME NEW u \in Users PROVE at'[u] \in {"home", "core", "stopped"}
  BY DEF UserInv
<1>0. PlacesTyped /\ at[u] \in {"home", "core", "stopped"} /\ u \in Receivers
  BY ProcessesDiffer DEF OfficeInv, Typed, UserInv
<1>1. CASE NoMes(u) \/ DayEnded(u)
  BY <1>0, <1>1 DEF NoMes, DayEnded, PlacesTyped
<1>2. CASE UserStep(u)
  BY <1>0, <1>2, Frames
<1>3. CASE ~NoMes(u) /\ ~DayEnded(u) /\ ~UserStep(u)
  BY <1>0, <1>3, OthersSteps, ProcessesDiffer
<1> QED BY <1>1, <1>2, <1>3

LEMMA NoCardIs == NoCard \in [seat : Table \cup {None}, msg : Workers \cup {None},
                              sem : Workers \cup {None}]
BY DEF NoCard

(* What the table says of a seat the dispenser has found.                    *)
LEMMA SeatFound ==
  ASSUME OfficeInv, NEW s \in Services, NEW i \in SeatsOf[s], table[i].worker # None
  PROVE  /\ i \in Table
         /\ table[i].worker \in Workers
         /\ ServiceOf[table[i].worker] = s
BY TableIsOf DEF OfficeInv, Typed, WorkersTyped, TableInv

LEMMA DeskStep ==
  ASSUME OfficeInv, Next, ~NewDay
  PROVE  DeskTyped' /\ DeskInv'
<1> USE ProcessesDiffer
<1> DEFINE D == Dispenser
<1>0. /\ Typed /\ DeskTyped /\ DeskInv /\ PlacesTyped /\ BoxesTyped /\ D \in Receivers
      /\ D \in DOMAIN at
  BY DEF OfficeInv, Typed, PlacesTyped
<1>1. ASSUME NEW s \in Services, NEW i \in SeatsOf[s], table[i].worker # None
      PROVE  table'[i].worker # None
  BY <1>1, TableKept, TableIsOf
<1>2. request # None => request.serv \in Services /\ request.user \in Users
  BY <1>0 DEF DeskTyped, Requests
<1>3. CASE ~NoMes(D) /\ ~DayEnded(D) /\ ~DispenserStep(D)
  <2>1. at'[D] = at[D] /\ (Free(D) => Free(D)')
    BY <1>3, OthersSteps
  <2>2. UNCHANGED deskVars
    <3>1. CASE \E p \in Receivers : NoMes(p) \/ DayEnded(p)
      BY <3>1, Frames
    <3>2. CASE \E u \in Users : UserStep(u)
      BY <3>2, Frames
    <3>3. CASE \E w \in Workers : WorkerStep(w)
      BY <3>3, Frames
    <3>4. CASE ClockStep
      BY <3>4, Frames
    <3>5. CASE \E p \in Processes : ReleaseUnit(p)
      BY <3>5, Frames
    <3> QED BY <1>3, <3>1, <3>2, <3>3, <3>4, <3>5 DEF Next
  <2>3. DeskTyped'
    BY <1>0, <2>2 DEF deskVars, DeskTyped
  <2>4. DeskInv'
    BY <1>0, <1>1, <1>2, <2>1, <2>2 DEF deskVars, DeskInv, Named
  <2> QED BY <2>3, <2>4
<1>4. CASE NoMes(D) \/ DayEnded(D)
  <2>1. /\ UNCHANGED deskVars /\ at[D] = "core" /\ at'[D] \in {"stopped", "home", "core"}
    <3>1. CASE NoMes(D)
      BY <1>0, <3>1 DEF NoMes, Wakes, Idle, CanSkip, PlacesTyped
    <3>2. CASE DayEnded(D)
      BY <1>0, <3>2, Getting DEF DayEnded, Receive, PlacesTyped
    <3> QED BY <1>4, <3>1, <3>2
  <2> QED BY <1>0, <2>1 DEF deskVars, DeskTyped, DeskInv
<1>5. CASE TicketReq(D)
  <2>1. /\ at[D] = "core" /\ Free(D) /\ Msg(D, "TICKET_REQ") \in Message
        /\ Msg(D, "TICKET_REQ").type = "TICKET_REQ"
    BY <1>0, <1>5, Getting DEF TicketReq, Receive
  <2>2. Msg(D, "TICKET_REQ") \in Requests /\ Msg(D, "TICKET_REQ") # None
    BY <2>1, MessageKinds
  <2>3. /\ request' = Msg(D, "TICKET_REQ") /\ at'[D] = "look" /\ Free(D)'
        /\ UNCHANGED <<card, torn>>
    BY <1>0, <1>5, <2>1 DEF TicketReq, Receive, Free
  <2>4. card = NoCard
    BY <1>0, <2>1 DEF DeskInv
  <2> QED BY <1>0, <2>2, <2>3, <2>4 DEF DeskTyped, DeskInv
<1>6. CASE FindSeat(D)
  <2>1. /\ at[D] = "look" /\ request # None /\ card = NoCard /\ Free(D)
    BY <1>0, <1>6 DEF DeskInv, FindSeat
  <2>2. UNCHANGED <<request, torn, table>> /\ Free(D)'
    BY <1>6, <2>1 DEF FindSeat, mailVars, workerVars, Free
  <2>3. ASSUME NEW i \in SeatsOf[request.serv], table[i].taken,
               card' = [card EXCEPT !.seat = i], at' = [at EXCEPT ![D] = "copyMsg"]
        PROVE  DeskTyped' /\ DeskInv'
    <3>1. i \in Table
      BY <1>2, <2>1, TableIsOf
    <3>2. /\ card' \in [seat : Table \cup {None}, msg : Workers \cup {None},
                        sem : Workers \cup {None}]
          /\ card'.seat = i
      BY <1>0, <2>3, <3>1 DEF DeskTyped
    <3>3. table[i].worker # None
      BY <1>2, <2>1, <2>3 DEF OfficeInv, TableInv
    <3>4. at'[D] = "copyMsg"
      BY <1>0, <2>3
    <3> QED BY <1>0, <2>1, <2>2, <3>2, <3>3, <3>4 DEF DeskTyped, DeskInv
  <2>4. CASE at' = [at EXCEPT ![D] = "answer"] /\ UNCHANGED card
    <3>1. at'[D] = "answer"
      BY <1>0, <2>4
    <3> QED BY <1>0, <2>1, <2>2, <2>4, <3>1 DEF DeskTyped, DeskInv
  <2> QED BY <1>6, <2>3, <2>4 DEF FindSeat
<1>7. CASE CopySeat(D)
  <2> DEFINE i == card.seat
             w == table[i].worker
  <2>1. /\ request # None /\ Free(D) /\ i \in SeatsOf[request.serv] /\ table[i].worker # None
    BY <1>0, <1>7 DEF DeskInv, CopySeat
  <2>2. UNCHANGED <<request, torn, table>> /\ Free(D)'
    BY <1>7, <2>1 DEF CopySeat, mailVars, workerVars, Free
  <2>3. i \in Table /\ w \in Workers /\ ServiceOf[w] = request.serv /\ w # None
    BY <1>2, <2>1, SeatFound
  <2>4. CASE at[D] = "copyMsg"
    <3>1. card' = [card EXCEPT !.msg = w] /\ at' = [at EXCEPT ![D] = "copySem"]
      BY <1>7, <2>4 DEF CopySeat
    <3>2. /\ card' \in [seat : Table \cup {None}, msg : Workers \cup {None},
                        sem : Workers \cup {None}]
          /\ card'.seat = i /\ card'.msg = w
      BY <1>0, <2>3, <3>1 DEF DeskTyped
    <3>3. at'[D] = "copySem"
      BY <1>0, <3>1
    <3> QED BY <1>0, <2>1, <2>2, <2>3, <3>2, <3>3 DEF DeskTyped, DeskInv
  <2>5. CASE at[D] = "copySem"
    <3>1. card' = [card EXCEPT !.sem = w] /\ at' = [at EXCEPT ![D] = "answer"]
      BY <1>7, <2>5 DEF CopySeat
    <3>2. /\ card' \in [seat : Table \cup {None}, msg : Workers \cup {None},
                        sem : Workers \cup {None}]
          /\ card'.seat = i /\ card'.sem = w /\ card'.msg = card.msg
      BY <1>0, <2>3, <3>1 DEF DeskTyped
    <3>3. at'[D] = "answer"
      BY <1>0, <3>1
    <3>4. card.msg \in Workers /\ ServiceOf[card.msg] = request.serv
      BY <1>0, <2>5 DEF DeskInv, DeskTyped
    <3>5. Named(card', request.serv)
      BY <2>3, <3>2, <3>4 DEF Named
    <3> QED BY <1>0, <2>1, <2>2, <3>2, <3>3, <3>5 DEF DeskTyped, DeskInv
  <2> QED BY <1>7, <2>4, <2>5 DEF CopySeat
<1>8. CASE SendTicketResp(D)
  <2>1. /\ request' = None /\ card' = NoCard /\ at'[D] = "core"
        /\ torn' = (torn \/ card.msg # card.sem)
    BY <1>0, <1>8 DEF SendTicketResp
  <2>2. torn' \in BOOLEAN
    BY <2>1
  <2> QED BY <2>1, <2>2, NoCardIs DEF DeskTyped, DeskInv
<1> QED BY <1>3, <1>4, <1>5, <1>6, <1>7, <1>8 DEF DispenserStep

LEMMA WorkerInvStep ==
  ASSUME OfficeInv, Next, ~NewDay
  PROVE  WorkerInv'
<1> USE ProcessesDiffer
<1> DEFINE Fine(v) ==
      /\ at[v] \in {"home", "enter", "core", "check", "collect", "tell", "paused", "stopped"}
      /\ serving[v] # None => at[v] \in {"core", "check"}
      /\ at[v] \in {"enter", "collect", "tell"} => Free(v)
      /\ at[v] \in {"check", "collect"} =>
           source[v] \in Colleagues(v) /\ at[source[v]] = "paused"
<1>0. /\ Typed /\ WorkersTyped /\ PlacesTyped /\ BoxesTyped /\ WorkerInv /\ MailInv
      /\ \A v \in Workers : Fine(v)
  BY DEF OfficeInv, Typed, WorkerInv
<1>1. \A v \in Workers : \A x \in Colleagues(v) : x \in Receivers /\ x \in Workers
  BY DEF Colleagues
<1>2. \A p \in Receivers : at[p] = "paused" => at'[p] = "paused"
  BY Moves
<1>3. SUFFICES ASSUME NEW v \in Workers PROVE Fine(v)'
  BY DEF WorkerInv
<1>4. ASSUME ~WorkerStep(v) PROVE serving'[v] = serving[v] /\ source'[v] = source[v]
  <2>1. CASE UNCHANGED workerVars
    BY <2>1 DEF workerVars
  <2>2. ASSUME NEW w \in Workers, WorkerStep(w)
        PROVE  serving'[v] = serving[v] /\ source'[v] = source[v]
    <3>1. w # v
      BY <1>4, <2>2
    <3>2. UNCHANGED serving \/ \E x : serving' = [serving EXCEPT ![w] = x]
      BY <2>2 DEF WorkerStep, EnterCore, WorkerServiceReq, Provide, SendServiceResp, WorkerSeatFree,
         CheckDayEnded, CollectPaused, WorkerDayEnded, WorkerPause, ComunicateFreeSeat, workerVars
    <3>3. UNCHANGED source \/ \E x : source' = [source EXCEPT ![w] = x]
      BY <2>2 DEF WorkerStep, EnterCore, WorkerServiceReq, Provide, SendServiceResp, WorkerSeatFree,
         CheckDayEnded, CollectPaused, WorkerDayEnded, WorkerPause, ComunicateFreeSeat, workerVars
    <3> QED BY <1>0, <3>1, <3>2, <3>3 DEF WorkersTyped
  <2>3. CASE \E p \in Receivers : NoMes(p) \/ DayEnded(p)
    BY <2>1, <2>3, Frames
  <2>4. CASE \E u \in Users : UserStep(u)
    BY <2>1, <2>4, Frames
  <2>5. CASE DispenserStep(Dispenser)
    BY <2>1, <2>5, Frames
  <2>6. CASE ClockStep
    BY <2>1, <2>6, Frames
  <2>7. CASE \E p \in Processes : ReleaseUnit(p)
    BY <2>1, <2>7, Frames
  <2> QED BY <2>2, <2>3, <2>4, <2>5, <2>6, <2>7 DEF Next
<1>5. CASE ~NoMes(v) /\ ~DayEnded(v) /\ ~WorkerStep(v)
  <2>1. at'[v] = at[v] /\ (Free(v) => Free(v)')
    BY <1>5, OthersSteps
  <2>2. serving'[v] = serving[v] /\ source'[v] = source[v]
    BY <1>4, <1>5
  <2>3. at[v] \in {"check", "collect"} =>
          source'[v] \in Colleagues(v) /\ at'[source'[v]] = "paused"
    BY <1>0, <1>1, <1>2, <2>2
  <2> QED BY <1>0, <2>1, <2>2, <2>3
<1>6. CASE NoMes(v)
  <2>1. /\ at[v] = "core" /\ serving[v] = None /\ UNCHANGED <<serving, source>>
        /\ at'[v] = "stopped"
    BY <1>0, <1>6 DEF NoMes, Wakes, Idle, CanSkip, PlacesTyped, workerVars
  <2> QED BY <2>1
<1>7. CASE DayEnded(v)
  BY <1>7 DEF DayEnded
<1>8. CASE WorkerStep(v)
  <2>1. CASE EnterCore(v)
    <3>1. at[v] = "enter" /\ at'[v] = "core" /\ serving'[v] = serving[v]
      BY <1>0, <2>1 DEF EnterCore, PlacesTyped
    <3> QED BY <1>0, <3>1
  <2>2. CASE WorkerServiceReq(v)
    <3>1. at'[v] = "core"
      BY <1>0, <2>2, AskedHere DEF WorkerServiceReq, Provide, PlacesTyped
    <3> QED BY <3>1
  <2>3. CASE SendServiceResp(v)
    <3>1. /\ at' = at /\ at[v] \in {"core", "check"} /\ UNCHANGED source
          /\ serving'[v] = None
      BY <1>0, <2>3 DEF SendServiceResp, WorkersTyped
    <3> QED BY <1>0, <3>1
  <2>4. CASE WorkerSeatFree(v)
    <3> DEFINE m == Msg(v, "SEAT_FREE")
    <3>1. /\ at[v] = "core" /\ Free(v) /\ serving[v] = None
          /\ First(v, "SEAT_FREE") \in 1..Len(mail[v])
          /\ m = mail[v][First(v, "SEAT_FREE")] /\ m.type = "SEAT_FREE"
      BY <1>0, <2>4, Getting DEF WorkerSeatFree, Receive
    <3>2. m.worker \in Colleagues(v) /\ at[m.worker] = "paused"
      BY <1>0, <3>1 DEF MailInv, Good
    <3>3. serving' = serving
      BY <2>4 DEF WorkerSeatFree
    <3>4. CASE UNCHANGED <<at, source>>
      BY <3>1, <3>3, <3>4
    <3>5. CASE at' = [at EXCEPT ![v] = "check"] /\ source' = [source EXCEPT ![v] = m.worker]
      <4>1. at'[v] = "check" /\ source'[v] = m.worker
        BY <1>0, <3>5 DEF PlacesTyped, WorkersTyped
      <4>2. at'[m.worker] = "paused"
        BY <1>1, <1>2, <3>2
      <4> HIDE DEF m
      <4> QED BY <3>2, <3>3, <3>1, <4>1, <4>2
    <3> QED BY <2>4, <3>4, <3>5 DEF WorkerSeatFree
  <2>5. CASE CheckDayEnded(v)
    <3>1. /\ at[v] = "check" /\ serving[v] = None /\ serving' = serving
          /\ Free(v) /\ owes' = owes
          /\ at'[v] \in {"home", "collect"}
          /\ at'[v] = "collect" => source' = source
      BY <1>0, <2>5 DEF CheckDayEnded, PlacesTyped
    <3>2. at'[v] = "collect" => source'[v] \in Colleagues(v) /\ at'[source'[v]] = "paused"
      BY <1>0, <1>1, <1>2, <3>1
    <3> QED BY <3>1, <3>2 DEF Free
  <2>6. CASE CollectPaused(v)
    <3>1. /\ at[v] = "collect" /\ source[v] \in Colleagues(v) /\ serving[v] = None
      BY <1>0, <2>6 DEF CollectPaused
    <3>2. CASE Has(source[v], "SERVICE_REQ") /\ Provide(v, Msg(source[v], "SERVICE_REQ"), "check")
               /\ UNCHANGED source
      <4>1. at'[v] = "check"
        BY <1>0, <2>6, <3>2, AskedHere DEF Provide, PlacesTyped
      <4>2. at'[source'[v]] = "paused" /\ source'[v] = source[v]
        BY <1>0, <1>1, <1>2, <3>1, <3>2
      <4> QED BY <3>1, <4>1, <4>2
    <3>3. CASE at' = [at EXCEPT ![v] = "core"] /\ UNCHANGED serving
      <4>1. at'[v] = "core" /\ serving'[v] = None
        BY <1>0, <3>1, <3>3 DEF PlacesTyped
      <4> QED BY <4>1
    <3> QED BY <2>6, <3>2, <3>3 DEF CollectPaused
  <2>7. CASE WorkerDayEnded(v)
    <3>1. /\ at'[v] = "home" /\ serving'[v] = None
      BY <1>0, <2>7, Getting DEF WorkerDayEnded, Receive, PlacesTyped
    <3> QED BY <3>1
  <2>8. CASE WorkerPause(v)
    <3>1. /\ at'[v] \in {"tell", "core"} /\ serving'[v] = None /\ Free(v)'
      BY <1>0, <2>8, Getting DEF WorkerPause, Receive, PlacesTyped, Free
    <3> QED BY <3>1
  <2>9. CASE ComunicateFreeSeat(v)
    <3>1. /\ at'[v] = "paused" /\ serving'[v] = serving[v] /\ at[v] = "tell"
      BY <1>0, <2>9 DEF ComunicateFreeSeat, PlacesTyped, workerVars
    <3> QED BY <1>0, <3>1
  <2> QED BY <1>8, <2>1, <2>2, <2>3, <2>4, <2>5, <2>6, <2>7, <2>8, <2>9 DEF WorkerStep
<1> QED BY <1>5, <1>6, <1>7, <1>8

(* What holds of a message goes on holding during the day.                   *)
LEMMA GoodStays ==
  ASSUME OfficeInv, Next, ~NewDay, NEW p \in Receivers, NEW m \in Message, Good(p, m)
  PROVE  Good(p, m)'
<1> USE ProcessesDiffer
<1>1. /\ \A q \in Receivers : at[q] \in {"home", "paused", "stopped"} => at'[q] = at[q]
      /\ torn => torn'
      /\ \A w \in Workers : at'[w] \in AtWork => at[w] \in AtWork /\ rests'[w] = rests[w]
  BY Moves
<1>2. m.type = "PAUSE_NOTIFC" => p \in Workers
  BY DEF Good
<1>3. m.type = "SEAT_FREE" /\ at[p] # "home" => m.worker \in Receivers
  BY DEF Good, Colleagues
<1>4. at'[p] # "home" => at[p] # "home"
  BY <1>1
<1>5. m.type = "SEAT_FREE" /\ at'[p] # "home" =>
        m.worker \in Colleagues(p) /\ at'[m.worker] = "paused"
  BY <1>1, <1>3, <1>4 DEF Good
<1>6. m.type = "PAUSE_NOTIFC" /\ at'[p] \in AtWork => rests'[p] > 0
  BY <1>1, <1>2 DEF Good
<1> QED BY <1>1, <1>5, <1>6 DEF Good

Old(r, x) == \E i \in 1..Len(mail[r]) : x = mail[r][i]

(* Mailboxes that hold nothing but old messages and good new ones.           *)
LEMMA MailInvFrom ==
  ASSUME OfficeInv, Next, ~NewDay, mail' \in MailTypes,
         \A r \in Receivers : \A j \in 1..Len(mail'[r]) :
           \/ Old(r, mail'[r][j])
           \/ \E y \in Message : y = mail'[r][j] /\ Good(r, y)'
  PROVE  MailInv'
<1>1. ASSUME NEW r \in Receivers, NEW j \in 1..Len(mail'[r])
      PROVE  \E y \in Message : y = mail'[r][j] /\ Good(r, y)'
  <2>1. CASE Old(r, mail'[r][j])
    <3>1. PICK i \in 1..Len(mail[r]) : mail'[r][j] = mail[r][i]
      BY <2>1 DEF Old
    <3>2. mail[r][i] \in Message /\ Good(r, mail[r][i])
      BY DEF OfficeInv, MailInv, Typed, BoxesTyped, MailTypes
    <3>3. PICK y \in Message : y = mail[r][i]
      BY <3>2
    <3>4. Good(r, y)
      BY <3>2, <3>3
    <3>5. Good(r, y)'
      BY <3>4, GoodStays
    <3> QED BY <3>1, <3>3, <3>5
  <2> QED BY <2>1
<1>2. ASSUME NEW r \in Receivers, NEW j \in 1..Len(mail'[r])
      PROVE  Good(r, mail[r][j])'
  <2>1. PICK y \in Message : y = mail'[r][j] /\ Good(r, y)'
    BY <1>1
  <2> QED BY <2>1 DEF Good
<1> QED BY <1>2 DEF MailInv

(* The ways a step changes the mailboxes, each with what it keeps.           *)
LEMMA MailTaken ==
  ASSUME OfficeInv, Next, ~NewDay, NEW p \in Receivers, NEW k \in 1..Len(mail[p]),
         mail' = Taken(mail, p, k)
  PROVE  mail' \in MailTypes /\ MailInv'
<1>0. mail \in MailTypes
  BY DEF OfficeInv, Typed, BoxesTyped
<1> DEFINE n == Taken(mail, p, k)
<1>2. /\ n \in MailTypes
      /\ \A r \in Receivers : \A j \in 1..Len(n[r]) : Old(r, n[r][j])
  BY <1>0, TakenKeeps, Zenon DEF Old
<1> HIDE DEF n
<1>3. mail' = n
  BY DEF n
<1>1. /\ mail' \in MailTypes
      /\ \A r \in Receivers : \A j \in 1..Len(mail'[r]) : Old(r, mail'[r][j])
  BY <1>2, <1>3
<1> QED BY <1>1, MailInvFrom

LEMMA MailPut ==
  ASSUME OfficeInv, Next, ~NewDay, NEW q \in Receivers, NEW x \in Message, Good(q, x)',
         mail' = Put(mail, q, x)
  PROVE  mail' \in MailTypes /\ MailInv'
<1>0. mail \in MailTypes
  BY DEF OfficeInv, Typed, BoxesTyped
<1> DEFINE n == Put(mail, q, x)
<1>2. /\ n \in MailTypes
      /\ \A r \in Receivers : \A j \in 1..Len(n[r]) :
           Old(r, n[r][j]) \/ (r = q /\ n[r][j] = x)
  BY <1>0, PutKeeps, Zenon DEF Old
<1> HIDE DEF n
<1>3. mail' = n
  BY DEF n
<1>1. /\ mail' \in MailTypes
      /\ \A r \in Receivers : \A j \in 1..Len(mail'[r]) :
           Old(r, mail'[r][j]) \/ (r = q /\ mail'[r][j] = x)
  BY <1>2, <1>3
<1> QED BY <1>1, MailInvFrom

LEMMA MailPassed ==
  ASSUME OfficeInv, Next, ~NewDay, NEW p \in Receivers, NEW k \in 1..Len(mail[p]),
         NEW q \in Receivers, NEW x \in Message, Good(q, x)',
         mail' = Put(Taken(mail, p, k), q, x)
  PROVE  mail' \in MailTypes /\ MailInv'
<1>0. mail \in MailTypes
  BY DEF OfficeInv, Typed, BoxesTyped
<1> DEFINE n == Taken(mail, p, k)
<1>1. /\ n \in MailTypes
      /\ \A r \in Receivers : \A j \in 1..Len(n[r]) : Old(r, n[r][j])
  BY <1>0, TakenKeeps, Zenon DEF Old
<1> HIDE DEF n
<1>2. /\ Put(n, q, x) \in MailTypes
      /\ \A r \in Receivers : \A j \in 1..Len(Put(n, q, x)[r]) :
              \/ \E i \in 1..Len(n[r]) : Put(n, q, x)[r][j] = n[r][i]
              \/ r = q /\ Put(n, q, x)[r][j] = x
  BY <1>1, PutKeeps
<1>3. mail' = Put(n, q, x)
  BY DEF n
<1>4. \A r \in Receivers : \A j \in 1..Len(mail'[r]) :
           Old(r, mail'[r][j]) \/ (r = q /\ mail'[r][j] = x)
  BY <1>1, <1>2, <1>3
<1> QED BY <1>2, <1>3, <1>4, MailInvFrom

LEMMA MailSpread ==
  ASSUME OfficeInv, Next, ~NewDay, NEW G, NEW x \in Message,
         \A r \in Receivers : r \in G => Good(r, x)',
         mail' = Spread(mail, G, x)
  PROVE  mail' \in MailTypes /\ MailInv'
<1>0. mail \in MailTypes
  BY DEF OfficeInv, Typed, BoxesTyped
<1>1. /\ mail' \in MailTypes
      /\ \A r \in Receivers : \A j \in 1..Len(mail'[r]) :
           \/ j \in 1..Len(mail[r]) /\ mail'[r][j] = mail[r][j]
           \/ r \in G /\ j = Len(mail[r]) + 1 /\ mail'[r][j] = x
  BY <1>0, SpreadKeeps
<1>2. \A r \in Receivers : \A j \in 1..Len(mail'[r]) :
           Old(r, mail'[r][j]) \/ (r \in G /\ mail'[r][j] = x)
  BY <1>1 DEF Old
<1> QED BY <1>1, <1>2, MailInvFrom

LEMMA MailStep ==
  ASSUME OfficeInv, Next, ~NewDay
  PROVE  mail' \in MailTypes /\ MailInv'
<1> USE ProcessesDiffer
<1> DEFINE Kept == mail' \in MailTypes /\ MailInv'
<1>0. /\ Typed /\ BoxesTyped /\ MailInv /\ DeskInv /\ mail \in MailTypes /\ ClockTyped
      /\ DeskTyped /\ WorkersTyped /\ PlacesTyped
  BY DEF OfficeInv, Typed, BoxesTyped
<1>1. ASSUME UNCHANGED mail PROVE Kept
  <2>1. \A r \in Receivers : \A j \in 1..Len(mail'[r]) : Old(r, mail'[r][j])
    BY <1>1 DEF Old
  <2>2. mail' \in MailTypes
    BY <1>0, <1>1
  <2> QED BY <2>1, <2>2, MailInvFrom
<1>2. ASSUME NEW p \in Receivers, NEW t, Receive(p, t)
      PROVE  Kept
  <2>1. First(p, t) \in 1..Len(mail[p]) /\ mail' = Taken(mail, p, First(p, t))
    BY <1>0, <1>2, Getting DEF Receive, Received
  <2> QED BY <2>1, MailTaken
<1>3. CASE SendUserNotific
  <2>1. PICK e \in agenda : Send(Clock, e.user, [type |-> "CLOCK_NOTIFC", serv |-> e.serv])
    BY <1>3 DEF SendUserNotific, Due
  <2> DEFINE x == [type |-> "CLOCK_NOTIFC", serv |-> e.serv]
  <2>2. e.user \in Users /\ e.serv \in Services
    BY <1>0 DEF ClockTyped
  <2>3. x \in Message /\ mail' = Put(mail, e.user, x)
    BY <2>1, <2>2, Messages DEF Send, Put
  <2>4. Good(e.user, x)'
    BY <2>2 DEF Good
  <2> HIDE DEF x
  <2> QED BY <2>2, <2>3, <2>4, MailPut
<1>4. CASE SendWorkerPause
  <2>1. PICK e \in pauses : Send(Clock, e.worker, [type |-> "PAUSE_NOTIFC"])
    BY <1>4 DEF SendWorkerPause, Due
  <2> DEFINE x == [type |-> "PAUSE_NOTIFC"]
  <2>2. e.worker \in Workers
    BY <1>0 DEF ClockTyped
  <2>3. x \in Message /\ mail' = Put(mail, e.worker, x)
    BY <2>1, <2>2, Messages DEF Send, Put
  <2>4. at[e.worker] \in AtWork => rests[e.worker] > 0
    BY DEF OfficeInv, PauseInv
  <2>5. Good(e.worker, x)'
    BY <1>4, <2>2, <2>4 DEF Good, SendWorkerPause, workerVars
  <2> HIDE DEF x
  <2> QED BY <2>2, <2>3, <2>5, MailPut
<1>5. CASE NextMinute
  BY <1>1, <1>5 DEF NextMinute, mailVars
<1>6. CASE TellDayEnded
  <2> DEFINE x == [type |-> "DAY_ENDED"]
             G == Groups[told + 1]
  <2>1. mail' = Spread(mail, G, x) /\ x \in Message
    BY <1>6, Messages DEF TellDayEnded, Spread
  <2>2. \A r \in Receivers : Good(r, x)'
    BY DEF Good
  <2> HIDE DEF x, G
  <2> QED BY <2>1, <2>2, MailSpread
<1>7. CASE \E p \in Processes : ReleaseUnit(p)
  BY <1>1, <1>7, Frames
<1>8. ASSUME NEW p \in Receivers, NoMes(p) PROVE Kept
  BY <1>1, <1>8, Frames
<1>9. ASSUME NEW p \in Receivers, DayEnded(p) PROVE Kept
  BY <1>2, <1>9 DEF DayEnded
<1>10. ASSUME NEW u \in Users, UserClockNotifc(u)
       PROVE  Kept
  <2> DEFINE k == First(u, "CLOCK_NOTIFC")
             s == Msg(u, "CLOCK_NOTIFC").serv
             x == [type |-> "TICKET_REQ", user |-> u, serv |-> s]
  <2>1. Gets(u, "CLOCK_NOTIFC") /\ Answer(u, "CLOCK_NOTIFC", Dispenser, Dispenser, x)
    BY <1>10 DEF UserClockNotifc
  <2>2. /\ k \in 1..Len(mail[u]) /\ s \in Services
        /\ Without(u, "CLOCK_NOTIFC") = Taken(mail, u, k)
    BY <1>0, <2>1, Getting, MessageKinds
  <2>3. mail' = Put(Taken(mail, u, k), Dispenser, x)
    BY <2>1, <2>2 DEF Answer, Put
  <2>4. PICK d \in Receivers, y \in Message : d = Dispenser /\ y = x
    BY <2>2, Messages
  <2>5. Good(d, y)'
    BY <2>4 DEF Good
  <2>6. mail' = Put(Taken(mail, u, k), d, y)
    BY <2>3, <2>4
  <2> HIDE DEF k, s, x
  <2> QED BY <2>2, <2>5, <2>6, MailPassed
<1>11. ASSUME NEW u \in Users, UserTicketResp(u)
       PROVE  Kept
  <2> DEFINE k == First(u, "TICKET_RESP")
             r == Msg(u, "TICKET_RESP")
             x == [type |-> "SERVICE_REQ", user |-> u, serv |-> r.serv]
  <2>1. /\ k \in 1..Len(mail[u]) /\ r = mail[u][k] /\ r \in Message /\ r.type = "TICKET_RESP"
        /\ Without(u, "TICKET_RESP") = Taken(mail, u, k)
    BY <1>0, <1>11, Getting DEF UserTicketResp
  <2>2. Good(u, r)
    BY <1>0, <2>1 DEF MailInv
  <2>3. CASE r.card = NoCard
    <3>1. mail' = Taken(mail, u, k)
      BY <1>11, <2>1, <2>3 DEF UserTicketResp, Received
    <3> QED BY <2>1, <3>1, MailTaken
  <2>4. CASE r.card # NoCard
    <3>1. Named(r.card, r.serv)
      BY <2>1, <2>2, <2>4 DEF Good
    <3>2. r.card.msg \in Workers /\ ServiceOf[r.card.msg] = r.serv /\ r.serv \in Services
      BY <2>1, <3>1, MessageKinds DEF Named
    <3>3. Answer(u, "TICKET_RESP", r.card.msg, r.card.sem, x)
      BY <1>11, <2>4 DEF UserTicketResp
    <3>4. mail' = Put(Taken(mail, u, k), r.card.msg, x)
      BY <2>1, <3>3 DEF Answer, Put
    <3>5. PICK w \in Workers, y \in Message : w = r.card.msg /\ y = x
      BY <3>2, Messages
    <3>6. y.type = "SERVICE_REQ" /\ y.serv = ServiceOf[w]
      BY <3>2, <3>5
    <3>7. Good(w, y)'
      BY <3>6 DEF Good
    <3>8. mail' = Put(Taken(mail, u, k), w, y)
      BY <3>4, <3>5
    <3> HIDE DEF k, r, x
    <3> QED BY <2>1, <3>7, <3>8, MailPassed
  <2> QED BY <2>3, <2>4
<1>12. ASSUME NEW u \in Users, UserServiceResp(u)
       PROVE  Kept
  <2>1. /\ First(u, "SERVICE_RESP") \in 1..Len(mail[u])
        /\ mail' = Taken(mail, u, First(u, "SERVICE_RESP"))
    BY <1>0, <1>12, Getting DEF UserServiceResp
  <2> QED BY <2>1, MailTaken
<1>13. CASE TicketReq(Dispenser)
  BY <1>2, <1>13 DEF TicketReq
<1>14. CASE FindSeat(Dispenser) \/ CopySeat(Dispenser)
  BY <1>1, <1>14 DEF FindSeat, CopySeat, mailVars
<1>15. CASE SendTicketResp(Dispenser)
  <2> DEFINE x == [type |-> "TICKET_RESP", serv |-> request.serv, card |-> card]
  <2>1. /\ at[Dispenser] = "answer" /\ Send(Dispenser, request.user, x)
        /\ torn' = (torn \/ card.msg # card.sem)
    BY <1>15 DEF SendTicketResp
  <2>2. /\ request # None /\ request \in Requests
        /\ card = NoCard \/ Named(card, request.serv)
    BY <1>0, <2>1 DEF DeskInv, DeskTyped
  <2>3. request.user \in Users /\ request.serv \in Services
    BY <2>2 DEF Requests
  <2>4. x \in Message
    BY <2>2, <2>3, Messages DEF Named
  <2>5. PICK u \in Users, y \in Message : u = request.user /\ y = x
    BY <2>3, <2>4
  <2>6. y.type = "TICKET_RESP" /\ y.card = card /\ y.serv = request.serv
    BY <2>5
  <2>7. Good(u, y)'
    BY <2>1, <2>2, <2>6 DEF Good, Named
  <2>8. mail' = Put(mail, u, y)
    BY <2>1, <2>5 DEF Send, Put
  <2> QED BY <2>7, <2>8, MailPut
<1>16. ASSUME NEW w \in Workers, SendServiceResp(w)
       PROVE  Kept
  <2> DEFINE x == [type |-> "SERVICE_RESP"]
  <2>1. serving[w] # None /\ Send(w, serving[w].user, x)
    BY <1>16 DEF SendServiceResp
  <2>2. PICK u \in Users : u = serving[w].user
    BY <1>0, <2>1 DEF WorkersTyped, Requests
  <2>3. x \in Message /\ mail' = Put(mail, u, x)
    BY <2>1, <2>2, Messages DEF Send, Put
  <2>4. Good(u, x)'
    BY DEF Good
  <2> HIDE DEF x
  <2> QED BY <2>3, <2>4, MailPut
<1>17. ASSUME NEW w \in Workers, CheckDayEnded(w)
       PROVE  Kept
  <2>1. CASE UNCHANGED mail
    BY <1>1, <2>1
  <2>2. CASE Has(w, "DAY_ENDED") /\ mail' = Without(w, "DAY_ENDED")
    BY <1>0, <2>2, Finding, MailTaken
  <2> QED BY <1>17, <2>1, <2>2 DEF CheckDayEnded
<1>18. ASSUME NEW w \in Workers, CollectPaused(w)
       PROVE  Kept
  <2>1. CASE UNCHANGED mail
    BY <1>1, <2>1
  <2>2. CASE Has(source[w], "SERVICE_REQ") /\ mail' = Without(source[w], "SERVICE_REQ")
    <3>1. PICK v \in Receivers : v = source[w]
      BY <1>18, AskedHere
    <3>2. Has(v, "SERVICE_REQ") /\ mail' = Without(v, "SERVICE_REQ")
      BY <2>2, <3>1
    <3> QED BY <1>0, <3>2, Finding, MailTaken
  <2> QED BY <1>18, <2>1, <2>2 DEF CollectPaused
<1>19. ASSUME NEW w \in Workers, ComunicateFreeSeat(w)
       PROVE  Kept
  <2> DEFINE x == [type |-> "SEAT_FREE", worker |-> w]
             G == Colleagues(w) \ {w}
  <2>1. mail' = Spread(mail, G, x) /\ x \in Message
    BY <1>19, Messages DEF ComunicateFreeSeat, Spread
  <2>2. at'[w] = "paused"
    BY <1>0, <1>19 DEF ComunicateFreeSeat, PlacesTyped
  <2>3. ASSUME NEW r \in Receivers, r \in G PROVE Good(r, x)'
    BY <2>2, <2>3 DEF Good, Colleagues
  <2> HIDE DEF x, G
  <2> QED BY <2>1, <2>3, MailSpread
<1>20. ASSUME NEW w \in Workers, WorkerStep(w)
       PROVE  Kept
  <2>1. CASE EnterCore(w)
    BY <1>1, <2>1 DEF EnterCore, mailVars
  <2>2. CASE WorkerServiceReq(w) \/ WorkerSeatFree(w) \/ WorkerDayEnded(w) \/ WorkerPause(w)
    BY <1>2, <2>2 DEF WorkerServiceReq, WorkerSeatFree, WorkerDayEnded, WorkerPause
  <2> QED BY <1>16, <1>17, <1>18, <1>19, <1>20, <2>1, <2>2 DEF WorkerStep
<1> QED BY <1>3, <1>4, <1>5, <1>6, <1>7, <1>8, <1>9, <1>10, <1>11, <1>12, <1>13, <1>14,
           <1>15, <1>20 DEF Next, ClockStep, UserStep, DispenserStep

(* The units owed to a process: a set of the processes that owe them.        *)
LEMMA OwedChanges ==
  ASSUME BoxesTyped, NEW p \in Processes, NEW G \in SUBSET Receivers,
         owes' = [owes EXCEPT ![p] = G], NEW r \in Receivers
  PROVE  /\ Owed(r) \in Nat /\ Owed(r)' \in Nat
         /\ owes[p] = {} => Owed(r)' = Owed(r) + Inside(r, G)
         /\ G = {} => Owed(r)' = Owed(r) - Inside(r, owes[p])
<1> DEFINE A == {q \in Processes : r \in owes[q]}
           B == {q \in Processes : r \in owes'[q]}
<1>1. \A q \in Processes : owes'[q] = IF q = p THEN G ELSE owes[q]
  BY DEF BoxesTyped
<1>2. IsFiniteSet(A) /\ IsFiniteSet(B)
  BY ReceiversFinite, FS_Subset
<1>3. Cardinality(A) \in Nat /\ Cardinality(B) \in Nat
  BY <1>2, FS_CardinalityType
<1>4. Owed(r) = Cardinality(A) /\ Owed(r)' = Cardinality(B)
  BY DEF Owed
<1>5. ASSUME owes[p] = {}
      PROVE  Cardinality(B) = Cardinality(A) + Inside(r, G)
  <2>1. CASE r \in G
    <3>1. p \notin A /\ B = A \cup {p}
      BY <1>1, <1>5, <2>1
    <3> HIDE DEF A, B
    <3> QED BY <1>2, <2>1, <3>1, FS_AddElement DEF Inside
  <2>2. CASE r \notin G
    <3>1. B = A
      BY <1>1, <1>5, <2>2
    <3> HIDE DEF A, B
    <3> QED BY <1>3, <2>2, <3>1 DEF Inside
  <2> QED BY <2>1, <2>2
<1>6. ASSUME G = {}
      PROVE  Cardinality(B) = Cardinality(A) - Inside(r, owes[p])
  <2>1. CASE r \in owes[p]
    <3>1. p \in A /\ B = A \ {p}
      BY <1>1, <1>6, <2>1
    <3> HIDE DEF A, B
    <3> QED BY <1>2, <2>1, <3>1, FS_RemoveElement DEF Inside
  <2>2. CASE r \notin owes[p]
    <3>1. B = A
      BY <1>1, <1>6, <2>2
    <3> HIDE DEF A, B
    <3> QED BY <1>3, <2>2, <3>1 DEF Inside
  <2> QED BY <2>1, <2>2
<1> HIDE DEF A, B
<1> QED BY <1>3, <1>4, <1>5, <1>6

(* What the two ways of sending, and receiving, do to units and messages.    *)
LEMMA Sending ==
  ASSUME Typed, NEW p \in Processes, Free(p), NEW q \in Receivers, NEW x \in Message,
         Send(p, q, x)
  PROVE  /\ owes' \in [Processes -> SUBSET Receivers]
         /\ UNCHANGED units
         /\ \A r \in Receivers : /\ Len(mail'[r]) = Len(mail[r]) + Inside(r, {q})
                                 /\ Owed(r)' = Owed(r) + Inside(r, {q})
<1>0. BoxesTyped /\ mail \in MailTypes
  BY DEF Typed, BoxesTyped
<1>1. mail' = Put(mail, q, x) /\ owes' = [owes EXCEPT ![p] = {q}] /\ UNCHANGED units
  BY DEF Send, Put
<1>2. \A r \in Receivers : Len(mail'[r]) = Len(mail[r]) + Inside(r, {q})
  <2>1. \A r \in Receivers : Len(mail[r]) \in Nat
    BY <1>0 DEF MailTypes
  <2>2. /\ Len(mail'[q]) = Len(mail[q]) + 1
        /\ \A r \in Receivers \ {q} : mail'[r] = mail[r]
    BY <1>0, <1>1, PutKeeps
  <2>3. ASSUME NEW r \in Receivers
        PROVE  Len(mail'[r]) = Len(mail[r]) + Inside(r, {q})
    <3>1. CASE r = q
      BY <2>2, <3>1 DEF Inside
    <3>2. CASE r # q
      <4>1. Inside(r, {q}) = 0 /\ mail'[r] = mail[r]
        BY <2>2, <3>2 DEF Inside
      <4> QED BY <2>1, <4>1
    <3> QED BY <3>1, <3>2
  <2> QED BY <2>3
<1>3. \A r \in Receivers : Owed(r)' = Owed(r) + Inside(r, {q})
  BY <1>0, <1>1, OwedChanges DEF Free
<1> QED BY <1>0, <1>1, <1>2, <1>3 DEF BoxesTyped

LEMMA Receiving ==
  ASSUME Typed, NEW p \in Receivers, NEW t, Gets(p, t), Received(p, t)
  PROVE  /\ units' \in [Receivers -> Nat]
         /\ \A r \in Receivers : /\ Len(mail'[r]) = Len(mail[r]) - Inside(r, {p})
                                 /\ units'[r] = units[r] - Inside(r, {p})
<1> DEFINE k == First(p, t)
<1>0. /\ BoxesTyped /\ mail \in MailTypes /\ k \in 1..Len(mail[p])
      /\ mail' = Taken(mail, p, k) /\ units[p] > 0 /\ units' = [units EXCEPT ![p] = @ - 1]
  BY Getting DEF Typed, BoxesTyped, Received
<1>1. /\ units' \in [Receivers -> Nat]
      /\ \A r \in Receivers : units'[r] = units[r] - Inside(r, {p})
  BY <1>0 DEF BoxesTyped, Inside
<1>2. \A r \in Receivers : Len(mail[r]) \in Nat
  BY <1>0 DEF MailTypes
<1>3. /\ Len(mail'[p]) = Len(mail[p]) - 1
      /\ \A r \in Receivers \ {p} : mail'[r] = mail[r]
  BY <1>0, TakenKeeps
<1>4. ASSUME NEW r \in Receivers
      PROVE  Len(mail'[r]) = Len(mail[r]) - Inside(r, {p})
  <2>1. CASE r = p
    BY <1>3, <2>1 DEF Inside
  <2>2. CASE r # p
    <3>1. Inside(r, {p}) = 0 /\ mail'[r] = mail[r]
      BY <1>3, <2>2 DEF Inside
    <3> QED BY <1>2, <3>1
  <2> QED BY <2>1, <2>2
<1> QED BY <1>1, <1>4

Passed(p, q, s) ==
  \A r \in Receivers : /\ Len(mail'[r]) = Len(mail[r]) - Inside(r, {p}) + Inside(r, {q})
                       /\ units'[r] = units[r] - Inside(r, {p})
                       /\ Owed(r)' = Owed(r) + Inside(r, {s})

LEMMA Answering ==
  ASSUME Typed, NEW p \in Receivers, NEW t, Gets(p, t),
         NEW q \in Receivers, NEW s \in Receivers, NEW x \in Message, Answer(p, t, q, s, x)
  PROVE  /\ units' \in [Receivers -> Nat]
         /\ owes' \in [Processes -> SUBSET Receivers]
         /\ Passed(p, q, s)
<1> DEFINE k == First(p, t)
           n == Taken(mail, p, k)
<1>0. /\ BoxesTyped /\ mail \in MailTypes /\ k \in 1..Len(mail[p])
      /\ mail' = Put(n, q, x) /\ units[p] > 0 /\ units' = [units EXCEPT ![p] = @ - 1]
      /\ owes' = [owes EXCEPT ![p] = {s}] /\ owes[p] = {} /\ p \in Processes
  BY Getting, ProcessesDiffer DEF Typed, BoxesTyped, Answer, Put, Free
<1>1. /\ units' \in [Receivers -> Nat]
      /\ \A r \in Receivers : units'[r] = units[r] - Inside(r, {p})
  BY <1>0 DEF BoxesTyped, Inside
<1>2. /\ n \in MailTypes /\ Len(n[p]) = Len(mail[p]) - 1
      /\ \A r \in Receivers \ {p} : n[r] = mail[r]
  BY <1>0, TakenKeeps
<1> HIDE DEF n, k
<1>3. /\ Len(mail'[q]) = Len(n[q]) + 1
      /\ \A r \in Receivers \ {q} : mail'[r] = n[r]
  BY <1>0, <1>2, PutKeeps
<1>4. ASSUME NEW r \in Receivers
      PROVE  Len(mail'[r]) = Len(mail[r]) - Inside(r, {p}) + Inside(r, {q})
  <2>1. Len(mail[r]) \in Nat /\ Len(n[r]) \in Nat
    BY <1>0, <1>2 DEF MailTypes
  <2>2. Len(n[r]) = Len(mail[r]) - Inside(r, {p})
    <3>1. CASE r = p
      BY <1>2, <3>1 DEF Inside
    <3>2. CASE r # p
      <4>1. Inside(r, {p}) = 0 /\ n[r] = mail[r]
        BY <1>2, <3>2 DEF Inside
      <4> QED BY <2>1, <4>1
    <3> QED BY <3>1, <3>2
  <2>3. Len(mail'[r]) = Len(n[r]) + Inside(r, {q})
    <3>1. CASE r = q
      BY <1>3, <3>1 DEF Inside
    <3>2. CASE r # q
      <4>1. Inside(r, {q}) = 0 /\ mail'[r] = n[r]
        BY <1>3, <3>2 DEF Inside
      <4> QED BY <2>1, <4>1
    <3> QED BY <3>1, <3>2
  <2> QED BY <2>2, <2>3
<1>5. \A r \in Receivers : Owed(r)' = Owed(r) + Inside(r, {s})
  BY <1>0, OwedChanges
<1>6. owes' \in [Processes -> SUBSET Receivers]
  BY <1>0 DEF BoxesTyped
<1> QED BY <1>1, <1>4, <1>5, <1>6 DEF Passed

LEMMA Spreading ==
  ASSUME Typed, NEW p \in Processes, Free(p), NEW G \in SUBSET Receivers,
         NEW H \in SUBSET Receivers, NEW x \in Message,
         mail' = Spread(mail, G, x), owes' = [owes EXCEPT ![p] = H]
  PROVE  /\ owes' \in [Processes -> SUBSET Receivers]
         /\ \A r \in Receivers : /\ Len(mail'[r]) = Len(mail[r]) + Inside(r, G)
                                 /\ Owed(r)' = Owed(r) + Inside(r, H)
<1>0. BoxesTyped /\ mail \in MailTypes
  BY DEF Typed, BoxesTyped
<1>1. \A r \in Receivers : Len(mail'[r]) = Len(mail[r]) + Inside(r, G)
  <2>1. \A r \in Receivers : Len(mail[r]) \in Nat
    BY <1>0 DEF MailTypes
  <2>2. \A r \in Receivers :
          Len(mail'[r]) = IF r \in G THEN Len(mail[r]) + 1 ELSE Len(mail[r])
    BY <1>0, SpreadKeeps
  <2>3. ASSUME NEW r \in Receivers
        PROVE  Len(mail'[r]) = Len(mail[r]) + Inside(r, G)
    <3>1. CASE r \in G
      BY <2>2, <3>1 DEF Inside
    <3>2. CASE r \notin G
      <4>1. Inside(r, G) = 0 /\ Len(mail'[r]) = Len(mail[r])
        BY <2>2, <3>2 DEF Inside
      <4> QED BY <2>1, <4>1
    <3> QED BY <3>1, <3>2
  <2> QED BY <2>3
<1>2. \A r \in Receivers : Owed(r)' = Owed(r) + Inside(r, H)
  BY <1>0, OwedChanges DEF Free
<1> QED BY <1>0, <1>1, <1>2 DEF BoxesTyped

LEMMA Releasing ==
  ASSUME Typed, NEW p \in Processes, ReleaseUnit(p)
  PROVE  /\ units' \in [Receivers -> Nat]
         /\ owes' \in [Processes -> SUBSET Receivers]
         /\ \A r \in Receivers : /\ units'[r] = units[r] + Inside(r, owes[p])
                                 /\ Owed(r)' = Owed(r) - Inside(r, owes[p])
<1>0. BoxesTyped
  BY DEF Typed
<1>1. /\ units' = [q \in Receivers |-> IF q \in owes[p] THEN units[q] + 1 ELSE units[q]]
      /\ owes' = [owes EXCEPT ![p] = {}]
  BY DEF ReleaseUnit
<1>2. /\ units' \in [Receivers -> Nat]
      /\ \A r \in Receivers : units'[r] = units[r] + Inside(r, owes[p])
  BY <1>0, <1>1 DEF BoxesTyped, Inside
<1>3. \A r \in Receivers : Owed(r)' = Owed(r) - Inside(r, owes[p])
  BY <1>0, <1>1, OwedChanges
<1> QED BY <1>0, <1>1, <1>2, <1>3 DEF BoxesTyped

Claims(r) == /\ at[r] \notin {"home", "paused", "stopped"}
             /\ r \in Workers => ~torn
Off(r) == units[r] + Aside(r) + Owed(r) - Len(mail[r])

LEMMA Counts ==
  ASSUME Typed, NEW r \in Receivers
  PROVE  units[r] \in Nat /\ Aside(r) \in Nat /\ Owed(r) \in Nat /\ Len(mail[r]) \in Nat
<1>1. IsFiniteSet({q \in Processes : r \in owes[q]})
  BY ReceiversFinite, FS_Subset
<1>2. Owed(r) \in Nat
  BY <1>1, FS_CardinalityType DEF Owed
<1>3. Aside(r) \in Nat
  BY DEF Aside, Typed, UsersTyped
<1>4. units[r] \in Nat /\ mail[r] \in Seq(Message)
  BY DEF Typed, BoxesTyped, MailTypes
<1> QED BY <1>2, <1>3, <1>4

LEMMA ClaimsBefore ==
  ASSUME OfficeInv, Next, ~NewDay, NEW r \in Receivers, Claims(r)'
  PROVE  Claims(r)
BY Moves DEF Claims

(* The units of a process that counts on them stay in step with its mail.    *)
LEMMA UnitsStep ==
  ASSUME OfficeInv, Next, ~NewDay
  PROVE  /\ units' \in [Receivers -> Nat] /\ owes' \in [Processes -> SUBSET Receivers]
         /\ \A r \in Receivers : Claims(r)' => Off(r)' = Off(r)
<1> USE ProcessesDiffer
<1> DEFINE Boxes == units' \in [Receivers -> Nat] /\ owes' \in [Processes -> SUBSET Receivers]
           Even(r) == Claims(r)' => Off(r)' = Off(r)
           Kept == Boxes /\ \A r \in Receivers : Even(r)
<1> SUFFICES Kept
  OBVIOUS
<1>0. /\ Typed /\ BoxesTyped /\ MailInv /\ DeskInv /\ mail \in MailTypes /\ ClockTyped
      /\ DeskTyped /\ WorkersTyped /\ PlacesTyped /\ UsersTyped /\ WorkerInv
      /\ units \in [Receivers -> Nat] /\ owes \in [Processes -> SUBSET Receivers]
  BY DEF OfficeInv, Typed, BoxesTyped
<1>1. ASSUME UNCHANGED mailVars, UNCHANGED pending PROVE Kept
  <2>1. Boxes
    BY <1>0, <1>1 DEF mailVars
  <2>2. ASSUME NEW r \in Receivers PROVE Off(r)' = Off(r)
    BY <1>1 DEF Off, Aside, Owed, mailVars
  <2> QED BY <2>1, <2>2
<1>2. UNCHANGED pending => \A r : Aside(r)' = Aside(r)
  BY DEF Aside
<1>3. UNCHANGED owes => \A r : Owed(r)' = Owed(r)
  BY DEF Owed
<1>4. ASSUME NEW p \in Receivers, NEW t, Receive(p, t), UNCHANGED pending
      PROVE  Kept
  <2>1. Gets(p, t) /\ Received(p, t) /\ UNCHANGED owes
    BY <1>4 DEF Receive
  <2>2. /\ units' \in [Receivers -> Nat]
        /\ \A r \in Receivers : /\ Len(mail'[r]) = Len(mail[r]) - Inside(r, {p})
                                /\ units'[r] = units[r] - Inside(r, {p})
    BY <1>0, <2>1, Receiving
  <2>3. ASSUME NEW r \in Receivers PROVE Off(r)' = Off(r)
    <3>1. Aside(r)' = Aside(r) /\ Owed(r)' = Owed(r)
      BY <1>2, <1>3, <1>4, <2>1
    <3>2. Inside(r, {p}) \in Int
      BY DEF Inside
    <3>3. /\ Len(mail'[r]) = Len(mail[r]) - Inside(r, {p})
          /\ units'[r] = units[r] - Inside(r, {p})
      BY <2>2
    <3>4. units[r] \in Nat /\ Aside(r) \in Nat /\ Owed(r) \in Nat /\ Len(mail[r]) \in Nat
      BY <1>0, Counts
    <3> HIDE ProcessesDiffer
    <3> QED BY <3>1, <3>2, <3>3, <3>4 DEF Off
  <2> QED BY <1>0, <2>1, <2>2, <2>3
<1>5. ASSUME NEW p \in Processes, Free(p), NEW q \in Receivers, NEW x \in Message,
             Send(p, q, x), UNCHANGED pending
      PROVE  Kept
  <2>1. /\ owes' \in [Processes -> SUBSET Receivers]
        /\ UNCHANGED units
        /\ \A r \in Receivers : /\ Len(mail'[r]) = Len(mail[r]) + Inside(r, {q})
                                /\ Owed(r)' = Owed(r) + Inside(r, {q})
    BY <1>0, <1>5, Sending
  <2>2. ASSUME NEW r \in Receivers PROVE Off(r)' = Off(r)
    <3>1. Aside(r)' = Aside(r)
      BY <1>2, <1>5
    <3>2. Inside(r, {q}) \in Int
      BY DEF Inside
    <3>3. /\ Len(mail'[r]) = Len(mail[r]) + Inside(r, {q})
          /\ Owed(r)' = Owed(r) + Inside(r, {q}) /\ units'[r] = units[r]
      BY <2>1
    <3>4. units[r] \in Nat /\ Aside(r) \in Nat /\ Owed(r) \in Nat /\ Len(mail[r]) \in Nat
      BY <1>0, Counts
    <3> HIDE ProcessesDiffer
    <3> QED BY <3>1, <3>2, <3>3, <3>4 DEF Off
  <2> QED BY <1>0, <2>1, <2>2
<1>6. ASSUME NEW p \in Receivers, NEW t, Gets(p, t), NEW q \in Receivers, NEW s \in Receivers,
             NEW x \in Message, Answer(p, t, q, s, x), UNCHANGED pending,
             \A r \in Receivers : Claims(r)' => Inside(r, {q}) = Inside(r, {s})
      PROVE  Kept
  <2>1. /\ units' \in [Receivers -> Nat]
        /\ owes' \in [Processes -> SUBSET Receivers]
        /\ Passed(p, q, s)
    BY <1>0, <1>6, Answering
  <2>2. ASSUME NEW r \in Receivers, Claims(r)' PROVE Off(r)' = Off(r)
    <3>1. Aside(r)' = Aside(r) /\ Inside(r, {q}) = Inside(r, {s})
      BY <1>2, <1>6, <2>2
    <3>2. Inside(r, {q}) \in Int /\ Inside(r, {p}) \in Int
      BY DEF Inside
    <3>3. /\ Len(mail'[r]) = Len(mail[r]) - Inside(r, {p}) + Inside(r, {q})
          /\ units'[r] = units[r] - Inside(r, {p})
          /\ Owed(r)' = Owed(r) + Inside(r, {s})
      BY <2>1 DEF Passed
    <3>4. units[r] \in Nat /\ Aside(r) \in Nat /\ Owed(r) \in Nat /\ Len(mail[r]) \in Nat
      BY <1>0, Counts
    <3> HIDE ProcessesDiffer
    <3> QED BY <3>1, <3>2, <3>3, <3>4 DEF Off
  <2> QED BY <2>1, <2>2
<1>7. ASSUME NEW p \in Processes, Free(p), NEW G \in SUBSET Receivers,
             NEW H \in SUBSET Receivers, NEW x \in Message,
             mail' = Spread(mail, G, x), owes' = [owes EXCEPT ![p] = H], UNCHANGED units,
             UNCHANGED pending,
             \A r \in Receivers : Claims(r)' => Inside(r, G) = Inside(r, H)
      PROVE  Kept
  <2>1. /\ owes' \in [Processes -> SUBSET Receivers]
        /\ \A r \in Receivers : /\ Len(mail'[r]) = Len(mail[r]) + Inside(r, G)
                                /\ Owed(r)' = Owed(r) + Inside(r, H)
    BY <1>0, <1>7, Spreading
  <2>2. ASSUME NEW r \in Receivers, Claims(r)' PROVE Off(r)' = Off(r)
    <3>1. Aside(r)' = Aside(r) /\ Inside(r, G) = Inside(r, H) /\ units'[r] = units[r]
      BY <1>2, <1>7, <2>2
    <3>2. Inside(r, G) \in Int
      BY DEF Inside
    <3> QED BY <1>0, <2>1, <3>1, <3>2, Counts DEF Off
  <2> QED BY <1>0, <1>7, <2>1, <2>2
<1>8. ASSUME NEW v \in Receivers, NEW k \in 1..Len(mail[v]), mail' = Taken(mail, v, k),
             at'[v] \in {"home", "paused"}, UNCHANGED <<units, owes, pending>>
      PROVE  Kept
  <2>1. \A r \in Receivers \ {v} : mail'[r] = mail[r]
    BY <1>0, <1>8, TakenKeeps
  <2>2. ~Claims(v)'
    BY <1>8 DEF Claims
  <2>3. ASSUME NEW r \in Receivers, Claims(r)' PROVE Off(r)' = Off(r)
    <3>1. mail'[r] = mail[r] /\ units'[r] = units[r] /\ Aside(r)' = Aside(r)
          /\ Owed(r)' = Owed(r)
      BY <1>2, <1>3, <1>8, <2>1, <2>2, <2>3
    <3> QED BY <3>1 DEF Off
  <2> QED BY <1>0, <1>8, <2>3
<1>9. UNCHANGED userVars => UNCHANGED pending
  BY DEF userVars
<1>10. CASE SendUserNotific
  <2>1. PICK e \in agenda : Send(Clock, e.user, [type |-> "CLOCK_NOTIFC", serv |-> e.serv])
    BY <1>10 DEF SendUserNotific, Due
  <2>2. PICK u \in Users, x \in Message :
          u = e.user /\ x = [type |-> "CLOCK_NOTIFC", serv |-> e.serv]
    BY <1>0, Messages DEF ClockTyped
  <2>3. Free(Clock) /\ UNCHANGED pending
    BY <1>10 DEF SendUserNotific, Ticking, userVars
  <2> QED BY <1>5, <2>1, <2>2, <2>3
<1>11. CASE SendWorkerPause
  <2>1. PICK e \in pauses : Send(Clock, e.worker, [type |-> "PAUSE_NOTIFC"])
    BY <1>11 DEF SendWorkerPause, Due
  <2>2. PICK w \in Workers, x \in Message : w = e.worker /\ x = [type |-> "PAUSE_NOTIFC"]
    BY <1>0, Messages DEF ClockTyped
  <2>3. Free(Clock) /\ UNCHANGED pending
    BY <1>11 DEF SendWorkerPause, Ticking, userVars
  <2> QED BY <1>5, <2>1, <2>2, <2>3
<1>12. CASE NextMinute
  BY <1>1, <1>9, <1>12 DEF NextMinute
<1>13. CASE TellDayEnded
  <2> DEFINE G == Groups[told + 1]
  <2>1. PICK x \in Message : x = [type |-> "DAY_ENDED"]
    BY Messages
  <2>2. /\ mail' = Spread(mail, G, x) /\ owes' = [owes EXCEPT ![Clock] = G]
        /\ UNCHANGED units /\ UNCHANGED pending /\ Free(Clock)
    BY <1>13, <2>1 DEF TellDayEnded, Spread, userVars
  <2>3. G \in SUBSET Receivers
    <3>1. told + 1 \in 1..3
      BY <1>0, <1>13 DEF TellDayEnded, ClockTyped
    <3> QED BY <3>1 DEF Groups, Receivers
  <2> HIDE DEF G
  <2> QED BY <1>7, <2>2, <2>3
<1>14. ASSUME NEW p \in Processes, ReleaseUnit(p) PROVE Kept
  <2>1. /\ units' \in [Receivers -> Nat]
        /\ owes' \in [Processes -> SUBSET Receivers]
        /\ \A r \in Receivers : /\ units'[r] = units[r] + Inside(r, owes[p])
                                /\ Owed(r)' = Owed(r) - Inside(r, owes[p])
    BY <1>0, <1>14, Releasing
  <2>2. UNCHANGED <<mail, pending>>
    BY <1>14, Frames, <1>9
  <2>3. ASSUME NEW r \in Receivers PROVE Off(r)' = Off(r)
    <3>1. Aside(r)' = Aside(r) /\ mail'[r] = mail[r]
      BY <1>2, <2>2
    <3>2. Inside(r, owes[p]) \in Int
      BY DEF Inside
    <3> QED BY <1>0, <2>1, <3>1, <3>2, Counts DEF Off
  <2> QED BY <2>1, <2>3
<1>15. ASSUME NEW p \in Receivers, NoMes(p) PROVE Kept
  <2>1. /\ units[p] > 0 /\ units' = [units EXCEPT ![p] = @ - 1]
        /\ UNCHANGED <<mail, owes>>
    BY <1>15 DEF NoMes, Wakes
  <2>2. /\ units'[p] = units[p] - 1 /\ units' \in [Receivers -> Nat]
        /\ \A r \in Receivers \ {p} : units'[r] = units[r]
    BY <1>0, <2>1
  <2>3. \/ ~Claims(p)' /\ UNCHANGED pending
        \/ p \in Users /\ pending' = [pending EXCEPT ![p] = @ + 1]
    <3>1. CASE CanSkip(p)
      BY <1>15, <3>1 DEF NoMes, CanSkip
    <3>2. CASE ~CanSkip(p)
      BY <1>0, <1>15, <3>2 DEF NoMes, Claims, PlacesTyped
    <3> QED BY <3>1, <3>2
  <2>4. ASSUME NEW r \in Receivers, Claims(r)' PROVE Off(r)' = Off(r)
    <3>1. CASE r = p
      <4>1. p \in Users /\ pending' = [pending EXCEPT ![p] = @ + 1]
        BY <2>3, <2>4, <3>1
      <4>2. Aside(p)' = Aside(p) + 1
        BY <1>0, <4>1 DEF Aside, UsersTyped
      <4> QED BY <1>0, <1>3, <2>1, <2>2, <3>1, <4>2, Counts DEF Off
    <3>2. CASE r # p
      <4>1. Aside(r)' = Aside(r)
        BY <1>0, <2>3, <3>2 DEF Aside, UsersTyped
      <4> QED BY <1>0, <1>3, <2>1, <2>2, <3>2, <4>1, Counts DEF Off
    <3> QED BY <3>1, <3>2
  <2> QED BY <1>0, <2>1, <2>2, <2>4
<1>16. ASSUME NEW p \in Receivers, DayEnded(p) PROVE Kept
  BY <1>4, <1>9, <1>16 DEF DayEnded
<1>17. ASSUME NEW u \in Users, UserClockNotifc(u) PROVE Kept
  <2> DEFINE s == Msg(u, "CLOCK_NOTIFC").serv
             y == [type |-> "TICKET_REQ", user |-> u, serv |-> s]
  <2>1. /\ Gets(u, "CLOCK_NOTIFC") /\ Answer(u, "CLOCK_NOTIFC", Dispenser, Dispenser, y)
        /\ UNCHANGED pending
    BY <1>17 DEF UserClockNotifc
  <2>2. PICK d \in Receivers, x \in Message : d = Dispenser /\ x = y
    BY <1>0, <2>1, Getting, MessageKinds, Messages
  <2>3. Answer(u, "CLOCK_NOTIFC", d, d, x)
    BY <2>1, <2>2
  <2> HIDE DEF s, y
  <2> QED BY <1>6, <2>1, <2>3
<1>18. ASSUME NEW u \in Users, UserTicketResp(u) PROVE Kept
  <2> DEFINE k == First(u, "TICKET_RESP")
             c == Msg(u, "TICKET_RESP")
             y == [type |-> "SERVICE_REQ", user |-> u, serv |-> c.serv]
  <2>1. /\ k \in 1..Len(mail[u]) /\ c = mail[u][k] /\ c \in Message /\ c.type = "TICKET_RESP"
        /\ Gets(u, "TICKET_RESP") /\ UNCHANGED pending
    BY <1>0, <1>18, Getting DEF UserTicketResp
  <2>2. Good(u, c)
    BY <1>0, <2>1 DEF MailInv
  <2>3. CASE c.card = NoCard
    <3>1. Receive(u, "TICKET_RESP")
      BY <1>18, <2>1, <2>3 DEF UserTicketResp, Receive
    <3> QED BY <1>4, <2>1, <3>1
  <2>4. CASE c.card # NoCard
    <3>1. Named(c.card, c.serv) /\ (c.card.msg = c.card.sem \/ torn)
      BY <2>1, <2>2, <2>4 DEF Good
    <3>2. Answer(u, "TICKET_RESP", c.card.msg, c.card.sem, y)
      BY <1>18, <2>4 DEF UserTicketResp
    <3>3. c.serv \in Services
      BY <2>1, MessageKinds
    <3>4. PICK q \in Workers, s \in Workers, x \in Message :
            q = c.card.msg /\ s = c.card.sem /\ x = y
      BY <3>1, <3>3, Messages DEF Named
    <3>5. Answer(u, "TICKET_RESP", q, s, x)
      BY <3>2, <3>4
    <3>6. torn' = torn
      BY <1>18 DEF UserTicketResp, deskVars
    <3>7. ASSUME NEW r \in Receivers, Claims(r)' PROVE Inside(r, {q}) = Inside(r, {s})
      <4>1. q = s \/ (torn' /\ r \notin Workers)
        BY <3>1, <3>4, <3>6, <3>7 DEF Claims
      <4> QED BY <4>1 DEF Inside
    <3> HIDE DEF k, c, y
    <3> QED BY <1>6, <2>1, <3>5, <3>7
  <2> QED BY <2>3, <2>4
<1>19. ASSUME NEW u \in Users, UserServiceResp(u) PROVE Kept
  <2>1. /\ First(u, "SERVICE_RESP") \in 1..Len(mail[u])
        /\ mail' = Taken(mail, u, First(u, "SERVICE_RESP")) /\ units[u] > 0
        /\ units' = [units EXCEPT ![u] = @ - 1 + pending[u]]
        /\ pending' = [pending EXCEPT ![u] = 0] /\ UNCHANGED owes
    BY <1>0, <1>19, Getting DEF UserServiceResp
  <2>2. /\ Len(mail'[u]) = Len(mail[u]) - 1 /\ \A r \in Receivers \ {u} : mail'[r] = mail[r]
    BY <1>0, <2>1, TakenKeeps
  <2>3. /\ units'[u] = units[u] - 1 + pending[u] /\ units' \in [Receivers -> Nat]
        /\ \A r \in Receivers \ {u} : units'[r] = units[r]
    <3>1. pending[u] \in Nat /\ units[u] \in Nat
      BY <1>0 DEF UsersTyped
    <3> QED BY <1>0, <2>1, <3>1
  <2>4. /\ Aside(u) = pending[u] /\ Aside(u)' = 0
        /\ \A r \in Receivers \ {u} : Aside(r)' = Aside(r)
    BY <1>0, <2>1 DEF Aside, UsersTyped
  <2>5. ASSUME NEW r \in Receivers PROVE Off(r)' = Off(r)
    <3>1. Owed(r)' = Owed(r)
      BY <1>3, <2>1
    <3>2. units[r] \in Nat /\ Aside(r) \in Nat /\ Owed(r) \in Nat /\ Len(mail[r]) \in Nat
      BY <1>0, Counts
    <3>3. CASE r = u
      <4>1. /\ units'[r] = units[r] - 1 + pending[u] /\ Aside(r) = pending[u] /\ Aside(r)' = 0
            /\ Len(mail'[r]) = Len(mail[r]) - 1
        BY <2>2, <2>3, <2>4, <3>3
      <4> HIDE ProcessesDiffer
      <4> QED BY <3>1, <3>2, <4>1 DEF Off
    <3>4. CASE r # u
      <4>1. units'[r] = units[r] /\ Aside(r)' = Aside(r) /\ mail'[r] = mail[r]
        BY <2>2, <2>3, <2>4, <3>4
      <4> QED BY <3>1, <4>1 DEF Off
    <3> QED BY <3>3, <3>4
  <2> QED BY <1>0, <2>1, <2>3, <2>5
<1>20. CASE TicketReq(Dispenser)
  BY <1>4, <1>9, <1>20 DEF TicketReq
<1>21. CASE FindSeat(Dispenser) \/ CopySeat(Dispenser)
  BY <1>1, <1>9, <1>21 DEF FindSeat, CopySeat
<1>22. CASE SendTicketResp(Dispenser)
  <2> DEFINE y == [type |-> "TICKET_RESP", serv |-> request.serv, card |-> card]
  <2>1. /\ at[Dispenser] = "answer" /\ Send(Dispenser, request.user, y) /\ UNCHANGED pending
    BY <1>9, <1>22 DEF SendTicketResp
  <2>2. /\ request \in Requests /\ Free(Dispenser)
        /\ card = NoCard \/ Named(card, request.serv)
    BY <1>0, <2>1 DEF DeskInv, DeskTyped
  <2>3. request.user \in Users /\ request.serv \in Services
    BY <2>2 DEF Requests
  <2>4. PICK u \in Users, x \in Message, d \in Processes : u = request.user /\ x = y /\ d = Dispenser
    BY <2>2, <2>3, Messages DEF Named
  <2>5. Send(d, u, x) /\ Free(d)
    BY <2>1, <2>2, <2>4
  <2> HIDE DEF y
  <2> QED BY <1>5, <2>1, <2>5
<1>23. ASSUME NEW w \in Workers, SendServiceResp(w) PROVE Kept
  <2>1. PICK u \in Users, x \in Message : u = serving[w].user /\ x = [type |-> "SERVICE_RESP"]
    BY <1>0, <1>23, Messages DEF SendServiceResp, WorkersTyped, Requests
  <2>2. Send(w, u, x) /\ Free(w) /\ UNCHANGED pending
    BY <1>9, <1>23, <2>1 DEF SendServiceResp
  <2> QED BY <1>5, <2>2
<1>24. ASSUME NEW w \in Workers, CheckDayEnded(w) PROVE Kept
  <2>1. UNCHANGED <<units, owes, pending>>
    BY <1>9, <1>24 DEF CheckDayEnded
  <2>2. CASE UNCHANGED mail
    BY <1>1, <2>1, <2>2 DEF mailVars
  <2>3. CASE /\ Has(w, "DAY_ENDED") /\ mail' = Without(w, "DAY_ENDED")
             /\ at' = [at EXCEPT ![w] = "home"]
    <3>1. at'[w] \in {"home", "paused"}
      BY <1>0, <2>3 DEF PlacesTyped
    <3> QED BY <1>0, <1>8, <2>1, <2>3, <3>1, Finding
  <2> QED BY <1>24, <2>2, <2>3 DEF CheckDayEnded
<1>25. ASSUME NEW w \in Workers, CollectPaused(w) PROVE Kept
  <2>1. UNCHANGED <<units, owes, pending>>
    BY <1>9, <1>25 DEF CollectPaused
  <2>2. CASE UNCHANGED mail
    BY <1>1, <2>1, <2>2 DEF mailVars
  <2>3. CASE Has(source[w], "SERVICE_REQ") /\ mail' = Without(source[w], "SERVICE_REQ")
    <3>1. PICK v \in Receivers : v = source[w] /\ at[v] = "paused"
      BY <1>25, AskedHere
    <3>2. Has(v, "SERVICE_REQ") /\ mail' = Without(v, "SERVICE_REQ") /\ at'[v] \in {"home", "paused"}
      BY <2>3, <3>1, Moves
    <3> QED BY <1>0, <1>8, <2>1, <3>2, Finding
  <2> QED BY <1>25, <2>2, <2>3 DEF CollectPaused
<1>26. ASSUME NEW w \in Workers, ComunicateFreeSeat(w) PROVE Kept
  <2> DEFINE G == Colleagues(w) \ {w}
             H == Colleagues(w)
  <2>1. PICK x \in Message : x = [type |-> "SEAT_FREE", worker |-> w]
    BY Messages
  <2>2. /\ mail' = Spread(mail, G, x) /\ owes' = [owes EXCEPT ![w] = H]
        /\ UNCHANGED units /\ UNCHANGED pending
    BY <1>26, <2>1 DEF ComunicateFreeSeat, Spread, userVars
  <2>3. G \in SUBSET Receivers /\ H \in SUBSET Receivers
    BY DEF Colleagues
  <2>4. Free(w)
    BY <1>0, <1>26 DEF ComunicateFreeSeat, WorkerInv
  <2>5. ASSUME NEW r \in Receivers, Claims(r)' PROVE Inside(r, G) = Inside(r, H)
    <3>1. at'[w] = "paused"
      BY <1>0, <1>26 DEF ComunicateFreeSeat, PlacesTyped
    <3>2. r # w
      BY <2>5, <3>1 DEF Claims
    <3> QED BY <3>2 DEF Inside
  <2> HIDE DEF G, H
  <2> QED BY <1>7, <2>2, <2>3, <2>4, <2>5
<1>27. ASSUME NEW w \in Workers, WorkerStep(w) PROVE Kept
  <2>0. UNCHANGED pending
    BY <1>9, <1>27, Frames
  <2>1. CASE EnterCore(w)
    BY <1>1, <2>0, <2>1 DEF EnterCore
  <2>2. CASE WorkerServiceReq(w) \/ WorkerSeatFree(w) \/ WorkerDayEnded(w) \/ WorkerPause(w)
    BY <1>4, <2>0, <2>2 DEF WorkerServiceReq, WorkerSeatFree, WorkerDayEnded, WorkerPause
  <2> QED BY <1>23, <1>24, <1>25, <1>26, <1>27, <2>1, <2>2 DEF WorkerStep
<1> HIDE DEF Kept
<1>28. CASE ClockStep
  BY <1>10, <1>11, <1>12, <1>13, <1>28 DEF ClockStep
<1>29. ASSUME NEW u \in Users, UserStep(u) PROVE Kept
  BY <1>17, <1>18, <1>19, <1>29 DEF UserStep
<1>30. CASE DispenserStep(Dispenser)
  BY <1>20, <1>21, <1>22, <1>30 DEF DispenserStep
<1> QED BY <1>14, <1>15, <1>16, <1>27, <1>28, <1>29, <1>30 DEF Next

LEMMA MatchIs ==
  Typed => (UnitsMatchMessages <=> \A r \in Receivers : Claims(r) => Off(r) = 0)
<1> SUFFICES ASSUME Typed
             PROVE  UnitsMatchMessages <=> \A r \in Receivers : Claims(r) => Off(r) = 0
  OBVIOUS
<1>1. ASSUME NEW r \in Receivers
      PROVE  Off(r) = 0 <=> units[r] + Aside(r) + Owed(r) = Len(mail[r])
  <2>1. units[r] \in Nat /\ Aside(r) \in Nat /\ Owed(r) \in Nat /\ Len(mail[r]) \in Nat
    BY Counts
  <2> DEFINE a == units[r]
             b == Aside(r)
             c == Owed(r)
             l == Len(mail[r])
  <2>2. a \in Nat /\ b \in Nat /\ c \in Nat /\ l \in Nat
    BY <2>1
  <2>3. Off(r) = a + b + c - l
    BY DEF Off
  <2> HIDE DEF a, b, c, l
  <2>4. a + b + c - l = 0 <=> a + b + c = l
    BY <2>2
  <2> QED BY <2>3, <2>4 DEF a, b, c, l
<1> QED BY <1>1 DEF UnitsMatchMessages, Claims

(* A process that has got a unit finds a message of its filter.              *)
LEMMA SomethingToRead ==
  ASSUME OfficeInv, NEW p \in Receivers, NoMes(p), ~CanSkip(p)
  PROVE  torn /\ p \in Workers
<1> USE ProcessesDiffer
<1>0. /\ Typed /\ mail[p] \in Seq(Message) /\ units[p] > 0 /\ at[p] = "core"
      /\ \A i \in DOMAIN FilterOf(p) : ~Has(p, FilterOf(p)[i])
  BY DEF OfficeInv, Typed, BoxesTyped, MailTypes, NoMes, Wakes, Idle
<1> SUFFICES ASSUME ~(torn /\ p \in Workers) PROVE FALSE
  OBVIOUS
<1>1. units[p] + Aside(p) + Owed(p) = Len(mail[p])
  BY <1>0 DEF OfficeInv, UnitsMatchMessages
<1>2. Len(mail[p]) > 0
  BY <1>0, <1>1, Counts
<1>3. 1 \in 1..Len(mail[p])
  BY <1>0, <1>2
<1> DEFINE t == mail[p][1].type
<1>4. Good(p, mail[p][1])
  BY <1>3 DEF OfficeInv, MailInv
<1>5. \E i \in DOMAIN FilterOf(p) : FilterOf(p)[i] = t
  <2>1. CASE p \in Users
    <3>1. FilterOf(p) = USER_FILTER
      BY <2>1 DEF FilterOf, CanSkip
    <3>2. t \in {"DAY_ENDED", "CLOCK_NOTIFC", "TICKET_RESP", "SERVICE_RESP"}
      BY <1>4, <2>1 DEF Good
    <3> HIDE DEF t
    <3> QED BY <3>1, <3>2 DEF USER_FILTER
  <2>2. CASE p \in Workers
    <3>1. FilterOf(p) = WORKER_FILTER
      BY <2>2 DEF FilterOf
    <3>2. t \in {"DAY_ENDED", "PAUSE_NOTIFC", "SEAT_FREE", "SERVICE_REQ"}
      BY <1>4, <2>2 DEF Good
    <3> HIDE DEF t
    <3> QED BY <3>1, <3>2 DEF WORKER_FILTER
  <2>3. CASE p = Dispenser
    <3>1. FilterOf(p) = DISPENSER_FILTER
      BY <2>3 DEF FilterOf
    <3>2. t \in {"DAY_ENDED", "TICKET_REQ"}
      BY <1>4, <2>3 DEF Good
    <3> HIDE DEF t
    <3> QED BY <3>1, <3>2 DEF DISPENSER_FILTER
  <2> QED BY <2>1, <2>2, <2>3
<1>6. ~Has(p, t)
  <2> HIDE DEF t
  <2> QED BY <1>0, <1>5
<1>7. mail[p][1].type # t
  <2>1. \A i \in 1..Len(mail[p]) : mail[p][i].type # t
    <3> HIDE DEF t
    <3> QED BY <1>0, <1>6, FirstIs
  <2> HIDE DEF t
  <2> QED BY <1>3, <2>1
<1> QED BY <1>7

LEMMA StopsStep ==
  ASSUME OfficeInv, Next, ~NewDay
  PROVE  NobodyStops'
<1> USE ProcessesDiffer
<1> SUFFICES ASSUME NEW p \in Receivers, at'[p] = "stopped", at[p] # "stopped"
             PROVE  torn' /\ p \in Workers
  BY Moves DEF NobodyStops, OfficeInv
<1>0. Typed /\ PlacesTyped /\ at[p] # at'[p]
  BY DEF OfficeInv, Typed
<1>1. CASE NoMes(p)
  <2>1. ~CanSkip(p) /\ torn' = torn
    BY <1>0, <1>1 DEF NoMes, deskVars
  <2> QED BY <1>1, <2>1, SomethingToRead
<1>2. CASE DayEnded(p)
  BY <1>0, <1>2 DEF DayEnded, PlacesTyped
<1>3. CASE p \in Users /\ UserStep(p)
  BY <1>0, <1>3, Frames
<1>4. CASE p = Dispenser /\ DispenserStep(Dispenser)
  BY <1>0, <1>4 DEF DispenserStep, TicketReq, FindSeat, CopySeat, SendTicketResp, PlacesTyped
<1>5. CASE p \in Workers /\ WorkerStep(p)
  <2>1. CASE WorkerServiceReq(p)
    <3>1. at' = [at EXCEPT ![p] = "core"]
      BY <2>1, <1>5, AskedHere DEF WorkerServiceReq, Provide
    <3> QED BY <1>0, <3>1 DEF PlacesTyped
  <2>2. CASE CollectPaused(p)
    <3>1. \/ at' = [at EXCEPT ![p] = "check"]
          \/ at' = [at EXCEPT ![p] = "core"]
      BY <2>2, <1>5, AskedHere DEF CollectPaused, Provide
    <3> QED BY <1>0, <3>1 DEF PlacesTyped
  <2>3. CASE ~WorkerServiceReq(p) /\ ~CollectPaused(p)
    <3>1. UNCHANGED at \/ \E to \in {"core", "check", "home", "collect", "tell", "paused"} :
             at' = [at EXCEPT ![p] = to]
      BY <1>5, <2>3 DEF WorkerStep, EnterCore, SendServiceResp, WorkerSeatFree,
         CheckDayEnded, WorkerDayEnded, WorkerPause, ComunicateFreeSeat
    <3> QED BY <1>0, <3>1 DEF PlacesTyped
  <2> QED BY <2>1, <2>2, <2>3
<1>6. CASE /\ ~NoMes(p) /\ ~DayEnded(p) /\ ~(p \in Users /\ UserStep(p))
           /\ ~(p = Dispenser /\ DispenserStep(Dispenser)) /\ ~(p \in Workers /\ WorkerStep(p))
  BY <1>0, <1>6, OthersSteps
<1> QED BY <1>1, <1>2, <1>3, <1>4, <1>5, <1>6

(* A step of the day keeps everything.                                       *)
LEMMA DayStep ==
  ASSUME OfficeInv, Next, ~NewDay
  PROVE  OfficeInv'
<1>1. BoxesTyped'
  BY MailStep, UnitsStep DEF BoxesTyped
<1>2. Typed'
  BY <1>1, Moves, UsersTypedStep, WorkersTypedStep, DeskStep, ClockTypedStep DEF Typed
<1>3. UnitsMatchMessages'
  <2>1. Typed /\ UnitsMatchMessages
    BY DEF OfficeInv
  <2>2. \A r \in Receivers : Claims(r) => Off(r) = 0
    BY <2>1, MatchIs
  <2>3. ASSUME NEW r \in Receivers, Claims(r)'
        PROVE  Off(r)' = 0
    <3>1. Claims(r)
      BY <2>3, ClaimsBefore
    <3>2. Off(r)' = Off(r)
      BY <2>3, UnitsStep
    <3> QED BY <2>2, <3>1, <3>2
  <2>4. \A r \in Receivers : Claims(r)' => Off(r)' = 0
    BY <2>3
  <2>5. (Typed => (UnitsMatchMessages <=> \A r \in Receivers : Claims(r) => Off(r) = 0))'
    BY MatchIs, PTL
  <2> QED BY <1>2, <2>4, <2>5
<1> QED BY <1>2, <1>3, TableKept, DeskStep, WorkerInvStep, UserInvStep, MailStep, ClockTypedStep,
           StopsStep DEF OfficeInv

(* The times of a plan: the recursion has a solution, and it stays within    *)
(* the day.                                                                  *)
NextTime(list, time, t, i) ==
  Least(IF i = 1 THEN time ELSE t[i - 1] + Duration[list[i - 1]], MINUTES_IN_DAY - 1)
TimesTo(list, time, n, t) == t = [i \in 1..n |-> NextTime(list, time, t, i)]

LEMMA TimesWithin ==
  ASSUME NEW list \in Seq(Services), NEW time \in Times, NEW n \in 0..Len(list), NEW t,
         TimesTo(list, time, n, t)
  PROVE  t \in [1..n -> Times]
<1>0. MINUTES_IN_DAY \in Nat \ {0} /\ Duration \in [Services -> Nat \ {0}] /\ Len(list) \in Nat
  BY OfficeAssumption
<1>1. t = [i \in 1..n |-> t[i]] /\ \A i \in 1..n : t[i] = NextTime(list, time, t, i)
  BY DEF TimesTo
<1> DEFINE Bad == {i \in 1..n : t[i] \notin Times}
<1>2. ASSUME Bad # {} PROVE FALSE
  <2>1. Bad \in SUBSET Nat
    BY <1>0
  <2>2. \E i \in Bad : \A j \in Bad : i <= j
    <3> HIDE DEF Bad
    <3> QED BY <1>2, <2>1, LeastOf
  <2>3. PICK i \in Bad : \A j \in Bad : i <= j
    BY <2>2
  <2>4. i \in 1..n /\ t[i] \notin Times /\ t[i] = NextTime(list, time, t, i)
    BY <1>1
  <2>5. CASE i = 1
    BY <1>0, <2>4, <2>5 DEF NextTime, Least, Times
  <2>6. CASE i # 1
    <3>1. i - 1 \in 1..n /\ ~(i <= i - 1)
      BY <1>0, <2>4, <2>6
    <3>2. t[i - 1] \in Times
      BY <2>3, <3>1
    <3>3. i - 1 \in 1..Len(list)
      BY <1>0, <3>1
    <3>4. list[i - 1] \in Services
      BY <3>3
    <3>5. Duration[list[i - 1]] \in Nat
      BY <1>0, <3>4
    <3> QED BY <1>0, <2>4, <2>6, <3>2, <3>5 DEF NextTime, Least, Times
  <2> QED BY <2>5, <2>6
<1> QED BY <1>1, <1>2

LEMMA TimesExist ==
  ASSUME NEW list \in Seq(Services), NEW time \in Times, NEW n \in 0..Len(list)
  PROVE  \E t : TimesTo(list, time, n, t)
<1>0. Len(list) \in Nat
  OBVIOUS
<1> DEFINE Bad == {k \in 0..Len(list) : ~ \E t : TimesTo(list, time, k, t)}
<1>1. ASSUME Bad # {} PROVE FALSE
  <2>1. Bad \in SUBSET Nat
    BY <1>0
  <2>2. \E k \in Bad : \A j \in Bad : k <= j
    <3> HIDE DEF Bad
    <3> QED BY <1>1, <2>1, LeastOf
  <2>3. PICK k \in Bad : \A j \in Bad : k <= j
    BY <2>2
  <2>4. k \in 0..Len(list) /\ ~ \E t : TimesTo(list, time, k, t)
    OBVIOUS
  <2>5. CASE k = 0
    <3> DEFINE t == [i \in 1..0 |-> 0]
    <3>1. TimesTo(list, time, 0, t)
      BY DEF TimesTo
    <3> HIDE DEF t
    <3> QED BY <2>4, <2>5, <3>1
  <2>6. CASE k # 0
    <3>1. k - 1 \in 0..Len(list) /\ ~(k <= k - 1)
      BY <1>0, <2>4, <2>6
    <3>2. \E t : TimesTo(list, time, k - 1, t)
      BY <2>3, <3>1
    <3>3. PICK s : TimesTo(list, time, k - 1, s)
      BY <3>2
    <3> DEFINE t == [i \in 1..k |-> IF i < k THEN s[i] ELSE NextTime(list, time, s, k)]
    <3>4. ASSUME NEW i \in 1..k
          PROVE  t[i] = NextTime(list, time, t, i)
      <4>1. i \in Nat /\ i >= 1 /\ (i # 1 => i - 1 \in 1..k /\ i - 1 < k)
        BY <1>0, <2>4
      <4>2. i # 1 => t[i - 1] = s[i - 1]
        BY <4>1
      <4>3. NextTime(list, time, t, i) = NextTime(list, time, s, i)
        <5> HIDE DEF t
        <5> QED BY <4>2 DEF NextTime
      <4>4. CASE i < k
        <5>1. i \in 1..(k - 1)
          BY <1>0, <2>4, <4>1, <4>4
        <5>2. s[i] = NextTime(list, time, s, i)
          BY <3>3, <5>1 DEF TimesTo
        <5>3. t[i] = s[i]
          BY <4>4
        <5> QED BY <4>3, <5>2, <5>3
      <4>5. CASE ~(i < k)
        <5>1. i = k
          BY <1>0, <2>4, <4>5
        <5>2. t[i] = NextTime(list, time, s, k)
          BY <4>5
        <5> QED BY <4>3, <5>1, <5>2
      <4> QED BY <4>4, <4>5
    <3>5. t = [i \in 1..k |-> t[i]]
      OBVIOUS
    <3> HIDE DEF t
    <3>6. t = [i \in 1..k |-> NextTime(list, time, t, i)]
      BY <3>4, <3>5
    <3> QED BY <2>4, <3>6 DEF TimesTo
  <2> QED BY <2>5, <2>6
<1> QED BY <1>1

LEMMA TimesTyped ==
  ASSUME NEW list \in Seq(Services), NEW time \in Times
  PROVE  CalcTimes(list, time) \in [1..Len(list) -> Times]
<1>0. Len(list) \in 0..Len(list)
  OBVIOUS
<1>1. CalcTimes(list, time) = CHOOSE t : TimesTo(list, time, Len(list), t)
  BY DEF CalcTimes, TimesTo, NextTime
<1>2. TimesTo(list, time, Len(list), CalcTimes(list, time))
  BY <1>0, <1>1, TimesExist
<1> QED BY <1>0, <1>2, TimesWithin

LEMMA AppointmentsTyped ==
  ASSUME NEW u \in Users, NEW list \in Requested, NEW time \in Times
  PROVE  Appointments(u, list, time) \subseteq
           [user : Users, nr : 1..N_REQUESTS, serv : Services, time : 0..MINUTES_IN_DAY - 1]
<1>1. list \in Seq(Services) /\ Len(list) \in 1..N_REQUESTS /\ N_REQUESTS \in Nat
  BY OfficeAssumption
<1> DEFINE t == CalcTimes(list, time)
<1>2. t \in [1..Len(list) -> Times]
  BY <1>1, TimesTyped
<1> HIDE DEF t
<1>3. ASSUME NEW i \in 1..Len(list)
      PROVE  [user |-> u, nr |-> i, serv |-> list[i], time |-> t[i]] \in
               [user : Users, nr : 1..N_REQUESTS, serv : Services, time : 0..MINUTES_IN_DAY - 1]
  <2>1. i \in 1..N_REQUESTS /\ list[i] \in Services
    BY <1>1
  <2>2. t[i] \in 0..MINUTES_IN_DAY - 1
    BY <1>2 DEF Times
  <2> QED BY <2>1, <2>2
<1> QED BY <1>3 DEF Appointments, t

LEMMA WishesTyped ==
  ASSUME NEW list \in Requested, NEW s
  PROVE  Wishes(list, s) \in Nat
<1>1. list \in Seq(Services)
  BY OfficeAssumption
<1>2. DOMAIN list = 1..Len(list) /\ Len(list) \in Nat
  BY <1>1
<1>3. IsFiniteSet({i \in DOMAIN list : list[i] = s})
  <2>1. IsFiniteSet(1..Len(list))
    BY <1>2, FS_Interval
  <2>2. {i \in DOMAIN list : list[i] = s} \subseteq 1..Len(list)
    BY <1>2
  <2> QED BY <2>1, <2>2, FS_Subset
<1> QED BY <1>3, FS_CardinalityType DEF Wishes

(* What the users draw for a day.                                            *)
LEMMA DrawsTyped ==
  ASSUME Typed, NEW plan \in [Users -> Plans], SetupClockNotifc(plan)
  PROVE  /\ visitors' \subseteq Users
         /\ agenda' \subseteq [user : Users, nr : 1..N_REQUESTS, serv : Services,
                               time : 0..MINUTES_IN_DAY - 1]
         /\ rem' \in [Users -> [Services -> Int]]
<1>0. /\ visitors' = {u \in Users : plan[u] # StayHome}
      /\ agenda' = UNION {Appointments(u, plan[u].list, plan[u].time) : u \in visitors'}
      /\ rem' = [u \in Users |-> IF u \in visitors'
                   THEN [s \in Services |-> Wishes(plan[u].list, s)] ELSE rem[u]]
  BY DEF SetupClockNotifc
<1>1. visitors' \subseteq Users
  BY <1>0
<1>2. ASSUME NEW u \in visitors'
      PROVE  plan[u].list \in Requested /\ plan[u].time \in Times /\ u \in Users
  BY <1>0 DEF Plans
<1>3. \A u \in visitors' : Appointments(u, plan[u].list, plan[u].time) \subseteq
        [user : Users, nr : 1..N_REQUESTS, serv : Services, time : 0..MINUTES_IN_DAY - 1]
  BY <1>2, AppointmentsTyped
<1>4. agenda' \subseteq [user : Users, nr : 1..N_REQUESTS, serv : Services,
                         time : 0..MINUTES_IN_DAY - 1]
  BY <1>0, <1>3
<1>5. ASSUME NEW u \in Users PROVE rem'[u] \in [Services -> Int]
  <2>1. CASE u \in visitors'
    <3>1. \A s \in Services : Wishes(plan[u].list, s) \in Int
      BY <1>2, <2>1, WishesTyped
    <3> QED BY <1>0, <2>1, <3>1
  <2>2. CASE u \notin visitors'
    <3>1. rem[u] \in [Services -> Int]
      BY DEF Typed, UsersTyped
    <3> QED BY <1>0, <2>2, <3>1
  <2> QED BY <2>1, <2>2
<1>6. rem' = [u \in Users |-> rem'[u]]
  BY <1>0
<1> QED BY <1>1, <1>4, <1>5, <1>6

LEMMA PausesTyped ==
  ASSUME SetPauseTime
  PROVE  /\ pauses' \subseteq [worker : Workers, time : 0..MINUTES_IN_DAY - 1]
         /\ \A e \in pauses' : rests[e.worker] > 0
<1>1. PICK who \in SUBSET {w \in Workers : rests[w] > 0} :
        \E time \in [who -> Times] : pauses' = {[worker |-> w, time |-> time[w]] : w \in who}
  BY DEF SetPauseTime
<1>3. PICK time \in [who -> Times] : pauses' = {[worker |-> w, time |-> time[w]] : w \in who}
  BY <1>1
<1>2. \A w \in who : time[w] \in 0..MINUTES_IN_DAY - 1 /\ w \in Workers /\ rests[w] > 0
  BY <1>3 DEF Times
<1> QED BY <1>2, <1>3

LEMMA NobodyOwed ==
  ASSUME NEW r, \A q \in Processes : owes[q] = {}
  PROVE  Owed(r) = 0
<1>1. {q \in Processes : r \in owes[q]} = {}
  OBVIOUS
<1> QED BY <1>1, FS_EmptySet DEF Owed

LEMMA NewDayStep ==
  ASSUME OfficeInv, NewDay
  PROVE  OfficeInv'
<1> USE ProcessesDiffer
<1>0. /\ Typed /\ BoxesTyped /\ UsersTyped /\ WorkersTyped /\ DeskTyped /\ ClockTyped
      /\ TableInv /\ DeskInv /\ WorkerInv
      /\ MINUTES_IN_DAY \in Nat \ {0} /\ SIM_DURATION \in Nat
  BY OfficeAssumption DEF OfficeInv, Typed
<1>1. /\ mail' = [p \in Receivers |-> <<>>] /\ units' = [p \in Receivers |-> 0]
      /\ owes' = owes /\ \A q \in Processes : owes[q] = {}
  BY DEF NewDay, ClearMsgQueues, AtHome, Free, Processes
<1>2. /\ at' = [p \in Receivers |-> IF p \in Workers THEN "enter" ELSE "core"]
      /\ \A p \in Receivers : at[p] \in {"home", "paused"}
      /\ UNCHANGED <<table, seat, rests, serving, deskVars>>
  BY DEF NewDay, AtHome
<1>3. BoxesTyped'
  <2>1. <<>> \in Seq(Message)
    OBVIOUS
  <2> QED BY <1>0, <1>1, <2>1 DEF BoxesTyped, MailTypes
<1>4. PlacesTyped'
  BY <1>2 DEF PlacesTyped
<1>5. UsersTyped'
  <2>1. /\ visitors' \subseteq Users
        /\ rem' \in [Users -> [Services -> Int]]
    BY <1>0, DrawsTyped DEF NewDay
  <2>2. /\ filter' = [u \in Users |-> USER_FILTER] /\ pending' = [u \in Users |-> 0]
        /\ wanted' = [u \in Users |-> None] /\ refused' = {}
        /\ completed' = [u \in Users |-> [s \in Services |-> 0]]
    BY DEF NewDay
  <2> QED BY <2>1, <2>2 DEF UsersTyped
<1>6. WorkersTyped'
  <2>1. /\ late' = {} /\ source' = [w \in Workers |-> None]
        /\ delivered' = [w \in Workers |-> 0]
    BY DEF NewDay
  <2> QED BY <1>0, <1>2, <2>1 DEF WorkersTyped
<1>7. DeskTyped'
  BY <1>0, <1>2 DEF DeskTyped, deskVars
<1>8. ClockTyped' /\ \A e \in pauses' : rests[e.worker] > 0
  <2>1. agenda' \subseteq [user : Users, nr : 1..N_REQUESTS, serv : Services,
                           time : 0..MINUTES_IN_DAY - 1]
    BY <1>0, DrawsTyped DEF NewDay
  <2>2. /\ pauses' \subseteq [worker : Workers, time : 0..MINUTES_IN_DAY - 1]
        /\ \A e \in pauses' : rests[e.worker] > 0
    BY PausesTyped DEF NewDay
  <2>3. day' \in 0..SIM_DURATION /\ minute' \in 0..MINUTES_IN_DAY /\ told' \in 0..3
    BY <1>0 DEF NewDay, ClockTyped
  <2> QED BY <2>1, <2>2, <2>3 DEF ClockTyped
<1>9. Typed'
  BY <1>3, <1>4, <1>5, <1>6, <1>7, <1>8 DEF Typed
<1>10. TableInv'
  BY <1>0, <1>2 DEF TableInv
<1>11. DeskInv'
  <2>1. at[Dispenser] = "home"
    BY <1>0, <1>2 DEF DeskInv
  <2>2. request = None /\ card = NoCard /\ at'[Dispenser] = "core" /\ request' = request
        /\ card' = card
    BY <1>0, <1>2, <2>1 DEF DeskInv, deskVars
  <2> QED BY <2>2 DEF DeskInv
<1>12. WorkerInv'
  <2>1. ASSUME NEW w \in Workers
        PROVE  at'[w] = "enter" /\ serving'[w] = None /\ owes'[w] = {}
    BY <1>0, <1>1, <1>2 DEF WorkerInv
  <2> QED BY <2>1 DEF WorkerInv, Free
<1>13. UserInv'
  BY <1>2 DEF UserInv
<1>14. MailInv'
  BY <1>1 DEF MailInv
<1>15. PauseInv'
  BY <1>2, <1>8 DEF PauseInv
<1>16. NobodyStops'
  BY <1>2 DEF NobodyStops
<1>17. UnitsMatchMessages'
  <2>1. ASSUME NEW r \in Receivers
        PROVE  units'[r] = 0 /\ Aside(r)' = 0 /\ Owed(r)' = 0 /\ Len(mail'[r]) = 0
    <3>1. pending' = [u \in Users |-> 0]
      BY DEF NewDay
    <3>2. Owed(r)' = Owed(r) /\ Owed(r) = 0
      BY <1>1, NobodyOwed DEF Owed
    <3> QED BY <1>1, <3>1, <3>2 DEF Aside
  <2> QED BY <2>1 DEF UnitsMatchMessages
<1> QED BY <1>9, <1>10, <1>11, <1>12, <1>13, <1>14, <1>15, <1>16, <1>17 DEF OfficeInv

LEMMA OfficeInvInit == Init => OfficeInv
<1> SUFFICES ASSUME Init PROVE OfficeInv
  OBVIOUS
<1> USE ProcessesDiffer
<1>1. ASSUME NEW p \in Receivers
      PROVE  /\ mail[p] \in Seq(Message)
             /\ \A i \in 1..Len(mail[p]) : Good(p, mail[p][i])
  <2>1. mail[p] = <<>> \/ \E l : mail[p] = <<l>> /\ l \in Left(p)
    <3>1. PICK l : mail[p] = <<>> \/ mail[p] = <<l>>
      BY DEF Init
    <3>2. mail[p] # <<>> => mail[p][1] \in Left(p)
      BY DEF Init
    <3> QED BY <3>1, <3>2
  <2>2. CASE mail[p] = <<>>
    BY <2>2
  <2>3. ASSUME NEW l \in Left(p), mail[p] = <<l>>
        PROVE  /\ mail[p] \in Seq(Message)
               /\ \A i \in 1..Len(mail[p]) : Good(p, mail[p][i])
    <3>1. at[p] = "home"
      BY DEF Init
    <3>2. CASE p \in Users
      <4>1. PICK s \in Services : l = [type |-> "CLOCK_NOTIFC", serv |-> s]
        BY <3>2 DEF Left
      <4>2. l \in Message /\ Good(p, l)
        BY <3>2, <4>1, Messages DEF Good
      <4> QED BY <2>3, <4>2
    <3>3. CASE p \in Workers
      <4>1. PICK w \in Workers : l = [type |-> "SEAT_FREE", worker |-> w]
        BY <3>3 DEF Left
      <4>2. l \in Message /\ Good(p, l)
        BY <3>1, <3>3, <4>1, Messages DEF Good
      <4> QED BY <2>3, <4>2
    <3>4. CASE p = Dispenser
      <4>1. PICK u \in Users, s \in Services : l = [type |-> "TICKET_REQ", user |-> u, serv |-> s]
        BY <3>4 DEF Left
      <4>2. l \in Message /\ Good(p, l)
        BY <3>4, <4>1, Messages DEF Good
      <4> QED BY <2>3, <4>2
    <3> QED BY <3>2, <3>3, <3>4
  <2> QED BY <2>1, <2>2, <2>3
<1>2. mail = [p \in Receivers |-> mail[p]]
  BY DEF Init
<1>3. BoxesTyped
  <2>1. units \in [Receivers -> Nat] /\ owes \in [Processes -> SUBSET Receivers]
    BY DEF Init
  <2> QED BY <1>1, <1>2, <2>1 DEF BoxesTyped, MailTypes
<1>4. PlacesTyped /\ UserInv /\ NobodyStops /\ UnitsMatchMessages
  BY DEF Init, PlacesTyped, UserInv, NobodyStops, UnitsMatchMessages
<1>5. UsersTyped
  BY DEF Init, UsersTyped
<1>6. WorkersTyped
  BY DEF Init, WorkersTyped
<1>7. DeskTyped /\ DeskInv
  <2>1. /\ request = None /\ card = NoCard /\ torn = FALSE /\ at[Dispenser] = "home"
    BY DEF Init
  <2> QED BY <2>1, NoCardIs DEF DeskTyped, DeskInv
<1>8. ClockTyped /\ PauseInv
  BY OfficeAssumption DEF Init, ClockTyped, PauseInv
<1>9. TableInv
  BY TableIsOf DEF Init, TableInv
<1>10. WorkerInv
  BY DEF Init, WorkerInv
<1>11. MailInv
  BY <1>1 DEF MailInv
<1> QED BY <1>3, <1>4, <1>5, <1>6, <1>7, <1>8, <1>9, <1>10, <1>11 DEF OfficeInv, Typed


LEMMA OfficeInvHolds == Spec => []OfficeInv
<1>1. OfficeInv /\ [Next]_vars => OfficeInv'
  <2> SUFFICES ASSUME OfficeInv, [Next]_vars PROVE OfficeInv'
    OBVIOUS
  <2>1. CASE NewDay
    BY <2>1, NewDayStep
  <2>2. CASE Next /\ ~NewDay
    BY <2>2, DayStep
  <2>3. CASE UNCHANGED vars
    <3> USE <2>3 DEF vars, mailVars, userVars, workerVars, deskVars, clockVars
    <3>1. Typed'
      BY DEF OfficeInv, Typed, BoxesTyped, PlacesTyped, UsersTyped, WorkersTyped, DeskTyped,
             ClockTyped
    <3>2. TableInv' /\ WorkerInv' /\ UserInv' /\ PauseInv' /\ NobodyStops'
      BY DEF OfficeInv, TableInv, WorkerInv, UserInv, PauseInv, NobodyStops, Free
    <3>3. DeskInv'
      BY DEF OfficeInv, DeskInv, Named, Free
    <3>4. MailInv'
      BY DEF OfficeInv, MailInv, Good, Named
    <3>5. UnitsMatchMessages'
      BY DEF OfficeInv, UnitsMatchMessages, Owed, Aside
    <3> QED BY <3>1, <3>2, <3>3, <3>4, <3>5 DEF OfficeInv
  <2> QED BY <2>1, <2>2, <2>3
<1> QED BY <1>1, OfficeInvInit, PTL DEF Spec

(* Every variable keeps its type: in particular the units of a semaphore and  *)
(* the set aside of a user are never negative, and nof_pause_rem neither     *)
(* (worker.c:232), since a pause is drawn only for who has one left.         *)
THEOREM OfficeTyped == Spec => []TypeOK
<1>1. OfficeInv => TypeOK
  BY TypedIsType DEF OfficeInv
<1> QED BY <1>1, OfficeInvHolds, PTL

(* The units of a semaphore, those its process has put aside and those still  *)
(* to be released are as many as the messages of its queue, for every        *)
(* process that still reads it (notification.c): UnitsMatchMessages.         *)
THEOREM EveryUnitIsAMessage == Spec => []UnitsMatchMessages
<1>1. OfficeInv => UnitsMatchMessages
  BY DEF OfficeInv
<1> QED BY <1>1, OfficeInvHolds, PTL

(* Nobody stops for want of a message (notification.c:68) or for a request of *)
(* another service (worker.c:148) unless a ticket was torn: NobodyStops.     *)
THEOREM OnlyATornTicketStops == Spec => []NobodyStops
<1>1. OfficeInv => NobodyStops
  BY DEF OfficeInv
<1> QED BY <1>1, OfficeInvHolds, PTL

----------------------------------------------------------------------------
(* THE ERRANDS: messages and hands counted by what they carry.             *)

N(M) == Cardinality(Spots(mail, M))

(* The messages of the queues that carry the request of a user, the answers  *)
(* to the users, and the appointments a user has not heard.                  *)
About(u) == {x \in Receivers \X Message :
               \/ x[2].type \in {"TICKET_REQ", "SERVICE_REQ"} /\ x[2].user = u
               \/ x[2].type \in {"TICKET_RESP", "SERVICE_RESP"} /\ x[1] = u}
Answers == {x \in Receivers \X Message : x[2].type = "SERVICE_RESP"}
Calls(u, s) == {x \in Receivers \X Message :
                  x[1] = u /\ x[2].type = "CLOCK_NOTIFC" /\ x[2].serv = s}

(* The processes that have the request of a user in hand.                    *)
Of(u)    == {r \in Requests : r.user = u}
Hands(u) == {p \in Receivers : InHand(p) # None /\ InHand(p).user = u}
W(u)     == N(About(u)) + Cardinality(Hands(u))

LEMMA NIs ==
  ASSUME Typed, NEW M
  PROVE  N(M) \in Nat /\ IsFiniteSet(Spots(mail, M))
BY SpotsFinite DEF N, Typed, BoxesTyped

LEMMA HandsFinite ==
  ASSUME NEW u
  PROVE  IsFiniteSet(Hands(u)) /\ Cardinality(Hands(u)) \in Nat
<1>1. IsFiniteSet(Hands(u))
  BY ReceiversFinite, FS_Subset DEF Hands
<1> QED BY <1>1, FS_CardinalityType

LEMMA InHandIs ==
  ASSUME Typed, NEW p \in Receivers
  PROVE  InHand(p) \in Requests \cup {None}
BY DEF Typed, WorkersTyped, DeskTyped, InHand

LEMMA HandsIs ==
  ASSUME Typed, NEW u \in Users
  PROVE  Hands(u) = {p \in Receivers : InHand(p) \in Of(u)}
BY InHandIs, ProcessesDiffer DEF Hands, Of

(* One hand takes or gives away a request.                                   *)
LEMMA HandsChange ==
  ASSUME Typed, Typed', NEW u \in Users, NEW p \in Receivers,
         \A q \in Receivers \ {p} : InHand(q)' = InHand(q)
  PROVE  Cardinality(Hands(u))' =
           Cardinality(Hands(u)) - Inside(InHand(p), Of(u)) + Inside(InHand(p)', Of(u))
<1> DEFINE A == {q \in Receivers : InHand(q) \in Of(u)}
           B == {q \in Receivers : InHand(q)' \in Of(u)}
           C == A \ {p}
<1>1. Hands(u) = A
  BY HandsIs
<1>2. Hands(u)' = B
  BY ProcessesDiffer DEF Hands, Of, InHand, Typed, WorkersTyped, DeskTyped
<1>3. IsFiniteSet(A) /\ IsFiniteSet(C) /\ Cardinality(C) \in Nat
  <2>1. IsFiniteSet(A) /\ IsFiniteSet(C)
    BY ReceiversFinite, FS_Subset
  <2> QED BY <2>1, FS_CardinalityType
<1>4. A = IF InHand(p) \in Of(u) THEN C \cup {p} ELSE C
  OBVIOUS
<1>5. B = IF InHand(p)' \in Of(u) THEN C \cup {p} ELSE C
  OBVIOUS
<1>6. p \notin C
  OBVIOUS
<1> HIDE DEF A, B, C
<1>7. Cardinality(A) = Cardinality(C) + Inside(InHand(p), Of(u))
  <2>1. Cardinality(C \cup {p}) = Cardinality(C) + 1
    BY <1>3, <1>6, FS_AddElement
  <2> QED BY <1>3, <1>4, <2>1 DEF Inside
<1>8. Cardinality(B) = Cardinality(C) + Inside(InHand(p)', Of(u))
  <2>1. Cardinality(C \cup {p}) = Cardinality(C) + 1
    BY <1>3, <1>6, FS_AddElement
  <2> QED BY <1>3, <1>5, <2>1 DEF Inside
<1>9. Inside(InHand(p), Of(u)) \in Int /\ Inside(InHand(p)', Of(u)) \in Int
  BY DEF Inside
<1> QED BY <1>1, <1>2, <1>3, <1>7, <1>8, <1>9

(* The places of the messages about a user are those Carriers counts.        *)
LEMMA CarriersCount ==
  ASSUME Typed, NEW u \in Users
  PROVE  Cardinality(Carriers(u)) = W(u)
<1> DEFINE S == Spots(mail, About(u))
           H == Hands(u) \X {0}
<1>0. mail \in MailTypes
  BY DEF Typed, BoxesTyped
<1>1. Carriers(u) = S \cup H
  <2>1. \A c : c \in Mails <=> c \in Receivers \X Nat /\ c[2] \in 1..Len(mail[c[1]])
    BY <1>0 DEF Mails, MailTypes
  <2>2. \A c \in Mails : c[1] \in Receivers /\ At(c) = mail[c[1]][c[2]] /\ At(c) \in Message
    BY <1>0, <2>1 DEF At, MailTypes
  <2>3. ASSUME NEW c \in Mails
        PROVE  c \in S <=> (\/ At(c).type \in {"TICKET_REQ", "SERVICE_REQ"} /\ At(c).user = u
                            \/ At(c).type \in {"TICKET_RESP", "SERVICE_RESP"} /\ c[1] = u)
    <3>1. <<c[1], At(c)>> \in Receivers \X Message
      BY <2>2
    <3>2. c \in S <=> <<c[1], At(c)>> \in About(u)
      BY <2>1, <2>2 DEF Spots
    <3> QED BY <3>1, <3>2 DEF About
  <2>4. S \subseteq Mails
    BY <2>1 DEF Spots
  <2>5. {p \in Receivers : InHand(p) # None /\ InHand(p).user = u} = Hands(u)
    BY DEF Hands
  <2> QED BY <2>3, <2>4, <2>5 DEF Carriers
<1>2. S \cap H = {}
  BY DEF Spots
<1>3. IsFiniteSet(S)
  BY NIs
<1>4. IsFiniteSet(H) /\ Cardinality(H) = Cardinality(Hands(u))
  <2>1. IsFiniteSet({0}) /\ Cardinality({0}) = 1
    BY FS_Singleton
  <2>2. IsFiniteSet(H) /\ Cardinality(H) = Cardinality(Hands(u)) * Cardinality({0})
    BY <2>1, HandsFinite, FS_Product
  <2> QED BY <2>1, <2>2, HandsFinite
<1>5. Cardinality(S) \in Nat /\ Cardinality(H) \in Nat
  BY <1>3, <1>4, FS_CardinalityType
<1> HIDE DEF S, H
<1>6. Cardinality(S \cup H) = Cardinality(S) + Cardinality(H) - Cardinality(S \cap H)
  BY <1>3, <1>4, FS_Union
<1>7. Cardinality(S \cap H) = 0
  BY <1>2, FS_EmptySet
<1>8. Cardinality(S \cup H) = Cardinality(S) + Cardinality(H)
  BY <1>5, <1>6, <1>7
<1> QED BY <1>1, <1>4, <1>8 DEF W, N, S

(* A set of counters: one more unit of one of them is one more in the sum.   *)
Tally(I, f) == UNION {{i} \X (1..f[i]) : i \in I}

LEMMA TallyGrows ==
  ASSUME NEW I, IsFiniteSet(I), NEW f \in [I -> Nat], NEW k \in I,
         NEW g \in [I -> Nat], g = [f EXCEPT ![k] = f[k] + 1]
  PROVE  /\ IsFiniteSet(Tally(I, f)) /\ Cardinality(Tally(I, f)) \in Nat
         /\ Cardinality(Tally(I, g)) = Cardinality(Tally(I, f)) + 1
<1> DEFINE Row(i) == {i} \X (1..f[i])
           Rows == {Row(i) : i \in I}
<1>1. ASSUME NEW i \in I
      PROVE  IsFiniteSet(Row(i))
  <2>1. IsFiniteSet({i})
    BY FS_Singleton
  <2>2. IsFiniteSet(1..f[i])
    BY FS_Interval
  <2> QED BY <2>1, <2>2, FS_Product
<1>2. IsFiniteSet(Rows)
  <2> DEFINE h == [i \in I |-> Row(i)]
  <2>1. h \in [I -> Rows] /\ \A r \in Rows : \E i \in I : h[i] = r
    OBVIOUS
  <2> HIDE DEF h, Rows
  <2>2. h \in Surjection(I, Rows)
    BY <2>1, Fun_IsSurj
  <2> QED BY <2>2, FS_Surjection
<1>3. IsFiniteSet(UNION Rows)
  BY <1>1, <1>2, FS_UNION
<1>4. IsFiniteSet(Tally(I, f))
  BY <1>3 DEF Tally
<1>5. Cardinality(Tally(I, f)) \in Nat
  BY <1>4, FS_CardinalityType
<1>6. \A c : c \in Tally(I, f) <=> c \in I \X Nat /\ c[2] \in 1..f[c[1]]
  BY DEF Tally
<1>7. \A c : c \in Tally(I, g) <=> c \in I \X Nat /\ c[2] \in 1..g[c[1]]
  BY DEF Tally
<1> DEFINE new == <<k, f[k] + 1>>
<1>8. Tally(I, g) = Tally(I, f) \cup {new}
  <2>1. ASSUME NEW c PROVE c \in Tally(I, g) <=> c \in Tally(I, f) \cup {new}
    <3>1. CASE c \notin I \X Nat
      <4>1. new \in I \X Nat
        OBVIOUS
      <4>2. c # new
        BY <3>1, <4>1
      <4> HIDE DEF new
      <4> QED BY <1>6, <1>7, <3>1, <4>2
    <3>2. CASE c \in I \X Nat /\ c[1] # k
      <4>1. g[c[1]] = f[c[1]] /\ c # new
        BY <3>2
      <4> QED BY <1>6, <1>7, <3>2, <4>1
    <3>3. CASE c \in I \X Nat /\ c[1] = k
      <4>1. g[c[1]] = f[k] + 1 /\ f[c[1]] = f[k] /\ f[k] \in Nat /\ c[2] \in Nat
        BY <3>3
      <4>2. c = <<k, c[2]>>
        BY <3>3
      <4>3. c = new <=> c[2] = f[k] + 1
        BY <4>2
      <4>4. c[2] \in 1..(f[k] + 1) <=> c[2] \in 1..f[k] \/ c[2] = f[k] + 1
        BY <4>1
      <4>5. c \in Tally(I, g) <=> c[2] \in 1..(f[k] + 1)
        BY <1>7, <3>3, <4>1
      <4>6. c \in Tally(I, f) <=> c[2] \in 1..f[k]
        BY <1>6, <3>3, <4>1
      <4> HIDE DEF new
      <4> QED BY <4>3, <4>4, <4>5, <4>6
    <3> QED BY <3>1, <3>2, <3>3
  <2> HIDE DEF new
  <2> QED BY <2>1
<1>9. new \notin Tally(I, f)
  BY <1>6
<1> HIDE DEF new
<1>10. Cardinality(Tally(I, g)) = Cardinality(Tally(I, f)) + 1
  BY <1>4, <1>8, <1>9, FS_AddElement
<1> QED BY <1>4, <1>5, <1>10

(* How the messages of a kind become more or fewer.                          *)
LEMMA NTaken ==
  ASSUME Typed, NEW M, NEW p \in Receivers, NEW k \in 1..Len(mail[p]), mail' = Taken(mail, p, k)
  PROVE  N(M)' = N(M) - Inside(<<p, mail[p][k]>>, M)
<1>1. mail \in MailTypes
  BY DEF Typed, BoxesTyped
<1>2. Cardinality(Spots(Taken(mail, p, k), M)) =
        Cardinality(Spots(mail, M)) - Inside(<<p, mail[p][k]>>, M)
  BY <1>1, SpotsTaken
<1> QED BY <1>2 DEF N, Spots

LEMMA NPut ==
  ASSUME Typed, NEW M, NEW q \in Receivers, NEW x \in Message, mail' = Put(mail, q, x)
  PROVE  N(M)' = N(M) + Inside(<<q, x>>, M)
<1>1. mail \in MailTypes
  BY DEF Typed, BoxesTyped
<1>2. Cardinality(Spots(Put(mail, q, x), M)) = Cardinality(Spots(mail, M)) + Inside(<<q, x>>, M)
  BY <1>1, SpotsPut
<1> QED BY <1>2 DEF N, Spots

LEMMA NPassed ==
  ASSUME Typed, NEW M, NEW p \in Receivers, NEW k \in 1..Len(mail[p]),
         NEW q \in Receivers, NEW x \in Message, mail' = Put(Taken(mail, p, k), q, x)
  PROVE  N(M)' = N(M) - Inside(<<p, mail[p][k]>>, M) + Inside(<<q, x>>, M)
<1>1. mail \in MailTypes
  BY DEF Typed, BoxesTyped
<1> DEFINE n == Taken(mail, p, k)
<1>2. /\ n \in MailTypes
      /\ Cardinality(Spots(n, M)) = Cardinality(Spots(mail, M)) - Inside(<<p, mail[p][k]>>, M)
  BY <1>1, SpotsTaken
<1>3. mail' = Put(n, q, x)
  OBVIOUS
<1> HIDE DEF n
<1>4. Cardinality(Spots(Put(n, q, x), M)) = Cardinality(Spots(n, M)) + Inside(<<q, x>>, M)
  BY <1>2, SpotsPut
<1> QED BY <1>2, <1>3, <1>4 DEF N, Spots

LEMMA NSame ==
  ASSUME NEW M, UNCHANGED mail
  PROVE  N(M)' = N(M)
BY DEF N, Spots

(* The kinds of messages that carry no errand.                               *)
Quiet == {"DAY_ENDED", "PAUSE_NOTIFC", "SEAT_FREE"}
Deaf(M) == \A x \in M : x[2].type \notin Quiet

LEMMA NTakenQuiet ==
  ASSUME Typed, NEW M, Deaf(M), NEW p \in Receivers, NEW k \in 1..Len(mail[p]),
         mail[p][k].type \in Quiet, mail' = Taken(mail, p, k)
  PROVE  N(M)' = N(M)
<1>1. N(M)' = N(M) - Inside(<<p, mail[p][k]>>, M)
  BY NTaken
<1>2. Inside(<<p, mail[p][k]>>, M) = 0
  <2>1. <<p, mail[p][k]>> \notin M
    BY DEF Deaf
  <2> QED BY <2>1 DEF Inside
<1> QED BY <1>1, <1>2, NIs

LEMMA NSpread ==
  ASSUME Typed, NEW M, Deaf(M), NEW G, NEW x \in Message, x.type \in Quiet,
         mail' = Spread(mail, G, x)
  PROVE  N(M)' = N(M)
<1>1. mail \in MailTypes /\ \A r \in Receivers : <<r, x>> \notin M
  BY DEF Typed, BoxesTyped, Deaf
<1>2. Spots(Spread(mail, G, x), M) = Spots(mail, M)
  BY <1>1, SpotsSpread
<1> QED BY <1>2 DEF N, Spots

LEMMA KindsOfPlaces ==
  \A u \in Users : /\ Deaf(About(u)) /\ Deaf(Answers)
                   /\ \A s \in Services : Deaf(Calls(u, s))
BY DEF Deaf, Quiet, About, Answers, Calls

(* The steps that move an errand; and what the others leave as it is.        *)
Errand ==
  \/ SendUserNotific
  \/ \E u \in Users : UserStep(u)
  \/ TicketReq(Dispenser) \/ SendTicketResp(Dispenser)
  \/ \E w \in Workers : \/ WorkerServiceReq(w) \/ SendServiceResp(w)
                        \/ CollectPaused(w) /\ Has(source[w], "SERVICE_REQ")
Calm == UNCHANGED <<agenda, filter, wanted, rem, completed, visitors, refused,
                    serving, delivered, request>>

LEMMA QuietStep ==
  ASSUME OfficeInv, Next, ~NewDay, ~Errand
  PROVE  Calm /\ \A M : Deaf(M) => N(M)' = N(M)
<1> USE ProcessesDiffer
<1> DEFINE Silent == \A M : Deaf(M) => N(M)' = N(M)
<1> SUFFICES Calm /\ Silent
  OBVIOUS
<1>0. Typed /\ ClockTyped
  BY DEF OfficeInv, Typed
<1>1. UNCHANGED mail => Silent
  BY NSame
<1>2. ASSUME NEW p \in Receivers, NEW t \in Quiet, Receive(p, t)
      PROVE  Silent
  <2>1. /\ First(p, t) \in 1..Len(mail[p]) /\ mail' = Taken(mail, p, First(p, t))
        /\ mail[p][First(p, t)].type \in Quiet
    BY <1>0, <1>2, Getting DEF Receive, Received
  <2> QED BY <1>0, <2>1, NTakenQuiet
<1>3. "DAY_ENDED" \in Quiet /\ "PAUSE_NOTIFC" \in Quiet /\ "SEAT_FREE" \in Quiet
  BY DEF Quiet
<1> HIDE DEF Silent
<1>4. CASE ClockStep
  <2>1. CASE SendWorkerPause
    <3>1. PICK e \in pauses : Send(Clock, e.worker, [type |-> "PAUSE_NOTIFC"])
      BY <2>1 DEF SendWorkerPause, Due
    <3>2. PICK w \in Workers, x \in Message : w = e.worker /\ x = [type |-> "PAUSE_NOTIFC"]
      BY <1>0, Messages DEF ClockTyped
    <3>3. mail' = Put(mail, w, x) /\ x.type \in Quiet
      BY <1>3, <3>1, <3>2 DEF Send, Put
    <3>4. ASSUME NEW M, Deaf(M) PROVE N(M)' = N(M)
      <4>1. N(M)' = N(M) + Inside(<<w, x>>, M)
        BY <1>0, <3>3, NPut
      <4>2. <<w, x>> \notin M
        BY <3>3, <3>4 DEF Deaf
      <4>3. Inside(<<w, x>>, M) = 0
        BY <4>2 DEF Inside
      <4> QED BY <1>0, <4>1, <4>3, NIs
    <3>5. Calm
      BY <2>1 DEF SendWorkerPause, userVars, workerVars, deskVars, Calm
    <3> QED BY <3>4, <3>5 DEF Silent
  <2>2. CASE NextMinute
    BY <1>1, <2>2 DEF NextMinute, mailVars, userVars, workerVars, deskVars, Calm
  <2>3. CASE TellDayEnded
    <3>1. PICK x \in Message : x = [type |-> "DAY_ENDED"]
      BY Messages
    <3>2. mail' = Spread(mail, Groups[told + 1], x) /\ x.type \in Quiet
      BY <1>3, <2>3, <3>1 DEF TellDayEnded, Spread
    <3>3. Silent
      BY <1>0, <3>2, NSpread DEF Silent
    <3> QED BY <2>3, <3>3 DEF TellDayEnded, userVars, workerVars, deskVars, Calm
  <2> QED BY <1>4, <2>1, <2>2, <2>3 DEF ClockStep, Errand
<1>5. CASE \E p \in Processes : ReleaseUnit(p)
  BY <1>1, <1>5 DEF ReleaseUnit, userVars, workerVars, deskVars, clockVars, Calm
<1>6. ASSUME NEW p \in Receivers, NoMes(p) PROVE Calm /\ Silent
  BY <1>1, <1>6 DEF NoMes, workerVars, deskVars, clockVars, Calm
<1>7. ASSUME NEW p \in Receivers, DayEnded(p) PROVE Calm /\ Silent
  BY <1>2, <1>3, <1>7 DEF DayEnded, userVars, workerVars, deskVars, clockVars, Calm
<1>8. CASE \E u \in Users : UserStep(u)
  BY <1>8 DEF Errand
<1>9. CASE DispenserStep(Dispenser)
  BY <1>1, <1>9 DEF DispenserStep, FindSeat, CopySeat, Errand, mailVars, userVars, workerVars,
                    clockVars, Calm
<1>10. ASSUME NEW w \in Workers, WorkerStep(w) PROVE Calm /\ Silent
  <2>0. UNCHANGED <<userVars, deskVars, clockVars>>
    BY <1>10, Frames
  <2>1. CASE EnterCore(w)
    BY <1>1, <2>1 DEF EnterCore, mailVars, userVars, deskVars, clockVars, Calm
  <2>2. CASE WorkerSeatFree(w)
    BY <1>2, <1>3, <2>2 DEF WorkerSeatFree, userVars, deskVars, clockVars, Calm
  <2>3. CASE CheckDayEnded(w)
    <3>1. Calm
      BY <2>3 DEF CheckDayEnded, userVars, deskVars, clockVars, Calm
    <3>2. CASE UNCHANGED mail
      BY <1>1, <3>1, <3>2
    <3>3. CASE Has(w, "DAY_ENDED") /\ mail' = Without(w, "DAY_ENDED")
      <4>1. /\ First(w, "DAY_ENDED") \in 1..Len(mail[w])
            /\ mail' = Taken(mail, w, First(w, "DAY_ENDED"))
            /\ mail[w][First(w, "DAY_ENDED")].type \in Quiet
        BY <1>0, <1>3, <3>3, Finding
      <4>2. Silent
        BY <1>0, <4>1, NTakenQuiet DEF Silent
      <4> QED BY <3>1, <4>2
    <3> QED BY <2>3, <3>2, <3>3 DEF CheckDayEnded
  <2>4. CASE WorkerDayEnded(w)
    BY <1>2, <1>3, <2>4 DEF WorkerDayEnded, userVars, deskVars, clockVars, Calm
  <2>5. CASE WorkerPause(w)
    BY <1>2, <1>3, <2>5 DEF WorkerPause, userVars, deskVars, clockVars, Calm
  <2>6. CASE ComunicateFreeSeat(w)
    <3>1. PICK x \in Message : x = [type |-> "SEAT_FREE", worker |-> w]
      BY Messages
    <3>2. mail' = Spread(mail, Colleagues(w) \ {w}, x) /\ x.type \in Quiet
      BY <1>3, <2>6, <3>1 DEF ComunicateFreeSeat, Spread
    <3>3. Silent
      BY <1>0, <3>2, NSpread DEF Silent
    <3> QED BY <2>6, <3>3 DEF ComunicateFreeSeat, userVars, workerVars, deskVars, clockVars, Calm
  <2>7. CASE CollectPaused(w) /\ ~Has(source[w], "SERVICE_REQ")
    BY <1>1, <2>7 DEF CollectPaused, userVars, deskVars, clockVars, Calm
  <2> QED BY <1>10, <2>1, <2>2, <2>3, <2>4, <2>5, <2>6, <2>7 DEF WorkerStep, Errand
<1> QED BY <1>4, <1>5, <1>6, <1>7, <1>8, <1>9, <1>10 DEF Next

Done    == [x \in Users \X Services |-> completed[x[1]][x[2]]]
Busy    == {w \in Workers : serving[w] # None}
Awaited(u, s) == {e \in agenda : e.user = u /\ e.serv = s}
Seeks(u, s) == IF filter[u] # USER_FILTER /\ wanted[u] = s THEN 1 ELSE 0
Carried(u)  == IF filter[u] = USER_FILTER \/ u \in refused THEN 0 ELSE 1

OneInv  == \A u \in Users : at[u] = "core" => W(u) = Carried(u)
WantInv == \A u \in Users : /\ filter[u] # USER_FILTER => wanted[u] \in Services
                            /\ u \in refused => filter[u] # USER_FILTER
CountInv == Cardinality(Tally(Workers, delivered)) =
              Cardinality(Tally(Users \X Services, Done)) + N(Answers) + Cardinality(Busy)
FailInv  == \A u \in visitors, s \in Services :
              rem[u][s] = Cardinality(Awaited(u, s)) + N(Calls(u, s)) + Seeks(u, s)
ErrandInv == OneInv /\ WantInv /\ CountInv /\ FailInv

LEMMA HandsSame ==
  ASSUME NEW u, UNCHANGED <<request, serving>>
  PROVE  Hands(u)' = Hands(u)
BY DEF Hands, InHand

LEMMA CoreBefore ==
  ASSUME OfficeInv, Next, ~NewDay, NEW u \in Users, at'[u] = "core"
  PROVE  at[u] = "core"
BY Moves, ProcessesDiffer DEF OfficeInv, UserInv

LEMMA ErrandQuiet ==
  ASSUME OfficeInv, ErrandInv, Next, ~NewDay, ~Errand
  PROVE  ErrandInv'
<1>1. Calm /\ \A M : Deaf(M) => N(M)' = N(M)
  BY QuietStep
<1>2. OneInv'
  <2> SUFFICES ASSUME NEW u \in Users, at'[u] = "core" PROVE W(u)' = Carried(u)'
    BY DEF OneInv
  <2>1. W(u) = Carried(u)
    BY CoreBefore DEF ErrandInv, OneInv
  <2>2. N(About(u))' = N(About(u))
    BY <1>1, KindsOfPlaces
  <2>3. Hands(u)' = Hands(u)
    BY <1>1, HandsSame DEF Calm
  <2>4. Carried(u)' = Carried(u)
    BY <1>1 DEF Calm, Carried
  <2> QED BY <2>1, <2>2, <2>3, <2>4 DEF W
<1>3. WantInv'
  BY <1>1 DEF ErrandInv, WantInv, Calm
<1>4. CountInv'
  <2>1. N(Answers)' = N(Answers)
    BY <1>1, ProcessesDiffer DEF Deaf, Quiet, Answers
  <2>2. /\ Tally(Workers, delivered)' = Tally(Workers, delivered)
        /\ Tally(Users \X Services, Done)' = Tally(Users \X Services, Done)
        /\ Busy' = Busy
    BY <1>1 DEF Calm, Tally, Done, Busy
  <2> QED BY <2>1, <2>2 DEF ErrandInv, CountInv
<1>5. FailInv'
  <2> SUFFICES ASSUME NEW u \in visitors', NEW s \in Services
               PROVE  rem'[u][s] = Cardinality(Awaited(u, s))' + N(Calls(u, s))' + Seeks(u, s)'
    BY DEF FailInv
  <2>1. u \in visitors /\ u \in Users
    BY <1>1 DEF Calm, OfficeInv, Typed, UsersTyped
  <2>2. N(Calls(u, s))' = N(Calls(u, s))
    BY <1>1, <2>1, KindsOfPlaces
  <2>3. rem'[u][s] = rem[u][s] /\ Awaited(u, s)' = Awaited(u, s) /\ Seeks(u, s)' = Seeks(u, s)
    BY <1>1 DEF Calm, Awaited, Seeks
  <2> QED BY <2>1, <2>2, <2>3 DEF ErrandInv, FailInv
<1> QED BY <1>2, <1>3, <1>4, <1>5 DEF ErrandInv

LEMMA NPositive ==
  ASSUME Typed, NEW M, NEW p \in Receivers, NEW k \in 1..Len(mail[p]), <<p, mail[p][k]>> \in M
  PROVE  N(M) >= 1
<1>1. <<p, k>> \in Spots(mail, M)
  BY DEF Spots
<1>2. Spots(mail, M) # {}
  BY <1>1
<1>3. N(M) # 0 /\ N(M) \in Nat
  BY <1>2, NIs, FS_EmptySet DEF N
<1> QED BY <1>3

(* Whoever has a message on the way, or an answer to read, is on its errand. *)
LEMMA OnErrand ==
  ASSUME OfficeInv, ErrandInv, NEW u \in Users, at[u] = "core",
         NEW p \in Receivers, NEW k \in 1..Len(mail[p]), <<p, mail[p][k]>> \in About(u)
  PROVE  /\ filter[u] # USER_FILTER /\ u \notin refused /\ W(u) = 1
         /\ wanted[u] \in Services
<1>1. Typed /\ N(About(u)) >= 1 /\ N(About(u)) \in Nat
  BY NPositive, NIs DEF OfficeInv
<1>2. Cardinality(Hands(u)) \in Nat
  BY HandsFinite
<1>3. W(u) # 0
  BY <1>1, <1>2 DEF W
<1>4. W(u) = Carried(u)
  BY DEF ErrandInv, OneInv
<1>5. filter[u] # USER_FILTER /\ u \notin refused /\ W(u) = 1
  BY <1>3, <1>4 DEF Carried
<1> QED BY <1>5 DEF ErrandInv, WantInv

LEMMA AwaitedFinite ==
  ASSUME Typed, NEW u, NEW s
  PROVE  IsFiniteSet(Awaited(u, s)) /\ Cardinality(Awaited(u, s)) \in Nat
<1> DEFINE R == 1..N_REQUESTS
           D == 0..(MINUTES_IN_DAY - 1)
           A == (Users \X R) \X (Services \X D)
           B == [user : Users, nr : R, serv : Services, time : D]
           g == [x \in A |-> [user |-> x[1][1], nr |-> x[1][2], serv |-> x[2][1], time |-> x[2][2]]]
<1>1. IsFiniteSet(R) /\ IsFiniteSet(D)
  <2>1. N_REQUESTS \in Nat /\ MINUTES_IN_DAY - 1 \in Nat
    BY OfficeAssumption
  <2>2. IsFiniteSet(R)
    BY <2>1, FS_Interval
  <2>3. IsFiniteSet(D)
    BY <2>1, FS_Interval
  <2> QED BY <2>2, <2>3
<1>2. IsFiniteSet(A)
  <2> HIDE DEF R, D
  <2>1. IsFiniteSet(Users \X R)
    BY <1>1, ProcessesAssumption, FS_Product
  <2>2. IsFiniteSet(Services \X D)
    BY <1>1, ProcessesAssumption, FS_Product
  <2> QED BY <2>1, <2>2, FS_Product
<1>3. g \in [A -> B]
  OBVIOUS
<1>4. ASSUME NEW e \in B PROVE \E x \in A : g[x] = e
  <2>1. <<<<e.user, e.nr>>, <<e.serv, e.time>>>> \in A
    OBVIOUS
  <2>2. g[<<<<e.user, e.nr>>, <<e.serv, e.time>>>>] =
          [user |-> e.user, nr |-> e.nr, serv |-> e.serv, time |-> e.time]
    BY <2>1
  <2>3. e = [user |-> e.user, nr |-> e.nr, serv |-> e.serv, time |-> e.time]
    OBVIOUS
  <2> QED BY <2>1, <2>2, <2>3
<1>5. IsFiniteSet(B)
  <2> HIDE DEF A, B, g
  <2>1. g \in Surjection(A, B)
    BY <1>3, <1>4, Fun_IsSurj
  <2> QED BY <1>2, <2>1, FS_Surjection
<1>6. Awaited(u, s) \subseteq B
  BY DEF Awaited, Typed, ClockTyped
<1>7. IsFiniteSet(Awaited(u, s))
  BY <1>5, <1>6, FS_Subset
<1> QED BY <1>7, FS_CardinalityType

(* The clock tells a user of an appointment.                                 *)
LEMMA ErrandCall ==
  ASSUME OfficeInv, ErrandInv, Next, ~NewDay, SendUserNotific
  PROVE  ErrandInv'
<1> USE ProcessesDiffer
<1>0. Typed /\ ClockTyped
  BY DEF OfficeInv, Typed
<1>1. PICK e \in agenda : /\ Send(Clock, e.user, [type |-> "CLOCK_NOTIFC", serv |-> e.serv])
                          /\ agenda' = agenda \ {e}
  BY DEF SendUserNotific, Due
<1>2. UNCHANGED <<at, filter, wanted, rem, completed, visitors, refused, serving, delivered, request>>
  BY DEF SendUserNotific, userVars, workerVars, deskVars
<1>3. PICK v \in Users, x \in Message :
        /\ v = e.user /\ x = [type |-> "CLOCK_NOTIFC", serv |-> e.serv]
        /\ mail' = Put(mail, v, x) /\ v \in Receivers
  BY <1>0, <1>1, Messages DEF ClockTyped, Send, Put
<1>4. \A M : N(M)' = N(M) + Inside(<<v, x>>, M)
  BY <1>0, <1>3, NPut
<1>5. \A M : <<v, x>> \notin M => N(M)' = N(M)
  <2> SUFFICES ASSUME NEW M, <<v, x>> \notin M PROVE N(M)' = N(M)
    OBVIOUS
  <2>1. Inside(<<v, x>>, M) = 0 /\ N(M) \in Nat
    BY <1>0, NIs DEF Inside
  <2> QED BY <1>4, <2>1
<1>6. x.type = "CLOCK_NOTIFC" /\ x.serv = e.serv
  BY <1>3
<1>7. OneInv'
  <2> SUFFICES ASSUME NEW u \in Users, at'[u] = "core" PROVE W(u)' = Carried(u)'
    BY DEF OneInv
  <2>1. W(u) = Carried(u)
    BY CoreBefore DEF ErrandInv, OneInv
  <2>2. N(About(u))' = N(About(u))
    BY <1>5, <1>6 DEF About
  <2>3. Hands(u)' = Hands(u)
    BY <1>2, HandsSame
  <2>4. Carried(u)' = Carried(u)
    BY <1>2 DEF Carried
  <2> QED BY <2>1, <2>2, <2>3, <2>4 DEF W
<1>8. WantInv'
  BY <1>2 DEF ErrandInv, WantInv
<1>9. CountInv'
  <2>1. N(Answers)' = N(Answers)
    BY <1>5, <1>6 DEF Answers
  <2>2. /\ Tally(Workers, delivered)' = Tally(Workers, delivered)
        /\ Tally(Users \X Services, Done)' = Tally(Users \X Services, Done)
        /\ Busy' = Busy
    BY <1>2 DEF Tally, Done, Busy
  <2> QED BY <2>1, <2>2 DEF ErrandInv, CountInv
<1>10. FailInv'
  <2> SUFFICES ASSUME NEW u \in visitors', NEW s \in Services
               PROVE  rem'[u][s] = Cardinality(Awaited(u, s))' + N(Calls(u, s))' + Seeks(u, s)'
    BY DEF FailInv
  <2>1. rem[u][s] = Cardinality(Awaited(u, s)) + N(Calls(u, s)) + Seeks(u, s)
    BY <1>2 DEF ErrandInv, FailInv
  <2>2. rem'[u][s] = rem[u][s] /\ Seeks(u, s)' = Seeks(u, s)
    BY <1>2 DEF Seeks
  <2>3. CASE v = u /\ e.serv = s
    <3>1. <<v, x>> \in Calls(u, s)
      BY <1>3, <1>6, <2>3 DEF Calls
    <3>2. N(Calls(u, s))' = N(Calls(u, s)) + 1
      BY <1>4, <3>1 DEF Inside
    <3>3. Awaited(u, s)' = Awaited(u, s) \ {e} /\ e \in Awaited(u, s)
      BY <1>1, <1>3, <2>3 DEF Awaited
    <3>4. IsFiniteSet(Awaited(u, s)) /\ Cardinality(Awaited(u, s)) \in Nat
      BY <1>0, AwaitedFinite
    <3>5. Cardinality(Awaited(u, s))' = Cardinality(Awaited(u, s)) - 1
      <4> DEFINE A == Awaited(u, s)
      <4>1. Cardinality(A \ {e}) = Cardinality(A) - 1
        <5> HIDE DEF A
        <5>1. e \in A /\ IsFiniteSet(A)
          BY <3>3, <3>4 DEF A
        <5> QED BY <5>1, FS_RemoveElement
      <4> QED BY <3>3, <4>1
    <3>6. Seeks(u, s) \in Int /\ N(Calls(u, s)) \in Int
      BY <1>0, NIs DEF Seeks
    <3> QED BY <2>1, <2>2, <3>2, <3>4, <3>5, <3>6
  <2>4. CASE ~(v = u /\ e.serv = s)
    <3>1. <<v, x>> \notin Calls(u, s)
      BY <1>6, <2>4 DEF Calls
    <3>2. N(Calls(u, s))' = N(Calls(u, s))
      BY <1>5, <3>1
    <3>3. Awaited(u, s)' = Awaited(u, s)
      BY <1>1, <1>3, <2>4 DEF Awaited
    <3> QED BY <2>1, <2>2, <3>2, <3>3
  <2> QED BY <2>3, <2>4
<1> QED BY <1>7, <1>8, <1>9, <1>10 DEF ErrandInv

(* What the kinds of a message are for a place of the mailbox.               *)
LEMMA KindOf ==
  ASSUME NEW p \in Receivers, NEW m \in Message, NEW u
  PROVE  /\ <<p, m>> \in About(u) <=>
              \/ m.type \in {"TICKET_REQ", "SERVICE_REQ"} /\ m.user = u
              \/ m.type \in {"TICKET_RESP", "SERVICE_RESP"} /\ p = u
         /\ <<p, m>> \in Answers <=> m.type = "SERVICE_RESP"
         /\ \A s : <<p, m>> \in Calls(u, s) <=> p = u /\ m.type = "CLOCK_NOTIFC" /\ m.serv = s
BY DEF About, Answers, Calls

(* What one message more, one message less, or one for another does.         *)
Comes(y) == \A M : N(M)' = IF y \in M THEN N(M) + 1 ELSE N(M)
Leaves(x) == \A M : N(M)' = IF x \in M THEN N(M) - 1 ELSE N(M)
Shifts(x, y) == \A M : N(M)' = IF x \in M THEN IF y \in M THEN N(M) ELSE N(M) - 1
                               ELSE IF y \in M THEN N(M) + 1 ELSE N(M)

LEMMA ItComes ==
  ASSUME Typed, NEW q \in Receivers, NEW x \in Message, mail' = Put(mail, q, x)
  PROVE  Comes(<<q, x>>)
<1> SUFFICES ASSUME NEW M
             PROVE  N(M)' = IF <<q, x>> \in M THEN N(M) + 1 ELSE N(M)
  BY DEF Comes
<1>1. N(M)' = N(M) + Inside(<<q, x>>, M)
  BY NPut
<1>2. N(M) \in Nat
  BY NIs
<1> HIDE DEF N
<1> QED BY <1>1, <1>2 DEF Inside

LEMMA ItLeaves ==
  ASSUME Typed, NEW p \in Receivers, NEW k \in 1..Len(mail[p]), mail' = Taken(mail, p, k)
  PROVE  Leaves(<<p, mail[p][k]>>)
<1> DEFINE x == <<p, mail[p][k]>>
<1> SUFFICES ASSUME NEW M
             PROVE  N(M)' = IF x \in M THEN N(M) - 1 ELSE N(M)
  BY DEF Leaves
<1>1. N(M)' = N(M) - Inside(x, M)
  BY NTaken
<1>2. N(M) \in Nat
  BY NIs
<1> HIDE DEF N, x
<1> QED BY <1>1, <1>2 DEF Inside

LEMMA ItShifts ==
  ASSUME Typed, NEW p \in Receivers, NEW k \in 1..Len(mail[p]),
         NEW q \in Receivers, NEW y \in Message, mail' = Put(Taken(mail, p, k), q, y)
  PROVE  Shifts(<<p, mail[p][k]>>, <<q, y>>)
<1> DEFINE x == <<p, mail[p][k]>>
           z == <<q, y>>
<1> SUFFICES ASSUME NEW M
             PROVE  N(M)' = IF x \in M THEN IF z \in M THEN N(M) ELSE N(M) - 1
                            ELSE IF z \in M THEN N(M) + 1 ELSE N(M)
  BY DEF Shifts
<1>1. N(M)' = N(M) - Inside(x, M) + Inside(z, M)
  BY NPassed
<1>2. N(M) \in Nat
  BY NIs
<1> HIDE DEF N, x, z
<1> QED BY <1>1, <1>2 DEF Inside

LEMMA FiltersDiffer ==
  /\ TICKET_FILTER # USER_FILTER /\ SERVICE_FILTER # USER_FILTER
  /\ \A i \in DOMAIN TICKET_FILTER : TICKET_FILTER[i] # "CLOCK_NOTIFC"
  /\ \A i \in DOMAIN SERVICE_FILTER : SERVICE_FILTER[i] # "CLOCK_NOTIFC"
BY DEF USER_FILTER, TICKET_FILTER, SERVICE_FILTER

(* What a step that does not touch them keeps.                               *)
LEMMA OneKept ==
  ASSUME OfficeInv, ErrandInv, Next, ~NewDay, NEW u \in Users, at'[u] = "core",
         W(u)' = W(u), filter'[u] = filter[u], u \in refused' <=> u \in refused
  PROVE  W(u)' = Carried(u)'
<1>1. W(u) = Carried(u)
  BY CoreBefore DEF ErrandInv, OneInv
<1> QED BY <1>1 DEF Carried

LEMMA CountKept ==
  ASSUME ErrandInv, N(Answers)' = N(Answers), UNCHANGED <<delivered, completed, serving>>
  PROVE  CountInv'
<1>1. /\ Tally(Workers, delivered)' = Tally(Workers, delivered)
      /\ Tally(Users \X Services, Done)' = Tally(Users \X Services, Done)
      /\ Busy' = Busy
  BY DEF Tally, Done, Busy
<1> QED BY <1>1 DEF ErrandInv, CountInv

LEMMA FailKept ==
  ASSUME ErrandInv, UNCHANGED <<agenda, rem, filter, wanted, visitors>>,
         \A u \in visitors, s \in Services : N(Calls(u, s))' = N(Calls(u, s))
  PROVE  FailInv'
<1> SUFFICES ASSUME NEW u \in visitors', NEW s \in Services
             PROVE  rem'[u][s] = Cardinality(Awaited(u, s))' + N(Calls(u, s))' + Seeks(u, s)'
  BY DEF FailInv
<1>1. /\ rem'[u][s] = rem[u][s] /\ Awaited(u, s)' = Awaited(u, s)
      /\ Seeks(u, s)' = Seeks(u, s)
  BY DEF Awaited, Seeks
<1>2. rem[u][s] = Cardinality(Awaited(u, s)) + N(Calls(u, s)) + Seeks(u, s)
  BY DEF ErrandInv, FailInv
<1>3. N(Calls(u, s))' = N(Calls(u, s))
  OBVIOUS
<1> QED BY <1>1, <1>2, <1>3

(* A user goes to the dispenser.                                             *)
LEMMA ErrandAsks ==
  ASSUME OfficeInv, ErrandInv, Next, ~NewDay, NEW v \in Users, UserClockNotifc(v)
  PROVE  ErrandInv'
<1> USE ProcessesDiffer
<1>0. Typed /\ UsersTyped
  BY DEF OfficeInv, Typed
<1>1. UNCHANGED <<at, rem, completed, visitors, refused, serving, delivered, request, agenda>>
  BY DEF UserClockNotifc, workerVars, deskVars, clockVars
<1>2. Gets(v, "CLOCK_NOTIFC")
  BY DEF UserClockNotifc
<1>3. PICK k \in Nat, m \in Message, s \in Services :
        /\ k \in 1..Len(mail[v]) /\ m = mail[v][k] /\ m.type = "CLOCK_NOTIFC" /\ m.serv = s
        /\ Msg(v, "CLOCK_NOTIFC") = m /\ Without(v, "CLOCK_NOTIFC") = Taken(mail, v, k)
  <2>1. /\ First(v, "CLOCK_NOTIFC") \in 1..Len(mail[v])
        /\ Msg(v, "CLOCK_NOTIFC") = mail[v][First(v, "CLOCK_NOTIFC")]
        /\ Msg(v, "CLOCK_NOTIFC") \in Message /\ Msg(v, "CLOCK_NOTIFC").type = "CLOCK_NOTIFC"
        /\ Without(v, "CLOCK_NOTIFC") = Taken(mail, v, First(v, "CLOCK_NOTIFC"))
    BY <1>0, <1>2, Getting
  <2>2. Msg(v, "CLOCK_NOTIFC").serv \in Services
    BY <2>1, MessageKinds
  <2> QED BY <2>1, <2>2
<1>4. PICK d \in Receivers, x \in Message :
        /\ d = Dispenser /\ x = [type |-> "TICKET_REQ", user |-> v, serv |-> s]
        /\ mail' = Put(Taken(mail, v, k), d, x)
  <2>1. mail' = [Without(v, "CLOCK_NOTIFC") EXCEPT ![Dispenser] =
                   Append(@, [type |-> "TICKET_REQ", user |-> v, serv |-> s])]
    BY <1>3 DEF UserClockNotifc, Answer
  <2> QED BY <1>3, <2>1, Messages DEF Put
<1>5. Shifts(<<v, m>>, <<d, x>>)
  BY <1>0, <1>3, <1>4, ItShifts
<1>6. x.type = "TICKET_REQ" /\ x.user = v
  BY <1>4
<1>7. /\ filter' = [filter EXCEPT ![v] = TICKET_FILTER]
      /\ wanted' = [wanted EXCEPT ![v] = s]
  BY <1>3 DEF UserClockNotifc
<1>8. /\ filter'[v] # USER_FILTER /\ wanted'[v] = s
      /\ \A u \in Users \ {v} : filter'[u] = filter[u] /\ wanted'[u] = wanted[u]
  BY <1>0, <1>7, FiltersDiffer DEF UsersTyped
<1>9. filter[v] = USER_FILTER
  <2>1. \E i \in DOMAIN filter[v] : filter[v][i] = "CLOCK_NOTIFC"
    BY <1>2 DEF Gets, FilterOf
  <2>2. filter[v] \in {USER_FILTER, TICKET_FILTER, SERVICE_FILTER}
    BY <1>0 DEF UsersTyped
  <2> QED BY <2>1, <2>2, FiltersDiffer
<1>10. v \notin refused
  BY <1>9 DEF ErrandInv, WantInv
<1>11. OneInv'
  <2> SUFFICES ASSUME NEW u \in Users, at'[u] = "core" PROVE W(u)' = Carried(u)'
    BY DEF OneInv
  <2>1. Hands(u)' = Hands(u) /\ Cardinality(Hands(u)) \in Nat /\ N(About(u)) \in Nat
    BY <1>0, <1>1, HandsSame, HandsFinite, NIs
  <2>2. CASE u = v
    <3>1. N(About(u))' = N(About(u)) + 1
      BY <1>3, <1>5, <1>6, <2>2, KindOf DEF Shifts
    <3>2. W(u) = 0
      BY <1>1, <1>9, <2>2 DEF ErrandInv, OneInv, Carried
    <3>3. Carried(u)' = 1
      BY <1>1, <1>8, <1>10, <2>2 DEF Carried
    <3> QED BY <2>1, <3>1, <3>2, <3>3 DEF W
  <2>3. CASE u # v
    <3>1. N(About(u))' = N(About(u))
      BY <1>3, <1>5, <1>6, <2>3, KindOf DEF Shifts
    <3>2. W(u)' = W(u)
      BY <2>1, <3>1 DEF W
    <3> QED BY <1>1, <1>8, <2>3, <3>2, OneKept
  <2> QED BY <2>2, <2>3
<1>12. WantInv'
  BY <1>1, <1>8, <1>10 DEF ErrandInv, WantInv
<1>13. CountInv'
  <2>1. N(Answers)' = N(Answers)
    BY <1>3, <1>5, <1>6, KindOf DEF Shifts
  <2> QED BY <1>1, <2>1, CountKept
<1>14. FailInv'
  <2> SUFFICES ASSUME NEW u \in visitors', NEW t \in Services
               PROVE  rem'[u][t] = Cardinality(Awaited(u, t))' + N(Calls(u, t))' + Seeks(u, t)'
    BY DEF FailInv
  <2>1. /\ rem[u][t] = Cardinality(Awaited(u, t)) + N(Calls(u, t)) + Seeks(u, t)
        /\ rem'[u][t] = rem[u][t] /\ Awaited(u, t)' = Awaited(u, t) /\ u \in Users
    BY <1>0, <1>1 DEF ErrandInv, FailInv, Awaited, UsersTyped
  <2>2. Cardinality(Awaited(u, t)) \in Nat /\ N(Calls(u, t)) \in Nat
    BY <1>0, AwaitedFinite, NIs
  <2>3. CASE u = v /\ t = s
    <3>1. N(Calls(u, t))' = N(Calls(u, t)) - 1
      BY <1>3, <1>5, <1>6, <2>3, KindOf DEF Shifts
    <3>2. Seeks(u, t) = 0 /\ Seeks(u, t)' = 1
      BY <1>8, <1>9, <2>3 DEF Seeks
    <3> QED BY <2>1, <2>2, <3>1, <3>2
  <2>4. CASE ~(u = v /\ t = s)
    <3>1. N(Calls(u, t))' = N(Calls(u, t))
      <4>1. <<v, m>> \notin Calls(u, t)
        BY <1>3, <2>4, KindOf
      <4>2. <<d, x>> \notin Calls(u, t)
        BY <1>6, KindOf
      <4> QED BY <1>5, <4>1, <4>2 DEF Shifts
    <3>2. Seeks(u, t)' = Seeks(u, t)
      BY <1>8, <1>9, <2>1, <2>4 DEF Seeks
    <3> QED BY <2>1, <3>1, <3>2
  <2> QED BY <2>3, <2>4
<1> QED BY <1>11, <1>12, <1>13, <1>14 DEF ErrandInv

(* A message about a user, read by the user.                                 *)
LEMMA Reading ==
  ASSUME Typed, NEW p \in Receivers, NEW t, Gets(p, t)
  PROVE  \E k \in Nat, m \in Message :
           /\ k \in 1..Len(mail[p]) /\ m = mail[p][k] /\ m.type = t /\ at[p] = "core"
           /\ Msg(p, t) = m /\ Without(p, t) = Taken(mail, p, k)
<1>1. /\ First(p, t) \in 1..Len(mail[p]) /\ First(p, t) \in Nat /\ at[p] = "core"
      /\ Msg(p, t) = mail[p][First(p, t)] /\ Msg(p, t) \in Message /\ Msg(p, t).type = t
      /\ Without(p, t) = Taken(mail, p, First(p, t))
  BY Getting
<1> QED BY <1>1

(* A user goes to the seat on its ticket, or is refused one.                 *)
LEMMA ErrandTicket ==
  ASSUME OfficeInv, ErrandInv, Next, ~NewDay, NEW v \in Users, UserTicketResp(v)
  PROVE  ErrandInv'
<1> USE ProcessesDiffer
<1>0. Typed /\ UsersTyped
  BY DEF OfficeInv, Typed
<1>1. UNCHANGED <<at, rem, wanted, completed, visitors, serving, delivered, request, agenda>>
  BY DEF UserTicketResp, workerVars, deskVars, clockVars
<1>2. Gets(v, "TICKET_RESP")
  BY DEF UserTicketResp
<1>3. PICK k \in Nat, m \in Message :
        /\ k \in 1..Len(mail[v]) /\ m = mail[v][k] /\ m.type = "TICKET_RESP" /\ at[v] = "core"
        /\ Msg(v, "TICKET_RESP") = m /\ Without(v, "TICKET_RESP") = Taken(mail, v, k)
  BY <1>0, <1>2, Reading
<1>4. filter[v] # USER_FILTER /\ v \notin refused /\ W(v) = 1
  <2>1. <<v, mail[v][k]>> \in About(v)
    BY <1>3, KindOf
  <2> QED BY <1>3, <2>1, OnErrand
<1>5. \A u \in Users : /\ Hands(u)' = Hands(u) /\ Cardinality(Hands(u)) \in Nat
                       /\ N(About(u)) \in Nat
  BY <1>0, <1>1, HandsSame, HandsFinite, NIs
<1>6. CASE m.card # NoCard
  <2>1. m.serv \in Services /\ m.card.msg \in Workers
    BY <1>3, <1>6, MessageKinds
  <2>2. PICK w \in Receivers, x \in Message :
          /\ w = m.card.msg /\ x = [type |-> "SERVICE_REQ", user |-> v, serv |-> m.serv]
          /\ mail' = Put(Taken(mail, v, k), w, x)
    <3>1. mail' = [Without(v, "TICKET_RESP") EXCEPT ![m.card.msg] =
                     Append(@, [type |-> "SERVICE_REQ", user |-> v, serv |-> m.serv])]
      BY <1>3, <1>6 DEF UserTicketResp, Answer
    <3> QED BY <1>3, <2>1, <3>1, Messages DEF Put
  <2>3. Shifts(<<v, m>>, <<w, x>>)
    BY <1>0, <1>3, <2>2, ItShifts
  <2>4. x.type = "SERVICE_REQ" /\ x.user = v
    BY <2>2
  <2>5. filter' = [filter EXCEPT ![v] = SERVICE_FILTER] /\ refused' = refused
    BY <1>3, <1>6 DEF UserTicketResp
  <2>6. /\ filter'[v] # USER_FILTER
        /\ \A u \in Users \ {v} : filter'[u] = filter[u]
    BY <1>0, <2>5, FiltersDiffer DEF UsersTyped
  <2>7. OneInv'
    <3> SUFFICES ASSUME NEW u \in Users, at'[u] = "core" PROVE W(u)' = Carried(u)'
      BY DEF OneInv
    <3>1. N(About(u))' = N(About(u))
      <4>1. <<v, m>> \in About(u) <=> u = v
        BY <1>3, KindOf
      <4>2. <<w, x>> \in About(u) <=> u = v
        BY <2>4, KindOf
      <4> QED BY <2>3, <4>1, <4>2 DEF Shifts
    <3>2. W(u)' = W(u)
      BY <1>5, <3>1 DEF W
    <3>3. CASE u = v
      BY <1>4, <2>5, <2>6, <3>2, <3>3 DEF Carried
    <3>4. CASE u # v
      BY <2>5, <2>6, <3>2, <3>4, OneKept
    <3> QED BY <3>3, <3>4
  <2>8. WantInv'
    BY <1>1, <1>4, <2>5, <2>6 DEF ErrandInv, WantInv
  <2>9. CountInv'
    <3>1. N(Answers)' = N(Answers)
      BY <1>3, <2>3, <2>4, KindOf DEF Shifts
    <3> QED BY <1>1, <3>1, CountKept
  <2>10. FailInv'
    <3> SUFFICES ASSUME NEW u \in visitors', NEW t \in Services
                 PROVE  rem'[u][t] = Cardinality(Awaited(u, t))' + N(Calls(u, t))' + Seeks(u, t)'
      BY DEF FailInv
    <3>1. /\ rem[u][t] = Cardinality(Awaited(u, t)) + N(Calls(u, t)) + Seeks(u, t)
          /\ rem'[u][t] = rem[u][t] /\ Awaited(u, t)' = Awaited(u, t) /\ u \in Users
      BY <1>0, <1>1 DEF ErrandInv, FailInv, Awaited, UsersTyped
    <3>2. N(Calls(u, t))' = N(Calls(u, t))
      BY <1>3, <2>3, <2>4, KindOf DEF Shifts
    <3>3. Seeks(u, t)' = Seeks(u, t)
      BY <1>1, <1>4, <2>6, <3>1 DEF Seeks
    <3> QED BY <3>1, <3>2, <3>3
  <2> QED BY <2>7, <2>8, <2>9, <2>10 DEF ErrandInv
<1>7. CASE m.card = NoCard
  <2>1. mail' = Taken(mail, v, k) /\ refused' = refused \cup {v} /\ filter' = filter
    BY <1>3, <1>7 DEF UserTicketResp, Received
  <2>2. Leaves(<<v, m>>)
    BY <1>0, <1>3, <2>1, ItLeaves
  <2>3. OneInv'
    <3> SUFFICES ASSUME NEW u \in Users, at'[u] = "core" PROVE W(u)' = Carried(u)'
      BY DEF OneInv
    <3>0. <<v, m>> \in About(u) <=> u = v
      BY <1>3, KindOf
    <3>1. CASE u = v
      <4>1. N(About(u))' = N(About(u)) - 1
        BY <2>2, <3>0, <3>1 DEF Leaves
      <4>2. Carried(u)' = 0
        BY <2>1, <3>1 DEF Carried
      <4> QED BY <1>4, <1>5, <3>1, <4>1, <4>2 DEF W
    <3>2. CASE u # v
      <4>1. N(About(u))' = N(About(u))
        BY <2>2, <3>0, <3>2 DEF Leaves
      <4>2. W(u)' = W(u)
        BY <1>5, <4>1 DEF W
      <4> QED BY <2>1, <3>2, <4>2, OneKept
    <3> QED BY <3>1, <3>2
  <2>4. WantInv'
    BY <1>1, <1>4, <2>1 DEF ErrandInv, WantInv
  <2>5. CountInv'
    <3>1. N(Answers)' = N(Answers)
      BY <1>3, <2>2, KindOf DEF Leaves
    <3> QED BY <1>1, <3>1, CountKept
  <2>6. FailInv'
    <3>1. \A u \in visitors, t \in Services : N(Calls(u, t))' = N(Calls(u, t))
      BY <1>3, <2>2, KindOf DEF Leaves
    <3> QED BY <1>1, <2>1, <3>1, FailKept
  <2> QED BY <2>3, <2>4, <2>5, <2>6 DEF ErrandInv
<1> QED BY <1>6, <1>7

(* A user has its service.                                                   *)
LEMMA ErrandDone ==
  ASSUME OfficeInv, ErrandInv, Next, ~NewDay, NEW v \in Users, UserServiceResp(v)
  PROVE  ErrandInv'
<1> USE ProcessesDiffer
<1>0. Typed /\ UsersTyped
  BY DEF OfficeInv, Typed
<1>1. UNCHANGED <<at, wanted, visitors, refused, serving, delivered, request, agenda>>
  BY DEF UserServiceResp, workerVars, deskVars, clockVars
<1>2. Gets(v, "SERVICE_RESP") /\ mail' = Without(v, "SERVICE_RESP")
  BY DEF UserServiceResp
<1>3. PICK k \in Nat, m \in Message :
        /\ k \in 1..Len(mail[v]) /\ m = mail[v][k] /\ m.type = "SERVICE_RESP" /\ at[v] = "core"
        /\ mail' = Taken(mail, v, k)
  BY <1>0, <1>2, Reading
<1>4. filter[v] # USER_FILTER /\ v \notin refused /\ W(v) = 1 /\ wanted[v] \in Services
  BY <1>3, OnErrand, KindOf
<1>5. Leaves(<<v, m>>)
  BY <1>0, <1>3, ItLeaves
<1>6. \A u \in Users : /\ Hands(u)' = Hands(u) /\ Cardinality(Hands(u)) \in Nat
                       /\ N(About(u)) \in Nat
  BY <1>0, <1>1, HandsSame, HandsFinite, NIs
<1>7. PICK s \in Services : s = wanted[v]
  BY <1>4
<1>8. /\ filter' = [filter EXCEPT ![v] = USER_FILTER]
      /\ completed' = [completed EXCEPT ![v][s] = @ + 1]
      /\ rem' = [rem EXCEPT ![v][s] = @ - 1]
  BY <1>7 DEF UserServiceResp
<1>9. /\ filter'[v] = USER_FILTER
      /\ \A u \in Users \ {v} : filter'[u] = filter[u] /\ rem'[u] = rem[u]
      /\ rem'[v][s] = rem[v][s] - 1 /\ \A t \in Services \ {s} : rem'[v][t] = rem[v][t]
  BY <1>0, <1>8 DEF UsersTyped
<1>10. OneInv'
  <2> SUFFICES ASSUME NEW u \in Users, at'[u] = "core" PROVE W(u)' = Carried(u)'
    BY DEF OneInv
  <2>0. <<v, m>> \in About(u) <=> u = v
    BY <1>3, KindOf
  <2>1. CASE u = v
    <3>1. N(About(u))' = N(About(u)) - 1
      BY <1>5, <2>0, <2>1 DEF Leaves
    <3>2. Carried(u)' = 0
      BY <1>9, <2>1 DEF Carried
    <3> QED BY <1>4, <1>6, <2>1, <3>1, <3>2 DEF W
  <2>2. CASE u # v
    <3>1. N(About(u))' = N(About(u))
      BY <1>5, <2>0, <2>2 DEF Leaves
    <3>2. W(u)' = W(u)
      BY <1>6, <3>1 DEF W
    <3> QED BY <1>1, <1>9, <2>2, <3>2, OneKept
  <2> QED BY <2>1, <2>2
<1>11. WantInv'
  BY <1>1, <1>4, <1>9 DEF ErrandInv, WantInv
<1>12. CountInv'
  <2> DEFINE I == Users \X Services
             f == Done
             g == Done'
             c == <<v, s>>
  <2>1. N(Answers)' = N(Answers) - 1
    BY <1>3, <1>5, KindOf DEF Leaves
  <2>2. Tally(Workers, delivered)' = Tally(Workers, delivered) /\ Busy' = Busy
    BY <1>1 DEF Tally, Busy
  <2>3. f \in [I -> Nat] /\ g \in [I -> Nat] /\ c \in I
    <3>1. completed \in [Users -> [Services -> Nat]] /\ completed' \in [Users -> [Services -> Nat]]
      BY <1>0, <1>8 DEF UsersTyped
    <3> QED BY <3>1 DEF Done
  <2>4. g = [f EXCEPT ![c] = f[c] + 1]
    <3>1. ASSUME NEW x \in I PROVE g[x] = IF x = c THEN f[x] + 1 ELSE f[x]
      <4>1. completed'[v][s] = completed[v][s] + 1
        BY <1>0, <1>8 DEF UsersTyped
      <4>2. ~(x[1] = v /\ x[2] = s) => completed'[x[1]][x[2]] = completed[x[1]][x[2]]
        BY <1>0, <1>8 DEF UsersTyped
      <4>3. x = c <=> x[1] = v /\ x[2] = s
        OBVIOUS
      <4>4. f[x] = completed[x[1]][x[2]] /\ g[x] = completed'[x[1]][x[2]]
        BY DEF Done
      <4> QED BY <4>1, <4>2, <4>3, <4>4
    <3> HIDE DEF f, g, I, c
    <3> QED BY <2>3, <3>1
  <2>5. IsFiniteSet(I)
    BY ProcessesAssumption, FS_Product
  <2>6. /\ Cardinality(Tally(I, f)) \in Nat
        /\ Cardinality(Tally(I, g)) = Cardinality(Tally(I, f)) + 1
    <3> HIDE DEF f, g, I, c
    <3> QED BY <2>3, <2>4, <2>5, TallyGrows
  <2>7. Tally(I, g) = Tally(Users \X Services, Done)'
    BY DEF Tally
  <2>8. Cardinality(Tally(Workers, delivered)) =
          Cardinality(Tally(I, f)) + N(Answers) + Cardinality(Busy)
    BY DEF ErrandInv, CountInv
  <2>9. N(Answers) \in Nat /\ Cardinality(Busy) \in Nat
    <3>1. IsFiniteSet(Busy)
      BY ProcessesAssumption, FS_Subset DEF Busy
    <3> QED BY <1>0, <3>1, NIs, FS_CardinalityType
  <2>10. Cardinality(Tally(Workers, delivered))' =
           Cardinality(Tally(I, g)) + N(Answers)' + Cardinality(Busy)'
    <3> HIDE DEF f, g, I, c
    <3> QED BY <2>1, <2>2, <2>6, <2>8, <2>9
  <2> QED BY <2>7, <2>10 DEF CountInv
<1>13. FailInv'
  <2> SUFFICES ASSUME NEW u \in visitors', NEW t \in Services
               PROVE  rem'[u][t] = Cardinality(Awaited(u, t))' + N(Calls(u, t))' + Seeks(u, t)'
    BY DEF FailInv
  <2>1. /\ rem[u][t] = Cardinality(Awaited(u, t)) + N(Calls(u, t)) + Seeks(u, t)
        /\ Awaited(u, t)' = Awaited(u, t) /\ u \in Users
    BY <1>0, <1>1 DEF ErrandInv, FailInv, Awaited, UsersTyped
  <2>2. N(Calls(u, t))' = N(Calls(u, t))
    <3>1. <<v, m>> \notin Calls(u, t)
      BY <1>3 DEF Calls
    <3> QED BY <1>5, <3>1 DEF Leaves
  <2>3. Cardinality(Awaited(u, t)) \in Nat /\ N(Calls(u, t)) \in Nat
    BY <1>0, AwaitedFinite, NIs
  <2>4. CASE u = v /\ t = s
    <3>1. Seeks(u, t) = 1 /\ Seeks(u, t)' = 0
      BY <1>4, <1>7, <1>9, <2>4 DEF Seeks
    <3> QED BY <1>9, <2>1, <2>2, <2>3, <2>4, <3>1
  <2>5. CASE ~(u = v /\ t = s)
    <3>1. Seeks(u, t)' = Seeks(u, t)
      BY <1>1, <1>4, <1>7, <1>9, <2>1, <2>5 DEF Seeks
    <3>2. rem'[u][t] = rem[u][t]
      BY <1>9, <2>1, <2>5
    <3> QED BY <2>1, <2>2, <3>1, <3>2
  <2> QED BY <2>4, <2>5
<1> QED BY <1>10, <1>11, <1>12, <1>13 DEF ErrandInv

(* A step that moves the errand of one user from a queue to a hand or back   *)
(* leaves what is said of everybody's errands as it is.                      *)
LEMMA OneMoved ==
  ASSUME OfficeInv, ErrandInv, Next, ~NewDay, UNCHANGED <<filter, refused>>,
         \A u \in Users : W(u)' = W(u)
  PROVE  OneInv'
<1> SUFFICES ASSUME NEW u \in Users, at'[u] = "core" PROVE W(u)' = Carried(u)'
  BY DEF OneInv
<1> QED BY OneKept

LEMMA WantKept ==
  ASSUME ErrandInv, UNCHANGED <<filter, wanted, refused>>
  PROVE  WantInv'
BY DEF ErrandInv, WantInv

(* The dispenser reads what is asked of it.                                  *)
LEMMA ErrandRequest ==
  ASSUME OfficeInv, ErrandInv, Next, ~NewDay, TicketReq(Dispenser)
  PROVE  ErrandInv'
<1> USE ProcessesDiffer
<1>0. Typed /\ Typed' /\ DeskInv
  BY DayStep DEF OfficeInv
<1>2. UNCHANGED <<filter, wanted, rem, completed, visitors, refused, serving, delivered, agenda>>
  BY DEF TicketReq, userVars, workerVars, clockVars
<1>3. PICK d \in Receivers : d = Dispenser
  OBVIOUS
<1>4. Gets(d, "TICKET_REQ") /\ mail' = Without(d, "TICKET_REQ") /\ request' = Msg(d, "TICKET_REQ")
  BY <1>3 DEF TicketReq, Receive, Received
<1>5. PICK k \in Nat, m \in Message :
        /\ k \in 1..Len(mail[d]) /\ m = mail[d][k] /\ m.type = "TICKET_REQ" /\ at[d] = "core"
        /\ request' = m /\ mail' = Taken(mail, d, k)
  BY <1>0, <1>4, Reading
<1>6. m \in Requests /\ m # None
  BY <1>5, MessageKinds
<1>7. request = None
  BY <1>0, <1>3, <1>5 DEF DeskInv
<1>8. Leaves(<<d, m>>)
  BY <1>0, <1>5, ItLeaves
<1>9. OneInv'
  <2> SUFFICES ASSUME NEW u \in Users PROVE W(u)' = W(u)
    BY <1>2, OneMoved
  <2>1. \A q \in Receivers \ {d} : InHand(q)' = InHand(q)
    BY <1>2, <1>3 DEF InHand
  <2>2. InHand(d) = None /\ InHand(d)' = m
    BY <1>3, <1>5, <1>7 DEF InHand
  <2>3. Cardinality(Hands(u))' =
          Cardinality(Hands(u)) - Inside(InHand(d), Of(u)) + Inside(InHand(d)', Of(u))
    BY <1>0, <2>1, HandsChange
  <2>4. InHand(d) \notin Of(u)
    BY <2>2 DEF Of
  <2>5. Cardinality(Hands(u)) \in Nat /\ N(About(u)) \in Nat
    BY <1>0, HandsFinite, NIs
  <2>6. m \in Of(u) <=> m.user = u
    BY <1>6 DEF Of
  <2>7. <<d, m>> \in About(u) <=> m.user = u
    BY <1>5, KindOf
  <2>8. CASE m.user = u
    <3>1. N(About(u))' = N(About(u)) - 1
      BY <1>8, <2>7, <2>8 DEF Leaves
    <3>2. Inside(InHand(d), Of(u)) = 0 /\ Inside(InHand(d)', Of(u)) = 1
      BY <2>2, <2>4, <2>6, <2>8 DEF Inside
    <3> QED BY <2>3, <2>5, <3>1, <3>2 DEF W
  <2>9. CASE m.user # u
    <3>1. N(About(u))' = N(About(u))
      BY <1>8, <2>7, <2>9 DEF Leaves
    <3>2. Inside(InHand(d), Of(u)) = 0 /\ Inside(InHand(d)', Of(u)) = 0
      BY <2>2, <2>4, <2>6, <2>9 DEF Inside
    <3> QED BY <2>3, <2>5, <3>1, <3>2 DEF W
  <2> QED BY <2>8, <2>9
<1>10. CountInv'
  <2>1. <<d, m>> \notin Answers
    BY <1>5 DEF Answers
  <2>2. N(Answers)' = N(Answers)
    BY <1>8, <2>1 DEF Leaves
  <2> QED BY <1>2, <2>2, CountKept
<1>11. FailInv'
  <2>1. \A u \in visitors, s \in Services : <<d, m>> \notin Calls(u, s)
    BY <1>5 DEF Calls
  <2>2. \A u \in visitors, s \in Services : N(Calls(u, s))' = N(Calls(u, s))
    BY <1>8, <2>1 DEF Leaves
  <2> QED BY <1>2, <2>2, FailKept
<1> QED BY <1>2, <1>9, <1>10, <1>11, WantKept DEF ErrandInv

(* The dispenser sends the ticket.                                           *)
LEMMA ErrandSendsTicket ==
  ASSUME OfficeInv, ErrandInv, Next, ~NewDay, SendTicketResp(Dispenser)
  PROVE  ErrandInv'
<1> USE ProcessesDiffer
<1>0. Typed /\ Typed' /\ DeskInv /\ DeskTyped
  BY DayStep DEF OfficeInv, Typed
<1>2. UNCHANGED <<filter, wanted, rem, completed, visitors, refused, serving, delivered, agenda>>
  BY DEF SendTicketResp, userVars, workerVars, clockVars
<1>3. PICK d \in Receivers : d = Dispenser
  OBVIOUS
<1>4. /\ at[d] = "answer" /\ request' = None
      /\ mail' = Put(mail, request.user,
                     [type |-> "TICKET_RESP", serv |-> request.serv, card |-> card])
  BY <1>3 DEF SendTicketResp, Send, Put
<1>5. request \in Requests /\ (card = NoCard \/ Named(card, request.serv))
  BY <1>0, <1>3, <1>4 DEF DeskInv, DeskTyped
<1>6. PICK v \in Users, x \in Message :
        /\ v = request.user /\ x.type = "TICKET_RESP" /\ mail' = Put(mail, v, x)
  <2>1. request.user \in Users /\ request.serv \in Services
    BY <1>5 DEF Requests
  <2>2. card \in {NoCard} \cup [seat : Table, msg : Workers, sem : Workers]
    BY <1>5 DEF Named
  <2>3. [type |-> "TICKET_RESP", serv |-> request.serv, card |-> card] \in Message
    BY <2>1, <2>2, Messages
  <2> QED BY <1>4, <2>1, <2>3
<1>8. Comes(<<v, x>>)
  BY <1>0, <1>6, ItComes
<1>9. OneInv'
  <2> SUFFICES ASSUME NEW u \in Users PROVE W(u)' = W(u)
    BY <1>2, OneMoved
  <2>1. \A q \in Receivers \ {d} : InHand(q)' = InHand(q)
    BY <1>2, <1>3 DEF InHand
  <2>2. InHand(d) = request /\ InHand(d)' = None
    BY <1>3, <1>4 DEF InHand
  <2>3. Cardinality(Hands(u))' =
          Cardinality(Hands(u)) - Inside(InHand(d), Of(u)) + Inside(InHand(d)', Of(u))
    BY <1>0, <2>1, HandsChange
  <2>4. InHand(d)' \notin Of(u)
    BY <2>2 DEF Of
  <2>5. Cardinality(Hands(u)) \in Nat /\ N(About(u)) \in Nat
    BY <1>0, HandsFinite, NIs
  <2>6. request \in Of(u) <=> v = u
    BY <1>5, <1>6 DEF Of
  <2>7. <<v, x>> \in About(u) <=> v = u
    BY <1>6, KindOf
  <2>8. CASE v = u
    <3>1. N(About(u))' = N(About(u)) + 1
      BY <1>8, <2>7, <2>8 DEF Comes
    <3>2. Inside(InHand(d), Of(u)) = 1 /\ Inside(InHand(d)', Of(u)) = 0
      BY <2>2, <2>4, <2>6, <2>8 DEF Inside
    <3> QED BY <2>3, <2>5, <3>1, <3>2 DEF W
  <2>9. CASE v # u
    <3>1. N(About(u))' = N(About(u))
      BY <1>8, <2>7, <2>9 DEF Comes
    <3>2. Inside(InHand(d), Of(u)) = 0 /\ Inside(InHand(d)', Of(u)) = 0
      BY <2>2, <2>4, <2>6, <2>9 DEF Inside
    <3> QED BY <2>3, <2>5, <3>1, <3>2 DEF W
  <2> QED BY <2>8, <2>9
<1>10. CountInv'
  <2>1. <<v, x>> \notin Answers
    BY <1>6 DEF Answers
  <2>2. N(Answers)' = N(Answers)
    BY <1>8, <2>1 DEF Comes
  <2> QED BY <1>2, <2>2, CountKept
<1>11. FailInv'
  <2>1. \A u \in visitors, s \in Services : <<v, x>> \notin Calls(u, s)
    BY <1>6 DEF Calls
  <2>2. \A u \in visitors, s \in Services : N(Calls(u, s))' = N(Calls(u, s))
    BY <1>8, <2>1 DEF Comes
  <2> QED BY <1>2, <2>2, FailKept
<1> QED BY <1>2, <1>9, <1>10, <1>11, WantKept DEF ErrandInv

LEMMA BusyFinite == IsFiniteSet(Busy) /\ Cardinality(Busy) \in Nat
<1>1. IsFiniteSet(Busy)
  BY ProcessesAssumption, FS_Subset DEF Busy
<1> QED BY <1>1, FS_CardinalityType

LEMMA TalliesAreFinite ==
  ASSUME Typed
  PROVE  Cardinality(Tally(Users \X Services, Done)) \in Nat
<1> DEFINE I == Users \X Services
<1>1. IsFiniteSet(I)
  BY ProcessesAssumption, FS_Product
<1>2. Done \in [I -> Nat]
  BY DEF Done, Typed, UsersTyped
<1>3. CASE I = {}
  <2>1. Tally(I, Done) = {}
    BY <1>3 DEF Tally
  <2> QED BY <2>1, FS_EmptySet
<1>4. CASE I # {}
  <2>1. PICK k \in I : TRUE
    BY <1>4
  <2> DEFINE f == Done
             g == [f EXCEPT ![k] = f[k] + 1]
  <2>2. f \in [I -> Nat] /\ g \in [I -> Nat]
    BY <1>2
  <2> HIDE DEF I, f
  <2>3. Cardinality(Tally(I, f)) \in Nat
    BY <1>1, <2>2, TallyGrows
  <2> QED BY <2>3 DEF I, f
<1> QED BY <1>3, <1>4

LEMMA DeliveredGrows ==
  ASSUME NEW f \in [Workers -> Nat], NEW w \in Workers,
         NEW h \in [Workers -> Nat], h = [f EXCEPT ![w] = f[w] + 1]
  PROVE  /\ Cardinality(Tally(Workers, f)) \in Nat
         /\ Cardinality(Tally(Workers, h)) = Cardinality(Tally(Workers, f)) + 1
<1>1. IsFiniteSet(Workers)
  BY ProcessesAssumption
<1>2. Cardinality(Tally(Workers, h)) = Cardinality(Tally(Workers, f)) + 1
  BY <1>1, TallyGrows
<1>3. Cardinality(Tally(Workers, f)) \in Nat
  BY <1>1, TallyGrows
<1> QED BY <1>2, <1>3

(* A worker begins the service of a user, from its own queue or a colleague's. *)
LEMMA ErrandBegun ==
  ASSUME OfficeInv, ErrandInv, Next, ~NewDay, NEW w \in Workers, serving[w] = None,
         NEW p \in Receivers, NEW k \in 1..Len(mail[p]), NEW m \in Requests, m = mail[p][k],
         m.type = "SERVICE_REQ", mail' = Taken(mail, p, k),
         serving' = [serving EXCEPT ![w] = m],
         delivered' = [delivered EXCEPT ![w] = @ + 1],
         UNCHANGED <<userVars, deskVars, clockVars>>
  PROVE  ErrandInv'
<1> USE ProcessesDiffer
<1>0. Typed /\ Typed' /\ WorkersTyped
  BY DayStep DEF OfficeInv, Typed
<1>2. UNCHANGED <<filter, wanted, rem, completed, visitors, refused, request, agenda>>
  BY DEF userVars, deskVars, clockVars
<1>3. m \in Message /\ w \in Receivers
  BY DEF Requests, Message
<1>8. Leaves(<<p, m>>)
  BY <1>0, ItLeaves
<1>9. OneInv'
  <2> SUFFICES ASSUME NEW u \in Users PROVE W(u)' = W(u)
    BY <1>2, OneMoved
  <2>1. \A q \in Receivers \ {w} : InHand(q)' = InHand(q)
    BY <1>0, <1>2 DEF InHand, WorkersTyped
  <2>2. InHand(w) = None /\ InHand(w)' = m
    BY <1>0 DEF InHand, WorkersTyped
  <2>3. Cardinality(Hands(u))' =
          Cardinality(Hands(u)) - Inside(InHand(w), Of(u)) + Inside(InHand(w)', Of(u))
    BY <1>0, <1>3, <2>1, HandsChange
  <2>4. InHand(w) \notin Of(u)
    BY <2>2 DEF Of
  <2>5. Cardinality(Hands(u)) \in Nat /\ N(About(u)) \in Nat
    BY <1>0, HandsFinite, NIs
  <2>6. m \in Of(u) <=> m.user = u
    BY DEF Of
  <2>7. <<p, m>> \in About(u) <=> m.user = u
    BY <1>3, KindOf
  <2>8. CASE m.user = u
    <3>1. N(About(u))' = N(About(u)) - 1
      BY <1>8, <2>7, <2>8 DEF Leaves
    <3>2. Inside(InHand(w), Of(u)) = 0 /\ Inside(InHand(w)', Of(u)) = 1
      BY <2>2, <2>4, <2>6, <2>8 DEF Inside
    <3> QED BY <2>3, <2>5, <3>1, <3>2 DEF W
  <2>9. CASE m.user # u
    <3>1. N(About(u))' = N(About(u))
      BY <1>8, <2>7, <2>9 DEF Leaves
    <3>2. Inside(InHand(w), Of(u)) = 0 /\ Inside(InHand(w)', Of(u)) = 0
      BY <2>2, <2>4, <2>6, <2>9 DEF Inside
    <3> QED BY <2>3, <2>5, <3>1, <3>2 DEF W
  <2> QED BY <2>8, <2>9
<1>10. CountInv'
  <2>1. <<p, m>> \notin Answers
    BY DEF Answers
  <2>2. N(Answers)' = N(Answers) /\ N(Answers) \in Nat
    BY <1>0, <1>8, <2>1, NIs DEF Leaves
  <2>3. Tally(Users \X Services, Done)' = Tally(Users \X Services, Done)
    BY <1>2 DEF Tally, Done
  <2>4. Busy' = Busy \cup {w} /\ w \notin Busy
    BY <1>0 DEF Busy, WorkersTyped
  <2>5. Cardinality(Busy') = Cardinality(Busy) + 1
    <3> DEFINE B == Busy
    <3>1. Cardinality(B \cup {w}) = Cardinality(B) + 1
      <4>1. IsFiniteSet(B) /\ w \notin B
        BY <2>4, BusyFinite
      <4> HIDE DEF B
      <4> QED BY <4>1, FS_AddElement
    <3> QED BY <2>4, <3>1
  <2>6. delivered \in [Workers -> Nat] /\ delivered' \in [Workers -> Nat]
        /\ delivered' = [delivered EXCEPT ![w] = delivered[w] + 1]
    BY <1>0 DEF WorkersTyped
  <2>7. /\ Cardinality(Tally(Workers, delivered)) \in Nat
        /\ Cardinality(Tally(Workers, delivered')) = Cardinality(Tally(Workers, delivered)) + 1
    BY <2>6, DeliveredGrows
  <2>8. Tally(Workers, delivered') = Tally(Workers, delivered)'
    BY DEF Tally
  <2>9. Cardinality(Tally(Workers, delivered)) =
          Cardinality(Tally(Users \X Services, Done)) + N(Answers) + Cardinality(Busy)
    BY DEF ErrandInv, CountInv
  <2>10. Cardinality(Tally(Users \X Services, Done)) \in Nat
    BY TalliesAreFinite, <1>0
  <2> QED BY <2>2, <2>3, <2>5, <2>7, <2>8, <2>9, <2>10, BusyFinite DEF CountInv
<1>11. FailInv'
  <2>1. \A u \in visitors, s \in Services : <<p, m>> \notin Calls(u, s)
    BY DEF Calls
  <2>2. \A u \in visitors, s \in Services : N(Calls(u, s))' = N(Calls(u, s))
    BY <1>8, <2>1 DEF Leaves
  <2> QED BY <1>2, <2>2, FailKept
<1> QED BY <1>2, <1>9, <1>10, <1>11, WantKept DEF ErrandInv

(* ... and answers it.                                                       *)
LEMMA ErrandAnswered ==
  ASSUME OfficeInv, ErrandInv, Next, ~NewDay, NEW w \in Workers, SendServiceResp(w)
  PROVE  ErrandInv'
<1> USE ProcessesDiffer
<1>0. Typed /\ Typed' /\ WorkersTyped
  BY DayStep DEF OfficeInv, Typed
<1>2. UNCHANGED <<filter, wanted, rem, completed, visitors, refused, request, agenda, delivered>>
  BY DEF SendServiceResp, userVars, deskVars, clockVars
<1>3. w \in Receivers
  OBVIOUS
<1>4. /\ serving[w] \in Requests /\ serving' = [serving EXCEPT ![w] = None]
      /\ mail' = Put(mail, serving[w].user, [type |-> "SERVICE_RESP"])
  BY <1>0 DEF SendServiceResp, Send, Put, WorkersTyped
<1>6. PICK v \in Users, x \in Message :
        /\ v = serving[w].user /\ x.type = "SERVICE_RESP" /\ mail' = Put(mail, v, x)
  <2>1. serving[w].user \in Users
    BY <1>4 DEF Requests
  <2> QED BY <1>4, <2>1, Messages
<1>8. Comes(<<v, x>>)
  BY <1>0, <1>6, ItComes
<1>9. OneInv'
  <2> SUFFICES ASSUME NEW u \in Users PROVE W(u)' = W(u)
    BY <1>2, OneMoved
  <2>1. \A q \in Receivers \ {w} : InHand(q)' = InHand(q)
    BY <1>0, <1>2, <1>4 DEF InHand, WorkersTyped
  <2>2. InHand(w) = serving[w] /\ InHand(w)' = None
    BY <1>0, <1>4 DEF InHand, WorkersTyped
  <2>3. Cardinality(Hands(u))' =
          Cardinality(Hands(u)) - Inside(InHand(w), Of(u)) + Inside(InHand(w)', Of(u))
    BY <1>0, <1>3, <2>1, HandsChange
  <2>4. InHand(w)' \notin Of(u)
    BY <2>2 DEF Of
  <2>5. Cardinality(Hands(u)) \in Nat /\ N(About(u)) \in Nat
    BY <1>0, HandsFinite, NIs
  <2>6. serving[w] \in Of(u) <=> v = u
    BY <1>4, <1>6 DEF Of
  <2>7. <<v, x>> \in About(u) <=> v = u
    BY <1>6, KindOf
  <2>8. CASE v = u
    <3>1. N(About(u))' = N(About(u)) + 1
      BY <1>8, <2>7, <2>8 DEF Comes
    <3>2. Inside(InHand(w), Of(u)) = 1 /\ Inside(InHand(w)', Of(u)) = 0
      BY <2>2, <2>4, <2>6, <2>8 DEF Inside
    <3> QED BY <2>3, <2>5, <3>1, <3>2 DEF W
  <2>9. CASE v # u
    <3>1. N(About(u))' = N(About(u))
      BY <1>8, <2>7, <2>9 DEF Comes
    <3>2. Inside(InHand(w), Of(u)) = 0 /\ Inside(InHand(w)', Of(u)) = 0
      BY <2>2, <2>4, <2>6, <2>9 DEF Inside
    <3> QED BY <2>3, <2>5, <3>1, <3>2 DEF W
  <2> QED BY <2>8, <2>9
<1>10. CountInv'
  <2>1. <<v, x>> \in Answers
    BY <1>6 DEF Answers
  <2>2. N(Answers)' = N(Answers) + 1 /\ N(Answers) \in Nat
    BY <1>0, <1>8, <2>1, NIs DEF Comes
  <2>3. /\ Tally(Users \X Services, Done)' = Tally(Users \X Services, Done)
        /\ Tally(Workers, delivered)' = Tally(Workers, delivered)
    BY <1>2 DEF Tally, Done
  <2>4. Busy' = Busy \ {w} /\ w \in Busy
    BY <1>0, <1>4 DEF Busy, WorkersTyped
  <2>5. Cardinality(Busy') = Cardinality(Busy) - 1
    <3> DEFINE B == Busy
    <3>1. Cardinality(B \ {w}) = Cardinality(B) - 1
      <4>1. IsFiniteSet(B) /\ w \in B
        BY <2>4, BusyFinite
      <4> HIDE DEF B
      <4> QED BY <4>1, FS_RemoveElement
    <3> QED BY <2>4, <3>1
  <2>9. Cardinality(Tally(Workers, delivered)) =
          Cardinality(Tally(Users \X Services, Done)) + N(Answers) + Cardinality(Busy)
    BY DEF ErrandInv, CountInv
  <2>10. Cardinality(Tally(Users \X Services, Done)) \in Nat
    BY TalliesAreFinite, <1>0
  <2> QED BY <2>2, <2>3, <2>5, <2>9, <2>10, BusyFinite DEF CountInv
<1>11. FailInv'
  <2>1. \A u \in visitors, s \in Services : <<v, x>> \notin Calls(u, s)
    BY <1>6 DEF Calls
  <2>2. \A u \in visitors, s \in Services : N(Calls(u, s))' = N(Calls(u, s))
    BY <1>8, <2>1 DEF Comes
  <2> QED BY <1>2, <2>2, FailKept
<1> QED BY <1>2, <1>9, <1>10, <1>11, WantKept DEF ErrandInv

LEMMA ErrandService ==
  ASSUME OfficeInv, ErrandInv, Next, ~NewDay, NEW w \in Workers,
         WorkerServiceReq(w) \/ (CollectPaused(w) /\ Has(source[w], "SERVICE_REQ"))
  PROVE  ErrandInv'
<1>0. Typed /\ WorkersTyped /\ WorkerInv
  BY DEF OfficeInv, Typed
<1>1. CASE WorkerServiceReq(w)
  <2>1. Gets(w, "SERVICE_REQ") /\ mail' = Without(w, "SERVICE_REQ")
    BY <1>1 DEF WorkerServiceReq, Receive, Received
  <2>2. w \in Receivers
    BY ProcessesDiffer
  <2>3. PICK k \in Nat, m \in Message :
          /\ k \in 1..Len(mail[w]) /\ m = mail[w][k] /\ m.type = "SERVICE_REQ"
          /\ Msg(w, "SERVICE_REQ") = m /\ mail' = Taken(mail, w, k)
    BY <1>0, <2>1, <2>2, Reading
  <2>4. m \in Requests /\ m.serv = ServiceOf[w]
    BY <1>1, <2>3, AskedHere
  <2>5. serving[w] = None
    BY <1>0, <2>1, <2>2, Getting
  <2>6. /\ serving' = [serving EXCEPT ![w] = m]
        /\ delivered' = [delivered EXCEPT ![w] = @ + 1]
    BY <1>1, <2>3, <2>4 DEF WorkerServiceReq, Provide
  <2>7. UNCHANGED <<userVars, deskVars, clockVars>>
    BY <1>1 DEF WorkerServiceReq
  <2> QED BY <2>2, <2>3, <2>4, <2>5, <2>6, <2>7, ErrandBegun
<1>2. CASE CollectPaused(w) /\ Has(source[w], "SERVICE_REQ")
  <2>1. PICK p \in Receivers : p = source[w] /\ Has(p, "SERVICE_REQ")
    BY <1>2, AskedHere, ProcessesDiffer
  <2>2. PICK k \in Nat, m \in Message :
          /\ k \in 1..Len(mail[p]) /\ m = mail[p][k] /\ m.type = "SERVICE_REQ"
          /\ Msg(p, "SERVICE_REQ") = m /\ Without(p, "SERVICE_REQ") = Taken(mail, p, k)
    <3>1. /\ First(p, "SERVICE_REQ") \in 1..Len(mail[p])
          /\ First(p, "SERVICE_REQ") \in Nat
          /\ Msg(p, "SERVICE_REQ") = mail[p][First(p, "SERVICE_REQ")]
          /\ Msg(p, "SERVICE_REQ") \in Message /\ Msg(p, "SERVICE_REQ").type = "SERVICE_REQ"
          /\ Without(p, "SERVICE_REQ") = Taken(mail, p, First(p, "SERVICE_REQ"))
      BY <1>0, <2>1, Finding
    <3> QED BY <3>1
  <2>3. m \in Requests /\ m.serv = ServiceOf[w]
    BY <1>2, <2>1, <2>2, AskedHere
  <2>4. serving[w] = None
    BY <1>0, <1>2 DEF WorkerInv, CollectPaused
  <2>5. /\ mail' = Taken(mail, p, k)
        /\ serving' = [serving EXCEPT ![w] = m]
        /\ delivered' = [delivered EXCEPT ![w] = @ + 1]
    BY <1>2, <2>1, <2>2, <2>3 DEF CollectPaused, Provide
  <2>6. UNCHANGED <<userVars, deskVars, clockVars>>
    BY <1>2 DEF CollectPaused
  <2> QED BY <2>2, <2>3, <2>4, <2>5, <2>6, ErrandBegun
<1> QED BY <1>1, <1>2

(* A step of the day keeps what is said of the errands.                      *)
LEMMA ErrandStep ==
  ASSUME OfficeInv, ErrandInv, Next, ~NewDay
  PROVE  ErrandInv'
<1>1. CASE ~Errand
  BY <1>1, ErrandQuiet
<1>2. CASE SendUserNotific
  BY <1>2, ErrandCall
<1>3. CASE TicketReq(Dispenser)
  BY <1>3, ErrandRequest
<1>4. CASE SendTicketResp(Dispenser)
  BY <1>4, ErrandSendsTicket
<1>5. ASSUME NEW u \in Users, UserStep(u) PROVE ErrandInv'
  BY <1>5, ErrandAsks, ErrandTicket, ErrandDone DEF UserStep
<1>6. ASSUME NEW w \in Workers, WorkerServiceReq(w) \/ (CollectPaused(w) /\ Has(source[w], "SERVICE_REQ"))
      PROVE  ErrandInv'
  BY <1>6, ErrandService
<1>7. ASSUME NEW w \in Workers, SendServiceResp(w) PROVE ErrandInv'
  BY <1>7, ErrandAnswered
<1>8. CASE \E u \in Users : UserStep(u)
  BY <1>5, <1>8
<1>9. CASE \E w \in Workers : \/ WorkerServiceReq(w) \/ SendServiceResp(w)
                              \/ CollectPaused(w) /\ Has(source[w], "SERVICE_REQ")
  <2>1. PICK w \in Workers : \/ WorkerServiceReq(w) \/ SendServiceResp(w)
                             \/ CollectPaused(w) /\ Has(source[w], "SERVICE_REQ")
    BY <1>9
  <2>2. CASE SendServiceResp(w)
    BY <1>7, <2>2
  <2>3. CASE WorkerServiceReq(w)
    BY <1>6, <2>3
  <2>4. CASE CollectPaused(w) /\ Has(source[w], "SERVICE_REQ")
    BY <1>6, <2>4
  <2> QED BY <2>1, <2>2, <2>3, <2>4
<1> QED BY <1>1, <1>2, <1>3, <1>4, <1>8, <1>9 DEF Errand

(* No message, no place for one.                                             *)
LEMMA NEmpty ==
  ASSUME NEW M, \A p \in Receivers : \A i \in 1..Len(mail[p]) : <<p, mail[p][i]>> \notin M
  PROVE  N(M) = 0
<1>1. Spots(mail, M) = {}
  BY DEF Spots
<1> QED BY <1>1, FS_EmptySet DEF N

LEMMA TallyEmpty ==
  ASSUME NEW I, NEW f, \A i \in I : f[i] = 0
  PROVE  Cardinality(Tally(I, f)) = 0
<1>1. Tally(I, f) = {}
  BY DEF Tally
<1> QED BY <1>1, FS_EmptySet

LEMMA HandsEmpty ==
  ASSUME NEW u, request = None, \A w \in Workers : serving[w] = None
  PROVE  Cardinality(Hands(u)) = 0
<1>1. Hands(u) = {}
  BY DEF Hands, InHand
<1> QED BY <1>1, FS_EmptySet

LEMMA BusyEmpty ==
  ASSUME \A w \in Workers : serving[w] = None
  PROVE  Cardinality(Busy) = 0
<1>1. Busy = {}
  BY DEF Busy
<1> QED BY <1>1, FS_EmptySet

(* In the morning a user has as many appointments as it wishes.              *)
LEMMA AsManyAsWished ==
  ASSUME NEW plan \in [Users -> Plans], SetupClockNotifc(plan), NEW u \in visitors',
         NEW s \in Services
  PROVE  Cardinality({e \in agenda' : e.user = u /\ e.serv = s}) = Wishes(plan[u].list, s)
<1>0. /\ visitors' = {v \in Users : plan[v] # StayHome}
      /\ agenda' = UNION {Appointments(v, plan[v].list, plan[v].time) : v \in visitors'}
  BY DEF SetupClockNotifc
<1>1. plan[u].list \in Requested /\ plan[u].time \in Times /\ u \in Users
  BY <1>0 DEF Plans
<1>2. PICK list \in Seq(Services), time \in Times : list = plan[u].list /\ time = plan[u].time
  BY <1>1, OfficeAssumption
<1> DEFINE t == CalcTimes(list, time)
           mk(i) == [user |-> u, nr |-> i, serv |-> list[i], time |-> t[i]]
           A == {i \in DOMAIN list : list[i] = s}
           B == {e \in agenda' : e.user = u /\ e.serv = s}
           f == [i \in A |-> mk(i)]
<1>3. \A v \in visitors' : \A e \in Appointments(v, plan[v].list, plan[v].time) : e.user = v
  BY DEF Appointments
<1>4. B = {e \in Appointments(u, list, time) : e.serv = s}
  BY <1>0, <1>2, <1>3
<1>5. DOMAIN list = 1..Len(list)
  OBVIOUS
<1>6. Appointments(u, list, time) = {mk(i) : i \in 1..Len(list)}
  BY DEF Appointments
<1>7. f \in Bijection(A, B)
  <2>1. ASSUME NEW i \in A PROVE f[i] \in B
    BY <1>4, <1>5, <1>6
  <2>2. ASSUME NEW i \in A, NEW j \in A, f[i] = f[j] PROVE i = j
    <3>1. f[i].nr = i /\ f[j].nr = j
      OBVIOUS
    <3> QED BY <2>2, <3>1
  <2>3. ASSUME NEW e \in B PROVE \E i \in A : f[i] = e
    <3>1. PICK i \in 1..Len(list) : e = mk(i)
      BY <1>4, <1>6
    <3>2. e.serv = s /\ e.serv = list[i]
      BY <1>4, <3>1
    <3>3. i \in A
      BY <1>5, <3>2
    <3> QED BY <3>1, <3>3
  <2>4. f \in [A -> B]
    BY <2>1
  <2> HIDE DEF f, A, B
  <2>5. f \in Surjection(A, B)
    BY <2>3, <2>4, Fun_IsSurj
  <2>6. f \in Injection(A, B)
    BY <2>2, <2>4, Fun_IsInj
  <2> QED BY <2>5, <2>6 DEF Bijection
<1>8. IsFiniteSet(A)
  <2>1. IsFiniteSet(1..Len(list))
    BY FS_Interval
  <2>2. A \subseteq 1..Len(list)
    BY <1>5
  <2> QED BY <2>1, <2>2, FS_Subset
<1>9. Cardinality(B) = Cardinality(A)
  <2> HIDE DEF f, A, B
  <2>1. ExistsBijection(A, B)
    BY <1>7 DEF ExistsBijection
  <2> QED BY <1>8, <2>1, FS_Bijection
<1> QED BY <1>2, <1>9 DEF Wishes

(* An empty office in the morning.                                           *)
LEMMA NoneLeft ==
  ASSUME mail' = [p \in Receivers |-> <<>>]
  PROVE  \A M : N(M)' = 0
<1> SUFFICES ASSUME NEW M PROVE N(M)' = 0
  OBVIOUS
<1>1. Spots(mail', M) = {}
  BY DEF Spots
<1>2. Cardinality(Spots(mail', M)) = 0
  BY <1>1, FS_EmptySet
<1> QED BY <1>2 DEF N, Spots

LEMMA ErrandNewDay ==
  ASSUME OfficeInv, NewDay
  PROVE  ErrandInv'
<1> USE ProcessesDiffer
<1>0. Typed /\ DeskInv /\ WorkerInv
  BY DEF OfficeInv
<1>1. /\ mail' = [p \in Receivers |-> <<>>]
      /\ filter' = [u \in Users |-> USER_FILTER]
      /\ completed' = [u \in Users |-> [s \in Services |-> 0]]
      /\ refused' = {} /\ delivered' = [w \in Workers |-> 0]
      /\ serving' = serving /\ request' = request
      /\ \A p \in Receivers : at[p] \in {"home", "paused"}
  BY DEF NewDay, ClearMsgQueues, deskVars, AtHome
<1>2. request' = None /\ \A w \in Workers : serving'[w] = None
  BY <1>0, <1>1 DEF DeskInv, WorkerInv
<1>3. \A M : N(M)' = 0
  BY <1>1, NoneLeft
<1>4. OneInv'
  <2> SUFFICES ASSUME NEW u \in Users PROVE W(u)' = Carried(u)'
    BY DEF OneInv
  <2>1. Cardinality(Hands(u))' = 0
    <3>1. Hands(u)' = {}
      BY <1>2 DEF Hands, InHand
    <3> QED BY <3>1, FS_EmptySet
  <2>2. Carried(u)' = 0
    BY <1>1 DEF Carried
  <2> QED BY <1>3, <2>1, <2>2 DEF W
<1>5. WantInv'
  BY <1>1 DEF WantInv
<1>6. CountInv'
  <2>1. Cardinality(Tally(Workers, delivered))' = 0
    <3>1. Tally(Workers, delivered)' = {}
      BY <1>1 DEF Tally
    <3> QED BY <3>1, FS_EmptySet
  <2>2. Cardinality(Tally(Users \X Services, Done))' = 0
    <3>1. Tally(Users \X Services, Done)' = {}
      BY <1>1 DEF Tally, Done
    <3> QED BY <3>1, FS_EmptySet
  <2>3. Cardinality(Busy)' = 0
    <3>1. Busy' = {}
      BY <1>2 DEF Busy
    <3> QED BY <3>1, FS_EmptySet
  <2> QED BY <1>3, <2>1, <2>2, <2>3 DEF CountInv
<1>7. FailInv'
  <2> SUFFICES ASSUME NEW u \in visitors', NEW s \in Services
               PROVE  rem'[u][s] = Cardinality(Awaited(u, s))' + N(Calls(u, s))' + Seeks(u, s)'
    BY DEF FailInv
  <2>1. PICK plan \in [Users -> Plans] : SetupClockNotifc(plan)
    BY DEF NewDay
  <2>2. /\ rem' = [v \in Users |-> IF v \in visitors'
                    THEN [t \in Services |-> Wishes(plan[v].list, t)] ELSE rem[v]]
        /\ u \in Users /\ plan[u].list \in Requested
    BY <2>1 DEF SetupClockNotifc, Plans
  <2>3. rem'[u][s] = Wishes(plan[u].list, s)
    BY <2>2
  <2>4. Cardinality(Awaited(u, s))' = Wishes(plan[u].list, s)
    BY <2>1, AsManyAsWished DEF Awaited
  <2>5. Seeks(u, s)' = 0
    BY <1>1, <2>2 DEF Seeks
  <2>6. Wishes(plan[u].list, s) \in Nat
    BY <2>2, WishesTyped
  <2> QED BY <1>3, <2>3, <2>4, <2>5, <2>6
<1> QED BY <1>4, <1>5, <1>6, <1>7 DEF ErrandInv

LEMMA ErrandInit == Init => ErrandInv
<1> SUFFICES ASSUME Init PROVE ErrandInv
  OBVIOUS
<1> USE ProcessesDiffer
<1>1. /\ filter = [u \in Users |-> USER_FILTER] /\ refused = {} /\ visitors = {}
      /\ completed = [u \in Users |-> [s \in Services |-> 0]]
      /\ delivered = [w \in Workers |-> 0] /\ serving = [w \in Workers |-> None]
      /\ at = [p \in Receivers |-> "home"]
  BY DEF Init
<1>2. OneInv /\ WantInv /\ FailInv
  BY <1>1 DEF OneInv, WantInv, FailInv
<1>3. N(Answers) = 0
  <2>1. ASSUME NEW p \in Receivers, NEW i \in 1..Len(mail[p]) PROVE <<p, mail[p][i]>> \notin Answers
    <3>1. PICK l : mail[p] = <<>> \/ mail[p] = <<l>>
      BY DEF Init
    <3>2. mail[p] # <<>> => mail[p][1] \in Left(p)
      BY DEF Init
    <3>3. mail[p][i] \in Left(p)
      BY <3>1, <3>2
    <3>4. \A m \in Left(p) : m.type \in {"CLOCK_NOTIFC", "SEAT_FREE", "TICKET_REQ"}
      BY DEF Left
    <3>5. mail[p][i].type # "SERVICE_RESP"
      BY <3>3, <3>4
    <3> QED BY <3>5 DEF Answers
  <2> QED BY <2>1, NEmpty
<1>4. CountInv
  <2>1. Cardinality(Tally(Workers, delivered)) = 0
    BY <1>1, TallyEmpty
  <2>2. Cardinality(Tally(Users \X Services, Done)) = 0
    BY <1>1, TallyEmpty DEF Done
  <2>3. Cardinality(Busy) = 0
    BY <1>1, BusyEmpty
  <2> QED BY <1>3, <2>1, <2>2, <2>3 DEF CountInv
<1> QED BY <1>2, <1>4 DEF ErrandInv

LEMMA ErrandHolds == Spec => [](OfficeInv /\ ErrandInv)
<1>1. OfficeInv /\ ErrandInv /\ [Next]_vars => ErrandInv'
  <2> SUFFICES ASSUME OfficeInv, ErrandInv, [Next]_vars PROVE ErrandInv'
    OBVIOUS
  <2>1. CASE NewDay
    BY <2>1, ErrandNewDay
  <2>2. CASE Next /\ ~NewDay
    BY <2>2, ErrandStep
  <2>3. CASE UNCHANGED vars
    <3> USE <2>3 DEF vars, mailVars, userVars, workerVars, deskVars, clockVars
    <3>1. OneInv'
      BY DEF ErrandInv, OneInv, W, N, Spots, Hands, InHand, Carried
    <3>2. WantInv'
      BY DEF ErrandInv, WantInv
    <3>3. CountInv'
      <4>1. N(Answers)' = N(Answers)
        BY NSame
      <4> QED BY <4>1, CountKept
    <3>4. FailInv'
      <4>1. \A u \in visitors, s \in Services : N(Calls(u, s))' = N(Calls(u, s))
        BY NSame
      <4> QED BY <4>1, FailKept
    <3> QED BY <3>1, <3>2, <3>3, <3>4 DEF ErrandInv
  <2> QED BY <2>1, <2>2, <2>3
<1> QED BY <1>1, ErrandInit, OfficeInvHolds, PTL DEF Spec

(* A user between its appointment and the service has exactly one message or  *)
(* process that carries its request (user_main.c core(), worker.c            *)
(* prov_serv_paused_worker): OneErrandEach, for any office.                  *)
THEOREM EverybodyOnOneErrand == Spec => []OneErrandEach
<1>1. OfficeInv /\ ErrandInv => OneErrandEach
  <2> SUFFICES ASSUME OfficeInv, ErrandInv, NEW u \in Users, at[u] = "core"
               PROVE  Cardinality(Carriers(u)) =
                        IF filter[u] = USER_FILTER \/ u \in refused THEN 0 ELSE 1
    BY DEF OneErrandEach
  <2>1. W(u) = Carried(u)
    BY DEF ErrandInv, OneInv
  <2>2. Cardinality(Carriers(u)) = W(u)
    BY CarriersCount DEF OfficeInv
  <2> QED BY <2>1, <2>2 DEF Carried
<1> QED BY <1>1, ErrandHolds, PTL

LEMMA PlacesOf ==
  ASSUME Typed
  PROVE  /\ {c \in Mails : At(c).type = "SERVICE_RESP"} = Spots(mail, Answers)
         /\ \A u \in Users, s \in Services : Unheard(u, s) = Spots(mail, Calls(u, s))
<1>0. mail \in MailTypes
  BY DEF Typed, BoxesTyped
<1>1. \A c : c \in Mails <=> c \in Receivers \X Nat /\ c[2] \in 1..Len(mail[c[1]])
  BY <1>0 DEF Mails, MailTypes
<1>2. \A c \in Mails : c[1] \in Receivers /\ At(c) = mail[c[1]][c[2]] /\ At(c) \in Message
  BY <1>0, <1>1 DEF At, MailTypes
<1>3. \A c, M : c \in Spots(mail, M) <=> c \in Mails /\ <<c[1], At(c)>> \in M
  BY <1>1, <1>2 DEF Spots
<1>4. {c \in Mails : At(c).type = "SERVICE_RESP"} = Spots(mail, Answers)
  <2>1. \A c \in Mails : <<c[1], At(c)>> \in Answers <=> At(c).type = "SERVICE_RESP"
    BY <1>2, KindOf
  <2> QED BY <1>3, <2>1
<1>5. ASSUME NEW u \in Users, NEW s \in Services
      PROVE  Unheard(u, s) = Spots(mail, Calls(u, s))
  <2>1. \A c \in Mails : <<c[1], At(c)>> \in Calls(u, s) <=>
                           c[1] = u /\ At(c).type = "CLOCK_NOTIFC" /\ At(c).serv = s
    BY <1>2, KindOf
  <2> QED BY <1>3, <2>1 DEF Unheard
<1> QED BY <1>4, <1>5

(* The services the workers have begun are those the users have completed,   *)
(* those whose answer is on its way and those in hand (worker.c             *)
(* provide_service, user.c): CompletionsMatchDeliveries, for any office.    *)
THEOREM NoServiceIsLost == Spec => []CompletionsMatchDeliveries
<1>1. OfficeInv /\ ErrandInv => CompletionsMatchDeliveries
  <2> SUFFICES ASSUME OfficeInv, ErrandInv PROVE CompletionsMatchDeliveries
    OBVIOUS
  <2>1. Begun = Tally(Workers, delivered)
    BY DEF Begun, Tally
  <2>2. Completed = Tally(Users \X Services, Done)
    <3>1. \A x \in Users \X Services : Done[x] = completed[x[1]][x[2]]
      BY DEF Done
    <3> QED BY <3>1 DEF Completed, Tally
  <2>3. {c \in Mails : At(c).type = "SERVICE_RESP"} = Spots(mail, Answers)
    BY PlacesOf DEF OfficeInv
  <2>4. {w \in Workers : serving[w] # None} = Busy
    BY DEF Busy
  <2> QED BY <2>1, <2>2, <2>3, <2>4 DEF ErrandInv, CountInv, CompletionsMatchDeliveries, N
<1> QED BY <1>1, ErrandHolds, PTL

(* rem_serv_req (user.c) holds exactly what a visitor asked for today and has *)
(* not received: FailuresAreUnserved, for any office.                        *)
THEOREM WhatFailsIsUnserved == Spec => []FailuresAreUnserved
<1>1. OfficeInv /\ ErrandInv => FailuresAreUnserved
  <2> SUFFICES ASSUME OfficeInv, ErrandInv, NEW u \in visitors, NEW s \in Services
               PROVE  rem[u][s] = Cardinality({e \in agenda : e.user = u /\ e.serv = s})
                        + Cardinality(Unheard(u, s))
                        + (IF filter[u] # USER_FILTER /\ wanted[u] = s THEN 1 ELSE 0)
    BY DEF FailuresAreUnserved
  <2>1. u \in Users
    BY DEF OfficeInv, Typed, UsersTyped
  <2>2. Unheard(u, s) = Spots(mail, Calls(u, s))
    BY <2>1, PlacesOf DEF OfficeInv
  <2>3. rem[u][s] = Cardinality(Awaited(u, s)) + N(Calls(u, s)) + Seeks(u, s)
    BY DEF ErrandInv, FailInv
  <2> QED BY <2>2, <2>3 DEF Awaited, N, Seeks
<1> QED BY <1>1, ErrandHolds, PTL
=============================================================================
