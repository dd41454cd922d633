---------------------------- MODULE StatsChannel ----------------------------
(***************************************************************************)
(* The statistics of a day on their way from the users and the workers to  *)
(* get_stats of the manager: two bounded message queues, one of metadata,  *)
(* one of data.  A report is announced in the first and delivered in the   *)
(* second, under a message type of its own.                                *)
(*                                                                         *)
(* A sender begins the reports of a day when the day is the manager's      *)
(* (DayBarrier); the explosion is left out.                                *)
(***************************************************************************)
EXTENDS Naturals, Sequences, FiniteSets

CONSTANTS
  NOF_USERS, N_NEW_USERS, NOF_WORKERS, SERV_NUM, SIM_DURATION,
  UserIds,   \* the users of the simulation, those added included
  Sizes,     \* the sizes of a report
  MetaCap,   \* announcements the metadata queue has room for
  DataCap    \* msg_qbytes of the data queue

ASSUME ChannelAssumption ==
  /\ NOF_USERS \in Nat /\ N_NEW_USERS \in Nat /\ NOF_WORKERS \in Nat
  /\ SERV_NUM \in Nat \ {0} /\ SIM_DURATION \in Nat
  /\ UserIds \subseteq 0..(NOF_USERS + N_NEW_USERS - 1)
  /\ Sizes \subseteq Nat /\ MetaCap \in Nat /\ DataCap \in Nat

VARIABLES
  metadata,  \* MSG_STATS_METADATA
  data,      \* MSG_STATS_DATA: reports of distinct types, read by type
  cbytes,    \* bytes in the data queue
  pc,        \* where each sender is
  next,      \* the report each sender is at
  size,      \* size of the report it has announced
  day,       \* days each sender has reported
  mday,      \* day_count of the manager
  awaited,   \* the announcement whose data the manager is reading
  got,       \* reports get_stats has counted
  counted    \* whose reports they were

vars == <<metadata, data, cbytes, pc, next, size, day, mday, awaited, got, counted>>
senders == <<pc, next, size, day>>
manager == <<mday, got, counted>>

UserSenders   == {"user"} \X UserIds
WorkerSenders == {"worker"} \X (0..(NOF_WORKERS - 1))
Senders == UserSenders \cup WorkerSenders

(* A user reports on every service, a worker on his own. *)
NofReports(p) == IF p[1] = "user" THEN SERV_NUM ELSE 1
AllReports == {r \in Senders \X (0..SERV_NUM) : r[2] < NofReports(r[1])}

(* The types of the reports: curr_mtype, curr_stats_id. *)
StatsType(p, i) ==
  IF p[1] = "user" THEN 1 + p[2] * SERV_NUM + i
  ELSE (NOF_USERS + N_NEW_USERS) * (SERV_NUM + 3) + 1 + p[2]

Announcements == [mtype : Nat, kind : {"user", "worker"}, size : Sizes]
NoStats == [mtype |-> 0, kind |-> "none", size |-> 0]
Report(p) == [mtype |-> StatsType(p, next[p]), kind |-> p[1], size |-> size[p],
              from |-> <<p, next[p]>>, day |-> day[p]]

StatsChannelTypeOK ==
  /\ metadata \in Seq(Announcements)
  /\ \A d \in data : d.size \in Sizes /\ d.from \in AllReports /\ d.day \in Nat
  /\ cbytes \in Nat
  /\ pc \in [Senders -> {"metadata", "data", "refused"}]
  /\ \A p \in Senders : next[p] \in 0..(NofReports(p) - 1)
  /\ size \in [Senders -> Sizes \cup {0}]
  /\ day \in [Senders -> 0..SIM_DURATION]
  /\ mday \in 0..SIM_DURATION
  /\ awaited \in Announcements \cup {NoStats}
  /\ got \in Nat /\ counted \subseteq AllReports

Init ==
  /\ metadata = <<>> /\ data = {} /\ cbytes = 0
  /\ pc = [p \in Senders |-> "metadata"]
  /\ next = [p \in Senders |-> 0]
  /\ size = [p \in Senders |-> 0]
  /\ day = [p \in Senders |-> 0]
  /\ mday = 0 /\ awaited = NoStats /\ got = 0 /\ counted = {}

(* msgsnd waits or fails unless the message fits. *)
Mutant_MetadataFits == TRUE   \* the queue keeps the default size
MetadataFits == Len(metadata) < MetaCap
Mutant_DataFits(n) == cbytes + n < DataCap   \* one byte less
DataFits(n) == cbytes + n <= DataCap

----------------------------------------------------------------------------
(* send_user_stats, send_worker_stats *)
SendMetadata(p) ==
  /\ pc[p] = "metadata" /\ day[p] = mday /\ mday < SIM_DURATION
  /\ MetadataFits
  /\ \E n \in Sizes :
       /\ metadata' = Append(metadata,
            [mtype |-> StatsType(p, next[p]), kind |-> p[1], size |-> n])
       /\ size' = [size EXCEPT ![p] = n]
  /\ pc' = [pc EXCEPT ![p] = "data"]
  /\ UNCHANGED <<data, cbytes, next, day, awaited, manager>>

(* IPC_NOWAIT: a user stops when its report does not fit, a worker waits.    *)
Refused(p) ==
  /\ p[1] = "user" /\ ~DataFits(size[p])
  /\ pc' = [pc EXCEPT ![p] = "refused"]
  /\ UNCHANGED <<data, cbytes, next, day>>

Mutant_SendData(p) ==   \* a report too many
  /\ pc[p] = "data"
  /\ \/ /\ DataFits(size[p])
        /\ data' = data \cup {Report(p)}
        /\ cbytes' = cbytes + size[p]
        /\ pc' = [pc EXCEPT ![p] = "metadata"]
        /\ next' = [next EXCEPT ![p] = (@ + 1) % (NofReports(p) + 1)]
        /\ day' = [day EXCEPT ![p] = IF next[p] = NofReports(p) THEN @ + 1 ELSE @]
     \/ Refused(p)
  /\ UNCHANGED <<metadata, size, awaited, manager>>
SendData(p) ==
  /\ pc[p] = "data"
  /\ \/ /\ DataFits(size[p])
        /\ data' = data \cup {Report(p)}
        /\ cbytes' = cbytes + size[p]
        /\ pc' = [pc EXCEPT ![p] = "metadata"]
        /\ next' = [next EXCEPT ![p] = (@ + 1) % NofReports(p)]
        /\ day' = [day EXCEPT ![p] = IF next'[p] = 0 THEN @ + 1 ELSE @]
     \/ Refused(p)
  /\ UNCHANGED <<metadata, size, awaited, manager>>

----------------------------------------------------------------------------
(* get_stats *)
Mutant_Expected == Cardinality(UserIds) * SERV_NUM   \* workers forgotten
Expected == Cardinality(UserIds) * SERV_NUM + NOF_WORKERS

ReceiveMetadata ==
  /\ awaited = NoStats /\ got < Expected /\ mday < SIM_DURATION
  /\ metadata # <<>>
  /\ awaited' = Head(metadata) /\ metadata' = Tail(metadata)
  /\ UNCHANGED <<data, cbytes, senders, manager>>

(* The data is read by the type the announcement has named. *)
ReceiveData ==
  /\ awaited # NoStats
  /\ \E d \in data :
       /\ d.mtype = awaited.mtype
       /\ data' = data \ {d}
       /\ cbytes' = cbytes - d.size
       /\ counted' = counted \cup {d.from}
  /\ got' = got + 1
  /\ awaited' = NoStats
  /\ UNCHANGED <<metadata, senders, mday>>

DayCounted ==
  /\ mday < SIM_DURATION /\ awaited = NoStats /\ got = Expected
  /\ mday' = mday + 1 /\ got' = 0 /\ counted' = {}
  /\ UNCHANGED <<metadata, data, cbytes, senders, awaited>>

----------------------------------------------------------------------------
SenderStep(p) == SendMetadata(p) \/ SendData(p)
ManagerStep == ReceiveMetadata \/ ReceiveData \/ DayCounted
Simulated == mday = SIM_DURATION /\ UNCHANGED vars

Next == (\E p \in Senders : SenderStep(p)) \/ ManagerStep \/ Simulated

Spec == Init /\ [][Next]_vars

(* Everybody runs; a blocked msgsnd or msgrcv goes on when it can. *)
FairSpec == Spec /\ WF_vars(ManagerStep) /\ \A p \in Senders : WF_vars(SenderStep(p))

----------------------------------------------------------------------------
(* PROPERTIES *)

(* The metadata queue bounds the data queue: never more data messages wait   *)
(* than announcements fit, and the one the manager is reading                *)
(* (msg.c:106, stats_handler.c:53-65).                                       *)
DataBounded == Cardinality(data) <= MetaCap + 1

(* The data queue needs no waiting: the room msg.c:89 gives it is enough for *)
(* all the reports the metadata queue lets in, and no user is refused and     *)
(* stops (user.c:95).                                                         *)
NobodyRefused == \A p \in Senders : pc[p] # "refused"

(* The manager closes a day with exactly one report of every user and        *)
(* service and of every worker, though it only counts messages               *)
(* (manager_main.c:205, stats_handler.c:50).                                 *)
EveryReportOnce == [][mday' # mday => counted = AllReports]_vars

(* Every day is counted: no sender waits for the manager while the manager   *)
(* waits for another sender, and no report of a user finds the data queue    *)
(* full (stats_handler.c:63, worker.c:105, user.c:95).                       *)
AllDaysCounted == <>(mday = SIM_DURATION)
=============================================================================
