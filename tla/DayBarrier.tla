---------------------------- MODULE DayBarrier ----------------------------
(***************************************************************************)
(* The day protocol of the post office: how the manager, the clock, the    *)
(* ticket dispenser, the workers and the users start a day together, end   *)
(* it together, let users join between two days and stop.                  *)
(*                                                                         *)
(* Every System V semaphore operation, every queue operation and every     *)
(* GETVAL of these phases is one action, in the order of the source        *)
(* (src/src/*_main.c).  What a process does inside its core is abstracted  *)
(* to the messages it may put into the mailboxes of others.                *)
(***************************************************************************)
EXTENDS Naturals, FiniteSets, Sequences

CONSTANTS
  Workers,       \* the worker processes
  Users,         \* the users forked by init_users
  NewUsers,      \* the i-th run of add_users_main adds the users NewUsers[i]
  Dispenser,     \* the ticket dispenser
  Clock,         \* the clock
  SIM_DURATION,  \* days of the simulation
  MayExplode     \* whether the failed services may exceed EXPLODE_THRESHOLD

Newcomers == UNION {NewUsers[i] : i \in DOMAIN NewUsers}
AllUsers  == Users \cup Newcomers
Members   == Workers \cup AllUsers \cup {Dispenser}
Reporters == Workers \cup AllUsers   \* the processes that send statistics
N_NEW_USERS == IF NewUsers = <<>> THEN 0 ELSE Cardinality(NewUsers[1])

ASSUME FiniteAssumption ==
  /\ IsFiniteSet(Workers)
  /\ IsFiniteSet(Users)
  /\ NewUsers \in Seq(SUBSET Newcomers)
  /\ \A i \in DOMAIN NewUsers : IsFiniteSet(NewUsers[i])
ASSUME DistinctAssumption ==
  /\ Dispenser \notin Reporters
  /\ Clock \notin Members
  /\ Workers \cap AllUsers = {}
  /\ Users \cap Newcomers = {}
  /\ \A i, j \in DOMAIN NewUsers : i # j => NewUsers[i] \cap NewUsers[j] = {}
  /\ \A i \in DOMAIN NewUsers : Cardinality(NewUsers[i]) = N_NEW_USERS
ASSUME DurationAssumption == SIM_DURATION \in Nat \ {0}
(* The clock releases the semaphores of NOF_USERS users in one call, which   *)
(* fails for none (clock.c:191).                                             *)
ASSUME UsersAssumption == Users # {}
ASSUME MayExplodeAssumption == MayExplode \in BOOLEAN

SemNames == {"DAY_END", "PROC_READY", "START", "ADD_USERS", "CLOCK_ADD_USERS",
             "STOP_SIM_EXPLODE", "PROC_CAN_DIE"}

VARIABLES
  sem,         \* the value of each semaphore
  mpc, mday,   \* manager: program counter and day_count
  mUsers,      \* manager's copy of NOF_USERS
  got,         \* statistics received by get_stats in the current day
  cpc, cday,   \* clock: program counter and day_count
  cUsers,      \* clock's copy of NOF_USERS
  heard,       \* requests received by the setup loop the clock is in
  pc, day,     \* dispenser, workers and users: program counter and day_count
  mail,        \* kinds of messages waiting in each process's own queue
  clockQueue,  \* processes whose CLOCK_REQ or CLOCK_REQ_PAUSE is queued
  statsQueue,  \* <<process, day>> of the statistics not yet received
  requests     \* runs of add_users_main so far

managerVars == <<mpc, mday, mUsers, got>>
clockVars   == <<cpc, cday, cUsers, heard>>
memberVars  == <<pc, day>>
queues      == <<mail, clockQueue, statsQueue>>
vars == <<sem, managerVars, clockVars, memberVars, queues, requests>>

Kinds == {"DAY_ENDED", "PAUSE_NOTIFC", "WORK"}  \* WORK: any other message

ManagerPCs == {"lockDayEnd", "waitZero", "tryAddUsers", "clockNoUsers",
  "forkUsers", "clockNewUsers", "initSeats", "lockReady", "setStart",
  "getStats", "clockExplode", "exLockDayEnd", "exWaitZero",
  "exLockReady", "exSetStart", "canDie", "waitpid", "done"}
ClockPCs == {"setup", "lockAdd", "readAdd", "lockAddAgain", "relNewUsers",
  "userReqs", "workerReqs", "checkEmpty", "ready", "lockStart",
  "readExplode", "core", "endUsers", "endWorkers", "endDispenser",
  "relDayEnd", "canDie", "exited", "fatal"}
MemberPCs == {"unborn", "lockDayEnd", "waitZero", "clear", "checkClear",
  "clockReq", "ready", "lockStart", "readExplode", "core", "stats",
  "canDie", "exited", "fatal"}

TypeOK ==
  /\ sem \in [SemNames -> Nat]
  /\ mpc \in ManagerPCs /\ mday \in 0..SIM_DURATION
  /\ mUsers \in Nat /\ got \in Nat
  /\ cpc \in ClockPCs /\ cday \in 0..SIM_DURATION
  /\ cUsers \in Nat /\ heard \in Nat
  /\ pc \in [Members -> MemberPCs]
  /\ day \in [Members -> 0..SIM_DURATION]
  /\ mail \in [Members -> SUBSET Kinds]
  /\ clockQueue \subseteq Reporters
  /\ statsQueue \subseteq Reporters \X (0..SIM_DURATION)
  /\ requests \in 0..Len(NewUsers)

----------------------------------------------------------------------------
(* Semaphore operations (sem_utils.c). *)

(* Mutants, here and below, are plausible mistakes in the definition that    *)
(* follows; the specification does not use them.                             *)
Mutant_LockSem(s)  == sem' = [sem EXCEPT ![s] = @ - 1]
LockSem(s)         == sem[s] > 0 /\ sem' = [sem EXCEPT ![s] = @ - 1]
LockSemVal(s, n)   == sem[s] >= n /\ sem' = [sem EXCEPT ![s] = @ - n]
WaitZeroSem(s)     == sem[s] = 0 /\ UNCHANGED sem
ReleaseSem(s)      == sem' = [sem EXCEPT ![s] = @ + 1]
ReleaseSemVal(s,n) == sem' = [sem EXCEPT ![s] = @ + n]
SetSemVal(s, n)    == sem' = [sem EXCEPT ![s] = n]

(* START_SEM_COUNT and the range of user ids, as a process computes them from *)
(* its own copy of NOF_USERS.                                                 *)
StartSemCount(nofUsers) == Cardinality(Workers) + nofUsers + 2
Numbered(nofUsers) ==
  Users \cup UNION {NewUsers[i] : i \in
    {j \in DOMAIN NewUsers : Cardinality(Users) + j * N_NEW_USERS <= nofUsers}}

(* What a step that only moves one process and its semaphore leaves alone. *)
MemberStays  == UNCHANGED <<managerVars, clockVars, day, queues, requests>>
ClockStays   == UNCHANGED <<managerVars, cday, cUsers, heard, memberVars, queues, requests>>
ManagerStays == UNCHANGED <<mday, mUsers, got, clockVars, memberVars, queues, requests>>

Init ==
  /\ sem = [s \in SemNames |-> 0]
  /\ mpc = "lockDayEnd" /\ mday = 0 /\ mUsers = Cardinality(Users) /\ got = 0
  /\ cpc = "setup" /\ cday = 0 /\ cUsers = Cardinality(Users) /\ heard = 0
  /\ pc = [p \in Members |-> IF p \in Newcomers THEN "unborn" ELSE "lockDayEnd"]
  /\ day = [p \in Members |-> 0]
  /\ mail = [p \in Members |-> {}]
  /\ clockQueue = {}
  /\ statsQueue = {}
  /\ requests = 0

----------------------------------------------------------------------------
(* The start() and core() of a worker, a user or the dispenser. *)

Goto(p, from, to) == pc[p] = from /\ pc' = [pc EXCEPT ![p] = to]
Present(u) == pc[u] # "unborn"

MemberLockDayEnd(p) ==
  Goto(p, "lockDayEnd", "waitZero") /\ LockSem("DAY_END") /\ MemberStays

Mutant_MemberWaitZero(p) == Goto(p, "waitZero", "clear") /\ UNCHANGED sem /\ MemberStays
MemberWaitZero(p) ==
  Goto(p, "waitZero", "clear") /\ WaitZeroSem("DAY_END") /\ MemberStays

(* The receive loop of the *_clear_msg_queue functions empties the queue. *)
ClearMsgQueue(p) ==
  /\ Goto(p, "clear", "checkClear")
  /\ mail' = [mail EXCEPT ![p] = {}]
  /\ UNCHANGED <<sem, managerVars, clockVars, day, clockQueue, statsQueue, requests>>

(* A message found after the loop is the fatal "Unexpected msg". *)
CheckCleared(p) ==
  /\ \/ mail[p] # {} /\ Goto(p, "checkClear", "fatal")
     \/ mail[p] = {} /\ Goto(p, "checkClear", IF p = Dispenser THEN "ready" ELSE "clockReq")
  /\ UNCHANGED sem /\ MemberStays

(* set_pause_time of a worker, setup_clock_notifc of a user. *)
SendClockReq(p) ==
  /\ Goto(p, "clockReq", "ready")
  /\ clockQueue' = clockQueue \cup {p}
  /\ UNCHANGED <<sem, managerVars, clockVars, day, mail, statsQueue, requests>>

MemberReady(p) == Goto(p, "ready", "lockStart") /\ ReleaseSem("PROC_READY") /\ MemberStays

MemberLockStart(p) == Goto(p, "lockStart", "readExplode") /\ LockSem("START") /\ MemberStays

Mutant_MemberReadExplode(p) == Goto(p, "readExplode", "core") /\ UNCHANGED sem /\ MemberStays
MemberReadExplode(p) ==
  /\ Goto(p, "readExplode", IF sem["STOP_SIM_EXPLODE"] = 1 THEN "exited" ELSE "core")
  /\ UNCHANGED sem /\ MemberStays

(* day_count++ and the test of the main loop; only the dispenser reaches it  *)
(* straight from its core, the others send their statistics first.           *)
NextDay(p) ==
  /\ day' = [day EXCEPT ![p] = @ + 1]
  /\ pc' = [pc EXCEPT ![p] = IF day[p] + 1 < SIM_DURATION THEN "lockDayEnd" ELSE "canDie"]

LeaveCore(p) ==
  \/ p = Dispenser /\ NextDay(p)
  \/ p # Dispenser /\ Goto(p, "core", "stats") /\ UNCHANGED day

(* The messages of the core by priority: DAY_ENDED, PAUSE_NOTIFC (which a    *)
(* worker without a seat of its own ignores), then the others.               *)
ReceiveDayEnded(p) ==
  /\ pc[p] = "core" /\ "DAY_ENDED" \in mail[p]
  /\ mail' = [mail EXCEPT ![p] = @ \ {"DAY_ENDED"}]
  /\ LeaveCore(p)
  /\ UNCHANGED <<sem, managerVars, clockVars, clockQueue, statsQueue, requests>>

ReceivePause(p) ==
  /\ pc[p] = "core" /\ "DAY_ENDED" \notin mail[p] /\ "PAUSE_NOTIFC" \in mail[p]
  /\ mail' = [mail EXCEPT ![p] = @ \ {"PAUSE_NOTIFC"}]
  /\ LeaveCore(p) \/ UNCHANGED memberVars
  /\ UNCHANGED <<sem, managerVars, clockVars, clockQueue, statsQueue, requests>>

ReceiveWork(p) ==
  /\ pc[p] = "core" /\ mail[p] = {"WORK"}
  /\ mail' = [mail EXCEPT ![p] = {}]
  /\ UNCHANGED <<sem, managerVars, clockVars, memberVars, clockQueue, statsQueue, requests>>

(* Whom the handlers of a core may write to, and such a message. *)
Correspondents(p) ==
  {q \in Members \ {p} : Present(q) /\
     \/ p \in AllUsers /\ q \in Workers \cup {Dispenser}
     \/ p \in Workers /\ q \in Reporters
     \/ p = Dispenser /\ q \in AllUsers}

SendWork(p) ==
  /\ pc[p] = "core"
  /\ \E q \in Correspondents(p) : mail' = [mail EXCEPT ![q] = @ \cup {"WORK"}]
  /\ UNCHANGED <<sem, managerVars, clockVars, memberVars, clockQueue, statsQueue, requests>>

SendStats(p) ==
  /\ pc[p] = "stats"
  /\ statsQueue' = statsQueue \cup {<<p, day[p]>>}
  /\ NextDay(p)
  /\ UNCHANGED <<sem, managerVars, clockVars, mail, clockQueue, requests>>

MemberCanDie(p) == Goto(p, "canDie", "exited") /\ LockSem("PROC_CAN_DIE") /\ MemberStays

MemberStep(p) ==
  \/ MemberLockDayEnd(p) \/ MemberWaitZero(p) \/ ClearMsgQueue(p) \/ CheckCleared(p)
  \/ SendClockReq(p) \/ MemberReady(p) \/ MemberLockStart(p) \/ MemberReadExplode(p)
  \/ ReceiveDayEnded(p) \/ ReceivePause(p) \/ ReceiveWork(p)
  \/ SendStats(p) \/ MemberCanDie(p)

----------------------------------------------------------------------------
(* The clock. *)

ClockGoto(from, to) == cpc = from /\ cpc' = to

ClockSetup ==
  ClockGoto("setup", "lockAdd") /\ ReleaseSemVal("DAY_END", StartSemCount(cUsers)) /\ ClockStays

ClockLockAdd == ClockGoto("lockAdd", "readAdd") /\ LockSem("CLOCK_ADD_USERS") /\ ClockStays

ClockReadAdd ==
  /\ ClockGoto("readAdd", IF sem["CLOCK_ADD_USERS"] = 1 THEN "lockAddAgain" ELSE "userReqs")
  /\ heard' = 0
  /\ UNCHANGED <<sem, managerVars, cday, cUsers, memberVars, queues, requests>>

Mutant_ClockAddNewUsers ==
  ClockGoto("lockAddAgain", "relNewUsers") /\ LockSem("CLOCK_ADD_USERS") /\ ClockStays
ClockAddNewUsers ==
  /\ ClockGoto("lockAddAgain", "relNewUsers")
  /\ LockSem("CLOCK_ADD_USERS")
  /\ cUsers' = cUsers + N_NEW_USERS
  /\ UNCHANGED <<managerVars, cday, heard, memberVars, queues, requests>>

Mutant_ClockReleaseNewUsers ==
  ClockGoto("relNewUsers", "userReqs") /\ UNCHANGED sem /\ ClockStays
ClockReleaseNewUsers ==
  ClockGoto("relNewUsers", "userReqs") /\ ReleaseSemVal("DAY_END", N_NEW_USERS) /\ ClockStays

(* setup_user_notific and setup_worker_pause receive one request from each   *)
(* of NOF_USERS users, then from each of NOF_WORKERS workers.                *)
Hear(senders, howMany, from, to) ==
  /\ \/ /\ heard < howMany /\ cpc = from
        /\ \E p \in clockQueue \cap senders : clockQueue' = clockQueue \ {p}
        /\ heard' = heard + 1 /\ UNCHANGED cpc
     \/ heard >= howMany /\ ClockGoto(from, to) /\ heard' = 0 /\ UNCHANGED clockQueue
  /\ UNCHANGED <<sem, managerVars, cday, cUsers, memberVars, mail, statsQueue, requests>>

SetupUserNotific == Hear(AllUsers, cUsers, "userReqs", "workerReqs")
SetupWorkerPause == Hear(Workers, Cardinality(Workers), "workerReqs", "checkEmpty")

(* "Zero mess are expected" *)
ClockCheckEmpty ==
  /\ ClockGoto("checkEmpty", IF clockQueue = {} THEN "ready" ELSE "fatal")
  /\ UNCHANGED sem /\ ClockStays

ClockReady == ClockGoto("ready", "lockStart") /\ ReleaseSem("PROC_READY") /\ ClockStays

ClockLockStart == ClockGoto("lockStart", "readExplode") /\ LockSem("START") /\ ClockStays

ClockReadExplode ==
  /\ ClockGoto("readExplode", IF sem["STOP_SIM_EXPLODE"] = 1 THEN "exited" ELSE "core")
  /\ UNCHANGED sem /\ ClockStays

(* A minute of the day in which a pause or an appointment is due. *)
ClockSend(group, kind) ==
  /\ cpc = "core"
  /\ \E p \in group : mail' = [mail EXCEPT ![p] = @ \cup {kind}]
  /\ UNCHANGED <<sem, managerVars, clockVars, memberVars, clockQueue, statsQueue, requests>>

SendWorkerPause == ClockSend(Workers, "PAUSE_NOTIFC")
SendUserNotific == ClockSend(Numbered(cUsers), "WORK")

(* min_count has reached 480. *)
ClockDayOver == ClockGoto("core", "endUsers") /\ UNCHANGED sem /\ ClockStays

(* send_msg_day_ended: the users, then the workers, then the dispenser. *)
TellDayEnded(group) ==
  /\ mail' = [p \in Members |-> IF p \in group THEN mail[p] \cup {"DAY_ENDED"} ELSE mail[p]]
  /\ UNCHANGED <<sem, managerVars, cday, cUsers, heard, memberVars, clockQueue, statsQueue, requests>>

SendMsgDayEnded ==
  \/ ClockGoto("endUsers", "endWorkers") /\ TellDayEnded(Numbered(cUsers))
  \/ ClockGoto("endWorkers", "endDispenser") /\ TellDayEnded(Workers)
  \/ ClockGoto("endDispenser", "relDayEnd") /\ TellDayEnded({Dispenser})

ClockReleaseDayEnd ==
  /\ ClockGoto("relDayEnd", IF cday + 1 < SIM_DURATION THEN "lockAdd" ELSE "canDie")
  /\ ReleaseSemVal("DAY_END", StartSemCount(cUsers))
  /\ cday' = cday + 1
  /\ UNCHANGED <<managerVars, cUsers, heard, memberVars, queues, requests>>

ClockCanDie == ClockGoto("canDie", "exited") /\ LockSem("PROC_CAN_DIE") /\ ClockStays

ClockStep ==
  \/ ClockSetup \/ ClockLockAdd \/ ClockReadAdd \/ ClockAddNewUsers
  \/ ClockReleaseNewUsers \/ SetupUserNotific \/ SetupWorkerPause
  \/ ClockCheckEmpty \/ ClockReady \/ ClockLockStart \/ ClockReadExplode
  \/ ClockDayOver \/ SendMsgDayEnded \/ ClockReleaseDayEnd \/ ClockCanDie

----------------------------------------------------------------------------
(* The manager. *)

ManagerGoto(from, to) == mpc = from /\ mpc' = to

(* The explosion branch of main repeats the semaphore steps of start(). *)
ManagerLockDayEnd ==
  /\ ManagerGoto("lockDayEnd", "waitZero") \/ ManagerGoto("exLockDayEnd", "exWaitZero")
  /\ LockSem("DAY_END") /\ ManagerStays

Mutant_ManagerWaitZero ==
  /\ ManagerGoto("waitZero", "tryAddUsers") \/ ManagerGoto("exWaitZero", "exLockReady")
  /\ UNCHANGED sem /\ ManagerStays
ManagerWaitZero ==
  /\ ManagerGoto("waitZero", "tryAddUsers") \/ ManagerGoto("exWaitZero", "exLockReady")
  /\ WaitZeroSem("DAY_END") /\ ManagerStays

(* lock_sem_nowait(SEM_ADD_USERS_ID) *)
TryAddUsers ==
  /\ \/ sem["ADD_USERS"] = 0 /\ ManagerGoto("tryAddUsers", "clockNoUsers") /\ UNCHANGED sem
     \/ ManagerGoto("tryAddUsers", "forkUsers") /\ LockSem("ADD_USERS")
  /\ ManagerStays

ClockNoUsers ==
  ManagerGoto("clockNoUsers", "initSeats") /\ ReleaseSem("CLOCK_ADD_USERS") /\ ManagerStays

Mutant_InitNewUsers ==   \* argv[2] is not passed: newcomers count from day 0
  /\ ManagerGoto("forkUsers", "clockNewUsers")
  /\ mUsers' = mUsers + N_NEW_USERS
  /\ pc' = [p \in Members |-> IF p \in Numbered(mUsers') \ Numbered(mUsers)
                               THEN "lockDayEnd" ELSE pc[p]]
  /\ UNCHANGED <<sem, mday, got, clockVars, day, queues, requests>>

(* init_new_users: the ids NOF_USERS .. NOF_USERS + N_NEW_USERS - 1 start    *)
(* with the manager's day_count; then add_new_users.                         *)
InitNewUsers ==
  /\ ManagerGoto("forkUsers", "clockNewUsers")
  /\ mUsers' = mUsers + N_NEW_USERS
  /\ LET born == Numbered(mUsers') \ Numbered(mUsers) IN
       /\ pc'  = [p \in Members |-> IF p \in born THEN "lockDayEnd" ELSE pc[p]]
       /\ day' = [p \in Members |-> IF p \in born THEN mday ELSE day[p]]
  /\ UNCHANGED <<sem, mday, got, clockVars, queues, requests>>

ClockNewUsers ==
  ManagerGoto("clockNewUsers", "initSeats") /\ ReleaseSemVal("CLOCK_ADD_USERS", 2) /\ ManagerStays

(* seats_init_resources; the seats are not part of this module's state. *)
InitSeats == ManagerGoto("initSeats", "lockReady") /\ UNCHANGED sem /\ ManagerStays

Mutant_ManagerLockReady ==   \* waits for one process
  /\ ManagerGoto("lockReady", "setStart") \/ ManagerGoto("exLockReady", "exSetStart")
  /\ LockSem("PROC_READY") /\ ManagerStays
ManagerLockReady ==
  /\ ManagerGoto("lockReady", "setStart") \/ ManagerGoto("exLockReady", "exSetStart")
  /\ LockSemVal("PROC_READY", StartSemCount(mUsers)) /\ ManagerStays

ManagerSetStart ==
  /\ ManagerGoto("setStart", "getStats") \/ ManagerGoto("exSetStart", "waitpid")
  /\ SetSemVal("START", StartSemCount(mUsers))
  /\ got' = 0
  /\ UNCHANGED <<mday, mUsers, clockVars, memberVars, queues, requests>>

(* get_stats receives a fixed number of statistics; whether the failed       *)
(* services it adds up exceed EXPLODE_THRESHOLD is left open.                *)
Mutant_Expected == mUsers + Cardinality(Workers) - 1
Expected == mUsers + Cardinality(Workers)

GetStats ==
  /\ mpc = "getStats" /\ got < Expected
  /\ \E report \in statsQueue : statsQueue' = statsQueue \ {report}
  /\ got' = got + 1
  /\ UNCHANGED <<sem, mpc, mday, mUsers, clockVars, memberVars, mail, clockQueue, requests>>

DayCounted ==
  /\ got = Expected
  /\ ManagerGoto("getStats", IF mday + 1 < SIM_DURATION THEN "lockDayEnd" ELSE "canDie")
  /\ mday' = mday + 1
  /\ UNCHANGED <<sem, mUsers, got, clockVars, memberVars, queues, requests>>

Explode ==
  /\ MayExplode /\ got = Expected
  /\ ManagerGoto("getStats", "clockExplode") /\ ReleaseSem("STOP_SIM_EXPLODE") /\ ManagerStays

ClockExplode ==
  /\ ManagerGoto("clockExplode", IF mday + 1 = SIM_DURATION THEN "canDie" ELSE "exLockDayEnd")
  /\ ReleaseSem("CLOCK_ADD_USERS") /\ ManagerStays

LetDie ==
  /\ ManagerGoto("canDie", "waitpid")
  /\ ReleaseSemVal("PROC_CAN_DIE", StartSemCount(mUsers)) /\ ManagerStays

(* waitpid for every process forked, then the IPC objects are removed. *)
WaitChildren ==
  /\ cpc \in {"exited", "fatal"}
  /\ \A p \in Members : pc[p] \in {"unborn", "exited", "fatal"}
  /\ ManagerGoto("waitpid", "done") /\ UNCHANGED sem /\ ManagerStays

ManagerStep ==
  \/ ManagerLockDayEnd \/ ManagerWaitZero \/ TryAddUsers \/ ClockNoUsers
  \/ InitNewUsers \/ ClockNewUsers \/ InitSeats \/ ManagerLockReady
  \/ ManagerSetStart \/ GetStats \/ DayCounted \/ Explode \/ ClockExplode
  \/ LetDie \/ WaitChildren

----------------------------------------------------------------------------
(* add_users_main, run by hand at any time while the semaphores exist. *)
AddUsersMain ==
  /\ mpc # "done" /\ requests < Len(NewUsers)
  /\ ReleaseSemVal("ADD_USERS", 1)
  /\ requests' = requests + 1
  /\ UNCHANGED <<managerVars, clockVars, memberVars, queues>>

(* A finished simulation stutters, so that TLC reports only real deadlocks. *)
Finished == mpc = "done" /\ UNCHANGED vars

Next ==
  \/ ManagerStep \/ ClockStep \/ SendWorkerPause \/ SendUserNotific
  \/ \E p \in Members : MemberStep(p) \/ SendWork(p)
  \/ AddUsersMain \/ Finished

(* The kernel runs every process that can run, and a semaphore is granted to  *)
(* somebody; nobody is obliged to write to anybody, or to add users.          *)
Fairness ==
  /\ WF_vars(ManagerStep) /\ WF_vars(ClockStep)
  /\ \A p \in Members : WF_vars(MemberStep(p))

Spec == Init /\ [][Next]_vars
FairSpec == Spec /\ Fairness

----------------------------------------------------------------------------
(* PROPERTIES *)

Open == {"core", "endUsers", "endWorkers", "endDispenser", "relDayEnd"}
SomebodyAtWork == cpc \in Open \/ \E p \in Members : pc[p] \in {"core", "stats"}

(* No process ends in "Unexpected msg" or "Zero mess are expected": what is  *)
(* left over of a day has arrived before its owner clears the queue, and no  *)
(* request for the next day overtakes the clock (worker.c:69, user.c:51,     *)
(* ticket_dispenser.c:67, clock_main.c:52).                                  *)
NobodyFatal == cpc # "fatal" /\ \A p \in Members : pc[p] # "fatal"

(* When anybody is in its core, every process has reported itself ready for  *)
(* that day, or has already finished it: the simulation of a day starts only *)
(* when everybody is ready (the PROC_READY/START barrier).                   *)
StartsTogether ==
  \A p \in Members : pc[p] = "core" => \A q \in Members : Present(q) =>
    \/ day[q] = day[p] /\ pc[q] \in {"lockStart", "readExplode", "core", "stats", "exited"}
    \/ day[q] = day[p] + 1 /\ pc[q] \in {"lockDayEnd", "waitZero", "canDie", "exited"}

(* The steps that destroy messages and semaphore values take nothing away    *)
(* from a day: clearing a queue and zeroing its semaphore, SETVAL on the     *)
(* seats run while nobody works (worker.c:75, user.c:57,                     *)
(* ticket_dispenser.c:72, seats.c:30), SETVAL on START when all tokens of    *)
(* the day before have been taken (manager_main.c:188,220).                  *)
ResetsAreQuiet ==
  /\ mpc = "initSeats" \/ (\E p \in Members : pc[p] \in {"clear", "checkClear"})
       => ~SomebodyAtWork
  /\ mpc \in {"setStart", "exSetStart"} => sem["START"] = 0

(* get_stats counts messages, it does not look at who sent them or when: all *)
(* that are queued belong to the manager's day, and when the number it waits *)
(* for has come none is left for the day after (stats_handler.c:50).         *)
StatsOfToday ==
  /\ \A report \in statsQueue : report[2] = mday
  /\ mpc = "getStats" /\ got = Expected => statsQueue = {}

(* The clock closes the day for everybody who exists, also after users were  *)
(* added: its copy of NOF_USERS has caught up with the manager's.            *)
ClockKnowsEverybody ==
  cpc \in Open => {u \in AllUsers : Present(u)} = Numbered(cUsers)

(* Once the explosion is declared nobody works on a later day.               *)
NoWorkAfterExplosion ==
  sem["STOP_SIM_EXPLODE"] = 1 =>
    /\ cpc \in Open => cday = mday
    /\ \A p \in Members : pc[p] \in {"core", "stats"} => day[p] = mday

(* After its core a process returns to start(), and an explosion stops it    *)
(* there: a stopped process has finished every day that was held             *)
(* (README.md:54).                                                           *)
ReturnsToStart ==
  \A p \in Members : pc[p] = "exited" => day[p] > mday \/ mday = SIM_DURATION

(* The mailboxes, the semaphore set and the table of children have room for  *)
(* one run of add_users_main (sem.c:133, msg.c:53, manager_main.c:158).      *)
UsersProvisioned == mUsers <= Cardinality(Users) + N_NEW_USERS

(* Every simulation that does not explode terminates, and the manager then   *)
(* removes the IPC objects.                                                  *)
Termination == <>(mpc = "done")

Days == INSTANCE WorkDays WITH
  Crew     <- Members \cup {Clock},
  joined   <- {p \in Members : Present(p)} \cup {Clock},
  finished <- [p \in Members \cup {Clock} |-> IF p = Clock THEN cday ELSE day[p]],
  begun    <- [p \in Members \cup {Clock} |->
                IF p = Clock THEN IF cpc \in Open THEN cday + 1 ELSE cday
                ELSE IF pc[p] \in {"core", "stats"} THEN day[p] + 1 ELSE day[p]]

(* The protocol implements the abstract WorkDays.                            *)
ImplementsWorkDays == Days!Spec
============================================================================
