------------------------- MODULE DayBarrier_proofs -------------------------
(* Proofs about the day protocol, for every crew, any number of batches of   *)
(* new users and any duration of the simulation.                             *)
EXTENDS DayBarrier, FiniteSetTheorems, TLAPS

(* The day counters stay below SIM_DURATION while their owner is in the loop *)
(* of main, and the dispenser never talks to the clock or sends statistics.  *)
DaysBounded ==
  /\ \A p \in Members :
       pc[p] \notin {"canDie", "exited", "fatal"} => day[p] < SIM_DURATION
  /\ pc[Dispenser] \notin {"clockReq", "stats"}
  /\ cpc \notin {"canDie", "exited", "fatal"} => cday < SIM_DURATION
  /\ mpc \notin {"canDie", "waitpid", "done"} => mday < SIM_DURATION

TypeInv == TypeOK /\ DaysBounded

LEMMA CountsAreNatural ==
  /\ Cardinality(Workers) \in Nat
  /\ Cardinality(Users) \in Nat
  /\ N_NEW_USERS \in Nat
  /\ SIM_DURATION \in Nat \ {0}
  /\ Dispenser \in Members /\ Dispenser \notin Reporters
  /\ Members = Reporters \cup {Dispenser}
<1>1. NewUsers # <<>> => 1 \in DOMAIN NewUsers
  BY FiniteAssumption
<1>2. N_NEW_USERS \in Nat
  BY <1>1, FiniteAssumption, FS_CardinalityType DEF N_NEW_USERS
<1> QED
  BY <1>2, FiniteAssumption, FS_CardinalityType, DistinctAssumption, DurationAssumption
     DEF Members, Reporters

LEMMA InitType == Init => TypeInv
<1> USE DEF TypeInv, TypeOK, DaysBounded, Init
<1>1. Len(NewUsers) \in Nat
  BY FiniteAssumption
<1> QED
  BY <1>1, CountsAreNatural DEF ManagerPCs, ClockPCs, MemberPCs, SemNames

(* The semaphore operations keep every semaphore natural: a lock waits until *)
(* there is something to take.                                               *)
LEMMA SemType ==
  ASSUME TypeOK, NEW s \in SemNames
  PROVE  /\ LockSem(s) => sem' \in [SemNames -> Nat]
         /\ ReleaseSem(s) => sem' \in [SemNames -> Nat]
         /\ \A n \in Nat : \/ LockSemVal(s, n) \/ ReleaseSemVal(s, n) \/ SetSemVal(s, n)
                           => sem' \in [SemNames -> Nat]
<1> USE DEF TypeOK
<1>1. LockSem(s) => sem' \in [SemNames -> Nat]
  BY DEF LockSem
<1>2. ReleaseSem(s) => sem' \in [SemNames -> Nat]
  BY DEF ReleaseSem
<1>3. ASSUME NEW n \in Nat, LockSemVal(s, n) \/ ReleaseSemVal(s, n) \/ SetSemVal(s, n)
      PROVE  sem' \in [SemNames -> Nat]
  BY <1>3 DEF LockSemVal, ReleaseSemVal, SetSemVal
<1> QED BY <1>1, <1>2, <1>3

(* The counters and program counters of the members, after a day and after   *)
(* any other step.                                                           *)
MembersTyped ==
  /\ pc \in [Members -> MemberPCs]
  /\ day \in [Members -> 0..SIM_DURATION]
  /\ \A p \in Members :
       pc[p] \notin {"canDie", "exited", "fatal"} => day[p] < SIM_DURATION
  /\ pc[Dispenser] \notin {"clockReq", "stats"}

LEMMA NextDayType ==
  ASSUME TypeInv, NEW p \in Members, pc[p] \in {"core", "stats"}, NextDay(p)
  PROVE  MembersTyped'
<1>1. day[p] \in 0..SIM_DURATION /\ day[p] < SIM_DURATION
  BY DEF TypeInv, TypeOK, DaysBounded
<1>2. day[p] + 1 \in 0..SIM_DURATION
  BY <1>1, CountsAreNatural
<1> QED
  BY <1>1, <1>2, CountsAreNatural
     DEF TypeInv, TypeOK, DaysBounded, NextDay, MembersTyped, MemberPCs

LEMMA LeaveCoreType ==
  ASSUME TypeInv, NEW p \in Members, pc[p] = "core", LeaveCore(p)
  PROVE  MembersTyped'
<1>1. CASE p = Dispenser
  BY <1>1, NextDayType DEF LeaveCore
<1>2. CASE p # Dispenser
  BY <1>2, CountsAreNatural
     DEF LeaveCore, Goto, TypeInv, TypeOK, DaysBounded, MembersTyped, MemberPCs
<1> QED BY <1>1, <1>2

LEMMA MemberType ==
  ASSUME TypeInv, NEW p \in Members, MemberStep(p) \/ SendWork(p)
  PROVE  TypeInv'
<1> USE DEF TypeInv, TypeOK, DaysBounded, MemberPCs, Kinds
<1> USE CountsAreNatural
<1>1. CASE MemberLockDayEnd(p)
  <2>1. sem' \in [SemNames -> Nat]
    BY <1>1, SemType DEF MemberLockDayEnd, SemNames
  <2> QED BY <1>1, <2>1 DEF MemberLockDayEnd, Goto, MemberStays, managerVars, clockVars, queues
<1>2. CASE MemberWaitZero(p)
  BY <1>2 DEF MemberWaitZero, Goto, MemberStays, managerVars, clockVars, queues, WaitZeroSem
<1>3. CASE ClearMsgQueue(p)
  BY <1>3 DEF ClearMsgQueue, Goto, managerVars, clockVars
<1>4. CASE CheckCleared(p)
  BY <1>4 DEF CheckCleared, Goto, MemberStays, managerVars, clockVars, queues
<1>5. CASE SendClockReq(p)
  BY <1>5 DEF SendClockReq, Goto, managerVars, clockVars
<1>6. CASE MemberReady(p)
  <2>1. sem' \in [SemNames -> Nat]
    BY <1>6, SemType DEF MemberReady, SemNames
  <2> QED BY <1>6, <2>1 DEF MemberReady, Goto, MemberStays, managerVars, clockVars, queues
<1>7. CASE MemberLockStart(p)
  <2>1. sem' \in [SemNames -> Nat]
    BY <1>7, SemType DEF MemberLockStart, SemNames
  <2> QED BY <1>7, <2>1 DEF MemberLockStart, Goto, MemberStays, managerVars, clockVars, queues
<1>8. CASE MemberReadExplode(p)
  BY <1>8 DEF MemberReadExplode, Goto, MemberStays, managerVars, clockVars, queues
<1>9. CASE ReceiveDayEnded(p)
  <2>1. MembersTyped'
    BY <1>9, LeaveCoreType DEF ReceiveDayEnded
  <2> QED BY <1>9, <2>1 DEF ReceiveDayEnded, MembersTyped, managerVars, clockVars
<1>10. CASE ReceivePause(p)
  <2>1. MembersTyped'
    BY <1>10, LeaveCoreType DEF ReceivePause, MembersTyped, memberVars
  <2> QED BY <1>10, <2>1 DEF ReceivePause, MembersTyped, managerVars, clockVars
<1>11. CASE ReceiveWork(p)
  BY <1>11 DEF ReceiveWork, managerVars, clockVars, memberVars
<1>12. CASE SendStats(p)
  <2>1. MembersTyped'
    BY <1>12, NextDayType DEF SendStats
  <2>2. statsQueue' \subseteq Reporters \X (0..SIM_DURATION)
    BY <1>12 DEF SendStats
  <2> QED BY <1>12, <2>1, <2>2 DEF SendStats, MembersTyped, managerVars, clockVars
<1>13. CASE MemberCanDie(p)
  <2>1. sem' \in [SemNames -> Nat]
    BY <1>13, SemType DEF MemberCanDie, SemNames
  <2> QED BY <1>13, <2>1 DEF MemberCanDie, Goto, MemberStays, managerVars, clockVars, queues
<1>14. CASE SendWork(p)
  BY <1>14 DEF SendWork, Correspondents, managerVars, clockVars, memberVars
<1> QED
  BY <1>1, <1>2, <1>3, <1>4, <1>5, <1>6, <1>7, <1>8, <1>9, <1>10, <1>11, <1>12,
     <1>13, <1>14 DEF MemberStep

LEMMA StartCountType == \A n \in Nat : StartSemCount(n) \in Nat
  BY CountsAreNatural DEF StartSemCount

LEMMA NumberedUsers == \A n : Numbered(n) \subseteq Members
  BY DEF Numbered, Members, AllUsers, Newcomers

LEMMA ClockType ==
  ASSUME TypeInv, ClockStep \/ SendWorkerPause \/ SendUserNotific
  PROVE  TypeInv'
<1> USE DEF TypeInv, TypeOK, DaysBounded, ClockPCs, Kinds
<1> USE CountsAreNatural
<1>1. CASE ClockSetup
  <2>1. sem' \in [SemNames -> Nat]
    BY <1>1, SemType, StartCountType DEF ClockSetup, SemNames, TypeInv
  <2> QED BY <1>1, <2>1 DEF ClockSetup, ClockGoto, ClockStays, managerVars, memberVars, queues
<1>2. CASE ClockLockAdd
  <2>1. sem' \in [SemNames -> Nat]
    BY <1>2, SemType DEF ClockLockAdd, SemNames, TypeInv
  <2> QED BY <1>2, <2>1 DEF ClockLockAdd, ClockGoto, ClockStays, managerVars, memberVars, queues
<1>3. CASE ClockReadAdd
  BY <1>3 DEF ClockReadAdd, ClockGoto, managerVars, memberVars, queues
<1>4. CASE ClockAddNewUsers
  <2>1. sem' \in [SemNames -> Nat]
    BY <1>4, SemType DEF ClockAddNewUsers, SemNames, TypeInv
  <2> QED BY <1>4, <2>1 DEF ClockAddNewUsers, ClockGoto, managerVars, memberVars, queues
<1>5. CASE ClockReleaseNewUsers
  <2>1. sem' \in [SemNames -> Nat]
    BY <1>5, SemType, StartCountType DEF ClockReleaseNewUsers, SemNames, TypeInv
  <2> QED BY <1>5, <2>1 DEF ClockReleaseNewUsers, ClockGoto, ClockStays, managerVars, memberVars, queues
<1>6. CASE SetupUserNotific
  BY <1>6 DEF SetupUserNotific, ClockGoto, managerVars, memberVars, queues, Hear
<1>7. CASE SetupWorkerPause
  BY <1>7 DEF SetupWorkerPause, ClockGoto, managerVars, memberVars, queues, Hear
<1>8. CASE ClockCheckEmpty
  BY <1>8 DEF ClockCheckEmpty, ClockGoto, ClockStays, managerVars, memberVars, queues
<1>9. CASE ClockReady
  <2>1. sem' \in [SemNames -> Nat]
    BY <1>9, SemType DEF ClockReady, SemNames, TypeInv
  <2> QED BY <1>9, <2>1 DEF ClockReady, ClockGoto, ClockStays, managerVars, memberVars, queues
<1>10. CASE ClockLockStart
  <2>1. sem' \in [SemNames -> Nat]
    BY <1>10, SemType DEF ClockLockStart, SemNames, TypeInv
  <2> QED BY <1>10, <2>1 DEF ClockLockStart, ClockGoto, ClockStays, managerVars, memberVars, queues
<1>11. CASE ClockReadExplode
  BY <1>11 DEF ClockReadExplode, ClockGoto, ClockStays, managerVars, memberVars, queues
<1>12. CASE ClockDayOver
  BY <1>12 DEF ClockDayOver, ClockGoto, ClockStays, managerVars, memberVars, queues
<1>13. CASE SendMsgDayEnded
  <2>1. mail' \in [Members -> SUBSET Kinds]
    BY <1>13 DEF SendMsgDayEnded, TellDayEnded
  <2>2. cpc' \in {"endWorkers", "endDispenser", "relDayEnd"} /\ cday < SIM_DURATION
    BY <1>13 DEF SendMsgDayEnded, ClockGoto
  <2>3. UNCHANGED <<sem, managerVars, cday, cUsers, heard, memberVars, clockQueue, statsQueue, requests>>
    BY <1>13 DEF SendMsgDayEnded, TellDayEnded
  <2> QED BY <2>1, <2>2, <2>3 DEF managerVars, memberVars
<1>14. CASE ClockReleaseDayEnd
  <2>1. sem' \in [SemNames -> Nat]
    BY <1>14, SemType, StartCountType DEF ClockReleaseDayEnd, SemNames, TypeInv
  <2> QED BY <1>14, <2>1 DEF ClockReleaseDayEnd, ClockGoto, managerVars, memberVars, queues
<1>15. CASE ClockCanDie
  <2>1. sem' \in [SemNames -> Nat]
    BY <1>15, SemType DEF ClockCanDie, SemNames, TypeInv
  <2> QED BY <1>15, <2>1 DEF ClockCanDie, ClockGoto, ClockStays, managerVars, memberVars, queues
<1>16. CASE SendWorkerPause
  <2>1. mail' \in [Members -> SUBSET Kinds]
    BY <1>16 DEF SendWorkerPause, ClockSend, Members
  <2> QED BY <1>16, <2>1 DEF SendWorkerPause, ClockSend, managerVars, clockVars, memberVars
<1>17. CASE SendUserNotific
  <2>1. mail' \in [Members -> SUBSET Kinds]
    BY <1>17, NumberedUsers DEF SendUserNotific, ClockSend
  <2> QED BY <1>17, <2>1 DEF SendUserNotific, ClockSend, managerVars, clockVars, memberVars
<1> QED
  BY <1>1, <1>2, <1>3, <1>4, <1>5, <1>6, <1>7, <1>8, <1>9, <1>10, <1>11, <1>12, <1>13, <1>14, <1>15, <1>16, <1>17 DEF ClockStep

LEMMA ManagerType ==
  ASSUME TypeInv, ManagerStep
  PROVE  TypeInv'
<1> USE DEF TypeInv, TypeOK, DaysBounded, ManagerPCs, MemberPCs
<1> USE CountsAreNatural
<1>1. CASE ManagerLockDayEnd
  <2>1. sem' \in [SemNames -> Nat]
    BY <1>1, SemType DEF ManagerLockDayEnd, SemNames
  <2> QED BY <1>1, <2>1 DEF ManagerLockDayEnd, ManagerGoto, ManagerStays, clockVars, memberVars, queues
<1>2. CASE ManagerWaitZero
  BY <1>2 DEF ManagerWaitZero, ManagerGoto, ManagerStays, clockVars, memberVars, queues, WaitZeroSem
<1>3. CASE TryAddUsers
  <2>1. sem' \in [SemNames -> Nat]
    BY <1>3, SemType DEF TryAddUsers, SemNames
  <2> QED BY <1>3, <2>1 DEF TryAddUsers, ManagerGoto, ManagerStays, clockVars, memberVars, queues
<1>4. CASE ClockNoUsers
  <2>1. sem' \in [SemNames -> Nat]
    BY <1>4, SemType DEF ClockNoUsers, SemNames
  <2> QED BY <1>4, <2>1 DEF ClockNoUsers, ManagerGoto, ManagerStays, clockVars, memberVars, queues
<1>5. CASE InitNewUsers
  BY <1>5 DEF InitNewUsers, ManagerGoto, clockVars, memberVars, queues
<1>6. CASE ClockNewUsers
  <2>1. sem' \in [SemNames -> Nat]
    BY <1>6, SemType DEF ClockNewUsers, SemNames
  <2> QED BY <1>6, <2>1 DEF ClockNewUsers, ManagerGoto, ManagerStays, clockVars, memberVars, queues
<1>7. CASE InitSeats
  BY <1>7 DEF InitSeats, ManagerGoto, ManagerStays, clockVars, memberVars, queues
<1>8. CASE ManagerLockReady
  <2>1. sem' \in [SemNames -> Nat]
    BY <1>8, SemType, StartCountType DEF ManagerLockReady, SemNames
  <2> QED BY <1>8, <2>1 DEF ManagerLockReady, ManagerGoto, ManagerStays, clockVars, memberVars, queues
<1>9. CASE ManagerSetStart
  <2>1. sem' \in [SemNames -> Nat]
    BY <1>9, SemType, StartCountType DEF ManagerSetStart, SemNames
  <2> QED BY <1>9, <2>1 DEF ManagerSetStart, ManagerGoto, clockVars, memberVars, queues
<1>10. CASE GetStats
  BY <1>10 DEF GetStats, ManagerGoto, clockVars, memberVars, queues, Expected
<1>11. CASE DayCounted
  BY <1>11 DEF DayCounted, ManagerGoto, clockVars, memberVars, queues
<1>12. CASE Explode
  <2>1. sem' \in [SemNames -> Nat]
    BY <1>12, SemType DEF Explode, SemNames
  <2> QED BY <1>12, <2>1 DEF Explode, ManagerGoto, ManagerStays, clockVars, memberVars, queues
<1>13. CASE ClockExplode
  <2>1. sem' \in [SemNames -> Nat]
    BY <1>13, SemType DEF ClockExplode, SemNames
  <2> QED BY <1>13, <2>1 DEF ClockExplode, ManagerGoto, ManagerStays, clockVars, memberVars, queues
<1>14. CASE LetDie
  <2>1. sem' \in [SemNames -> Nat]
    BY <1>14, SemType, StartCountType DEF LetDie, SemNames
  <2> QED BY <1>14, <2>1 DEF LetDie, ManagerGoto, ManagerStays, clockVars, memberVars, queues
<1>15. CASE WaitChildren
  BY <1>15 DEF WaitChildren, ManagerGoto, ManagerStays, clockVars, memberVars, queues
<1> QED
  BY <1>1, <1>2, <1>3, <1>4, <1>5, <1>6, <1>7, <1>8, <1>9, <1>10, <1>11, <1>12, <1>13, <1>14, <1>15 DEF ManagerStep

(* No step takes a variable out of its type.                                 *)
LEMMA TypeStep == TypeInv /\ [Next]_vars => TypeInv'
<1> SUFFICES ASSUME TypeInv, [Next]_vars PROVE TypeInv'
  OBVIOUS
<1>1. CASE ManagerStep
  BY <1>1, ManagerType
<1>2. CASE ClockStep \/ SendWorkerPause \/ SendUserNotific
  BY <1>2, ClockType
<1>3. CASE \E p \in Members : MemberStep(p) \/ SendWork(p)
  BY <1>3, MemberType
<1>4. CASE AddUsersMain
  <2> USE DEF TypeInv, TypeOK, DaysBounded
  <2>1. sem' \in [SemNames -> Nat]
    BY <1>4, SemType DEF AddUsersMain, SemNames
  <2>2. requests' \in 0..Len(NewUsers)
    BY <1>4, FiniteAssumption DEF AddUsersMain
  <2> QED BY <1>4, <2>1, <2>2 DEF AddUsersMain, managerVars, clockVars, memberVars, queues
<1>5. CASE UNCHANGED vars
  BY <1>5 DEF vars, TypeInv, TypeOK, DaysBounded, managerVars, clockVars, memberVars, queues
<1> QED BY <1>1, <1>2, <1>3, <1>4, <1>5 DEF Next, Finished

(* Every variable keeps its type: no semaphore goes below zero, no day count  *)
(* passes SIM_DURATION, only users and workers are ever heard of by the clock *)
(* and the statistics.                                                        *)
THEOREM DayBarrierType == Spec => []TypeOK
<1>1. TypeInv => TypeOK
  BY DEF TypeInv
<1> QED BY InitType, TypeStep, <1>1, PTL DEF Spec

----------------------------------------------------------------------------
(* THE BARRIER                                                               *)
(*                                                                           *)
(* A unit of a semaphore does not say of which day it is.  What keeps the    *)
(* days apart is how often each process has passed each point of start():    *)
(* these numbers never fall, a semaphore holds the difference between those  *)
(* of the two sides, and the invariant is about how far apart they can be.   *)

Bit(b) == IF b THEN 1 ELSE 0

(* Rounds of the barrier a process has done, when it has left d of them      *)
(* behind and is, in the current one, before or after a certain point.       *)
Rounds(d, after) == IF d < SIM_DURATION /\ after THEN d + 1 ELSE d

Taken(p)    == Rounds(day[p], pc[p] \notin {"unborn", "lockDayEnd"})
Passed(p)   == Rounds(day[p], pc[p] \notin {"unborn", "lockDayEnd", "waitZero"})
Asked(p)    == Rounds(day[p], pc[p] \notin {"unborn", "lockDayEnd", "waitZero", "clear",
                                            "checkClear", "clockReq"})
Reported(p) == Rounds(day[p], pc[p] \notin {"unborn", "lockDayEnd", "waitZero", "clear",
                                            "checkClear", "clockReq", "ready"})
Started(p)  == Rounds(day[p], pc[p] \notin {"unborn", "lockDayEnd", "waitZero", "clear",
                                            "checkClear", "clockReq", "ready", "lockStart"})

(* How often the clock has filled DAY_END, and its side of the others.       *)
Generation    == IF cpc = "setup" THEN 0 ELSE cday + 1
Setting       == {"setup", "lockAdd", "readAdd", "lockAddAgain", "relNewUsers", "userReqs",
                  "workerReqs", "checkEmpty", "ready"}
ClockTold     == Rounds(cday, cpc \notin {"setup", "lockAdd"})
ClockReported == Rounds(cday, cpc \notin Setting)
ClockStarted  == Rounds(cday, cpc \notin Setting \cup {"lockStart"})

(* After an explosion the manager repeats the barrier without counting the   *)
(* day.                                                                      *)
Exploded == sem["STOP_SIM_EXPLODE"] = 1
Round    == IF Exploded /\ mpc # "clockExplode" THEN mday + 1 ELSE mday
Gathering == {"lockDayEnd", "waitZero", "tryAddUsers", "clockNoUsers", "forkUsers",
              "clockNewUsers", "initSeats", "lockReady", "exLockDayEnd", "exWaitZero",
              "exLockReady"}
MTaken    == Rounds(Round, mpc \notin {"lockDayEnd", "exLockDayEnd"})
MPassed   == Rounds(Round, mpc \notin {"lockDayEnd", "exLockDayEnd", "waitZero", "exWaitZero"})
MGathered == Rounds(Round, mpc \notin Gathering)
MOpened   == Rounds(Round, mpc \notin Gathering \cup {"setStart", "exSetStart"})
MTold     == IF mpc \in {"initSeats", "lockReady", "setStart", "getStats"} \/ Exploded
             THEN Round + 1 ELSE Round

(* The users DAY_END has units for, and those who take part in the barrier.  *)
Funded   == IF cpc = "relNewUsers" THEN cUsers - N_NEW_USERS ELSE cUsers
Staff(n) == Workers \cup Numbered(n) \cup {Dispenser}
Counted(n) == n \in Nat /\ IsFiniteSet(Numbered(n)) /\ Cardinality(Numbered(n)) = n

(* The points that only some rounds have.                                    *)
PlacesInv ==
  /\ sem["STOP_SIM_EXPLODE"] \in {0, 1}
  /\ mpc \in {"lockDayEnd", "waitZero", "tryAddUsers", "clockNoUsers", "forkUsers",
              "clockNewUsers", "initSeats", "lockReady", "setStart", "getStats"} => ~Exploded
  /\ mpc \in {"clockExplode", "exLockDayEnd", "exWaitZero", "exLockReady", "exSetStart"}
       => Exploded
  /\ mpc \in {"exLockDayEnd", "exWaitZero", "exLockReady", "exSetStart"}
       => mday + 1 < SIM_DURATION
  /\ mpc = "canDie" \/ (mpc \in {"waitpid", "done"} /\ ~Exploded) => Round = SIM_DURATION
  /\ Round <= SIM_DURATION
  /\ cpc = "setup" => cday = 0
  /\ cpc = "canDie" => cday = SIM_DURATION
  /\ \A p \in Members : pc[p] = "canDie" => day[p] = SIM_DURATION

(* Newcomers exist from the fork of the manager on; until the clock has      *)
(* released their units of DAY_END they wait, and there is none to steal.    *)
Adding == {"clockNewUsers", "initSeats", "lockReady"}
UsersInv ==
  /\ \E k \in Nat :
       /\ mUsers = Cardinality(Users) + k * N_NEW_USERS
       /\ k + sem["ADD_USERS"] + Bit(mpc = "forkUsers") = requests
  /\ Counted(mUsers) /\ Counted(cUsers) /\ Counted(Funded)
  /\ \A p \in Members : pc[p] # "unborn" <=> p \in Staff(mUsers)
  /\ Funded <= cUsers /\ cUsers <= mUsers
  /\ \A p \in Staff(mUsers) \ Staff(Funded) :
       /\ pc[p] = "lockDayEnd" /\ day[p] = MGathered /\ day[p] + 1 = Generation
       /\ mpc \in Adding /\ sem["DAY_END"] = 0
       /\ cpc \in {"lockAdd", "readAdd", "lockAddAgain", "relNewUsers"}

(* CLOCK_ADD_USERS carries one unit a day, or two when users were added.     *)
ToldInv ==
  /\ MTold \in {ClockTold, ClockTold + 1}
  /\ MTold = ClockTold + 1 =>
       \/ sem["CLOCK_ADD_USERS"] = 1 /\ cUsers = mUsers
       \/ sem["CLOCK_ADD_USERS"] = 2 /\ cUsers + N_NEW_USERS = mUsers
  /\ MTold = ClockTold =>
       /\ cpc = "readAdd" =>
            \/ sem["CLOCK_ADD_USERS"] = 0 /\ cUsers = mUsers
            \/ sem["CLOCK_ADD_USERS"] = 1 /\ cUsers + N_NEW_USERS = mUsers
       /\ cpc = "lockAddAgain" =>
            sem["CLOCK_ADD_USERS"] = 1 /\ cUsers + N_NEW_USERS = mUsers
       /\ cpc \notin {"readAdd", "lockAddAgain"} =>
            /\ sem["CLOCK_ADD_USERS"] = 0
            /\ mpc = "clockNewUsers" => cUsers + N_NEW_USERS = mUsers
            /\ mpc # "clockNewUsers" => cUsers = mUsers

(* DAY_END holds a unit for everybody who has not taken the one of the       *)
(* generation.                                                               *)
DayEndInv ==
  /\ \A p \in Staff(mUsers) : Taken(p) \in {Generation - 1, Generation}
  /\ MTaken \in {Generation - 1, Generation}
  /\ sem["DAY_END"] = Cardinality({p \in Staff(Funded) : Taken(p) < Generation})
                        + Bit(MTaken < Generation)

(* Nobody passes before everybody has taken, the newcomers of the day aside. *)
Late(p, n) == mpc \in Adding /\ pc[p] = "lockDayEnd" /\ day[p] = MGathered /\ n = MGathered + 1
PassInv ==
  \A p \in Staff(mUsers) :
    /\ \A q \in Staff(mUsers) : Passed(q) <= Taken(p) \/ Late(p, Passed(q))
    /\ MPassed <= Taken(p) \/ Late(p, MPassed)
    /\ Passed(p) <= MTaken

(* PROC_READY holds a unit of everybody who is ready and not yet counted.    *)
GatherInv ==
  /\ \A p \in Staff(mUsers) : Reported(p) \in {MGathered, MGathered + 1}
  /\ ClockReported \in {MGathered, MGathered + 1}
  /\ sem["PROC_READY"] = Cardinality({p \in Staff(mUsers) : Reported(p) > MGathered})
                           + Bit(ClockReported > MGathered)

(* START holds a unit for everybody who has not started the day.             *)
StartInv ==
  /\ \A p \in Staff(mUsers) : Started(p) \in {MOpened - 1, MOpened}
  /\ ClockStarted \in {MOpened - 1, MOpened}
  /\ sem["START"] = Cardinality({p \in Staff(mUsers) : Started(p) < MOpened})
                      + Bit(ClockStarted < MOpened)

(* The requests of the day: who has sent its own, and whom the clock heard.  *)
Callers == Workers \cup Numbered(mUsers)
Heard   == {p \in Callers : Asked(p) > cday /\ p \notin clockQueue}
RequestInv ==
  /\ \A p \in clockQueue : p \in Callers /\ Asked(p) > cday
  /\ cpc \in {"setup", "lockAdd", "readAdd", "lockAddAgain", "relNewUsers"} => Heard = {}
  /\ cpc \in {"lockAddAgain", "relNewUsers"} => heard = 0
  /\ cpc = "userReqs" => Heard \subseteq AllUsers /\ heard = Cardinality(Heard)
  /\ cpc = "workerReqs" =>
       Numbered(mUsers) \subseteq Heard /\ heard = Cardinality(Heard \cap Workers)
  /\ cpc \in {"checkEmpty", "ready", "lockStart", "readExplode"} \cup Open => Heard = Callers
  /\ cpc \in {"canDie", "exited"} => clockQueue = {}

(* A queue that has been cleared stays empty until its owner has looked.     *)
MailInv ==
  /\ cpc # "fatal"
  /\ \A p \in Members : pc[p] # "fatal" /\ (pc[p] = "checkClear" => mail[p] = {})

(* The statistics of the day: who has sent them, and how many came.          *)
SentStats == {p \in Callers : day[p] > mday}
StatsInv ==
  /\ \A p \in Callers : day[p] >= Round
  /\ mpc = "getStats" =>
       /\ statsQueue \subseteq SentStats \X {mday}
       /\ got + Cardinality(statsQueue) = Cardinality(SentStats)
  /\ mpc # "getStats" => statsQueue = {}
  /\ mpc = "clockExplode" => SentStats = Callers

DayInv ==
  /\ TypeInv /\ PlacesInv /\ UsersInv /\ ToldInv /\ DayEndInv /\ PassInv
  /\ GatherInv /\ StartInv /\ RequestInv /\ MailInv /\ StatsInv /\ NoWorkAfterExplosion

----------------------------------------------------------------------------
(* How far a process can be within its own day. *)

LEMMA MemberOrder ==
  ASSUME TypeInv, NEW p \in Members
  PROVE  /\ day[p] \in Nat /\ Started(p) \in Nat /\ Reported(p) \in Nat
         /\ Asked(p) \in Nat /\ Passed(p) \in Nat /\ Taken(p) \in Nat
         /\ day[p] <= Started(p) /\ Started(p) <= Reported(p) /\ Reported(p) <= Asked(p)
         /\ Asked(p) <= Passed(p) /\ Passed(p) <= Taken(p) /\ Taken(p) <= day[p] + 1
BY CountsAreNatural
   DEF TypeInv, TypeOK, Rounds, Started, Reported, Asked, Passed, Taken

LEMMA ClockOrder ==
  ASSUME TypeInv, PlacesInv
  PROVE  /\ cday \in Nat /\ ClockStarted \in Nat /\ ClockReported \in Nat
         /\ ClockTold \in Nat /\ Generation \in Nat
         /\ cday <= ClockStarted /\ ClockStarted <= ClockReported
         /\ ClockReported <= ClockTold /\ ClockTold <= Generation /\ Generation <= cday + 1
BY CountsAreNatural
   DEF TypeInv, TypeOK, PlacesInv, Rounds, ClockStarted, ClockReported, ClockTold,
       Generation, Setting

LEMMA ManagerOrder ==
  ASSUME TypeInv, PlacesInv
  PROVE  /\ Round \in Nat /\ MOpened \in Nat /\ MGathered \in Nat
         /\ MPassed \in Nat /\ MTaken \in Nat /\ MTold \in Nat
         /\ mday <= Round /\ Round <= MOpened /\ MOpened <= MGathered
         /\ MGathered <= MPassed
         /\ MPassed <= MTaken /\ MTaken <= Round + 1
         /\ Round <= MTold /\ MTold <= Round + 1
BY CountsAreNatural
   DEF TypeInv, TypeOK, PlacesInv, Rounds, Round, MOpened, MGathered, MPassed, MTaken,
       MTold, Gathering

(* How many take part in the barrier. *)
LEMMA CrewSize ==
  ASSUME NEW n, Counted(n)
  PROVE  /\ IsFiniteSet(Staff(n)) /\ Staff(n) \subseteq Members
         /\ Cardinality(Staff(n)) = Cardinality(Workers) + n + 1
         /\ IsFiniteSet(Workers \cup Numbered(n))
         /\ Cardinality(Workers \cup Numbered(n)) = Cardinality(Workers) + n
         /\ Users \subseteq Numbered(n) /\ Numbered(n) \subseteq AllUsers
         /\ StartSemCount(n) = Cardinality(Staff(n)) + 1
<1>1. Users \subseteq Numbered(n) /\ Numbered(n) \subseteq AllUsers
  BY DEF Numbered, AllUsers, Newcomers
<1>2. Workers \cap Numbered(n) = {}
  BY <1>1, DistinctAssumption
<1>3. Dispenser \notin Workers \cup Numbered(n)
  BY <1>1, DistinctAssumption DEF Reporters
<1>4. /\ IsFiniteSet(Workers \cup Numbered(n))
      /\ Cardinality(Workers \cup Numbered(n)) = Cardinality(Workers) + n
  <2>1. Cardinality(Workers \cap Numbered(n)) = 0
    BY <1>2, FS_EmptySet
  <2>2. IsFiniteSet(Numbered(n)) /\ Cardinality(Numbered(n)) = n /\ n \in Nat
    BY DEF Counted
  <2>3. /\ IsFiniteSet(Workers \cup Numbered(n))
        /\ Cardinality(Workers \cup Numbered(n))
             = Cardinality(Workers) + Cardinality(Numbered(n)) - Cardinality(Workers \cap Numbered(n))
    BY <2>2, FS_Union, FiniteAssumption
  <2> QED BY <2>1, <2>2, <2>3, CountsAreNatural
<1>5. /\ IsFiniteSet(Staff(n))
      /\ Cardinality(Staff(n)) = Cardinality(Workers) + n + 1
  BY <1>3, <1>4, FS_AddElement DEF Staff
<1> QED
  BY <1>1, <1>4, <1>5, CountsAreNatural
     DEF Staff, Members, StartSemCount, Counted

LEMMA CrewGrows ==
  ASSUME NEW n \in Nat, NEW m \in Nat, n <= m
  PROVE  Numbered(n) \subseteq Numbered(m) /\ Staff(n) \subseteq Staff(m)
<1>1. Numbered(n) \subseteq Numbered(m)
  <2>1. \A j \in DOMAIN NewUsers : Cardinality(Users) + j * N_NEW_USERS \in Nat
    BY CountsAreNatural, FiniteAssumption
  <2>2. \A j \in DOMAIN NewUsers : Cardinality(Users) + j * N_NEW_USERS <= n
                                 => Cardinality(Users) + j * N_NEW_USERS <= m
    BY <2>1
  <2> QED BY <2>2 DEF Numbered
<1> QED BY <1>1 DEF Staff

LEMMA Products ==
  ASSUME NEW a \in Nat, NEW b \in Nat, NEW n \in Nat \ {0}
  PROVE  /\ a * n \in Nat /\ (a + 1) * n = a * n + n
         /\ a * n <= b * n <=> a <= b
<1>1. a * n \in Nat /\ b * n \in Nat /\ (a + 1) * n = a * n + n
  OBVIOUS
<1>2. ASSUME a <= b PROVE a * n <= b * n
  BY <1>2
<1>3. ASSUME a > b PROVE a * n > b * n
  BY <1>3
<1> QED BY <1>1, <1>2, <1>3

(* The next batch of new users takes the next N_NEW_USERS numbers. *)
LEMMA NextBatch ==
  ASSUME NEW k \in Nat, k + 1 \in DOMAIN NewUsers,
         Counted(Cardinality(Users) + k * N_NEW_USERS)
  PROVE  Counted(Cardinality(Users) + k * N_NEW_USERS + N_NEW_USERS)
<1> DEFINE n == Cardinality(Users) + k * N_NEW_USERS
           Upto(x) == {j \in DOMAIN NewUsers : Cardinality(Users) + j * N_NEW_USERS <= x}
           new == NewUsers[k + 1]
<1>1. n \in Nat /\ N_NEW_USERS \in Nat /\ Len(NewUsers) \in Nat
      /\ DOMAIN NewUsers = 1..Len(NewUsers)
  BY CountsAreNatural, FiniteAssumption DEF Counted
<1>2. IsFiniteSet(new) /\ Cardinality(new) = N_NEW_USERS
  BY FiniteAssumption, DistinctAssumption
<1>3. CASE N_NEW_USERS = 0
  <2>1. n + N_NEW_USERS = n
    BY <1>1, <1>3
  <2> QED BY <2>1
<1>4. CASE N_NEW_USERS # 0
  <2>1. \A j \in DOMAIN NewUsers : j \in Upto(n) <=> j <= k
    <3>1. \A j \in Nat : j * N_NEW_USERS \in Nat
                         /\ (j * N_NEW_USERS <= k * N_NEW_USERS <=> j <= k)
      BY <1>1, <1>4, Products
    <3>2. DOMAIN NewUsers \subseteq Nat
      BY <1>1
    <3>3. \A j \in DOMAIN NewUsers :
            Cardinality(Users) + j * N_NEW_USERS <= Cardinality(Users) + k * N_NEW_USERS <=> j <= k
      <4> SUFFICES ASSUME NEW j \in DOMAIN NewUsers
                   PROVE  Cardinality(Users) + j * N_NEW_USERS
                            <= Cardinality(Users) + k * N_NEW_USERS <=> j <= k
        OBVIOUS
      <4> DEFINE a == j * N_NEW_USERS  b == k * N_NEW_USERS
      <4>1. a \in Nat /\ b \in Nat /\ (a <= b <=> j <= k)
        BY <3>1, <3>2
      <4> HIDE DEF a, b
      <4>2. Cardinality(Users) + a <= Cardinality(Users) + b <=> j <= k
        BY <4>1, CountsAreNatural
      <4> QED BY <4>2 DEF a, b
    <3> QED BY <3>3
  <2>2. \A j \in DOMAIN NewUsers : j \in Upto(n + N_NEW_USERS) <=> j <= k + 1
    <3>1. \A j \in Nat : j * N_NEW_USERS \in Nat
                         /\ (j * N_NEW_USERS <= (k + 1) * N_NEW_USERS <=> j <= k + 1)
      BY <1>1, <1>4, Products
    <3>2. DOMAIN NewUsers \subseteq Nat
      BY <1>1
    <3>3. (k + 1) * N_NEW_USERS = k * N_NEW_USERS + N_NEW_USERS
      BY <1>1, <1>4, Products
    <3>4. \A j \in DOMAIN NewUsers :
            Cardinality(Users) + j * N_NEW_USERS
              <= Cardinality(Users) + k * N_NEW_USERS + N_NEW_USERS <=> j <= k + 1
      <4> SUFFICES ASSUME NEW j \in DOMAIN NewUsers
                   PROVE  Cardinality(Users) + j * N_NEW_USERS
                            <= Cardinality(Users) + k * N_NEW_USERS + N_NEW_USERS <=> j <= k + 1
        OBVIOUS
      <4> DEFINE a == j * N_NEW_USERS  b == k * N_NEW_USERS  c == (k + 1) * N_NEW_USERS
      <4>1. a \in Nat /\ b \in Nat /\ c \in Nat /\ (a <= c <=> j <= k + 1)
        BY <1>1, <3>1, <3>2
      <4>2. c = b + N_NEW_USERS
        BY <3>3
      <4> HIDE DEF a, b, c
      <4>3. Cardinality(Users) + a <= Cardinality(Users) + b + N_NEW_USERS <=> j <= k + 1
        BY <4>1, <4>2, CountsAreNatural
      <4> QED BY <4>3 DEF a, b
    <3> QED BY <3>4
  <2>3. Upto(n + N_NEW_USERS) = Upto(n) \cup {k + 1} /\ k + 1 \notin Upto(n)
    <3>1. Upto(n) \subseteq DOMAIN NewUsers /\ Upto(n + N_NEW_USERS) \subseteq DOMAIN NewUsers
      OBVIOUS
    <3>2. \A j \in DOMAIN NewUsers : j <= k + 1 <=> j <= k \/ j = k + 1
      BY <1>1
    <3>3. ~ (k + 1 <= k)
      OBVIOUS
    <3> HIDE DEF Upto, n
    <3> QED BY <2>1, <2>2, <3>1, <3>2, <3>3, Zenon
  <2>4. Numbered(n + N_NEW_USERS) = Numbered(n) \cup new
    BY <2>3 DEF Numbered
  <2>5. Numbered(n) \cap new = {}
    <3>1. new \subseteq Newcomers
      BY DEF Newcomers
    <3>2. \A i \in Upto(n) : NewUsers[i] \cap new = {}
      BY <2>3, DistinctAssumption
    <3> QED BY <3>1, <3>2, DistinctAssumption DEF Numbered
  <2>6. Cardinality(Numbered(n) \cap new) = 0
    BY <2>5, FS_EmptySet
  <2> HIDE DEF n, new, Upto
  <2>7. Counted(n)
    BY DEF n
  <2>8. IsFiniteSet(Numbered(n) \cup new)
        /\ Cardinality(Numbered(n) \cup new) = n + N_NEW_USERS
    <3>1. IsFiniteSet(Numbered(n)) /\ Cardinality(Numbered(n)) = n
      BY <2>7 DEF Counted
    <3>2. /\ IsFiniteSet(Numbered(n) \cup new)
          /\ Cardinality(Numbered(n) \cup new)
               = Cardinality(Numbered(n)) + Cardinality(new) - Cardinality(Numbered(n) \cap new)
      BY <1>2, <3>1, FS_Union
    <3> QED BY <1>1, <1>2, <2>6, <3>1, <3>2
  <2>9. Counted(n + N_NEW_USERS)
    <3>1. n + N_NEW_USERS \in Nat
      BY <1>1
    <3> QED BY <2>4, <2>8, <3>1 DEF Counted
  <2> QED BY <2>9 DEF n
<1> QED BY <1>3, <1>4

----------------------------------------------------------------------------
(* What a step moves. *)

(* The counters of a member that leaves its core do not change: the day it   *)
(* has finished is counted in all of them.                                   *)
LEMMA DayChange ==
  ASSUME TypeInv, NEW p \in Members, pc[p] \in {"core", "stats"}, NextDay(p)
  PROVE  /\ Taken(p)' = Taken(p) /\ Passed(p)' = Passed(p) /\ Asked(p)' = Asked(p)
         /\ Reported(p)' = Reported(p) /\ Started(p)' = Started(p)
         /\ pc'[p] \in {"lockDayEnd", "canDie"} /\ day'[p] = day[p] + 1
         /\ pc'[p] = "canDie" => day'[p] = SIM_DURATION
         /\ \A q \in Members \ {p} : pc'[q] = pc[q] /\ day'[q] = day[q]
BY CountsAreNatural
   DEF TypeInv, TypeOK, DaysBounded, NextDay, Taken, Passed, Asked, Reported, Started, Rounds

MemberCounters(p) == <<Taken(p), Passed(p), Asked(p), Reported(p), Started(p)>>
ClockCounters     == <<Generation, ClockTold, ClockReported, ClockStarted>>
ManagerCounters   == <<MTaken, MPassed, MGathered, MOpened, MTold, Round>>

(* A step of a member moves one of its counters at most, and its semaphore.  *)
LEMMA MemberFrame ==
  ASSUME TypeInv, PlacesInv, MailInv, NEW p \in Members, MemberStep(p) \/ SendWork(p)
  PROVE  /\ UNCHANGED <<mpc, mday, mUsers, got, cpc, cday, cUsers, heard, requests>>
         /\ UNCHANGED <<sem["ADD_USERS"], sem["CLOCK_ADD_USERS"], sem["STOP_SIM_EXPLODE"]>>
         /\ \A q \in Members \ {p} : pc'[q] = pc[q] /\ day'[q] = day[q]
         /\ pc[p] # "unborn" /\ pc'[p] # "unborn"
         /\ pc'[p] = "canDie" => day'[p] = SIM_DURATION
         /\ day'[p] = day[p] \/ day'[p] = day[p] + 1
         /\ ~MemberLockDayEnd(p) => UNCHANGED <<Taken(p), sem["DAY_END"]>>
         /\ ~MemberWaitZero(p)   => UNCHANGED Passed(p)
         /\ p # Dispenser /\ ~SendClockReq(p) => UNCHANGED Asked(p)
         /\ ~MemberReady(p)      => UNCHANGED <<Reported(p), sem["PROC_READY"]>>
         /\ ~MemberLockStart(p)  => UNCHANGED <<Started(p), sem["START"]>>
<1> USE DEF TypeInv, TypeOK, PlacesInv, Goto, MemberStays, managerVars, clockVars, queues,
            memberVars, SemNames
<1> USE CountsAreNatural
<1>1. CASE MemberLockDayEnd(p)
  BY <1>1 DEF MemberLockDayEnd, LockSem, Taken, Passed, Asked, Reported, Started, Rounds
<1>2. CASE MemberWaitZero(p)
  BY <1>2 DEF MemberWaitZero, WaitZeroSem, Taken, Passed, Asked, Reported, Started, Rounds
<1>3. CASE ClearMsgQueue(p)
  BY <1>3 DEF ClearMsgQueue, Taken, Passed, Asked, Reported, Started, Rounds
<1>4. CASE CheckCleared(p)
  BY <1>4 DEF CheckCleared, MailInv, Taken, Passed, Asked, Reported, Started, Rounds
<1>5. CASE SendClockReq(p)
  BY <1>5 DEF SendClockReq, Taken, Passed, Asked, Reported, Started, Rounds
<1>6. CASE MemberReady(p)
  BY <1>6 DEF MemberReady, ReleaseSem, Taken, Passed, Asked, Reported, Started, Rounds
<1>7. CASE MemberLockStart(p)
  BY <1>7 DEF MemberLockStart, LockSem, Taken, Passed, Asked, Reported, Started, Rounds
<1>8. CASE MemberReadExplode(p)
  BY <1>8 DEF MemberReadExplode, Taken, Passed, Asked, Reported, Started, Rounds
<1>9. ASSUME pc[p] = "core", LeaveCore(p), UNCHANGED <<sem, managerVars, clockVars, requests>>
      PROVE  /\ UNCHANGED MemberCounters(p)
             /\ \A q \in Members \ {p} : pc'[q] = pc[q] /\ day'[q] = day[q]
             /\ pc'[p] # "unborn"
             /\ pc'[p] = "canDie" => day'[p] = SIM_DURATION
             /\ day'[p] = day[p] \/ day'[p] = day[p] + 1
  <2>1. CASE p = Dispenser /\ NextDay(p)
    BY <1>9, <2>1, DayChange DEF MemberCounters
  <2>2. CASE p # Dispenser /\ Goto(p, "core", "stats") /\ UNCHANGED day
    BY <1>9, <2>2 DEF MemberCounters, Taken, Passed, Asked, Reported, Started, Rounds
  <2> QED BY <1>9, <2>1, <2>2 DEF LeaveCore
<1>10. CASE ReceiveDayEnded(p)
  BY <1>9, <1>10 DEF ReceiveDayEnded, MemberCounters
<1>11. CASE ReceivePause(p)
  <2>1. CASE LeaveCore(p)
    BY <1>9, <1>11, <2>1 DEF ReceivePause, MemberCounters
  <2>2. CASE UNCHANGED memberVars
    BY <1>11, <2>2 DEF ReceivePause, Taken, Passed, Asked, Reported, Started, Rounds
  <2> QED BY <1>11, <2>1, <2>2 DEF ReceivePause
<1>12. CASE ReceiveWork(p)
  BY <1>12 DEF ReceiveWork, Taken, Passed, Asked, Reported, Started, Rounds
<1>13. CASE SendStats(p)
  <2>1. NextDay(p) /\ pc[p] = "stats"
        /\ UNCHANGED <<sem, managerVars, clockVars, requests>>
    BY <1>13 DEF SendStats
  <2> QED BY <2>1, DayChange
<1>14. CASE MemberCanDie(p)
  <2>1. day[p] = SIM_DURATION
    BY <1>14 DEF MemberCanDie
  <2> QED BY <1>14, <2>1 DEF MemberCanDie, LockSem, Taken, Passed, Asked, Reported, Started, Rounds
<1>15. CASE SendWork(p)
  BY <1>15 DEF SendWork, Taken, Passed, Asked, Reported, Started, Rounds
<1> QED
  BY <1>1, <1>2, <1>3, <1>4, <1>5, <1>6, <1>7, <1>8, <1>10, <1>11, <1>12, <1>13, <1>14,
     <1>15, Zenon DEF MemberStep

(* A request that overtakes the clock would stop it: there is none.          *)
LEMMA NoRequestLeft ==
  ASSUME RequestInv, cpc = "checkEmpty"
  PROVE  clockQueue = {}
BY DEF RequestInv, Heard

(* A step of the clock.                                                      *)
LEMMA ClockFrame ==
  ASSUME TypeInv, PlacesInv, RequestInv, Counted(Funded),
         ClockStep \/ SendWorkerPause \/ SendUserNotific
  PROVE  /\ UNCHANGED <<mpc, mday, mUsers, got, pc, day, statsQueue, requests>>
         /\ UNCHANGED <<sem["ADD_USERS"], sem["STOP_SIM_EXPLODE"]>>
         /\ cpc' # "setup" /\ cpc' # "fatal"
         /\ cpc' = "canDie" => cday' = SIM_DURATION
         /\ ~ClockReleaseDayEnd => UNCHANGED cday
         /\ ~ClockAddNewUsers   => UNCHANGED cUsers
         /\ ~ClockReleaseNewUsers => UNCHANGED Funded
         /\ ~(ClockSetup \/ ClockReleaseDayEnd) => UNCHANGED Generation
         /\ ~(ClockSetup \/ ClockReleaseDayEnd \/ ClockReleaseNewUsers)
              => UNCHANGED sem["DAY_END"]
         /\ ~ClockLockAdd   => UNCHANGED ClockTold
         /\ ~(ClockLockAdd \/ ClockAddNewUsers) => UNCHANGED sem["CLOCK_ADD_USERS"]
         /\ ~ClockReady     => UNCHANGED <<ClockReported, sem["PROC_READY"]>>
         /\ ~ClockLockStart => UNCHANGED <<ClockStarted, sem["START"]>>
<1> USE CountsAreNatural
    DEF TypeInv, TypeOK, DaysBounded, PlacesInv, ClockGoto, ClockStays, managerVars, memberVars,
        queues, SemNames
<1>1. CASE ClockSetup
  BY <1>1 DEF ClockSetup, ReleaseSemVal, Generation, Funded, ClockTold, ClockReported, ClockStarted, Rounds, Setting
<1>2. CASE ClockLockAdd
  BY <1>2 DEF ClockLockAdd, LockSem, Generation, Funded, ClockTold, ClockReported, ClockStarted, Rounds, Setting
<1>3. CASE ClockReadAdd
  BY <1>3 DEF ClockReadAdd, Generation, Funded, ClockTold, ClockReported, ClockStarted, Rounds, Setting
<1>4. CASE ClockAddNewUsers
  BY <1>4 DEF ClockAddNewUsers, LockSem, Counted, Generation, Funded, ClockTold, ClockReported, ClockStarted, Rounds, Setting
<1>5. CASE ClockReleaseNewUsers
  BY <1>5 DEF ClockReleaseNewUsers, ReleaseSemVal, Generation, Funded, ClockTold, ClockReported, ClockStarted, Rounds, Setting
<1>6. CASE SetupUserNotific
  BY <1>6 DEF SetupUserNotific, Hear, Generation, Funded, ClockTold, ClockReported, ClockStarted, Rounds, Setting
<1>7. CASE SetupWorkerPause
  BY <1>7 DEF SetupWorkerPause, Hear, Generation, Funded, ClockTold, ClockReported, ClockStarted, Rounds, Setting
<1>8. CASE ClockCheckEmpty
  BY <1>8, NoRequestLeft DEF ClockCheckEmpty, Generation, Funded, ClockTold, ClockReported, ClockStarted, Rounds, Setting
<1>9. CASE ClockReady
  BY <1>9 DEF ClockReady, ReleaseSem, Generation, Funded, ClockTold, ClockReported, ClockStarted, Rounds, Setting
<1>10. CASE ClockLockStart
  BY <1>10 DEF ClockLockStart, LockSem, Generation, Funded, ClockTold, ClockReported, ClockStarted, Rounds, Setting
<1>11. CASE ClockReadExplode
  BY <1>11 DEF ClockReadExplode, Generation, Funded, ClockTold, ClockReported, ClockStarted, Rounds, Setting
<1>12. CASE ClockDayOver
  BY <1>12 DEF ClockDayOver, Generation, Funded, ClockTold, ClockReported, ClockStarted, Rounds, Setting
<1>13. CASE SendMsgDayEnded
  BY <1>13 DEF SendMsgDayEnded, TellDayEnded, Generation, Funded, ClockTold, ClockReported, ClockStarted, Rounds, Setting
<1>14. CASE ClockReleaseDayEnd
  BY <1>14 DEF ClockReleaseDayEnd, ReleaseSemVal, Generation, Funded, ClockTold, ClockReported, ClockStarted, Rounds, Setting
<1>15. CASE ClockCanDie
  BY <1>15 DEF ClockCanDie, LockSem, Generation, Funded, ClockTold, ClockReported, ClockStarted, Rounds, Setting
<1>16. CASE SendWorkerPause
  BY <1>16 DEF SendWorkerPause, ClockSend, clockVars, Generation, Funded, ClockTold, ClockReported, ClockStarted, Rounds, Setting
<1>17. CASE SendUserNotific
  BY <1>17 DEF SendUserNotific, ClockSend, clockVars, Generation, Funded, ClockTold, ClockReported, ClockStarted, Rounds, Setting
<1> QED
  BY <1>1, <1>2, <1>3, <1>4, <1>5, <1>6, <1>7, <1>8, <1>9, <1>10, <1>11, <1>12, <1>13, <1>14, <1>15, <1>16, <1>17, Zenon DEF ClockStep

(* A step of the manager.                                                    *)
LEMMA ManagerFrame ==
  ASSUME TypeInv, PlacesInv, ManagerStep
  PROVE  /\ UNCHANGED <<cpc, cday, cUsers, heard, mail, clockQueue, requests>>
         /\ ~InitNewUsers => UNCHANGED <<pc, day, mUsers>>
         /\ ~DayCounted   => UNCHANGED mday
         /\ ~GetStats     => UNCHANGED statsQueue
         /\ ~(GetStats \/ ManagerSetStart) => UNCHANGED got
         /\ ~Explode      => UNCHANGED <<sem["STOP_SIM_EXPLODE"], Exploded>>
         /\ ~TryAddUsers  => UNCHANGED sem["ADD_USERS"]
         /\ ~(DayCounted \/ ClockExplode) => UNCHANGED Round
         /\ ~ManagerLockDayEnd => UNCHANGED <<MTaken, sem["DAY_END"]>>
         /\ ~ManagerWaitZero   => UNCHANGED MPassed
         /\ ~ManagerLockReady  => UNCHANGED <<MGathered, sem["PROC_READY"]>>
         /\ ~ManagerSetStart   => UNCHANGED <<MOpened, sem["START"]>>
         /\ ~(ClockNoUsers \/ ClockNewUsers \/ ClockExplode)
              => UNCHANGED <<MTold, sem["CLOCK_ADD_USERS"]>>
<1> USE CountsAreNatural
    DEF TypeInv, TypeOK, DaysBounded, PlacesInv, ManagerGoto, ManagerStays, clockVars, memberVars,
        queues, SemNames
<1>1. CASE ManagerLockDayEnd
  BY <1>1 DEF ManagerLockDayEnd, LockSem, Exploded, Round, MTaken, MPassed, MGathered, MOpened, MTold, Rounds, Gathering
<1>2. CASE ManagerWaitZero
  BY <1>2 DEF ManagerWaitZero, WaitZeroSem, Exploded, Round, MTaken, MPassed, MGathered, MOpened, MTold, Rounds, Gathering
<1>3. CASE TryAddUsers
  BY <1>3 DEF TryAddUsers, LockSem, Exploded, Round, MTaken, MPassed, MGathered, MOpened, MTold, Rounds, Gathering
<1>4. CASE ClockNoUsers
  BY <1>4 DEF ClockNoUsers, ReleaseSem, Exploded, Round, MTaken, MPassed, MGathered, MOpened, MTold, Rounds, Gathering
<1>5. CASE InitNewUsers
  BY <1>5 DEF InitNewUsers, Exploded, Round, MTaken, MPassed, MGathered, MOpened, MTold, Rounds, Gathering
<1>6. CASE ClockNewUsers
  BY <1>6 DEF ClockNewUsers, ReleaseSemVal, Exploded, Round, MTaken, MPassed, MGathered, MOpened, MTold, Rounds, Gathering
<1>7. CASE InitSeats
  BY <1>7 DEF InitSeats, Exploded, Round, MTaken, MPassed, MGathered, MOpened, MTold, Rounds, Gathering
<1>8. CASE ManagerLockReady
  BY <1>8 DEF ManagerLockReady, LockSemVal, Exploded, Round, MTaken, MPassed, MGathered, MOpened, MTold, Rounds, Gathering
<1>9. CASE ManagerSetStart
  BY <1>9 DEF ManagerSetStart, SetSemVal, Exploded, Round, MTaken, MPassed, MGathered, MOpened, MTold, Rounds, Gathering
<1>10. CASE GetStats
  BY <1>10 DEF GetStats, Exploded, Round, MTaken, MPassed, MGathered, MOpened, MTold, Rounds, Gathering
<1>11. CASE DayCounted
  BY <1>11 DEF DayCounted, Exploded, Round, MTaken, MPassed, MGathered, MOpened, MTold, Rounds, Gathering
<1>12. CASE Explode
  BY <1>12 DEF Explode, ReleaseSem, Exploded, Round, MTaken, MPassed, MGathered, MOpened, MTold, Rounds, Gathering
<1>13. CASE ClockExplode
  BY <1>13 DEF ClockExplode, ReleaseSem, Exploded, Round, MTaken, MPassed, MGathered, MOpened, MTold, Rounds, Gathering
<1>14. CASE LetDie
  BY <1>14 DEF LetDie, ReleaseSemVal, Exploded, Round, MTaken, MPassed, MGathered, MOpened, MTold, Rounds, Gathering
<1>15. CASE WaitChildren
  BY <1>15 DEF WaitChildren, Exploded, Round, MTaken, MPassed, MGathered, MOpened, MTold, Rounds, Gathering
<1> QED
  BY <1>1, <1>2, <1>3, <1>4, <1>5, <1>6, <1>7, <1>8, <1>9, <1>10, <1>11, <1>12, <1>13, <1>14, <1>15, Zenon DEF ManagerStep

(* A run of add_users_main, or no step at all.                               *)
LEMMA OutsideFrame ==
  ASSUME TypeInv, AddUsersMain \/ UNCHANGED vars
  PROVE  /\ UNCHANGED <<mpc, mday, mUsers, got, cpc, cday, cUsers, heard, pc, day, mail,
                        clockQueue, statsQueue>>
         /\ \A s \in SemNames \ {"ADD_USERS"} : sem'[s] = sem[s]
         /\ \/ sem'["ADD_USERS"] = sem["ADD_USERS"] + 1 /\ requests' = requests + 1
            \/ UNCHANGED <<sem["ADD_USERS"], requests>>
         /\ UNCHANGED ManagerCounters /\ UNCHANGED ClockCounters
         /\ UNCHANGED <<Exploded, Funded>>
         /\ \A p : UNCHANGED MemberCounters(p)
<1>1. /\ UNCHANGED <<mpc, mday, mUsers, got, cpc, cday, cUsers, heard, pc, day, mail,
                     clockQueue, statsQueue>>
      /\ \A s \in SemNames \ {"ADD_USERS"} : sem'[s] = sem[s]
      /\ \/ sem'["ADD_USERS"] = sem["ADD_USERS"] + 1 /\ requests' = requests + 1
         \/ UNCHANGED <<sem["ADD_USERS"], requests>>
  BY DEF TypeInv, TypeOK, SemNames, AddUsersMain, ReleaseSemVal, vars, managerVars, clockVars,
         memberVars, queues
<1>2. UNCHANGED Exploded /\ UNCHANGED Round
  BY <1>1 DEF Exploded, Round, SemNames
<1>3. UNCHANGED ManagerCounters
  BY <1>1, <1>2 DEF ManagerCounters, MTaken, MPassed, MGathered, MOpened, MTold
<1>4. UNCHANGED ClockCounters /\ UNCHANGED Funded
  BY <1>1 DEF ClockCounters, Generation, ClockTold, ClockReported, ClockStarted, Funded
<1>5. \A p : UNCHANGED MemberCounters(p)
  BY <1>1 DEF MemberCounters, Taken, Passed, Asked, Reported, Started
<1> QED BY <1>1, <1>2, <1>3, <1>4, <1>5

(* The counters of the processes that do not move.                           *)
LEMMA ManagerCountersKept ==
  ASSUME UNCHANGED <<mpc, mday, sem["STOP_SIM_EXPLODE"]>>
  PROVE  UNCHANGED ManagerCounters /\ UNCHANGED Exploded
<1>1. UNCHANGED Exploded /\ UNCHANGED Round
  BY DEF Exploded, Round
<1> QED BY <1>1 DEF ManagerCounters, MTaken, MPassed, MGathered, MOpened, MTold

LEMMA ClockCountersKept ==
  ASSUME UNCHANGED <<cpc, cday, cUsers>>
  PROVE  UNCHANGED ClockCounters /\ UNCHANGED Funded
BY DEF ClockCounters, Generation, ClockTold, ClockReported, ClockStarted, Funded

LEMMA MemberCountersKept ==
  ASSUME NEW p, UNCHANGED <<pc[p], day[p]>>
  PROVE  UNCHANGED MemberCounters(p)
BY DEF MemberCounters, Taken, Passed, Asked, Reported, Started

(* The steps by whose they are.                                              *)
LEMMA StepCases ==
  [Next]_vars => \/ ManagerStep
                 \/ ClockStep \/ SendWorkerPause \/ SendUserNotific
                 \/ \E p \in Members : MemberStep(p) \/ SendWork(p)
                 \/ AddUsersMain \/ UNCHANGED vars
BY DEF Next, Finished

----------------------------------------------------------------------------
(* What the invariant says of a state. *)

LEMMA StaffIs ==
  ASSUME TypeInv, UsersInv
  PROVE  /\ Staff(mUsers) \subseteq Members /\ Callers \subseteq Staff(mUsers)
         /\ Staff(mUsers) = Callers \cup {Dispenser} /\ Callers \subseteq Reporters
         /\ Staff(cUsers) \subseteq Staff(mUsers) /\ Staff(Funded) \subseteq Staff(cUsers)
         /\ Dispenser \in Staff(mUsers) /\ Users \subseteq Callers
         /\ IsFiniteSet(Staff(mUsers)) /\ IsFiniteSet(Callers)
         /\ Cardinality(Callers) = Cardinality(Workers) + mUsers
         /\ Funded \in Nat /\ cUsers \in Nat /\ mUsers \in Nat
<1>1. Counted(mUsers) /\ Counted(cUsers) /\ Counted(Funded) /\ Funded <= cUsers /\ cUsers <= mUsers
  BY DEF UsersInv
<1>2. Funded \in Nat /\ cUsers \in Nat /\ mUsers \in Nat
  BY <1>1 DEF Counted
<1>3. Staff(cUsers) \subseteq Staff(mUsers) /\ Staff(Funded) \subseteq Staff(cUsers)
  BY <1>1, <1>2, CrewGrows
<1> QED BY <1>1, <1>2, <1>3, CrewSize DEF Staff, Callers, Reporters

(* All units of PROC_READY have come: everybody is ready.                    *)
LEMMA AllReady ==
  ASSUME TypeInv, PlacesInv, UsersInv, GatherInv,
         sem["PROC_READY"] >= StartSemCount(mUsers)
  PROVE  /\ \A p \in Staff(mUsers) : Reported(p) = MGathered + 1
         /\ ClockReported = MGathered + 1
         /\ sem["PROC_READY"] = StartSemCount(mUsers)
<1> DEFINE ready == {p \in Staff(mUsers) : Reported(p) > MGathered}
<1>1. IsFiniteSet(Staff(mUsers)) /\ StartSemCount(mUsers) = Cardinality(Staff(mUsers)) + 1
  BY CrewSize DEF UsersInv
<1>2. /\ Cardinality(ready) \in Nat /\ Cardinality(Staff(mUsers)) \in Nat
      /\ Cardinality(ready) <= Cardinality(Staff(mUsers))
      /\ Cardinality(ready) = Cardinality(Staff(mUsers)) => ready = Staff(mUsers)
  BY <1>1, FS_Subset, FS_CardinalityType
<1>3. sem["PROC_READY"] = Cardinality(ready) + Bit(ClockReported > MGathered)
  BY DEF GatherInv
<1>4. Cardinality(ready) = Cardinality(Staff(mUsers)) /\ ClockReported > MGathered
  BY <1>1, <1>2, <1>3 DEF Bit
<1>5. ready = Staff(mUsers)
  BY <1>2, <1>4
<1>6. MGathered \in Nat /\ ClockReported \in Nat
  BY ManagerOrder, ClockOrder
<1>7. ASSUME NEW p \in Staff(mUsers) PROVE Reported(p) = MGathered + 1
  <2>1. Reported(p) > MGathered
    BY <1>5
  <2> QED BY <1>6, <2>1 DEF GatherInv
<1> QED BY <1>1, <1>3, <1>4, <1>6, <1>7 DEF GatherInv, Bit

(* DAY_END is at zero when everybody has taken the unit of the generation.   *)
LEMMA AllTaken ==
  ASSUME TypeInv, PlacesInv, UsersInv, DayEndInv, sem["DAY_END"] = 0
  PROVE  /\ MTaken = Generation
         /\ \A p \in Staff(Funded) : Taken(p) = Generation
         /\ \A p \in Staff(mUsers) \ Staff(Funded) :
              pc[p] = "lockDayEnd" /\ day[p] = MGathered /\ mpc \in Adding
              /\ Generation = MGathered + 1
<1> DEFINE owing == {p \in Staff(Funded) : Taken(p) < Generation}
<1>1. IsFiniteSet(Staff(Funded)) /\ Staff(Funded) \subseteq Staff(mUsers)
  BY CrewSize, StaffIs DEF UsersInv
<1>2. IsFiniteSet(owing)
  BY <1>1, FS_Subset
<1>3. owing = {} /\ ~(MTaken < Generation)
  <2>1. Cardinality(owing) + Bit(MTaken < Generation) = 0
    BY DEF DayEndInv
  <2> HIDE DEF owing
  <2>2. Cardinality(owing) \in Nat /\ (Cardinality(owing) = 0 => owing = {})
    BY <1>2, FS_CardinalityType, FS_EmptySet
  <2> QED BY <2>1, <2>2 DEF Bit
<1>4. Generation \in Nat /\ MTaken \in Nat /\ MGathered \in Nat
  BY ClockOrder, ManagerOrder
<1>5. ASSUME NEW p \in Staff(Funded) PROVE Taken(p) = Generation
  BY <1>1, <1>3, <1>4 DEF DayEndInv
<1>6. MTaken = Generation
  BY <1>3, <1>4 DEF DayEndInv
<1> QED BY <1>4, <1>5, <1>6 DEF UsersInv

(* While the manager forks the new users everybody else has taken its unit   *)
(* of DAY_END, and the clock waits to be told.                               *)
LEMMA AtFork ==
  ASSUME TypeInv, PlacesInv, UsersInv, ToldInv, DayEndInv, PassInv, GatherInv,
         mpc \in {"tryAddUsers", "clockNoUsers", "forkUsers"}
  PROVE  /\ cpc = "lockAdd" /\ cday = mday /\ cUsers = mUsers /\ Funded = mUsers
         /\ Round = mday /\ MTold = mday /\ ClockTold = mday /\ MGathered = mday
         /\ MOpened = mday
         /\ MPassed = mday + 1 /\ Generation = mday + 1 /\ sem["DAY_END"] = 0
         /\ \A p \in Staff(mUsers) : Taken(p) = mday + 1
<1>1. ~Exploded /\ mday \in Nat /\ mday < SIM_DURATION /\ Round = mday
  BY CountsAreNatural DEF PlacesInv, Round, TypeInv, TypeOK, DaysBounded
<1>2. /\ MTold = mday /\ MGathered = mday /\ MOpened = mday /\ MPassed = mday + 1
      /\ MTaken = mday + 1
  BY <1>1, CountsAreNatural DEF MTold, MGathered, MOpened, MPassed, MTaken, Rounds, Gathering
<1>3. ClockTold = mday /\ ClockReported \in {mday, mday + 1}
  BY <1>1, <1>2, ClockOrder DEF ToldInv, GatherInv
<1>4. Generation = mday + 1 /\ cday = mday
  BY <1>1, <1>2, <1>3, ClockOrder DEF DayEndInv
<1>5. cpc = "lockAdd"
  BY <1>1, <1>3, <1>4, CountsAreNatural
     DEF ClockTold, Rounds, Generation, TypeInv, TypeOK, DaysBounded, ClockPCs, PlacesInv
<1>6. cUsers = mUsers /\ Funded = mUsers
  BY <1>2, <1>3, <1>5, ClockOrder DEF ToldInv, Funded
<1>7. ASSUME NEW p \in Staff(mUsers) PROVE Taken(p) = mday + 1
  BY <1>1, <1>2, <1>4, <1>7, StaffIs, MemberOrder DEF PassInv, Late, Adding, DayEndInv
<1>8. sem["DAY_END"] = 0
  <2>1. {p \in Staff(Funded) : Taken(p) < Generation} = {}
    BY <1>1, <1>4, <1>6, <1>7
  <2>2. ~(MTaken < Generation)
    BY <1>1, <1>2, <1>4
  <2> QED BY <2>1, <2>2, FS_EmptySet DEF DayEndInv, Bit
<1> QED BY <1>1, <1>2, <1>3, <1>4, <1>5, <1>6, <1>7, <1>8

(* The clock does not listen to the manager before everybody has finished    *)
(* the round before.                                                         *)
LEMMA ClockListens ==
  ASSUME TypeInv, PlacesInv, UsersInv, ToldInv, DayEndInv, GatherInv,
         cpc \in {"readAdd", "lockAddAgain", "relNewUsers", "userReqs", "workerReqs",
                  "checkEmpty", "ready"}
  PROVE  /\ MTold = ClockTold /\ MTold = cday + 1 /\ mpc # "clockNewUsers"
         /\ ClockReported = cday /\ Generation = cday + 1
<1>1. cday \in Nat /\ cday < SIM_DURATION /\ ClockTold = cday + 1 /\ ClockReported = cday
      /\ Generation = cday + 1
  BY CountsAreNatural
     DEF TypeInv, TypeOK, DaysBounded, ClockTold, ClockReported, Rounds, Setting, Generation
<1>2. Round <= cday
  BY <1>1, ManagerOrder DEF GatherInv
<1>3. MTold = cday + 1
  BY <1>1, <1>2, ManagerOrder DEF ToldInv
<1>4. ASSUME mpc = "clockNewUsers" PROVE FALSE
  BY <1>1, <1>2, <1>3, <1>4, ManagerOrder DEF MTold, PlacesInv
<1> QED BY <1>1, <1>3, <1>4

----------------------------------------------------------------------------
(* PRESERVATION, one part of the invariant after the other. *)

LEMMA PlacesStep ==
  ASSUME DayInv, [Next]_vars
  PROVE  PlacesInv'
<1> USE DEF DayInv
<1>1. CASE ManagerStep
  <2>1. UNCHANGED <<cpc, cday>>
    BY <1>1, ManagerFrame
  <2>2. /\ sem \in [SemNames -> Nat] /\ pc \in [Members -> MemberPCs]
        /\ mday \in Nat /\ SIM_DURATION \in Nat
        /\ mpc \notin {"canDie", "waitpid", "done"} => mday < SIM_DURATION
    BY CountsAreNatural DEF TypeInv, TypeOK, DaysBounded
  <2> USE <2>1, <2>2 DEF PlacesInv, Exploded, Round, ManagerGoto, ManagerStays, SemNames, memberVars
  <2>3. CASE ManagerLockDayEnd
    BY <2>3 DEF ManagerLockDayEnd, LockSem
  <2>4. CASE ManagerWaitZero
    BY <2>4 DEF ManagerWaitZero, WaitZeroSem
  <2>5. CASE TryAddUsers
    BY <2>5 DEF TryAddUsers, LockSem
  <2>6. CASE ClockNoUsers
    BY <2>6 DEF ClockNoUsers, ReleaseSem
  <2>7. CASE InitNewUsers
    BY <2>7 DEF InitNewUsers, clockVars
  <2>8. CASE ClockNewUsers
    BY <2>8 DEF ClockNewUsers, ReleaseSemVal
  <2>9. CASE InitSeats
    BY <2>9 DEF InitSeats
  <2>10. CASE ManagerLockReady
    BY <2>10 DEF ManagerLockReady, LockSemVal
  <2>11. CASE ManagerSetStart
    BY <2>11 DEF ManagerSetStart, SetSemVal
  <2>12. CASE GetStats
    BY <2>12 DEF GetStats
  <2>13. CASE DayCounted
    BY <2>13 DEF DayCounted
  <2>14. CASE Explode
    BY <2>14 DEF Explode, ReleaseSem
  <2>15. CASE ClockExplode
    BY <2>15 DEF ClockExplode, ReleaseSem
  <2>16. CASE LetDie
    BY <2>16 DEF LetDie, ReleaseSemVal
  <2>17. CASE WaitChildren
    BY <2>17 DEF WaitChildren
  <2> QED BY <1>1, <2>3, <2>4, <2>5, <2>6, <2>7, <2>8, <2>9, <2>10, <2>11, <2>12, <2>13, <2>14, <2>15, <2>16, <2>17, Zenon DEF ManagerStep
<1>2. CASE ClockStep \/ SendWorkerPause \/ SendUserNotific
  <2>1. /\ UNCHANGED <<mpc, mday, pc, day, sem["STOP_SIM_EXPLODE"]>>
        /\ cpc' # "setup" /\ (cpc' = "canDie" => cday' = SIM_DURATION)
    BY <1>2, ClockFrame DEF UsersInv
  <2>2. UNCHANGED ManagerCounters /\ UNCHANGED Exploded
    BY <2>1, ManagerCountersKept
  <2> QED BY <2>1, <2>2 DEF PlacesInv, ManagerCounters
<1>3. ASSUME NEW p \in Members, MemberStep(p) \/ SendWork(p) PROVE PlacesInv'
  <2>1. /\ UNCHANGED <<mpc, mday, cpc, cday, sem["STOP_SIM_EXPLODE"]>>
        /\ \A q \in Members \ {p} : pc'[q] = pc[q] /\ day'[q] = day[q]
        /\ pc'[p] = "canDie" => day'[p] = SIM_DURATION
    BY <1>3, MemberFrame
  <2>2. UNCHANGED ManagerCounters /\ UNCHANGED Exploded
    BY <2>1, ManagerCountersKept
  <2> QED BY <2>1, <2>2 DEF PlacesInv, ManagerCounters
<1>4. CASE AddUsersMain \/ UNCHANGED vars
  BY <1>4, OutsideFrame DEF PlacesInv, ManagerCounters, SemNames
<1> QED BY <1>1, <1>2, <1>3, <1>4, StepCases

LEMMA AtLockDayEnd ==
  ASSUME NEW p \in Members, MemberStep(p) \/ SendWork(p), pc[p] = "lockDayEnd"
  PROVE  MemberLockDayEnd(p) /\ sem["DAY_END"] > 0
BY DEF MemberStep, SendWork, MemberLockDayEnd, LockSem, MemberWaitZero, ClearMsgQueue,
       CheckCleared, SendClockReq, MemberReady, MemberLockStart, MemberReadExplode,
       ReceiveDayEnded, ReceivePause, ReceiveWork, SendStats, MemberCanDie, Goto

(* The part about newcomers without units survives a step that neither makes *)
(* users nor gives them units, if it leaves their place alone.               *)
Unfunded == Staff(mUsers) \ Staff(Funded)
LEMMA UsersKept ==
  ASSUME UsersInv, UNCHANGED <<mUsers, Funded>>,
         \/ UNCHANGED cUsers
         \/ Counted(cUsers') /\ cUsers <= cUsers' /\ cUsers' <= mUsers,
         \E k \in Nat : /\ mUsers = Cardinality(Users) + k * N_NEW_USERS
                        /\ k + sem'["ADD_USERS"] + Bit(mpc' = "forkUsers") = requests',
         \A p \in Members : pc'[p] # "unborn" <=> pc[p] # "unborn",
         \A p \in Unfunded :
           /\ pc'[p] = "lockDayEnd" /\ day'[p] = MGathered' /\ day'[p] + 1 = Generation'
           /\ mpc' \in Adding /\ sem'["DAY_END"] = 0
           /\ cpc' \in {"lockAdd", "readAdd", "lockAddAgain", "relNewUsers"}
  PROVE  UsersInv'
<1>1. Counted(cUsers)' /\ Funded' <= cUsers' /\ cUsers' <= mUsers'
  <2>1. cUsers \in Nat /\ Funded \in Nat /\ mUsers \in Nat
    BY DEF UsersInv, Counted
  <2>2. CASE UNCHANGED cUsers
    BY <2>2 DEF UsersInv
  <2>3. CASE Counted(cUsers') /\ cUsers <= cUsers' /\ cUsers' <= mUsers
    <3>1. cUsers' \in Nat
      BY <2>3 DEF Counted
    <3> QED BY <2>1, <2>3, <3>1 DEF UsersInv
  <2> QED BY <2>2, <2>3
<1>2. Staff(mUsers)' = Staff(mUsers) /\ Staff(Funded)' = Staff(Funded)
  OBVIOUS
<1>3. Counted(mUsers)' /\ Counted(Funded)'
  BY DEF UsersInv
<1> QED BY <1>1, <1>2, <1>3 DEF UsersInv, Unfunded

LEMMA UsersStep ==
  ASSUME DayInv, [Next]_vars
  PROVE  UsersInv'
<1> USE DEF DayInv
<1>0. /\ mUsers \in Nat /\ cUsers \in Nat /\ Funded \in Nat
      /\ Unfunded = {} <=> Staff(mUsers) = Staff(Funded)
      /\ sem \in [SemNames -> Nat] /\ requests \in Nat
  <2>1. Staff(Funded) \subseteq Staff(mUsers)
        /\ mUsers \in Nat /\ cUsers \in Nat /\ Funded \in Nat
    BY StaffIs
  <2>2. Unfunded = {} <=> Staff(mUsers) = Staff(Funded)
    BY <2>1, Zenon DEF Unfunded
  <2>3. sem \in [SemNames -> Nat] /\ requests \in 0..Len(NewUsers)
    BY DEF TypeInv, TypeOK
  <2>4. Len(NewUsers) \in Nat
    BY FiniteAssumption
  <2>5. requests \in Nat
    BY <2>3, <2>4
  <2> QED BY <2>1, <2>2, <2>3, <2>5
<1>1. CASE ManagerStep
  <2>1. UNCHANGED <<cUsers, Funded, cpc, cday, requests>> /\ UNCHANGED Generation
    BY <1>1, ManagerFrame DEF Funded, Generation
  <2>2. CASE InitNewUsers
    <3>1. mpc = "forkUsers" /\ mpc' = "clockNewUsers" /\ mUsers' = mUsers + N_NEW_USERS
          /\ UNCHANGED <<sem, mday>>
      BY <2>2 DEF InitNewUsers, ManagerGoto
    <3>2. PICK k \in Nat : /\ mUsers = Cardinality(Users) + k * N_NEW_USERS
                           /\ k + sem["ADD_USERS"] + 1 = requests
      BY <3>1 DEF UsersInv, Bit
    <3>3. k + 1 \in DOMAIN NewUsers
      BY <1>0, <3>2, FiniteAssumption DEF TypeInv, TypeOK, SemNames
    <3>4. Counted(mUsers + N_NEW_USERS)
      BY <3>2, <3>3, NextBatch DEF UsersInv
    <3>5. /\ mUsers' = Cardinality(Users) + (k + 1) * N_NEW_USERS
          /\ (k + 1) + sem'["ADD_USERS"] + Bit(mpc' = "forkUsers") = requests'
      <4>1. (k + 1) * N_NEW_USERS = k * N_NEW_USERS + N_NEW_USERS
        BY CountsAreNatural
      <4>2. k * N_NEW_USERS \in Nat
        BY CountsAreNatural
      <4> HIDE DEF DayInv
      <4>3. mUsers' = Cardinality(Users) + (k + 1) * N_NEW_USERS
        BY <3>1, <3>2, <4>1, <4>2, CountsAreNatural
      <4>4. (k + 1) + sem'["ADD_USERS"] + Bit(mpc' = "forkUsers") = requests'
        BY <1>0, <2>1, <3>1, <3>2 DEF Bit, SemNames
      <4> QED BY <4>3, <4>4
    <3>6. /\ Generation = mday + 1 /\ MGathered = mday /\ sem["DAY_END"] = 0
          /\ cpc = "lockAdd" /\ Funded = mUsers
      BY <3>1, AtFork
    <3>7. MGathered' = mday
      BY <3>1, <3>6, ManagerFrame, <1>1, <2>2
         DEF MGathered, Rounds, Gathering, Round, Exploded
    <3>8. mUsers <= mUsers' /\ mUsers' \in Nat /\ Staff(mUsers) \subseteq Staff(mUsers')
      BY <1>0, <3>1, CountsAreNatural, CrewGrows
    <3>9. \A p \in Members : pc'[p] # "unborn" <=> p \in Staff(mUsers')
      <4>1. \A p \in Members : pc'[p] = IF p \in Numbered(mUsers') \ Numbered(mUsers)
                                         THEN "lockDayEnd" ELSE pc[p]
        BY <2>2 DEF InitNewUsers
      <4>2. \A p \in Members : pc[p] # "unborn" <=> p \in Staff(mUsers)
        BY DEF UsersInv
      <4> QED BY <3>8, <4>1, <4>2 DEF Staff
    <3>10. \A p \in Staff(mUsers') \ Staff(mUsers) : pc'[p] = "lockDayEnd" /\ day'[p] = mday
      <4>1. \A p \in Staff(mUsers') \ Staff(mUsers) : p \in Numbered(mUsers') \ Numbered(mUsers)
        BY DEF Staff
      <4>2. Staff(mUsers') \subseteq Members
        BY <3>1, <3>4, CrewSize
      <4> QED BY <2>2, <4>1, <4>2 DEF InitNewUsers
    <3>11. Counted(mUsers)' /\ Counted(cUsers)' /\ Counted(Funded)'
      BY <2>1, <3>1, <3>4 DEF UsersInv
    <3>12. Funded' <= cUsers' /\ cUsers' <= mUsers'
      BY <1>0, <2>1, <3>8 DEF UsersInv
    <3>13. Staff(Funded)' = Staff(mUsers) /\ Staff(mUsers)' = Staff(mUsers')
      BY <2>1, <3>6
    <3>14. \E j \in Nat : /\ mUsers' = Cardinality(Users) + j * N_NEW_USERS
                          /\ j + sem'["ADD_USERS"] + Bit(mpc' = "forkUsers") = requests'
      BY <3>5
    <3>15. \A p \in Staff(mUsers)' \ Staff(Funded)' :
             /\ pc'[p] = "lockDayEnd" /\ day'[p] = MGathered' /\ day'[p] + 1 = Generation'
             /\ mpc' \in Adding /\ sem'["DAY_END"] = 0
             /\ cpc' \in {"lockAdd", "readAdd", "lockAddAgain", "relNewUsers"}
      BY <2>1, <3>1, <3>6, <3>7, <3>10, <3>13 DEF Adding
    <3> QED BY <3>9, <3>11, <3>12, <3>13, <3>14, <3>15 DEF UsersInv
  <2>3. CASE ~InitNewUsers
    <3>1. UNCHANGED <<pc, day, mUsers>>
      BY <1>1, <2>3, ManagerFrame
    <3>2. /\ ~TryAddUsers => UNCHANGED sem["ADD_USERS"] /\ mpc # "forkUsers" /\ mpc' # "forkUsers"
      BY <1>1, <2>3, ManagerFrame
         DEF ManagerStep, ManagerLockDayEnd, ManagerWaitZero, ClockNoUsers, ClockNewUsers, InitSeats,
             ManagerLockReady, ManagerSetStart, GetStats, DayCounted, Explode, ClockExplode, LetDie,
             WaitChildren, ManagerGoto
    <3>3. TryAddUsers => /\ mpc = "tryAddUsers"
                         /\ sem'["ADD_USERS"] + Bit(mpc' = "forkUsers") = sem["ADD_USERS"]
      BY <1>0 DEF TryAddUsers, ManagerGoto, LockSem, Bit, SemNames
    <3>4. \E k \in Nat : /\ mUsers = Cardinality(Users) + k * N_NEW_USERS
                         /\ k + sem'["ADD_USERS"] + Bit(mpc' = "forkUsers") = requests'
      <4>1. PICK k \in Nat : /\ mUsers = Cardinality(Users) + k * N_NEW_USERS
                             /\ k + sem["ADD_USERS"] + Bit(mpc = "forkUsers") = requests
        BY DEF UsersInv
      <4>2. k + sem'["ADD_USERS"] + Bit(mpc' = "forkUsers") = requests'
        <5>1. CASE TryAddUsers
          <6>1. sem'["ADD_USERS"] \in Nat
            BY <1>1, TypeStep DEF TypeInv, TypeOK, SemNames
          <6> QED BY <1>0, <2>1, <3>3, <4>1, <5>1, <6>1 DEF Bit, SemNames
        <5>2. CASE ~TryAddUsers
          BY <2>1, <3>2, <4>1, <5>2 DEF Bit
        <5> QED BY <5>1, <5>2
      <4> QED BY <4>1, <4>2
    <3>5. ASSUME NEW p \in Unfunded
          PROVE  /\ pc'[p] = "lockDayEnd" /\ day'[p] = MGathered' /\ day'[p] + 1 = Generation'
                 /\ mpc' \in Adding /\ sem'["DAY_END"] = 0
                 /\ cpc' \in {"lockAdd", "readAdd", "lockAddAgain", "relNewUsers"}
      <4>1. /\ pc[p] = "lockDayEnd" /\ day[p] = MGathered /\ day[p] + 1 = Generation
            /\ mpc \in Adding /\ sem["DAY_END"] = 0
            /\ cpc \in {"lockAdd", "readAdd", "lockAddAgain", "relNewUsers"}
        BY DEF UsersInv, Unfunded
      <4>2. ~ManagerLockReady
        <5>1. ASSUME ManagerLockReady PROVE sem["PROC_READY"] >= StartSemCount(mUsers)
          BY <5>1 DEF ManagerLockReady, LockSemVal
        <5>2. Reported(p) = day[p] /\ p \in Staff(mUsers)
          BY <4>1 DEF Reported, Rounds, Unfunded
        <5> QED BY <4>1, <5>1, <5>2, AllReady, ManagerOrder
      <4>3. mpc' \in Adding /\ ~ManagerLockDayEnd
        BY <1>1, <4>1, <4>2, <2>3
           DEF Adding, ManagerStep, ManagerLockDayEnd, ManagerWaitZero, ClockNoUsers, ClockNewUsers,
               InitSeats, ManagerSetStart, GetStats, DayCounted, Explode, ClockExplode, LetDie,
               WaitChildren, ManagerGoto, TryAddUsers
      <4> QED BY <1>1, <2>1, <3>1, <4>1, <4>2, <4>3, ManagerFrame
    <3> QED BY <2>1, <3>1, <3>4, <3>5, UsersKept
  <2> QED BY <2>2, <2>3
<1>2. CASE ClockStep \/ SendWorkerPause \/ SendUserNotific
  <2>1. UNCHANGED <<mpc, mday, mUsers, pc, day, requests, sem["ADD_USERS"], sem["STOP_SIM_EXPLODE"]>>
    BY <1>2, ClockFrame DEF UsersInv
  <2>2. UNCHANGED ManagerCounters
    BY <2>1, ManagerCountersKept
  <2>3. \E k \in Nat : /\ mUsers' = Cardinality(Users) + k * N_NEW_USERS
                       /\ k + sem'["ADD_USERS"] + Bit(mpc' = "forkUsers") = requests'
    BY <2>1 DEF UsersInv
  <2>4. CASE ClockReleaseNewUsers
    <3>1. cpc = "relNewUsers" /\ cpc' = "userReqs" /\ UNCHANGED cUsers
      BY <2>4 DEF ClockReleaseNewUsers, ClockGoto, ClockStays
    <3>2. cUsers = mUsers
      BY <3>1, ClockListens, ClockOrder DEF ToldInv
    <3>3. Funded' = mUsers
      BY <2>1, <3>1, <3>2 DEF Funded
    <3>4. Staff(mUsers)' = Staff(Funded)'
      BY <2>1, <3>3
    <3>5. Counted(mUsers)' /\ Counted(cUsers)' /\ Counted(Funded)'
      BY <2>1, <3>1, <3>3 DEF UsersInv
    <3>6. \A p \in Members : pc'[p] # "unborn" <=> p \in Staff(mUsers)'
      BY <2>1 DEF UsersInv
    <3>7. Funded' <= cUsers' /\ cUsers' <= mUsers'
      BY <1>0, <2>1, <3>1, <3>2, <3>3
    <3> QED BY <2>3, <3>4, <3>5, <3>6, <3>7 DEF UsersInv
  <2>5. CASE ~ClockReleaseNewUsers
    <3>1. UNCHANGED Funded
      BY <1>2, <2>5, ClockFrame DEF UsersInv
    <3>2. \/ UNCHANGED cUsers
          \/ Counted(cUsers') /\ cUsers <= cUsers' /\ cUsers' <= mUsers
      <4>1. CASE ClockAddNewUsers
        <5>1. cpc = "lockAddAgain" /\ cUsers' = cUsers + N_NEW_USERS
          BY <4>1 DEF ClockAddNewUsers, ClockGoto
        <5>2. cUsers' = mUsers
          BY <5>1, ClockListens, ClockOrder DEF ToldInv
        <5> QED BY <1>0, <5>2 DEF UsersInv
      <4>2. CASE ~ClockAddNewUsers
        BY <1>2, <4>2, ClockFrame DEF UsersInv
      <4> QED BY <4>1, <4>2
    <3>3. ASSUME NEW p \in Unfunded
          PROVE  /\ pc'[p] = "lockDayEnd" /\ day'[p] = MGathered' /\ day'[p] + 1 = Generation'
                 /\ mpc' \in Adding /\ sem'["DAY_END"] = 0
                 /\ cpc' \in {"lockAdd", "readAdd", "lockAddAgain", "relNewUsers"}
      <4>1. /\ pc[p] = "lockDayEnd" /\ day[p] = MGathered /\ day[p] + 1 = Generation
            /\ mpc \in Adding /\ sem["DAY_END"] = 0
            /\ cpc \in {"lockAdd", "readAdd", "lockAddAgain", "relNewUsers"}
        BY DEF UsersInv, Unfunded
      <4>2. ~ClockSetup /\ ~ClockReleaseDayEnd
        BY <4>1 DEF ClockSetup, ClockReleaseDayEnd, ClockGoto
      <4>3. cpc' \in {"lockAdd", "readAdd", "lockAddAgain", "relNewUsers"}
        <5>1. ASSUME cpc = "readAdd" PROVE sem["CLOCK_ADD_USERS"] = 1
          <6>1. mUsers # Funded
            BY <1>0 DEF Unfunded
          <6> QED BY <5>1, <6>1, ClockListens, ClockOrder DEF ToldInv, Funded
        <5> QED
          BY <1>2, <2>5, <4>1, <5>1
             DEF ClockStep, ClockSetup, ClockLockAdd, ClockReadAdd, ClockAddNewUsers,
                 SetupUserNotific, SetupWorkerPause, Hear, ClockCheckEmpty, ClockReady,
                 ClockLockStart, ClockReadExplode, ClockDayOver, SendMsgDayEnded,
                 ClockReleaseDayEnd, ClockCanDie, SendWorkerPause, SendUserNotific, ClockSend,
                 ClockGoto
      <4>4. UNCHANGED Generation /\ UNCHANGED sem["DAY_END"]
        BY <1>2, <2>5, <4>2, ClockFrame DEF UsersInv
      <4>5. UNCHANGED MGathered
        BY <2>2 DEF ManagerCounters
      <4> QED BY <2>1, <4>1, <4>3, <4>4, <4>5
    <3>4. \E k \in Nat : /\ mUsers = Cardinality(Users) + k * N_NEW_USERS
                         /\ k + sem'["ADD_USERS"] + Bit(mpc' = "forkUsers") = requests'
      BY <2>1, <2>3
    <3> QED BY <2>1, <3>1, <3>2, <3>3, <3>4, UsersKept
  <2> QED BY <2>4, <2>5
<1>3. ASSUME NEW p \in Members, MemberStep(p) \/ SendWork(p) PROVE UsersInv'
  <2>1. /\ UNCHANGED <<mpc, mday, mUsers, cpc, cday, cUsers, requests>>
        /\ UNCHANGED <<sem["ADD_USERS"], sem["STOP_SIM_EXPLODE"]>>
        /\ \A q \in Members \ {p} : pc'[q] = pc[q] /\ day'[q] = day[q]
        /\ pc[p] # "unborn" /\ pc'[p] # "unborn"
        /\ ~MemberLockDayEnd(p) => UNCHANGED sem["DAY_END"]
    BY <1>3, MemberFrame
  <2>2. UNCHANGED ManagerCounters /\ UNCHANGED ClockCounters /\ UNCHANGED Funded
    BY <2>1, ManagerCountersKept, ClockCountersKept
  <2>3. \E k \in Nat : /\ mUsers = Cardinality(Users) + k * N_NEW_USERS
                       /\ k + sem'["ADD_USERS"] + Bit(mpc' = "forkUsers") = requests'
    BY <2>1 DEF UsersInv
  <2>4. ASSUME NEW q \in Unfunded
        PROVE  /\ pc'[q] = "lockDayEnd" /\ day'[q] = MGathered' /\ day'[q] + 1 = Generation'
               /\ mpc' \in Adding /\ sem'["DAY_END"] = 0
               /\ cpc' \in {"lockAdd", "readAdd", "lockAddAgain", "relNewUsers"}
    <3>1. /\ pc[q] = "lockDayEnd" /\ day[q] = MGathered /\ day[q] + 1 = Generation
          /\ mpc \in Adding /\ sem["DAY_END"] = 0
          /\ cpc \in {"lockAdd", "readAdd", "lockAddAgain", "relNewUsers"}
      BY DEF UsersInv, Unfunded
    <3>2. ~MemberLockDayEnd(p) /\ p # q
      BY <1>3, <3>1, AtLockDayEnd DEF MemberLockDayEnd, LockSem
    <3>3. q \in Members
      BY StaffIs DEF Unfunded
    <3> QED BY <2>1, <2>2, <3>1, <3>2, <3>3 DEF ManagerCounters, ClockCounters
  <2> QED BY <2>1, <2>2, <2>3, <2>4, UsersKept
<1>4. CASE AddUsersMain \/ UNCHANGED vars
  <2>1. /\ UNCHANGED <<mpc, mUsers, cpc, cUsers, pc, day>>
        /\ UNCHANGED <<MGathered, Generation, Funded, sem["DAY_END"]>>
        /\ \/ sem'["ADD_USERS"] = sem["ADD_USERS"] + 1 /\ requests' = requests + 1
           \/ UNCHANGED <<sem["ADD_USERS"], requests>>
    BY <1>4, OutsideFrame DEF ManagerCounters, ClockCounters, SemNames
  <2>2. \E k \in Nat : /\ mUsers = Cardinality(Users) + k * N_NEW_USERS
                       /\ k + sem'["ADD_USERS"] + Bit(mpc' = "forkUsers") = requests'
    <3>1. PICK k \in Nat : /\ mUsers = Cardinality(Users) + k * N_NEW_USERS
                           /\ k + sem["ADD_USERS"] + Bit(mpc = "forkUsers") = requests
      BY DEF UsersInv
    <3>2. k + sem'["ADD_USERS"] + Bit(mpc' = "forkUsers") = requests'
      BY <1>0, <2>1, <3>1 DEF Bit, SemNames
    <3> QED BY <3>1, <3>2
  <2>3. \A p \in Unfunded :
           /\ pc'[p] = "lockDayEnd" /\ day'[p] = MGathered' /\ day'[p] + 1 = Generation'
           /\ mpc' \in Adding /\ sem'["DAY_END"] = 0
           /\ cpc' \in {"lockAdd", "readAdd", "lockAddAgain", "relNewUsers"}
    BY <2>1 DEF UsersInv, Unfunded
  <2> QED BY <2>1, <2>2, <2>3, UsersKept
<1> QED BY <1>1, <1>2, <1>3, <1>4, StepCases

LEMMA ToldStep ==
  ASSUME DayInv, [Next]_vars
  PROVE  ToldInv'
<1> USE DEF DayInv
<1>0. /\ MTold \in Nat /\ ClockTold \in Nat /\ MGathered <= ClockTold
      /\ mUsers \in Nat /\ cUsers \in Nat /\ N_NEW_USERS \in Nat
      /\ sem \in [SemNames -> Nat] /\ sem' \in [SemNames -> Nat]
  <2>1. MGathered <= ClockTold
    BY ManagerOrder, ClockOrder DEF GatherInv
  <2>2. sem \in [SemNames -> Nat] /\ sem' \in [SemNames -> Nat]
    BY TypeStep DEF TypeInv, TypeOK
  <2> QED BY <2>1, <2>2, ManagerOrder, ClockOrder, StaffIs, CountsAreNatural
<1>1. CASE ManagerStep
  <2>1. UNCHANGED <<cpc, cday, cUsers>> /\ UNCHANGED ClockTold
    BY <1>1, ManagerFrame, ClockCountersKept DEF ClockCounters
  (* The manager speaks to a clock that has heard the last word.             *)
  <2>2. ASSUME mpc \in {"clockNoUsers", "clockNewUsers", "clockExplode"}
        PROVE  /\ MTold = ClockTold /\ sem["CLOCK_ADD_USERS"] = 0
               /\ mpc = "clockNewUsers" => cUsers + N_NEW_USERS = mUsers
               /\ mpc # "clockNewUsers" => cUsers = mUsers
    <3>1. MTold <= MGathered
      BY <2>2, ManagerOrder, CountsAreNatural
         DEF MTold, MGathered, Round, Rounds, Gathering, PlacesInv, TypeInv, TypeOK, DaysBounded
    <3>2. MTold = ClockTold
      BY <1>0, <3>1, ManagerOrder DEF ToldInv
    <3>3. cpc \notin {"readAdd", "lockAddAgain"}
      BY <3>1, ClockListens, ClockOrder, ManagerOrder DEF GatherInv
    <3> QED BY <3>2, <3>3 DEF ToldInv
  <2>3. CASE ClockNoUsers
    <3>1. /\ mpc = "clockNoUsers" /\ mpc' = "initSeats" /\ UNCHANGED <<mday, mUsers>>
          /\ UNCHANGED Exploded
          /\ sem'["CLOCK_ADD_USERS"] = sem["CLOCK_ADD_USERS"] + 1
      BY <2>3, <1>0 DEF ClockNoUsers, ManagerGoto, ReleaseSem, ManagerStays, SemNames, Exploded
    <3>2. MTold' = MTold + 1
      BY <3>1 DEF MTold, Round, PlacesInv
    <3> QED BY <1>0, <2>1, <2>2, <3>1, <3>2 DEF ToldInv
  <2>4. CASE ClockNewUsers
    <3>1. /\ mpc = "clockNewUsers" /\ mpc' = "initSeats" /\ UNCHANGED <<mday, mUsers>>
          /\ UNCHANGED Exploded
          /\ sem'["CLOCK_ADD_USERS"] = sem["CLOCK_ADD_USERS"] + 2
      BY <2>4, <1>0 DEF ClockNewUsers, ManagerGoto, ReleaseSemVal, ManagerStays, SemNames, Exploded
    <3>2. MTold' = MTold + 1
      BY <3>1 DEF MTold, Round, PlacesInv
    <3> QED BY <1>0, <2>1, <2>2, <3>1, <3>2 DEF ToldInv
  <2>5. CASE ClockExplode
    <3>1. /\ mpc = "clockExplode" /\ mpc' \in {"canDie", "exLockDayEnd"}
          /\ UNCHANGED <<mday, mUsers>> /\ UNCHANGED Exploded
          /\ sem'["CLOCK_ADD_USERS"] = sem["CLOCK_ADD_USERS"] + 1
      BY <2>5, <1>0 DEF ClockExplode, ManagerGoto, ReleaseSem, ManagerStays, SemNames, Exploded
    <3>2. Exploded /\ mday \in Nat
      BY <3>1, CountsAreNatural DEF PlacesInv, TypeInv, TypeOK
    <3>3. MTold' = MTold + 1
      BY <3>1, <3>2 DEF MTold, Round
    <3> QED BY <1>0, <2>1, <2>2, <3>1, <3>3 DEF ToldInv
  <2>6. CASE InitNewUsers
    <3>1. /\ mpc = "forkUsers" /\ mpc' = "clockNewUsers" /\ mUsers' = mUsers + N_NEW_USERS
          /\ UNCHANGED <<MTold, sem["CLOCK_ADD_USERS"]>>
      BY <1>1, <2>6, ManagerFrame
         DEF InitNewUsers, ManagerGoto, ClockNoUsers, ClockNewUsers, ClockExplode
    <3>2. cpc = "lockAdd" /\ MTold = ClockTold /\ cUsers = mUsers
      BY <3>1, AtFork
    <3> QED BY <1>0, <2>1, <3>1, <3>2 DEF ToldInv
  <2>7. CASE ~(ClockNoUsers \/ ClockNewUsers \/ ClockExplode \/ InitNewUsers)
    <3>1. UNCHANGED <<MTold, sem["CLOCK_ADD_USERS"], mUsers>>
      BY <1>1, <2>7, ManagerFrame
    <3>2. mpc # "clockNewUsers" /\ mpc' # "clockNewUsers"
      BY <1>1, <2>7
         DEF ManagerStep, ManagerLockDayEnd, ManagerWaitZero, TryAddUsers, InitSeats,
             ManagerLockReady, ManagerSetStart, GetStats, DayCounted, Explode, LetDie,
             WaitChildren, ManagerGoto
    <3> QED BY <2>1, <3>1, <3>2 DEF ToldInv
  <2> QED BY <2>3, <2>4, <2>5, <2>6, <2>7
<1>2. CASE ClockStep \/ SendWorkerPause \/ SendUserNotific
  <2>1. UNCHANGED <<mpc, mday, mUsers, sem["STOP_SIM_EXPLODE"]>> /\ UNCHANGED MTold
    BY <1>2, ClockFrame, ManagerCountersKept DEF UsersInv, ManagerCounters
  <2>2. CASE ClockLockAdd
    <3>1. /\ cpc = "lockAdd" /\ cpc' = "readAdd" /\ UNCHANGED <<cday, cUsers>>
          /\ sem["CLOCK_ADD_USERS"] > 0
          /\ sem'["CLOCK_ADD_USERS"] = sem["CLOCK_ADD_USERS"] - 1
      BY <2>2, <1>0 DEF ClockLockAdd, ClockGoto, LockSem, ClockStays, SemNames
    <3>2. ClockTold' = ClockTold + 1
      BY <3>1, CountsAreNatural DEF ClockTold, Rounds, TypeInv, TypeOK, DaysBounded
    <3>3. MTold = ClockTold + 1
      BY <1>0, <3>1 DEF ToldInv
    <3> QED BY <1>0, <2>1, <3>1, <3>2, <3>3 DEF ToldInv
  <2>3. CASE ClockReadAdd
    <3>1. /\ cpc = "readAdd" /\ UNCHANGED <<cUsers, sem>>
          /\ cpc' = IF sem["CLOCK_ADD_USERS"] = 1 THEN "lockAddAgain" ELSE "userReqs"
      BY <2>3 DEF ClockReadAdd, ClockGoto
    <3>2. UNCHANGED ClockTold
      BY <1>2, <3>1, ClockFrame DEF UsersInv, ClockLockAdd, ClockGoto
    <3>3. MTold = ClockTold /\ mpc # "clockNewUsers"
      BY <3>1, ClockListens
    <3> QED BY <1>0, <2>1, <3>1, <3>2, <3>3 DEF ToldInv
  <2>4. CASE ClockAddNewUsers
    <3>1. /\ cpc = "lockAddAgain" /\ cpc' = "relNewUsers" /\ cUsers' = cUsers + N_NEW_USERS
          /\ sem'["CLOCK_ADD_USERS"] = sem["CLOCK_ADD_USERS"] - 1
      BY <2>4, <1>0 DEF ClockAddNewUsers, ClockGoto, LockSem, SemNames
    <3>2. UNCHANGED ClockTold
      BY <1>2, <3>1, ClockFrame DEF UsersInv, ClockLockAdd, ClockGoto
    <3>3. MTold = ClockTold /\ mpc # "clockNewUsers"
      BY <3>1, ClockListens
    <3> QED BY <1>0, <2>1, <3>1, <3>2, <3>3 DEF ToldInv
  <2>5. CASE ~(ClockLockAdd \/ ClockReadAdd \/ ClockAddNewUsers)
    <3>1. UNCHANGED <<ClockTold, cUsers, sem["CLOCK_ADD_USERS"]>>
      BY <1>2, <2>5, ClockFrame DEF UsersInv
    <3>2. cpc \notin {"readAdd", "lockAddAgain"} /\ cpc' \notin {"readAdd", "lockAddAgain"}
      BY <1>2, <2>5
         DEF ClockStep, ClockSetup, ClockReleaseNewUsers, SetupUserNotific, SetupWorkerPause, Hear,
             ClockCheckEmpty, ClockReady, ClockLockStart, ClockReadExplode, ClockDayOver,
             SendMsgDayEnded, ClockReleaseDayEnd, ClockCanDie, SendWorkerPause, SendUserNotific,
             ClockSend, ClockGoto, clockVars
    <3> QED BY <2>1, <3>1, <3>2 DEF ToldInv
  <2> QED BY <2>2, <2>3, <2>4, <2>5
<1>3. ASSUME NEW p \in Members, MemberStep(p) \/ SendWork(p) PROVE ToldInv'
  <2>1. /\ UNCHANGED <<mpc, mday, mUsers, cpc, cday, cUsers>>
        /\ UNCHANGED <<sem["CLOCK_ADD_USERS"], sem["STOP_SIM_EXPLODE"]>>
    BY <1>3, MemberFrame
  <2>2. UNCHANGED <<MTold, ClockTold>>
    BY <2>1, ManagerCountersKept, ClockCountersKept DEF ManagerCounters, ClockCounters
  <2> QED BY <2>1, <2>2 DEF ToldInv
<1>4. CASE AddUsersMain \/ UNCHANGED vars
  <2>1. UNCHANGED <<mpc, mUsers, cpc, cUsers, MTold, ClockTold, sem["CLOCK_ADD_USERS"]>>
    BY <1>4, OutsideFrame DEF ManagerCounters, ClockCounters, SemNames
  <2> QED BY <2>1 DEF ToldInv
<1> QED BY <1>1, <1>2, <1>3, <1>4, StepCases

(* The birth of the new users: the others stay as they are.                  *)
LEMMA Births ==
  ASSUME DayInv, InitNewUsers
  PROVE  /\ mpc = "forkUsers" /\ mpc' = "clockNewUsers" /\ mUsers' = mUsers + N_NEW_USERS
         /\ UNCHANGED <<sem, mday, got, cpc, cday, cUsers, heard, mail, clockQueue, statsQueue>>
         /\ UNCHANGED ManagerCounters /\ UNCHANGED ClockCounters /\ UNCHANGED <<Exploded, Funded>>
         /\ mUsers' \in Nat /\ Counted(mUsers')
         /\ Staff(mUsers) \subseteq Staff(mUsers') /\ Staff(mUsers') \subseteq Members
         /\ \A p \in Staff(mUsers) :
              pc'[p] = pc[p] /\ day'[p] = day[p] /\ UNCHANGED MemberCounters(p)
         /\ \A p \in Staff(mUsers') \ Staff(mUsers) :
              /\ p \in Numbered(mUsers') /\ p \in AllUsers
              /\ pc[p] = "unborn" /\ pc'[p] = "lockDayEnd" /\ day'[p] = mday
<1> USE DEF DayInv
<1>1. /\ mpc = "forkUsers" /\ mpc' = "clockNewUsers" /\ mUsers' = mUsers + N_NEW_USERS
      /\ UNCHANGED <<sem, mday, got, cpc, cday, cUsers, heard, mail, clockQueue, statsQueue>>
  BY DEF InitNewUsers, ManagerGoto, clockVars, queues
<1>2. UNCHANGED ManagerCounters /\ UNCHANGED Exploded
  BY <1>1 DEF ManagerCounters, Exploded, Round, MTaken, MPassed, MGathered, MOpened, MTold,
              Rounds, Gathering
<1>3. UNCHANGED ClockCounters /\ UNCHANGED Funded
  BY <1>1, ClockCountersKept
<1>4. Counted(mUsers') /\ UsersInv'
  <2>1. [Next]_vars
    BY DEF Next, ManagerStep
  <2> QED BY <2>1, UsersStep DEF UsersInv
<1>5. mUsers' \in Nat /\ Staff(mUsers) \subseteq Staff(mUsers') /\ Staff(mUsers') \subseteq Members
  <2>1. mUsers \in Nat /\ mUsers' \in Nat /\ mUsers <= mUsers'
    BY <1>1, <1>4, StaffIs, CountsAreNatural DEF Counted
  <2> QED BY <1>4, <2>1, CrewGrows, CrewSize
<1>6. \A p \in Members : LET born == p \in Numbered(mUsers') \ Numbered(mUsers) IN
        pc'[p] = (IF born THEN "lockDayEnd" ELSE pc[p]) /\ day'[p] = (IF born THEN mday ELSE day[p])
  BY DEF InitNewUsers
<1>7. Numbered(mUsers') \subseteq AllUsers
  BY <1>4, CrewSize
<1>8. ASSUME NEW p \in Staff(mUsers)
      PROVE  pc'[p] = pc[p] /\ day'[p] = day[p] /\ UNCHANGED MemberCounters(p)
  <2>1. p \notin Numbered(mUsers') \ Numbered(mUsers)
    BY <1>7, DistinctAssumption DEF Staff, Reporters
  <2>2. pc'[p] = pc[p] /\ day'[p] = day[p]
    BY <1>5, <1>6, <2>1
  <2> QED BY <2>2, MemberCountersKept
<1>9. ASSUME NEW p \in Staff(mUsers') \ Staff(mUsers)
      PROVE  /\ p \in Numbered(mUsers') /\ p \in AllUsers
             /\ pc[p] = "unborn" /\ pc'[p] = "lockDayEnd" /\ day'[p] = mday
  BY <1>5, <1>6, <1>7 DEF Staff, UsersInv
<1> QED BY <1>1, <1>2, <1>3, <1>4, <1>5, <1>8, <1>9

(* When the round of the clock's generation is opened nobody owes DAY_END a  *)
(* unit any more.                                                            *)
LEMMA RoundOver ==
  ASSUME DayInv, Generation <= MOpened
  PROVE  /\ \A p \in Staff(mUsers) : Taken(p) = Generation
         /\ MTaken = Generation /\ sem["DAY_END"] = 0
<1> USE DEF DayInv
<1>1. ASSUME NEW p \in Staff(mUsers) PROVE Taken(p) = Generation
  BY StaffIs, MemberOrder, ManagerOrder, ClockOrder DEF GatherInv, DayEndInv
<1>2. MTaken = Generation
  BY ManagerOrder, ClockOrder DEF DayEndInv
<1>3. {p \in Staff(Funded) : Taken(p) < Generation} = {} /\ ~(MTaken < Generation)
  BY <1>1, <1>2, StaffIs, ClockOrder
<1>4. sem["DAY_END"] = 0
  BY <1>3, FS_EmptySet DEF DayEndInv, Bit
<1> QED BY <1>1, <1>2, <1>4

(* A step that fills DAY_END leaves all of them one round behind.            *)
LEMMA DayEndFilled ==
  ASSUME DayInv, Generation <= MOpened, Generation' = Generation + 1, Funded' = cUsers,
         UNCHANGED mUsers, UNCHANGED MTaken, \A p \in Members : UNCHANGED Taken(p),
         sem'["DAY_END"] = sem["DAY_END"] + StartSemCount(cUsers)
  PROVE  DayEndInv'
<1> USE DEF DayInv
<1>1. /\ \A p \in Staff(mUsers) : Taken(p) = Generation
      /\ MTaken = Generation /\ sem["DAY_END"] = 0 /\ Generation \in Nat
  BY RoundOver, ClockOrder
<1>2. /\ Staff(mUsers) \subseteq Members /\ Staff(cUsers) \subseteq Staff(mUsers)
      /\ StartSemCount(cUsers) = Cardinality(Staff(cUsers)) + 1
      /\ Cardinality(Staff(cUsers)) \in Nat
  BY StaffIs, CrewSize, FS_CardinalityType DEF UsersInv
<1>3. \A p \in Staff(mUsers)' : Taken(p)' = Generation' - 1
  BY <1>1, <1>2
<1>4. MTaken' = Generation' - 1 /\ Bit(MTaken < Generation)' = 1
  BY <1>1 DEF Bit
<1>5. {p \in Staff(Funded) : Taken(p) < Generation}' = Staff(cUsers)
  <2>1. \A p \in Staff(cUsers) : Taken(p)' < Generation'
    BY <1>1, <1>2
  <2> QED BY <2>1
<1>6. sem'["DAY_END"] = Cardinality(Staff(cUsers)) + 1
  BY <1>1, <1>2
<1> QED BY <1>3, <1>4, <1>5, <1>6 DEF DayEndInv

LEMMA DayEndStep ==
  ASSUME DayInv, [Next]_vars
  PROVE  DayEndInv'
<1> USE DEF DayInv
<1> DEFINE owing == {p \in Staff(Funded) : Taken(p) < Generation}
<1>0. /\ IsFiniteSet(owing) /\ Cardinality(owing) \in Nat
      /\ MTaken \in Nat /\ Generation \in Nat /\ MOpened \in Nat
      /\ Staff(Funded) \subseteq Staff(mUsers) /\ Staff(mUsers) \subseteq Members
      /\ sem \in [SemNames -> Nat]
  <2>1. IsFiniteSet(Staff(Funded)) /\ Staff(Funded) \subseteq Staff(mUsers)
    BY CrewSize, StaffIs DEF UsersInv
  <2>2. IsFiniteSet(owing) /\ Cardinality(owing) \in Nat
    BY <2>1, FS_Subset, FS_CardinalityType
  <2> HIDE DEF owing
  <2> QED BY <2>1, <2>2, ManagerOrder, ClockOrder, StaffIs DEF TypeInv, TypeOK
<1>1. CASE ManagerStep
  <2>1. UNCHANGED <<Funded, Generation>>
    BY <1>1, ManagerFrame, ClockCountersKept DEF ClockCounters
  <2>2. CASE ManagerLockDayEnd
    <3>1. /\ UNCHANGED <<mUsers, pc, day>>
          /\ sem["DAY_END"] > 0 /\ sem'["DAY_END"] = sem["DAY_END"] - 1
          /\ mpc \in {"lockDayEnd", "exLockDayEnd"} /\ mpc' \in {"waitZero", "exWaitZero"}
          /\ UNCHANGED <<mday, sem["STOP_SIM_EXPLODE"]>>
      BY <1>0, <2>2
         DEF ManagerLockDayEnd, ManagerGoto, ManagerStays, LockSem, memberVars, SemNames
    <3>2. MTaken = Round /\ MTaken' = MTaken + 1
      BY <3>1, CountsAreNatural
         DEF MTaken, Rounds, Round, Exploded, PlacesInv, TypeInv, TypeOK, DaysBounded
    <3>3. MOpened < Generation
      BY <1>0, <3>1, RoundOver
    <3>4. MTaken = Generation - 1
      BY <1>0, <3>2, <3>3, ManagerOrder DEF DayEndInv
    <3>5. \A p : UNCHANGED Taken(p)
      BY <3>1 DEF Taken
    <3>6. {p \in Staff(Funded) : Taken(p) < Generation}' = owing
      BY <2>1, <3>5
    <3>7. sem'["DAY_END"] = Cardinality(owing) + Bit(MTaken < Generation)'
      <4>1. sem["DAY_END"] = Cardinality(owing) + Bit(MTaken < Generation)
        BY DEF DayEndInv
      <4> HIDE DEF owing
      <4> QED BY <1>0, <2>1, <3>1, <3>2, <3>4, <4>1 DEF Bit
    <3>8. /\ \A p \in Staff(mUsers)' : Taken(p)' \in {Generation' - 1, Generation'}
          /\ MTaken' \in {Generation' - 1, Generation'}
      BY <1>0, <2>1, <3>1, <3>2, <3>4, <3>5 DEF DayEndInv
    <3> QED BY <3>6, <3>7, <3>8 DEF DayEndInv
  <2>3. CASE InitNewUsers
    <3>1. /\ Generation = mday + 1 /\ MTaken = Generation
          /\ \A p \in Staff(mUsers) : Taken(p) = Generation
          /\ sem["DAY_END"] = 0 /\ mday \in Nat
      <4>1. mpc = "forkUsers"
        BY <2>3, Births
      <4> QED BY <4>1, AtFork, AllTaken, CountsAreNatural DEF TypeInv, TypeOK
    <3>2. \A p \in Staff(mUsers') : Taken(p)' \in {Generation - 1, Generation}
      <4>1. ASSUME NEW p \in Staff(mUsers) PROVE Taken(p)' = Generation
        BY <2>3, <3>1, Births DEF MemberCounters
      <4>2. ASSUME NEW p \in Staff(mUsers') \ Staff(mUsers) PROVE Taken(p)' = Generation - 1
        BY <2>3, <3>1, Births DEF Taken, Rounds
      <4> QED BY <4>1, <4>2
    <3>3. \A p \in Staff(Funded) : UNCHANGED Taken(p)
      BY <1>0, <2>3, Births DEF MemberCounters
    <3>4. {p \in Staff(Funded) : Taken(p) < Generation}' = owing
      BY <2>1, <3>3
    <3>5. UNCHANGED <<MTaken, sem>>
      BY <2>3, Births DEF ManagerCounters
    <3> QED BY <2>1, <3>2, <3>4, <3>5 DEF DayEndInv
  <2>4. CASE ~ManagerLockDayEnd /\ ~InitNewUsers
    <3>1. UNCHANGED <<MTaken, sem["DAY_END"], pc, day, mUsers>>
      BY <1>1, <2>4, ManagerFrame
    <3>2. \A p : UNCHANGED Taken(p)
      BY <3>1 DEF Taken
    <3>3. {p \in Staff(Funded) : Taken(p) < Generation}' = owing
      BY <2>1, <3>2
    <3> QED BY <2>1, <3>1, <3>2, <3>3 DEF DayEndInv
  <2> QED BY <2>2, <2>3, <2>4
<1>2. CASE ClockStep \/ SendWorkerPause \/ SendUserNotific
  <2>1. /\ UNCHANGED <<mpc, mday, mUsers, pc, day, sem["STOP_SIM_EXPLODE"]>>
        /\ UNCHANGED MTaken
    BY <1>2, ClockFrame, ManagerCountersKept DEF UsersInv, ManagerCounters
  <2>2. \A p : UNCHANGED Taken(p)
    BY <2>1 DEF Taken
  <2>3. CASE ClockSetup \/ ClockReleaseDayEnd
    <3>1. /\ sem'["DAY_END"] = sem["DAY_END"] + StartSemCount(cUsers)
          /\ cpc \in {"setup", "relDayEnd"} /\ cpc' \notin {"setup", "relNewUsers"}
          /\ UNCHANGED cUsers
          /\ IF cpc = "setup" THEN UNCHANGED cday ELSE cday' = cday + 1
      BY <1>0, <2>3
         DEF ClockSetup, ClockReleaseDayEnd, ClockGoto, ReleaseSemVal, ClockStays, SemNames
    <3>2. Generation' = Generation + 1 /\ Funded' = cUsers
      BY <3>1, ClockOrder DEF Generation, Funded, PlacesInv
    <3>3. Generation <= MOpened
      <4>1. CASE cpc = "setup"
        BY <1>0, <4>1 DEF Generation
      <4>2. CASE cpc = "relDayEnd"
        <5>1. ClockStarted = cday + 1 /\ Generation = cday + 1
          BY <4>2, CountsAreNatural
             DEF ClockStarted, Setting, Rounds, Generation, TypeInv, TypeOK, DaysBounded
        <5> QED BY <1>0, <5>1, ClockOrder DEF StartInv
      <4> QED BY <3>1, <4>1, <4>2
    <3> QED BY <2>1, <2>2, <3>1, <3>2, <3>3, DayEndFilled
  <2>4. CASE ClockReleaseNewUsers
    <3>1. /\ cpc = "relNewUsers" /\ cpc' = "userReqs" /\ UNCHANGED <<cUsers, cday>>
          /\ sem'["DAY_END"] = sem["DAY_END"] + N_NEW_USERS
      BY <1>0, <2>4
         DEF ClockReleaseNewUsers, ClockGoto, ReleaseSemVal, ClockStays, SemNames
    <3>2. /\ cUsers = mUsers /\ Funded' = mUsers /\ Funded = mUsers - N_NEW_USERS
          /\ Funded \in Nat /\ mUsers \in Nat /\ N_NEW_USERS \in Nat
      <4>1. cUsers = mUsers
        BY <3>1, ClockListens, ClockOrder DEF ToldInv
      <4> QED BY <3>1, <4>1, StaffIs, CountsAreNatural DEF Funded
    <3>3. UNCHANGED Generation
      BY <3>1 DEF Generation
    <3>4. /\ IsFiniteSet(Staff(mUsers)) /\ IsFiniteSet(Staff(Funded)) /\ IsFiniteSet(Unfunded)
          /\ Cardinality(Staff(mUsers)) = Cardinality(Staff(Funded)) + N_NEW_USERS
      <4>1. Counted(mUsers) /\ Counted(Funded)
        BY DEF UsersInv
      <4>2. IsFiniteSet(Staff(mUsers)) /\ IsFiniteSet(Staff(Funded))
        BY <4>1, CrewSize
      <4>3. Unfunded \in SUBSET Staff(mUsers)
        BY DEF Unfunded
      <4>4. IsFiniteSet(Unfunded)
        BY <4>2, <4>3, FS_Subset
      <4>5. /\ Cardinality(Staff(mUsers)) = Cardinality(Workers) + mUsers + 1
            /\ Cardinality(Staff(Funded)) = Cardinality(Workers) + Funded + 1
        BY <4>1, CrewSize
      <4> QED BY <3>2, <4>2, <4>4, <4>5, CountsAreNatural
    <3>5. Cardinality(Unfunded) = N_NEW_USERS
      <4>1. Staff(mUsers) = Staff(Funded) \cup Unfunded /\ Staff(Funded) \cap Unfunded = {}
        BY <1>0 DEF Unfunded
      <4>2. Cardinality(Staff(mUsers)) = Cardinality(Staff(Funded)) + Cardinality(Unfunded)
                                           - Cardinality(Staff(Funded) \cap Unfunded)
        BY <3>4, <4>1, FS_Union
      <4>3. Cardinality(Staff(Funded) \cap Unfunded) = 0
        BY <4>1, FS_EmptySet
      <4>4. Cardinality(Staff(Funded)) \in Nat /\ Cardinality(Unfunded) \in Nat
        BY <3>4, FS_CardinalityType
      <4> QED BY <3>2, <3>4, <4>2, <4>3, <4>4
    <3>6. {p \in Staff(Funded) : Taken(p) < Generation}' = owing \cup Unfunded
      <4>1. \A p \in Unfunded : Taken(p)' < Generation'
        <5> SUFFICES ASSUME NEW p \in Unfunded PROVE Taken(p) < Generation
          BY <2>2, <3>3
        <5>1. pc[p] = "lockDayEnd" /\ day[p] + 1 = Generation
          BY DEF UsersInv, Unfunded
        <5>2. Taken(p) = day[p] /\ day[p] \in Nat
          BY <1>0, <5>1, MemberOrder DEF Taken, Rounds, Unfunded
        <5> QED BY <1>0, <5>1, <5>2
      <4>2. Staff(Funded)' = Staff(Funded) \cup Unfunded
        BY <1>0, <2>1, <3>2 DEF Unfunded
      <4> QED BY <2>2, <3>3, <4>1, <4>2
    <3>7. Cardinality(owing \cup Unfunded) = Cardinality(owing) + N_NEW_USERS
      <4>1. owing \cap Unfunded = {}
        BY DEF Unfunded
      <4>2. Cardinality(owing \cap Unfunded) = 0
        BY <4>1, FS_EmptySet
      <4> HIDE DEF owing
      <4>3. Cardinality(owing \cup Unfunded)
              = Cardinality(owing) + Cardinality(Unfunded) - Cardinality(owing \cap Unfunded)
        BY <1>0, <3>4, FS_Union
      <4> QED BY <1>0, <3>2, <3>5, <4>2, <4>3
    <3>8. sem'["DAY_END"] = Cardinality(owing \cup Unfunded) + Bit(MTaken < Generation)'
      <4>1. sem["DAY_END"] = Cardinality(owing) + Bit(MTaken < Generation)
        BY DEF DayEndInv
      <4> HIDE DEF owing
      <4> QED BY <1>0, <2>1, <3>1, <3>2, <3>3, <3>7, <4>1 DEF Bit
    <3> QED BY <2>1, <2>2, <3>3, <3>6, <3>8 DEF DayEndInv
  <2>5. CASE ~(ClockSetup \/ ClockReleaseDayEnd \/ ClockReleaseNewUsers)
    <3>1. UNCHANGED <<Generation, Funded, sem["DAY_END"]>>
      BY <1>2, <2>5, ClockFrame DEF UsersInv
    <3>2. {p \in Staff(Funded) : Taken(p) < Generation}' = owing
      BY <2>2, <3>1
    <3> QED BY <2>1, <2>2, <3>1, <3>2 DEF DayEndInv
  <2> QED BY <2>3, <2>4, <2>5
<1>3. ASSUME NEW p \in Members, MemberStep(p) \/ SendWork(p) PROVE DayEndInv'
  <2>1. /\ UNCHANGED <<mpc, mday, mUsers, cpc, cday, cUsers, sem["STOP_SIM_EXPLODE"]>>
        /\ \A q \in Members \ {p} : pc'[q] = pc[q] /\ day'[q] = day[q]
        /\ ~MemberLockDayEnd(p) => UNCHANGED <<Taken(p), sem["DAY_END"]>>
    BY <1>3, MemberFrame
  <2>2. UNCHANGED <<MTaken, Generation, Funded>>
    BY <2>1, ManagerCountersKept, ClockCountersKept DEF ManagerCounters, ClockCounters
  <2>3. \A q \in Members \ {p} : UNCHANGED Taken(q)
    BY <2>1 DEF Taken
  <2>4. CASE MemberLockDayEnd(p)
    <3>1. /\ pc[p] = "lockDayEnd" /\ pc'[p] = "waitZero" /\ UNCHANGED day
          /\ sem["DAY_END"] > 0 /\ sem'["DAY_END"] = sem["DAY_END"] - 1
      BY <1>0, <2>4 DEF MemberLockDayEnd, Goto, LockSem, MemberStays, SemNames, TypeInv, TypeOK
    <3>2. Taken(p) = day[p] /\ Taken(p)' = Taken(p) + 1
      BY <3>1, CountsAreNatural DEF Taken, Rounds, TypeInv, TypeOK, DaysBounded
    <3>3. p \in Staff(Funded)
      BY <1>0, <3>1 DEF UsersInv
    <3>4. Taken(p) = Generation - 1
      <4>1. MOpened < Generation
        BY <1>0, <3>1, RoundOver
      <4>2. day[p] <= MOpened
        BY <1>0, <3>3, MemberOrder DEF StartInv
      <4> QED BY <1>0, <3>2, <3>3, <4>1, <4>2, MemberOrder DEF DayEndInv
    <3>5. {q \in Staff(Funded) : Taken(q) < Generation}' = owing \ {p}
      BY <1>0, <2>2, <2>3, <3>2, <3>4
    <3>6. p \in owing
      BY <1>0, <3>3, <3>4
    <3>7. sem'["DAY_END"] = Cardinality(owing \ {p}) + Bit(MTaken < Generation)'
      <4>1. sem["DAY_END"] = Cardinality(owing) + Bit(MTaken < Generation)
        BY DEF DayEndInv
      <4> HIDE DEF owing
      <4>2. Cardinality(owing \ {p}) = Cardinality(owing) - 1
        BY <1>0, <3>6, FS_RemoveElement
      <4> QED BY <1>0, <2>2, <3>1, <4>1, <4>2 DEF Bit
    <3>8. \A q \in Staff(mUsers)' : Taken(q)' \in {Generation' - 1, Generation'}
      BY <1>0, <2>1, <2>2, <2>3, <3>2, <3>4 DEF DayEndInv
    <3>9. MTaken' \in {Generation' - 1, Generation'}
      BY <2>2 DEF DayEndInv
    <3> QED BY <3>5, <3>7, <3>8, <3>9 DEF DayEndInv
  <2>5. CASE ~MemberLockDayEnd(p)
    <3>1. \A q \in Members : UNCHANGED Taken(q)
      BY <2>1, <2>3, <2>5
    <3>2. {q \in Staff(Funded) : Taken(q) < Generation}' = owing
      BY <1>0, <2>2, <3>1
    <3> QED BY <1>0, <2>1, <2>2, <2>5, <3>1, <3>2 DEF DayEndInv
  <2> QED BY <2>4, <2>5
<1>4. CASE AddUsersMain \/ UNCHANGED vars
  <2>1. UNCHANGED <<mUsers, MTaken, Generation, Funded, sem["DAY_END"]>>
    BY <1>4, OutsideFrame DEF ManagerCounters, ClockCounters, SemNames
  <2>2. \A p : UNCHANGED Taken(p)
    BY <1>4, OutsideFrame DEF MemberCounters
  <2>3. {p \in Staff(Funded) : Taken(p) < Generation}' = owing
    BY <2>1, <2>2
  <2> QED BY <2>1, <2>2, <2>3 DEF DayEndInv
<1> QED BY <1>1, <1>2, <1>3, <1>4, StepCases

LEMMA PassStep ==
  ASSUME DayInv, [Next]_vars
  PROVE  PassInv'
<1> USE DEF DayInv
<1>0. /\ MTaken \in Nat /\ MPassed \in Nat /\ MGathered \in Nat /\ Generation \in Nat
      /\ Staff(mUsers) \subseteq Members /\ mday \in Nat
      /\ \A p \in Staff(mUsers) : /\ Passed(p) \in Nat /\ Taken(p) \in Nat /\ day[p] \in Nat
                                  /\ Passed(p) <= Taken(p)
  <2>1. Staff(mUsers) \subseteq Members /\ mday \in Nat
    BY StaffIs, CountsAreNatural DEF TypeInv, TypeOK
  <2>2. \A p \in Staff(mUsers) : /\ Passed(p) \in Nat /\ Taken(p) \in Nat /\ day[p] \in Nat
                                 /\ Passed(p) <= Taken(p)
    BY <2>1, MemberOrder
  <2> QED BY <2>1, <2>2, ManagerOrder, ClockOrder
<1>1. CASE ManagerStep
  <2>1. CASE InitNewUsers
    <3>1. /\ MPassed = mday + 1 /\ MGathered = mday /\ MTaken \in {mday + 1}
          /\ \A p \in Staff(mUsers) : Taken(p) = mday + 1
      <4>1. mpc = "forkUsers"
        BY <2>1, Births
      <4> QED BY <4>1, AtFork, AllTaken, CountsAreNatural DEF TypeInv, TypeOK
    <3>2. UNCHANGED <<MPassed, MTaken, MGathered>> /\ mpc' \in Adding
      BY <2>1, Births DEF ManagerCounters, Adding
    <3>3. \A p \in Staff(mUsers) : Taken(p)' = mday + 1 /\ Passed(p)' \in Nat /\ Passed(p)' <= mday + 1
      BY <1>0, <2>1, <3>1, Births DEF MemberCounters
    <3>4. \A p \in Staff(mUsers') \ Staff(mUsers) :
            /\ Taken(p)' = mday /\ Passed(p)' = mday
            /\ pc'[p] = "lockDayEnd" /\ day'[p] = mday
      BY <2>1, Births DEF Taken, Passed, Rounds
    <3>5. ASSUME NEW p \in Staff(mUsers')
          PROVE  /\ \A q \in Staff(mUsers') : Passed(q)' <= Taken(p)' \/ Late(p, Passed(q))'
                 /\ MPassed' <= Taken(p)' \/ Late(p, MPassed)'
                 /\ Passed(p)' <= MTaken'
      <4>1. CASE p \in Staff(mUsers)
        BY <1>0, <3>1, <3>2, <3>3, <3>4, <4>1
      <4>2. CASE p \notin Staff(mUsers)
        BY <1>0, <3>1, <3>2, <3>3, <3>4, <4>2 DEF Late
      <4> QED BY <4>1, <4>2
    <3> QED BY <3>5 DEF PassInv
  <2>2. CASE ~InitNewUsers
    <3>1. UNCHANGED <<pc, day, mUsers>>
      BY <1>1, <2>2, ManagerFrame
    <3>2. \A p : UNCHANGED Passed(p) /\ UNCHANGED Taken(p)
      BY <3>1 DEF Passed, Taken
    <3>3. CASE ManagerLockDayEnd \/ ManagerWaitZero
      <4>1. /\ mpc \in {"lockDayEnd", "exLockDayEnd", "waitZero", "exWaitZero"}
            /\ mpc' \in {"waitZero", "exWaitZero", "tryAddUsers", "exLockReady"}
            /\ MTaken' \in Nat /\ MTaken <= MTaken'
            /\ ManagerWaitZero => sem["DAY_END"] = 0 /\ MPassed' = MTaken
            /\ ManagerLockDayEnd => UNCHANGED MPassed
        <5>1. /\ mpc \in {"lockDayEnd", "exLockDayEnd", "waitZero", "exWaitZero"}
              /\ mpc' \in {"waitZero", "exWaitZero", "tryAddUsers", "exLockReady"}
              /\ ManagerWaitZero => sem["DAY_END"] = 0
              /\ ManagerWaitZero =>
                   mpc \in {"waitZero", "exWaitZero"} /\ mpc' \in {"tryAddUsers", "exLockReady"}
              /\ ManagerLockDayEnd =>
                   mpc \in {"lockDayEnd", "exLockDayEnd"} /\ mpc' \in {"waitZero", "exWaitZero"}
          BY <3>3 DEF ManagerLockDayEnd, ManagerWaitZero, ManagerGoto, WaitZeroSem
        <5>2. UNCHANGED Round
          BY <1>1, <5>1, ManagerFrame DEF DayCounted, ClockExplode, ManagerGoto
        <5>3. Round < SIM_DURATION /\ Round \in Nat
          BY <5>1, CountsAreNatural DEF Round, PlacesInv, TypeInv, TypeOK, DaysBounded
        <5> QED BY <3>3, <5>1, <5>2, <5>3 DEF MTaken, MPassed, Rounds
      <4>2. mpc \notin Adding
        BY <4>1 DEF Adding
      <4>3. \A p \in Staff(mUsers) : /\ \A q \in Staff(mUsers) : Passed(q) <= Taken(p)
                                     /\ MPassed <= Taken(p) /\ Passed(p) <= MTaken
        BY <4>2 DEF PassInv, Late
      <4>4. ASSUME NEW p \in Staff(mUsers) PROVE MPassed' <= Taken(p)
        <5>1. CASE ManagerWaitZero
          BY <1>0, <4>1, <4>2, <5>1, AllTaken
        <5>2. CASE ManagerLockDayEnd
          BY <4>1, <4>3, <5>2
        <5> QED BY <3>3, <5>1, <5>2
      <4>5. ASSUME NEW p \in Staff(mUsers) PROVE Passed(p) <= MTaken'
        BY <1>0, <4>1, <4>3
      <4> QED BY <3>1, <3>2, <4>3, <4>4, <4>5 DEF PassInv
    <3>4. CASE ManagerLockReady
      <4>1. UNCHANGED <<MTaken, MPassed>>
        BY <1>1, <3>4, ManagerFrame
           DEF ManagerLockReady, ManagerLockDayEnd, ManagerWaitZero, ManagerGoto
      <4>2. \A p \in Staff(mUsers) : Reported(p) = MGathered + 1
        BY <3>4, AllReady DEF ManagerLockReady, LockSemVal
      <4>3. \A p \in Staff(mUsers) : ~(pc[p] = "lockDayEnd" /\ day[p] = MGathered)
        BY <1>0, <4>2 DEF Reported, Rounds
      <4>4. \A p \in Staff(mUsers) : /\ \A q \in Staff(mUsers) : Passed(q) <= Taken(p)
                                     /\ MPassed <= Taken(p) /\ Passed(p) <= MTaken
        BY <4>3 DEF PassInv, Late
      <4> QED BY <3>1, <3>2, <4>1, <4>4 DEF PassInv
    <3>5. CASE ~(ManagerLockDayEnd \/ ManagerWaitZero \/ ManagerLockReady)
      <4>1. UNCHANGED <<MTaken, MPassed, MGathered>>
        BY <1>1, <3>5, ManagerFrame
      <4>2. mpc \in Adding => mpc' \in Adding
        BY <1>1, <2>2, <3>5
           DEF ManagerStep, TryAddUsers, ClockNoUsers, ClockNewUsers, InitSeats, ManagerSetStart,
               GetStats, DayCounted, Explode, ClockExplode, LetDie, WaitChildren, ManagerGoto, Adding
      <4>3. \A p, n : Late(p, n) => Late(p, n)'
        BY <3>1, <4>1, <4>2 DEF Late
      <4> QED BY <3>1, <3>2, <4>1, <4>3 DEF PassInv
    <3> QED BY <3>3, <3>4, <3>5
  <2> QED BY <2>1, <2>2
<1>2. CASE \/ ClockStep \/ SendWorkerPause \/ SendUserNotific
           \/ AddUsersMain \/ UNCHANGED vars
  <2>1. UNCHANGED <<mpc, pc, day, mUsers>> /\ UNCHANGED <<MTaken, MPassed, MGathered>>
    <3>1. CASE ClockStep \/ SendWorkerPause \/ SendUserNotific
      <4>1. UNCHANGED <<mpc, mday, pc, day, mUsers, sem["STOP_SIM_EXPLODE"]>>
        BY <3>1, ClockFrame DEF UsersInv
      <4> QED BY <4>1, ManagerCountersKept DEF ManagerCounters
    <3>2. CASE AddUsersMain \/ UNCHANGED vars
      BY <3>2, OutsideFrame DEF ManagerCounters
    <3> QED BY <1>2, <3>1, <3>2
  <2>2. \A p, n : Late(p, n) => Late(p, n)'
    BY <2>1 DEF Late
  <2>3. \A p : UNCHANGED Passed(p) /\ UNCHANGED Taken(p)
    BY <2>1 DEF Passed, Taken
  <2> QED BY <2>1, <2>2, <2>3 DEF PassInv
<1>3. ASSUME NEW p \in Members, MemberStep(p) \/ SendWork(p) PROVE PassInv'
  <2>1. /\ UNCHANGED <<mpc, mday, mUsers, sem["STOP_SIM_EXPLODE"]>>
        /\ \A q \in Members \ {p} : pc'[q] = pc[q] /\ day'[q] = day[q]
        /\ pc[p] # "unborn"
        /\ ~MemberLockDayEnd(p) => UNCHANGED Taken(p)
        /\ ~MemberWaitZero(p) => UNCHANGED Passed(p)
    BY <1>3, MemberFrame
  <2>2. UNCHANGED <<MTaken, MPassed, MGathered>>
    BY <2>1, ManagerCountersKept DEF ManagerCounters
  <2>3. \A q \in Members \ {p} :
          /\ UNCHANGED Taken(q) /\ UNCHANGED Passed(q) /\ (\A n : Late(q, n) => Late(q, n)')
    BY <2>1, <2>2 DEF Taken, Passed, Late
  <2>4. p \in Staff(mUsers)
    BY <2>1 DEF UsersInv
  <2>5. CASE MemberLockDayEnd(p)
    <3>1. /\ pc[p] = "lockDayEnd" /\ pc'[p] = "waitZero" /\ UNCHANGED day
          /\ Taken(p) = day[p] /\ Taken(p)' = day[p] + 1
      BY <2>5, CountsAreNatural
         DEF MemberLockDayEnd, Goto, MemberStays, Taken, Rounds, TypeInv, TypeOK, DaysBounded
    <3>2. UNCHANGED Passed(p)
      BY <2>1, <3>1 DEF MemberWaitZero, Goto
    <3>3. /\ \A q \in Staff(mUsers) : Passed(q)' <= Taken(p)'
          /\ MPassed' <= Taken(p)'
      <4>1. \A q \in Staff(mUsers) : UNCHANGED Passed(q)
        BY <1>0, <2>3, <3>2
      <4>2. \A q \in Staff(mUsers) : Passed(q) <= day[p] \/ Passed(q) = day[p] + 1
        BY <2>4, <3>1 DEF PassInv, Late
      <4>3. MPassed <= day[p] \/ MPassed = day[p] + 1
        BY <2>4, <3>1 DEF PassInv, Late
      <4> QED BY <1>0, <2>2, <2>4, <3>1, <4>1, <4>2, <4>3
    <3>4. \A r \in Staff(mUsers) \ {p} :
            /\ \A q \in Staff(mUsers) : Passed(q)' <= Taken(r)' \/ Late(r, Passed(q))'
            /\ MPassed' <= Taken(r)' \/ Late(r, MPassed)'
      <4>1. \A q \in Staff(mUsers) : UNCHANGED Passed(q)
        BY <1>0, <2>3, <3>2
      <4>2. \A r \in Staff(mUsers) \ {p} :
              /\ UNCHANGED Taken(r) /\ UNCHANGED pc[r] /\ UNCHANGED day[r]
        BY <1>0, <2>1, <2>3
      <4> QED BY <2>1, <2>2, <4>1, <4>2 DEF PassInv, Late
    <3>5. \A r \in Staff(mUsers) : Passed(r)' <= MTaken'
      BY <1>0, <2>2, <2>3, <3>2 DEF PassInv
    <3> QED BY <2>1, <3>3, <3>4, <3>5 DEF PassInv
  <2>6. CASE MemberWaitZero(p)
    <3>1. /\ pc[p] = "waitZero" /\ pc'[p] = "clear" /\ UNCHANGED day /\ sem["DAY_END"] = 0
          /\ Taken(p) = day[p] + 1 /\ Passed(p)' = day[p] + 1
      BY <2>6, CountsAreNatural
         DEF MemberWaitZero, Goto, WaitZeroSem, MemberStays, Taken, Passed, Rounds,
             TypeInv, TypeOK, DaysBounded
    <3>2. /\ MTaken = Generation
          /\ \A q \in Staff(Funded) : Taken(q) = Generation
          /\ \A q \in Staff(mUsers) \ Staff(Funded) :
               pc[q] = "lockDayEnd" /\ day[q] = MGathered /\ mpc \in Adding
               /\ Generation = MGathered + 1
      BY <3>1, AllTaken
    <3>3. Passed(p)' = Generation
      BY <2>4, <3>1, <3>2
    <3>4. UNCHANGED Taken(p)
      BY <2>1, <3>1 DEF MemberLockDayEnd, Goto
    <3>5. \A r \in Staff(mUsers) : Passed(p)' <= Taken(r)' \/ Late(r, Passed(p))'
      <4>1. ASSUME NEW r \in Staff(Funded) PROVE Passed(p)' <= Taken(r)'
        <5>1. UNCHANGED Taken(r)
          BY <2>3, <3>4, StaffIs
        <5> QED BY <1>0, <3>2, <3>3, <5>1
      <4>2. ASSUME NEW r \in Staff(mUsers) \ Staff(Funded) PROVE Late(r, Passed(p))'
        <5>1. r # p /\ r \in Members
          BY <1>0, <3>1, <3>2
        <5> QED BY <2>1, <2>2, <3>2, <3>3, <5>1 DEF Late
      <4> QED BY <4>1, <4>2
    <3>6. \A r \in Staff(mUsers) :
            /\ \A q \in Staff(mUsers) \ {p} : Passed(q)' <= Taken(r)' \/ Late(r, Passed(q))'
            /\ MPassed' <= Taken(r)' \/ Late(r, MPassed)'
      <4>1. \A q \in Staff(mUsers) \ {p} : UNCHANGED Passed(q)
        BY <1>0, <2>3
      <4>2. \A r \in Staff(mUsers) : UNCHANGED Taken(r)
        BY <1>0, <2>3, <3>4
      <4>3. \A r \in Staff(mUsers) : \A n : Late(r, n) => Late(r, n)'
        BY <1>0, <2>3, <3>1 DEF Late
      <4> QED BY <2>2, <4>1, <4>2, <4>3 DEF PassInv
    <3>7. \A r \in Staff(mUsers) : Passed(r)' <= MTaken'
      BY <1>0, <2>2, <2>3, <3>2, <3>3 DEF PassInv
    <3> QED BY <2>1, <3>5, <3>6, <3>7 DEF PassInv
  <2>7. CASE ~MemberLockDayEnd(p) /\ ~MemberWaitZero(p)
    <3>1. \A q \in Staff(mUsers) : UNCHANGED Taken(q) /\ UNCHANGED Passed(q)
      BY <1>0, <2>1, <2>3, <2>7
    <3>2. pc[p] # "lockDayEnd"
      BY <1>3, <2>7, AtLockDayEnd
    <3>3. \A r \in Staff(mUsers) : \A n : Late(r, n) => Late(r, n)'
      BY <1>0, <2>3, <3>2 DEF Late
    <3> QED BY <2>1, <2>2, <3>1, <3>3 DEF PassInv
  <2> QED BY <2>5, <2>6, <2>7
<1> QED BY <1>1, <1>2, <1>3, StepCases

LEMMA GatherStep ==
  ASSUME DayInv, [Next]_vars
  PROVE  GatherInv'
<1> USE DEF DayInv
<1> DEFINE ready == {p \in Staff(mUsers) : Reported(p) > MGathered}
<1>0. /\ IsFiniteSet(ready) /\ Cardinality(ready) \in Nat /\ IsFiniteSet(Staff(mUsers))
      /\ MGathered \in Nat /\ ClockReported \in Nat
      /\ Staff(mUsers) \subseteq Members
      /\ sem \in [SemNames -> Nat]
  <2>1. IsFiniteSet(Staff(mUsers)) /\ Staff(mUsers) \subseteq Members
    BY StaffIs
  <2>2. IsFiniteSet(ready) /\ Cardinality(ready) \in Nat
    BY <2>1, FS_Subset, FS_CardinalityType
  <2> HIDE DEF ready
  <2> QED BY <2>1, <2>2, ManagerOrder, ClockOrder DEF TypeInv, TypeOK
<1>1. CASE ManagerStep
  <2>1. UNCHANGED ClockReported
    BY <1>1, ManagerFrame, ClockCountersKept DEF ClockCounters
  <2>2. CASE ManagerLockReady
    <3>1. /\ UNCHANGED <<mUsers, pc, day>>
          /\ sem["PROC_READY"] >= StartSemCount(mUsers)
          /\ sem'["PROC_READY"] = sem["PROC_READY"] - StartSemCount(mUsers)
          /\ mpc \in {"lockReady", "exLockReady"} /\ mpc' \in {"setStart", "exSetStart"}
      BY <1>0, <2>2
         DEF ManagerLockReady, ManagerGoto, ManagerStays, LockSemVal, memberVars, SemNames
    <3>2. MGathered' = MGathered + 1
      <4>1. UNCHANGED Round
        BY <1>1, <3>1, ManagerFrame DEF DayCounted, ClockExplode, ManagerGoto
      <4>2. Round < SIM_DURATION
        BY <3>1, CountsAreNatural DEF Round, PlacesInv, TypeInv, TypeOK, DaysBounded
      <4> QED BY <3>1, <4>1, <4>2 DEF MGathered, Rounds, Gathering
    <3>3. /\ \A p \in Staff(mUsers) : Reported(p) = MGathered + 1
          /\ ClockReported = MGathered + 1 /\ sem["PROC_READY"] = StartSemCount(mUsers)
          /\ StartSemCount(mUsers) \in Nat
      BY <3>1, AllReady, StaffIs, StartCountType
    <3>4. \A p : UNCHANGED Reported(p)
      BY <3>1 DEF Reported
    <3>5. {p \in Staff(mUsers) : Reported(p) > MGathered}' = {}
      BY <1>0, <3>1, <3>2, <3>3, <3>4
    <3>6. sem'["PROC_READY"] = 0 /\ Bit(ClockReported > MGathered)' = 0
      BY <1>0, <2>1, <3>1, <3>2, <3>3 DEF Bit
    <3>7. /\ \A p \in Staff(mUsers)' : Reported(p)' = MGathered'
          /\ ClockReported' = MGathered'
      BY <2>1, <3>1, <3>2, <3>3, <3>4
    <3> QED BY <3>5, <3>6, <3>7, FS_EmptySet DEF GatherInv
  <2>3. CASE InitNewUsers
    <3>1. MGathered = mday
      <4>1. mpc = "forkUsers"
        BY <2>3, Births
      <4> QED BY <4>1, AtFork
    <3>2. UNCHANGED <<MGathered, sem>>
      BY <2>3, Births DEF ManagerCounters
    <3>3. \A p \in Staff(mUsers) : UNCHANGED Reported(p)
      BY <2>3, Births DEF MemberCounters
    <3>4. \A p \in Staff(mUsers') \ Staff(mUsers) : Reported(p)' = MGathered
      BY <2>3, <3>1, Births DEF Reported, Rounds
    <3>5. {p \in Staff(mUsers) : Reported(p) > MGathered}' = ready
      <4>1. Staff(mUsers) \subseteq Staff(mUsers')
        BY <2>3, Births
      <4> QED BY <1>0, <3>2, <3>3, <3>4, <4>1
    <3>6. \A p \in Staff(mUsers)' : Reported(p)' \in {MGathered', MGathered' + 1}
      BY <3>2, <3>3, <3>4 DEF GatherInv
    <3> QED BY <2>1, <3>2, <3>5, <3>6 DEF GatherInv
  <2>4. CASE ~ManagerLockReady /\ ~InitNewUsers
    <3>1. UNCHANGED <<MGathered, sem["PROC_READY"], pc, day, mUsers>>
      BY <1>1, <2>4, ManagerFrame
    <3>2. \A p : UNCHANGED Reported(p)
      BY <3>1 DEF Reported
    <3>3. {p \in Staff(mUsers) : Reported(p) > MGathered}' = ready
      BY <3>1, <3>2
    <3> QED BY <2>1, <3>1, <3>2, <3>3 DEF GatherInv
  <2> QED BY <2>2, <2>3, <2>4
<1>2. CASE ClockStep \/ SendWorkerPause \/ SendUserNotific
  <2>1. /\ UNCHANGED <<mpc, mday, mUsers, pc, day, sem["STOP_SIM_EXPLODE"]>>
        /\ UNCHANGED MGathered
    BY <1>2, ClockFrame, ManagerCountersKept DEF UsersInv, ManagerCounters
  <2>2. \A p : UNCHANGED Reported(p)
    BY <2>1 DEF Reported
  <2>3. {p \in Staff(mUsers) : Reported(p) > MGathered}' = ready
    BY <2>1, <2>2
  <2>4. CASE ClockReady
    <3>1. /\ cpc = "ready" /\ cpc' = "lockStart" /\ UNCHANGED cday
          /\ sem'["PROC_READY"] = sem["PROC_READY"] + 1
      BY <1>0, <2>4 DEF ClockReady, ClockGoto, ReleaseSem, ClockStays, SemNames
    <3>2. ClockReported = cday /\ ClockReported' = cday + 1
      BY <3>1, CountsAreNatural
         DEF ClockReported, Rounds, Setting, TypeInv, TypeOK, DaysBounded
    <3>3. ClockReported = MGathered
      <4>1. MTold = cday + 1
        BY <3>1, ClockListens
      <4> QED BY <1>0, <3>2, <4>1, ManagerOrder DEF GatherInv
    <3>4. sem'["PROC_READY"] = Cardinality(ready) + Bit(ClockReported > MGathered)'
      <4>1. sem["PROC_READY"] = Cardinality(ready) + Bit(ClockReported > MGathered)
        BY DEF GatherInv
      <4> HIDE DEF ready
      <4> QED BY <1>0, <2>1, <3>1, <3>2, <3>3, <4>1 DEF Bit
    <3>5. /\ \A p \in Staff(mUsers)' : Reported(p)' \in {MGathered', MGathered' + 1}
          /\ ClockReported' \in {MGathered', MGathered' + 1}
      BY <2>1, <2>2, <3>2, <3>3 DEF GatherInv
    <3> QED BY <2>3, <3>4, <3>5 DEF GatherInv
  <2>5. CASE ~ClockReady
    <3>1. UNCHANGED <<ClockReported, sem["PROC_READY"]>>
      BY <1>2, <2>5, ClockFrame DEF UsersInv
    <3> QED BY <2>1, <2>2, <2>3, <3>1 DEF GatherInv
  <2> QED BY <2>4, <2>5
<1>3. ASSUME NEW p \in Members, MemberStep(p) \/ SendWork(p) PROVE GatherInv'
  <2>1. /\ UNCHANGED <<mpc, mday, mUsers, cpc, cday, cUsers, sem["STOP_SIM_EXPLODE"]>>
        /\ \A q \in Members \ {p} : pc'[q] = pc[q] /\ day'[q] = day[q]
        /\ pc[p] # "unborn"
        /\ ~MemberReady(p) => UNCHANGED <<Reported(p), sem["PROC_READY"]>>
    BY <1>3, MemberFrame
  <2>2. UNCHANGED <<MGathered, ClockReported>>
    BY <2>1, ManagerCountersKept, ClockCountersKept DEF ManagerCounters, ClockCounters
  <2>3. \A q \in Members \ {p} : UNCHANGED Reported(q)
    BY <2>1 DEF Reported
  <2>4. CASE MemberReady(p)
    <3>1. /\ pc[p] = "ready" /\ pc'[p] = "lockStart" /\ UNCHANGED day
          /\ sem'["PROC_READY"] = sem["PROC_READY"] + 1
      BY <1>0, <2>4 DEF MemberReady, Goto, ReleaseSem, MemberStays, SemNames, TypeInv, TypeOK
    <3>2. Reported(p) = day[p] /\ Reported(p)' = day[p] + 1 /\ Passed(p) = day[p] + 1
      BY <3>1, CountsAreNatural DEF Reported, Passed, Rounds, TypeInv, TypeOK, DaysBounded
    <3>3. p \in Staff(mUsers)
      BY <2>1 DEF UsersInv
    <3>4. Reported(p) = MGathered
      BY <1>0, <3>2, <3>3, ManagerOrder, MemberOrder DEF GatherInv, PassInv
    <3>5. {q \in Staff(mUsers) : Reported(q) > MGathered}' = ready \cup {p} /\ p \notin ready
      BY <1>0, <2>1, <2>2, <2>3, <3>2, <3>3, <3>4
    <3>6. sem'["PROC_READY"] = Cardinality(ready \cup {p}) + Bit(ClockReported > MGathered)'
      <4>1. sem["PROC_READY"] = Cardinality(ready) + Bit(ClockReported > MGathered)
        BY DEF GatherInv
      <4>2. p \notin ready
        BY <3>5
      <4> HIDE DEF ready
      <4>3. Cardinality(ready \cup {p}) = Cardinality(ready) + 1
        BY <1>0, <4>2, FS_AddElement
      <4> QED BY <1>0, <2>2, <3>1, <4>1, <4>3 DEF Bit
    <3>7. \A q \in Staff(mUsers)' : Reported(q)' \in {MGathered', MGathered' + 1}
      BY <1>0, <2>1, <2>2, <2>3, <3>2, <3>4 DEF GatherInv
    <3>8. ClockReported' \in {MGathered', MGathered' + 1}
      BY <2>2 DEF GatherInv
    <3> QED BY <3>5, <3>6, <3>7, <3>8 DEF GatherInv
  <2>5. CASE ~MemberReady(p)
    <3>1. \A q \in Members : UNCHANGED Reported(q)
      BY <2>1, <2>3, <2>5
    <3>2. {q \in Staff(mUsers) : Reported(q) > MGathered}' = ready
      BY <1>0, <2>1, <2>2, <3>1
    <3> QED BY <1>0, <2>1, <2>2, <2>5, <3>1, <3>2 DEF GatherInv
  <2> QED BY <2>4, <2>5
<1>4. CASE AddUsersMain \/ UNCHANGED vars
  <2>1. UNCHANGED <<mUsers, MGathered, ClockReported, sem["PROC_READY"]>>
    BY <1>4, OutsideFrame DEF ManagerCounters, ClockCounters, SemNames
  <2>2. \A p : UNCHANGED Reported(p)
    BY <1>4, OutsideFrame DEF MemberCounters
  <2>3. {p \in Staff(mUsers) : Reported(p) > MGathered}' = ready
    BY <2>1, <2>2
  <2> QED BY <2>1, <2>2, <2>3 DEF GatherInv
<1> QED BY <1>1, <1>2, <1>3, <1>4, StepCases

(* Before SETVAL on START all units of the round before have been taken.     *)
LEMMA AtSetStart ==
  ASSUME TypeInv, PlacesInv, UsersInv, GatherInv, StartInv, mpc \in {"setStart", "exSetStart"}
  PROVE  /\ MGathered = MOpened + 1 /\ MOpened = Round /\ sem["START"] = 0
         /\ \A p \in Staff(mUsers) : Started(p) = MOpened
         /\ ClockStarted = MOpened
<1>1. MGathered = MOpened + 1 /\ MOpened = Round /\ MOpened \in Nat
  <2>1. Round < SIM_DURATION /\ Round \in Nat
    BY CountsAreNatural DEF Round, PlacesInv, TypeInv, TypeOK, DaysBounded
  <2> QED BY <2>1 DEF MGathered, MOpened, Rounds, Gathering
<1>2. ASSUME NEW p \in Staff(mUsers) PROVE Started(p) = MOpened
  BY <1>1, StaffIs, MemberOrder DEF GatherInv, StartInv
<1>3. ClockStarted = MOpened
  BY <1>1, ClockOrder DEF GatherInv, StartInv
<1>4. {p \in Staff(mUsers) : Started(p) < MOpened} = {} /\ ~(ClockStarted < MOpened)
  BY <1>1, <1>2, <1>3
<1>5. sem["START"] = 0
  BY <1>4, FS_EmptySet DEF StartInv, Bit
<1> QED BY <1>1, <1>2, <1>3, <1>5

(* When somebody is already in the round after the one that is open, all     *)
(* units of START have been taken: none is left for it to steal.             *)
LEMMA NoneToSteal ==
  ASSUME DayInv, NEW p \in Staff(mUsers), Passed(p) > MOpened
  PROVE  sem["START"] = 0
<1> USE DEF DayInv
<1>0. /\ MOpened \in Nat /\ Passed(p) \in Nat /\ Taken(p) \in Nat /\ Passed(p) <= Taken(p)
      /\ MOpened <= MGathered
  BY StaffIs, ManagerOrder, MemberOrder
<1>1. ASSUME NEW q \in Staff(mUsers) PROVE ~(Started(q) < MOpened)
  <2>1. /\ day[q] \in Nat /\ Started(q) \in Nat /\ Taken(q) \in Nat
        /\ day[q] <= Started(q) /\ Taken(q) <= day[q] + 1
    BY StaffIs, MemberOrder
  <2>2. CASE Passed(p) <= Taken(q)
    BY <1>0, <2>1, <2>2
  <2>3. CASE Late(q, Passed(p))
    BY <1>0, <2>1, <2>3, ManagerOrder DEF Late
  <2> QED BY <2>2, <2>3 DEF PassInv
<1>2. ~(ClockStarted < MOpened)
  BY <1>0, ClockOrder DEF DayEndInv
<1>3. {q \in Staff(mUsers) : Started(q) < MOpened} = {}
  BY <1>1
<1> QED BY <1>2, <1>3, FS_EmptySet DEF StartInv, Bit

LEMMA StartStep ==
  ASSUME DayInv, [Next]_vars
  PROVE  StartInv'
<1> USE DEF DayInv
<1> DEFINE waiting == {p \in Staff(mUsers) : Started(p) < MOpened}
<1>0. /\ IsFiniteSet(waiting) /\ Cardinality(waiting) \in Nat /\ IsFiniteSet(Staff(mUsers))
      /\ MOpened \in Nat /\ ClockStarted \in Nat
      /\ Staff(mUsers) \subseteq Members
      /\ sem \in [SemNames -> Nat]
  <2>1. IsFiniteSet(Staff(mUsers)) /\ Staff(mUsers) \subseteq Members
    BY StaffIs
  <2>2. IsFiniteSet(waiting) /\ Cardinality(waiting) \in Nat
    BY <2>1, FS_Subset, FS_CardinalityType
  <2> HIDE DEF waiting
  <2> QED BY <2>1, <2>2, ManagerOrder, ClockOrder DEF TypeInv, TypeOK
<1>1. CASE ManagerStep
  <2>1. UNCHANGED ClockStarted
    BY <1>1, ManagerFrame, ClockCountersKept DEF ClockCounters
  <2>2. CASE ManagerSetStart
    <3>1. /\ UNCHANGED <<mUsers, pc, day>>
          /\ sem'["START"] = StartSemCount(mUsers)
          /\ mpc \in {"setStart", "exSetStart"} /\ mpc' \in {"getStats", "waitpid"}
      BY <1>0, <2>2 DEF ManagerSetStart, ManagerGoto, SetSemVal, memberVars, SemNames
    <3>2. MOpened' = MOpened + 1
      <4>1. UNCHANGED Round
        BY <1>1, <3>1, ManagerFrame DEF DayCounted, ClockExplode, ManagerGoto
      <4>2. Round < SIM_DURATION
        BY <3>1, CountsAreNatural DEF Round, PlacesInv, TypeInv, TypeOK, DaysBounded
      <4> QED BY <3>1, <4>1, <4>2 DEF MOpened, Rounds, Gathering
    <3>3. /\ \A p \in Staff(mUsers) : Started(p) = MOpened
          /\ ClockStarted = MOpened
          /\ StartSemCount(mUsers) = Cardinality(Staff(mUsers)) + 1
      BY <3>1, AtSetStart, CrewSize DEF UsersInv
    <3>4. \A p : UNCHANGED Started(p)
      BY <3>1 DEF Started
    <3>5. {p \in Staff(mUsers) : Started(p) < MOpened}' = Staff(mUsers)
      BY <1>0, <3>1, <3>2, <3>3, <3>4
    <3>6. Bit(ClockStarted < MOpened)' = 1
      BY <1>0, <2>1, <3>2, <3>3 DEF Bit
    <3>7. /\ \A p \in Staff(mUsers)' : Started(p)' \in {MOpened' - 1, MOpened'}
          /\ ClockStarted' \in {MOpened' - 1, MOpened'}
      BY <1>0, <2>1, <3>1, <3>2, <3>3, <3>4
    <3> QED BY <3>1, <3>3, <3>5, <3>6, <3>7 DEF StartInv
  <2>3. CASE InitNewUsers
    <3>1. MOpened = mday
      <4>1. mpc = "forkUsers"
        BY <2>3, Births
      <4> QED BY <4>1, AtFork
    <3>2. UNCHANGED <<MOpened, sem>>
      BY <2>3, Births DEF ManagerCounters
    <3>3. \A p \in Staff(mUsers) : UNCHANGED Started(p)
      BY <2>3, Births DEF MemberCounters
    <3>4. \A p \in Staff(mUsers') \ Staff(mUsers) : Started(p)' = MOpened
      BY <2>3, <3>1, Births DEF Started, Rounds
    <3>5. {p \in Staff(mUsers) : Started(p) < MOpened}' = waiting
      <4>1. Staff(mUsers) \subseteq Staff(mUsers')
        BY <2>3, Births
      <4> QED BY <1>0, <3>2, <3>3, <3>4, <4>1
    <3>6. \A p \in Staff(mUsers)' : Started(p)' \in {MOpened' - 1, MOpened'}
      BY <3>2, <3>3, <3>4 DEF StartInv
    <3> QED BY <2>1, <3>2, <3>5, <3>6 DEF StartInv
  <2>4. CASE ~ManagerSetStart /\ ~InitNewUsers
    <3>1. UNCHANGED <<MOpened, sem["START"], pc, day, mUsers>>
      BY <1>1, <2>4, ManagerFrame
    <3>2. \A p : UNCHANGED Started(p)
      BY <3>1 DEF Started
    <3>3. {p \in Staff(mUsers) : Started(p) < MOpened}' = waiting
      BY <3>1, <3>2
    <3> QED BY <2>1, <3>1, <3>2, <3>3 DEF StartInv
  <2> QED BY <2>2, <2>3, <2>4
<1>2. CASE ClockStep \/ SendWorkerPause \/ SendUserNotific
  <2>1. /\ UNCHANGED <<mpc, mday, mUsers, pc, day, sem["STOP_SIM_EXPLODE"]>>
        /\ UNCHANGED MOpened
    BY <1>2, ClockFrame, ManagerCountersKept DEF UsersInv, ManagerCounters
  <2>2. \A p : UNCHANGED Started(p)
    BY <2>1 DEF Started
  <2>3. {p \in Staff(mUsers) : Started(p) < MOpened}' = waiting
    BY <2>1, <2>2
  <2>4. CASE ClockLockStart
    <3>1. /\ cpc = "lockStart" /\ cpc' = "readExplode" /\ UNCHANGED cday
          /\ sem["START"] > 0 /\ sem'["START"] = sem["START"] - 1
      BY <1>0, <2>4 DEF ClockLockStart, ClockGoto, LockSem, ClockStays, SemNames
    <3>2. ClockStarted = cday /\ ClockStarted' = cday + 1
      BY <3>1, CountsAreNatural
         DEF ClockStarted, Rounds, Setting, TypeInv, TypeOK, DaysBounded
    <3>3. ClockStarted = MOpened - 1
      <4>1. PICK u \in Users : TRUE
        BY UsersAssumption
      <4>2. u \in Callers /\ u \in Staff(mUsers) /\ u \in Members
        BY StaffIs
      <4>3. Asked(u) > cday
        BY <3>1, <4>2 DEF RequestInv, Heard
      <4>4. Passed(u) <= MOpened
        BY <1>0, <3>1, <4>2, MemberOrder, NoneToSteal
      <4> QED BY <1>0, <3>2, <4>2, <4>3, <4>4, MemberOrder DEF StartInv
    <3>4. sem'["START"] = Cardinality(waiting) + Bit(ClockStarted < MOpened)'
      <4>1. sem["START"] = Cardinality(waiting) + Bit(ClockStarted < MOpened)
        BY DEF StartInv
      <4> HIDE DEF waiting
      <4> QED BY <1>0, <2>1, <3>1, <3>2, <3>3, <4>1 DEF Bit
    <3>5. /\ \A p \in Staff(mUsers)' : Started(p)' \in {MOpened' - 1, MOpened'}
          /\ ClockStarted' \in {MOpened' - 1, MOpened'}
      BY <1>0, <2>1, <2>2, <3>2, <3>3 DEF StartInv
    <3> QED BY <2>3, <3>4, <3>5 DEF StartInv
  <2>5. CASE ~ClockLockStart
    <3>1. UNCHANGED <<ClockStarted, sem["START"]>>
      BY <1>2, <2>5, ClockFrame DEF UsersInv
    <3> QED BY <2>1, <2>2, <2>3, <3>1 DEF StartInv
  <2> QED BY <2>4, <2>5
<1>3. ASSUME NEW p \in Members, MemberStep(p) \/ SendWork(p) PROVE StartInv'
  <2>1. /\ UNCHANGED <<mpc, mday, mUsers, cpc, cday, cUsers, sem["STOP_SIM_EXPLODE"]>>
        /\ \A q \in Members \ {p} : pc'[q] = pc[q] /\ day'[q] = day[q]
        /\ pc[p] # "unborn"
        /\ ~MemberLockStart(p) => UNCHANGED <<Started(p), sem["START"]>>
    BY <1>3, MemberFrame
  <2>2. UNCHANGED <<MOpened, ClockStarted>>
    BY <2>1, ManagerCountersKept, ClockCountersKept DEF ManagerCounters, ClockCounters
  <2>3. \A q \in Members \ {p} : UNCHANGED Started(q)
    BY <2>1 DEF Started
  <2>4. CASE MemberLockStart(p)
    <3>1. /\ pc[p] = "lockStart" /\ pc'[p] = "readExplode" /\ UNCHANGED day
          /\ sem["START"] > 0 /\ sem'["START"] = sem["START"] - 1
      BY <1>0, <2>4 DEF MemberLockStart, Goto, LockSem, MemberStays, SemNames, TypeInv, TypeOK
    <3>2. Started(p) = day[p] /\ Started(p)' = day[p] + 1 /\ Passed(p) = day[p] + 1
      BY <3>1, CountsAreNatural DEF Started, Passed, Rounds, TypeInv, TypeOK, DaysBounded
    <3>3. p \in Staff(mUsers)
      BY <2>1 DEF UsersInv
    <3>4. Started(p) = MOpened - 1
      <4>1. Passed(p) <= MOpened
        BY <1>0, <3>1, <3>3, MemberOrder, NoneToSteal
      <4> QED BY <1>0, <3>2, <3>3, <4>1, MemberOrder DEF StartInv
    <3>5. {q \in Staff(mUsers) : Started(q) < MOpened}' = waiting \ {p} /\ p \in waiting
      BY <1>0, <2>1, <2>2, <2>3, <3>2, <3>3, <3>4
    <3>6. sem'["START"] = Cardinality(waiting \ {p}) + Bit(ClockStarted < MOpened)'
      <4>1. sem["START"] = Cardinality(waiting) + Bit(ClockStarted < MOpened)
        BY DEF StartInv
      <4>2. p \in waiting
        BY <3>5
      <4> HIDE DEF waiting
      <4>3. Cardinality(waiting \ {p}) = Cardinality(waiting) - 1
        BY <1>0, <4>2, FS_RemoveElement
      <4> QED BY <1>0, <2>2, <3>1, <4>1, <4>3 DEF Bit
    <3>7. \A q \in Staff(mUsers)' : Started(q)' \in {MOpened' - 1, MOpened'}
      BY <1>0, <2>1, <2>2, <2>3, <3>2, <3>4 DEF StartInv
    <3>8. ClockStarted' \in {MOpened' - 1, MOpened'}
      BY <2>2 DEF StartInv
    <3> QED BY <3>5, <3>6, <3>7, <3>8 DEF StartInv
  <2>5. CASE ~MemberLockStart(p)
    <3>1. \A q \in Members : UNCHANGED Started(q)
      BY <2>1, <2>3, <2>5
    <3>2. {q \in Staff(mUsers) : Started(q) < MOpened}' = waiting
      BY <1>0, <2>1, <2>2, <3>1
    <3> QED BY <1>0, <2>1, <2>2, <2>5, <3>1, <3>2 DEF StartInv
  <2> QED BY <2>4, <2>5
<1>4. CASE AddUsersMain \/ UNCHANGED vars
  <2>1. UNCHANGED <<mUsers, MOpened, ClockStarted, sem["START"]>>
    BY <1>4, OutsideFrame DEF ManagerCounters, ClockCounters, SemNames
  <2>2. \A p : UNCHANGED Started(p)
    BY <1>4, OutsideFrame DEF MemberCounters
  <2>3. {p \in Staff(mUsers) : Started(p) < MOpened}' = waiting
    BY <2>1, <2>2
  <2> QED BY <2>1, <2>2, <2>3 DEF StartInv
<1> QED BY <1>1, <1>2, <1>3, <1>4, StepCases

(* Nobody asks the clock for more than the day the clock is in.              *)
LEMMA AskedBound ==
  ASSUME DayInv, NEW p \in Staff(mUsers)
  PROVE  /\ Asked(p) \in Nat /\ cday \in Nat
         /\ Asked(p) <= Passed(p) /\ Passed(p) <= Generation /\ Generation <= cday + 1
         /\ cday <= Reported(p) /\ Reported(p) <= Asked(p)
<1> USE DEF DayInv
<1>1. Passed(p) <= Generation
  BY StaffIs, MemberOrder, ClockOrder DEF DayEndInv
<1>2. cday <= Reported(p)
  BY StaffIs, MemberOrder, ClockOrder, ManagerOrder DEF StartInv, GatherInv
<1> QED BY <1>1, <1>2, StaffIs, MemberOrder, ClockOrder

(* When every request has been heard none is queued.                         *)
LEMMA AllHeard ==
  ASSUME RequestInv, Heard = Callers
  PROVE  clockQueue = {}
BY DEF RequestInv, Heard

LEMMA RequestStep ==
  ASSUME DayInv, [Next]_vars
  PROVE  RequestInv'
<1> USE DEF DayInv
<1>0. /\ Callers \subseteq Staff(mUsers) /\ Staff(mUsers) \subseteq Members
      /\ IsFiniteSet(Callers) /\ cday \in Nat /\ heard \in Nat
      /\ Callers = Workers \cup Numbered(mUsers) /\ Numbered(mUsers) \subseteq AllUsers
      /\ Workers \cap AllUsers = {} /\ Dispenser \notin Callers
  <2>1. Numbered(mUsers) \subseteq AllUsers
    BY CrewSize DEF UsersInv
  <2> QED BY <2>1, StaffIs, ClockOrder, DistinctAssumption
          DEF Callers, TypeInv, TypeOK, Reporters
<1>1. CASE \/ ManagerStep /\ ~InitNewUsers
           \/ AddUsersMain \/ UNCHANGED vars
  <2>1. UNCHANGED <<mUsers, pc, day, cpc, cday, heard, clockQueue>>
    BY <1>1, ManagerFrame, OutsideFrame
  <2>2. \A p : UNCHANGED Asked(p)
    BY <2>1 DEF Asked
  <2>3. UNCHANGED <<Callers, Heard>>
    BY <2>1, <2>2 DEF Callers, Heard
  <2> QED BY <2>1, <2>2, <2>3 DEF RequestInv, Open
<1>2. CASE InitNewUsers
  <2>1. cpc = "lockAdd" /\ cday = mday /\ UNCHANGED <<cpc, cday, clockQueue>>
    <3>1. mpc = "forkUsers"
      BY <1>2, Births
    <3> QED BY <1>2, <3>1, AtFork, Births
  <2>2. \A p \in Callers : UNCHANGED Asked(p)
    BY <1>0, <1>2, Births DEF MemberCounters
  <2>3. Callers \subseteq Callers' /\ Callers' \subseteq Staff(mUsers')
    <3>1. Staff(mUsers) \subseteq Staff(mUsers')
      BY <1>2, Births
    <3> QED BY <1>0, <3>1 DEF Callers, Staff
  <2>4. \A p \in Callers' \ Callers : Asked(p)' = mday
    <3>1. Dispenser \notin Callers'
      <4>1. Numbered(mUsers') \subseteq AllUsers
        BY <1>2, Births, CrewSize
      <4> QED BY <4>1, DistinctAssumption DEF Callers, Reporters
    <3>2. \A p \in Callers' \ Callers : p \in Staff(mUsers') \ Staff(mUsers)
      BY <2>3, <3>1 DEF Callers, Staff
    <3> QED BY <1>2, <3>2, Births DEF Asked, Rounds
  <2>5. Heard = {}
    BY <2>1 DEF RequestInv
  <2>6. Heard' = {}
    BY <1>0, <2>1, <2>2, <2>4, <2>5 DEF Heard
  <2>7. \A p \in clockQueue : p \in Callers' /\ Asked(p)' > cday
    BY <2>2, <2>3 DEF RequestInv
  <2> QED BY <2>1, <2>6, <2>7 DEF RequestInv, Open
<1>3. CASE ClockStep \/ SendWorkerPause \/ SendUserNotific
  <2>1. UNCHANGED <<mUsers, pc, day>> /\ (~ClockReleaseDayEnd => UNCHANGED cday)
    BY <1>3, ClockFrame DEF UsersInv
  <2>2. \A p : UNCHANGED Asked(p)
    BY <2>1 DEF Asked
  <2>3. UNCHANGED Callers
    BY <2>1 DEF Callers
  <2>4. CASE \/ ClockSetup \/ ClockLockAdd \/ ClockReadAdd \/ ClockAddNewUsers
             \/ ClockReleaseNewUsers
    <3>1. /\ cpc \in {"setup", "lockAdd", "readAdd", "lockAddAgain", "relNewUsers"}
          /\ UNCHANGED <<cday, clockQueue>>
          /\ cpc' \in {"lockAdd", "readAdd", "lockAddAgain", "relNewUsers", "userReqs"}
          /\ cpc' \in {"lockAddAgain", "relNewUsers", "userReqs"} => heard' = 0
      BY <2>4
         DEF ClockSetup, ClockLockAdd, ClockReadAdd, ClockAddNewUsers, ClockReleaseNewUsers,
             ClockGoto, ClockStays, queues, RequestInv
    <3>2. Heard' = {}
      BY <2>2, <2>3, <3>1 DEF RequestInv, Heard
    <3> QED BY <2>2, <2>3, <3>1, <3>2, FS_EmptySet DEF RequestInv, Open
  <2>5. CASE SetupUserNotific
    <3>1. cpc = "userReqs" /\ UNCHANGED cday /\ heard = Cardinality(Heard) /\ IsFiniteSet(Heard)
          /\ Heard \subseteq Numbered(mUsers)
      <4>1. cpc = "userReqs" /\ UNCHANGED cday
        BY <2>5 DEF SetupUserNotific, Hear, ClockGoto
      <4>2. Heard \in SUBSET Callers
        BY DEF Heard
      <4> QED BY <1>0, <4>1, <4>2, FS_Subset DEF RequestInv, Open
    <3>2. ASSUME NEW p \in clockQueue \cap AllUsers, clockQueue' = clockQueue \ {p},
                 heard' = heard + 1, UNCHANGED cpc
          PROVE  RequestInv'
      <4>1. Heard' = Heard \cup {p} /\ p \notin Heard
        BY <2>2, <2>3, <3>1, <3>2 DEF RequestInv, Heard
      <4>2. Cardinality(Heard') = heard'
        BY <3>1, <3>2, <4>1, FS_AddElement
      <4>3. Heard' \subseteq AllUsers
        BY <1>0, <3>1, <4>1
      <4> QED BY <2>2, <2>3, <3>1, <3>2, <4>2, <4>3 DEF RequestInv, Open
    <3>3. ASSUME heard >= cUsers, cpc' = "workerReqs", heard' = 0, UNCHANGED clockQueue
          PROVE  RequestInv'
      <4>1. cUsers = mUsers
        BY <3>1, ClockListens, ClockOrder DEF ToldInv
      <4>2. /\ IsFiniteSet(Numbered(mUsers)) /\ Cardinality(Numbered(mUsers)) = mUsers
            /\ mUsers \in Nat
        BY DEF UsersInv, Counted
      <4>3. Heard = Numbered(mUsers)
        <5>1. Heard \in SUBSET Numbered(mUsers)
          BY <3>1
        <5>2. Cardinality(Heard) <= Cardinality(Numbered(mUsers))
          BY <4>2, <5>1, FS_Subset
        <5>3. Cardinality(Heard) = Cardinality(Numbered(mUsers))
          BY <1>0, <3>1, <3>3, <4>1, <4>2, <5>2
        <5> QED BY <4>2, <5>1, <5>3, FS_Subset
      <4>4. UNCHANGED Heard
        BY <2>2, <2>3, <3>1, <3>3 DEF Heard
      <4>5. Heard \cap Workers = {}
        BY <1>0, <4>3
      <4>6. heard' = Cardinality(Heard \cap Workers)
        BY <3>3, <4>5, FS_EmptySet
      <4> QED BY <2>1, <2>2, <2>3, <3>1, <3>3, <4>3, <4>4, <4>6 DEF RequestInv, Open
    <3> QED BY <2>5, <3>2, <3>3 DEF SetupUserNotific, Hear, ClockGoto
  <2>6. CASE SetupWorkerPause
    <3>1. /\ cpc = "workerReqs" /\ UNCHANGED cday /\ Numbered(mUsers) \subseteq Heard
          /\ heard = Cardinality(Heard \cap Workers) /\ IsFiniteSet(Heard \cap Workers)
          /\ Heard \subseteq Callers
      <4>1. cpc = "workerReqs" /\ UNCHANGED cday
        BY <2>6 DEF SetupWorkerPause, Hear, ClockGoto
      <4>2. Heard \cap Workers \in SUBSET Callers /\ Heard \subseteq Callers
        BY DEF Heard
      <4> QED BY <1>0, <4>1, <4>2, FS_Subset DEF RequestInv, Open
    <3>2. ASSUME NEW p \in clockQueue \cap Workers, clockQueue' = clockQueue \ {p},
                 heard' = heard + 1, UNCHANGED cpc
          PROVE  RequestInv'
      <4>1. Heard' = Heard \cup {p} /\ p \notin Heard
        BY <2>2, <2>3, <3>1, <3>2 DEF RequestInv, Heard
      <4>2. Heard' \cap Workers = (Heard \cap Workers) \cup {p} /\ p \notin Heard \cap Workers
        BY <4>1
      <4>3. Cardinality(Heard' \cap Workers) = heard'
        BY <3>1, <3>2, <4>2, FS_AddElement
      <4>4. Numbered(mUsers)' \subseteq Heard'
        BY <2>1, <3>1, <4>1
      <4> QED BY <2>2, <2>3, <3>1, <3>2, <4>3, <4>4 DEF RequestInv, Open
    <3>3. ASSUME heard >= Cardinality(Workers), cpc' = "checkEmpty", heard' = 0,
                 UNCHANGED clockQueue
          PROVE  RequestInv'
      <4>1. Heard \cap Workers = Workers
        <5>1. Heard \cap Workers \in SUBSET Workers
          OBVIOUS
        <5>2. Cardinality(Heard \cap Workers) <= Cardinality(Workers)
          BY <5>1, FS_Subset, FiniteAssumption
        <5>3. Cardinality(Heard \cap Workers) = Cardinality(Workers)
          BY <1>0, <3>1, <3>3, <5>2, CountsAreNatural
        <5> QED BY <5>1, <5>3, FS_Subset, FiniteAssumption
      <4>2. Heard = Callers
        BY <1>0, <3>1, <4>1
      <4>3. UNCHANGED Heard
        BY <2>2, <2>3, <3>1, <3>3 DEF Heard
      <4> QED BY <2>2, <2>3, <3>1, <3>3, <4>2, <4>3 DEF RequestInv, Open
    <3> QED BY <2>6, <3>2, <3>3 DEF SetupWorkerPause, Hear, ClockGoto
  <2>7. CASE \/ ClockCheckEmpty \/ ClockReady \/ ClockLockStart \/ ClockReadExplode
             \/ ClockDayOver \/ SendMsgDayEnded \/ SendWorkerPause \/ SendUserNotific
    <3>1. /\ cpc \in {"checkEmpty", "ready", "lockStart", "readExplode"} \cup Open
          /\ UNCHANGED <<cday, clockQueue>>
          /\ cpc' \in {"ready", "lockStart", "readExplode", "exited"} \cup Open
      <4>1. ClockCheckEmpty => clockQueue = {}
        BY NoRequestLeft DEF ClockCheckEmpty, ClockGoto
      <4> QED BY <2>7, <4>1
              DEF ClockCheckEmpty, ClockReady, ClockLockStart, ClockReadExplode, ClockDayOver,
                  SendMsgDayEnded, TellDayEnded, SendWorkerPause, SendUserNotific, ClockSend,
                  ClockGoto, ClockStays, clockVars, queues, Open
    <3>2. Heard = Callers
      BY <3>1 DEF RequestInv
    <3>3. clockQueue = {}
      BY <3>2, AllHeard
    <3>4. Heard' = Callers'
      BY <2>2, <2>3, <3>1, <3>2 DEF Heard
    <3> QED BY <2>2, <2>3, <3>1, <3>3, <3>4 DEF RequestInv, Open
  <2>8. CASE ClockReleaseDayEnd
    <3>1. /\ cpc = "relDayEnd" /\ cpc' \in {"lockAdd", "canDie"} /\ cday' = cday + 1
          /\ UNCHANGED clockQueue
      BY <2>8 DEF ClockReleaseDayEnd, ClockGoto, queues
    <3>2. Heard = Callers
      BY <3>1 DEF RequestInv, Open
    <3>3. clockQueue = {}
      BY <3>2, AllHeard
    <3>4. \A p \in Callers : ~(Asked(p)' > cday')
      <4> SUFFICES ASSUME NEW p \in Callers PROVE ~(Asked(p) > cday + 1)
        BY <2>2, <3>1
      <4>1. p \in Staff(mUsers) /\ p \in Members
        BY <1>0
      <4> QED BY <4>1, AskedBound, MemberOrder, ClockOrder
    <3>5. Heard' = {}
      BY <2>3, <3>4 DEF Heard
    <3> QED BY <3>1, <3>3, <3>5 DEF RequestInv, Open
  <2>9. CASE ClockCanDie
    <3>1. cpc = "canDie" /\ cpc' = "exited" /\ UNCHANGED <<cday, clockQueue>>
      BY <2>9 DEF ClockCanDie, ClockGoto, ClockStays, queues
    <3> QED BY <3>1 DEF RequestInv, Open
  <2> QED BY <1>3, <2>4, <2>5, <2>6, <2>7, <2>8, <2>9, Zenon DEF ClockStep
<1>4. ASSUME NEW p \in Members, MemberStep(p) \/ SendWork(p) PROVE RequestInv'
  <2>1. /\ UNCHANGED <<mUsers, cpc, cday, heard>>
        /\ \A q \in Members \ {p} : pc'[q] = pc[q] /\ day'[q] = day[q]
        /\ pc[p] # "unborn"
        /\ p # Dispenser /\ ~SendClockReq(p) => UNCHANGED Asked(p)
    BY <1>4, MemberFrame
  <2>2. UNCHANGED Callers
    BY <2>1 DEF Callers
  <2>3. \A q \in Members \ {p} : UNCHANGED Asked(q)
    BY <2>1 DEF Asked
  <2>4. CASE SendClockReq(p)
    <3>1. /\ pc[p] = "clockReq" /\ pc'[p] = "ready" /\ UNCHANGED day
          /\ clockQueue' = clockQueue \cup {p}
      BY <2>4 DEF SendClockReq, Goto, TypeInv, TypeOK
    <3>2. p \in Callers
      BY <2>1, <3>1, StaffIs DEF TypeInv, DaysBounded, UsersInv
    <3>3. /\ Asked(p) = day[p] /\ Asked(p)' = day[p] + 1 /\ Reported(p) = day[p]
          /\ Passed(p) = day[p] + 1 /\ day[p] \in Nat /\ day[p] < SIM_DURATION
      BY <3>1, CountsAreNatural
         DEF Asked, Reported, Passed, Rounds, TypeInv, TypeOK, DaysBounded
    <3>4. day[p] = cday
      <4>1. /\ Passed(p) <= Generation /\ Generation <= cday + 1 /\ cday <= Reported(p)
        BY <1>0, <3>2, AskedBound
      <4>2. Generation \in Nat
        BY ClockOrder
      <4> QED BY <1>0, <3>3, <4>1, <4>2
    <3>5. cpc \notin {"canDie", "exited"}
      <4>1. ASSUME cpc \in {"canDie", "exited"} PROVE FALSE
        <5>1. ClockStarted = cday + 1
          BY <3>3, <3>4, <4>1 DEF ClockStarted, Rounds, Setting
        <5>2. ClockStarted <= Reported(p)
          <6>1. p \in Staff(mUsers) /\ p \in Members
            BY <1>0, <3>2
          <6> QED BY <6>1, ClockOrder, ManagerOrder, MemberOrder DEF StartInv, GatherInv
        <5> QED BY <1>0, <3>3, <3>4, <5>1, <5>2
      <4> QED BY <4>1
    <3>6. Asked(p)' > cday' /\ ~(Asked(p) > cday)
      BY <1>0, <2>1, <3>3, <3>4
    <3>7. Heard' = Heard
      BY <1>0, <2>1, <2>2, <2>3, <3>1, <3>6 DEF Heard
    <3>8. \A q \in clockQueue' : q \in Callers' /\ Asked(q)' > cday'
      BY <1>0, <2>1, <2>2, <2>3, <3>1, <3>2, <3>6 DEF RequestInv
    <3> QED BY <2>1, <2>2, <3>5, <3>7, <3>8 DEF RequestInv, Open
  <2>5. CASE ~SendClockReq(p)
    <3>1. UNCHANGED clockQueue
      BY <1>4, <2>5
         DEF MemberStep, SendWork, MemberLockDayEnd, MemberWaitZero, ClearMsgQueue, CheckCleared,
             MemberReady, MemberLockStart, MemberReadExplode, ReceiveDayEnded, ReceivePause,
             ReceiveWork, SendStats, MemberCanDie, MemberStays, queues
    <3>2. \A q \in Callers : UNCHANGED Asked(q)
      BY <1>0, <2>1, <2>3, <2>5
    <3>3. Heard' = Heard
      BY <2>1, <2>2, <3>1, <3>2 DEF Heard
    <3>4. \A q \in clockQueue' : q \in Callers' /\ Asked(q)' > cday'
      BY <2>1, <2>2, <3>1, <3>2 DEF RequestInv
    <3> QED BY <2>1, <2>2, <3>1, <3>3, <3>4 DEF RequestInv, Open
  <2> QED BY <2>4, <2>5
<1> QED BY <1>1, <1>2, <1>3, <1>4, StepCases

(* Nobody works while somebody clears its queue, nor while the manager sets  *)
(* up the seats: whoever works has not been behind the barrier of this round.*)
LEMMA QuietWhileCleared ==
  ASSUME DayInv,
         mpc = "initSeats" \/ \E p \in Members : pc[p] \in {"clear", "checkClear"}
  PROVE  ~SomebodyAtWork
<1> USE DEF DayInv
<1>0. MOpened \in Nat /\ MTaken \in Nat /\ MPassed \in Nat /\ Generation \in Nat /\ cday \in Nat
      /\ Staff(mUsers) \subseteq Members
  BY ManagerOrder, ClockOrder, StaffIs
<1>1. cpc \in Open => ClockStarted = cday + 1 /\ Generation = cday + 1 /\ cday + 1 <= MOpened
  BY <1>0, CountsAreNatural, ClockOrder
     DEF Open, ClockStarted, Setting, Rounds, Generation, TypeInv, TypeOK, DaysBounded, StartInv
<1>2. ASSUME NEW q \in Members, pc[q] \in {"core", "stats"}
      PROVE  /\ q \in Staff(mUsers) /\ Taken(q) = day[q] + 1 /\ day[q] \in Nat
             /\ day[q] + 1 <= MOpened
             /\ \A n : ~Late(q, n)
  <2>1. q \in Staff(mUsers)
    BY <1>2 DEF UsersInv
  <2>2. Started(q) = day[q] + 1 /\ Taken(q) = day[q] + 1 /\ day[q] \in Nat
    BY <1>2, CountsAreNatural DEF Started, Taken, Rounds, TypeInv, TypeOK, DaysBounded
  <2>3. Started(q) <= MOpened
    BY <1>0, <2>1, <2>2 DEF StartInv
  <2> QED BY <1>2, <2>1, <2>2, <2>3 DEF Late
<1>3. ASSUME NEW p \in Members, pc[p] \in {"clear", "checkClear"}
      PROVE  ~SomebodyAtWork
  <2>1. /\ p \in Staff(mUsers) /\ Passed(p) = day[p] + 1 /\ Reported(p) = day[p]
        /\ Taken(p) = day[p] + 1 /\ day[p] \in Nat
    <3>1. day[p] \in Nat /\ day[p] < SIM_DURATION
      <4>1. day[p] \in Nat
        BY CountsAreNatural DEF TypeInv, TypeOK
      <4>2. day[p] < SIM_DURATION
        BY <1>3 DEF TypeInv, DaysBounded
      <4> QED BY <4>1, <4>2
    <3>2. p \in Staff(mUsers)
      BY <1>3 DEF UsersInv
    <3>3. /\ Passed(p) = day[p] + 1 /\ Reported(p) = day[p]
          /\ Taken(p) = day[p] + 1
      BY <1>3, <3>1 DEF Passed, Reported, Taken, Rounds
    <3> QED BY <3>1, <3>2, <3>3
  <2>2. MOpened <= day[p]
    BY <1>0, <2>1, ManagerOrder DEF GatherInv
  <2>3. cpc \notin Open
    BY <1>0, <1>1, <2>1, <2>2 DEF DayEndInv
  <2>4. ASSUME NEW q \in Members, pc[q] \in {"core", "stats"} PROVE FALSE
    <3>1. Passed(p) <= Taken(q) \/ Late(q, Passed(p))
      BY <1>2, <2>1, <2>4 DEF PassInv
    <3> QED BY <1>0, <1>2, <2>1, <2>2, <2>4, <3>1
  <2> QED BY <2>3, <2>4 DEF SomebodyAtWork
<1>4. CASE mpc = "initSeats"
  <2>1. MOpened = Round /\ MPassed = Round + 1 /\ Round \in Nat
    BY <1>4, CountsAreNatural
       DEF MOpened, MPassed, Rounds, Round, Gathering, PlacesInv, TypeInv, TypeOK, DaysBounded
  <2>2. cpc \notin Open
    BY <1>0, <1>1, <2>1, ManagerOrder DEF DayEndInv
  <2>3. ASSUME NEW q \in Members, pc[q] \in {"core", "stats"} PROVE FALSE
    <3>1. MPassed <= Taken(q) \/ Late(q, MPassed)
      BY <1>2, <2>3 DEF PassInv
    <3> QED BY <1>0, <1>2, <2>1, <2>3, <3>1
  <2> QED BY <2>2, <2>3 DEF SomebodyAtWork
<1> QED BY <1>3, <1>4

LEMMA MailStep ==
  ASSUME DayInv, [Next]_vars
  PROVE  MailInv'
<1> USE DEF DayInv
<1>0. Staff(mUsers) \subseteq Members /\ mail \in [Members -> SUBSET Kinds]
      /\ pc \in [Members -> MemberPCs]
  BY StaffIs DEF TypeInv, TypeOK
<1>1. CASE \/ ManagerStep /\ ~InitNewUsers
           \/ AddUsersMain \/ UNCHANGED vars
  <2>1. UNCHANGED <<pc, cpc, mail>>
    BY <1>1, ManagerFrame, OutsideFrame
  <2> QED BY <2>1 DEF MailInv
<1>2. CASE InitNewUsers
  <2>1. UNCHANGED <<cpc, mail>>
    BY <1>2, Births
  <2>2. \A p \in Members : pc'[p] \in {pc[p], "lockDayEnd"}
    BY <1>2 DEF InitNewUsers
  <2> QED BY <2>1, <2>2 DEF MailInv
<1>3. CASE ClockStep \/ SendWorkerPause \/ SendUserNotific
  <2>1. UNCHANGED pc /\ cpc' # "fatal"
    BY <1>3, ClockFrame DEF UsersInv
  <2>2. CASE cpc \in Open
    <3>1. \A p \in Members : pc[p] # "checkClear"
      BY <2>2, QuietWhileCleared DEF SomebodyAtWork
    <3> QED BY <2>1, <3>1 DEF MailInv
  <2>3. CASE cpc \notin Open
    <3>1. UNCHANGED mail
      BY <1>3, <2>3
         DEF ClockStep, ClockSetup, ClockLockAdd, ClockReadAdd, ClockAddNewUsers,
             ClockReleaseNewUsers, SetupUserNotific, SetupWorkerPause, Hear, ClockCheckEmpty,
             ClockReady, ClockLockStart, ClockReadExplode, ClockDayOver, SendMsgDayEnded,
             ClockReleaseDayEnd, ClockCanDie, SendWorkerPause, SendUserNotific, ClockSend,
             ClockGoto, ClockStays, queues, Open
    <3> QED BY <2>1, <3>1 DEF MailInv
  <2> QED BY <2>2, <2>3
<1>4. ASSUME NEW p \in Members, MemberStep(p) \/ SendWork(p) PROVE MailInv'
  <2>1. UNCHANGED cpc /\ \A q \in Members \ {p} : pc'[q] = pc[q]
    BY <1>4, MemberFrame
  <2>2. CASE SendWork(p)
    <3>1. \A q \in Members : pc[q] # "checkClear"
      BY <2>2, QuietWhileCleared DEF SendWork, SomebodyAtWork
    <3>2. UNCHANGED pc
      BY <2>2 DEF SendWork, memberVars
    <3> QED BY <2>1, <3>1, <3>2 DEF MailInv
  <2>3. CASE ClearMsgQueue(p)
    BY <1>0, <2>1, <2>3 DEF ClearMsgQueue, Goto, MailInv
  <2>4. CASE MemberStep(p) /\ ~ClearMsgQueue(p)
    <3>1. \A q \in Members \ {p} : UNCHANGED mail[q]
      BY <1>0, <2>4
         DEF MemberStep, MemberLockDayEnd, MemberWaitZero, CheckCleared, SendClockReq, MemberReady,
             MemberLockStart, MemberReadExplode, ReceiveDayEnded, ReceivePause, ReceiveWork,
             SendStats, MemberCanDie, MemberStays, queues
    <3>2. \/ pc'[p] \notin {"checkClear", "fatal"}
          \/ UNCHANGED <<pc, mail>>
      <4>1. \A x, y : Goto(p, x, y) => pc'[p] = y
        BY <1>0 DEF Goto
      <4>2. NextDay(p) => pc'[p] \in {"lockDayEnd", "canDie"}
        BY <1>0 DEF NextDay
      <4>3. LeaveCore(p) => pc'[p] \in {"lockDayEnd", "canDie", "stats"}
        BY <4>1, <4>2 DEF LeaveCore
      <4>4. ReceivePause(p) \/ ReceiveWork(p) =>
              (UNCHANGED pc /\ pc[p] = "core") \/ LeaveCore(p)
        BY DEF ReceivePause, ReceiveWork, memberVars
      <4> QED BY <2>4, <4>1, <4>2, <4>3, <4>4
              DEF MemberStep, MemberLockDayEnd, MemberWaitZero, CheckCleared, SendClockReq,
                  MemberReady, MemberLockStart, MemberReadExplode, ReceiveDayEnded, SendStats,
                  MemberCanDie, MailInv, Goto
    <3> QED BY <1>0, <2>1, <3>1, <3>2 DEF MailInv
  <2> QED BY <1>4, <2>2, <2>3, <2>4
<1> QED BY <1>1, <1>2, <1>3, <1>4, StepCases

(* When the number get_stats waits for has come everybody has sent its own.  *)
LEMMA AllSent ==
  ASSUME TypeInv, UsersInv, StatsInv, mpc = "getStats", got = Expected
  PROVE  SentStats = Callers /\ statsQueue = {}
<1>1. /\ IsFiniteSet(Callers) /\ Cardinality(Callers) = Expected
      /\ SentStats \in SUBSET Callers
  BY StaffIs, CountsAreNatural DEF Expected, SentStats
<1>2. /\ IsFiniteSet(SentStats) /\ Cardinality(SentStats) <= Cardinality(Callers)
      /\ Cardinality(Callers) = Cardinality(SentStats) => Callers = SentStats
      /\ Cardinality(Callers) \in Nat /\ Cardinality(SentStats) \in Nat
  BY <1>1, FS_Subset, FS_CardinalityType
<1>3. statsQueue \subseteq SentStats \X {mday}
      /\ got + Cardinality(statsQueue) = Cardinality(SentStats)
  BY DEF StatsInv
<1>4. IsFiniteSet(SentStats \X {mday})
  BY <1>2, FS_Product, FS_Singleton
<1>5. IsFiniteSet(statsQueue)
  BY <1>3, <1>4, FS_Subset
<1>6. Cardinality(statsQueue) \in Nat
  BY <1>5, FS_CardinalityType
<1>7. Cardinality(statsQueue) = 0 /\ Cardinality(Callers) = Cardinality(SentStats)
  BY <1>1, <1>2, <1>3, <1>6
<1> QED BY <1>2, <1>5, <1>7, FS_EmptySet

(* Who works, or is about to report its work, is in the manager's day.       *)
LEMMA WorksToday ==
  ASSUME DayInv, NEW p \in Members, pc[p] \in {"core", "stats"}
  PROVE  /\ day[p] \in Nat /\ day[p] + 1 = MOpened /\ day[p] < SIM_DURATION
         /\ MGathered = MOpened /\ p \in Staff(mUsers)
<1> USE DEF DayInv
<1>1. p \in Staff(mUsers)
  BY DEF UsersInv
<1>2. /\ Started(p) = day[p] + 1 /\ Reported(p) = day[p] + 1 /\ day[p] \in Nat
      /\ day[p] < SIM_DURATION
  BY CountsAreNatural DEF Started, Reported, Rounds, TypeInv, TypeOK, DaysBounded
<1> QED BY <1>1, <1>2, ManagerOrder DEF StartInv, GatherInv

LEMMA ReportsToday ==
  ASSUME DayInv, NEW p \in Members, pc[p] = "stats"
  PROVE  mpc = "getStats" /\ day[p] = mday /\ p \in Callers
<1> USE DEF DayInv
<1>1. /\ day[p] \in Nat /\ day[p] + 1 = MOpened /\ day[p] < SIM_DURATION
      /\ p \in Staff(mUsers)
  BY WorksToday
<1>2. p \in Callers
  BY <1>1, StaffIs DEF TypeInv, DaysBounded
<1>3. day[p] = Round /\ MOpened = Round + 1 /\ Round \in Nat
  BY <1>1, <1>2, ManagerOrder DEF StatsInv
<1>4. mpc \notin Gathering \cup {"setStart", "exSetStart", "canDie"}
  <2>1. mpc \notin Gathering \cup {"setStart", "exSetStart"}
    BY <1>3 DEF MOpened, Rounds
  <2>2. mpc # "canDie"
    BY <1>1, <1>3, CountsAreNatural DEF PlacesInv
  <2> QED BY <2>1, <2>2
<1>5. mpc # "clockExplode"
  BY <1>2, <1>3, CountsAreNatural DEF StatsInv, SentStats, Round, TypeInv, TypeOK
<1>6. ~Exploded
  BY <1>3, <1>5, CountsAreNatural DEF Round, NoWorkAfterExplosion, Exploded, TypeInv, TypeOK
<1>7. mpc = "getStats"
  BY <1>1, <1>3, <1>4, <1>5, <1>6 DEF PlacesInv, Gathering, TypeInv, TypeOK, ManagerPCs
<1> QED BY <1>2, <1>3, <1>6, <1>7 DEF Round

LEMMA StatsStep ==
  ASSUME DayInv, [Next]_vars
  PROVE  StatsInv'
<1> USE DEF DayInv
<1>0. /\ Callers \subseteq Staff(mUsers) /\ Staff(mUsers) \subseteq Members
      /\ IsFiniteSet(Callers) /\ mday \in Nat /\ got \in Nat
      /\ Round \in Nat /\ day \in [Members -> 0..SIM_DURATION]
      /\ Dispenser \notin Callers
  <2>1. mday \in Nat /\ got \in Nat /\ day \in [Members -> 0..SIM_DURATION]
    BY CountsAreNatural DEF TypeInv, TypeOK
  <2>2. Dispenser \notin Callers
    BY StaffIs, CountsAreNatural
  <2> QED BY <2>1, <2>2, StaffIs, ManagerOrder
<1>a. /\ IsFiniteSet(SentStats) /\ IsFiniteSet(SentStats \X {mday})
      /\ SentStats \subseteq Callers
  <2>1. SentStats \in SUBSET Callers
    BY DEF SentStats
  <2>2. IsFiniteSet(SentStats)
    BY <1>0, <2>1, FS_Subset
  <2> QED BY <2>1, <2>2, FS_Product, FS_Singleton
<1>b. /\ IsFiniteSet(statsQueue) /\ Cardinality(statsQueue) \in Nat
      /\ Cardinality(SentStats) \in Nat
  <2>1. statsQueue \subseteq SentStats \X {mday}
    BY DEF StatsInv
  <2>2. IsFiniteSet(statsQueue)
    BY <1>a, <2>1, FS_Subset
  <2> QED BY <1>a, <2>2, FS_CardinalityType
<1>1. CASE ManagerStep
  <2>1. CASE InitNewUsers
    <3>1. Round = mday /\ mpc = "forkUsers" /\ statsQueue = {}
      <4>1. mpc = "forkUsers"
        BY <2>1, Births
      <4> QED BY <4>1, AtFork DEF StatsInv
    <3>2. UNCHANGED <<Round, mday, statsQueue>> /\ mpc' = "clockNewUsers"
      BY <2>1, Births DEF ManagerCounters
    <3>3. \A p \in Callers' : day'[p] >= mday
      <4> SUFFICES ASSUME NEW p \in Callers' PROVE day'[p] >= mday
        OBVIOUS
      <4>1. p \in Staff(mUsers')
        BY DEF Callers, Staff
      <4>2. CASE p \in Staff(mUsers)
        <5>1. p \in Callers
          <6>1. p # Dispenser
            <7>1. Numbered(mUsers') \subseteq AllUsers
              BY <2>1, Births, CrewSize
            <7> QED BY <7>1, DistinctAssumption DEF Callers, Reporters
          <6> QED BY <4>2, <6>1, StaffIs
        <5> QED BY <2>1, <3>1, <4>2, <5>1, Births DEF StatsInv
      <4>3. CASE p \notin Staff(mUsers)
        BY <1>0, <2>1, <4>1, <4>3, Births
      <4> QED BY <4>2, <4>3
    <3> QED BY <3>1, <3>2, <3>3 DEF StatsInv
  <2>2. CASE ManagerSetStart
    <3>1. /\ UNCHANGED <<mUsers, day, mday, statsQueue>> /\ got' = 0
          /\ \/ mpc = "setStart" /\ mpc' = "getStats"
             \/ mpc = "exSetStart" /\ mpc' = "waitpid"
      BY <2>2 DEF ManagerSetStart, ManagerGoto, memberVars, queues
    <3>2. UNCHANGED <<Round, Callers, SentStats>> /\ statsQueue = {}
      <4>1. UNCHANGED Round
        BY <1>1, <3>1, ManagerFrame DEF DayCounted, ClockExplode, ManagerGoto
      <4> QED BY <3>1, <4>1 DEF Callers, SentStats, StatsInv
    <3>3. mpc = "setStart" => SentStats = {}
      <4>1. ASSUME mpc = "setStart", NEW p \in Callers PROVE ~(day[p] > mday)
        <5>1. Started(p) = Round /\ Round = mday
          BY <1>0, <4>1, AtSetStart DEF PlacesInv, Round
        <5> QED BY <1>0, <5>1, MemberOrder
      <4> QED BY <4>1 DEF SentStats
    <3> QED BY <3>1, <3>2, <3>3, FS_EmptySet DEF StatsInv
  <2>3. CASE GetStats
    <3>1. PICK report \in statsQueue : statsQueue' = statsQueue \ {report}
      BY <2>3 DEF GetStats
    <3>2. /\ mpc = "getStats" /\ got' = got + 1 /\ UNCHANGED <<sem, mpc, mday, mUsers, day>>
      BY <2>3 DEF GetStats, memberVars
    <3>3. UNCHANGED <<Round, Callers, SentStats>>
      BY <3>2 DEF Round, Exploded, Callers, SentStats
    <3>4. Cardinality(statsQueue') = Cardinality(statsQueue) - 1
      BY <1>b, <3>1, FS_RemoveElement
    <3>5. got' + Cardinality(statsQueue') = Cardinality(SentStats)
      <4>1. got + Cardinality(statsQueue) = Cardinality(SentStats)
        BY <3>2 DEF StatsInv
      <4> QED BY <1>0, <1>b, <3>2, <3>4, <4>1
    <3> QED BY <3>1, <3>2, <3>3, <3>5 DEF StatsInv
  <2>4. CASE DayCounted \/ Explode
    <3>1. /\ mpc = "getStats" /\ got = Expected /\ UNCHANGED <<mUsers, day, statsQueue>>
          /\ DayCounted => mpc' \in {"lockDayEnd", "canDie"} /\ mday' = mday + 1 /\ UNCHANGED sem
          /\ Explode => mpc' = "clockExplode" /\ UNCHANGED mday
      BY <2>4 DEF DayCounted, Explode, ManagerGoto, ManagerStays, memberVars, queues
    <3>2. SentStats = Callers /\ statsQueue = {}
      BY <3>1, AllSent
    <3>3. UNCHANGED Callers
      BY <3>1 DEF Callers
    <3>4. \A p \in Callers : day[p] >= mday + 1
      BY <1>0, <3>2 DEF SentStats
    <3>5. ~Exploded
      BY <3>1 DEF PlacesInv
    <3>6. Round' <= mday + 1 /\ Round' \in Nat
      BY <1>0, <2>4, <3>1, <3>5 DEF Round, Exploded
    <3>7. \A p \in Callers' : day'[p] >= Round'
      BY <1>0, <3>1, <3>3, <3>4, <3>6
    <3>8. mpc' = "clockExplode" => SentStats' = Callers'
      BY <2>4, <3>1, <3>2, <3>3 DEF SentStats
    <3> QED BY <2>4, <3>1, <3>2, <3>7, <3>8 DEF StatsInv
  <2>5. CASE ClockExplode
    <3>1. /\ mpc = "clockExplode" /\ mpc' \in {"canDie", "exLockDayEnd"}
          /\ UNCHANGED <<mday, mUsers, day, statsQueue>>
      BY <2>5 DEF ClockExplode, ManagerGoto, ManagerStays, memberVars, queues
    <3>2. UNCHANGED Callers /\ SentStats = Callers
      BY <3>1 DEF Callers, StatsInv
    <3>3. \A p \in Callers : day[p] >= mday + 1
      BY <1>0, <3>2 DEF SentStats
    <3>4. Round' <= mday + 1 /\ Round' \in Nat
      BY <1>0, <3>1 DEF Round
    <3>5. \A p \in Callers' : day'[p] >= Round'
      BY <1>0, <3>1, <3>2, <3>3, <3>4
    <3> QED BY <3>1, <3>5 DEF StatsInv
  <2>6. CASE ~(InitNewUsers \/ ManagerSetStart \/ GetStats \/ DayCounted \/ Explode
                \/ ClockExplode)
    <3>1. UNCHANGED <<pc, day, mUsers, mday, statsQueue, Round>>
      BY <1>1, <2>6, ManagerFrame
    <3>2. /\ mpc # "getStats" /\ mpc' # "getStats" /\ mpc' # "clockExplode"
      BY <1>1, <2>6
         DEF ManagerStep, ManagerLockDayEnd, ManagerWaitZero, TryAddUsers, ClockNoUsers,
             ClockNewUsers, InitSeats, ManagerLockReady, LetDie, WaitChildren, ManagerGoto
    <3> QED BY <3>1, <3>2 DEF StatsInv, Callers
  <2> QED BY <2>1, <2>2, <2>3, <2>4, <2>5, <2>6
<1>2. CASE \/ ClockStep \/ SendWorkerPause \/ SendUserNotific
           \/ AddUsersMain \/ UNCHANGED vars
  <2>1. UNCHANGED <<mpc, mday, mUsers, got, pc, day, statsQueue, Round>>
    <3>1. CASE ClockStep \/ SendWorkerPause \/ SendUserNotific
      <4>1. UNCHANGED <<mpc, mday, mUsers, got, pc, day, statsQueue, sem["STOP_SIM_EXPLODE"]>>
        BY <3>1, ClockFrame DEF UsersInv
      <4> QED BY <4>1, ManagerCountersKept DEF ManagerCounters
    <3>2. CASE AddUsersMain \/ UNCHANGED vars
      BY <3>2, OutsideFrame DEF ManagerCounters
    <3> QED BY <1>2, <3>1, <3>2
  <2>2. UNCHANGED <<Callers, SentStats>>
    BY <2>1 DEF Callers, SentStats
  <2> QED BY <2>1, <2>2 DEF StatsInv
<1>3. ASSUME NEW p \in Members, MemberStep(p) \/ SendWork(p) PROVE StatsInv'
  <2>1. /\ UNCHANGED <<mpc, mday, mUsers, got, sem["STOP_SIM_EXPLODE"]>>
        /\ \A q \in Members \ {p} : pc'[q] = pc[q] /\ day'[q] = day[q]
    BY <1>3, MemberFrame
  <2>2. UNCHANGED <<Round, Callers>>
    <3>1. UNCHANGED Round
      BY <2>1, ManagerCountersKept DEF ManagerCounters
    <3> QED BY <2>1, <3>1 DEF Callers
  <2>3. CASE SendStats(p)
    <3>1. mpc = "getStats" /\ day[p] = mday /\ p \in Callers
      BY <2>3, ReportsToday DEF SendStats
    <3>2. statsQueue' = statsQueue \cup {<<p, mday>>} /\ day'[p] = mday + 1
      BY <1>0, <2>3, <3>1 DEF SendStats, NextDay
    <3>3. SentStats' = SentStats \cup {p} /\ p \notin SentStats
      BY <1>0, <2>1, <2>2, <3>1, <3>2 DEF SentStats
    <3>4. statsQueue \subseteq SentStats \X {mday}
          /\ got + Cardinality(statsQueue) = Cardinality(SentStats)
      BY <3>1 DEF StatsInv
    <3>5. <<p, mday>> \notin statsQueue
      BY <3>3, <3>4
    <3>6. /\ Cardinality(statsQueue') = Cardinality(statsQueue) + 1
          /\ Cardinality(SentStats') = Cardinality(SentStats) + 1
      BY <1>a, <1>b, <3>2, <3>3, <3>5, FS_AddElement
    <3>7. got' + Cardinality(statsQueue') = Cardinality(SentStats')
      BY <1>0, <1>b, <2>1, <3>4, <3>6
    <3>8. statsQueue' \subseteq SentStats' \X {mday}
      BY <3>2, <3>3, <3>4
    <3>9. \A q \in Callers' : day'[q] >= Round'
      <4>1. \A q \in Callers : day[q] >= Round
        BY DEF StatsInv
      <4> QED BY <1>0, <2>1, <2>2, <3>1, <3>2, <4>1
    <3> QED BY <2>1, <3>1, <3>7, <3>8, <3>9 DEF StatsInv
  <2>4. CASE ~SendStats(p)
    <3>1. UNCHANGED statsQueue /\ (p # Dispenser => UNCHANGED day)
      BY <1>3, <2>4
         DEF MemberStep, SendWork, MemberLockDayEnd, MemberWaitZero, ClearMsgQueue, CheckCleared,
             SendClockReq, MemberReady, MemberLockStart, MemberReadExplode, ReceiveDayEnded,
             ReceivePause, ReceiveWork, LeaveCore, MemberCanDie, MemberStays, memberVars, queues
    <3>2. \A q \in Callers : UNCHANGED day[q]
      BY <1>0, <2>1, <3>1
    <3>3. UNCHANGED SentStats
      BY <2>1, <2>2, <3>2 DEF SentStats
    <3> QED BY <2>1, <2>2, <3>1, <3>2, <3>3 DEF StatsInv
  <2> QED BY <2>3, <2>4
<1> QED BY <1>1, <1>2, <1>3, StepCases

LEMMA ExplosionStep ==
  ASSUME DayInv, [Next]_vars
  PROVE  NoWorkAfterExplosion'
<1> USE DEF DayInv
<1>0. /\ sem \in [SemNames -> Nat] /\ mday \in Nat /\ cday \in Nat
      /\ pc \in [Members -> MemberPCs] /\ Staff(mUsers) \subseteq Members
  <2>1. sem \in [SemNames -> Nat] /\ mday \in Nat /\ pc \in [Members -> MemberPCs]
    BY CountsAreNatural DEF TypeInv, TypeOK
  <2> QED BY <2>1, ClockOrder, StaffIs
<1>1. CASE ManagerStep
  <2>1. CASE Explode
    <3>1. mpc = "getStats" /\ got = Expected /\ UNCHANGED <<mday, cpc, cday, pc, day>>
      BY <2>1 DEF Explode, ManagerGoto, ManagerStays, clockVars, memberVars
    <3>2. MOpened = mday + 1 /\ MGathered = mday + 1
      BY <1>0, <3>1
         DEF MOpened, MGathered, Rounds, Round, Gathering, PlacesInv, TypeInv, TypeOK, DaysBounded
    <3>3. ASSUME cpc \in Open PROVE cday = mday
      <4>1. ClockStarted = cday + 1 /\ ClockReported = cday + 1
        BY <1>0, <3>3, CountsAreNatural
           DEF Open, ClockStarted, ClockReported, Setting, Rounds, TypeInv, TypeOK, DaysBounded
      <4> QED BY <1>0, <3>2, <4>1 DEF StartInv, GatherInv
    <3>4. \A p \in Members : pc[p] \in {"core", "stats"} => day[p] = mday
      BY <1>0, <3>2, WorksToday
    <3> QED BY <3>1, <3>3, <3>4 DEF NoWorkAfterExplosion
  <2>2. CASE ~Explode /\ ~Exploded
    BY <1>1, <2>2, ManagerFrame DEF NoWorkAfterExplosion, Exploded
  <2>3. CASE ~Explode /\ Exploded
    <3>1. ~DayCounted /\ ~InitNewUsers
      BY <2>3 DEF DayCounted, InitNewUsers, ManagerGoto, PlacesInv
    <3>2. UNCHANGED <<mday, cpc, cday, pc, day>>
      BY <1>1, <3>1, ManagerFrame
    <3> QED BY <2>3, <3>2 DEF NoWorkAfterExplosion, Exploded
  <2> QED BY <2>1, <2>2, <2>3
<1>2. CASE ClockStep \/ SendWorkerPause \/ SendUserNotific
  <2>1. UNCHANGED <<mday, pc, day, sem["STOP_SIM_EXPLODE"]>>
    BY <1>2, ClockFrame DEF UsersInv
  <2>2. ASSUME cpc' \in Open, sem["STOP_SIM_EXPLODE"] = 1 PROVE cpc \in Open /\ UNCHANGED cday
    BY <1>2, <2>2
       DEF ClockStep, ClockSetup, ClockLockAdd, ClockReadAdd, ClockAddNewUsers,
           ClockReleaseNewUsers, SetupUserNotific, SetupWorkerPause, Hear, ClockCheckEmpty,
           ClockReady, ClockLockStart, ClockReadExplode, ClockDayOver, SendMsgDayEnded, TellDayEnded,
           ClockReleaseDayEnd, ClockCanDie, SendWorkerPause, SendUserNotific, ClockSend,
           ClockGoto, ClockStays, clockVars, Open
  <2> QED BY <2>1, <2>2 DEF NoWorkAfterExplosion
<1>3. ASSUME NEW p \in Members, MemberStep(p) \/ SendWork(p) PROVE NoWorkAfterExplosion'
  <2>1. /\ UNCHANGED <<mday, cpc, cday, sem["STOP_SIM_EXPLODE"]>>
        /\ \A q \in Members \ {p} : pc'[q] = pc[q] /\ day'[q] = day[q]
    BY <1>3, MemberFrame
  <2>2. ASSUME pc'[p] \in {"core", "stats"}, sem["STOP_SIM_EXPLODE"] = 1
        PROVE  pc[p] \in {"core", "stats"} /\ UNCHANGED day
    <3>1. \A x, y : Goto(p, x, y) => pc'[p] = y /\ pc[p] = x
      BY <1>0 DEF Goto
    <3>2. ~NextDay(p)
      BY <1>0, <2>2 DEF NextDay
    <3>3. LeaveCore(p) => pc[p] = "core" /\ UNCHANGED day
      BY <3>1, <3>2 DEF LeaveCore
    <3> QED BY <1>3, <2>2, <3>1, <3>2, <3>3
            DEF MemberStep, SendWork, MemberLockDayEnd, MemberWaitZero, ClearMsgQueue, CheckCleared,
                SendClockReq, MemberReady, MemberLockStart, MemberReadExplode, ReceiveDayEnded,
                ReceivePause, ReceiveWork, SendStats, MemberCanDie, MemberStays, memberVars
  <2> QED BY <2>1, <2>2 DEF NoWorkAfterExplosion
<1>4. CASE AddUsersMain \/ UNCHANGED vars
  BY <1>4, OutsideFrame DEF NoWorkAfterExplosion, SemNames
<1> QED BY <1>1, <1>2, <1>3, <1>4, StepCases

----------------------------------------------------------------------------
(* THE INDUCTIVE INVARIANT *)

(* At first the numbers of the users are those of the configuration.         *)
LEMMA FirstUsers ==
  Numbered(Cardinality(Users)) = Users /\ Counted(Cardinality(Users))
<1>1. ASSUME NEW j \in DOMAIN NewUsers,
             Cardinality(Users) + j * N_NEW_USERS <= Cardinality(Users)
      PROVE  NewUsers[j] = {}
  <2>1. j \in Nat \ {0}
    BY FiniteAssumption
  <2>2. j * N_NEW_USERS >= N_NEW_USERS
    <3>1. j - 1 \in Nat
      BY <2>1
    <3>2. (j - 1) * N_NEW_USERS \in Nat
      BY <3>1, CountsAreNatural
    <3>3. j * N_NEW_USERS = (j - 1) * N_NEW_USERS + N_NEW_USERS
      BY <2>1, CountsAreNatural
    <3> QED BY <3>2, <3>3, CountsAreNatural
  <2>3. j * N_NEW_USERS \in Nat
    BY <2>1, CountsAreNatural
  <2>4. N_NEW_USERS = 0
    <3> DEFINE m == j * N_NEW_USERS
    <3>1. m \in Nat /\ m >= N_NEW_USERS /\ Cardinality(Users) + m <= Cardinality(Users)
      BY <1>1, <2>2, <2>3
    <3> HIDE DEF m
    <3> QED BY <3>1, CountsAreNatural
  <2>5. IsFiniteSet(NewUsers[j]) /\ Cardinality(NewUsers[j]) = 0
    BY <2>4, FiniteAssumption, DistinctAssumption
  <2> QED BY <2>5, FS_EmptySet
<1>2. Numbered(Cardinality(Users)) = Users
  BY <1>1 DEF Numbered
<1> QED BY <1>2, FiniteAssumption, CountsAreNatural DEF Counted

LEMMA InitDay == Init => DayInv
<1> SUFFICES ASSUME Init PROVE DayInv
  OBVIOUS
<1>0. TypeInv
  BY InitType
<1>1. /\ \A s \in SemNames : sem[s] = 0
      /\ mpc = "lockDayEnd" /\ mday = 0 /\ got = 0 /\ cpc = "setup" /\ cday = 0
      /\ mUsers = Cardinality(Users) /\ cUsers = Cardinality(Users) /\ heard = 0
      /\ \A p \in Members : /\ pc[p] = IF p \in Newcomers THEN "unborn" ELSE "lockDayEnd"
                            /\ day[p] = 0 /\ mail[p] = {}
      /\ clockQueue = {} /\ statsQueue = {} /\ requests = 0
      /\ SIM_DURATION \in Nat \ {0}
  BY CountsAreNatural DEF Init
<1>2. /\ ~Exploded /\ Round = 0 /\ MTaken = 0 /\ MPassed = 0 /\ MGathered = 0 /\ MOpened = 0
      /\ MTold = 0 /\ Generation = 0 /\ ClockTold = 0 /\ ClockReported = 0 /\ ClockStarted = 0
      /\ Funded = Cardinality(Users)
  BY <1>1
     DEF Exploded, Round, MTaken, MPassed, MGathered, MOpened, MTold, Rounds, Gathering,
         Generation, ClockTold, ClockReported, ClockStarted, Setting, Funded, SemNames
<1>3. \A p \in Members : /\ Taken(p) = 0 /\ Passed(p) = 0 /\ Asked(p) = 0 /\ Reported(p) = 0
                         /\ Started(p) = 0
  BY <1>1 DEF Taken, Passed, Asked, Reported, Started, Rounds
<1>4. /\ Staff(mUsers) = Workers \cup Users \cup {Dispenser} /\ Staff(mUsers) \subseteq Members
      /\ Callers \subseteq Members
  BY <1>1, FirstUsers, CountsAreNatural DEF Staff, Callers, Members, AllUsers
<1>5. UsersInv
  <2>1. \A p \in Members : pc[p] # "unborn" <=> p \in Staff(mUsers)
    BY <1>1, <1>4, DistinctAssumption, CountsAreNatural DEF Members, AllUsers, Reporters
  <2>2. /\ mUsers = Cardinality(Users) + 0 * N_NEW_USERS
        /\ 0 + sem["ADD_USERS"] + Bit(mpc = "forkUsers") = requests
    BY <1>1, CountsAreNatural DEF Bit, SemNames
  <2>3. Staff(mUsers) = Staff(Funded)
    BY <1>1, <1>2
  <2> QED BY <1>1, <1>2, <2>1, <2>2, <2>3, FirstUsers, CountsAreNatural DEF UsersInv
<1>6. PlacesInv
  BY <1>1, <1>2 DEF PlacesInv, SemNames
<1>7. ToldInv
  BY <1>1, <1>2 DEF ToldInv, SemNames
<1>8. DayEndInv /\ GatherInv /\ StartInv
  <2>1. /\ {p \in Staff(Funded) : Taken(p) < Generation} = {}
        /\ {p \in Staff(mUsers) : Reported(p) > MGathered} = {}
        /\ {p \in Staff(mUsers) : Started(p) < MOpened} = {}
    BY <1>1, <1>2, <1>3, <1>4
  <2>2. /\ Bit(MTaken < Generation) = 0 /\ Bit(ClockReported > MGathered) = 0
        /\ Bit(ClockStarted < MOpened) = 0
    BY <1>2 DEF Bit
  <2>3. /\ \A p \in Staff(mUsers) : Taken(p) = Generation
        /\ \A p \in Staff(mUsers) : Reported(p) = MGathered
        /\ \A p \in Staff(mUsers) : Started(p) = MOpened
    BY <1>2, <1>3, <1>4
  <2>4. sem["DAY_END"] = 0 /\ sem["PROC_READY"] = 0 /\ sem["START"] = 0
    BY <1>1 DEF SemNames
  <2> QED BY <1>2, <2>1, <2>2, <2>3, <2>4, FS_EmptySet DEF DayEndInv, GatherInv, StartInv
<1>9. PassInv
  BY <1>2, <1>3, <1>4 DEF PassInv
<1>10. RequestInv
  <2>1. Heard = {}
    BY <1>1, <1>3, <1>4 DEF Heard
  <2> QED BY <1>1, <2>1 DEF RequestInv, Open
<1>11. MailInv /\ StatsInv
  BY <1>1, <1>2, <1>4 DEF MailInv, StatsInv
<1>12. NoWorkAfterExplosion
  BY <1>1 DEF NoWorkAfterExplosion, SemNames
<1> QED BY <1>0, <1>5, <1>6, <1>7, <1>8, <1>9, <1>10, <1>11, <1>12 DEF DayInv

LEMMA DayStep == DayInv /\ [Next]_vars => DayInv'
<1> SUFFICES ASSUME DayInv, [Next]_vars PROVE DayInv'
  OBVIOUS
<1>1. TypeInv'
  BY TypeStep DEF DayInv
<1> QED
  BY <1>1, PlacesStep, UsersStep, ToldStep, DayEndStep, PassStep, GatherStep, StartStep,
     RequestStep, MailStep, StatsStep, ExplosionStep DEF DayInv

(* The counters of the processes and the values of the semaphores agree in   *)
(* every state: what all the theorems below rest on.                         *)
THEOREM DayBarrierInvariant == Spec => []DayInv
BY InitDay, DayStep, PTL DEF Spec

----------------------------------------------------------------------------
(* WHAT THE PROTOCOL GUARANTEES *)

(* No process ends in "Unexpected msg" or "Zero mess are expected", whatever *)
(* the order in which the messages of two days arrive (worker.c:69,          *)
(* user.c:51, ticket_dispenser.c:67, clock_main.c:52).                       *)
THEOREM NobodyIsFatal == Spec => []NobodyFatal
<1>1. DayInv => NobodyFatal
  BY DEF DayInv, MailInv, NobodyFatal
<1> QED BY <1>1, DayBarrierInvariant, PTL

(* When anybody is in its core everybody has reported itself ready for that  *)
(* day or has already finished it, however many users join between two days. *)
THEOREM DaysStartTogether == Spec => []StartsTogether
<1>1. DayInv => StartsTogether
  <2> SUFFICES ASSUME DayInv, NEW p \in Members, pc[p] = "core",
                      NEW q \in Members, Present(q)
               PROVE  \/ /\ day[q] = day[p]
                         /\ pc[q] \in {"lockStart", "readExplode", "core", "stats", "exited"}
                      \/ /\ day[q] = day[p] + 1
                         /\ pc[q] \in {"lockDayEnd", "waitZero", "canDie", "exited"}
    BY DEF StartsTogether
  <2> USE DEF DayInv
  <2>1. /\ day[p] \in Nat /\ day[p] + 1 = MOpened /\ MGathered = MOpened
        /\ Taken(p) = day[p] + 1 /\ p \in Staff(mUsers) /\ MGathered \in Nat
    BY WorksToday, ManagerOrder, CountsAreNatural
       DEF Taken, Rounds, TypeInv, TypeOK, DaysBounded
  <2>2. q \in Staff(mUsers) /\ pc[q] \in MemberPCs /\ pc[q] # "unborn" /\ pc[q] # "fatal"
    BY DEF UsersInv, Present, MailInv, TypeInv, TypeOK
  <2>3. /\ Reported(q) >= day[p] + 1 /\ Passed(q) <= day[p] + 1
        /\ Started(q) \in {day[p], day[p] + 1} /\ day[q] \in Nat
        /\ Reported(q) \in Nat /\ Passed(q) \in Nat /\ Reported(q) <= day[q] + 1
        /\ day[q] <= Started(q)
    <3>1. Passed(q) <= day[p] + 1
      BY <2>1, <2>2 DEF PassInv, Late
    <3> QED BY <2>1, <2>2, <3>1, MemberOrder DEF GatherInv, StartInv
  <2>4. day[q] \in {day[p], day[p] + 1}
    BY <2>1, <2>3
  <2>5. CASE day[q] = day[p]
    BY <2>1, <2>2, <2>3, <2>5 DEF Reported, Rounds, MemberPCs, PlacesInv
  <2>6. CASE day[q] = day[p] + 1
    <3>1. day[q] < SIM_DURATION =>
            pc[q] \notin {"clear", "checkClear", "clockReq", "ready", "lockStart", "readExplode",
                          "core", "stats"}
      BY <2>1, <2>3, <2>6 DEF Passed, Rounds
    <3> QED BY <2>2, <2>6, <3>1, CountsAreNatural DEF MemberPCs, TypeInv, DaysBounded
  <2> QED BY <2>4, <2>5, <2>6
<1> QED BY <1>1, DayBarrierInvariant, PTL

(* Nothing of a day is lost by the steps that empty a queue, zero its        *)
(* semaphore or set START: nobody works meanwhile, and all units of START    *)
(* have been taken.                                                          *)
THEOREM ResetsQuiet == Spec => []ResetsAreQuiet
<1>1. DayInv => ResetsAreQuiet
  BY QuietWhileCleared, AtSetStart DEF DayInv, ResetsAreQuiet
<1> QED BY <1>1, DayBarrierInvariant, PTL

(* get_stats, which only counts messages, receives those of the manager's    *)
(* day and leaves none for the next one (stats_handler.c:50).                *)
THEOREM StatsAreOfToday == Spec => []StatsOfToday
<1>1. DayInv => StatsOfToday
  <2> SUFFICES ASSUME DayInv PROVE StatsOfToday
    OBVIOUS
  <2>1. \A report \in statsQueue : report[2] = mday
    BY DEF DayInv, StatsInv
  <2>2. mpc = "getStats" /\ got = Expected => statsQueue = {}
    BY AllSent DEF DayInv
  <2> QED BY <2>1, <2>2 DEF StatsOfToday
<1> QED BY <1>1, DayBarrierInvariant, PTL

(* While the day is open the clock knows of all the users who exist, and     *)
(* nobody else: it ends the day for everybody.                               *)
THEOREM ClockKnows == Spec => []ClockKnowsEverybody
<1>1. DayInv => ClockKnowsEverybody
  <2> SUFFICES ASSUME DayInv, cpc \in Open
               PROVE  {u \in AllUsers : Present(u)} = Numbered(cUsers)
    BY DEF ClockKnowsEverybody
  <2> USE DEF DayInv
  <2>1. Funded = cUsers
    BY DEF Funded, Open
  <2>2. Staff(mUsers) \ Staff(Funded) = {}
    BY DEF UsersInv, Open
  <2>3. Staff(mUsers) = Staff(cUsers)
    BY <2>1, <2>2, StaffIs
  <2>4. \A u \in Members : Present(u) <=> u \in Staff(cUsers)
    BY <2>3 DEF UsersInv, Present
  <2>5. Numbered(cUsers) \subseteq AllUsers
    BY CrewSize DEF UsersInv
  <2> QED BY <2>4, <2>5, DistinctAssumption DEF Staff, Members, Reporters
<1> QED BY <1>1, DayBarrierInvariant, PTL

(* Once the explosion is declared nobody works on a later day.               *)
THEOREM NoWorkExploded == Spec => []NoWorkAfterExplosion
<1>1. DayInv => NoWorkAfterExplosion
  BY DEF DayInv
<1> QED BY <1>1, DayBarrierInvariant, PTL

----------------------------------------------------------------------------
(* THE ABSTRACT DAYS *)

(* The variables of WorkDays as DayBarrier gives them.                       *)
Crew     == Members \cup {Clock}
Joined   == {p \in Members : Present(p)} \cup {Clock}
Over     == [p \in Crew |-> IF p = Clock THEN cday ELSE day[p]]
Begun    == [p \in Crew |-> IF p = Clock THEN IF cpc \in Open THEN cday + 1 ELSE cday
                            ELSE IF pc[p] \in {"core", "stats"} THEN day[p] + 1 ELSE day[p]]

BeginDay(p) ==
  /\ Begun[p] = Over[p] /\ \A q \in Joined : Over[q] >= Begun[p]
  /\ Begun' = [Begun EXCEPT ![p] = @ + 1] /\ UNCHANGED <<Joined, Over>>
FinishDay(p) ==
  /\ Begun[p] = Over[p] + 1
  /\ Over' = [Over EXCEPT ![p] = @ + 1] /\ UNCHANGED <<Joined, Begun>>

(* The days of the clock and of the members, one by one.                     *)
LEMMA DaysOf ==
  /\ Clock \in Crew /\ Clock \notin Members /\ Members \subseteq Crew
  /\ Begun[Clock] = (IF cpc \in Open THEN cday + 1 ELSE cday) /\ Over[Clock] = cday
  /\ \A p \in Members :
       /\ Begun[p] = (IF pc[p] \in {"core", "stats"} THEN day[p] + 1 ELSE day[p])
       /\ Over[p] = day[p]
BY DistinctAssumption DEF Crew, Begun, Over

(* A step that changes the days of one member, or of the clock, only.        *)
LEMMA OneMember ==
  ASSUME NEW p \in Members, UNCHANGED <<cpc, cday>>,
         \A q \in Members \ {p} : pc'[q] = pc[q] /\ day'[q] = day[q],
         pc[p] # "unborn" /\ pc'[p] # "unborn"
  PROVE  /\ UNCHANGED Joined
         /\ Begun'[p] = Begun[p] => UNCHANGED Begun
         /\ Begun'[p] = Begun[p] + 1 => Begun' = [Begun EXCEPT ![p] = @ + 1]
         /\ Over'[p] = Over[p] => UNCHANGED Over
         /\ Over'[p] = Over[p] + 1 => Over' = [Over EXCEPT ![p] = @ + 1]
BY DistinctAssumption DEF Crew, Joined, Begun, Over, Present

LEMMA OnlyClock ==
  ASSUME UNCHANGED <<pc, day>>
  PROVE  /\ UNCHANGED Joined
         /\ Begun'[Clock] = Begun[Clock] => UNCHANGED Begun
         /\ Begun'[Clock] = Begun[Clock] + 1 => Begun' = [Begun EXCEPT ![Clock] = @ + 1]
         /\ Over'[Clock] = Over[Clock] => UNCHANGED Over
         /\ Over'[Clock] = Over[Clock] + 1 => Over' = [Over EXCEPT ![Clock] = @ + 1]
BY DistinctAssumption DEF Crew, Joined, Begun, Over, Present

(* Whoever has been let through START finds everybody done with the day      *)
(* before.                                                                   *)
LEMMA EverybodyDone ==
  ASSUME DayInv, NEW n \in Nat, n + 1 <= MOpened
  PROVE  \A q \in Joined : Over[q] >= n
<1> USE DEF DayInv
<1>1. cday >= n
  BY ClockOrder, ManagerOrder DEF GatherInv, ClockReported, Rounds
<1>2. ASSUME NEW q \in Members, Present(q) PROVE day[q] >= n
  <2>1. q \in Staff(mUsers)
    BY <1>2 DEF Present, UsersInv
  <2>2. MGathered <= Reported(q) /\ Reported(q) <= day[q] + 1
    BY <2>1, MemberOrder, ManagerOrder DEF GatherInv
  <2> QED BY <2>2, MemberOrder, ManagerOrder
<1> QED BY <1>1, <1>2, DaysOf DEF Joined

(* The variables of WorkDays together.                                       *)
DayVars == <<Joined, Begun, Over>>

(* A step that moves nobody into or out of its core.                         *)
LEMMA StayStep ==
  ASSUME UNCHANGED <<pc, day>>, cday' = cday, cpc \in Open <=> cpc' \in Open
  PROVE  UNCHANGED DayVars
BY DEF DayVars, Crew, Joined, Begun, Over, Present

(* A member begins the day it has been let through START for, when it        *)
(* enters its core, and finishes it when day_count grows.                    *)
LEMMA MemberDays ==
  ASSUME DayInv, NEW p \in Members, MemberStep(p) \/ SendWork(p)
  PROVE  BeginDay(p) \/ FinishDay(p) \/ UNCHANGED DayVars
<1> USE DEF DayInv
<1>1. /\ UNCHANGED <<cpc, cday>> /\ \A q \in Members \ {p} : pc'[q] = pc[q] /\ day'[q] = day[q]
      /\ pc[p] # "unborn" /\ pc'[p] # "unborn"
  BY MemberFrame
<1>2. /\ UNCHANGED Joined
      /\ Begun'[p] = Begun[p] => UNCHANGED Begun
      /\ Begun'[p] = Begun[p] + 1 => Begun' = [Begun EXCEPT ![p] = @ + 1]
      /\ Over'[p] = Over[p] => UNCHANGED Over
      /\ Over'[p] = Over[p] + 1 => Over' = [Over EXCEPT ![p] = @ + 1]
  BY <1>1, OneMember
<1>3. /\ p \in Crew /\ p # Clock /\ Over \in [Crew -> Nat] /\ Begun \in [Crew -> Nat]
      /\ Begun[p] = (IF pc[p] \in {"core", "stats"} THEN day[p] + 1 ELSE day[p])
      /\ Over[p] = day[p] /\ day[p] \in Nat
      /\ Begun'[p] = (IF pc'[p] \in {"core", "stats"} THEN day'[p] + 1 ELSE day'[p])
      /\ Over'[p] = day'[p]
  BY DistinctAssumption, CountsAreNatural DEF Crew, Begun, Over, TypeInv, TypeOK
<1>4. CASE day'[p] = day[p] /\ (pc[p] \in {"core", "stats"} <=> pc'[p] \in {"core", "stats"})
  BY <1>2, <1>3, <1>4 DEF DayVars
<1>5. CASE day'[p] = day[p] /\ pc[p] = "readExplode" /\ pc'[p] = "core"
  <2>1. Started(p) = day[p] + 1
    BY <1>5, <1>3 DEF Started, Rounds, TypeInv, DaysBounded
  <2>2. Started(p) <= MOpened
    BY <1>1, <1>5, ManagerOrder DEF StartInv, UsersInv
  <2>3. \A q \in Joined : Over[q] >= day[p]
    BY <1>3, <2>1, <2>2, EverybodyDone
  <2> QED BY <1>2, <1>3, <1>5, <2>3 DEF BeginDay
<1>6. CASE NextDay(p) /\ pc[p] \in {"core", "stats"}
  <2>1. day'[p] = day[p] + 1 /\ pc'[p] \notin {"core", "stats"}
    BY <1>6 DEF NextDay, TypeInv, TypeOK
  <2> QED BY <1>2, <1>3, <1>6, <2>1 DEF FinishDay
<1>7. CASE LeaveCore(p) /\ pc[p] = "core"
  <2>1. p # Dispenser => UNCHANGED day /\ pc'[p] = "stats"
    BY <1>7 DEF LeaveCore, Goto, TypeInv, TypeOK
  <2> QED BY <1>4, <1>6, <1>7, <2>1 DEF LeaveCore
<1>8. CASE \/ MemberLockDayEnd(p) \/ MemberWaitZero(p) \/ ClearMsgQueue(p) \/ CheckCleared(p)
           \/ SendClockReq(p) \/ MemberReady(p) \/ MemberLockStart(p) \/ MemberCanDie(p)
           \/ ReceiveWork(p) \/ SendWork(p)
  BY <1>4, <1>8 DEF MemberLockDayEnd, MemberWaitZero, ClearMsgQueue, CheckCleared, SendClockReq,
     MemberReady, MemberLockStart, MemberCanDie, ReceiveWork, SendWork, Goto, MemberStays,
     memberVars, TypeInv, TypeOK
<1>9. CASE MemberReadExplode(p)
  BY <1>4, <1>5, <1>9 DEF MemberReadExplode, Goto, MemberStays, TypeInv, TypeOK
<1>10. CASE ReceiveDayEnded(p) \/ ReceivePause(p)
  BY <1>4, <1>7, <1>10 DEF ReceiveDayEnded, ReceivePause, memberVars
<1>11. CASE SendStats(p)
  BY <1>6, <1>11 DEF SendStats
<1> QED BY <1>8, <1>9, <1>10, <1>11 DEF MemberStep

(* So does the clock.                                                        *)
LEMMA ClockDays ==
  ASSUME DayInv, ClockStep \/ SendWorkerPause \/ SendUserNotific
  PROVE  BeginDay(Clock) \/ FinishDay(Clock) \/ UNCHANGED DayVars
<1> USE DEF DayInv
<1>1. UNCHANGED <<pc, day>> /\ (~ClockReleaseDayEnd => UNCHANGED cday)
  BY ClockFrame DEF UsersInv
<1>2. /\ UNCHANGED Joined
      /\ Begun'[Clock] = Begun[Clock] => UNCHANGED Begun
      /\ Begun'[Clock] = Begun[Clock] + 1 => Begun' = [Begun EXCEPT ![Clock] = @ + 1]
      /\ Over'[Clock] = Over[Clock] => UNCHANGED Over
      /\ Over'[Clock] = Over[Clock] + 1 => Over' = [Over EXCEPT ![Clock] = @ + 1]
  BY <1>1, OnlyClock
<1>3. /\ Begun[Clock] = (IF cpc \in Open THEN cday + 1 ELSE cday) /\ Over[Clock] = cday
      /\ Begun'[Clock] = (IF cpc' \in Open THEN cday' + 1 ELSE cday') /\ Over'[Clock] = cday'
      /\ cday \in Nat
  BY DistinctAssumption, ClockOrder DEF Crew, Begun, Over
<1>4. CASE cday' = cday /\ (cpc \in Open <=> cpc' \in Open)
  BY <1>1, <1>4, StayStep
<1>5. CASE ClockReadExplode
  <2>1. cday' = cday /\ cpc = "readExplode" /\ cpc' \in {"exited", "core"}
    BY <1>5 DEF ClockReadExplode, ClockGoto, ClockStays
  <2>2. ClockStarted = cday + 1
    BY <2>1, <1>3 DEF ClockStarted, Rounds, Setting, TypeInv, DaysBounded
  <2>3. ClockStarted <= MOpened
    BY ManagerOrder DEF StartInv
  <2>4. \A q \in Joined : Over[q] >= cday
    BY <1>3, <2>2, <2>3, EverybodyDone
  <2>5. CASE cpc' = "core"
    BY <1>2, <1>3, <2>1, <2>4, <2>5 DEF BeginDay, Open
  <2>6. CASE cpc' = "exited"
    BY <1>4, <2>1, <2>6 DEF Open
  <2> QED BY <2>1, <2>5, <2>6
<1>6. CASE ClockReleaseDayEnd
  <2>1. cday' = cday + 1 /\ cpc = "relDayEnd" /\ cpc' \in {"lockAdd", "canDie"}
    BY <1>6 DEF ClockReleaseDayEnd, ClockGoto
  <2> QED BY <1>2, <1>3, <2>1 DEF FinishDay, Open
<1>7. CASE ClockDayOver \/ SendMsgDayEnded \/ SendWorkerPause \/ SendUserNotific
  BY <1>1, <1>4, <1>7 DEF ClockDayOver, SendMsgDayEnded, SendWorkerPause, SendUserNotific,
     ClockSend, TellDayEnded, ClockGoto, ClockStays, ClockReleaseDayEnd, Open, clockVars
<1>8. CASE \/ ClockSetup \/ ClockLockAdd \/ ClockReadAdd \/ ClockAddNewUsers
           \/ ClockReleaseNewUsers \/ SetupUserNotific \/ SetupWorkerPause
           \/ ClockCheckEmpty \/ ClockReady \/ ClockLockStart \/ ClockCanDie
  <2>1. cpc \notin Open /\ cpc' \notin Open /\ cday' = cday
    BY <1>8 DEF ClockSetup, ClockLockAdd, ClockReadAdd, ClockAddNewUsers, ClockReleaseNewUsers,
       SetupUserNotific, SetupWorkerPause, Hear, ClockCheckEmpty, ClockReady, ClockLockStart,
       ClockCanDie, ClockGoto, ClockStays, Open
  <2> QED BY <1>4, <2>1
<1> QED BY <1>5, <1>6, <1>7, <1>8 DEF ClockStep

(* Users are forked on a day nobody has begun and everybody has reached.     *)
JoinDay(newcomers, d) ==
  /\ \A q \in Joined : Begun[q] = d /\ Over[q] = d
  /\ Joined' = Joined \cup newcomers
  /\ Begun' = [p \in Crew |-> IF p \in newcomers THEN d ELSE Begun[p]]
  /\ Over'  = [p \in Crew |-> IF p \in newcomers THEN d ELSE Over[p]]

LEMMA NewcomersJoin ==
  ASSUME DayInv, InitNewUsers
  PROVE  \E newcomers \in SUBSET (Crew \ Joined), d \in {Begun[q] : q \in Joined} :
           JoinDay(newcomers, d)
<1> USE DEF DayInv
<1> DEFINE born == Numbered(mUsers') \ Numbered(mUsers)
<1>1. /\ mpc = "forkUsers" /\ UNCHANGED <<cpc, cday>>
      /\ pc'  = [p \in Members |-> IF p \in born THEN "lockDayEnd" ELSE pc[p]]
      /\ day' = [p \in Members |-> IF p \in born THEN mday ELSE day[p]]
  BY DEF InitNewUsers, ManagerGoto, clockVars
<1>2. /\ cpc = "lockAdd" /\ cday = mday
      /\ MOpened = mday /\ \A p \in Staff(mUsers) : Taken(p) = mday + 1
  BY <1>1, AtFork
<1>3. born \subseteq Members /\ Clock \notin born
  BY NumberedUsers, DistinctAssumption
<1>4. \A p \in born : pc[p] = "unborn"
  <2>1. \A p \in born : p \notin Workers \cup {Dispenser}
    BY DistinctAssumption DEF Numbered, Members, AllUsers, Newcomers, Reporters
  <2> QED BY <1>3, <2>1 DEF UsersInv, Staff
<1>5. ASSUME NEW p \in Members, Present(p)
      PROVE  day[p] = mday /\ pc[p] \notin {"core", "stats"}
  <2>1. p \in Staff(mUsers)
    BY <1>5 DEF Present, UsersInv
  <2>2. Taken(p) = mday + 1 /\ Started(p) <= mday /\ mday \in Nat
    BY <1>2, <2>1, CountsAreNatural DEF StartInv, TypeInv, TypeOK
  <2>3. day[p] \in {mday, mday + 1} /\ day[p] <= Started(p)
    BY <2>2, MemberOrder
  <2>4. day[p] = mday
    BY <2>2, <2>3, MemberOrder
  <2> QED BY <2>2, <2>4 DEF Started, Rounds, TypeInv, DaysBounded
<1>6. Joined' = Joined \cup born
  BY <1>1, <1>3 DEF Joined, Present
<1>7. \A q \in Joined : Begun[q] = mday /\ Over[q] = mday
  BY <1>2, <1>5, DaysOf DEF Joined, Open
<1>8. /\ Begun' = [p \in Crew |-> IF p \in born THEN mday ELSE Begun[p]]
      /\ Over'  = [p \in Crew |-> IF p \in born THEN mday ELSE Over[p]]
  BY <1>1, <1>3, DistinctAssumption DEF Crew, Begun, Over
<1>9. born \in SUBSET (Crew \ Joined)
  BY <1>3, <1>4 DEF Crew, Joined, Present
<1>10. JoinDay(born, mday)
  BY <1>6, <1>7, <1>8 DEF JoinDay
<1>11. Clock \in Joined /\ mday \in {Begun[q] : q \in Joined}
  <2>1. Clock \in Joined
    BY DEF Joined
  <2> QED BY <1>7, <2>1
<1> QED BY <1>9, <1>10, <1>11

(* The protocol keeps the promise of WorkDays: a day begins for nobody       *)
(* before it is over for everybody, newcomers included.                      *)
THEOREM DayBarrierKeepsDays == Spec => ImplementsWorkDays
<1>1. Init => Days!Init
  BY DistinctAssumption DEF Init, Days!Init, Open, Present
<1>2. DayInv /\ [Next]_vars => [Days!Next]_Days!vars
  <2> SUFFICES ASSUME DayInv, [Next]_vars PROVE Days!Next \/ UNCHANGED Days!vars
    OBVIOUS
  <2>1. UNCHANGED DayVars => UNCHANGED Days!vars
    BY DEF DayVars, Days!vars, Joined, Begun, Over, Crew
  <2>2. ASSUME NEW p \in Joined, BeginDay(p) \/ FinishDay(p) PROVE Days!Next
    <3>1. BeginDay(p) => Days!Begin(p)
      BY DEF BeginDay, Days!Begin, Joined, Begun, Over, Crew
    <3>2. FinishDay(p) => Days!Finish(p)
      BY DEF FinishDay, Days!Finish, Joined, Begun, Over, Crew
    <3> QED BY <2>2, <3>1, <3>2 DEF Days!Next, Joined
  <2>3. CASE ManagerStep
    <3>1. CASE InitNewUsers
      <4>1. PICK newcomers \in SUBSET (Crew \ Joined), d \in {Begun[q] : q \in Joined} :
                JoinDay(newcomers, d)
        BY <3>1, NewcomersJoin
      <4>2. Days!Join(newcomers, d)
        BY <4>1 DEF JoinDay, Days!Join, Joined, Begun, Over, Crew
      <4> QED BY <4>1, <4>2, Zenon DEF Days!Next, Joined, Begun, Crew
    <3>2. CASE ~InitNewUsers
      <4>1. UNCHANGED <<cpc, cday, pc, day>>
        BY <2>3, <3>2, ManagerFrame DEF DayInv
      <4> QED BY <2>1, <4>1, StayStep
    <3> QED BY <3>1, <3>2
  <2>4. CASE ClockStep \/ SendWorkerPause \/ SendUserNotific
    <3>1. Clock \in Joined
      BY DEF Joined
    <3> QED BY <2>1, <2>2, <2>4, <3>1, ClockDays
  <2>5. ASSUME NEW p \in Members, MemberStep(p) \/ SendWork(p) PROVE Days!Next \/ UNCHANGED Days!vars
    <3>1. p \in Joined
      BY <2>5, MemberFrame DEF Joined, Present, DayInv
    <3> QED BY <2>1, <2>2, <2>5, <3>1, MemberDays
  <2>6. CASE AddUsersMain \/ UNCHANGED vars
    <3>1. UNCHANGED <<cpc, cday, pc, day>>
      BY <2>6 DEF AddUsersMain, vars, clockVars, memberVars
    <3> QED BY <2>1, <3>1, StayStep
  <2> QED BY <2>3, <2>4, <2>5, <2>6, StepCases
<1> QED BY <1>1, <1>2, DayBarrierInvariant, PTL DEF Spec, ImplementsWorkDays, Days!Spec
============================================================================
