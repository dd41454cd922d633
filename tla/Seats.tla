------------------------------- MODULE Seats -------------------------------
(***************************************************************************)
(* The seats of the post office (seats.c) as the workers and the ticket    *)
(* dispenser use them during a day: the semaphore SEM_SEATS that counts    *)
(* the free seats of each service, the table SHM_SEATS_INFO behind the     *)
(* lock of SeatsLock, and the SEAT_FREE messages of a pausing worker.      *)
(*                                                                         *)
(* Every process moves in two dimensions: `at` is its place in core(),     *)
(* `pc` its place in the four operations of the lock.                      *)
(***************************************************************************)
EXTENDS SeatsLock

CONSTANTS
  Services,      \* the services
  ServiceOf,     \* worker -> service: assigned_service
  SeatsOf,       \* service -> its range of indices in the table
  SIM_DURATION,  \* days of the simulation
  NoWorker       \* what an untouched entry of the table names

TableIndices == UNION {SeatsOf[s] : s \in Services}
NofSeats == [s \in Services |-> Cardinality(SeatsOf[s])]
NoSeat == 0    \* seat_index before a seat is found (-1 in the code)

ASSUME ServicesAssumption ==
  /\ ServiceOf \in [Writers -> Services]
  /\ SeatsOf \in [Services -> SUBSET (Nat \ {NoSeat})]
  /\ \A s \in Services : IsFiniteSet(SeatsOf[s])
  /\ \A s, t \in Services : s # t => SeatsOf[s] \cap SeatsOf[t] = {}
ASSUME DaysAssumption == SIM_DURATION \in Nat
ASSUME NoWorkerAssumption == NoWorker \notin Writers

VARIABLES
  seatSem,  \* SEM_SEATS: the free seats of each service
  seats,    \* SHM_SEATS_INFO
  at,       \* where each process is in its core()
  seatOf,   \* seat_index of each worker; the seat the dispenser has chosen
  late,     \* the workers with exclude_pause = 1
  told,     \* SEAT_FREE messages waiting for each worker
  card,     \* the copy of a SeatInfo the dispenser answers with
  today     \* days begun

seatVars == <<seatSem, seats, at, seatOf, late, told, card, today>>
allVars  == <<lockVars, seatVars>>

Infos == [taken : BOOLEAN, msg : Writers \cup {NoWorker}, sem : Writers \cup {NoWorker}]
NoCard == [msg |-> NoWorker, sem |-> NoWorker]

(* Where a process is.  Away from core(): before the first day or after       *)
(* DAY_ENDED with a seat ("home") or without ("dismissed"), or after a pause. *)
Away == {"home", "dismissed", "paused"}
WorkerPlaces == Away \cup {"core", "waiting", "choose", "sign", "unlock", "noSeat",
  "seated", "leavePause", "unitPause", "unlockPause", "tell",
  "leaveDay", "unitDay", "unlockDay"}
ReaderPlaces == {"home", "core", "look", "unlock", "copyMsg", "copySem", "answer"}

SeatsTypeOK ==
  /\ LockTypeOK
  /\ seatSem \in [Services -> Nat]
  /\ seats \in [TableIndices -> Infos]
  /\ at \in [Lockers -> WorkerPlaces \cup ReaderPlaces]
  /\ seatOf \in [Lockers -> TableIndices \cup {NoSeat}]
  /\ late \subseteq Writers
  /\ told \in [Writers -> Nat]
  /\ card \in [Readers -> [msg : Writers \cup {NoWorker}, sem : Writers \cup {NoWorker}]]
  /\ today \in 0..SIM_DURATION

(* After setup() of the manager, which has set the semaphores already.       *)
SeatsInit ==
  /\ LockInit
  /\ seatSem = NofSeats
  /\ seats = [i \in TableIndices |-> [taken |-> FALSE, msg |-> NoWorker, sem |-> NoWorker]]
  /\ at = [p \in Lockers |-> "home"]
  /\ seatOf = [p \in Lockers |-> NoSeat]
  /\ late = {}
  /\ told = [w \in Writers |-> 0]
  /\ card = [r \in Readers |-> NoCard]
  /\ today = 0

----------------------------------------------------------------------------
(* Moving in core(), between the operations of the lock. *)
Free(p)        == pc[p] = "idle"
Move(p, a, b)  == at[p] = a /\ at' = [at EXCEPT ![p] = b]
KeepTable      == UNCHANGED <<seatSem, seats>>
KeepWorkers    == UNCHANGED <<seatOf, late, told>>

(* The manager opens a day: seats_init_resources resets the semaphores while *)
(* nobody is in its core() (DayBarrier), and the mailboxes have been cleared.*)
Mutant_NewDay ==   \* one unit too many
  /\ today < SIM_DURATION
  /\ \A p \in Lockers : Free(p) /\ at[p] \in Away
  /\ today' = today + 1
  /\ seatSem' = [s \in Services |-> NofSeats[s] + 1]
  /\ at' = [p \in Lockers |-> "core"]
  /\ late' = {}
  /\ told' = [w \in Writers |-> 0]
  /\ UNCHANGED <<lockVars, seats, seatOf, card>>
NewDay ==
  /\ today < SIM_DURATION
  /\ \A p \in Lockers : Free(p) /\ at[p] \in Away
  /\ today' = today + 1
  /\ seatSem' = NofSeats
  /\ at' = [p \in Lockers |-> "core"]
  /\ late' = {}
  /\ told' = [w \in Writers |-> 0]
  /\ UNCHANGED <<lockVars, seats, seatOf, card>>

(* lock_sem_nowait(SEM_SEATS_ID, serv) at the beginning of core() ...        *)
TryTakeSeat(w) ==
  LET s == ServiceOf[w] IN
  /\ at[w] = "core" /\ Free(w)
  /\ \/ /\ seatSem[s] > 0
        /\ seatSem' = [seatSem EXCEPT ![s] = @ - 1]
        /\ at' = [at EXCEPT ![w] = "choose"]
        /\ UNCHANGED late
     \/ /\ seatSem[s] = 0
        /\ at' = [at EXCEPT ![w] = "waiting"]
        /\ late' = late \cup {w}
        /\ UNCHANGED seatSem
  /\ UNCHANGED <<lockVars, seats, seatOf, told, card, today>>

(* ... and again for every SEAT_FREE a worker without a seat receives        *)
(* (try_take_paused_seats).                                                  *)
TryTakePausedSeat(w) ==
  LET s == ServiceOf[w] IN
  /\ at[w] = "waiting" /\ Free(w) /\ told[w] > 0
  /\ told' = [told EXCEPT ![w] = @ - 1]
  /\ \/ /\ seatSem[s] > 0
        /\ seatSem' = [seatSem EXCEPT ![s] = @ - 1]
        /\ at' = [at EXCEPT ![w] = "choose"]
     \/ seatSem[s] = 0 /\ UNCHANGED <<seatSem, at>>
  /\ UNCHANGED <<lockVars, seats, seatOf, late, card, today>>

(* Every use of the table starts with the lock. *)
LockSeats(p) ==
  /\ at[p] \in {"choose", "leavePause", "leaveDay"}
  /\ Acquire(p)
  /\ UNCHANGED seatVars

(* The first seat of the service that is not taken; its entry is written in  *)
(* two steps, as another process may read it meanwhile.                      *)
Mutant_ChooseSeat(w) ==   \* does not mark the seat
  /\ at[w] = "choose" /\ pc[w] = "writing"
  /\ \E i \in SeatsOf[ServiceOf[w]] :
       /\ ~seats[i].taken
       /\ seats' = [seats EXCEPT ![i].msg = w]
       /\ seatOf' = [seatOf EXCEPT ![w] = i]
  /\ at' = [at EXCEPT ![w] = "sign"]
  /\ UNCHANGED <<lockVars, seatSem, late, told, card, today>>
ChooseSeat(w) ==
  LET free == {i \in SeatsOf[ServiceOf[w]] : ~seats[i].taken} IN
  /\ at[w] = "choose" /\ pc[w] = "writing"
  /\ \/ \E i \in free :
          /\ \A j \in free : i <= j
          /\ seats' = [seats EXCEPT ![i].taken = TRUE, ![i].msg = w]
          /\ seatOf' = [seatOf EXCEPT ![w] = i]
          /\ at' = [at EXCEPT ![w] = "sign"]
     \/ /\ free = {}   \* "Expecting to find free seats."
        /\ at' = [at EXCEPT ![w] = "noSeat"]
        /\ UNCHANGED <<seats, seatOf>>
  /\ UNCHANGED <<lockVars, seatSem, late, told, card, today>>

SignSeat(w) ==
  /\ pc[w] = "writing" /\ Move(w, "sign", "unlock")
  /\ seats' = [seats EXCEPT ![seatOf[w]].sem = w]
  /\ UNCHANGED <<lockVars, seatSem, seatOf, late, told, card, today>>

SeatTaken(w) ==
  /\ Move(w, "unlock", "seated") /\ Release(w)
  /\ KeepTable /\ KeepWorkers /\ UNCHANGED <<card, today>>

(* PAUSE_NOTIFC makes a worker with a seat of its own leave, DAY_ENDED       *)
(* everybody, also a worker who serves the queue of a paused colleague       *)
(* (worker.c:250-254); the clock may send either at any time of the day.     *)
TakePause(w) ==
  /\ Free(w) /\ w \notin late /\ Move(w, "seated", "leavePause")
  /\ UNCHANGED lockVars /\ KeepTable /\ KeepWorkers /\ UNCHANGED <<card, today>>

DayEnded(w) ==
  /\ Free(w) /\ (Move(w, "seated", "leaveDay") \/ Move(w, "waiting", "dismissed"))
  /\ UNCHANGED lockVars /\ KeepTable /\ KeepWorkers /\ UNCHANGED <<card, today>>

(* seats_release_seat *)
Mutant_ClearSeat(w) ==   \* without the lock
  /\ Free(w) /\ (Move(w, "leavePause", "unitPause") \/ Move(w, "leaveDay", "unitDay"))
  /\ seats' = [seats EXCEPT ![seatOf[w]].taken = FALSE]
  /\ UNCHANGED <<lockVars, seatSem, seatOf, late, told, card, today>>
Mutant_KeepSeat(w) ==   \* forgets to clear the entry
  /\ pc[w] = "writing"
  /\ Move(w, "leavePause", "unitPause") \/ Move(w, "leaveDay", "unitDay")
  /\ UNCHANGED <<lockVars, seatSem, seats, seatOf, late, told, card, today>>
ClearSeat(w) ==
  /\ pc[w] = "writing"
  /\ Move(w, "leavePause", "unitPause") \/ Move(w, "leaveDay", "unitDay")
  /\ seats' = [seats EXCEPT ![seatOf[w]].taken = FALSE]
  /\ UNCHANGED <<lockVars, seatSem, seatOf, late, told, card, today>>

Mutant_ReturnUnit(w) ==   \* only when it pauses
  /\ pc[w] = "writing"
  /\ \/ /\ Move(w, "unitPause", "unlockPause")
        /\ seatSem' = [seatSem EXCEPT ![ServiceOf[w]] = @ + 1]
     \/ Move(w, "unitDay", "unlockDay") /\ UNCHANGED seatSem
  /\ UNCHANGED <<lockVars, seats, seatOf, late, told, card, today>>
ReturnUnit(w) ==
  /\ pc[w] = "writing"
  /\ Move(w, "unitPause", "unlockPause") \/ Move(w, "unitDay", "unlockDay")
  /\ seatSem' = [seatSem EXCEPT ![ServiceOf[w]] = @ + 1]
  /\ UNCHANGED <<lockVars, seats, seatOf, late, told, card, today>>

Mutant_SeatLeft(w) ==   \* a pausing worker keeps the lock
  /\ \/ pc[w] = "writing" /\ Move(w, "unlockPause", "tell") /\ UNCHANGED lockVars
     \/ Move(w, "unlockDay", "home") /\ Release(w)
  /\ seatOf' = [seatOf EXCEPT ![w] = NoSeat]
  /\ KeepTable /\ UNCHANGED <<late, told, card, today>>
SeatLeft(w) ==
  /\ Move(w, "unlockPause", "tell") \/ Move(w, "unlockDay", "home")
  /\ Release(w)
  /\ seatOf' = [seatOf EXCEPT ![w] = NoSeat]
  /\ KeepTable /\ UNCHANGED <<late, told, card, today>>

(* comunicate_free_seat: a message and a unit for every colleague.  One step:*)
(* between the first and the last only the moment of reading them differs.   *)
Mutant_TellSeatFree(w) ==   \* break where the loop has continue: nobody is told
  /\ Free(w) /\ Move(w, "tell", "paused")
  /\ KeepTable /\ UNCHANGED <<lockVars, seatOf, late, told, card, today>>
TellSeatFree(w) ==
  /\ Free(w) /\ Move(w, "tell", "paused")
  /\ told' = [v \in Writers |->
       IF v # w /\ ServiceOf[v] = ServiceOf[w] THEN told[v] + 1 ELSE told[v]]
  /\ KeepTable /\ UNCHANGED <<lockVars, seatOf, late, card, today>>

----------------------------------------------------------------------------
(* The dispenser: handle_ticket_req, seats_get_less_worker. *)
LookForWorker(r) ==
  /\ Move(r, "core", "look") /\ Acquire(r)
  /\ KeepTable /\ KeepWorkers /\ UNCHANGED <<card, today>>

(* The taken seat whose worker has the shortest queue: any of them.          *)
FindSeat(r) ==
  /\ pc[r] = "reading" /\ Move(r, "look", "unlock")
  /\ \E s \in Services :
       LET busy == {i \in SeatsOf[s] : seats[i].taken} IN
       \/ \E i \in busy : seatOf' = [seatOf EXCEPT ![r] = i]
       \/ busy = {} /\ UNCHANGED seatOf
  /\ KeepTable /\ UNCHANGED <<lockVars, late, told, card, today>>

SeatFound(r) ==
  /\ r \in Readers
  /\ Move(r, "unlock", IF seatOf[r] = NoSeat THEN "answer" ELSE "copyMsg")
  /\ Release(r)
  /\ KeepTable /\ KeepWorkers /\ UNCHANGED <<card, today>>

(* *seat_info = shm_sinfo_ptr[seat_index], after the lock was given back.    *)
CopySeat(r) ==
  /\ Free(r)
  /\ \/ Move(r, "copyMsg", "copySem") /\ card' = [card EXCEPT ![r].msg = seats[seatOf[r]].msg]
     \/ Move(r, "copySem", "answer")  /\ card' = [card EXCEPT ![r].sem = seats[seatOf[r]].sem]
  /\ KeepTable /\ KeepWorkers /\ UNCHANGED <<lockVars, today>>

SendTicketResp(r) ==
  /\ Free(r) /\ Move(r, "answer", "core")
  /\ seatOf' = [seatOf EXCEPT ![r] = NoSeat]
  /\ card' = [card EXCEPT ![r] = NoCard]
  /\ KeepTable /\ UNCHANGED <<lockVars, late, told, today>>

DispenserDayEnded(r) ==
  /\ Free(r) /\ Move(r, "core", "home")
  /\ KeepTable /\ KeepWorkers /\ UNCHANGED <<lockVars, card, today>>

----------------------------------------------------------------------------
WorkerStep(w) ==
  \/ TryTakeSeat(w) \/ TryTakePausedSeat(w) \/ ChooseSeat(w) \/ SignSeat(w) \/ SeatTaken(w)
  \/ TakePause(w) \/ DayEnded(w) \/ ClearSeat(w) \/ ReturnUnit(w) \/ SeatLeft(w)
  \/ TellSeatFree(w)

DispenserStep(r) ==
  \/ LookForWorker(r) \/ FindSeat(r) \/ SeatFound(r) \/ CopySeat(r)
  \/ SendTicketResp(r) \/ DispenserDayEnded(r)

LockOp(p) == LockStep(p) /\ UNCHANGED seatVars

Simulated ==
  /\ today = SIM_DURATION /\ \A p \in Lockers : Free(p) /\ at[p] \in Away
  /\ UNCHANGED allVars

SeatsNext ==
  \/ NewDay
  \/ \E w \in Writers : WorkerStep(w) \/ LockSeats(w)
  \/ \E r \in Readers : DispenserStep(r)
  \/ \E p \in Lockers : LockOp(p)
  \/ Simulated

SeatsSpec == SeatsInit /\ [][SeatsNext]_allVars

(* Everybody runs, the clock ends every day, and a worker who is told of a   *)
(* free seat reads the message; nobody is obliged to pause or to ask.        *)
FairSeatsSpec ==
  /\ SeatsSpec /\ WF_allVars(NewDay)
  /\ \A p \in Lockers : WF_allVars(LockOp(p)) /\ WF_allVars(LockSeats(p))
  /\ \A w \in Writers :
       WF_allVars(WorkerStep(w) /\ ~TakePause(w)) /\ WF_allVars(DayEnded(w))
  /\ \A r \in Readers :
       WF_allVars(DispenserStep(r) /\ ~LookForWorker(r))

----------------------------------------------------------------------------
(* PROPERTIES *)

(* A worker who got a unit of the semaphore always finds a free seat in the  *)
(* table: "Expecting to find free seats." is never printed (seats.c:69).     *)
SeatForEveryUnit == \A w \in Writers : at[w] # "noSeat"

(* A seated worker is the only one on its seat, and the entry of the seat    *)
(* names its queue and its semaphore (seats.c:62-64).                        *)
SeatNamesItsWorker ==
  \A w \in Writers : at[w] = "seated" =>
    /\ seats[seatOf[w]] = [taken |-> TRUE, msg |-> w, sem |-> w]
    /\ \A v \in Writers \ {w} : at[v] = "seated" => seatOf[v] # seatOf[w]

(* While the dispenser looks for the shortest queue the table stands still   *)
(* (seats.c:93-105).                                                         *)
TableIsStable == [][Reading # {} => UNCHANGED seats]_allVars

(* SETVAL on SEM_SEATS at the beginning of a day repairs nothing: every unit *)
(* has come back by itself (seats.c:30).                                     *)
ResetChangesNothing == [][today' # today => UNCHANGED seatSem]_allVars

(* While a worker waits for a seat in vain none is free, unless a colleague  *)
(* is about to tell him, or somebody has left for the day and nobody is told *)
(* of that seat: no SEAT_FREE is lost (worker.c:195-212,241-258).            *)
Leaving == {"leavePause", "unitPause", "unlockPause", "tell"}
NoSeatLeftIdle ==
  \A w \in Writers : at[w] = "waiting" /\ told[w] = 0 /\ seatSem[ServiceOf[w]] > 0 =>
    \E v \in Writers \ {w} : ServiceOf[v] = ServiceOf[w] /\
      at[v] \in Leaving \cup {"home", "unlockDay"}

(* The ticket names one worker: queue and semaphore belong together          *)
(* (README.md:133, the access to the shared memory is synchronised).         *)
CopyNamesOneWorker ==
  \A r \in Readers : at[r] = "answer" => card[r].msg = card[r].sem

(* Every day opens and closes, whoever pauses and whoever waits.             *)
DaysPass == <>(today = SIM_DURATION /\ \A p \in Lockers : at[p] \in Away)

(* Where a worker has taken a unit of SEM_SEATS and not returned it.         *)
UnitPlaces == {"choose", "noSeat", "sign", "unlock", "seated",
  "leavePause", "unitPause", "leaveDay", "unitDay"}

Pool == INSTANCE SeatPool WITH
  Workers <- Writers,
  holding <- {w \in Writers : at[w] \in UnitPlaces},
  refused <- {w \in Writers : at[w] = "waiting"}

(* Semaphore, table and lock together implement the pool of seats.           *)
ImplementsSeatPool == Pool!Spec
============================================================================
