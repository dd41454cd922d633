------------------------------ MODULE Office ------------------------------
(***************************************************************************)
(* The days of the post office between the users, the ticket dispenser,    *)
(* the workers and the clock: the core() of every process and the messages *)
(* they exchange.  A message is two system calls and two steps, msgsnd on  *)
(* the queue of the receiver and then a unit of its semaphore; the         *)
(* receiver takes the unit first and then tries the types of its filter    *)
(* in order (get_notifications, one step).                                 *)
(*                                                                         *)
(* Seats are taken and left in one step (Seats shows they implement such a *)
(* pool), and a day begins when everybody is home (DayBarrier).            *)
(***************************************************************************)
EXTENDS Integers, SequencesExt

CONSTANTS
  Users, Workers, Dispenser, Clock,   \* the processes
  Services,        \* the services
  ServiceOf,       \* worker -> service: assigned_service
  SeatsOf,         \* service -> its range of indices in the table
  Duration,        \* service -> minutes: service_duration
  Requested,       \* the lists of services a user may draw for a day
  MINUTES_IN_DAY, N_REQUESTS, NOF_PAUSE, SIM_DURATION,
  None             \* no worker, no user, no seat

Receivers == Users \cup Workers \cup {Dispenser}
Processes == Receivers \cup {Clock}
Table     == UNION {SeatsOf[s] : s \in Services}
Requests  == [type : {"TICKET_REQ", "SERVICE_REQ"}, user : Users, serv : Services]
Colleagues(w) == {v \in Workers : ServiceOf[v] = ServiceOf[w]}

ASSUME ProcessesAssumption ==
  /\ IsFiniteSet(Users) /\ IsFiniteSet(Workers) /\ IsFiniteSet(Services)
  /\ Users \cap Workers = {}
  /\ Dispenser \notin Users \cup Workers /\ Clock \notin Receivers
  /\ None \notin Users \cup Workers \cup Services \cup Table \cup Requests

ASSUME OfficeAssumption ==
  /\ ServiceOf \in [Workers -> Services]
  /\ SeatsOf \in [Services -> SUBSET Nat]
  /\ \A s, t \in Services : s # t => SeatsOf[s] \cap SeatsOf[t] = {}
  /\ Duration \in [Services -> Nat \ {0}]
  /\ MINUTES_IN_DAY \in Nat \ {0}
  /\ N_REQUESTS \in Nat \ {0}
  /\ NOF_PAUSE \in Nat /\ SIM_DURATION \in Nat
  /\ \A list \in Requested : list \in Seq(Services) /\ Len(list) \in 1..N_REQUESTS

VARIABLES
  mail,    \* MSG_NOTIFY_*: the queue of each process
  units,   \* SEM_NOTIFY_*: the units of its semaphore
  owes,    \* whose semaphore a process releases next: the message is sent already
  at,      \* where a process is

  filter,  \* notifc_filter of a user, as long as nof_notifc
  pending, \* pending_req: units a user took without a message of its filter
  wanted,  \* requested_serv
  rem,     \* rem_serv_req: services a user has asked for and not received
  completed, \* user_stats[..]->completed_serv

  table,   \* SHM_SEATS_INFO: who has, or had, each seat
  seat,    \* the seat of a worker
  late,    \* workers with exclude_pause = 1
  rests,   \* nof_pause_rem
  source,  \* the paused worker whose queue a worker is serving
  serving, \* the request a worker is serving
  delivered, \* deliv_time_index: services a worker has begun today

  request, \* the request the dispenser is answering
  card,    \* the seat it has found and the copy it makes of it

  day, minute,
  agenda,  \* user_notific: the appointments the clock has still to announce
  pauses,  \* worker_pause, likewise
  told,    \* how many groups of processes have been sent DAY_ENDED

  visitors, refused, torn   \* history: users with appointments today, users refused a
                            \* ticket today, whether a ticket has named two workers

mailVars   == <<mail, units, owes>>
userVars   == <<filter, pending, wanted, rem, completed, visitors, refused>>
workerVars == <<table, seat, late, rests, source, serving, delivered>>
deskVars   == <<request, card, torn>>
clockVars  == <<day, minute, agenda, pauses, told>>
vars == <<mailVars, at, userVars, workerVars, deskVars, clockVars>>

----------------------------------------------------------------------------
(* What a process waits for, in order of priority. *)
USER_FILTER      == <<"DAY_ENDED", "CLOCK_NOTIFC", "TICKET_RESP", "SERVICE_RESP">>
TICKET_FILTER    == <<"DAY_ENDED", "TICKET_RESP">>
SERVICE_FILTER   == <<"DAY_ENDED", "SERVICE_RESP">>
WORKER_FILTER    == <<"DAY_ENDED", "PAUSE_NOTIFC", "SEAT_FREE", "SERVICE_REQ">>
DISPENSER_FILTER == <<"DAY_ENDED", "TICKET_REQ">>

FilterOf(p) == CASE p \in Users   -> filter[p]
                 [] p \in Workers -> WORKER_FILTER
                 [] OTHER         -> DISPENSER_FILTER
CanSkip(p) == p \in Users /\ filter[p] # USER_FILTER

NoCard == [seat |-> None, msg |-> None, sem |-> None]
Message ==
  [type : {"DAY_ENDED", "PAUSE_NOTIFC", "SERVICE_RESP"}]
    \cup [type : {"CLOCK_NOTIFC"}, serv : Services]
    \cup [type : {"TICKET_REQ", "SERVICE_REQ"}, user : Users, serv : Services]
    \cup [type : {"TICKET_RESP"}, serv : Services, card : {NoCard} \cup
            [seat : Table, msg : Workers, sem : Workers]]
    \cup [type : {"SEAT_FREE"}, worker : Workers]

TypeOK ==
  /\ \A p \in Receivers : \A i \in DOMAIN mail[p] : mail[p][i] \in Message
  /\ units \in [Receivers -> Nat]
  /\ owes \in [Processes -> SUBSET Receivers]
  /\ at \in [Receivers -> {"home", "enter", "core", "check", "collect", "tell",
                           "paused", "look", "copyMsg", "copySem", "answer", "stopped"}]
  /\ filter \in [Users -> {USER_FILTER, TICKET_FILTER, SERVICE_FILTER}]
  /\ pending \in [Users -> Nat]
  /\ wanted \in [Users -> Services \cup {None}]
  /\ rem \in [Users -> [Services -> Int]]
  /\ completed \in [Users -> [Services -> Nat]]
  /\ visitors \subseteq Users /\ refused \subseteq Users
  /\ table \in [Table -> [taken : BOOLEAN, worker : Workers \cup {None}]]
  /\ seat \in [Workers -> Table \cup {None}]
  /\ late \subseteq Workers
  /\ rests \in [Workers -> 0..NOF_PAUSE]
  /\ source \in [Workers -> Workers \cup {None}]
  /\ serving \in [Workers -> Requests \cup {None}]
  /\ delivered \in [Workers -> Nat]
  /\ request \in Requests \cup {None}
  /\ card \in [seat : Table \cup {None}, msg : Workers \cup {None}, sem : Workers \cup {None}]
  /\ torn \in BOOLEAN
  /\ day \in 0..SIM_DURATION /\ minute \in 0..MINUTES_IN_DAY
  /\ agenda \subseteq [user : Users, nr : 1..N_REQUESTS, serv : Services,
                       time : 0..MINUTES_IN_DAY - 1]
  /\ pauses \subseteq [worker : Workers, time : 0..MINUTES_IN_DAY - 1]
  /\ told \in 0..3

----------------------------------------------------------------------------
(* msgsnd, release_sem, lock_sem, msgrcv.  A process that has sent a message *)
(* does nothing before it has released the semaphore of its receiver.        *)
Free(p) == owes[p] = {}
First(p, t) == SelectInSeq(mail[p], LAMBDA m : m.type = t)
Has(p, t)   == First(p, t) > 0
Msg(p, t)   == mail[p][First(p, t)]
Without(p, t) == [mail EXCEPT ![p] = RemoveAt(@, First(p, t))]

ReleaseUnit(p) ==
  /\ ~Free(p)
  /\ units' = [q \in Receivers |-> IF q \in owes[p] THEN units[q] + 1 ELSE units[q]]
  /\ owes' = [owes EXCEPT ![p] = {}]
  /\ UNCHANGED <<mail, at, userVars, workerVars, deskVars, clockVars>>

(* get_notifications: a unit is taken and the types of the filter are tried  *)
(* in order.  Nobody else takes units or, while it is at work, messages from *)
(* p, so this is one step: a message that arrives meanwhile is one that      *)
(* arrives a little later.                                                   *)
Idle(p)  == at[p] = "core" /\ Free(p) /\ (p \in Workers => serving[p] = None)
Mutant_Wakes(p) == Idle(p)   \* does not wait
Wakes(p) == Idle(p) /\ units[p] > 0
Gets(p, t) ==
  \E i \in DOMAIN FilterOf(p) :
    /\ FilterOf(p)[i] = t /\ Wakes(p) /\ Has(p, t)
    /\ \A j \in 1..(i - 1) : ~Has(p, FilterOf(p)[j])

(* Receiving a message, and sending another after it.                        *)
Received(p, t) == mail' = Without(p, t) /\ units' = [units EXCEPT ![p] = @ - 1]
Receive(p, t)  == Gets(p, t) /\ Received(p, t) /\ UNCHANGED owes
Answer(p, t, queue, sem, m) ==
  /\ mail' = [Without(p, t) EXCEPT ![queue] = Append(@, m)]
  /\ units' = [units EXCEPT ![p] = @ - 1]
  /\ owes' = [owes EXCEPT ![p] = {sem}]
Send(p, queue, m) ==
  /\ mail' = [mail EXCEPT ![queue] = Append(@, m)]
  /\ owes' = [owes EXCEPT ![p] = {queue}]
  /\ UNCHANGED units

(* No message of the filter: a process that may not skip stops.              *)
NoMes(p) ==
  /\ Wakes(p) /\ \A i \in DOMAIN FilterOf(p) : ~Has(p, FilterOf(p)[i])
  /\ units' = [units EXCEPT ![p] = @ - 1]
  /\ IF CanSkip(p)
     THEN pending' = [pending EXCEPT ![p] = @ + 1] /\ UNCHANGED at
     ELSE at' = [at EXCEPT ![p] = "stopped"] /\ UNCHANGED pending
  /\ UNCHANGED <<mail, owes, filter, wanted, rem, completed, visitors, refused,
                 workerVars, deskVars, clockVars>>

----------------------------------------------------------------------------
(* USERS: user_main.c, core().                                               *)
UserClockNotifc(u) ==
  LET serv == Msg(u, "CLOCK_NOTIFC").serv IN
  /\ Gets(u, "CLOCK_NOTIFC")
  /\ Answer(u, "CLOCK_NOTIFC", Dispenser, Dispenser,
            [type |-> "TICKET_REQ", user |-> u, serv |-> serv])
  /\ wanted' = [wanted EXCEPT ![u] = serv]
  /\ filter' = [filter EXCEPT ![u] = TICKET_FILTER]
  /\ UNCHANGED <<at, pending, rem, completed, visitors, refused, workerVars, deskVars, clockVars>>

(* A refused ticket changes nothing: the filter stays as it is.              *)
UserTicketResp(u) ==
  LET resp == Msg(u, "TICKET_RESP") IN
  /\ Gets(u, "TICKET_RESP")
  /\ \/ /\ resp.card # NoCard
        /\ Answer(u, "TICKET_RESP", resp.card.msg, resp.card.sem,
                  [type |-> "SERVICE_REQ", user |-> u, serv |-> resp.serv])
        /\ filter' = [filter EXCEPT ![u] = SERVICE_FILTER]
        /\ UNCHANGED refused
     \/ /\ resp.card = NoCard
        /\ Received(u, "TICKET_RESP") /\ UNCHANGED owes
        /\ refused' = refused \cup {u}
        /\ UNCHANGED filter
  /\ UNCHANGED <<at, pending, wanted, rem, completed, visitors, workerVars, deskVars, clockVars>>

UserServiceResp(u) ==
  /\ Gets(u, "SERVICE_RESP") /\ mail' = Without(u, "SERVICE_RESP")
  /\ filter' = [filter EXCEPT ![u] = USER_FILTER]
  /\ units' = [units EXCEPT ![u] = @ - 1 + pending[u]]
  /\ pending' = [pending EXCEPT ![u] = 0]
  /\ completed' = [completed EXCEPT ![u][wanted[u]] = @ + 1]
  /\ rem' = [rem EXCEPT ![u][wanted[u]] = @ - 1]
  /\ UNCHANGED <<owes, at, wanted, visitors, refused, workerVars, deskVars, clockVars>>

DayEnded(p) ==   \* users and dispenser
  /\ p \notin Workers /\ Receive(p, "DAY_ENDED")
  /\ at' = [at EXCEPT ![p] = "home"]
  /\ UNCHANGED <<userVars, workerVars, deskVars, clockVars>>

UserStep(u) ==
  UserClockNotifc(u) \/ UserTicketResp(u) \/ UserServiceResp(u)

----------------------------------------------------------------------------
(* THE DISPENSER: handle_ticket_req, seats_get_less_worker.                  *)
TicketReq(d) ==
  /\ Receive(d, "TICKET_REQ")
  /\ request' = Msg(d, "TICKET_REQ")
  /\ at' = [at EXCEPT ![d] = "look"]
  /\ UNCHANGED <<userVars, workerVars, card, torn, clockVars>>

(* The first of the taken seats with the shortest queue ...                  *)
Waiting(i) == Len(mail[table[i].worker])
FindSeat(d) ==
  LET busy == {i \in SeatsOf[request.serv] : table[i].taken} IN
  /\ at[d] = "look"
  /\ \/ \E i \in busy :
          /\ \A j \in busy : /\ Waiting(i) <= Waiting(j)
                             /\ Waiting(i) = Waiting(j) => i <= j
          /\ card' = [card EXCEPT !.seat = i]
          /\ at' = [at EXCEPT ![d] = "copyMsg"]
     \/ /\ busy = {}
        /\ at' = [at EXCEPT ![d] = "answer"]
        /\ UNCHANGED card
  /\ UNCHANGED <<mailVars, userVars, workerVars, request, torn, clockVars>>

(* ... which is copied after the lock was given back.                        *)
CopySeat(d) ==
  LET worker == table[card.seat].worker IN
  /\ \/ /\ at[d] = "copyMsg"
        /\ card' = [card EXCEPT !.msg = worker]
        /\ at' = [at EXCEPT ![d] = "copySem"]
     \/ /\ at[d] = "copySem"
        /\ card' = [card EXCEPT !.sem = worker]
        /\ at' = [at EXCEPT ![d] = "answer"]
  /\ UNCHANGED <<mailVars, userVars, workerVars, request, torn, clockVars>>

SendTicketResp(d) ==
  /\ at[d] = "answer"
  /\ Send(d, request.user, [type |-> "TICKET_RESP", serv |-> request.serv, card |-> card])
  /\ torn' = (torn \/ card.msg # card.sem)
  /\ request' = None
  /\ card' = NoCard
  /\ at' = [at EXCEPT ![d] = "core"]
  /\ UNCHANGED <<userVars, workerVars, clockVars>>

DispenserStep(d) == TicketReq(d) \/ FindSeat(d) \/ CopySeat(d) \/ SendTicketResp(d)

----------------------------------------------------------------------------
(* WORKERS: worker_main.c, core(), and worker.c.                             *)
FreeSeats(w) == {i \in SeatsOf[ServiceOf[w]] : ~table[i].taken}
TakeSeat(w) ==
  \E i \in FreeSeats(w) :
    /\ \A j \in FreeSeats(w) : i <= j
    /\ table' = [table EXCEPT ![i] = [taken |-> TRUE, worker |-> w]]
    /\ seat' = [seat EXCEPT ![w] = i]
LeaveSeat(w) ==
  /\ table' = [i \in Table |-> IF i = seat[w] THEN [table[i] EXCEPT !.taken = FALSE]
                               ELSE table[i]]
  /\ seat' = [seat EXCEPT ![w] = None]

EnterCore(w) ==
  /\ at[w] = "enter"
  /\ at' = [at EXCEPT ![w] = "core"]
  /\ \/ TakeSeat(w) /\ UNCHANGED late
     \/ FreeSeats(w) = {} /\ late' = late \cup {w} /\ UNCHANGED <<table, seat>>
  /\ UNCHANGED <<mailVars, userVars, rests, source, serving, delivered,
                 deskVars, clockVars>>

(* provide_service: it stops with "Service request not deliverable" or takes *)
(* its time, and then answers.                                               *)
Mutant_Provide(w, req, next) ==   \* counts what it does from its own queue only
  LET mine == req.serv = ServiceOf[w] IN
  /\ at' = [at EXCEPT ![w] = IF mine THEN next ELSE "stopped"]
  /\ serving' = [serving EXCEPT ![w] = IF mine THEN req ELSE None]
  /\ delivered' = [delivered EXCEPT ![w] = IF next = "core" THEN @ + 1 ELSE @]
Provide(w, req, next) ==
  LET mine == req.serv = ServiceOf[w] IN
  /\ at' = [at EXCEPT ![w] = IF mine THEN next ELSE "stopped"]
  /\ serving' = [serving EXCEPT ![w] = IF mine THEN req ELSE None]
  /\ delivered' = [delivered EXCEPT ![w] = IF mine THEN @ + 1 ELSE @]

WorkerServiceReq(w) ==
  /\ Receive(w, "SERVICE_REQ")
  /\ Provide(w, Msg(w, "SERVICE_REQ"), "core")
  /\ UNCHANGED <<userVars, table, seat, late, rests, source, deskVars, clockVars>>

SendServiceResp(w) ==
  /\ serving[w] # None /\ Free(w)
  /\ Send(w, serving[w].user, [type |-> "SERVICE_RESP"])
  /\ serving' = [serving EXCEPT ![w] = None]
  /\ UNCHANGED <<at, userVars, table, seat, late, rests, source, delivered,
                 deskVars, clockVars>>

(* A worker without a seat tries to take the one of a paused colleague, and  *)
(* serves the colleague's queue before its own (prov_serv_paused_worker).    *)
WorkerSeatFree(w) ==
  /\ Receive(w, "SEAT_FREE")
  /\ \/ /\ seat[w] = None /\ TakeSeat(w)
        /\ source' = [source EXCEPT ![w] = Msg(w, "SEAT_FREE").worker]
        /\ at' = [at EXCEPT ![w] = "check"]
     \/ /\ seat[w] # None \/ FreeSeats(w) = {}
        /\ UNCHANGED <<at, table, seat, source>>
  /\ UNCHANGED <<userVars, late, rests, serving, delivered, deskVars, clockVars>>

CheckDayEnded(w) ==
  /\ at[w] = "check" /\ serving[w] = None /\ Free(w)
  /\ \/ /\ Has(w, "DAY_ENDED") /\ mail' = Without(w, "DAY_ENDED")
        /\ LeaveSeat(w)
        /\ source' = [source EXCEPT ![w] = None]
        /\ at' = [at EXCEPT ![w] = "home"]
     \/ /\ ~Has(w, "DAY_ENDED")
        /\ at' = [at EXCEPT ![w] = "collect"]
        /\ UNCHANGED <<mail, table, seat, source>>
  /\ UNCHANGED <<units, owes, userVars, late, rests, serving, delivered,
                 deskVars, clockVars>>

Mutant_CollectPaused(w) ==   \* leaves the request in the queue
  LET v == source[w] IN
  /\ at[w] = "collect"
  /\ IF Has(v, "SERVICE_REQ")
     THEN Provide(w, Msg(v, "SERVICE_REQ"), "check") /\ UNCHANGED <<mail, source>>
     ELSE /\ source' = [source EXCEPT ![w] = None]
          /\ at' = [at EXCEPT ![w] = "core"]
          /\ UNCHANGED <<mail, serving, delivered>>
  /\ UNCHANGED <<units, owes, userVars, table, seat, late, rests, deskVars, clockVars>>
CollectPaused(w) ==
  LET v == source[w] IN
  /\ at[w] = "collect"
  /\ \/ /\ Has(v, "SERVICE_REQ") /\ mail' = Without(v, "SERVICE_REQ")
        /\ Provide(w, Msg(v, "SERVICE_REQ"), "check")
        /\ UNCHANGED source
     \/ /\ ~Has(v, "SERVICE_REQ")
        /\ source' = [source EXCEPT ![w] = None]
        /\ at' = [at EXCEPT ![w] = "core"]
        /\ UNCHANGED <<mail, serving, delivered>>
  /\ UNCHANGED <<units, owes, userVars, table, seat, late, rests, deskVars, clockVars>>

WorkerDayEnded(w) ==
  /\ Receive(w, "DAY_ENDED") /\ LeaveSeat(w)
  /\ at' = [at EXCEPT ![w] = "home"]
  /\ UNCHANGED <<userVars, late, rests, source, serving, delivered, deskVars, clockVars>>

(* Only a worker who has had its seat from the morning pauses.               *)
WorkerPause(w) ==
  /\ Receive(w, "PAUSE_NOTIFC")
  /\ \/ /\ seat[w] # None /\ w \notin late
        /\ LeaveSeat(w)
        /\ rests' = [rests EXCEPT ![w] = @ - 1]
        /\ at' = [at EXCEPT ![w] = "tell"]
     \/ /\ seat[w] = None \/ w \in late
        /\ UNCHANGED <<at, table, seat, rests>>
  /\ UNCHANGED <<userVars, late, source, serving, delivered, deskVars, clockVars>>

(* comunicate_free_seat: a message to every colleague, a unit for itself too.*)
ComunicateFreeSeat(w) ==
  /\ at[w] = "tell"
  /\ mail' = [p \in Receivers |-> IF p \in Colleagues(w) \ {w}
                THEN Append(mail[p], [type |-> "SEAT_FREE", worker |-> w]) ELSE mail[p]]
  /\ owes' = [owes EXCEPT ![w] = Colleagues(w)]
  /\ at' = [at EXCEPT ![w] = "paused"]
  /\ UNCHANGED <<units, userVars, workerVars, deskVars, clockVars>>

WorkerStep(w) ==
  \/ EnterCore(w) \/ WorkerServiceReq(w) \/ SendServiceResp(w) \/ WorkerSeatFree(w)
  \/ CheckDayEnded(w) \/ CollectPaused(w) \/ WorkerDayEnded(w) \/ WorkerPause(w)
  \/ ComunicateFreeSeat(w)

----------------------------------------------------------------------------
(* THE CLOCK: clock_main.c, core(), and clock.c.  In every minute it sends   *)
(* the appointments that are due and then the pauses.                        *)
Due(list) == {e \in list : e.time <= minute}
Earliest(e, list) == \A f \in list : e.time <= f.time
Ticking == Free(Clock) /\ minute < MINUTES_IN_DAY

SendUserNotific ==
  /\ Ticking
  /\ \E e \in Due(agenda) :
       /\ Earliest(e, agenda)
       /\ Send(Clock, e.user, [type |-> "CLOCK_NOTIFC", serv |-> e.serv])
       /\ agenda' = agenda \ {e}
  /\ UNCHANGED <<at, userVars, workerVars, deskVars, day, minute, pauses, told>>

SendWorkerPause ==
  /\ Ticking /\ Due(agenda) = {}
  /\ \E e \in Due(pauses) :
       /\ Earliest(e, pauses)
       /\ Send(Clock, e.worker, [type |-> "PAUSE_NOTIFC"])
       /\ pauses' = pauses \ {e}
  /\ UNCHANGED <<at, userVars, workerVars, deskVars, day, minute, agenda, told>>

NextMinute ==
  /\ Ticking /\ Due(agenda) = {} /\ Due(pauses) = {}
  /\ minute' = minute + 1
  /\ UNCHANGED <<mailVars, at, userVars, workerVars, deskVars, day, agenda,
                 pauses, told>>

(* send_msg_day_ended: a message to every process of a group, then a unit to *)
(* all of them; the users first, then the workers, then the dispenser.       *)
Groups == <<Users, Workers, {Dispenser}>>
Mutant_TellDayEnded ==   \* the last group is not woken
  /\ minute = MINUTES_IN_DAY /\ Free(Clock) /\ told < 3
  /\ mail' = [p \in Receivers |-> IF p \in Groups[told + 1]
                THEN Append(mail[p], [type |-> "DAY_ENDED"]) ELSE mail[p]]
  /\ owes' = [owes EXCEPT ![Clock] = IF told = 2 THEN {} ELSE Groups[told + 1]]
  /\ told' = told + 1
  /\ UNCHANGED <<units, at, userVars, workerVars, deskVars, day, minute, agenda, pauses>>
TellDayEnded ==
  /\ minute = MINUTES_IN_DAY /\ Free(Clock) /\ told < 3
  /\ mail' = [p \in Receivers |-> IF p \in Groups[told + 1]
                THEN Append(mail[p], [type |-> "DAY_ENDED"]) ELSE mail[p]]
  /\ owes' = [owes EXCEPT ![Clock] = Groups[told + 1]]
  /\ told' = told + 1
  /\ UNCHANGED <<units, at, userVars, workerVars, deskVars, day, minute, agenda, pauses>>

ClockStep == SendUserNotific \/ SendWorkerPause \/ NextMinute \/ TellDayEnded

----------------------------------------------------------------------------
(* The start() of everybody: mailboxes and semaphores are emptied, a user    *)
(* stays at home or draws a list of services and a time (the one the         *)
(* calendar gives it), a worker draws a pause or none.                       *)
Least(a, b) == IF a <= b THEN a ELSE b
CalcTimes(list, time) ==
  LET t[i \in 1..Len(list)] ==
        Least(IF i = 1 THEN time ELSE t[i - 1] + Duration[list[i - 1]], MINUTES_IN_DAY - 1)
  IN  t
Appointments(u, list, time) ==
  {[user |-> u, nr |-> i, serv |-> list[i], time |-> CalcTimes(list, time)[i]] :
     i \in 1..Len(list)}

AtHome(p) == at[p] \in {"home", "paused"} /\ Free(p)
Times == 0..MINUTES_IN_DAY - 1
StayHome == [list |-> <<>>, time |-> 0]
Plans == {StayHome} \cup [list : Requested, time : Times]

Wishes(list, s) == Cardinality({i \in DOMAIN list : list[i] = s})

Mutant_SetupClockNotifc(plan) ==   \* the failures of the day before stay
  /\ visitors' = {u \in Users : plan[u] # StayHome}
  /\ agenda' = UNION {Appointments(u, plan[u].list, plan[u].time) : u \in visitors'}
  /\ rem' = [u \in Users |-> IF u \in visitors'
       THEN [s \in Services |-> rem[u][s] + Wishes(plan[u].list, s)] ELSE rem[u]]
SetupClockNotifc(plan) ==
  /\ visitors' = {u \in Users : plan[u] # StayHome}
  /\ agenda' = UNION {Appointments(u, plan[u].list, plan[u].time) : u \in visitors'}
  /\ rem' = [u \in Users |-> IF u \in visitors'
       THEN [s \in Services |-> Wishes(plan[u].list, s)] ELSE rem[u]]

Mutant_SetPauseTime == \E who \in SUBSET Workers :   \* pauses without end
  \E time \in [who -> Times] :
    pauses' = {[worker |-> w, time |-> time[w]] : w \in who}
SetPauseTime == \E who \in SUBSET {w \in Workers : rests[w] > 0} :
  \E time \in [who -> Times] :
    pauses' = {[worker |-> w, time |-> time[w]] : w \in who}

Mutant_ClearMsgQueues ==   \* forgets the semaphores
  mail' = [p \in Receivers |-> <<>>] /\ UNCHANGED <<units, owes>>
ClearMsgQueues ==
  /\ mail' = [p \in Receivers |-> <<>>]
  /\ units' = [p \in Receivers |-> 0]
  /\ UNCHANGED owes

NewDay ==
  /\ day < SIM_DURATION
  /\ minute = MINUTES_IN_DAY /\ told = 3 /\ Free(Clock)
  /\ \A p \in Receivers : AtHome(p)
  /\ ClearMsgQueues
  /\ \E plan \in [Users -> Plans] : SetupClockNotifc(plan)
  /\ SetPauseTime
  /\ day' = day + 1 /\ minute' = 0 /\ told' = 0
  /\ at' = [p \in Receivers |-> IF p \in Workers THEN "enter" ELSE "core"]
  /\ filter' = [u \in Users |-> USER_FILTER]
  /\ pending' = [u \in Users |-> 0]
  /\ wanted' = [u \in Users |-> None]
  /\ completed' = [u \in Users |-> [s \in Services |-> 0]]
  /\ refused' = {}
  /\ late' = {}
  /\ source' = [w \in Workers |-> None]
  /\ delivered' = [w \in Workers |-> 0]
  /\ UNCHANGED <<table, seat, rests, serving, deskVars>>

(* Any evening: everybody is at home and waits for the next day.  Mailboxes  *)
(* and semaphores hold what the day before has left there, and a user may    *)
(* have failed.  (Before the first day there is nothing and nobody has.)     *)
Left(p) == CASE p \in Users   -> {[type |-> "CLOCK_NOTIFC", serv |-> s] : s \in Services}
             [] p \in Workers -> {[type |-> "SEAT_FREE", worker |-> w] : w \in Workers \ {p}}
             [] OTHER -> {[type |-> "TICKET_REQ", user |-> u, serv |-> s] :
                            u \in Users, s \in Services}
Init ==
  /\ units \in [Receivers -> 0..1]
  /\ mail \in {m \in [Receivers -> {<<>>} \cup {<<l>> : l \in UNION {Left(p) : p \in Receivers}}] :
                 \A p \in Receivers : m[p] # <<>> => m[p][1] \in Left(p)}
  /\ rem \in [Users -> [Services -> 0..1]]
  /\ rests \in [Workers -> 0..NOF_PAUSE]
  /\ owes = [p \in Processes |-> {}]
  /\ at = [p \in Receivers |-> "home"]
  /\ filter = [u \in Users |-> USER_FILTER] /\ pending = [u \in Users |-> 0]
  /\ wanted = [u \in Users |-> None]
  /\ completed = [u \in Users |-> [s \in Services |-> 0]]
  /\ visitors = {} /\ refused = {}
  /\ table = [i \in Table |-> [taken |-> FALSE, worker |-> None]]
  /\ seat = [w \in Workers |-> None] /\ late = {}
  /\ source = seat /\ serving = seat /\ delivered = [w \in Workers |-> 0]
  /\ request = None /\ card = NoCard /\ torn = FALSE
  /\ day = 0 /\ minute = MINUTES_IN_DAY
  /\ agenda = {} /\ pauses = {} /\ told = 3

Next ==
  \/ NewDay
  \/ ClockStep
  \/ \E p \in Processes : ReleaseUnit(p)
  \/ \E p \in Receivers : NoMes(p) \/ DayEnded(p)
  \/ \E u \in Users : UserStep(u)
  \/ DispenserStep(Dispenser)
  \/ \E w \in Workers : WorkerStep(w)

Spec == Init /\ [][Next]_vars

(* Somebody who can take a step takes one.                                   *)
FairSpec == Spec /\ WF_vars(Next)

----------------------------------------------------------------------------
(* PROPERTIES *)

(* The places of the messages in the queues, and what a process has in hand. *)
Mails     == UNION {{p} \X DOMAIN mail[p] : p \in Receivers}
At(c)     == mail[c[1]][c[2]]
InHand(p) == IF p = Dispenser THEN request ELSE IF p \in Workers THEN serving[p] ELSE None

(* A process that has got a unit finds a message of its filter: nobody stops *)
(* with "Notification expeceted" (notification.c:68), a worker with "Service *)
(* request not deliverable" (worker.c:148), unless a ticket has named two    *)
(* workers (see Seats).                                                      *)
NobodyStops == \A p \in Receivers : at[p] = "stopped" => torn /\ p \in Workers

(* No wakeup is lost and none is false: the units of a semaphore, those its  *)
(* process has taken or put aside and those still to be released are as many *)
(* as the messages of its queue.  A paused worker's queue is left to others. *)
Owed(p)  == Cardinality({q \in Processes : p \in owes[q]})
Aside(p) == IF p \in Users THEN pending[p] ELSE 0
UnitsMatchMessages ==
  \A p \in Receivers : /\ at[p] \notin {"home", "paused", "stopped"}
                       /\ p \in Workers => ~torn
    => units[p] + Aside(p) + Owed(p) = Len(mail[p])

(* One errand at a time: between the appointment it answers and the service  *)
(* it gets there is exactly one message or process that carries a user's     *)
(* request, whoever pauses and whoever takes over the queue.                 *)
Carriers(u) ==
  {c \in Mails : \/ At(c).type \in {"TICKET_REQ", "SERVICE_REQ"} /\ At(c).user = u
                 \/ At(c).type \in {"TICKET_RESP", "SERVICE_RESP"} /\ c[1] = u}
    \cup {p \in Receivers : InHand(p) # None /\ InHand(p).user = u} \X {0}
OneErrandEach ==
  \A u \in Users : at[u] = "core" =>
    Cardinality(Carriers(u)) = IF filter[u] = USER_FILTER \/ u \in refused THEN 0 ELSE 1

(* What the two reports of a day say of its services agrees: workers have    *)
(* begun those the users have completed and those whose answer is on its way.*)
Begun     == UNION {{w} \X (1..delivered[w]) : w \in Workers}
Completed == UNION {{c} \X (1..completed[c[1]][c[2]]) : c \in Users \X Services}
CompletionsMatchDeliveries ==
  Cardinality(Begun) = Cardinality(Completed)
                       + Cardinality({c \in Mails : At(c).type = "SERVICE_RESP"})
                       + Cardinality({w \in Workers : serving[w] # None})

(* What a user reports as failed is what it asked for today and did not get: *)
(* appointments to come, those unheard, and the errand it is on.             *)
Unheard(u, s) ==
  {c \in Mails : c[1] = u /\ At(c).type = "CLOCK_NOTIFC" /\ At(c).serv = s}
FailuresAreUnserved ==
  \A u \in visitors, s \in Services :
    rem[u][s] = Cardinality({e \in agenda : e.user = u /\ e.serv = s})
                + Cardinality(Unheard(u, s))
                + (IF filter[u] # USER_FILTER /\ wanted[u] = s THEN 1 ELSE 0)

(* Every day comes to an end for everybody, or a worker has stopped.         *)
DayCloses ==
  told = 3 ~> \A p \in Receivers : at[p] \in {"home", "paused", "stopped"}

(* README.md:75-76 has a user in its core wait for CLOCK_NOTIFC: one that is *)
(* on no errand hears its next appointment.                                  *)
AppointmentsHeard ==
  \A u \in Users : at[u] = "core" /\ Free(u) /\ Carriers(u) = {} =>
    \E i \in DOMAIN filter[u] : filter[u][i] = "CLOCK_NOTIFC"
=============================================================================
