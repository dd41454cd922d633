# Verification of the post office simulation

TLA+ models, TLC configurations and TLAPS proofs for the program in `src/`: a post
office simulated by UNIX processes that talk through System V semaphores, message
queues and shared memory. The modules are translated from the C source
(`src/src/*.c`); comments name the functions and the lines they stand for, and
`PROJECT.json` ("map") lists the lines of every definition.

## 1. Inventory: the system

### Processes

| Process | Source | State it keeps | What it does in a day |
| --- | --- | --- | --- |
| manager | `manager_main.c` | `day_count`, its own `NOF_USERS` and `START_SEM_COUNT`, `all_proc_pid` | start barrier, forks the added users, resets the seats, opens the day, collects one statistic per user and service and one per worker, declares the explosion, lets everybody die, removes the IPC objects |
| clock | `clock_main.c`, `clock.c` | `day_count`, its own `NOF_USERS`, the minute (shared), the timed notifications of the day | start barrier, collects one request per user and one per worker, counts 480 minutes, notifies appointments and pauses, tells everybody that the day has ended |
| ticket dispenser | `ticket_dispenser_main.c`, `ticket_dispenser.c` | its queue | start barrier; answers a ticket request with the worker of that service who has the shortest queue, or refuses it |
| worker (`NOF_WORKERS`) | `worker_main.c`, `worker.c` | its service, its seat, pauses left, statistics | start barrier; takes a seat if one is free, serves requests, may pause and leave its seat to a colleague |
| user (`NOF_USERS`, later more) | `user_main.c`, `user.c` | requests of the day, filter, counters of failed services | start barrier; appointment → ticket → service, one after the other |
| `add_users_main` | `add_users_main.c` | – | run by hand: one unit of `SEM_ADD_USERS` |

### Shared state and how the processes interact

* **Day protocol**: six counting semaphores (`DAY_END`, `PROC_READY`, `START`,
  `ADD_USERS`, `CLOCK_ADD_USERS`, `PROC_CAN_DIE`) and the flag `STOP_SIM_EXPLODE`.
  They are reused every day; a token does not say which day it belongs to.
* **Mailboxes**: one queue and one semaphore per worker, user and for the dispenser;
  a queue of the clock without semaphore. A message and its unit are two system
  calls; `get_notifications` takes a unit, then the message of the highest priority
  in its filter.
* **Seats**: `SHM_SEATS_INFO` under a readers-writers lock with priority to the
  writers built from seven semaphores, and a counting semaphore of free seats per service.
* **Calendar and minute**: `SHM_CALENDAR`, `SHM_MIN_COUNT` under locks with priority to
  the readers.
* **Statistics**: two bounded queues, metadata and data; the data of a statistic is
  received by the type that its metadata announced.
* **Keys and distribution**: `ftok_key.c` numbers the IPC keys, `utils.c` distributes
  seats and workers over the services.

### What is hard, and what would make each part correct

| Component | Hard behaviour | Correct when |
| --- | --- | --- |
| Day protocol | reuse of counting semaphores by processes that are a phase apart; users joining in the middle of the barrier; the explosion flag read apart from the START token | a day opens only when everybody is ready; nothing of a day reaches the next; queues and semaphores are reset only while nobody works; everybody knows the users added; the simulation ends |
| Seats lock | counters that are semaphores, read and changed in separate calls | writers exclude everybody; the counters are true; no process waits forever |
| Seats | free-seat semaphore and table change apart; the dispenser copies a seat after it gave the lock back | who holds a unit of the semaphore finds a seat; one worker per seat; the copy is one worker's |
| Service of the users | pauses, seats handed over, filters, several messages in flight | a core never finds a unit without a message; a request is served by one worker and answered once; what is reported as served and failed is what happened; the day ends for everybody |
| Statistics channel | two bounded queues, `IPC_NOWAIT` on one of them | the data queue never fills; the manager never waits for a sender that waits for it |
| Calendar | two locks one after the other; unprotected increments; ties and edges of the day | the counts are those of the users booked today; a search gives the least crowded minute of what it has read |
| Keys, IPC objects, distribution | objects that outlive an interrupted run; a program that computes its key without the configuration; removal in two variants; remainders | keys are distinct and agreed; children find fresh objects; nothing is left; creation and removal get through with what an interrupted run of the same configuration left, and only leftovers stop the clock or `get_stats`; the shares add up |

`PROJECT.json` lists the hazards one by one, at the line where they bite, with the
properties that would catch them.

## 2. The modules

| Module | Kind | About |
| --- | --- | --- |
| `DayBarrier` | specification | the day protocol: `start()`, the end of `core()`, statistics, adding users, explosion, shutdown of all five kinds of process |
| `WorkDays` | abstract specification | what the day protocol promises |
| `MCDayBarrier` | model-checking | the crews and the batches of new users of the runs |
| `DayBarrier_proofs` | proofs | barrier invariant of the protocol and its refinement of `WorkDays` |
| `SeatsLock` | specification | the writers-priority lock of `sem_utils.c` |
| `SeatsLock_proofs` | proofs | inductive invariant and mutual exclusion of the lock |
| `Seats` | specification | the seats of `seats.c`: semaphores of the free seats, the table under the lock, pauses, the copy of the dispenser (extends `SeatsLock`) |
| `SeatPool` | abstract specification | what the seats promise to the workers |
| `MCSeats` | model-checking | services and seats of the runs |
| `Seats_proofs` | proofs | inductive invariant of the seats, no seat idle beside a waiting worker, their refinement of the pool |
| `Abstractions_proofs` | proofs | what the abstract specifications promise: `WorkDays` keeps everybody in the same day, `SeatPool` is never overbooked |
| `Office` | specification | `core()` of users, dispenser, workers and clock: mailboxes with their semaphores, filters, tickets, services, pauses |
| `MCOffice` | model-checking | services, seats and lists of the runs |
| `Office_proofs` | proofs | two inductive invariants of the cores; all safety invariants of the `office` run |
| `Setup` | specification | keys, creation, opening and removal of all IPC objects over several runs, with interruptions and `add_users`; distribution of seats and workers |
| `MCSetup` | model-checking | the configurations and the stamps of the paths |
| `Setup_proofs` | proofs | the sorted table of the keys and its search, the lists of objects created and removed, the sharing out, and an inductive invariant of the objects over all runs |
| `Calendar` | specification | `find_best_time` and `clear_calendar` under the lock with priority to the readers |
| `MCCalendar` | model-checking | the wishes of the users, symmetry |
| `Calendar_proofs` | proofs | the loop of `find_best_time` against its definition, the lock, and the bookings it protects |
| `StatsChannel`, `StatsChannel_proofs` | specification, proofs | the statistics through the two bounded queues; every report is counted once and none is refused; the message types are distinct |

The `Mutant_...` operators are plausible mistakes in the definition they precede. The
specifications never use them; they exist so that every property can be shown to
fail when the code is wrong.

### DayBarrier

`sem` is the value of each semaphore; `mpc`, `cpc` and `pc[p]` are the points at which
the manager, the clock and every other process stand, `mday`, `cday`, `day[p]` their
`day_count`. `mUsers` and `cUsers` are the two copies of `NOF_USERS` that matter
(`start()` of the manager and of the clock add to their own). `mail[p]` holds the kinds
of messages in a mailbox, `clockQueue` the requests to the clock, `statsQueue` the
statistics with the day they are about, `got` how many `get_stats` has received, and
`requests` the runs of `add_users_main`.

One action is one system call on the shared state, in the order of the source:

| Source | Actions |
| --- | --- |
| `start()` of worker, user, dispenser | `MemberLockDayEnd`, `MemberWaitZero`, `ClearMsgQueue`, `CheckCleared`, `SendClockReq`, `MemberReady`, `MemberLockStart`, `MemberReadExplode` |
| `core()` and what follows | `ReceiveDayEnded`, `ReceivePause`, `ReceiveWork`, `SendWork`, `SendStats`, `MemberCanDie` |
| clock | `ClockSetup`, `ClockLockAdd`, `ClockReadAdd`, `ClockAddNewUsers`, `ClockReleaseNewUsers`, `SetupUserNotific`, `SetupWorkerPause`, `ClockCheckEmpty`, `ClockReady`, `ClockLockStart`, `ClockReadExplode`, `SendWorkerPause`, `SendUserNotific`, `ClockDayOver`, `SendMsgDayEnded`, `ClockReleaseDayEnd`, `ClockCanDie` |
| manager | `ManagerLockDayEnd`, `ManagerWaitZero`, `TryAddUsers`, `ClockNoUsers`, `InitNewUsers`, `ClockNewUsers`, `InitSeats`, `ManagerLockReady`, `ManagerSetStart`, `GetStats`, `DayCounted`, `Explode`, `ClockExplode`, `LetDie`, `WaitChildren` |
| `add_users_main` | `AddUsersMain` |

Abstractions, and why they lose nothing the properties look at:

* A mailbox is a *set* of kinds. The barrier only depends on whether a kind is there
  and on whether the mailbox is empty; the semaphore of the mailbox is dropped because
  a core that waits for a unit and a core that waits for a message differ only in how
  many messages of a kind it reads.
* `ReceiveWork` and `SendWork` stand for all that happens inside the cores: any process
  in its core may write to anyone the source lets it write to, at any moment of the
  day. This covers every schedule of the services and more.
* Whether a worker leaves its core on a pause is left open, as it depends on its seat.
* The loop of `send_msg_day_ended` over a group is one action, and the statistics of a
  user (one per service) are one message; `get_stats` counts accordingly.
* Whether the failed services of a day exceed `EXPLODE_THRESHOLD` is left open on every
  day when `MayExplode` is TRUE.

### WorkDays

Members of a crew begin and finish day after day; nobody begins a day before all who
have joined have finished the one before; newcomers join only between two days, with
the number of the day about to begin. `ImplementsWorkDays` maps `begun` to the days a
process has opened its core for and `finished` to its `day_count`.

### SeatsLock

`lk` holds the seven semaphores of the lock, `pc[p]` the next semaphore operation of
each caller, one step per `semop` or `GETVAL`. The callers only take and give back the
lock (`Acquire`, `Release`), at most `MaxUses` times each.

### Seats

Extends `SeatsLock` with what the callers do: a process moves in two dimensions, its
place in the lock (`pc`) and its place in `core()` (`at`). `seatSem` is `SEM_SEATS`,
`seats` the table `SHM_SEATS_INFO` (taken, whose queue, whose semaphore), `seatOf` the
`seat_index` of a worker or the one the dispenser has chosen, `late` the workers with
`exclude_pause`, `told` the `SEAT_FREE` messages not read yet, `card` the copy the
dispenser answers with.

| Source | Actions |
| --- | --- |
| `seats_init_resources` (every day, and in `setup`) | `NewDay`, `SeatsInit` |
| `seats_try_take_seat` | `TryTakeSeat`, `TryTakePausedSeat`, `LockSeats`, `ChooseSeat`, `SignSeat`, `SeatTaken` |
| `seats_release_seat` | `LockSeats`, `ClearSeat`, `ReturnUnit`, `SeatLeft` |
| `core` of the worker, `take_pause`, `comunicate_free_seat` | `TakePause`, `DayEnded`, `TellSeatFree` |
| `seats_get_less_worker`, `handle_ticket_req` | `LookForWorker`, `FindSeat`, `SeatFound`, `CopySeat`, `SendTicketResp`, `DispenserDayEnded` |

The entry of a seat is written and copied field by field, so that a reader outside the
lock can see it half written. Which taken seat has the shortest queue is left open, as
the queues change without the lock anyway. `PAUSE_NOTIFC` and `DAY_ENDED` may arrive at
any time. `NewDay` needs everybody away from its core: that is what `ResetsAreQuiet`
checks in `DayBarrier`, so the two models share the premise and do not repeat it. The
distribution of the seats over the services is the same every day
(`utils_assign_count_array` is deterministic), hence the constant `SeatsOf`.

### SeatPool

A worker takes a seat of its service, is refused because all are held, or leaves.
`ImplementsSeatPool` maps `holding` to the workers who hold a unit of the semaphore,
from `TryTakeSeat` to `ReturnUnit`, and `refused` to those who wait.

### StatsChannel

`metadata` and `data` are the two queues, `cbytes` the bytes in the second. A sender is
a user with one report per service or a worker with one; `pc` says which of its two
`msgsnd` comes next, `next` the report it is at, `size` what it announced. The manager
is between `msgrcv` of an announcement and `msgrcv` of its data when `awaited` names one.
`SendMetadata`, `SendData` (with the `IPC_NOWAIT` of the users: `Refused`),
`ReceiveMetadata`, `ReceiveData` and `DayCounted` are the system calls of
`send_user_stats`, `send_worker_stats` and `get_stats`. The data queue is a set since it
is read by type; that the types differ is `StatsTypesDiffer`. A sender begins a day
when it is the manager's day, which is what `DayBarrier` establishes.

### Office

One day after another in the cores. `mail[p]` is the queue of a process, `units[p]` its
semaphore, and `owes[p]` the semaphores a process releases next because it has already
sent the message: the two system calls of every message are two steps, so that a
message without its unit, which the receiver can already read, is a state of the model.
`at[p]` is where a process stands; `filter`, `pending`, `wanted`, `rem` are the local
variables of a user's core (`notifc_filter`, `pending_req`, `requested_serv`,
`rem_serv_req`); `table`, `seat`, `late`, `rests`, `source`, `serving` those of the
workers; `request` and `card` the dispenser's; `minute`, `agenda`, `pauses`, `told` the
clock's.

| Source | Actions |
| --- | --- |
| `get_notifications` | `Gets` (the message of the highest priority in the filter), `Receive`, `NoMes` (a unit and no message) |
| `core` of the user | `UserClockNotifc`, `UserTicketResp`, `UserServiceResp`, `DayEnded` |
| `core` of the dispenser, `handle_ticket_req`, `seats_get_less_worker` | `TicketReq`, `FindSeat`, `CopySeat`, `SendTicketResp`, `DayEnded` |
| `core` of the worker | `EnterCore`, `WorkerServiceReq`, `SendServiceResp`, `WorkerDayEnded`, `WorkerPause` |
| `take_pause`, `comunicate_free_seat` | `WorkerPause`, `ComunicateFreeSeat` |
| `try_take_paused_seats`, `prov_serv_paused_worker`, `check_day_ended` | `WorkerSeatFree`, `CheckDayEnded`, `CollectPaused` |
| `core` of the clock, `send_user_notific`, `send_worker_pause`, `send_msg_day_ended` | `SendUserNotific`, `SendWorkerPause`, `NextMinute`, `TellDayEnded` |
| `release_sem` and its variants | `ReleaseUnit` |
| `start` of everybody (`clear_msg_queue`, `setup_clock_notifc`, `set_pause_time`) | `NewDay` |

What is merged and why nothing is lost: receiving a message and sending the one that
answers it is a step, since between the two only the receiver's own variables change;
`get_notifications` takes its unit and scans its filter in one step, since nobody else
takes units or, while a process is in its core, messages from its mailbox. Sending
`SEAT_FREE` to all colleagues, `DAY_ENDED` to a group, and reading the lengths of the
queues in `FindSeat` are one step each. Taking and leaving a seat is one step: `Seats`
shows that the semaphore, the table and the lock implement such a pool. The copy of the
chosen entry is not: `CopySeat` reads it in two steps, after the lock was given back, so
the tickets of finding `torn_copy` occur. `NobodyStops` and `UnitsMatchMessages` exempt
the workers after one (`torn`), and only them. How long a service takes is left open.

The clock may announce an appointment or a pause in any minute of the day (the calendar can
give any, `set_pause_time` draws one of the minutes 60 to 419).

`Init` is any evening: mailboxes with or without a leftover message, semaphores with or
without a unit, users with failures of the day before. One day from every such state
replaces two days in a row. `NewDay` requires everybody at home; that this is so when
the mailboxes are cleared is `ResetsAreQuiet` of `DayBarrier`.

### Setup

`objects` maps each IPC object of the machine, as its kind and key, to its size and to
whether it holds nothing but what this run has put there (`own`). `phase` and `pos` are
where the manager is: creating object after object (`CreateObject`, in the order of
`sem_init`, `shm_init`, `msg_init`), running, stopping, removing object after object
(`RemoveObject`, in the order of `sem_deallocate`, `shm_deallocate`, `msg_deallocate`).
`ChildSetup` opens every object the way `sem_config`, `shm_config` and `msg_config` do,
and a worker makes its timer; `ChildExit` removes it. `Crash` ends a run at any point,
with all its processes. `AddUsers` is the program `add_users_main`: it computes the key
of `SEM_ADD_USERS` without `config.conf` and counts up whatever semaphore has that key.

The keys are computed, not assumed: `FtokKeyInit` calls `GenerateKey` for every name in
the order of `ftok_key_init`, and this searches and extends the sorted table as
`check_exist_key` does. `ftok` is external: the low bits of the identifier above a
stamp of the path; two of the three paths have the same stamp, which the program copes
with. `SHM_MIN_COUNT` keeps its key -1: nobody generates one.
`semget`, `shmget` and `msgget` (external) take an existing object as it is, refuse one
that is too small and create no empty one. The children see `own` objects where the
creator sets values even when the object exists (`reset`).

The stamp of `/`, where the timers' keys come from, is none of the others': the program is not
started from `/` (assumption `SetupAssumption`). The same assumption has two services at
least (the program has six): the index of the seats has an entry per service but the first,
and a segment of size zero cannot be created.

A run ends well (`clean`), by `FUNC_PERROR` of the manager (`fatal`) or by `Crash`.
`dirty` remembers the configurations of those that did not end well, until one with the
same configuration does.

A run on leftovers need not get through. The manager resets most semaphores and segments, but
`msg_init` does not empty the queues and `SEM_START` is not set (`FreshStart` speaks of the
objects with a reset, and of all only when nothing was left). Two ends are modelled, in any
run that finds such a queue instead of creating it (`HasLeftovers`):

* `ClockStops`: the clock reads as many requests as it expects, finds more and stops
  (`clock_main.c:48-52`). The manager waits for it: such a run has no `Stop` and ends by `Crash`
  only, unless `get_stats` fails first.
* `GetStatsFails`: an announcement of a user who was killed before it sent the report makes
  the manager receive a report larger than announced, or a leftover report is received in place of a
  new one; `msgrcv` fails and the manager ends in `FUNC_PERROR` (`stats_handler.c:48-67`). It
  leaves its children behind; the model takes them to be gone before the next start.

Whether the mail is there is left open: the models of the days start without any. What else
leftovers do to the days (a report of an earlier run counted, a core begun early with a unit of
`SEM_START`, a user stopped by a full data queue) is not modelled. `FatalOnlyWhen` says when such
ends are possible, not that a run on leftovers gets through.

The explosion and a second run of `add_users` are `DayBarrier`'s.

### Calendar

`pc[p]` is the next operation of a user in `find_best_time` or of the clock in
`clear_calendar`; `mutex`, `reader_count`, `writer` are the semaphores of
`SEMRP_CALENDAR_ID`. `FindBestTime` is the loop of the source, a turn at a time (`Turn`),
with its best and its emergency minute and the corrections after it (`BestOf`).
`GivesTheBestTime` compares what it returns with a definition without a loop (`IsBest`).
`calendar[best_time + i]++` is a load and a store (`Load`, `Store`). The booking of a late
user goes on after the last minute of the day; `Cells` are the memory behind it.

## 3. The runs

| Run | Bounds | States | What it shows |
| --- | --- | --- | --- |
| `days` | 1 worker, 1 user, 1 user who may be added on either day, 2 days, an explosion possible on either | 727 k | nobody dies in "Unexpected msg" / "Zero mess are expected", days start together, resets are quiet, `SETVAL` on `START` overwrites nothing, statistics stay in their day, the clock knows the newcomers, nobody works after an explosion, the protocol implements `WorkDays`. Deadlock is not checked: see `early_exit` |
| `days_terminates` | as `days`, without explosion | 587 k | with weak fairness, every simulation that does not explode ends; no deadlock |
| `seats` | 2 workers, 1 service with 1 seat, the dispenser, 1 day, 3 uses of the lock each | 34 k | exclusion, true counters, the table stands still under a reader, every request for the lock is granted; no deadlock |
| `seats_days` | 3 workers, 1 service with 2 seats, 2 days, 4 uses each | 500 k | a unit always finds a seat, a seat has one worker and names it, nobody who waits misses a seat that a pause leaves free, semaphore and table implement `SeatPool`, the reset of a new day changes nothing, every day ends |
| `stats_channel` | 2 users with 2 services, 2 workers, 2 days, reports of size 1 or 2, room for 2 announcements and 3 of the largest reports | 107 k | `NobodyRefused`: the data queue never refuses a user; no worker is blocked for ever, every day is closed with one report of everybody |
| `office` | 1 user with 2 appointments for 2 services, 2 workers and 1 seat for one of them, 2 minutes, 1 pause each, 1 day after any evening | 496 k | nobody stops, units match messages, a request has one carrier, reports agree with what happened, the day ends. The simulation stops after its last day, or with a worker a torn ticket has stopped, so deadlock is not checked |
| `setup` | 4 runs with 4 configurations (one too large for the keys, one without workers), 1 interruption, 24 keys for each of 3 paths | 572 k | keys agree, children find what is reset fresh, nothing is left, creation and removal fail only on a configuration that cannot be served or on what another one left, the clock and `get_stats` stop on left mail only if something was left, seats and workers are shared out. No run follows the last one, so deadlock is not checked |
| `calendar` | 3 users, 2 days of 5 minutes, a window of 1 minute, 4 wishes | 1.1 M | no booking is lost or left over, the minute given is the best; no deadlock |
| `torn_copy` | 3 workers, 2 services with a seat each, the dispenser, 1 day | – | a violation, see Findings |
| `office_refused` | as `office` | – | a violation, see Findings |
| `early_exit` | as `days`, nobody added | – | a violation, see Findings |
| `add_twice` | two runs of `add_users_main` | – | a violation, see Findings |

Why the bounds are enough: a barrier of this kind fails when some process is a phase
ahead of another, so two days and the shutdown are the whole cycle (day → next day →
end); one member of each kind already gives six processes in every interleaving, and
a second worker or user would run the same code. A newcomer
may be requested at any moment, so it can join on the first or the second day. The
lock needs two waiting writers (priority) while a third leaves, and the dispenser is the
only reader of the program; two uses let a process come back while others still leave.
For the seats, three workers for one or two seats are the least at which two compete for
what the third leaves. A worker uses the lock at most twice a day (it takes one seat and
leaves it, and does not come back after a pause), so `MaxUses` limits no worker; it
limits the questions of the dispenser to two a day. The reader is left out where two days are checked, since it never
writes.

For the cores, two workers for one seat give every case of `worker.c` (seated, late,
paused, taking over, back too late), and a list of a service that has a seat and one that
has none gives tickets that are granted, refused and, after a take-over, torn; one user
keeps the case apart that matters here, since users meet only in the queues of the
dispenser and the workers, which are read in order of arrival. An appointment and a pause fall
into every minute in every combination.
For the IPC objects, four runs allow: one that is interrupted, one with another
configuration on what it left, one that cleans up, and one on the clean machine. The
interruption may come before every single call.
For the calendar, three users allow two readers and a booking under way; one minute of
the window on either side of the wish and five minutes reach both edges of the day.

Fairness: every process is weakly fair in its own step (`FairSpec` of `DayBarrier` and
`StatsChannel`, `FairSeatsSpec`). `FairSpec` of `Office` asks for less: as long as
somebody can take a step, somebody takes one, which is enough since nothing in a core
repeats for ever (every message is read once and the minutes pass).
The kernel schedules a runnable process, and a process blocked in `semop` is continued
when its semaphore allows it and stays so; the waits the liveness properties depend on
are of that kind, or the semaphore has a unit for everybody who waits. Nobody is
obliged to write to anybody, to add users, to pause, or to ask for the lock or a ticket.
`FairSeatsSpec` assumes that `DAY_ENDED` reaches every worker in its core, as the clock
sends it to all of them. The minute of the
clock passes, since `clock_main.c` counts it in a loop with a sleep.

## 4. What is proved

TLAPS checks these for every value of the constants that satisfies the assumptions of
the module (finite, disjoint sets of processes and services; at least one day; at least one user, without
whom the clock's release of `DAY_END` for nobody would fail, `clock.c:191`; for `Setup`, any
set of configurations and any stamps of the paths, with that of `/` apart). The theorems
cover every safety property that a run checks.

* **`DayBarrierType`**: `Spec => []TypeOK`. The inductive invariant adds to the types
  that a day counter is below `SIM_DURATION` while its owner is in the loop of `main`
  (otherwise `day_count++` would leave the type) and that the dispenser never reaches
  the points that only workers and users have. One lemma per kind of process.
* **`DayBarrierInvariant`**: `Spec => []DayInv`, from which follow **`NobodyIsFatal`**,
  **`DaysStartTogether`**, **`ResetsQuiet`**, **`StatsAreOfToday`**, **`ClockKnows`** and
  **`NoWorkExploded`**. None of these is inductive, since a unit of a semaphore does not say of
  which day it is: what keeps the days apart is how often each process has passed each point
  of `start()`. `Taken`, `Passed`, `Asked`, `Reported` and `Started` count this for a member,
  and similar numbers for the clock and the manager; `DayInv` says of them:
  - each semaphore holds exactly the difference between its two sides (`DayEndInv`: fillings
    of `DAY_END` by the clock against units taken; `GatherInv`: processes that have reported
    against rounds the manager has gathered; `StartInv`: units set against processes let
    through; `ToldInv`: runs of the manager's announcement against the clock's readings);
  - the two sides are never more than one round apart, so a unit can only belong to the
    current round (`PassInv`: nobody has passed the zero of `DAY_END` before everybody has
    taken its unit, except for newcomers, who wait at `lockDayEnd` for a unit that the
    clock has not yet released);
  - newcomers exist between the manager's fork and the clock's release of their units, when
    there is no unit of `DAY_END` they could steal (`UsersInv`);
  - the requests in the clock's queue and those heard are those of the callers who have
    asked in this round (`RequestInv`), a cleared queue stays empty until it has been
    checked (`MailInv`), the statistics queued and received are those of the members who
    have finished the manager's day (`StatsInv`).

  One lemma per part shows that every step keeps it; the frame lemmas (`MemberFrame`,
  `ClockFrame`, `ManagerFrame`) say once which counts and semaphores a step leaves alone,
  so that each of those proofs looks at the two or three steps that matter.
* **`DayBarrierKeepsDays`**: `Spec => ImplementsWorkDays`. A process begins a day when it enters
  its core; `StartInv` and `GatherInv` give that everybody has then finished the day before
  (`EverybodyDone`). At the fork of the newcomers the manager, the clock and everybody else
  stand between the same two days (`AtFork`).
* **`SeatsLockType`, `SeatsLockTokens`, `SeatsLockExclusion`**: the lock. Mutual
  exclusion is not inductive: a token can be out and not counted yet, a counter can
  have been tested and the test be stale. `LockInv` adds (1) whoever is inside the
  critical section of the `mutex` semaphore is alone there and the semaphore is then 0,
  (2) tokens given out plus processes inside equal the active counter, up to the grant
  under way, (3) what a process inside the critical section has tested still holds,
  (4) an active writer excludes active readers and other writers *in the counters*.
  Exclusion in the counters and (2) give exclusion of the processes. The effect of a
  step on the counts is proved once (`CountStep`, `KindStep`, `SoundStep`) and used by
  each of the four operations.
* **`SeatsExclusion`, `SeatsTableIsStable`**: every step of `SeatsSpec` is a step of the
  lock or leaves it alone, so the exclusion proved for the lock holds for the seats, and
  no step changes the table while a reader is inside.
* **`SeatsType`, `SeatsForEveryUnit`, `SeatsNameTheirWorker`, `SeatsResetChangesNothing`**:
  the seats, from the invariant `SeatsInv`. That a unit always finds a seat is not
  inductive; `SeatsInv` adds that free units and workers who hold one make the seats of
  the service (`Conserved`), that a worker between choosing and clearing owns a taken entry
  nobody else owns (`Held`), and that every taken entry has such an owner
  (`TakenIsHeld`). If all entries of the service were taken while a worker chooses, the
  other holders, fewer than the seats, would own all of them: the pigeonhole principle
  gives two entries with one owner, a contradiction (`SomeSeatIsFree`).
  **`SeatsNoneLeftIdle`** is inductive over these: a unit comes back with its owner on
  the way to `comunicate_free_seat` or to the end of its day, and who has told leaves a
  message to everybody who waits.
  The reset changes nothing since with nobody holding a unit `Conserved` leaves all of
  them in the semaphore.
* **`SeatsImplementPool`**, **`SeatPoolNeverOverbooked`**: the seats implement the pool, and
  the pool never gives a service more workers than seats.
* **`DataQueueIsBounded`**: data messages plus senders who have announced and not yet sent
  never exceed announcements plus the one the manager has taken; as the metadata queue
  is bounded (720 bytes, 45 announcements), at most 46 reports wait.
* **`NoReportIsRefused`**: `RoomForReports => (Spec => []NobodyRefused)`. Whoever is about to
  send is one of those who have announced, so at most 45 reports wait then, and the bytes
  of the queue, as a set of pairs of a report and a position (`Bytes`), are at most 45 times
  the largest size. The premise is that the data queue has room for 46 of the largest
  reports: 10240 bytes are enough for reports of 220, that is 32 bytes and 47 times measured.
  The code does not bound them: a worker whose service takes some six minutes can complete
  more than 47 in a day. So the premise has to be checked for a configuration; those of the
  repository stay within the 10240 bytes in total.
* **`EveryReportIsCountedOnce`**: `Spec => EveryReportOnce`. `get_stats` only counts. What a
  sender has delivered of the manager's day (`Sent`) waits in the data queue or has been
  counted, and never both (`ReportsInv`); a set of counted reports as large as the set of
  all of them is that set, so the day is closed when everybody is done with it and the
  queue is empty.
* **`StatsChannelType`**: the types of the channel, from the invariants above (`cbytes` does
  not fall below zero because it is the number of `Bytes`).
* **`OfficeTyped`, `EveryUnitIsAMessage`, `OnlyATornTicketStops`**: the cores, from the invariant
  `OfficeInv`. That units and messages agree is not inductive: a step sends a message to the
  queue of one process and its unit to the semaphore of, perhaps, another, and a worker takes
  messages from the queue of a colleague without taking units. `OfficeInv` adds that every
  message is one its receiver expects and says the truth (`Good`: a `SERVICE_REQ` asks for the
  service of its worker, both workers of a ticket are of its service and they differ only after
  a tear, the sender of a `SEAT_FREE` has paused and reads its queue no more, a
  `PAUSE_NOTIFC` reaches only a worker with a pause left), that a seat stays with its service
  (`TableInv`), what the dispenser has in hand at each of its steps (`DeskInv`) and where a
  worker may hold a request and owe units (`WorkerInv`). The messages of a process are its units,
  so one that finds a unit finds a message, and by `Good` one of its filter
  (`SomethingToRead`). That the recursive
  function of `CalcTimes` exists and gives minutes of the day is proved from its least
  counterexample (`TimesExist`, `TimesWithin`).
* **`EverybodyOnOneErrand`, `NoServiceIsLost`, `WhatFailsIsUnserved`**: from `ErrandInv`, which
  holds on top of `OfficeInv`. A kind of message is a set, and `N` counts the places of the
  queues that hold one of it; how a message taken, put or passed on changes every such
  number is proved once (`ItLeaves`, `ItComes`, `ItShifts`). What carries the request
  of a user is then `N(About(u))` plus the hands that hold it (`HandsChange`), and each
  step that moves an errand gives and takes one, or moves it from a queue to a hand.
  `ErrandInv` adds that a user who listens to less than everything wants a service and that only
  such a user can have been refused one (`WantInv`): without it an answer could arrive for a user who
  asked for nothing, and be counted as completed. In the morning the appointments of a visitor are
  as many as its wishes, since their numbers in the list are distinct (`AsManyAsWished`).
* **`TheBestTimeIsFound`**: `Spec => GivesTheBestTime`. The loops of `find_best_time` are
  recursive functions; that they exist is proved for any step that stays in a set of values
  (`RecursionExists`), and what holds of every turn by `Reaches`, induction with a set in the
  place of a formula. `Knows` is the invariant of the loop: of the fitting minutes seen so far
  `best` is the best one, and while there was none the emergency minute is the wished one as
  soon as that has been met. It needs every crowd below the initial `INT_MAX`
  (`CrowdTyped`), which holds because a minute has at most as many bookings as there are
  users, which in turn is `BookingsCounted`, and because the users times the minutes of a
  day are below `INT_MAX` (`CalendarAssumption`: with 480 minutes, 4 million users).
* **`CalendarTyped`, `NoBookingIsLost`**: from `CalendarInv`. The exclusion is `LockInv`: one user
  at most holds the mutex, `reader_count` is the number of those between counting themselves
  in and out, the unit of the writers is out exactly when somebody writes or the readers'
  room is not empty, and never both; a reader on its way to the unit knows that it is the first
  or the last. So nobody writes between a `Load` and its `Store` (`LoadedIsFresh`), the store
  adds one booking, and a booking's cells are distinct. The clock clears when everybody has
  planned (`PhaseInv`).
* **`SetupKeysAgree`**: `Spec => []KeysAgree`. The binary search of `check_exist_key` finds a key
  exactly when the sorted table holds it, and otherwise says where it belongs
  (`CheckFinds`, by complete induction on the width of the interval: `TurnAnswers`), so the
  insertion keeps the table sorted (`InsertKeeps`), `GenerateKey` gives a name a key that no other
  name has (`GenerateKeeps`), and the rows of `ftok_key_init` do so one after the other
  (`RowsAre`, `RowsKnow`). The keys of the timers end with another stamp
  (`TimerKeyDiffers`). `add_users_main` agrees with the run since every configuration numbers
  the semaphores and segments first, in the same order (`CommonRowsAgree`, `AddUsersAgree`); the
  numbers of queues, which it has not read, only matter after that. The premise is the program's own: the paths are enough, else the manager stops.
* **`SetupTyped`, `SetupFreshStart`, `SetupNothingLeft`, `SetupFatalOnlyWhen`**: from `SetupInv`.
  None of these is inductive, and the last is an action property: what a step from a state of the
  invariant does. `SetupInv` adds:
  - `Origin`: every object was made, with its size, by the run under way or by one of a
    configuration in `dirty`. `NothingLeft` alone does not say of which size an object is,
    and a leftover of another size is what `semget` and `shmget` refuse;
  - `Progress`: what the manager has created so far is there, and the run's own if its
    creator resets it; `AllOwn`: with nothing left over everything is;
  - `Crewed` and `TimersGone`: the children are gone before the removal begins, and each
    worker's timer with it; during the days only the clock can be gone;
  - `Removing`: what the removal has passed is gone, the rest is there. So nothing is removed twice,
    which would be fatal, and at its end nothing is left that this run has made
    (`EndLeavesNothing`).

  The lists themselves are compared once for every configuration, with and without added
  users: `sem_init`, `shm_init` and `msg_init` create every object of `CreatedKeys` once
  (`CreatedLists`), the removals name every one once (`RemovalsList`), and with at least one
  worker both name the same (`CreatedIsRemoved`); without workers they do not, which is one of
  the reasons for which `FatalOnlyWhen` lets the manager give up. The two ends during the days
  need a queue that is not the run's own, and `AllOwn` then gives an earlier run that did
  not end well (`LeftoversAreLeft`).
* **`SetupStaffed`**: the loop of `utils_assign_count_array` in closed form (`AssignIs`), the sums
  `seats_init_resources` and `init_workers` make of it (`BeforeIs`), and that consecutive shares part
  the whole (`BordersPart`), for any numbers of services, seats and workers.
* **`StatsTypesDiffer`**: the formulas of `user.c:84` and `worker.c:95` number all reports
  differently.
* **`WorkDaysInv`, `WorkDaysSameDay`**: two members at work are at work on the same day.

The proofs take as premise that a process calls the operations of the lock in the order
of the source; nothing is assumed about the scheduler.

Only model-checked: `Termination`, `EveryLockGranted`, `DaysPass`, `AllDaysCounted` and
`DayCloses` (liveness under fairness is beyond what TLAPS reasons about).

## 5. Findings

* `early_exit` – `README.md:54` of the repository says that at the end of the day the processes
  return to start unless the simulation is over. The dispenser reads the explosion
  flag in a system call of its own after it has taken its `START` token; it sends no
  statistics, so the manager can close the day and raise the flag before the dispenser
  has read it. It then exits in a day it never worked, and the manager, which repeats
  the barrier for `START_SEM_COUNT` processes, waits forever for `DAY_END`
  (`manager_main.c:217`).
* `add_twice` – the manager honours a request for new users on every day
  (`README.md:62`), but mailboxes, semaphores and the table of children have room for
  one batch.
* `torn_copy` – `README.md:133` says that the access to the table of the seats is
  synchronised by the readers-writers lock. `seats_get_less_worker` gives the lock back
  and then copies the chosen entry (`seats.c:105-106`): when its worker pauses and a
  colleague signs the seat meanwhile, the ticket names the queue of one worker and the
  semaphore of the other. The user's request and its unit then go to different workers.

* `office_refused` – `README.md:73-75` has a user in its core wait for `CLOCK_NOTIFC`. The
  filter is narrowed when a ticket is asked for (`user_main.c:124-127`) and widened only by
  the answer to a service: after a refused ticket the user skips every later appointment
  of the day, and these count as failed although they were never asked for.

## 6. Not modelled, and the plan

Not modelled: the reports (`print_save_stats`, `save_stats`: sums, averages and formatting
by one process of what `get_stats` has collected), what a report says beyond served and
failed (waiting and delivery times), log messages, the functions nobody calls (timers,
`NotifcLinked`), the vendored `unity` and `log`.

Seen while reading and outside the properties: `get_stats` counts a served user under the
first of its services only (`stats_handler.c:70-74`, as the reports of a user arrive one per
service); the failures of a user who stays at home are those of its last visit
(`user.c:182-187`); `send_user_notific` compares the entry after the last one before it
looks at the index (`clock.c:207`); `ftok` gives workers 256 apart the same timer
(`worker_main.c:40`).

What would add most next:

* Days in a row in `Office`, with the failures of a user who stays at home (`user.c:182`), a hazard
  without a property.
* The first day of a run on leftovers in `DayBarrier` and `StatsChannel`: mail and units of `START` an
  interrupted run can leave, and what the cores make of them.
* `find_best_time` with two users who choose before either books: how crowded the calendar
  gets compared with users who choose one after the other.
