----------------------------- MODULE Calendar ------------------------------
(***************************************************************************)
(* The calendar in shared memory: before a day begins every user who will  *)
(* go to the office looks for the least crowded minute around the one it   *)
(* would like (find_best_time), under the lock with priority to the        *)
(* readers (lock_reader_RP, release_reader_RP), gives the lock back, takes *)
(* the semaphore of the writers alone and counts itself in; when the day   *)
(* is over the clock clears the calendar (clear_calendar).                 *)
(*                                                                         *)
(* One semaphore operation per step.  Counting a minute up, which the      *)
(* processor does as a load and a store, is two.                           *)
(***************************************************************************)
EXTENDS Integers, FiniteSets

CONSTANTS
  Users, Clock,
  Wishes,          \* [time, duration]: the minute a user may draw and what its services
                   \* take together (get_serv_duration)
  MINUTES_IN_DAY,
  WINDOW,          \* how far from the wished minute a user looks: 60
  SIM_DURATION

Infinite == 10^9   \* INT_MAX

ASSUME CalendarAssumption ==
  /\ IsFiniteSet(Users) /\ Clock \notin Users
  /\ MINUTES_IN_DAY \in Nat \ {0} /\ WINDOW \in Nat /\ SIM_DURATION \in Nat
  /\ Wishes \subseteq [time : 0..MINUTES_IN_DAY - 1, duration : 1..MINUTES_IN_DAY]
  /\ Cardinality(Users) * MINUTES_IN_DAY < Infinite   \* no sum of find_best_time overflows

Minutes == 0..MINUTES_IN_DAY - 1
(* The booking of a late user may go on after the last minute.               *)
Cells   == 0..2 * MINUTES_IN_DAY

VARIABLES
  mutex, reader_count, writer,  \* the semaphores of SEMRP_CALENDAR_ID
  pc,        \* the next operation of each process
  calendar,
  wish,      \* requested_time and serv_duration of each user
  best,      \* best_time
  next,      \* the minute of the booking a user counts up next
  loaded,    \* what it has loaded of it
  day

lockVars == <<mutex, reader_count, writer>>
userVars == <<wish, best, next, loaded>>
vars == <<lockVars, pc, calendar, userVars, day>>

Processes == Users \cup {Clock}

----------------------------------------------------------------------------
(* find_best_time: one turn of its loop, with the variables of the loop.     *)
Abs(n) == IF n < 0 THEN -n ELSE n
Crowd(cal, m, duration) ==
  LET sum[j \in 0..duration] == IF j = 0 THEN 0 ELSE sum[j - 1] + cal[m + j - 1]
  IN sum[duration]

NothingFound == [best |-> -1, sum |-> Infinite, closest |-> Infinite,
                 emergency |-> -1, emergency_sum |-> Infinite, emergency_diff |-> Infinite]
Turn(f, cal, requested, duration, m) ==
  LET diff == Abs(requested - m)
      sum  == Crowd(cal, m, duration)
      better   == sum < f.sum \/ (sum = f.sum /\ diff < f.closest)
      fallback == sum < f.emergency_sum \/ (sum = f.emergency_sum /\ diff < f.emergency_diff)
      best_of  == IF better THEN [f EXCEPT !.best = m, !.sum = sum, !.closest = diff] ELSE f
  IN IF m >= MINUTES_IN_DAY \/ duration + m >= MINUTES_IN_DAY
     THEN IF diff < f.emergency_diff
          THEN [f EXCEPT !.emergency = m, !.emergency_diff = diff] ELSE f
     ELSE IF m < 0 THEN f
     ELSE IF fallback
     THEN [best_of EXCEPT !.emergency = m, !.emergency_sum = sum, !.emergency_diff = diff]
     ELSE best_of

Mutant_BestOf(f, duration) ==   \* the correction of the late minutes comes first
  LET b == IF f.best = -1 THEN f.emergency ELSE f.best
  IN IF b + duration >= MINUTES_IN_DAY THEN MINUTES_IN_DAY - duration ELSE b
BestOf(f, duration) ==
  LET b == IF f.best = -1 THEN f.emergency ELSE f.best
  IN IF b < 0 THEN 0 ELSE IF b >= MINUTES_IN_DAY THEN MINUTES_IN_DAY - duration ELSE b

FindBestTime(cal, requested, duration) ==
  LET found[i \in -WINDOW - 1..WINDOW] ==
        IF i = -WINDOW - 1 THEN NothingFound
        ELSE Turn(found[i - 1], cal, requested, duration, requested + i)
  IN BestOf(found[WINDOW], duration)

----------------------------------------------------------------------------
Init ==
  /\ mutex = 1 /\ reader_count = 0 /\ writer = 1   \* SEMRP_CALENDAR_ID_init
  /\ pc = [p \in Processes |-> IF p = Clock THEN "day" ELSE "home"]
  /\ calendar = [m \in Cells |-> 0]
  /\ wish = [u \in Users |-> [time |-> 0, duration |-> 1]]
  /\ best = [u \in Users |-> 0] /\ next = [u \in Users |-> 0]
  /\ loaded = [u \in Users |-> 0]
  /\ day = 0

Goto(p, from, to) == pc[p] = from /\ pc' = [pc EXCEPT ![p] = to]

(* setup_clock_notifc: a user who stays at home does not look.               *)
StayHome(u) == Goto(u, "home", "planned") /\ UNCHANGED <<lockVars, calendar, userVars, day>>
WishFor(u) ==
  /\ Goto(u, "home", "lr_mutex")
  /\ \E w \in Wishes : wish' = [wish EXCEPT ![u] = w]
  /\ UNCHANGED <<lockVars, calendar, best, next, loaded, day>>

(* lock_reader_RP                                                            *)
LockMutex(u, from, to) ==
  /\ Goto(u, from, to) /\ mutex > 0 /\ mutex' = mutex - 1
  /\ UNCHANGED <<reader_count, writer, calendar, userVars, day>>
ReleaseMutex(u, from, to) ==
  /\ Goto(u, from, to) /\ mutex' = mutex + 1
  /\ UNCHANGED <<reader_count, writer, calendar, userVars, day>>
CountReader(u) ==
  /\ Goto(u, "lr_count", "lr_test") /\ reader_count' = reader_count + 1
  /\ UNCHANGED <<mutex, writer, calendar, userVars, day>>
Mutant_FirstReader(u) ==   \* a reader does not wait for the writer
  /\ Goto(u, "lr_test", "lr_release")
  /\ UNCHANGED <<lockVars, calendar, userVars, day>>
FirstReader(u) ==
  /\ Goto(u, "lr_test", IF reader_count = 1 THEN "lr_writer" ELSE "lr_release")
  /\ UNCHANGED <<lockVars, calendar, userVars, day>>
LockWriter(p, from, to) ==
  /\ Goto(p, from, to) /\ writer > 0 /\ writer' = writer - 1
  /\ UNCHANGED <<mutex, reader_count, calendar, userVars, day>>
ReleaseWriter(p, from, to) ==
  /\ Goto(p, from, to) /\ writer' = writer + 1
  /\ UNCHANGED <<mutex, reader_count, calendar, userVars, day>>
LockReaderRP(u) ==
  \/ LockMutex(u, "lr_mutex", "lr_count") \/ CountReader(u) \/ FirstReader(u)
  \/ LockWriter(u, "lr_writer", "lr_release") \/ ReleaseMutex(u, "lr_release", "reading")

LookForTime(u) ==
  /\ Goto(u, "reading", "rr_mutex")
  /\ best' = [best EXCEPT ![u] = FindBestTime(calendar, wish[u].time, wish[u].duration)]
  /\ UNCHANGED <<lockVars, calendar, wish, next, loaded, day>>

(* release_reader_RP                                                         *)
UncountReader(u) ==
  /\ Goto(u, "rr_count", "rr_test") /\ reader_count > 0 /\ reader_count' = reader_count - 1
  /\ UNCHANGED <<mutex, writer, calendar, userVars, day>>
LastReader(u) ==
  /\ Goto(u, "rr_test", IF reader_count = 0 THEN "rr_writer" ELSE "rr_release")
  /\ UNCHANGED <<lockVars, calendar, userVars, day>>
ReleaseReaderRP(u) ==
  \/ LockMutex(u, "rr_mutex", "rr_count") \/ UncountReader(u) \/ LastReader(u)
  \/ ReleaseWriter(u, "rr_writer", "rr_release") \/ ReleaseMutex(u, "rr_release", "lw_book")

(* The booking: calendar[best_time + i]++ for every minute of the services.  *)
Cell(u) == best[u] + next[u]
Load(u) ==
  /\ Goto(u, "load", "store")
  /\ loaded' = [loaded EXCEPT ![u] = calendar[Cell(u)]]
  /\ UNCHANGED <<lockVars, calendar, wish, best, next, day>>
Store(u) ==
  /\ Goto(u, "store", IF next[u] + 1 < wish[u].duration THEN "load" ELSE "rw_book")
  /\ calendar' = [calendar EXCEPT ![Cell(u)] = loaded[u] + 1]
  /\ next' = [next EXCEPT ![u] = @ + 1]
  /\ UNCHANGED <<lockVars, wish, best, loaded, day>>
Book(u) ==
  \/ LockWriter(u, "lw_book", "load") \/ Load(u) \/ Store(u)
  \/ ReleaseWriter(u, "rw_book", "planned")

UserStep(u) == StayHome(u) \/ WishFor(u) \/ LockReaderRP(u) \/ LookForTime(u)
                \/ ReleaseReaderRP(u) \/ Book(u)

(* Everybody has planned; the day passes and the clock clears the calendar   *)
(* before anybody plans the next one.                                        *)
EndOfDay ==
  /\ day < SIM_DURATION /\ \A u \in Users : pc[u] = "planned"
  /\ Goto(Clock, "day", "lw_clear")
  /\ UNCHANGED <<lockVars, calendar, userVars, day>>
Mutant_ClearCalendar ==   \* as many bytes as there are minutes
  /\ Goto(Clock, "clear", "rw_clear")
  /\ calendar' = [m \in Cells |-> IF m < MINUTES_IN_DAY \div 4 THEN 0 ELSE calendar[m]]
  /\ UNCHANGED <<lockVars, userVars, day>>
ClearCalendar ==
  /\ Goto(Clock, "clear", "rw_clear")
  /\ calendar' = [m \in Cells |-> IF m \in Minutes THEN 0 ELSE calendar[m]]
  /\ UNCHANGED <<lockVars, userVars, day>>
(* release_sem_val of SEM_DAY_END: the users return to start().              *)
NextDay ==
  /\ pc[Clock] = "next"
  /\ pc' = [p \in Processes |-> IF p = Clock THEN "day" ELSE "home"]
  /\ next' = [u \in Users |-> 0]
  /\ day' = day + 1
  /\ UNCHANGED <<lockVars, calendar, wish, best, loaded>>
ClockStep ==
  \/ EndOfDay \/ LockWriter(Clock, "lw_clear", "clear") \/ ClearCalendar
  \/ ReleaseWriter(Clock, "rw_clear", "next") \/ NextDay

(* The simulation is over; it stutters, so that TLC reports deadlocks only.  *)
Finished == day = SIM_DURATION /\ (\A u \in Users : pc[u] = "planned") /\ UNCHANGED vars

Next == (\E u \in Users : UserStep(u)) \/ ClockStep \/ Finished
Spec == Init /\ [][Next]_vars

----------------------------------------------------------------------------
(* PROPERTIES *)

UserPCs == {"home", "lr_mutex", "lr_count", "lr_test", "lr_writer", "lr_release", "reading",
            "rr_mutex", "rr_count", "rr_test", "rr_writer", "rr_release",
            "lw_book", "load", "store", "rw_book", "planned"}
ClockPCs == {"day", "lw_clear", "clear", "rw_clear", "next"}

(* Every variable has its type: the binary semaphores stay binary, and no    *)
(* booking leaves the cells.                                                 *)
CalendarTypeOK ==
  /\ mutex \in 0..1 /\ writer \in 0..1 /\ reader_count \in Nat
  /\ pc \in [Processes -> UserPCs \cup ClockPCs]
  /\ pc[Clock] \in ClockPCs /\ \A u \in Users : pc[u] \in UserPCs
  /\ calendar \in [Cells -> Nat]
  /\ wish \in [Users -> [time : Minutes, duration : 1..MINUTES_IN_DAY]]
  /\ best \in [Users -> Minutes] /\ next \in [Users -> 0..MINUTES_IN_DAY]
  /\ loaded \in [Users -> Nat]
  /\ day \in 0..SIM_DURATION

(* No booking is lost and none of an earlier day remains: what the calendar  *)
(* says of a minute is how many users have booked it today, however their    *)
(* searches and bookings interleave (calendar.c:101-106, clock_main.c).      *)
Booked(u, m) == m \in best[u]..best[u] + next[u] - 1
BookingsCounted ==
  pc[Clock] = "day" =>
    \A m \in Minutes : calendar[m] = Cardinality({u \in Users : Booked(u, m)})

(* The minute a user is given is, in the calendar it has read, the least     *)
(* crowded of those around the wished one where its services end before the  *)
(* day does; among them the nearest to the wished one, then the earliest;    *)
(* the wished one itself when there is none (README.md:71).                  *)
Fitting(requested, duration) ==
  {m \in requested - WINDOW..requested + WINDOW : m >= 0 /\ m + duration < MINUTES_IN_DAY}
IsBest(cal, requested, duration, b) ==
  IF Fitting(requested, duration) = {} THEN b = requested
  ELSE /\ b \in Fitting(requested, duration)
       /\ \A m \in Fitting(requested, duration) :
            \/ Crowd(cal, b, duration) < Crowd(cal, m, duration)
            \/ /\ Crowd(cal, b, duration) = Crowd(cal, m, duration)
               /\ \/ Abs(requested - b) < Abs(requested - m)
                  \/ Abs(requested - b) = Abs(requested - m) /\ b <= m
GivesTheBestTime ==
  [][\A u \in Users : pc[u] = "reading" /\ pc'[u] # "reading" =>
       IsBest(calendar, wish[u].time, wish[u].duration, best'[u])]_vars
=============================================================================
