------------------------------- MODULE Setup -------------------------------
(***************************************************************************)
(* The System V objects of the simulation over several of its runs: how    *)
(* every process computes the keys (ftok_key.c), how the manager creates   *)
(* the semaphores, the segments and the queues (sem_init, shm_init,        *)
(* msg_init), how its children open them (sem_config, shm_config,          *)
(* msg_config), and how the manager removes them when every child is gone  *)
(* (sem_deallocate, shm_deallocate, msg_deallocate).                       *)
(*                                                                         *)
(* These objects outlive the processes.  A run may be interrupted at any   *)
(* moment; what it leaves is found by the next one, which takes existing   *)
(* objects as they are (IPC_CREAT without IPC_EXCL).                       *)
(*                                                                         *)
(* A name is a pair of the source's name and a number, 0 where there is    *)
(* only one object; numbers of workers, users and services start from 1.   *)
(***************************************************************************)
EXTENDS Integers, SequencesExt

CONSTANTS
  Configs,    \* what config.conf may say: [workers, users, extra, seats]
  SERV_NUM,
  Stamps,     \* what ftok takes of each of the paths: device and inode
  RootStamp,  \* the same of "/", where the timers' keys come from
  ID_VALUES,  \* ftok takes the low 8 bits of its second argument: 256
  MaxRuns, MaxCrashes \* bounds: how often the program is started and interrupted

ASSUME SetupAssumption ==
  /\ Configs \subseteq [workers : Nat, users : Nat, extra : Nat, seats : Nat]
  /\ SERV_NUM \in Nat \ {0, 1}  \* the index of the seats has SERV_NUM - 1 entries, and an
                                \* empty segment is refused (the code's SERV_NUM is 6)
  /\ ID_VALUES \in Nat \ {0} /\ MaxRuns \in Nat /\ MaxCrashes \in Nat
  /\ Stamps \in Seq(0..255) /\ RootStamp \in 0..255
  /\ RootStamp \notin Range(Stamps)  \* the program is not started from "/"

VARIABLES
  objects,   \* the objects of the machine: <<kind, key>> -> [n, own]; own: it holds
             \* nothing but what this run has put there
  asked,     \* the value of SEM_ADD_USERS
  phase,     \* what the manager is doing
  pos,       \* the object it creates or removes next
  config,    \* the configuration of the run
  users,     \* NOF_USERS of the manager
  added,     \* user_added
  args,      \* the arguments each worker is started with
  seatIndex, seatUnits, \* SHM_SEATS_INDEX and the values of SEM_SEATS
  up, gone,  \* children that have done their setup, that have exited
  ended,     \* history: how the last run ended
  dirty,     \* history: configurations of runs that did not end well,
             \* until one with the same configuration does
  runs, crashes \* how often the program has been started, and interrupted

vars == <<objects, asked, phase, pos, config, users, added, args, seatIndex,
          seatUnits, up, gone, ended, dirty, runs, crashes>>

(* The function f, with x mapped to v.                                       *)
With(f, x, v) == [y \in DOMAIN f \cup {x} |-> IF y = x THEN v ELSE f[y]]

(* An add_users process has not read config.conf: its counters are zero.     *)
NoConfig == [workers |-> 0, users |-> 0, extra |-> 0, seats |-> 0]

----------------------------------------------------------------------------
(* The keys (ftok_key.c).                                                    *)

Single(names) == [i \in DOMAIN names |-> <<names[i], 0>>]
Many(name, n) == [i \in 1..n |-> <<name, i>>]

SEM_KEYS == Single(<<"START", "SEATS", "SHM_SEATS_INFO", "DAY_STARTED", "PROC_READY",
  "NOTIFY_WORKER", "DAY_END", "NOTIFY_DISPENSER", "NOTIFY_USER", "NOTIFY_CLOCK",
  "ADD_USERS", "CLOCK_ADD_USERS", "PROC_CAN_DIE", "ALL_PROC_STOP", "STOP_SIM_EXPLODE">>)
SEMRP_KEYS == Single(<<"CALENDAR_mutex", "CALENDAR_reader_count", "CALENDAR_writer",
  "MIN_COUNT_mutex", "MIN_COUNT_reader_count", "MIN_COUNT_writer">>)
SEMWP_KEYS == Single(<<"SEATS_INFO_mutex", "SEATS_INFO_ar_count", "SEATS_INFO_wr_count",
  "SEATS_INFO_aw_count", "SEATS_INFO_ww_count", "SEATS_INFO_ok_read", "SEATS_INFO_ok_write">>)
SHM_KEYS == Single(<<"SHM_SEATS_INDEX", "SHM_SEATS_INFO_SEG", "SHM_WORKERS_PID",
  "SHM_TICKET_DISPENSER_PID", "SHM_CALENDAR">>)
MSG_KEYS(c) == Many("MSG_WORKER", c.workers) \o Many("MSG_USER", c.users + c.extra) \o
  Single(<<"MSG_DISPENSER", "MSG_CLOCK", "MSG_STATS_DATA", "MSG_STATS_METADATA">>)

KeyNames(c) == SEM_KEYS \o SEMRP_KEYS \o SEMWP_KEYS \o SHM_KEYS \o MSG_KEYS(c)

(* The key ftok makes: the identifier above, the stamp of the path below.    *)
Ftok(stamp, id) == (id % ID_VALUES) * 256 + stamp
(* The keys generate_key tries, from path to path, without those it has.     *)
CANDIDATES == Len(Stamps) * (ID_VALUES - 1)
Candidate(k) == Ftok(Stamps[1 + k \div (ID_VALUES - 1)], 1 + (k % (ID_VALUES - 1)))

Mutant_CheckExistKey(keys, new) ==
  LET search[bounds \in (1..Len(keys) + 1) \X (0..Len(keys))] ==
        LET left == bounds[1]
            right == bounds[2]
            center == left + (right - left) \div 2
        IN IF left >= right THEN [found |-> FALSE, pos |-> left]
           ELSE IF keys[center] = new THEN [found |-> TRUE, pos |-> center]
           ELSE IF keys[center] < new THEN search[<<center + 1, right>>]
           ELSE search[<<left, center - 1>>]
  IN search[<<1, Len(keys)>>]
CheckExistKey(keys, new) ==
  LET search[bounds \in (1..Len(keys) + 1) \X (0..Len(keys))] ==
        LET left == bounds[1]
            right == bounds[2]
            center == left + (right - left) \div 2
        IN IF left > right THEN [found |-> FALSE, pos |-> left]
           ELSE IF keys[center] = new THEN [found |-> TRUE, pos |-> center]
           ELSE IF keys[center] < new THEN search[<<center + 1, right>>]
           ELSE search[<<left, center - 1>>]
  IN search[<<1, Len(keys)>>]

GenerateKey(g, name) ==
  LET untried == {k \in g.next..CANDIDATES - 1 : ~CheckExistKey(g.keys, Candidate(k)).found}
      k   == Min(untried)
      key == Candidate(k)
  IN IF g.exhausted \/ untried = {} THEN [g EXCEPT !.exhausted = TRUE]
     ELSE [next |-> k + 1,
           keys |-> InsertAt(g.keys, CheckExistKey(g.keys, key).pos, key),
           of |-> With(g.of, name, key),
           exhausted |-> FALSE]

FtokKeyInit(c) ==
  LET g[i \in 0..Len(KeyNames(c))] ==
        IF i = 0 THEN [next |-> 0, keys |-> <<>>, exhausted |-> FALSE,
                       of |-> [n \in {<<"SHM_MIN_COUNT", 0>>} |-> -1]]
        ELSE GenerateKey(g[i - 1], KeyNames(c)[i])
  IN g[Len(KeyNames(c))]
KeyTables == [c \in Configs \cup {NoConfig} |-> FtokKeyInit(c)]

Exhausted(c) == KeyTables[c].exhausted
Handle(c, o) == <<o.kind, KeyTables[c].of[o.name]>>
Timer(w)     == <<"sem", Ftok(RootStamp, 333 + w - 1)>>

----------------------------------------------------------------------------
(* The objects in the order of their creation.  reset: the creator gives     *)
(* them their first values even when they exist.  n: the semaphores of a     *)
(* set, the entries of a segment.                                            *)

Sems(names)        == [i \in DOMAIN names |->
  [kind |-> "sem", name |-> names[i], n |-> 1, reset |-> TRUE]]
Sem(name, n, reset) == <<[kind |-> "sem", name |-> <<name, 0>>, n |-> n, reset |-> reset]>>
Shm(name, n, reset) == <<[kind |-> "shm", name |-> <<name, 0>>, n |-> n, reset |-> reset]>>
Msg(names) == [i \in DOMAIN names |->
  [kind |-> "msg", name |-> names[i], n |-> 1, reset |-> FALSE]]
WithWorkers(c, seq) == IF c.workers < 1 THEN <<>> ELSE seq

SemInit(c) ==
  Sem("START", 1, FALSE) \o Sem("SEATS", SERV_NUM, FALSE) \o
  Sems(Single(<<"SHM_SEATS_INFO", "DAY_STARTED", "DAY_END", "PROC_READY">>)) \o
  WithWorkers(c, Sem("NOTIFY_WORKER", c.workers, TRUE)) \o
  Sem("NOTIFY_DISPENSER", 1, TRUE) \o Sem("NOTIFY_USER", c.users + c.extra, TRUE) \o
  Sems(Single(<<"ADD_USERS", "CLOCK_ADD_USERS", "PROC_CAN_DIE", "STOP_SIM_EXPLODE">>)) \o
  Sems(SEMRP_KEYS) \o Sems(SEMWP_KEYS)

ShmInit(c) ==
  Shm("SHM_SEATS_INFO_SEG", c.seats, TRUE) \o Shm("SHM_SEATS_INDEX", SERV_NUM - 1, TRUE) \o
  WithWorkers(c, Shm("SHM_WORKERS_PID", c.workers, TRUE)) \o
  Shm("SHM_TICKET_DISPENSER_PID", 1, FALSE) \o
  Shm("SHM_CALENDAR", 60 * 8, TRUE) \o Shm("SHM_MIN_COUNT", 1, TRUE)

MsgInit(c) ==
  Msg(Many("MSG_WORKER", c.workers)) \o Msg(Single(<<"MSG_DISPENSER">>)) \o
  Msg(Many("MSG_USER", c.users + c.extra)) \o
  Msg(Single(<<"MSG_CLOCK", "MSG_STATS_DATA", "MSG_STATS_METADATA">>))

Created(c) == SemInit(c) \o ShmInit(c) \o MsgInit(c)
Handles(c) == IF Exhausted(c) THEN {} ELSE {Handle(c, o) : o \in Range(Created(c))}
Timers(c)  == {Timer(w) : w \in 1..c.workers}

(* The order of removal, as kinds and names; objects that were not created   *)
(* are removed too, with the identifier -1.                                  *)
Removed(kind, names) == [i \in DOMAIN names |-> [kind |-> kind, name |-> names[i]]]
SemDeallocate == Removed("sem", Single(<<"START", "SEATS", "SHM_SEATS_INFO", "DAY_STARTED",
  "DAY_END", "PROC_READY", "NOTIFY_WORKER", "NOTIFY_DISPENSER", "NOTIFY_USER", "ADD_USERS",
  "CLOCK_ADD_USERS", "PROC_CAN_DIE", "STOP_SIM_EXPLODE">>) \o SEMRP_KEYS \o SEMWP_KEYS)
ShmDeallocate == Removed("shm", Single(<<"SHM_SEATS_INFO_SEG", "SHM_SEATS_INDEX",
  "SHM_WORKERS_PID", "SHM_TICKET_DISPENSER_PID", "SHM_MIN_COUNT", "SHM_CALENDAR">>))
UserQueues(first, last) == [i \in 1..last - first + 1 |-> <<"MSG_USER", first + i - 1>>]
Mutant_MsgDeallocate(c, nusers, hasAdded) == Removed("msg",
  Many("MSG_WORKER", c.workers) \o Single(<<"MSG_DISPENSER">>) \o UserQueues(1, nusers) \o
  Single(<<"MSG_CLOCK", "MSG_STATS_DATA", "MSG_STATS_METADATA">>))
MsgDeallocate(c, nusers, hasAdded) == Removed("msg",
  Many("MSG_WORKER", c.workers) \o Single(<<"MSG_DISPENSER">>) \o UserQueues(1, nusers) \o
  (IF hasAdded THEN <<>> ELSE UserQueues(nusers + 1, nusers + c.extra)) \o
  Single(<<"MSG_CLOCK", "MSG_STATS_DATA", "MSG_STATS_METADATA">>))
Removals(c, nusers, hasAdded) == SemDeallocate \o ShmDeallocate \o MsgDeallocate(c, nusers, hasAdded)

----------------------------------------------------------------------------
(* The seats and the workers of each service (utils_assign_count_array,      *)
(* seats_init_resources, init_workers).                                      *)

Mutant_AssignCount(size, count) ==
  LET least == count \div size IN
  [i \in 1..size |-> IF i < count - least * size THEN least + 1 ELSE least]
AssignCount(size, count) ==
  LET least == count \div size IN
  [i \in 1..size |-> IF i <= count - least * size THEN least + 1 ELSE least]

(* What the services before the i-th have together.                          *)
Before(assigned, i) ==
  LET sum[j \in 0..i - 1] == IF j = 0 THEN 0 ELSE sum[j - 1] + assigned[j]
  IN sum[i - 1]
SeatsInitResources(assigned) ==
  /\ seatIndex' = [i \in 1..SERV_NUM - 1 |-> Before(assigned, i + 1)]
  /\ seatUnits' = assigned
(* get_bounds_serv: the entries of the table that belong to a service.       *)
BoundsServ(s) ==
  (IF s = 1 THEN 0 ELSE seatIndex[s - 1])..
  ((IF s = SERV_NUM THEN config.seats ELSE seatIndex[s]) - 1)

WorkerArgs(assigned) ==
  [w \in 1..Before(assigned, SERV_NUM + 1) |->
    LET s == CHOOSE t \in 1..SERV_NUM :
               w \in Before(assigned, t) + 1..Before(assigned, t + 1)
    IN [service |-> s, bounds |-> Before(assigned, s) + 1..Before(assigned, s + 1)]]

----------------------------------------------------------------------------
ADD_USERS(c) == <<"sem", KeyTables[c].of[<<"ADD_USERS", 0>>]>>
Workers  == {<<"worker", w>> : w \in DOMAIN args}
Children == Workers \cup {<<"user", u>> : u \in 1..users} \cup {<<"clock", 0>>, <<"dispenser", 0>>}

Init ==
  /\ objects = <<>> /\ asked = FALSE
  /\ phase = "off" /\ pos = 1 /\ config = NoConfig
  /\ users = 0 /\ added = FALSE /\ args = <<>>
  /\ seatIndex = <<>> /\ seatUnits = <<>>
  /\ up = {} /\ gone = {}
  /\ ended = "none" /\ dirty = {} /\ runs = 0 /\ crashes = 0

(* log_fatal and exit of the manager: nothing is removed.                    *)
Fatal(c) == phase' = "off" /\ ended' = "fatal" /\ dirty' = dirty \cup {c}

Start(c) ==
  /\ phase = "off" /\ runs < MaxRuns
  /\ config' = c /\ users' = c.users /\ added' = FALSE /\ pos' = 1 /\ runs' = runs + 1
  /\ args' = <<>> /\ seatIndex' = <<>> /\ seatUnits' = <<>> /\ up' = {} /\ gone' = {}
  /\ objects' = [h \in DOMAIN objects |-> [objects[h] EXCEPT !.own = FALSE]]
  /\ IF Exhausted(c) THEN Fatal(c) ELSE phase' = "init" /\ UNCHANGED <<ended, dirty>>
  /\ UNCHANGED <<asked, crashes>>

(* semget, shmget or msgget with IPC_CREAT, then the first values: refused   *)
(* when the object exists and is smaller, or would be created empty.         *)
Mutant_Refused(h, n) == h \in DOMAIN objects \/ n = 0
Refused(h, n) == IF h \in DOMAIN objects THEN objects[h].n < n ELSE n = 0
Get(h, n, reset) ==
  With(objects, h, IF h \in DOMAIN objects
                   THEN [n |-> objects[h].n, own |-> objects[h].own \/ reset]
                   ELSE [n |-> n, own |-> TRUE])
Mutant_CreateObject ==
  /\ phase = "init" /\ pos <= Len(Created(config))
  /\ LET o == Created(config)[pos]
         h == Handle(config, o)
     IN IF Refused(h, o.n) THEN Fatal(config) /\ UNCHANGED <<objects, asked, pos>>
        ELSE /\ objects' = Get(h, o.n, o.kind = "shm")
             /\ asked' = (asked /\ h # ADD_USERS(config))
             /\ pos' = pos + 1
             /\ UNCHANGED <<phase, ended, dirty>>
  /\ UNCHANGED <<config, users, added, args, seatIndex, seatUnits, up, gone, runs, crashes>>
CreateObject ==
  /\ phase = "init" /\ pos <= Len(Created(config))
  /\ LET o == Created(config)[pos]
         h == Handle(config, o)
     IN IF Refused(h, o.n) THEN Fatal(config) /\ UNCHANGED <<objects, asked, pos>>
        ELSE /\ objects' = Get(h, o.n, o.reset)
             /\ asked' = (asked /\ h # ADD_USERS(config))
             /\ pos' = pos + 1
             /\ UNCHANGED <<phase, ended, dirty>>
  /\ UNCHANGED <<config, users, added, args, seatIndex, seatUnits, up, gone, runs, crashes>>

(* The rest of setup(): the seats are shared out and the children forked.    *)
InitProcesses ==
  /\ phase = "init" /\ pos > Len(Created(config))
  /\ SeatsInitResources(AssignCount(SERV_NUM, config.seats))
  /\ args' = IF config.workers < 1 THEN <<>> ELSE WorkerArgs(AssignCount(SERV_NUM, config.workers))
  /\ phase' = "run"
  /\ UNCHANGED <<objects, asked, pos, config, users, added, up, gone, ended, dirty, runs, crashes>>

(* setup() of a child: it computes the keys again and opens every object;    *)
(* a worker makes the semaphore of its timer as well.                        *)
Opens(c) == \A o \in Range(Created(c)) :
  Handle(c, o) \in DOMAIN objects /\ objects[Handle(c, o)].n >= o.n
ChildSetup(p) ==
  /\ phase = "run" /\ p \in Children \ up
  /\ Opens(config)
  /\ up' = up \cup {p}
  /\ objects' = IF p \in Workers THEN Get(Timer(p[2]), 1, FALSE) ELSE objects
  /\ UNCHANGED <<asked, phase, pos, config, users, added, args, seatIndex, seatUnits, gone,
                 ended, dirty, runs, crashes>>

(* add_users, a program of its own: it reads no configuration, and counts up *)
(* the semaphore that has the key of SEM_ADD_USERS by its own reckoning.     *)
AddUsers ==
  LET h == ADD_USERS(NoConfig) IN
  /\ h \in DOMAIN objects /\ ~asked
  /\ IF phase # "off" /\ h = ADD_USERS(config) THEN UNCHANGED objects
     ELSE objects' = [objects EXCEPT ![h].own = FALSE]
  /\ asked' = TRUE
  /\ UNCHANGED <<phase, pos, config, users, added, args, seatIndex, seatUnits, up, gone,
                 ended, dirty, runs, crashes>>

(* start() of a day finds the request; it is served once (the second time is *)
(* in DayBarrier).                                                           *)
InitNewUsers ==
  /\ phase = "run" /\ Children \subseteq up /\ asked /\ ~added
  /\ users' = users + config.extra /\ added' = TRUE /\ asked' = FALSE
  /\ UNCHANGED <<objects, phase, pos, config, args, seatIndex, seatUnits, up, gone, ended, dirty, runs, crashes>>

(* The queues are not emptied by msg_init: one that this run has not created *)
(* may hold mail of an interrupted one.                                      *)
HasLeftovers(name) ==
  LET h == Handle(config, [kind |-> "msg", name |-> <<name, 0>>])
  IN h \in DOMAIN objects /\ ~objects[h].own

(* The clock has received as many requests as it expects and finds others:   *)
(* it stops, and the manager waits for it until the run is interrupted.      *)
ClockStops ==
  /\ phase = "run" /\ <<"clock", 0>> \in up
  /\ HasLeftovers("MSG_CLOCK")
  /\ gone' = gone \cup {<<"clock", 0>>}
  /\ UNCHANGED <<objects, asked, phase, pos, config, users, added, args, seatIndex, seatUnits, up,
                 ended, dirty, runs, crashes>>

(* An announcement without its report, or a report of an earlier run in its  *)
(* place, larger than announced: msgrcv fails and the manager gives up.  The *)
(* children it leaves are gone before the program is started again.          *)
GetStatsFails ==
  /\ phase = "run" /\ Children \subseteq up
  /\ HasLeftovers("MSG_STATS_METADATA") \/ HasLeftovers("MSG_STATS_DATA")
  /\ Fatal(config)
  /\ UNCHANGED <<objects, asked, pos, config, users, added, args, seatIndex, seatUnits, up, gone,
                 runs, crashes>>

Mutant_Stop ==
  /\ phase = "run" /\ gone = {}
  /\ phase' = "stop"
  /\ UNCHANGED <<objects, asked, pos, config, users, added, args, seatIndex, seatUnits, up, gone,
                 ended, dirty, runs, crashes>>
(* The last day is over, SEM_PROC_CAN_DIE released: no day passes without    *)
(* the clock.                                                                *)
Stop ==
  /\ phase = "run" /\ Children \subseteq up /\ gone = {}
  /\ phase' = "stop"
  /\ UNCHANGED <<objects, asked, pos, config, users, added, args, seatIndex, seatUnits, up, gone,
                 ended, dirty, runs, crashes>>

(* A child ends; a worker removes the semaphore of its timer.                *)
ChildExit(p) ==
  /\ phase = "stop" /\ p \in Children \ gone
  /\ gone' = gone \cup {p}
  /\ objects' = IF p \in Workers THEN [h \in DOMAIN objects \ {Timer(p[2])} |-> objects[h]]
                ELSE objects
  /\ UNCHANGED <<asked, phase, pos, config, users, added, args, seatIndex, seatUnits, up,
                 ended, dirty, runs, crashes>>

(* waitpid has returned for every child. *)
Deallocate ==
  /\ phase = "stop" /\ gone = Children
  /\ phase' = "remove" /\ pos' = 1
  /\ UNCHANGED <<objects, asked, config, users, added, args, seatIndex, seatUnits, up, gone,
                 ended, dirty, runs, crashes>>

(* IPC_RMID: an object that was not created has the identifier -1.           *)
RemoveObject ==
  /\ phase = "remove" /\ pos <= Len(Removals(config, users, added))
  /\ LET r == Removals(config, users, added)[pos]
         h == Handle(config, r)
     IN IF h \notin Handles(config) \cap DOMAIN objects
        THEN Fatal(config) /\ UNCHANGED <<objects, asked, pos>>
        ELSE /\ objects' = [g \in DOMAIN objects \ {h} |-> objects[g]]
             /\ asked' = (asked /\ h # ADD_USERS(config))
             /\ pos' = pos + 1
             /\ UNCHANGED <<phase, ended, dirty>>
  /\ UNCHANGED <<config, users, added, args, seatIndex, seatUnits, up, gone, runs, crashes>>

End ==
  /\ phase = "remove" /\ pos > Len(Removals(config, users, added))
  /\ phase' = "off" /\ ended' = "clean" /\ dirty' = dirty \ {config}
  /\ UNCHANGED <<objects, asked, pos, config, users, added, args, seatIndex, seatUnits, up, gone, runs, crashes>>

(* The simulation is interrupted: all its processes die where they are.      *)
Crash ==
  /\ phase # "off" /\ crashes < MaxCrashes
  /\ phase' = "off" /\ ended' = "crash" /\ dirty' = dirty \cup {config}
  /\ crashes' = crashes + 1
  /\ UNCHANGED <<objects, asked, pos, config, users, added, args, seatIndex, seatUnits, up, gone, runs>>

Next ==
  \/ \E c \in Configs : Start(c)
  \/ CreateObject \/ InitProcesses \/ AddUsers \/ InitNewUsers \/ Stop
  \/ ClockStops \/ GetStatsFails
  \/ \E p \in Children : ChildSetup(p) \/ ChildExit(p)
  \/ Deallocate \/ RemoveObject \/ End \/ Crash
Spec == Init /\ [][Next]_vars

----------------------------------------------------------------------------
(* Every variable has its type: kinds and phases are known, a child is gone  *)
(* only after it was up.                                                     *)
SetupTypeOK ==
  /\ DOMAIN objects \subseteq {"sem", "shm", "msg"} \X Int
  /\ \A h \in DOMAIN objects : objects[h] \in [n : Nat, own : BOOLEAN]
  /\ asked \in BOOLEAN /\ added \in BOOLEAN
  /\ phase \in {"off", "init", "run", "stop", "remove"}
  /\ pos \in Nat \ {0} /\ users \in Nat /\ runs \in 0..MaxRuns /\ crashes \in 0..MaxCrashes
  /\ config \in Configs \cup {NoConfig} /\ dirty \subseteq Configs
  /\ ended \in {"none", "clean", "fatal", "crash"}
  /\ gone \subseteq up /\ up \subseteq Children

(* The keys of a run are different for different objects of a kind, and the  *)
(* one add_users computes for SEM_ADD_USERS without reading the              *)
(* configuration is the one of the run.                                      *)
KeysAgree ==
  phase # "off" =>
    /\ Cardinality(Handles(config)) = Len(Created(config))
    /\ Timers(config) \cap Handles(config) = {}
    /\ ADD_USERS(NoConfig) = ADD_USERS(config)

(* Whatever earlier runs have left, and whatever add_users did meanwhile,    *)
(* the children find the objects the manager resets without anything of an   *)
(* earlier run; and all objects, the queues included, when no earlier run    *)
(* has left anything.                                                        *)
FreshStart ==
  phase = "run" => \A o \in Range(Created(config)) :
    (o.reset \/ dirty = {}) => Handle(config, o) \in DOMAIN objects /\ objects[Handle(config, o)].own

(* An object outlives its run only if that run did not end well, and goes    *)
(* with the next run of the same configuration that does.                    *)
NothingLeft ==
  phase = "off" => DOMAIN objects \subseteq UNION {Handles(c) \cup Timers(c) : c \in dirty}

(* The manager's creations and removals fail with a configuration that cannot *)
(* be served or on objects that another one has left (semget and shmget,      *)
(* EINVAL), never on those an interrupted run of its own has left: they fit.  *)
(* During the days the clock stops and get_stats fails on the mail in any     *)
(* leftovers, those of the same configuration included, and so only if an     *)
(* earlier run did not end well: the others have left no queue.               *)
Servable(c) == c.workers > 0 /\ c.seats > 0 /\ c.users + c.extra > 0 /\ ~Exhausted(c)
FatalOnlyWhen == [][
  /\ phase \in {"init", "remove"} /\ phase' = "off" /\ ended' = "fatal" =>
       ~Servable(config) \/ dirty \ {config} # {}
  /\ phase = "run" /\ phase' = "off" /\ ended' = "fatal" => dirty # {}
  /\ phase = "run" /\ gone' # gone => dirty # {}]_vars

(* Every worker is told the colleagues of its service, and the entries of    *)
(* the table are shared out among the services, as many to each as its       *)
(* semaphore counts and evenly up to one.                                    *)
Staffed ==
  phase = "run" =>
    /\ DOMAIN args = 1..config.workers
    /\ \A w \in DOMAIN args :
         args[w].bounds = {v \in DOMAIN args : args[v].service = args[w].service}
    /\ \A s \in 1..SERV_NUM : Cardinality(BoundsServ(s)) = seatUnits[s]
    /\ UNION {BoundsServ(s) : s \in 1..SERV_NUM} = 0..config.seats - 1
    /\ \A s, t \in 1..SERV_NUM :
         /\ s # t => BoundsServ(s) \cap BoundsServ(t) = {}
         /\ seatUnits[s] <= seatUnits[t] + 1
=============================================================================
