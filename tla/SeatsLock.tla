----------------------------- MODULE SeatsLock -----------------------------
(***************************************************************************)
(* The readers-writers lock with priority to the writers that guards the   *)
(* table of seats (lock_reader_WP, release_reader_WP, lock_writer_WP and   *)
(* release_writer_WP of sem_utils.c), one semaphore operation per step.    *)
(*                                                                         *)
(* The counters of active and waiting readers and writers are semaphores   *)
(* too: ar, aw, wr, ww.  A process holds the lock as a writer from the     *)
(* moment it takes an ok_write token until it decrements aw, as a reader   *)
(* from its ok_read token until it decrements ar.                          *)
(***************************************************************************)
EXTENDS Naturals, FiniteSets

CONSTANTS
  Writers,   \* the workers
  Readers,   \* the ticket dispenser is the only reader of the program
  MaxUses    \* bound: how often each process takes the lock

ASSUME LockersAssumption ==
  IsFiniteSet(Writers) /\ IsFiniteSet(Readers) /\ Writers \cap Readers = {}
ASSUME UsesAssumption == MaxUses \in Nat

VARIABLES
  lk,    \* the seven semaphores of SEMWP_SEATS_INFO_ID
  pc,    \* the next semaphore operation of each process
  uses   \* how often each process has taken the lock

lockVars == <<lk, pc, uses>>

Lockers == Writers \cup Readers
Sems == {"mutex", "ok_read", "ok_write", "ar", "aw", "wr", "ww"}

(* Operations by prefix: lr = lock_reader, rr = release_reader,              *)
(* lw = lock_writer, rw = release_writer.                                    *)
ReaderPCs == {"lr_mutex", "lr_test", "lr_wr", "lr_ok_read", "lr_ar", "lr_release",
              "lr_enter", "reading", "rr_mutex", "rr_leave", "rr_test",
              "rr_ok_write", "rr_aw", "rr_ww", "rr_release"}
WriterPCs == {"lw_mutex", "lw_test", "lw_ww", "lw_ok_write", "lw_aw", "lw_release",
              "lw_enter", "writing", "rw_mutex", "rw_leave", "rw_test",
              "rw_ok_write", "rw_aw", "rw_ww", "rw_ok_read", "rw_ar", "rw_wr",
              "rw_release"}

LockTypeOK ==
  /\ lk \in [Sems -> Nat]
  /\ pc \in [Lockers -> {"idle"} \cup ReaderPCs \cup WriterPCs]
  /\ \A p \in Writers : pc[p] \notin ReaderPCs
  /\ \A p \in Readers : pc[p] \notin WriterPCs
  /\ uses \in [Lockers -> 0..MaxUses]

LockInit ==
  /\ lk = [s \in Sems |-> IF s = "mutex" THEN 1 ELSE 0]
  /\ pc = [p \in Lockers |-> "idle"]
  /\ uses = [p \in Lockers |-> 0]

----------------------------------------------------------------------------
(* Mutants are plausible mistakes in the definition that follows; the        *)
(* specification does not use them.                                          *)
Mutant_P(s) == lk' = [lk EXCEPT ![s] = @ - 1]
P(s) == lk[s] > 0 /\ lk' = [lk EXCEPT ![s] = @ - 1]   \* lock_sem
V(s) == lk' = [lk EXCEPT ![s] = @ + 1]                \* release_sem
Step(p, from, to) == pc[p] = from /\ pc' = [pc EXCEPT ![p] = to] /\ UNCHANGED uses
Test(p, from, to) == Step(p, from, to) /\ UNCHANGED lk

lock_reader_WP(p) ==
  \/ Step(p, "lr_mutex", "lr_test") /\ P("mutex")
  \/ Test(p, "lr_test", IF lk["aw"] + lk["ww"] > 0 THEN "lr_wr" ELSE "lr_ok_read")
  \/ Step(p, "lr_wr", "lr_release") /\ V("wr")
  \/ Step(p, "lr_ok_read", "lr_ar") /\ V("ok_read")
  \/ Step(p, "lr_ar", "lr_release") /\ V("ar")
  \/ Step(p, "lr_release", "lr_enter") /\ V("mutex")
  \/ Step(p, "lr_enter", "reading") /\ P("ok_read")

Mutant_release_reader_WP(p) ==   \* forgets the waiting writers
  \/ Step(p, "rr_mutex", "rr_leave") /\ P("mutex")
  \/ Step(p, "rr_leave", "rr_release") /\ P("ar")
  \/ Step(p, "rr_release", "idle") /\ V("mutex")
release_reader_WP(p) ==
  \/ Step(p, "rr_mutex", "rr_leave") /\ P("mutex")
  \/ Step(p, "rr_leave", "rr_test") /\ P("ar")
  \/ Test(p, "rr_test", IF lk["ar"] = 0 /\ lk["ww"] > 0 THEN "rr_ok_write" ELSE "rr_release")
  \/ Step(p, "rr_ok_write", "rr_aw") /\ V("ok_write")
  \/ Step(p, "rr_aw", "rr_ww") /\ V("aw")
  \/ Step(p, "rr_ww", "rr_release") /\ P("ww")
  \/ Step(p, "rr_release", "idle") /\ V("mutex")

Mutant_lock_writer_WP(p) ==   \* looks at the active writers only
  \/ Step(p, "lw_mutex", "lw_test") /\ P("mutex")
  \/ Test(p, "lw_test", IF lk["aw"] > 0 THEN "lw_ww" ELSE "lw_ok_write")
  \/ Step(p, "lw_ww", "lw_release") /\ V("ww")
  \/ Step(p, "lw_ok_write", "lw_aw") /\ V("ok_write")
  \/ Step(p, "lw_aw", "lw_release") /\ V("aw")
  \/ Step(p, "lw_release", "lw_enter") /\ V("mutex")
  \/ Step(p, "lw_enter", "writing") /\ P("ok_write")
lock_writer_WP(p) ==
  \/ Step(p, "lw_mutex", "lw_test") /\ P("mutex")
  \/ Test(p, "lw_test", IF lk["ar"] + lk["aw"] > 0 THEN "lw_ww" ELSE "lw_ok_write")
  \/ Step(p, "lw_ww", "lw_release") /\ V("ww")
  \/ Step(p, "lw_ok_write", "lw_aw") /\ V("ok_write")
  \/ Step(p, "lw_aw", "lw_release") /\ V("aw")
  \/ Step(p, "lw_release", "lw_enter") /\ V("mutex")
  \/ Step(p, "lw_enter", "writing") /\ P("ok_write")

Mutant_release_writer_WP(p) ==   \* does not count the writer it wakes as active
  \/ Step(p, "rw_mutex", "rw_leave") /\ P("mutex")
  \/ Step(p, "rw_leave", "rw_test") /\ P("aw")
  \/ Test(p, "rw_test", IF lk["ww"] > 0 THEN "rw_ok_write" ELSE "rw_release")
  \/ Step(p, "rw_ok_write", "rw_ww") /\ V("ok_write")
  \/ Step(p, "rw_ww", "rw_release") /\ P("ww")
  \/ Step(p, "rw_release", "idle") /\ V("mutex")

(* A leaving writer passes the lock to one waiting writer or, if there is    *)
(* none, to one waiting reader.                                              *)
release_writer_WP(p) ==
  \/ Step(p, "rw_mutex", "rw_leave") /\ P("mutex")
  \/ Step(p, "rw_leave", "rw_test") /\ P("aw")
  \/ Test(p, "rw_test", IF lk["ww"] > 0 THEN "rw_ok_write"
                        ELSE IF lk["wr"] > 0 THEN "rw_ok_read" ELSE "rw_release")
  \/ Step(p, "rw_ok_write", "rw_aw") /\ V("ok_write")
  \/ Step(p, "rw_aw", "rw_ww") /\ V("aw")
  \/ Step(p, "rw_ww", "rw_release") /\ P("ww")
  \/ Step(p, "rw_ok_read", "rw_ar") /\ V("ok_read")
  \/ Step(p, "rw_ar", "rw_wr") /\ V("ar")
  \/ Step(p, "rw_wr", "rw_release") /\ P("wr")
  \/ Step(p, "rw_release", "idle") /\ V("mutex")

LockStep(p) ==
  \/ lock_reader_WP(p) \/ release_reader_WP(p)
  \/ lock_writer_WP(p) \/ release_writer_WP(p)

(* The callers: who takes the lock and who gives it back. *)
Acquire(p) ==
  /\ pc[p] = "idle" /\ uses[p] < MaxUses
  /\ pc' = [pc EXCEPT ![p] = IF p \in Writers THEN "lw_mutex" ELSE "lr_mutex"]
  /\ uses' = [uses EXCEPT ![p] = @ + 1]
  /\ UNCHANGED lk

Release(p) == Test(p, "writing", "rw_mutex") \/ Test(p, "reading", "rr_mutex")

AllDone == (\A p \in Lockers : pc[p] = "idle" /\ uses[p] = MaxUses) /\ UNCHANGED lockVars

LockNext == AllDone \/ \E p \in Lockers : LockStep(p) \/ Acquire(p) \/ Release(p)

(* A process that holds or waits for the lock keeps running; nobody is       *)
(* obliged to ask for it.                                                    *)
LockSpec == LockInit /\ [][LockNext]_lockVars
FairLockSpec ==
  LockSpec /\ \A p \in Lockers : WF_lockVars(LockStep(p)) /\ WF_lockVars(Release(p))

----------------------------------------------------------------------------
(* PROPERTIES *)

At(pcs) == {p \in Lockers : pc[p] \in pcs}
WritingPCs == {"writing", "rw_mutex", "rw_leave"}
ReadingPCs == {"reading", "rr_mutex", "rr_leave"}
Writing == At(WritingPCs)
Reading == At(ReadingPCs)

(* A writer excludes every other writer and every reader.                    *)
MutualExclusion ==
  \A p \in Writing : Writing = {p} /\ Reading = {}

(* Who has given a token away without having counted it yet.                 *)
GrantWritePCs == {"lw_aw", "rr_aw", "rw_aw"}
GrantReadPCs  == {"lr_ar", "rw_ar"}

(* The counters tell the truth: the tokens given out and the processes that  *)
(* used one are exactly the active ones, up to the grant under way.          *)
TokensCounted ==
  /\ lk["ok_write"] + Cardinality(Writing) = lk["aw"] + Cardinality(At(GrantWritePCs))
  /\ lk["ok_read"] + Cardinality(Reading) = lk["ar"] + Cardinality(At(GrantReadPCs))

(* Nobody who asks for the lock waits forever, although release_writer_WP    *)
(* wakes one waiting reader only.                                            *)
EveryLockGranted ==
  \A p \in Lockers : (pc[p] = "lw_mutex" \/ pc[p] = "lr_mutex")
                       ~> (pc[p] = "writing" \/ pc[p] = "reading")
============================================================================
