----------------------------- MODULE WorkDays -----------------------------
(***************************************************************************)
(* What the day protocol promises, without semaphores: the members of a    *)
(* crew work day after day, nobody begins a day before everybody has       *)
(* finished the one before, and newcomers join between two days.           *)
(* DayBarrier implements it.                                               *)
(***************************************************************************)
EXTENDS Naturals

CONSTANT Crew   \* everybody who may ever work

VARIABLES
  joined,   \* who has joined so far
  begun,    \* days each member has begun
  finished  \* days each member has finished

vars == <<joined, begun, finished>>

TypeOK ==
  /\ joined \subseteq Crew
  /\ begun \in [Crew -> Nat]
  /\ finished \in [Crew -> Nat]

Init ==
  /\ joined \in SUBSET Crew
  /\ begun = [p \in Crew |-> 0]
  /\ finished = [p \in Crew |-> 0]

Begin(p) ==
  /\ begun[p] = finished[p]
  /\ \A q \in joined : finished[q] >= begun[p]
  /\ begun' = [begun EXCEPT ![p] = @ + 1]
  /\ UNCHANGED <<joined, finished>>

Finish(p) ==
  /\ begun[p] = finished[p] + 1
  /\ finished' = [finished EXCEPT ![p] = @ + 1]
  /\ UNCHANGED <<joined, begun>>

(* Newcomers start with the day everybody else is about to begin. *)
Join(newcomers, d) ==
  /\ \A q \in joined : begun[q] = d /\ finished[q] = d
  /\ joined' = joined \cup newcomers
  /\ begun' = [p \in Crew |-> IF p \in newcomers THEN d ELSE begun[p]]
  /\ finished' = [p \in Crew |-> IF p \in newcomers THEN d ELSE finished[p]]

Next ==
  \/ \E p \in joined : Begin(p) \/ Finish(p)
  \/ \E newcomers \in SUBSET (Crew \ joined), d \in {begun[q] : q \in joined} : Join(newcomers, d)

Spec == Init /\ [][Next]_vars

(* Two members at work are always at work on the same day: nobody in a      *)
(* core() meets a message of another day's core().                          *)
AtWork(p) == p \in joined /\ begun[p] > finished[p]
SameDay == \A p, q \in Crew : AtWork(p) /\ AtWork(q) => begun[p] = begun[q]
===========================================================================
