------------------------ MODULE Abstractions_proofs ------------------------
(***************************************************************************)
(* Proofs about the two abstract specifications: the pool of seats, for    *)
(* every crew and every distribution of the seats over the services, and   *)
(* the work days, for every crew.                                          *)
(***************************************************************************)
EXTENDS SeatPool, FiniteSetTheorems, TLAPS

CONSTANT Crew
VARIABLES joined, begun, finished
Days == INSTANCE WorkDays

----------------------------------------------------------------------------
(* The pool of seats.                                                        *)

(* What the theorem asks of the constants; Seats gives them such values. *)
PoolConstants ==
  IsFiniteSet(Workers) /\ ServiceOf \in [Workers -> Services] /\ NofSeats \in [Services -> Nat]

PoolInv == holding \subseteq Workers /\ NeverOverbooked

(* A worker is admitted to a service with a free seat only, so no service    *)
(* ever has more workers at work than seats.                                 *)
THEOREM SeatPoolNeverOverbooked ==
  ASSUME PoolConstants
  PROVE  Spec => []NeverOverbooked
<1> USE DEF PoolConstants
<1>1. Init => PoolInv
  BY PoolConstants, FS_EmptySet DEF Init, PoolInv, NeverOverbooked, Holders
<1>2. PoolInv /\ [Next]_vars => PoolInv'
  <2> SUFFICES ASSUME PoolInv, [Next]_vars PROVE PoolInv'
    OBVIOUS
  <2>1. \A s \in Services : IsFiniteSet(Holders(s)) /\ Cardinality(Holders(s)) \in Nat
    BY PoolConstants, FS_Subset, FS_CardinalityType DEF Holders, PoolInv
  <2>2. CASE UNCHANGED vars
    BY <2>2 DEF vars, PoolInv, NeverOverbooked, Holders
  <2>3. ASSUME NEW w \in Workers, Take(w) PROVE PoolInv'
    <3> SUFFICES ASSUME NEW s \in Services PROVE Cardinality(Holders(s)') <= NofSeats[s]
      BY <2>3 DEF PoolInv, NeverOverbooked, Take
    <3>1. CASE ServiceOf[w] = s
      <4>1. Holders(s)' = Holders(s) \cup {w} /\ w \notin Holders(s)
        BY <2>3, <3>1 DEF Take, Holders
      <4>2. Cardinality(Holders(s)') = Cardinality(Holders(s)) + 1
        BY <2>1, <4>1, FS_AddElement
      <4>3. Cardinality(Holders(s)) # NofSeats[s]
        BY <2>3, <3>1 DEF Take, Full
      <4> QED BY <2>1, <4>2, <4>3, PoolConstants DEF PoolInv, NeverOverbooked
    <3>2. CASE ServiceOf[w] # s
      <4>1. Holders(s)' = Holders(s)
        BY <2>3, <3>2 DEF Take, Holders
      <4> QED BY <4>1 DEF PoolInv, NeverOverbooked
    <3> QED BY <3>1, <3>2
  <2>4. ASSUME NEW w \in Workers, Refuse(w) PROVE PoolInv'
    BY <2>4 DEF Refuse, PoolInv, NeverOverbooked, Holders
  <2>5. ASSUME NEW w \in Workers, Leave(w) PROVE PoolInv'
    <3> SUFFICES ASSUME NEW s \in Services PROVE Cardinality(Holders(s)') <= NofSeats[s]
      BY <2>5 DEF PoolInv, NeverOverbooked, Leave
    <3>1. Holders(s)' \in SUBSET Holders(s)
      BY <2>5 DEF Leave, Holders
    <3>2. Cardinality(Holders(s)') <= Cardinality(Holders(s)) /\ Cardinality(Holders(s)') \in Nat
      BY <2>1, <3>1, FS_Subset, FS_CardinalityType
    <3> QED BY <2>1, <3>2, PoolConstants DEF PoolInv, NeverOverbooked
  <2> QED BY <2>2, <2>3, <2>4, <2>5 DEF Next
<1>3. PoolInv => NeverOverbooked
  BY DEF PoolInv
<1> QED BY <1>1, <1>2, <1>3, PTL DEF Spec

----------------------------------------------------------------------------
(* Nobody is more than one day ahead of anybody. *)
DaysInv ==
  /\ Days!TypeOK
  /\ \A p \in joined : begun[p] \in {finished[p], finished[p] + 1}
  /\ \A p, q \in joined : begun[p] <= finished[q] + 1

(* The invariant is inductive: a member begins a day only when everybody has *)
(* finished the one before, and newcomers join level with the others.        *)
THEOREM WorkDaysInv == Days!Spec => []DaysInv
<1>1. Days!Init => DaysInv
  BY DEF Days!Init, DaysInv, Days!TypeOK
<1>2. DaysInv /\ [Days!Next]_Days!vars => DaysInv'
  <2> SUFFICES ASSUME DaysInv, [Days!Next]_Days!vars PROVE DaysInv'
    OBVIOUS
  <2> USE DEF DaysInv, Days!TypeOK
  <2>1. ASSUME NEW p \in joined, Days!Begin(p) PROVE DaysInv'
    BY <2>1 DEF Days!Begin
  <2>2. ASSUME NEW p \in joined, Days!Finish(p) PROVE DaysInv'
    BY <2>2 DEF Days!Finish
  <2>3. ASSUME NEW newcomers \in SUBSET (Crew \ joined),
               NEW d \in {begun[q] : q \in joined}, Days!Join(newcomers, d)
        PROVE DaysInv'
    <3>1. d \in Nat
      OBVIOUS
    <3> QED BY <2>3, <3>1 DEF Days!Join
  <2>4. CASE UNCHANGED Days!vars
    BY <2>4 DEF Days!vars
  <2> QED BY <2>1, <2>2, <2>3, <2>4 DEF Days!Next
<1> QED BY <1>1, <1>2, PTL DEF Days!Spec

(* Two members at work are at work on the same day. *)
THEOREM WorkDaysSameDay == Days!Spec => []Days!SameDay
<1>1. DaysInv => Days!SameDay
  BY DEF DaysInv, Days!TypeOK, Days!SameDay, Days!AtWork
<1> QED BY <1>1, WorkDaysInv, PTL
=============================================================================
