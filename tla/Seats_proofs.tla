---------------------------- MODULE Seats_proofs ----------------------------
(* Proofs about the seats, for any number of workers, services and seats:    *)
(* exclusion is inherited from the lock, and semaphore and table agree.      *)
EXTENDS Seats, SeatsLock_proofs

----------------------------------------------------------------------------
(* The seats use the lock as SeatsLock lets its callers use it.              *)

LEMMA SeatsUseTheLock == SeatsSpec => LockSpec
<1>1. SeatsInit => LockInit
  BY DEF SeatsInit
<1>2. [SeatsNext]_allVars => [LockNext]_lockVars
  <2> SUFFICES ASSUME SeatsNext PROVE [LockNext]_lockVars
    BY DEF allVars
  <2>1. CASE NewDay \/ Simulated
    BY <2>1 DEF NewDay, Simulated, allVars
  <2>2. ASSUME NEW w \in Writers, WorkerStep(w) \/ LockSeats(w) PROVE [LockNext]_lockVars
    <3>1. UNCHANGED lockVars \/ Release(w) \/ Acquire(w)
      BY <2>2 DEF WorkerStep, LockSeats, TryTakeSeat, TryTakePausedSeat, ChooseSeat, SignSeat,
         SeatTaken, TakePause, DayEnded, ClearSeat, ReturnUnit, SeatLeft, TellSeatFree
    <3> QED BY <3>1 DEF LockNext, Lockers
  <2>3. ASSUME NEW r \in Readers, DispenserStep(r) PROVE [LockNext]_lockVars
    <3>1. UNCHANGED lockVars \/ Release(r) \/ Acquire(r)
      BY <2>3 DEF DispenserStep, LookForWorker, FindSeat, SeatFound, CopySeat, SendTicketResp,
         DispenserDayEnded
    <3> QED BY <3>1 DEF LockNext, Lockers
  <2>4. ASSUME NEW p \in Lockers, LockOp(p) PROVE [LockNext]_lockVars
    BY <2>4 DEF LockOp, LockNext
  <2> QED BY <2>1, <2>2, <2>3, <2>4 DEF SeatsNext
<1> QED BY <1>1, <1>2, PTL DEF SeatsSpec, LockSpec

(* Writers of the table exclude each other and the dispenser.                *)
THEOREM SeatsExclusion == SeatsSpec => []MutualExclusion
BY SeatsUseTheLock, SeatsLockExclusion, PTL

LEMMA SeatsKeepLockType == SeatsSpec => []LockTypeOK
BY SeatsUseTheLock, SeatsLockType, PTL

(* Nobody changes the table while the dispenser reads it: who changes it is  *)
(* a writer, and a writer excludes the readers.                              *)
THEOREM SeatsTableIsStable == SeatsSpec => TableIsStable
<1>1. MutualExclusion /\ [SeatsNext]_allVars => [Reading # {} => UNCHANGED seats]_allVars
  <2> SUFFICES ASSUME MutualExclusion, SeatsNext, Reading # {} PROVE UNCHANGED seats
    OBVIOUS
  <2>1. \A w \in Writers : pc[w] # "writing"
    BY DEF MutualExclusion, Writing, At, WritingPCs, Lockers
  <2>2. ASSUME NEW w \in Writers, WorkerStep(w) PROVE UNCHANGED seats
    BY <2>1, <2>2 DEF WorkerStep, TryTakeSeat, TryTakePausedSeat, ChooseSeat, SignSeat,
       SeatTaken, TakePause, DayEnded, ClearSeat, ReturnUnit, SeatLeft, TellSeatFree, KeepTable
  <2>3. ASSUME NEW r \in Readers, DispenserStep(r) PROVE UNCHANGED seats
    BY <2>3 DEF DispenserStep, LookForWorker, FindSeat, SeatFound, CopySeat, SendTicketResp,
       DispenserDayEnded, KeepTable
  <2> QED
    BY <2>2, <2>3 DEF SeatsNext, NewDay, Simulated, LockSeats, LockOp, seatVars, allVars
<1> QED BY <1>1, SeatsExclusion, PTL DEF SeatsSpec, TableIsStable

----------------------------------------------------------------------------
(* Semaphore and table agree.                                                *)

(* Where a worker has its entry in the table.                                *)
HeldPlaces == {"sign", "unlock", "seated", "leavePause", "leaveDay"}

Typed ==
  /\ seatSem \in [Services -> Nat]
  /\ seats \in [TableIndices -> Infos]
  /\ at \in [Lockers -> WorkerPlaces \cup ReaderPlaces]
  /\ seatOf \in [Lockers -> TableIndices \cup {NoSeat}]
  /\ late \subseteq Writers
  /\ told \in [Writers -> Nat]
  /\ card \in [Readers -> [msg : Writers \cup {NoWorker}, sem : Writers \cup {NoWorker}]]
  /\ today \in 0..SIM_DURATION

(* A worker's entry is taken, is the worker's alone and names it.            *)
Held ==
  \A w \in Writers : at[w] \in HeldPlaces =>
    /\ seatOf[w] \in SeatsOf[ServiceOf[w]]
    /\ seats[seatOf[w]].taken
    /\ seats[seatOf[w]].msg = w
    /\ at[w] # "sign" => seats[seatOf[w]].sem = w
    /\ \A v \in Writers \ {w} : at[v] \in HeldPlaces => seatOf[v] # seatOf[w]

(* Every taken entry is some worker's.                                       *)
TakenIsHeld ==
  \A i \in TableIndices : seats[i].taken =>
    \E w \in Writers : at[w] \in HeldPlaces /\ seatOf[w] = i

UnitHolders(s) == {w \in Writers : ServiceOf[w] = s /\ at[w] \in UnitPlaces}

(* The units of a service are in the semaphore or with its workers.          *)
Conserved ==
  \A s \in Services : seatSem[s] + Cardinality(UnitHolders(s)) = NofSeats[s]

DispenserFoundIt ==
  \A r \in Readers : at[r] \in {"copyMsg", "copySem"} => seatOf[r] \in TableIndices

NobodyWithoutSeat == \A w \in Writers : at[w] # "noSeat"

SeatsInv ==
  /\ Typed /\ Held /\ TakenIsHeld /\ Conserved
  /\ DispenserFoundIt /\ NobodyWithoutSeat

LEMMA SeatsAreFinite ==
  /\ \A s \in Services : NofSeats[s] \in Nat /\ IsFiniteSet(SeatsOf[s]) /\ SeatsOf[s] \subseteq TableIndices
  /\ \A s \in Services : IsFiniteSet(UnitHolders(s)) /\ Cardinality(UnitHolders(s)) \in Nat
  /\ NoSeat \notin TableIndices
  /\ \A i \in TableIndices : i \in Nat
  /\ \A w \in Writers : ServiceOf[w] \in Services
  /\ Writers \subseteq Lockers /\ Readers \subseteq Lockers /\ Writers \cap Readers = {}
<1>1. \A s \in Services : NofSeats[s] \in Nat /\ IsFiniteSet(SeatsOf[s]) /\ SeatsOf[s] \subseteq TableIndices
  BY ServicesAssumption, FS_CardinalityType DEF NofSeats, TableIndices
<1>2. ASSUME NEW s \in Services PROVE IsFiniteSet(UnitHolders(s)) /\ Cardinality(UnitHolders(s)) \in Nat
  <2>1. UnitHolders(s) \in SUBSET Writers
    BY DEF UnitHolders
  <2> QED BY <2>1, LockersAssumption, FS_Subset, FS_CardinalityType
<1>3. NoSeat \notin TableIndices /\ \A i \in TableIndices : i \in Nat
  BY ServicesAssumption DEF TableIndices, NoSeat
<1> QED BY <1>1, <1>2, <1>3, ServicesAssumption, LockersAssumption DEF Lockers

(* When a worker is about to choose, its service has a seat that is not      *)
(* taken: otherwise every seat had a holder of its own and the worker would  *)
(* hold one unit too many.                                                   *)
LEMMA SomeSeatIsFree ==
  ASSUME SeatsInv, NEW w \in Writers, at[w] = "choose"
  PROVE  \E i \in SeatsOf[ServiceOf[w]] : ~seats[i].taken
<1> DEFINE s == ServiceOf[w]
           Others == UnitHolders(s) \ {w}
           holder == [i \in SeatsOf[s] |-> CHOOSE v \in Others : seatOf[v] = i]
<1>0. s \in Services /\ IsFiniteSet(SeatsOf[s]) /\ IsFiniteSet(UnitHolders(s))
      /\ Cardinality(UnitHolders(s)) \in Nat /\ NofSeats[s] \in Nat
  BY SeatsAreFinite
<1>1. Cardinality(UnitHolders(s)) <= Cardinality(SeatsOf[s])
  BY <1>0 DEF SeatsInv, Conserved, Typed, NofSeats
<1>2. w \in UnitHolders(s)
  BY DEF UnitHolders, UnitPlaces
<1>3. IsFiniteSet(Others) /\ Cardinality(Others) < Cardinality(SeatsOf[s])
  <2>1. IsFiniteSet(Others) /\ Cardinality(Others) = Cardinality(UnitHolders(s)) - 1
    BY <1>0, <1>2, FS_RemoveElement
  <2>2. Cardinality(SeatsOf[s]) \in Nat
    BY <1>0, FS_CardinalityType
  <2> QED BY <1>0, <1>1, <2>1, <2>2
<1>4. SUFFICES ASSUME \A i \in SeatsOf[s] : seats[i].taken PROVE FALSE
  OBVIOUS
<1>5. ASSUME NEW i \in SeatsOf[s] PROVE \E v \in Others : seatOf[v] = i
  <2>1. PICK v \in Writers : at[v] \in HeldPlaces /\ seatOf[v] = i
    BY <1>0, <1>4, SeatsAreFinite DEF SeatsInv, TakenIsHeld
  <2>2. i \in SeatsOf[ServiceOf[v]] /\ ServiceOf[v] \in Services
    BY <2>1, SeatsAreFinite DEF SeatsInv, Held
  <2>3. ServiceOf[v] = s
    BY <1>0, <2>2, ServicesAssumption
  <2>4. at[v] \in UnitPlaces /\ v # w
    BY <2>1 DEF HeldPlaces, UnitPlaces
  <2> QED BY <2>1, <2>3, <2>4 DEF UnitHolders
<1>6. \A i \in SeatsOf[s] : holder[i] \in Others /\ seatOf[holder[i]] = i
  BY <1>5
<1>7. holder \in [SeatsOf[s] -> Others]
  BY <1>6
<1> HIDE DEF holder, Others
<1>8. \E i, j \in SeatsOf[s] : i # j /\ holder[i] = holder[j]
  BY <1>0, <1>3, <1>7, FS_PigeonHole
<1> QED BY <1>6, <1>8

----------------------------------------------------------------------------
(* How the steps change the counts and the places.                           *)

(* Nobody takes or returns a unit.                                           *)
LEMMA SameUnits ==
  ASSUME Conserved, UNCHANGED <<seatSem, today>>,
         \A v \in Writers : at'[v] \in UnitPlaces <=> at[v] \in UnitPlaces
  PROVE  Conserved'
<1>1. \A s \in Services : UnitHolders(s)' = UnitHolders(s)
  BY DEF UnitHolders
<1> QED BY <1>1 DEF Conserved

(* A worker takes a unit of its service.                                     *)
LEMMA UnitTaken ==
  ASSUME Typed, Conserved, UNCHANGED today,
         NEW w \in Writers, seatSem[ServiceOf[w]] > 0,
         at[w] \notin UnitPlaces, at' = [at EXCEPT ![w] = "choose"],
         seatSem' = [seatSem EXCEPT ![ServiceOf[w]] = @ - 1]
  PROVE  Conserved'
<1> SUFFICES ASSUME NEW s \in Services
             PROVE  seatSem'[s] + Cardinality(UnitHolders(s)') = NofSeats[s]
  BY DEF Conserved
<1>1. /\ IsFiniteSet(UnitHolders(s)) /\ Cardinality(UnitHolders(s)) \in Nat
      /\ seatSem[s] + Cardinality(UnitHolders(s)) = NofSeats[s]
      /\ seatSem[s] \in Nat
  BY SeatsAreFinite DEF Conserved, Typed
<1>2. \A v \in Writers : at'[v] = IF v = w THEN "choose" ELSE at[v]
  BY SeatsAreFinite DEF Typed
<1>3. CASE ServiceOf[w] = s
  <2>1. UnitHolders(s)' = UnitHolders(s) \cup {w} /\ w \notin UnitHolders(s)
    BY <1>2, <1>3 DEF UnitHolders, UnitPlaces
  <2>2. Cardinality(UnitHolders(s)') = Cardinality(UnitHolders(s)) + 1
    BY <1>1, <2>1, FS_AddElement
  <2>3. seatSem'[s] = seatSem[s] - 1
    BY <1>3 DEF Typed
  <2> QED BY <1>1, <2>2, <2>3
<1>4. CASE ServiceOf[w] # s
  <2>1. UnitHolders(s)' = UnitHolders(s)
    BY <1>2, <1>4 DEF UnitHolders
  <2>2. seatSem'[s] = seatSem[s]
    BY <1>4, SeatsAreFinite DEF Typed
  <2> QED BY <1>1, <2>1, <2>2
<1> QED BY <1>1, <1>3, <1>4

(* A worker returns its unit.                                                *)
LEMMA UnitReturned ==
  ASSUME Typed, Conserved, UNCHANGED today, NEW w \in Writers, NEW b,
         at[w] \in UnitPlaces, b \notin UnitPlaces, at' = [at EXCEPT ![w] = b],
         seatSem' = [seatSem EXCEPT ![ServiceOf[w]] = @ + 1]
  PROVE  Conserved'
<1> SUFFICES ASSUME NEW s \in Services
             PROVE  seatSem'[s] + Cardinality(UnitHolders(s)') = NofSeats[s]
  BY DEF Conserved
<1>1. /\ IsFiniteSet(UnitHolders(s)) /\ Cardinality(UnitHolders(s)) \in Nat
      /\ seatSem[s] + Cardinality(UnitHolders(s)) = NofSeats[s]
      /\ seatSem[s] \in Nat
  BY SeatsAreFinite DEF Conserved, Typed
<1>2. \A v \in Writers : at'[v] = IF v = w THEN b ELSE at[v]
  BY SeatsAreFinite DEF Typed
<1>3. CASE ServiceOf[w] = s
  <2>1. UnitHolders(s)' = UnitHolders(s) \ {w} /\ w \in UnitHolders(s)
    BY <1>2, <1>3 DEF UnitHolders
  <2>2. Cardinality(UnitHolders(s)') = Cardinality(UnitHolders(s)) - 1
    BY <1>1, <2>1, FS_RemoveElement
  <2>3. seatSem'[s] = seatSem[s] + 1
    BY <1>3 DEF Typed
  <2> QED BY <1>1, <2>2, <2>3
<1>4. CASE ServiceOf[w] # s
  <2>1. UnitHolders(s)' = UnitHolders(s)
    BY <1>2, <1>4 DEF UnitHolders
  <2>2. seatSem'[s] = seatSem[s]
    BY <1>4, SeatsAreFinite DEF Typed
  <2> QED BY <1>1, <2>1, <2>2
<1> QED BY <1>1, <1>3, <1>4

(* A step of a worker that does not touch the table and neither gives nor    *)
(* takes an entry keeps what is known of the entries.                        *)
LEMMA EntriesKept ==
  ASSUME SeatsInv, UNCHANGED seats, NEW w \in Writers, NEW b,
         at' = [at EXCEPT ![w] = b], b \notin {"sign", "noSeat"},
         at[w] \in HeldPlaces <=> b \in HeldPlaces, at[w] # "sign",
         \/ UNCHANGED seatOf
         \/ at[w] \notin HeldPlaces /\ seatOf' = [seatOf EXCEPT ![w] = NoSeat]
  PROVE  Held' /\ TakenIsHeld' /\ DispenserFoundIt' /\ NobodyWithoutSeat'
<1>1. \A v \in Writers : at'[v] = IF v = w THEN b ELSE at[v]
  BY SeatsAreFinite DEF SeatsInv, Typed
<1>2. \A r \in Readers : at'[r] = at[r] /\ seatOf'[r] = seatOf[r]
  BY SeatsAreFinite DEF SeatsInv, Typed
<1>3. \A v \in Writers : at'[v] \in HeldPlaces <=> at[v] \in HeldPlaces
  BY <1>1
<1>4. \A v \in Writers : at[v] \in HeldPlaces => seatOf'[v] = seatOf[v]
  BY SeatsAreFinite DEF SeatsInv, Typed
<1>5. \A v \in Writers : at'[v] \in HeldPlaces /\ at'[v] # "sign" => at[v] # "sign"
  BY <1>1
<1>6. Held'
  BY <1>3, <1>4, <1>5 DEF SeatsInv, Held
<1>7. TakenIsHeld'
  BY <1>3, <1>4 DEF SeatsInv, TakenIsHeld
<1>8. DispenserFoundIt'
  BY <1>2 DEF SeatsInv, DispenserFoundIt
<1>9. NobodyWithoutSeat'
  BY <1>1 DEF SeatsInv, NobodyWithoutSeat
<1> QED BY <1>6, <1>7, <1>8, <1>9

----------------------------------------------------------------------------
(* The invariant is inductive: one step per action.                          *)

LEMMA SeatsInit_Inv == SeatsInit => SeatsInv
<1> SUFFICES ASSUME SeatsInit PROVE SeatsInv
  OBVIOUS
<1>1. NofSeats \in [Services -> Nat]
  BY SeatsAreFinite DEF NofSeats
<1>2. Typed
  BY <1>1, DaysAssumption, SeatsAreFinite
     DEF SeatsInit, Typed, Infos, Away, WorkerPlaces, ReaderPlaces, NoCard
<1>3. \A p \in Lockers : at[p] = "home"
  BY DEF SeatsInit
<1>4. \A i \in TableIndices : ~seats[i].taken
  BY DEF SeatsInit
<1>5. Conserved
  <2>1. \A s \in Services : UnitHolders(s) = {}
    BY <1>3, SeatsAreFinite DEF UnitHolders, UnitPlaces
  <2>2. \A s \in Services : NofSeats[s] + 0 = NofSeats[s]
    BY SeatsAreFinite
  <2> QED BY <2>1, <2>2, FS_EmptySet DEF Conserved, SeatsInit
<1> QED
  BY <1>2, <1>3, <1>4, <1>5, SeatsAreFinite
     DEF SeatsInv, Held, TakenIsHeld, DispenserFoundIt, NobodyWithoutSeat, HeldPlaces

LEMMA WorkerSteps ==
  ASSUME SeatsInv, NEW w \in Writers, WorkerStep(w)
  PROVE  SeatsInv'
<1> USE SeatsAreFinite
<1>0. Typed /\ Conserved
  BY DEF SeatsInv
<1>1. CASE TryTakeSeat(w)
  <2>1. Typed'
    BY <1>0, <1>1 DEF TryTakeSeat, Typed, Away, WorkerPlaces
  <2>2. PICK b \in {"choose", "waiting"} :
          /\ at' = [at EXCEPT ![w] = b]
          /\ b = "choose" => /\ seatSem[ServiceOf[w]] > 0
                             /\ seatSem' = [seatSem EXCEPT ![ServiceOf[w]] = @ - 1]
          /\ b = "waiting" => UNCHANGED seatSem
    BY <1>1 DEF TryTakeSeat
  <2>3. at[w] = "core" /\ UNCHANGED <<seats, seatOf, today>>
    BY <1>1 DEF TryTakeSeat
  <2>4. Conserved'
    <3>1. CASE b = "choose"
      <4>1. at[w] \notin UnitPlaces
        BY <2>3 DEF UnitPlaces
      <4> QED BY <1>0, <2>2, <2>3, <3>1, <4>1, UnitTaken
    <3>2. CASE b = "waiting"
      <4>1. \A v \in Writers : at'[v] \in UnitPlaces <=> at[v] \in UnitPlaces
        BY <1>0, <2>2, <2>3, <3>2 DEF Typed, UnitPlaces
      <4> QED BY <1>0, <2>2, <2>3, <3>2, <4>1, SameUnits
    <3> QED BY <3>1, <3>2
  <2>5. Held' /\ TakenIsHeld' /\ DispenserFoundIt' /\ NobodyWithoutSeat'
    <3>1. /\ b \notin {"sign", "noSeat"} /\ at[w] # "sign"
          /\ at[w] \in HeldPlaces <=> b \in HeldPlaces
      BY <2>2, <2>3 DEF HeldPlaces
    <3>2. UNCHANGED seatOf /\ UNCHANGED seats /\ at' = [at EXCEPT ![w] = b]
      BY <2>2, <2>3
    <3> QED BY <3>1, <3>2, EntriesKept
  <2> QED BY <2>1, <2>3, <2>4, <2>5 DEF SeatsInv
<1>2. CASE TryTakePausedSeat(w)
  <2>1. Typed'
    BY <1>0, <1>2 DEF TryTakePausedSeat, Typed, Away, WorkerPlaces
  <2>2. at[w] = "waiting" /\ UNCHANGED <<seats, seatOf, today>>
    BY <1>2 DEF TryTakePausedSeat
  <2>3. CASE UNCHANGED <<seatSem, at>>
    BY <1>0, <2>1, <2>2, <2>3, SameUnits DEF SeatsInv, Held, TakenIsHeld,
       DispenserFoundIt, NobodyWithoutSeat
  <2>4. CASE /\ seatSem[ServiceOf[w]] > 0 /\ at' = [at EXCEPT ![w] = "choose"]
             /\ seatSem' = [seatSem EXCEPT ![ServiceOf[w]] = @ - 1]
    <3>1. /\ at[w] \notin UnitPlaces /\ at[w] # "sign" /\ "choose" \notin {"sign", "noSeat"}
          /\ at[w] \in HeldPlaces <=> "choose" \in HeldPlaces
      BY <2>2 DEF UnitPlaces, HeldPlaces
    <3>2. Conserved'
      BY <1>0, <2>2, <2>4, <3>1, UnitTaken
    <3>3. Held' /\ TakenIsHeld' /\ DispenserFoundIt' /\ NobodyWithoutSeat'
      <4>1. UNCHANGED seatOf /\ UNCHANGED seats /\ at' = [at EXCEPT ![w] = "choose"]
        BY <2>2, <2>4
      <4> QED BY <3>1, <4>1, EntriesKept
    <3> QED BY <2>1, <2>2, <3>2, <3>3 DEF SeatsInv
  <2> QED BY <1>2, <2>3, <2>4 DEF TryTakePausedSeat
<1>3. CASE ChooseSeat(w)
  <2>0. /\ at[w] = "choose"
        /\ UNCHANGED <<seatSem, late, told, card, today>>
    BY <1>3 DEF ChooseSeat
  <2>1. PICK i \in SeatsOf[ServiceOf[w]] :
          /\ ~seats[i].taken
          /\ seats' = [seats EXCEPT ![i].taken = TRUE, ![i].msg = w]
          /\ seatOf' = [seatOf EXCEPT ![w] = i]
          /\ at' = [at EXCEPT ![w] = "sign"]
    BY <1>3, <2>0, SomeSeatIsFree DEF ChooseSeat
  <2>2. i \in TableIndices /\ seats[i] \in Infos
    BY <1>0 DEF Typed
  <2>3. /\ seats' \in [TableIndices -> Infos]
        /\ seats'[i] = [taken |-> TRUE, msg |-> w, sem |-> seats[i].sem]
        /\ \A j \in TableIndices \ {i} : seats'[j] = seats[j]
    BY <1>0, <2>1, <2>2 DEF Typed, Infos
  <2>4. Typed'
    BY <1>0, <2>0, <2>1, <2>2, <2>3 DEF Typed, WorkerPlaces
  <2>5. Conserved'
    <3>1. \A v \in Writers : at'[v] \in UnitPlaces <=> at[v] \in UnitPlaces
      BY <1>0, <2>0, <2>1 DEF Typed, UnitPlaces
    <3> QED BY <1>0, <2>0, <3>1, SameUnits
  <2>6. /\ at'[w] = "sign" /\ seatOf'[w] = i /\ at[w] \notin HeldPlaces
        /\ \A v \in Writers \ {w} : at'[v] = at[v] /\ seatOf'[v] = seatOf[v]
    BY <1>0, <2>0, <2>1 DEF Typed, HeldPlaces
  <2>7. \A v \in Writers : at[v] \in HeldPlaces => v # w /\ seatOf[v] \in TableIndices \ {i}
    BY <2>1, <2>6 DEF SeatsInv, Held
  <2>8. Held'
    <3> SUFFICES ASSUME NEW v \in Writers, at'[v] \in HeldPlaces
                 PROVE  /\ seatOf'[v] \in SeatsOf[ServiceOf[v]]
                        /\ seats'[seatOf'[v]].taken
                        /\ seats'[seatOf'[v]].msg = v
                        /\ at'[v] # "sign" => seats'[seatOf'[v]].sem = v
                        /\ \A u \in Writers \ {v} : at'[u] \in HeldPlaces => seatOf'[u] # seatOf'[v]
      BY DEF Held
    <3>1. CASE v = w
      BY <2>3, <2>6, <2>7, <3>1
    <3>2. CASE v # w
      <4>1. at[v] \in HeldPlaces /\ at'[v] = at[v] /\ seatOf'[v] = seatOf[v]
        BY <2>6, <3>2
      <4>2. seatOf[v] \in TableIndices \ {i}
        BY <2>7, <4>1
      <4>3. seats'[seatOf[v]] = seats[seatOf[v]]
        BY <2>3, <4>2
      <4>4. \A u \in Writers \ {v} : at'[u] \in HeldPlaces => seatOf'[u] # seatOf[v]
        BY <2>6, <4>1, <4>2 DEF SeatsInv, Held
      <4> QED BY <4>1, <4>3, <4>4 DEF SeatsInv, Held
    <3> QED BY <3>1, <3>2
  <2>9. TakenIsHeld'
    <3> SUFFICES ASSUME NEW j \in TableIndices, seats'[j].taken
                 PROVE  \E v \in Writers : at'[v] \in HeldPlaces /\ seatOf'[v] = j
      BY DEF TakenIsHeld
    <3>1. CASE j = i
      BY <2>6, <3>1 DEF HeldPlaces
    <3>2. CASE j # i
      <4>1. PICK v \in Writers : at[v] \in HeldPlaces /\ seatOf[v] = j
        BY <2>3, <3>2 DEF SeatsInv, TakenIsHeld
      <4> QED BY <2>6, <4>1
    <3> QED BY <3>1, <3>2
  <2>10. DispenserFoundIt' /\ NobodyWithoutSeat'
    BY <1>0, <2>0, <2>1 DEF SeatsInv, DispenserFoundIt, NobodyWithoutSeat, Typed
  <2> QED BY <2>0, <2>4, <2>5, <2>8, <2>9, <2>10 DEF SeatsInv
<1>4. CASE SignSeat(w)
  <2> DEFINE i == seatOf[w]
  <2>0. /\ at[w] = "sign" /\ at' = [at EXCEPT ![w] = "unlock"]
        /\ seats' = [seats EXCEPT ![i].sem = w]
        /\ UNCHANGED <<seatSem, seatOf, late, told, card, today>>
    BY <1>4 DEF SignSeat, Move
  <2>1. i \in TableIndices /\ seats[i] \in Infos
    BY <1>0, <2>0 DEF SeatsInv, Held, HeldPlaces, Typed
  <2>2. /\ seats' \in [TableIndices -> Infos]
        /\ seats'[i] = [taken |-> seats[i].taken, msg |-> seats[i].msg, sem |-> w]
        /\ \A j \in TableIndices \ {i} : seats'[j] = seats[j]
    BY <1>0, <2>0, <2>1 DEF Typed, Infos
  <2>3. Typed'
    BY <1>0, <2>0, <2>2 DEF Typed, WorkerPlaces
  <2>4. Conserved'
    <3>1. \A v \in Writers : at'[v] \in UnitPlaces <=> at[v] \in UnitPlaces
      BY <1>0, <2>0 DEF Typed, UnitPlaces
    <3> QED BY <1>0, <2>0, <3>1, SameUnits
  <2>5. \A v \in Writers : /\ at'[v] = IF v = w THEN "unlock" ELSE at[v]
                           /\ at'[v] \in HeldPlaces <=> at[v] \in HeldPlaces
    BY <1>0, <2>0 DEF Typed, HeldPlaces
  <2>6. Held'
    <3> SUFFICES ASSUME NEW v \in Writers, at[v] \in HeldPlaces
                 PROVE  /\ seatOf[v] \in SeatsOf[ServiceOf[v]]
                        /\ seats'[seatOf[v]].taken
                        /\ seats'[seatOf[v]].msg = v
                        /\ at'[v] # "sign" => seats'[seatOf[v]].sem = v
                        /\ \A u \in Writers \ {v} : at[u] \in HeldPlaces => seatOf[u] # seatOf[v]
      BY <2>0, <2>5 DEF Held
    <3>1. seatOf[v] \in TableIndices
      BY DEF SeatsInv, Held
    <3>2. CASE v = w
      BY <2>1, <2>2, <3>2 DEF SeatsInv, Held
    <3>3. CASE v # w
      <4>1. seatOf[v] # i
        BY <2>0, <3>3 DEF SeatsInv, Held, HeldPlaces
      <4> QED BY <2>2, <2>5, <3>1, <3>3, <4>1 DEF SeatsInv, Held
    <3> QED BY <3>2, <3>3
  <2>7. TakenIsHeld'
    <3>1. \A j \in TableIndices : seats'[j].taken => seats[j].taken
      BY <2>2
    <3> QED BY <2>0, <2>5, <3>1 DEF SeatsInv, TakenIsHeld
  <2>8. DispenserFoundIt' /\ NobodyWithoutSeat'
    BY <1>0, <2>0 DEF SeatsInv, DispenserFoundIt, NobodyWithoutSeat, Typed
  <2> QED BY <2>0, <2>3, <2>4, <2>6, <2>7, <2>8 DEF SeatsInv
<1>5. CASE SeatTaken(w)
  <2>1. Typed'
    BY <1>0, <1>5 DEF SeatTaken, Move, KeepTable, KeepWorkers, Typed, Away, WorkerPlaces, NoSeat
  <2>2. PICK b : /\ at' = [at EXCEPT ![w] = b]
                 /\ at[w] = "unlock" /\ b = "seated"
    BY <1>5 DEF SeatTaken, Move
  <2>3. /\ UNCHANGED <<seatSem, seats, today>>
        /\ UNCHANGED seatOf
    BY <1>5 DEF SeatTaken, KeepTable, KeepWorkers
  <2>4. Conserved'
    <3>1. \A v \in Writers : at'[v] \in UnitPlaces <=> at[v] \in UnitPlaces
      BY <1>0, <2>2 DEF Typed, UnitPlaces
    <3> QED BY <1>0, <2>3, <3>1, SameUnits
  <2>5. Held' /\ TakenIsHeld' /\ DispenserFoundIt' /\ NobodyWithoutSeat'
    <3>1. /\ b \notin {"sign", "noSeat"} /\ at[w] # "sign"
          /\ at[w] \in HeldPlaces <=> b \in HeldPlaces
      BY <2>2 DEF HeldPlaces
    <3>2. \/ UNCHANGED seatOf
          \/ at[w] \notin HeldPlaces /\ seatOf' = [seatOf EXCEPT ![w] = NoSeat]
      BY <2>2, <2>3 DEF HeldPlaces
    <3>3. UNCHANGED seats /\ at' = [at EXCEPT ![w] = b]
      BY <2>2, <2>3
    <3> QED BY <3>1, <3>2, <3>3, EntriesKept
  <2> QED BY <2>1, <2>2, <2>3, <2>4, <2>5 DEF SeatsInv
<1>6. CASE TakePause(w)
  <2>1. Typed'
    BY <1>0, <1>6 DEF TakePause, Move, KeepTable, KeepWorkers, Typed, Away, WorkerPlaces, NoSeat
  <2>2. PICK b : /\ at' = [at EXCEPT ![w] = b]
                 /\ at[w] = "seated" /\ b = "leavePause"
    BY <1>6 DEF TakePause, Move
  <2>3. /\ UNCHANGED <<seatSem, seats, today>>
        /\ UNCHANGED seatOf
    BY <1>6 DEF TakePause, KeepTable, KeepWorkers
  <2>4. Conserved'
    <3>1. \A v \in Writers : at'[v] \in UnitPlaces <=> at[v] \in UnitPlaces
      BY <1>0, <2>2 DEF Typed, UnitPlaces
    <3> QED BY <1>0, <2>3, <3>1, SameUnits
  <2>5. Held' /\ TakenIsHeld' /\ DispenserFoundIt' /\ NobodyWithoutSeat'
    <3>1. /\ b \notin {"sign", "noSeat"} /\ at[w] # "sign"
          /\ at[w] \in HeldPlaces <=> b \in HeldPlaces
      BY <2>2 DEF HeldPlaces
    <3>2. \/ UNCHANGED seatOf
          \/ at[w] \notin HeldPlaces /\ seatOf' = [seatOf EXCEPT ![w] = NoSeat]
      BY <2>2, <2>3 DEF HeldPlaces
    <3>3. UNCHANGED seats /\ at' = [at EXCEPT ![w] = b]
      BY <2>2, <2>3
    <3> QED BY <3>1, <3>2, <3>3, EntriesKept
  <2> QED BY <2>1, <2>2, <2>3, <2>4, <2>5 DEF SeatsInv
<1>7. CASE DayEnded(w)
  <2>1. Typed'
    BY <1>0, <1>7 DEF DayEnded, Move, KeepTable, KeepWorkers, Typed, Away, WorkerPlaces, NoSeat
  <2>2. PICK b : /\ at' = [at EXCEPT ![w] = b]
                 /\ \/ at[w] = "seated" /\ b = "leaveDay"
                    \/ at[w] = "waiting" /\ b = "dismissed"
    BY <1>7 DEF DayEnded, Move
  <2>3. /\ UNCHANGED <<seatSem, seats, today>>
        /\ UNCHANGED seatOf
    BY <1>7 DEF DayEnded, KeepTable, KeepWorkers
  <2>4. Conserved'
    <3>1. \A v \in Writers : at'[v] \in UnitPlaces <=> at[v] \in UnitPlaces
      BY <1>0, <2>2 DEF Typed, UnitPlaces
    <3> QED BY <1>0, <2>3, <3>1, SameUnits
  <2>5. Held' /\ TakenIsHeld' /\ DispenserFoundIt' /\ NobodyWithoutSeat'
    <3>1. /\ b \notin {"sign", "noSeat"} /\ at[w] # "sign"
          /\ at[w] \in HeldPlaces <=> b \in HeldPlaces
      BY <2>2 DEF HeldPlaces
    <3>2. \/ UNCHANGED seatOf
          \/ at[w] \notin HeldPlaces /\ seatOf' = [seatOf EXCEPT ![w] = NoSeat]
      BY <2>2, <2>3 DEF HeldPlaces
    <3>3. UNCHANGED seats /\ at' = [at EXCEPT ![w] = b]
      BY <2>2, <2>3
    <3> QED BY <3>1, <3>2, <3>3, EntriesKept
  <2> QED BY <2>1, <2>2, <2>3, <2>4, <2>5 DEF SeatsInv
<1>8. CASE ClearSeat(w)
  <2> DEFINE i == seatOf[w]
  <2>0. /\ at[w] \in {"leavePause", "leaveDay"}
        /\ at' = [at EXCEPT ![w] = IF at[w] = "leavePause" THEN "unitPause" ELSE "unitDay"]
        /\ seats' = [seats EXCEPT ![i].taken = FALSE]
        /\ UNCHANGED <<seatSem, seatOf, late, told, card, today>>
    BY <1>8 DEF ClearSeat, Move
  <2>1. i \in TableIndices /\ seats[i] \in Infos
    BY <1>0, <2>0 DEF SeatsInv, Held, HeldPlaces, Typed
  <2>2. /\ seats' \in [TableIndices -> Infos]
        /\ seats'[i] = [taken |-> FALSE, msg |-> seats[i].msg, sem |-> seats[i].sem]
        /\ \A j \in TableIndices \ {i} : seats'[j] = seats[j]
    BY <1>0, <2>0, <2>1 DEF Typed, Infos
  <2>3. Typed'
    BY <1>0, <2>0, <2>2 DEF Typed, WorkerPlaces
  <2>4. Conserved'
    <3>1. \A v \in Writers : at'[v] \in UnitPlaces <=> at[v] \in UnitPlaces
      BY <1>0, <2>0 DEF Typed, UnitPlaces
    <3> QED BY <1>0, <2>0, <3>1, SameUnits
  <2>5. \A v \in Writers : at'[v] \in HeldPlaces <=> v # w /\ at[v] \in HeldPlaces
    BY <1>0, <2>0 DEF Typed, HeldPlaces
  <2>6. \A v \in Writers \ {w} : /\ at'[v] = at[v]
                                 /\ at[v] \in HeldPlaces => seatOf[v] # i
    BY <1>0, <2>0 DEF Typed, SeatsInv, Held, HeldPlaces
  <2>7. Held'
    <3> SUFFICES ASSUME NEW v \in Writers \ {w}, at[v] \in HeldPlaces
                 PROVE  /\ seatOf[v] \in SeatsOf[ServiceOf[v]]
                        /\ seats'[seatOf[v]].taken
                        /\ seats'[seatOf[v]].msg = v
                        /\ at'[v] # "sign" => seats'[seatOf[v]].sem = v
                        /\ \A u \in Writers \ {v} : at[u] \in HeldPlaces => seatOf[u] # seatOf[v]
      BY <2>0, <2>5 DEF Held
    <3>1. seatOf[v] \in TableIndices \ {i}
      BY <2>6 DEF SeatsInv, Held
    <3> QED BY <2>2, <2>6, <3>1 DEF SeatsInv, Held
  <2>8. TakenIsHeld'
    <3> SUFFICES ASSUME NEW j \in TableIndices, seats'[j].taken
                 PROVE  \E v \in Writers : at'[v] \in HeldPlaces /\ seatOf[v] = j
      BY <2>0 DEF TakenIsHeld
    <3>1. j # i /\ seats[j].taken
      BY <2>2
    <3>2. PICK v \in Writers : at[v] \in HeldPlaces /\ seatOf[v] = j
      BY <3>1 DEF SeatsInv, TakenIsHeld
    <3> QED BY <2>5, <3>1, <3>2
  <2>9. DispenserFoundIt' /\ NobodyWithoutSeat'
    BY <1>0, <2>0 DEF SeatsInv, DispenserFoundIt, NobodyWithoutSeat, Typed
  <2> QED BY <2>0, <2>3, <2>4, <2>7, <2>8, <2>9 DEF SeatsInv
<1>9. CASE ReturnUnit(w)
  <2>1. Typed'
    BY <1>0, <1>9 DEF ReturnUnit, Move, Typed, Away, WorkerPlaces
  <2>2. PICK b : /\ at' = [at EXCEPT ![w] = b]
                 /\ \/ at[w] = "unitPause" /\ b = "unlockPause"
                    \/ at[w] = "unitDay" /\ b = "unlockDay"
    BY <1>9 DEF ReturnUnit, Move
  <2>3. /\ UNCHANGED seats /\ UNCHANGED seatOf /\ UNCHANGED today
        /\ seatSem' = [seatSem EXCEPT ![ServiceOf[w]] = @ + 1]
    BY <1>9 DEF ReturnUnit
  <2>4. Conserved'
    <3>1. at[w] \in UnitPlaces /\ b \notin UnitPlaces
      BY <2>2 DEF UnitPlaces
    <3> QED BY <1>0, <2>2, <2>3, <3>1, UnitReturned
  <2>5. Held' /\ TakenIsHeld' /\ DispenserFoundIt' /\ NobodyWithoutSeat'
    <3>1. /\ b \notin {"sign", "noSeat"} /\ at[w] # "sign"
          /\ at[w] \in HeldPlaces <=> b \in HeldPlaces
      BY <2>2 DEF HeldPlaces
    <3> QED BY <2>2, <2>3, <3>1, EntriesKept
  <2> QED BY <2>1, <2>2, <2>3, <2>4, <2>5 DEF SeatsInv
<1>10. CASE SeatLeft(w)
  <2>1. Typed'
    BY <1>0, <1>10 DEF SeatLeft, Move, KeepTable, KeepWorkers, Typed, Away, WorkerPlaces, NoSeat
  <2>2. PICK b : /\ at' = [at EXCEPT ![w] = b]
                 /\ \/ at[w] = "unlockPause" /\ b = "tell"
                    \/ at[w] = "unlockDay" /\ b = "home"
    BY <1>10 DEF SeatLeft, Move
  <2>3. /\ UNCHANGED <<seatSem, seats, today>>
        /\ seatOf' = [seatOf EXCEPT ![w] = NoSeat]
    BY <1>10 DEF SeatLeft, KeepTable, KeepWorkers
  <2>4. Conserved'
    <3>1. \A v \in Writers : at'[v] \in UnitPlaces <=> at[v] \in UnitPlaces
      BY <1>0, <2>2 DEF Typed, UnitPlaces
    <3> QED BY <1>0, <2>3, <3>1, SameUnits
  <2>5. Held' /\ TakenIsHeld' /\ DispenserFoundIt' /\ NobodyWithoutSeat'
    <3>1. /\ b \notin {"sign", "noSeat"} /\ at[w] # "sign"
          /\ at[w] \in HeldPlaces <=> b \in HeldPlaces
      BY <2>2 DEF HeldPlaces
    <3>2. \/ UNCHANGED seatOf
          \/ at[w] \notin HeldPlaces /\ seatOf' = [seatOf EXCEPT ![w] = NoSeat]
      BY <2>2, <2>3 DEF HeldPlaces
    <3>3. UNCHANGED seats /\ at' = [at EXCEPT ![w] = b]
      BY <2>2, <2>3
    <3> QED BY <3>1, <3>2, <3>3, EntriesKept
  <2> QED BY <2>1, <2>2, <2>3, <2>4, <2>5 DEF SeatsInv
<1>11. CASE TellSeatFree(w)
  <2>1. Typed'
    BY <1>0, <1>11 DEF TellSeatFree, Move, KeepTable, KeepWorkers, Typed, Away, WorkerPlaces, NoSeat
  <2>2. PICK b : /\ at' = [at EXCEPT ![w] = b]
                 /\ at[w] = "tell" /\ b = "paused"
    BY <1>11 DEF TellSeatFree, Move
  <2>3. /\ UNCHANGED <<seatSem, seats, today>>
        /\ UNCHANGED seatOf
    BY <1>11 DEF TellSeatFree, KeepTable, KeepWorkers
  <2>4. Conserved'
    <3>1. \A v \in Writers : at'[v] \in UnitPlaces <=> at[v] \in UnitPlaces
      BY <1>0, <2>2 DEF Typed, UnitPlaces
    <3> QED BY <1>0, <2>3, <3>1, SameUnits
  <2>5. Held' /\ TakenIsHeld' /\ DispenserFoundIt' /\ NobodyWithoutSeat'
    <3>1. /\ b \notin {"sign", "noSeat"} /\ at[w] # "sign"
          /\ at[w] \in HeldPlaces <=> b \in HeldPlaces
      BY <2>2 DEF HeldPlaces
    <3>2. \/ UNCHANGED seatOf
          \/ at[w] \notin HeldPlaces /\ seatOf' = [seatOf EXCEPT ![w] = NoSeat]
      BY <2>2, <2>3 DEF HeldPlaces
    <3>3. UNCHANGED seats /\ at' = [at EXCEPT ![w] = b]
      BY <2>2, <2>3
    <3> QED BY <3>1, <3>2, <3>3, EntriesKept
  <2> QED BY <2>1, <2>2, <2>3, <2>4, <2>5 DEF SeatsInv
<1> QED
  BY <1>1, <1>2, <1>3, <1>4, <1>5, <1>6, <1>7, <1>8, <1>9, <1>10, <1>11 DEF WorkerStep

(* The dispenser touches neither the table nor the workers.                  *)
LEMMA DispenserSteps ==
  ASSUME SeatsInv, NEW r \in Readers, DispenserStep(r)
  PROVE  SeatsInv'
<1> USE SeatsAreFinite
<1>0. Typed
  BY DEF SeatsInv
<1>1. /\ UNCHANGED <<seatSem, seats, late, told, today>>
      /\ \E b : at' = [at EXCEPT ![r] = b]
      /\ \A w \in Writers : seatOf'[w] = seatOf[w]
      /\ at[r] # "home"
  BY <1>0 DEF DispenserStep, LookForWorker, FindSeat, SeatFound, CopySeat, SendTicketResp,
     DispenserDayEnded, Move, KeepTable, KeepWorkers, Typed
<1>2. \A w \in Writers : at'[w] = at[w]
  BY <1>0, <1>1 DEF Typed
<1>3. Held' /\ TakenIsHeld' /\ NobodyWithoutSeat'
  BY <1>1, <1>2 DEF SeatsInv, Held, TakenIsHeld, NobodyWithoutSeat
<1>4. Conserved'
  <2>1. Conserved
    BY DEF SeatsInv
  <2> QED BY <1>1, <1>2, <2>1, SameUnits
<1>5. Typed' /\ DispenserFoundIt'
  <2> USE DEF Typed, DispenserFoundIt, SeatsInv, Move, KeepTable, KeepWorkers, ReaderPlaces, NoSeat
  <2>1. CASE LookForWorker(r)
    BY <2>1 DEF LookForWorker
  <2>2. CASE FindSeat(r)
    BY <2>2 DEF FindSeat
  <2>3. CASE SeatFound(r)
    <3>1. at[r] = "unlock" /\ seatOf[r] \in TableIndices \cup {NoSeat}
      BY <2>3 DEF SeatFound
    <3> QED BY <2>3, <3>1 DEF SeatFound
  <2>4. CASE CopySeat(r)
    <3>1. at[r] \in {"copyMsg", "copySem"}
      BY <2>4 DEF CopySeat
    <3>2. /\ seats[seatOf[r]].msg \in Writers \cup {NoWorker}
          /\ seats[seatOf[r]].sem \in Writers \cup {NoWorker}
      <4>1. seats[seatOf[r]] \in Infos
        BY <3>1
      <4> QED BY <4>1 DEF Infos
    <3>3. card' \in [Readers -> [msg : Writers \cup {NoWorker}, sem : Writers \cup {NoWorker}]]
      BY <2>4, <3>2 DEF CopySeat
    <3>4. /\ UNCHANGED <<seatSem, seats, seatOf, late, told, today>>
          /\ at' \in [Lockers -> WorkerPlaces \cup ReaderPlaces]
      BY <2>4 DEF CopySeat
    <3>5. \A q \in Readers : at'[q] \in {"copyMsg", "copySem"} => at[q] \in {"copyMsg", "copySem"}
      BY <2>4 DEF CopySeat
    <3> QED BY <3>3, <3>4, <3>5
  <2>5. CASE SendTicketResp(r)
    BY <2>5 DEF SendTicketResp, NoCard
  <2>6. CASE DispenserDayEnded(r)
    BY <2>6 DEF DispenserDayEnded, Away, WorkerPlaces
  <2> QED BY <2>1, <2>2, <2>3, <2>4, <2>5, <2>6 DEF DispenserStep
<1> QED BY <1>3, <1>4, <1>5 DEF SeatsInv

(* When everybody is away nobody holds a unit, so every unit is back.        *)
LEMMA UnitsAreBack ==
  ASSUME SeatsInv, \A w \in Writers : at[w] \notin UnitPlaces
  PROVE  seatSem = NofSeats
<1>1. \A s \in Services : UnitHolders(s) = {}
  BY DEF UnitHolders
<1>2. \A s \in Services : seatSem[s] \in Nat /\ seatSem[s] + 0 = NofSeats[s]
  BY <1>1, FS_EmptySet DEF SeatsInv, Conserved, Typed
<1>3. \A s \in Services : seatSem[s] = NofSeats[s]
  BY <1>2, SeatsAreFinite
<1> QED BY <1>3 DEF SeatsInv, Typed, NofSeats

LEMMA NewDayStep ==
  ASSUME SeatsInv, NewDay
  PROVE  SeatsInv'
<1> USE SeatsAreFinite
<1>1. /\ \A p \in Lockers : at[p] \in Away /\ at'[p] = "core"
      /\ today' = today + 1 /\ today \in Nat
      /\ seatSem' = NofSeats
      /\ UNCHANGED <<seats, seatOf, card>>
  BY DaysAssumption DEF NewDay, SeatsInv, Typed
<1>2. Typed'
  BY <1>1, DaysAssumption DEF NewDay, SeatsInv, Typed, WorkerPlaces, NofSeats
<1>3. \A i \in TableIndices : ~seats[i].taken
  BY <1>1 DEF SeatsInv, TakenIsHeld, HeldPlaces, Away
<1>4. Held' /\ TakenIsHeld' /\ DispenserFoundIt' /\ NobodyWithoutSeat'
  BY <1>1, <1>3 DEF Held, TakenIsHeld, HeldPlaces, DispenserFoundIt, NobodyWithoutSeat
<1>5. Conserved'
  <2>1. \A s \in Services : UnitHolders(s)' = {}
    BY <1>1 DEF UnitHolders, UnitPlaces
  <2>2. \A s \in Services : NofSeats[s] + 0 = NofSeats[s]
    OBVIOUS
  <2> QED BY <1>1, <2>1, <2>2, FS_EmptySet DEF Conserved
<1> QED BY <1>2, <1>4, <1>5 DEF SeatsInv

LEMMA SeatsInvHolds == SeatsSpec => []SeatsInv
<1>1. SeatsInv /\ [SeatsNext]_allVars => SeatsInv'
  <2> SUFFICES ASSUME SeatsInv, [SeatsNext]_allVars PROVE SeatsInv'
    OBVIOUS
  <2>1. CASE UNCHANGED seatVars
    <3>1. \A s \in Services : UnitHolders(s)' = UnitHolders(s)
      BY <2>1 DEF UnitHolders, seatVars
    <3> QED
      BY <2>1, <3>1 DEF seatVars, SeatsInv, Typed, Held, TakenIsHeld, Conserved, DispenserFoundIt, NobodyWithoutSeat
  <2>2. ASSUME NEW w \in Writers, WorkerStep(w) \/ LockSeats(w) PROVE SeatsInv'
    BY <2>1, <2>2, WorkerSteps DEF LockSeats
  <2>3. ASSUME NEW r \in Readers, DispenserStep(r) PROVE SeatsInv'
    BY <2>3, DispenserSteps
  <2> QED
    BY <2>1, <2>2, <2>3, NewDayStep DEF SeatsNext, LockOp, Simulated, allVars
<1> QED BY <1>1, SeatsInit_Inv, PTL DEF SeatsSpec

----------------------------------------------------------------------------
(* Every variable keeps its type.                                            *)
THEOREM SeatsType == SeatsSpec => []SeatsTypeOK
<1>1. SeatsInv /\ LockTypeOK => SeatsTypeOK
  BY DEF SeatsInv, Typed, SeatsTypeOK
<1> QED BY <1>1, SeatsInvHolds, SeatsKeepLockType, PTL

(* A worker with a unit of the semaphore always finds a free seat:           *)
(* "Expecting to find free seats." is never printed.                         *)
THEOREM SeatsForEveryUnit == SeatsSpec => []SeatForEveryUnit
<1>1. SeatsInv => SeatForEveryUnit
  BY DEF SeatsInv, NobodyWithoutSeat, SeatForEveryUnit
<1> QED BY <1>1, SeatsInvHolds, PTL

(* A seated worker is alone on its seat and its entry names it.              *)
THEOREM SeatsNameTheirWorker == SeatsSpec => []SeatNamesItsWorker
<1>1. SeatsInv => SeatNamesItsWorker
  <2> SUFFICES ASSUME SeatsInv, NEW w \in Writers, at[w] = "seated"
               PROVE  /\ seats[seatOf[w]] = [taken |-> TRUE, msg |-> w, sem |-> w]
                      /\ \A v \in Writers \ {w} : at[v] = "seated" => seatOf[v] # seatOf[w]
    BY DEF SeatNamesItsWorker
  <2>1. /\ seatOf[w] \in TableIndices /\ seats[seatOf[w]].taken
        /\ seats[seatOf[w]].msg = w /\ seats[seatOf[w]].sem = w
        /\ \A v \in Writers \ {w} : at[v] = "seated" => seatOf[v] # seatOf[w]
    BY SeatsAreFinite DEF SeatsInv, Held, HeldPlaces
  <2>2. seats[seatOf[w]] \in Infos
    BY <2>1 DEF SeatsInv, Typed
  <2> QED BY <2>1, <2>2 DEF Infos
<1> QED BY <1>1, SeatsInvHolds, PTL

(* SETVAL on SEM_SEATS finds the value it writes.                            *)
THEOREM SeatsResetChangesNothing == SeatsSpec => ResetChangesNothing
<1>1. SeatsInv /\ [SeatsNext]_allVars =>
        [today' # today => UNCHANGED seatSem]_allVars
  <2> SUFFICES ASSUME SeatsInv, SeatsNext, today' # today PROVE UNCHANGED seatSem
    OBVIOUS
  <2>1. NewDay
    BY DEF SeatsNext, WorkerStep, DispenserStep, TryTakeSeat, TryTakePausedSeat, ChooseSeat,
       SignSeat, SeatTaken, TakePause, DayEnded, ClearSeat, ReturnUnit, SeatLeft, TellSeatFree,
       LookForWorker, FindSeat, SeatFound, CopySeat, SendTicketResp, DispenserDayEnded,
       LockSeats, LockOp, Simulated, seatVars, allVars
  <2>2. \A w \in Writers : at[w] \notin UnitPlaces
    BY <2>1, SeatsAreFinite DEF NewDay, Away, UnitPlaces
  <2> QED BY <2>1, <2>2, UnitsAreBack DEF NewDay
<1> QED BY <1>1, SeatsInvHolds, PTL DEF SeatsSpec, ResetChangesNothing

----------------------------------------------------------------------------
(* Semaphore, table and lock implement the pool of seats.                    *)

holding == {w \in Writers : at[w] \in UnitPlaces}
refused == {w \in Writers : at[w] = "waiting"}

(* What a move of one worker does to the pool.                               *)
LEMMA PoolMoves ==
  ASSUME Typed, NEW w \in Writers, NEW b, at' = [at EXCEPT ![w] = b]
  PROVE  /\ holding' = IF b \in UnitPlaces THEN holding \cup {w} ELSE holding \ {w}
         /\ refused' = IF b = "waiting" THEN refused \cup {w} ELSE refused \ {w}
BY SeatsAreFinite DEF Typed, holding, refused

(* The semaphore counts the seats that nobody holds (the Cardinality of the  *)
(* instance Pool is the one of this module, by their common definition).     *)
LEMMA PoolCounts ==
  ASSUME SeatsInv, NEW s \in Services
  PROVE  /\ Pool!Holders(s) = UnitHolders(s)
         /\ seatSem[s] > 0 => ~Pool!Full(s)
         /\ seatSem[s] = 0 => Pool!Full(s)
<1>1. Pool!Holders(s) = UnitHolders(s)
  BY DEF Pool!Holders, UnitHolders
<1>2. /\ seatSem[s] + Cardinality(UnitHolders(s)) = NofSeats[s]
      /\ seatSem[s] \in Nat /\ Cardinality(UnitHolders(s)) \in Nat
  BY SeatsAreFinite DEF SeatsInv, Conserved, Typed
<1>3. /\ seatSem[s] > 0 => Cardinality(UnitHolders(s)) # NofSeats[s]
      /\ seatSem[s] = 0 => Cardinality(UnitHolders(s)) = NofSeats[s]
  BY <1>2
<1>4. Pool!Full(s) <=> Cardinality(UnitHolders(s)) = NofSeats[s]
  BY <1>1, Zenon DEF Pool!Full, Pool!Cardinality, Cardinality
<1> QED BY <1>1, <1>3, <1>4

LEMMA PoolSteps ==
  ASSUME SeatsInv, NEW w \in Writers, WorkerStep(w)
  PROVE  Pool!Next \/ UNCHANGED <<holding, refused>>
<1> USE SeatsAreFinite
<1>0. Typed
  BY DEF SeatsInv
<1>1. CASE TryTakeSeat(w) \/ TryTakePausedSeat(w)
  <2>1. at[w] \in {"core", "waiting"}
    BY <1>1 DEF TryTakeSeat, TryTakePausedSeat
  <2>2. w \notin holding
    BY <2>1 DEF holding, UnitPlaces
  <2>3. CASE seatSem[ServiceOf[w]] > 0 /\ at' = [at EXCEPT ![w] = "choose"]
    <3>1. holding' = holding \cup {w} /\ refused' = refused \ {w}
      BY <1>0, <2>3, PoolMoves DEF UnitPlaces
    <3>2. ~Pool!Full(ServiceOf[w])
      BY <2>1, <2>3, PoolCounts
    <3> QED BY <2>2, <3>1, <3>2 DEF Pool!Next, Pool!Take, holding, refused
  <2>4. CASE seatSem[ServiceOf[w]] = 0 /\ at' = [at EXCEPT ![w] = "waiting"]
    <3>1. holding' = holding \ {w} /\ refused' = refused \cup {w}
      BY <1>0, <2>4, PoolMoves DEF UnitPlaces
    <3>2. Pool!Full(ServiceOf[w])
      BY <2>1, <2>4, PoolCounts
    <3> QED BY <2>2, <3>1, <3>2 DEF Pool!Next, Pool!Refuse, holding, refused
  <2>5. CASE UNCHANGED at
    BY <2>5 DEF holding, refused
  <2> QED BY <1>1, <2>3, <2>4, <2>5 DEF TryTakeSeat, TryTakePausedSeat
<1>2. CASE ReturnUnit(w) \/ (DayEnded(w) /\ at[w] = "waiting")
  <2>1. PICK b : /\ at' = [at EXCEPT ![w] = b]
                 /\ b \notin UnitPlaces /\ b # "waiting"
                 /\ at[w] \in {"unitPause", "unitDay", "waiting"}
    BY <1>2 DEF ReturnUnit, DayEnded, Move, UnitPlaces
  <2>2. holding' = holding \ {w} /\ refused' = refused \ {w}
    BY <1>0, <2>1, PoolMoves
  <2>3. w \in holding \cup refused
    BY <2>1 DEF holding, refused, UnitPlaces
  <2> QED BY <2>2, <2>3 DEF Pool!Next, Pool!Leave, holding, refused
<1>3. CASE \/ ChooseSeat(w) \/ SignSeat(w) \/ SeatTaken(w) \/ TakePause(w) \/ ClearSeat(w)
           \/ SeatLeft(w) \/ TellSeatFree(w) \/ (DayEnded(w) /\ at[w] # "waiting")
  <2>1. PICK b : /\ at' = [at EXCEPT ![w] = b]
                 /\ b # "waiting" /\ at[w] # "waiting"
                 /\ at[w] \in UnitPlaces <=> b \in UnitPlaces
    BY <1>3 DEF ChooseSeat, SignSeat, SeatTaken, TakePause, ClearSeat, SeatLeft, TellSeatFree,
       DayEnded, Move, UnitPlaces
  <2>2. UNCHANGED <<holding, refused>>
    BY <1>0, <2>1 DEF holding, refused, Typed
  <2> QED BY <2>2
<1> QED BY <1>1, <1>2, <1>3 DEF WorkerStep

(* The seats implement the abstract pool: who asks gets a seat or is refused *)
(* because the semaphore counts all of them as held.                         *)
THEOREM SeatsImplementPool == SeatsSpec => ImplementsSeatPool
<1>1. SeatsInit => Pool!Init
  BY SeatsAreFinite DEF SeatsInit, Pool!Init, UnitPlaces
<1>2. SeatsInv /\ [SeatsNext]_allVars => [Pool!Next]_Pool!vars
  <2> SUFFICES ASSUME SeatsInv, [SeatsNext]_allVars PROVE Pool!Next \/ UNCHANGED <<holding, refused>>
    BY DEF Pool!vars, holding, refused
  <2>1. CASE UNCHANGED at
    BY <2>1 DEF holding, refused
  <2>2. CASE NewDay
    BY <2>2, SeatsAreFinite DEF NewDay, holding, refused, Away, UnitPlaces
  <2>3. ASSUME NEW r \in Readers, DispenserStep(r) PROVE UNCHANGED <<holding, refused>>
    <3>1. \A w \in Writers : at'[w] = at[w]
      BY <2>3, SeatsAreFinite DEF DispenserStep, LookForWorker, FindSeat, SeatFound, CopySeat,
         SendTicketResp, DispenserDayEnded, Move, SeatsInv, Typed
    <3> QED BY <3>1 DEF holding, refused
  <2> QED
    BY <2>1, <2>2, <2>3, PoolSteps
       DEF SeatsNext, LockSeats, LockOp, Simulated, seatVars, allVars
<1> QED BY <1>1, <1>2, SeatsInvHolds, PTL DEF SeatsSpec, ImplementsSeatPool, Pool!Spec

----------------------------------------------------------------------------
(* No SEAT_FREE is lost.                                                     *)

(* A colleague from whom the worker will yet hear of a seat, or who has left *)
(* his for the day.                                                          *)
WillTell(w) ==
  \E v \in Writers \ {w} : ServiceOf[v] = ServiceOf[w] /\ at[v] \in Leaving \cup {"home", "unlockDay"}

(* A step of one process keeps the promise to a worker who goes on waiting:  *)
(* a unit comes back with its owner on the way to tell, and who has told     *)
(* leaves a message.                                                         *)
LEMMA PromiseKept ==
  ASSUME SeatsInv, NoSeatLeftIdle, NEW v \in Writers, WorkerStep(v),
         NEW w \in Writers, at'[w] = "waiting", told'[w] = 0, seatSem'[ServiceOf[w]] > 0
  PROVE  WillTell(w)'
<1> DEFINE s == ServiceOf[w]
<1>0. /\ at \in [Lockers -> WorkerPlaces \cup ReaderPlaces] /\ told \in [Writers -> Nat]
      /\ seatSem \in [Services -> Nat] /\ s \in Services /\ Writers \subseteq Lockers
      /\ \A u \in Writers : ServiceOf[u] \in Services
  BY SeatsAreFinite DEF SeatsInv, Typed
<1>1. \A u \in Writers \ {v} : at'[u] = at[u]
  BY <1>0 DEF WorkerStep, TryTakeSeat, TryTakePausedSeat, ChooseSeat, SignSeat,
     SeatTaken, TakePause, DayEnded, ClearSeat, ReturnUnit, SeatLeft, TellSeatFree, Move
<1>2. CASE ReturnUnit(v)
  <2>1. at'[v] \in {"unlockPause", "unlockDay"} /\ UNCHANGED told
    BY <1>0, <1>2 DEF ReturnUnit, Move
  <2>2. v # w
    BY <2>1
  <2>3. CASE ServiceOf[v] = s
    BY <2>1, <2>2, <2>3 DEF WillTell, Leaving
  <2>4. CASE ServiceOf[v] # s
    <3>1. seatSem'[s] = seatSem[s] /\ at[w] = "waiting" /\ told[w] = 0
      BY <1>0, <1>1, <1>2, <2>1, <2>2, <2>4 DEF ReturnUnit
    <3>2. PICK u \in Writers \ {w} : ServiceOf[u] = s /\ at[u] \in Leaving \cup {"home", "unlockDay"}
      BY <3>1 DEF NoSeatLeftIdle
    <3> QED BY <1>1, <2>4, <3>2 DEF WillTell
  <2> QED BY <2>3, <2>4
<1>3. CASE TryTakeSeat(v) \/ TryTakePausedSeat(v)
  <2>1. v # w
    BY <1>0, <1>3 DEF TryTakeSeat, TryTakePausedSeat
  <2>2. at[w] = "waiting" /\ told[w] = 0 /\ seatSem[s] > 0 /\ at[v] \in {"core", "waiting"}
    BY <1>0, <1>1, <1>3, <2>1 DEF TryTakeSeat, TryTakePausedSeat
  <2>3. PICK u \in Writers \ {w} : ServiceOf[u] = s /\ at[u] \in Leaving \cup {"home", "unlockDay"}
    BY <2>2 DEF NoSeatLeftIdle
  <2> QED BY <1>1, <2>2, <2>3 DEF WillTell, Leaving
<1>4. CASE ~ReturnUnit(v) /\ ~TryTakeSeat(v) /\ ~TryTakePausedSeat(v)
  <2>1. /\ UNCHANGED seatSem /\ at'[v] # "waiting"
        /\ \/ UNCHANGED told /\ (at[v] \in Leaving \cup {"home", "unlockDay"} =>
                                   at'[v] \in Leaving \cup {"home", "unlockDay"})
           \/ TellSeatFree(v) /\ at[v] = "tell"
    BY <1>0, <1>4 DEF WorkerStep, ChooseSeat, SignSeat, SeatTaken, TakePause, DayEnded, ClearSeat,
       SeatLeft, TellSeatFree, Move, KeepTable, KeepWorkers, Leaving
  <2>2. v # w /\ at[w] = "waiting"
    BY <1>1, <2>1
  <2>3. CASE UNCHANGED told
    <3>1. PICK u \in Writers \ {w} : ServiceOf[u] = s /\ at[u] \in Leaving \cup {"home", "unlockDay"}
      BY <2>1, <2>2, <2>3 DEF NoSeatLeftIdle
    <3>2. CASE TellSeatFree(v) /\ u = v
      BY <1>0, <2>2, <2>3, <3>1, <3>2 DEF TellSeatFree
    <3>3. CASE u # v
      BY <1>1, <3>1, <3>3 DEF WillTell
    <3> QED BY <1>1, <2>1, <3>1, <3>2, <3>3 DEF WillTell
  <2>4. CASE TellSeatFree(v)
    <3>1. told'[w] = told[w] /\ ServiceOf[v] # s
      BY <1>0, <2>2, <2>4 DEF TellSeatFree
    <3>2. PICK u \in Writers \ {w} : ServiceOf[u] = s /\ at[u] \in Leaving \cup {"home", "unlockDay"}
      BY <2>1, <2>2, <3>1 DEF NoSeatLeftIdle
    <3> QED BY <1>1, <3>1, <3>2 DEF WillTell
  <2> QED BY <2>1, <2>3, <2>4
<1> QED BY <1>2, <1>3, <1>4

(* While a worker waits for a seat in vain none is free, unless a colleague  *)
(* is about to tell him or has left for the day (worker.c:195-212,241-258).  *)
THEOREM SeatsNoneLeftIdle == SeatsSpec => []NoSeatLeftIdle
<1>1. SeatsInit => NoSeatLeftIdle
  BY SeatsAreFinite DEF SeatsInit, NoSeatLeftIdle
<1>2. SeatsInv /\ NoSeatLeftIdle /\ [SeatsNext]_allVars => NoSeatLeftIdle'
  <2> SUFFICES ASSUME SeatsInv, NoSeatLeftIdle, [SeatsNext]_allVars PROVE NoSeatLeftIdle'
    OBVIOUS
  <2>1. CASE UNCHANGED <<seatSem, told>> /\ \A w \in Writers : at'[w] = at[w]
    BY <2>1 DEF NoSeatLeftIdle
  <2>2. CASE NewDay
    BY <2>2, SeatsAreFinite DEF NewDay, NoSeatLeftIdle
  <2>3. ASSUME NEW v \in Writers, WorkerStep(v) PROVE NoSeatLeftIdle'
    BY <2>3, PromiseKept DEF NoSeatLeftIdle, WillTell
  <2>4. ASSUME NEW r \in Readers, DispenserStep(r)
        PROVE  UNCHANGED <<seatSem, told>> /\ \A w \in Writers : at'[w] = at[w]
    BY <2>4, SeatsAreFinite DEF DispenserStep, LookForWorker, FindSeat, SeatFound, CopySeat,
       SendTicketResp, DispenserDayEnded, Move, KeepTable, KeepWorkers, SeatsInv, Typed
  <2> QED
    BY <2>1, <2>2, <2>3, <2>4 DEF SeatsNext, LockSeats, LockOp, Simulated, seatVars, allVars
<1> QED BY <1>1, <1>2, SeatsInvHolds, PTL DEF SeatsSpec
=============================================================================
