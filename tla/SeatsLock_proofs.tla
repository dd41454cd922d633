-------------------------- MODULE SeatsLock_proofs --------------------------
(* Mutual exclusion of the seats lock for any number of readers and writers. *)
EXTENDS SeatsLock, FiniteSetTheorems, TLAPS

AllPCs == {"idle"} \cup ReaderPCs \cup WriterPCs
Count(pcs) == Cardinality(At(pcs))

(* Where a process is between taking and releasing the mutex. *)
MutexPCs == {"lr_test", "lr_wr", "lr_ok_read", "lr_ar", "lr_release",
             "rr_leave", "rr_test", "rr_ok_write", "rr_aw", "rr_ww", "rr_release",
             "lw_test", "lw_ww", "lw_ok_write", "lw_aw", "lw_release",
             "rw_leave", "rw_test", "rw_ok_write", "rw_aw", "rw_ww",
             "rw_ok_read", "rw_ar", "rw_wr", "rw_release"}

(* The active writers and readers, the one being admitted included. *)
ActiveWriters == lk["aw"] + Count(GrantWritePCs)
ActiveReaders == lk["ar"] + Count(GrantReadPCs)

MutexInv ==
  /\ lk["mutex"] <= 1
  /\ At(MutexPCs) # {} => lk["mutex"] = 0
  /\ \A p, q \in At(MutexPCs) : p = q

(* What a process that holds the mutex has learnt from its test. *)
Tested ==
  \A p \in Lockers :
    /\ pc[p] \in {"lw_ok_write", "rr_ok_write", "rw_test", "rw_ok_write", "rw_ok_read"}
         => ActiveWriters = 0 /\ ActiveReaders = 0
    /\ pc[p] \in {"lr_ok_read", "rr_test"} => ActiveWriters = 0

Exclusive ==
  /\ ActiveWriters <= 1
  /\ ActiveWriters = 1 => ActiveReaders = 0

LockInv == LockTypeOK /\ MutexInv /\ TokensCounted /\ Tested /\ Exclusive

LEMMA LockersFinite == IsFiniteSet(Lockers) /\ \A pcs : IsFiniteSet(At(pcs)) /\ Count(pcs) \in Nat
<1>1. IsFiniteSet(Lockers)
  BY LockersAssumption, FS_Union DEF Lockers
<1>2. ASSUME NEW pcs PROVE IsFiniteSet(At(pcs)) /\ Count(pcs) \in Nat
  BY <1>1, FS_Subset, FS_CardinalityType DEF At, Count
<1> QED BY <1>1, <1>2

(* How one process's step changes the number of processes at given places. *)
LEMMA CountStep ==
  ASSUME LockTypeOK, NEW p \in Lockers, NEW to, pc' = [pc EXCEPT ![p] = to], NEW pcs
  PROVE  /\ pc[p] \notin pcs /\ to \in pcs => Count(pcs)' = Count(pcs) + 1
         /\ pc[p] \in pcs /\ to \notin pcs => Count(pcs)' = Count(pcs) - 1
         /\ (pc[p] \in pcs <=> to \in pcs) => Count(pcs)' = Count(pcs)
         /\ Count(pcs) \in Nat /\ Count(pcs)' \in Nat
<1>1. p \in At(pcs) <=> pc[p] \in pcs
  BY DEF At
<1>2. At(pcs)' = IF to \in pcs THEN At(pcs) \cup {p} ELSE At(pcs) \ {p}
  BY DEF At, LockTypeOK
<1>3. IsFiniteSet(At(pcs)) /\ Count(pcs) \in Nat
  BY LockersFinite
<1>7. Count(pcs)' \in Nat
  <2>1. IsFiniteSet(At(pcs)')
    BY <1>2, <1>3, FS_AddElement, FS_RemoveElement
  <2> QED BY <2>1, FS_CardinalityType DEF Count
<1>4. CASE pc[p] \notin pcs /\ to \in pcs
  BY <1>1, <1>2, <1>3, <1>7, <1>4, FS_AddElement DEF Count
<1>5. CASE pc[p] \in pcs /\ to \notin pcs
  <2>1. Cardinality(At(pcs) \ {p}) = Cardinality(At(pcs)) - 1
    BY <1>1, <1>3, <1>5, FS_RemoveElement
  <2> QED BY <1>2, <1>3, <1>7, <1>5, <2>1 DEF Count
<1>6. CASE pc[p] \in pcs <=> to \in pcs
  <2>1. At(pcs)' = At(pcs)
    BY <1>1, <1>2, <1>6
  <2> QED BY <2>1, <1>3, <1>7, <1>6 DEF Count
<1> QED BY <1>3, <1>4, <1>5, <1>6, <1>7

(* The holder of the mutex is alone in it. *)
LEMMA AloneInMutex ==
  ASSUME LockTypeOK, MutexInv, NEW p \in Lockers, pc[p] \in MutexPCs
  PROVE  /\ lk["mutex"] = 0
         /\ \A q \in Lockers : q # p => pc[q] \notin MutexPCs
         /\ pc[p] \notin GrantWritePCs => Count(GrantWritePCs) = 0
         /\ pc[p] \notin GrantReadPCs => Count(GrantReadPCs) = 0
<1>1. p \in At(MutexPCs) /\ \A q \in Lockers : q # p => pc[q] \notin MutexPCs
  BY DEF At, MutexInv
<1>2. pc[p] \notin GrantWritePCs => At(GrantWritePCs) = {}
  BY <1>1 DEF At, GrantWritePCs, MutexPCs
<1>3. pc[p] \notin GrantReadPCs => At(GrantReadPCs) = {}
  BY <1>1 DEF At, GrantReadPCs, MutexPCs
<1> QED BY <1>1, <1>2, <1>3, FS_EmptySet DEF MutexInv, Count

LEMMA MutexStep ==
  ASSUME LockTypeOK, MutexInv, NEW p \in Lockers, NEW to, pc' = [pc EXCEPT ![p] = to],
         \/ pc[p] \notin MutexPCs /\ to \in MutexPCs /\ P("mutex")
         \/ pc[p] \in MutexPCs /\ to \notin MutexPCs /\ V("mutex")
         \/ (pc[p] \in MutexPCs <=> to \in MutexPCs) /\ lk'["mutex"] = lk["mutex"]
  PROVE  MutexInv'
<1> USE DEF LockTypeOK, MutexInv, Sems
<1>1. At(MutexPCs)' = IF to \in MutexPCs THEN At(MutexPCs) \cup {p} ELSE At(MutexPCs) \ {p}
  BY DEF At
<1>2. p \in At(MutexPCs) <=> pc[p] \in MutexPCs
  BY DEF At
<1>3. CASE pc[p] \notin MutexPCs /\ to \in MutexPCs /\ P("mutex")
  <2>1. At(MutexPCs) = {} /\ lk["mutex"] = 1
    BY <1>3 DEF P
  <2> QED BY <1>1, <1>3, <2>1 DEF P
<1>4. CASE pc[p] \in MutexPCs /\ to \notin MutexPCs /\ V("mutex")
  <2>1. At(MutexPCs) = {p} /\ lk["mutex"] = 0
    BY <1>2, <1>4
  <2> QED BY <1>1, <1>4, <2>1 DEF V
<1>5. CASE (pc[p] \in MutexPCs <=> to \in MutexPCs) /\ lk'["mutex"] = lk["mutex"]
  <2>1. At(MutexPCs)' = At(MutexPCs)
    BY <1>1, <1>2, <1>5
  <2> QED BY <2>1, <1>5
<1> QED BY <1>3, <1>4, <1>5

(* The kinds of steps, by what they do to the tokens and the counters.       *)
Stays(p, to, pcs)  == pc[p] \in pcs <=> to \in pcs
Enters(p, to, pcs) == pc[p] \notin pcs /\ to \in pcs
Leaves(p, to, pcs) == pc[p] \in pcs /\ to \notin pcs
ThreeStay(p, to, a, b, c) == Stays(p, to, a) /\ Stays(p, to, b) /\ Stays(p, to, c)
AllStay(p, to) ==
  Stays(p, to, WritingPCs) /\ ThreeStay(p, to, ReadingPCs, GrantWritePCs, GrantReadPCs)
NothingCounted(p, to) ==
  /\ AllStay(p, to)
  /\ \A s \in {"ok_write", "ok_read", "aw", "ar"} : lk'[s] = lk[s]

SomethingCounted(p, to) ==
  \/ /\ ThreeStay(p, to, WritingPCs, ReadingPCs, GrantReadPCs)
     /\ \/ /\ Enters(p, to, GrantWritePCs) /\ V("ok_write")
           /\ ActiveWriters = 0 /\ ActiveReaders = 0
        \/ Leaves(p, to, GrantWritePCs) /\ V("aw")
  \/ /\ ThreeStay(p, to, ReadingPCs, GrantWritePCs, GrantReadPCs)
     /\ \/ Enters(p, to, WritingPCs) /\ P("ok_write")
        \/ Leaves(p, to, WritingPCs) /\ P("aw") /\ pc[p] \in MutexPCs
  \/ /\ ThreeStay(p, to, WritingPCs, ReadingPCs, GrantWritePCs)
     /\ \/ Enters(p, to, GrantReadPCs) /\ V("ok_read") /\ ActiveWriters = 0
        \/ Leaves(p, to, GrantReadPCs) /\ V("ar")
  \/ /\ ThreeStay(p, to, WritingPCs, GrantWritePCs, GrantReadPCs)
     /\ \/ Enters(p, to, ReadingPCs) /\ P("ok_read")
        \/ Leaves(p, to, ReadingPCs) /\ P("ar") /\ pc[p] \in MutexPCs

Kind(p, to) == NothingCounted(p, to) \/ SomethingCounted(p, to)

(* Whatever the kind of a step, tokens stay counted and writers exclusive;   *)
(* while somebody else is in the mutex the active ones do not change.        *)
LEMMA KindStep ==
  ASSUME LockTypeOK, TokensCounted, Exclusive,
         NEW p \in Lockers, NEW to, pc' = [pc EXCEPT ![p] = to], Kind(p, to)
  PROVE  /\ TokensCounted' /\ Exclusive'
         /\ pc[p] \notin MutexPCs /\ to \notin MutexPCs =>
              UNCHANGED <<ActiveWriters, ActiveReaders>>
<1> DEFINE W == Count(WritingPCs)      R == Count(ReadingPCs)
           GW == Count(GrantWritePCs)  GR == Count(GrantReadPCs)
           enters(pcs) == Enters(p, to, pcs)
           leaves(pcs) == Leaves(p, to, pcs)
           stays(pcs)  == Stays(p, to, pcs)
<1>1. /\ W \in Nat /\ R \in Nat /\ GW \in Nat /\ GR \in Nat
      /\ W' \in Nat /\ R' \in Nat /\ GW' \in Nat /\ GR' \in Nat
  BY CountStep
<1>2. /\ enters(WritingPCs) => W' = W + 1
      /\ leaves(WritingPCs) => W' = W - 1
      /\ stays(WritingPCs) => W' = W
  BY CountStep DEF Enters, Leaves, Stays
<1>3. /\ enters(ReadingPCs) => R' = R + 1
      /\ leaves(ReadingPCs) => R' = R - 1
      /\ stays(ReadingPCs) => R' = R
  BY CountStep DEF Enters, Leaves, Stays
<1>4. /\ enters(GrantWritePCs) => GW' = GW + 1
      /\ leaves(GrantWritePCs) => GW' = GW - 1
      /\ stays(GrantWritePCs) => GW' = GW
  BY CountStep DEF Enters, Leaves, Stays
<1>5. /\ enters(GrantReadPCs) => GR' = GR + 1
      /\ leaves(GrantReadPCs) => GR' = GR - 1
      /\ stays(GrantReadPCs) => GR' = GR
  BY CountStep DEF Enters, Leaves, Stays
<1>6. \A s \in Sems : lk[s] \in Nat
  BY DEF LockTypeOK
<1>7. /\ lk["ok_write"] + W = lk["aw"] + GW
      /\ lk["ok_read"] + R = lk["ar"] + GR
      /\ lk["aw"] + GW <= 1
      /\ lk["aw"] + GW = 1 => lk["ar"] + GR = 0
  BY DEF TokensCounted, Exclusive, ActiveWriters, ActiveReaders, Writing, Reading, Count
<1> DEFINE Counted == /\ lk["ok_write"] + W = lk["aw"] + GW
                      /\ lk["ok_read"] + R = lk["ar"] + GR
           Single  == /\ lk["aw"] + GW <= 1
                      /\ lk["aw"] + GW = 1 => lk["ar"] + GR = 0
           Active  == <<lk["aw"] + GW, lk["ar"] + GR>>
<1>q. ASSUME Counted', Single', pc[p] \notin MutexPCs /\ to \notin MutexPCs => Active' = Active
      PROVE  /\ TokensCounted' /\ Exclusive'
             /\ pc[p] \notin MutexPCs /\ to \notin MutexPCs =>
                  UNCHANGED <<ActiveWriters, ActiveReaders>>
  BY <1>q DEF TokensCounted, Exclusive, ActiveWriters, ActiveReaders, Writing, Reading, Count
<1>8. CASE NothingCounted(p, to)
  <2>1. W' = W /\ R' = R /\ GW' = GW /\ GR' = GR
    BY <1>8, <1>2, <1>3, <1>4, <1>5 DEF NothingCounted, AllStay, ThreeStay
  <2>2. Counted' /\ Single' /\ Active' = Active
    BY <1>8, <1>7, <2>1 DEF NothingCounted
  <2> QED BY <1>q, <2>2
<1>9. CASE /\ ThreeStay(p, to, WritingPCs, ReadingPCs, GrantReadPCs)
           /\ \/ /\ Enters(p, to, GrantWritePCs) /\ V("ok_write")
                 /\ ActiveWriters = 0 /\ ActiveReaders = 0
              \/ Leaves(p, to, GrantWritePCs) /\ V("aw")
  <2>1. W' = W /\ R' = R /\ GR' = GR
    BY <1>9, <1>2, <1>3, <1>5 DEF ThreeStay
  <2>2. pc[p] \in MutexPCs \/ to \in MutexPCs
    BY <1>9 DEF Enters, Leaves, GrantWritePCs, MutexPCs
  <2>3. CASE enters(GrantWritePCs) /\ V("ok_write") /\ ActiveWriters = 0 /\ ActiveReaders = 0
    <3>1. lk["aw"] + GW = 0 /\ lk["ar"] + GR = 0
      BY <2>3 DEF ActiveWriters, ActiveReaders
    <3>2. /\ lk'["ok_write"] = lk["ok_write"] + 1 /\ lk'["ok_read"] = lk["ok_read"]
          /\ lk'["aw"] = lk["aw"] /\ lk'["ar"] = lk["ar"]
      BY <2>3 DEF V, LockTypeOK, Sems
    <3>3. Counted' /\ Single'
      BY <1>1, <1>4, <1>6, <1>7, <2>1, <2>3, <3>1, <3>2 DEF Sems
    <3> QED BY <1>q, <2>2, <3>3
  <2>4. CASE leaves(GrantWritePCs) /\ V("aw")
    <3>1. /\ lk'["ok_write"] = lk["ok_write"] /\ lk'["ok_read"] = lk["ok_read"]
          /\ lk'["aw"] = lk["aw"] + 1 /\ lk'["ar"] = lk["ar"]
      BY <2>4 DEF V, LockTypeOK, Sems
    <3>2. Counted' /\ Single'
      BY <1>1, <1>4, <1>6, <1>7, <2>1, <2>4, <3>1 DEF Sems
    <3> QED BY <1>q, <2>2, <3>2
  <2> QED BY <1>9, <2>3, <2>4
<1>10. CASE /\ ThreeStay(p, to, ReadingPCs, GrantWritePCs, GrantReadPCs)
            /\ \/ Enters(p, to, WritingPCs) /\ P("ok_write")
               \/ Leaves(p, to, WritingPCs) /\ P("aw") /\ pc[p] \in MutexPCs
  <2>1. GW' = GW /\ R' = R /\ GR' = GR
    BY <1>10, <1>3, <1>4, <1>5 DEF ThreeStay
  <2>2. CASE enters(WritingPCs) /\ P("ok_write")
    <3>1. /\ lk'["ok_write"] = lk["ok_write"] - 1 /\ lk'["ok_read"] = lk["ok_read"]
          /\ lk'["aw"] = lk["aw"] /\ lk'["ar"] = lk["ar"]
      BY <2>2 DEF P, LockTypeOK, Sems
    <3>2. Counted' /\ Single' /\ Active' = Active
      BY <1>1, <1>2, <1>6, <1>7, <2>1, <2>2, <3>1 DEF Sems
    <3> QED BY <1>q, <3>2
  <2>3. CASE leaves(WritingPCs) /\ P("aw") /\ pc[p] \in MutexPCs
    <3>1. /\ lk'["ok_write"] = lk["ok_write"] /\ lk'["ok_read"] = lk["ok_read"]
          /\ lk'["aw"] = lk["aw"] - 1 /\ lk'["ar"] = lk["ar"] /\ lk["aw"] > 0
      BY <2>3 DEF P, LockTypeOK, Sems
    <3>2. W' = W - 1
      BY <2>3, <1>2
    <3>3. lk["aw"] \in Nat /\ lk["ar"] \in Nat /\ lk["ok_write"] \in Nat /\ lk["ok_read"] \in Nat
      BY <1>6 DEF Sems
    <3>4. Counted'
      BY <1>1, <1>7, <2>1, <3>1, <3>2, <3>3
    <3>5. Single'
      BY <1>1, <1>7, <2>1, <3>1, <3>2, <3>3
    <3> QED BY <1>q, <2>3, <3>4, <3>5
  <2> QED BY <1>10, <2>2, <2>3
<1>11. CASE /\ ThreeStay(p, to, WritingPCs, ReadingPCs, GrantWritePCs)
            /\ \/ Enters(p, to, GrantReadPCs) /\ V("ok_read") /\ ActiveWriters = 0
               \/ Leaves(p, to, GrantReadPCs) /\ V("ar")
  <2>1. W' = W /\ R' = R /\ GW' = GW
    BY <1>11, <1>2, <1>3, <1>4 DEF ThreeStay
  <2>2. pc[p] \in MutexPCs \/ to \in MutexPCs
    BY <1>11 DEF Enters, Leaves, GrantReadPCs, MutexPCs
  <2>3. CASE enters(GrantReadPCs) /\ V("ok_read") /\ ActiveWriters = 0
    <3>1. lk["aw"] + GW = 0
      BY <2>3 DEF ActiveWriters
    <3>2. /\ lk'["ok_write"] = lk["ok_write"] /\ lk'["ok_read"] = lk["ok_read"] + 1
          /\ lk'["aw"] = lk["aw"] /\ lk'["ar"] = lk["ar"]
      BY <2>3 DEF V, LockTypeOK, Sems
    <3>3. GR' = GR + 1
      BY <2>3, <1>5
    <3>4. lk["aw"] \in Nat /\ lk["ar"] \in Nat /\ lk["ok_write"] \in Nat /\ lk["ok_read"] \in Nat
      BY <1>6 DEF Sems
    <3>5. Counted'
      BY <1>1, <1>7, <2>1, <3>2, <3>3, <3>4
    <3>6. Single'
      BY <1>1, <1>7, <2>1, <3>1, <3>2, <3>3, <3>4
    <3> QED BY <1>q, <2>2, <3>5, <3>6
  <2>4. CASE leaves(GrantReadPCs) /\ V("ar")
    <3>1. /\ lk'["ok_write"] = lk["ok_write"] /\ lk'["ok_read"] = lk["ok_read"]
          /\ lk'["aw"] = lk["aw"] /\ lk'["ar"] = lk["ar"] + 1
      BY <2>4 DEF V, LockTypeOK, Sems
    <3>2. Counted' /\ Single'
      BY <1>1, <1>5, <1>6, <1>7, <2>1, <2>4, <3>1 DEF Sems
    <3> QED BY <1>q, <2>2, <3>2
  <2> QED BY <1>11, <2>3, <2>4
<1>12. CASE /\ ThreeStay(p, to, WritingPCs, GrantWritePCs, GrantReadPCs)
            /\ \/ Enters(p, to, ReadingPCs) /\ P("ok_read")
               \/ Leaves(p, to, ReadingPCs) /\ P("ar") /\ pc[p] \in MutexPCs
  <2>1. W' = W /\ GW' = GW /\ GR' = GR
    BY <1>12, <1>2, <1>4, <1>5 DEF ThreeStay
  <2>2. CASE enters(ReadingPCs) /\ P("ok_read")
    <3>1. /\ lk'["ok_write"] = lk["ok_write"] /\ lk'["ok_read"] = lk["ok_read"] - 1
          /\ lk'["aw"] = lk["aw"] /\ lk'["ar"] = lk["ar"]
      BY <2>2 DEF P, LockTypeOK, Sems
    <3>2. Counted' /\ Single' /\ Active' = Active
      BY <1>1, <1>3, <1>6, <1>7, <2>1, <2>2, <3>1 DEF Sems
    <3> QED BY <1>q, <3>2
  <2>3. CASE leaves(ReadingPCs) /\ P("ar") /\ pc[p] \in MutexPCs
    <3>1. /\ lk'["ok_write"] = lk["ok_write"] /\ lk'["ok_read"] = lk["ok_read"]
          /\ lk'["aw"] = lk["aw"] /\ lk'["ar"] = lk["ar"] - 1 /\ lk["ar"] > 0
      BY <2>3 DEF P, LockTypeOK, Sems
    <3>2. Counted' /\ Single'
      BY <1>1, <1>3, <1>6, <1>7, <2>1, <2>3, <3>1 DEF Sems
    <3> QED BY <1>q, <2>3, <3>2
  <2> QED BY <1>12, <2>2, <2>3
<1> QED BY <1>8, <1>9, <1>10, <1>11, <1>12 DEF Kind, SomethingCounted

NoneActivePCs == {"lw_ok_write", "rr_ok_write", "rw_test", "rw_ok_write", "rw_ok_read"}
NoWriterPCs   == {"lr_ok_read", "rr_test"}

(* What an operation owes to the invariant: the mutex is respected, tokens   *)
(* and counters move in one of the kinds above, and a test is believed only  *)
(* if it was true.                                                           *)
Sound(p, to) ==
  /\ pc' = [pc EXCEPT ![p] = to]
  /\ LockTypeOK'
  /\ \/ pc[p] \notin MutexPCs /\ to \in MutexPCs /\ P("mutex")
     \/ pc[p] \in MutexPCs /\ to \notin MutexPCs /\ V("mutex")
     \/ (pc[p] \in MutexPCs <=> to \in MutexPCs) /\ lk'["mutex"] = lk["mutex"]
  /\ Kind(p, to)
  /\ to \in NoneActivePCs => ActiveWriters' = 0 /\ ActiveReaders' = 0
  /\ to \in NoWriterPCs => ActiveWriters' = 0

LEMMA SoundStep ==
  ASSUME LockInv, NEW p \in Lockers, NEW to, Sound(p, to)
  PROVE  LockInv'
<1>1. MutexInv'
  BY MutexStep DEF LockInv, Sound
<1>2. /\ TokensCounted' /\ Exclusive'
      /\ pc[p] \notin MutexPCs /\ to \notin MutexPCs =>
           UNCHANGED <<ActiveWriters, ActiveReaders>>
  BY KindStep DEF LockInv, Sound
<1>3. ASSUME NEW q \in Lockers
      PROVE  /\ pc'[q] \in NoneActivePCs => ActiveWriters' = 0 /\ ActiveReaders' = 0
             /\ pc'[q] \in NoWriterPCs => ActiveWriters' = 0
  <2>1. CASE q = p
    BY <2>1 DEF Sound, LockInv, LockTypeOK
  <2>2. CASE q # p /\ pc'[q] \in NoneActivePCs \cup NoWriterPCs
    <3>1. pc'[q] = pc[q] /\ pc[q] \in MutexPCs
      BY <2>2 DEF Sound, LockInv, LockTypeOK, NoneActivePCs, NoWriterPCs, MutexPCs
    <3>2. pc[p] \notin MutexPCs /\ lk["mutex"] = 0
      BY <2>2, <3>1, AloneInMutex DEF LockInv
    <3>3. to \notin MutexPCs
      BY <3>2 DEF Sound, P
    <3> QED BY <1>2, <3>1, <3>2, <3>3 DEF LockInv, Tested, NoneActivePCs, NoWriterPCs
  <2> QED BY <2>1, <2>2
<1>4. Tested'
  BY <1>3 DEF Tested, NoneActivePCs, NoWriterPCs
<1> QED BY <1>1, <1>2, <1>4 DEF LockInv, Sound

(* The shapes the steps of the source have. *)
Effect(p, to) ==
  \/ pc[p] \notin MutexPCs /\ to \in MutexPCs /\ AllStay(p, to) /\ P("mutex")
  \/ pc[p] \in MutexPCs /\ to \notin MutexPCs /\ AllStay(p, to) /\ V("mutex")
  \/ /\ pc[p] \in MutexPCs <=> to \in MutexPCs
     /\ \/ AllStay(p, to) /\ (UNCHANGED lk \/ \E s \in {"wr", "ww"} : P(s) \/ V(s))
        \/ SomethingCounted(p, to)

OneSide(p, to) ==
  \/ pc[p] \in ReaderPCs /\ to \in ReaderPCs \cup {"idle"}
  \/ pc[p] \in WriterPCs /\ to \in WriterPCs \cup {"idle"}

LEMMA EffectIsSound ==
  ASSUME LockInv, NEW p \in Lockers, NEW to, pc' = [pc EXCEPT ![p] = to], UNCHANGED uses,
         OneSide(p, to), Effect(p, to),
         to \in NoneActivePCs => ActiveWriters' = 0 /\ ActiveReaders' = 0,
         to \in NoWriterPCs => ActiveWriters' = 0
  PROVE  Sound(p, to)
<1>1. UNCHANGED lk \/ \E s \in Sems : P(s) \/ V(s)
  BY DEF Effect, SomethingCounted, Sems
<1>2. lk' \in [Sems -> Nat]
  BY <1>1 DEF P, V, LockInv, LockTypeOK
<1>3. LockTypeOK'
  <2>1. "idle" \notin ReaderPCs /\ "idle" \notin WriterPCs /\ ReaderPCs \cap WriterPCs = {}
    BY DEF ReaderPCs, WriterPCs
  <2> QED BY <1>2, <2>1 DEF LockInv, LockTypeOK, OneSide, Lockers
<1>4. CASE pc[p] \notin MutexPCs /\ to \in MutexPCs /\ AllStay(p, to) /\ P("mutex")
  <2>1. NothingCounted(p, to)
    BY <1>4 DEF NothingCounted, P, LockInv, LockTypeOK, Sems
  <2> QED BY <1>3, <1>4, <2>1 DEF Sound, Kind
<1>5. CASE pc[p] \in MutexPCs /\ to \notin MutexPCs /\ AllStay(p, to) /\ V("mutex")
  <2>1. NothingCounted(p, to)
    BY <1>5 DEF NothingCounted, V, LockInv, LockTypeOK, Sems
  <2> QED BY <1>3, <1>5, <2>1 DEF Sound, Kind
<1>6. CASE /\ pc[p] \in MutexPCs <=> to \in MutexPCs
           /\ AllStay(p, to) /\ (UNCHANGED lk \/ \E s \in {"wr", "ww"} : P(s) \/ V(s))
  <2>1. NothingCounted(p, to) /\ lk'["mutex"] = lk["mutex"]
    BY <1>6 DEF NothingCounted, P, V, LockInv, LockTypeOK, Sems
  <2> QED BY <1>3, <1>6, <2>1 DEF Sound, Kind
<1>7. CASE (pc[p] \in MutexPCs <=> to \in MutexPCs) /\ SomethingCounted(p, to)
  <2>1. lk'["mutex"] = lk["mutex"]
    BY <1>7 DEF SomethingCounted, P, V, LockInv, LockTypeOK, Sems
  <2> QED BY <1>3, <1>7, <2>1 DEF Sound, Kind
<1> QED BY <1>4, <1>5, <1>6, <1>7 DEF Effect

(* A step on no semaphore that counts nobody in or out. *)
LEMMA TestKeeps ==
  ASSUME LockInv, NEW p \in Lockers, NEW to, pc' = [pc EXCEPT ![p] = to], UNCHANGED lk,
         Stays(p, to, GrantWritePCs), Stays(p, to, GrantReadPCs)
  PROVE  UNCHANGED <<ActiveWriters, ActiveReaders>>
<1>1. Count(GrantWritePCs)' = Count(GrantWritePCs) /\ Count(GrantReadPCs)' = Count(GrantReadPCs)
  BY CountStep DEF LockInv, Stays
<1> QED BY <1>1 DEF ActiveWriters, ActiveReaders

(* A process that leaves finds nobody of the other kind active, and a        *)
(* writer nobody at all.                                                     *)
LEMMA LastReader ==
  ASSUME LockInv, NEW p \in Lockers, Step(p, "rr_leave", "rr_test"), P("ar")
  PROVE  ActiveWriters' = 0
<1>1. /\ Count(GrantWritePCs)' = Count(GrantWritePCs) /\ Count(GrantWritePCs) \in Nat
      /\ Count(GrantReadPCs) \in Nat
      /\ Count(ReadingPCs)' = Count(ReadingPCs) - 1 /\ Count(ReadingPCs)' \in Nat
  <2>1. /\ pc' = [pc EXCEPT ![p] = "rr_test"] /\ pc[p] \in ReadingPCs /\ "rr_test" \notin ReadingPCs
        /\ pc[p] \notin GrantWritePCs /\ "rr_test" \notin GrantWritePCs
        /\ pc[p] \notin GrantReadPCs /\ "rr_test" \notin GrantReadPCs
    BY DEF Step, GrantWritePCs, GrantReadPCs, ReadingPCs
  <2> QED BY <2>1, CountStep DEF LockInv
<1>2. lk["ok_read"] + Count(ReadingPCs) = lk["ar"] + Count(GrantReadPCs)
  BY DEF LockInv, TokensCounted, Reading, Count
<1>3. /\ lk["ok_read"] \in Nat /\ lk["ar"] \in Nat /\ lk["aw"] \in Nat
      /\ lk'["aw"] = lk["aw"]
  BY DEF LockInv, LockTypeOK, Sems, P
<1>4. ActiveReaders # 0
  BY <1>1, <1>2, <1>3, LockersFinite DEF ActiveReaders
<1> QED BY <1>1, <1>3, <1>4 DEF LockInv, Exclusive, ActiveWriters

LEMMA LastWriter ==
  ASSUME LockInv, NEW p \in Lockers, Step(p, "rw_leave", "rw_test"), P("aw")
  PROVE  ActiveWriters' = 0 /\ ActiveReaders' = 0
<1>1. /\ Count(GrantWritePCs)' = Count(GrantWritePCs) /\ Count(GrantWritePCs) \in Nat
      /\ Count(GrantReadPCs)' = Count(GrantReadPCs) /\ Count(GrantReadPCs) \in Nat
      /\ Count(WritingPCs)' = Count(WritingPCs) - 1 /\ Count(WritingPCs)' \in Nat
  <2>1. /\ pc' = [pc EXCEPT ![p] = "rw_test"] /\ pc[p] \in WritingPCs /\ "rw_test" \notin WritingPCs
        /\ pc[p] \notin GrantWritePCs /\ "rw_test" \notin GrantWritePCs
        /\ pc[p] \notin GrantReadPCs /\ "rw_test" \notin GrantReadPCs
    BY DEF Step, GrantWritePCs, GrantReadPCs, WritingPCs
  <2> QED BY <2>1, CountStep DEF LockInv
<1>2. lk["ok_write"] + Count(WritingPCs) = lk["aw"] + Count(GrantWritePCs)
  BY DEF LockInv, TokensCounted, Writing, Count
<1>3. /\ lk["ok_write"] \in Nat /\ lk["ar"] \in Nat /\ lk["aw"] \in Nat
      /\ lk'["aw"] = lk["aw"] - 1 /\ lk'["ar"] = lk["ar"]
  BY DEF LockInv, LockTypeOK, Sems, P
<1>4. ActiveWriters = 1
  BY <1>1, <1>2, <1>3, LockersFinite DEF ActiveWriters, LockInv, Exclusive
<1> QED BY <1>1, <1>3, <1>4 DEF LockInv, Exclusive, ActiveWriters, ActiveReaders

(* An operation is sound in each of its steps; only the steps that test or   *)
(* leave need more than what they do.                                        *)
LEMMA ReaderLocks ==
  ASSUME LockInv, NEW p \in Lockers, lock_reader_WP(p)
  PROVE  \E to : Sound(p, to)
<1> USE DEF Step, Test, AllStay, ThreeStay, Stays, Enters, Leaves,
            WritingPCs, ReadingPCs, GrantWritePCs, GrantReadPCs, MutexPCs,
            NoneActivePCs, NoWriterPCs, OneSide, ReaderPCs, WriterPCs
<1>1. ASSUME Step(p, "lr_mutex", "lr_test"), P("mutex")
      PROVE  Sound(p, "lr_test")
  <2>1. Effect(p, "lr_test")
    BY <1>1 DEF Effect
  <2> QED BY <1>1, <2>1, EffectIsSound
<1>2. ASSUME Test(p, "lr_test", "lr_wr")
      PROVE  Sound(p, "lr_wr")
  <2>1. Effect(p, "lr_wr")
    BY <1>2 DEF Effect
  <2> QED BY <1>2, <2>1, EffectIsSound
<1>3. ASSUME Test(p, "lr_test", "lr_ok_read"), ~(lk["aw"] + lk["ww"] > 0)
      PROVE  Sound(p, "lr_ok_read")
  <2>1. Effect(p, "lr_ok_read")
    BY <1>3 DEF Effect
  <2>2. ActiveWriters = 0
    <3>1. lk["aw"] = 0 /\ Count(GrantWritePCs) = 0
      BY <1>3, AloneInMutex DEF LockInv, LockTypeOK, Sems
    <3> QED BY <3>1 DEF ActiveWriters
  <2>3. UNCHANGED <<ActiveWriters, ActiveReaders>>
    BY <1>3, TestKeeps
  <2> QED BY <1>3, <2>1, <2>2, <2>3, EffectIsSound
<1>4. ASSUME Step(p, "lr_wr", "lr_release"), V("wr")
      PROVE  Sound(p, "lr_release")
  <2>1. Effect(p, "lr_release")
    BY <1>4 DEF Effect
  <2> QED BY <1>4, <2>1, EffectIsSound
<1>5. ASSUME Step(p, "lr_ok_read", "lr_ar"), V("ok_read")
      PROVE  Sound(p, "lr_ar")
  <2>1. Effect(p, "lr_ar")
    BY <1>5 DEF Effect, SomethingCounted, LockInv, Tested
  <2> QED BY <1>5, <2>1, EffectIsSound
<1>6. ASSUME Step(p, "lr_ar", "lr_release"), V("ar")
      PROVE  Sound(p, "lr_release")
  <2>1. Effect(p, "lr_release")
    BY <1>6 DEF Effect, SomethingCounted
  <2> QED BY <1>6, <2>1, EffectIsSound
<1>7. ASSUME Step(p, "lr_release", "lr_enter"), V("mutex")
      PROVE  Sound(p, "lr_enter")
  <2>1. Effect(p, "lr_enter")
    BY <1>7 DEF Effect
  <2> QED BY <1>7, <2>1, EffectIsSound
<1>8. ASSUME Step(p, "lr_enter", "reading"), P("ok_read")
      PROVE  Sound(p, "reading")
  <2>1. Effect(p, "reading")
    BY <1>8 DEF Effect, SomethingCounted
  <2> QED BY <1>8, <2>1, EffectIsSound
<1> QED BY <1>1, <1>2, <1>3, <1>4, <1>5, <1>6, <1>7, <1>8 DEF lock_reader_WP

LEMMA ReaderReleases ==
  ASSUME LockInv, NEW p \in Lockers, release_reader_WP(p)
  PROVE  \E to : Sound(p, to)
<1> USE DEF Step, Test, AllStay, ThreeStay, Stays, Enters, Leaves,
            WritingPCs, ReadingPCs, GrantWritePCs, GrantReadPCs, MutexPCs,
            NoneActivePCs, NoWriterPCs, OneSide, ReaderPCs, WriterPCs
<1>1. ASSUME Step(p, "rr_mutex", "rr_leave"), P("mutex")
      PROVE  Sound(p, "rr_leave")
  <2>1. Effect(p, "rr_leave")
    BY <1>1 DEF Effect
  <2> QED BY <1>1, <2>1, EffectIsSound
<1>2. ASSUME Step(p, "rr_leave", "rr_test"), P("ar")
      PROVE  Sound(p, "rr_test")
  <2>1. Effect(p, "rr_test")
    BY <1>2 DEF Effect, SomethingCounted
  <2>2. ActiveWriters' = 0
    BY <1>2, LastReader
  <2> QED BY <1>2, <2>1, <2>2, EffectIsSound
<1>3. ASSUME Test(p, "rr_test", "rr_ok_write"), lk["ar"] = 0
      PROVE  Sound(p, "rr_ok_write")
  <2>1. Effect(p, "rr_ok_write")
    BY <1>3 DEF Effect
  <2>2. ActiveWriters = 0 /\ ActiveReaders = 0
    <3>1. Count(GrantReadPCs) = 0
      BY <1>3, AloneInMutex DEF LockInv
    <3> QED BY <1>3, <3>1 DEF ActiveReaders, LockInv, Tested
  <2>3. UNCHANGED <<ActiveWriters, ActiveReaders>>
    BY <1>3, TestKeeps
  <2> QED BY <1>3, <2>1, <2>2, <2>3, EffectIsSound
<1>4. ASSUME Test(p, "rr_test", "rr_release")
      PROVE  Sound(p, "rr_release")
  <2>1. Effect(p, "rr_release")
    BY <1>4 DEF Effect
  <2> QED BY <1>4, <2>1, EffectIsSound
<1>5. ASSUME Step(p, "rr_ok_write", "rr_aw"), V("ok_write")
      PROVE  Sound(p, "rr_aw")
  <2>1. Effect(p, "rr_aw")
    BY <1>5 DEF Effect, SomethingCounted, LockInv, Tested
  <2> QED BY <1>5, <2>1, EffectIsSound
<1>6. ASSUME Step(p, "rr_aw", "rr_ww"), V("aw")
      PROVE  Sound(p, "rr_ww")
  <2>1. Effect(p, "rr_ww")
    BY <1>6 DEF Effect, SomethingCounted
  <2> QED BY <1>6, <2>1, EffectIsSound
<1>7. ASSUME Step(p, "rr_ww", "rr_release"), P("ww")
      PROVE  Sound(p, "rr_release")
  <2>1. Effect(p, "rr_release")
    BY <1>7 DEF Effect
  <2> QED BY <1>7, <2>1, EffectIsSound
<1>8. ASSUME Step(p, "rr_release", "idle"), V("mutex")
      PROVE  Sound(p, "idle")
  <2>1. Effect(p, "idle")
    BY <1>8 DEF Effect
  <2> QED BY <1>8, <2>1, EffectIsSound
<1> QED BY <1>1, <1>2, <1>3, <1>4, <1>5, <1>6, <1>7, <1>8 DEF release_reader_WP

LEMMA WriterLocks ==
  ASSUME LockInv, NEW p \in Lockers, lock_writer_WP(p)
  PROVE  \E to : Sound(p, to)
<1> USE DEF Step, Test, AllStay, ThreeStay, Stays, Enters, Leaves,
            WritingPCs, ReadingPCs, GrantWritePCs, GrantReadPCs, MutexPCs,
            NoneActivePCs, NoWriterPCs, OneSide, ReaderPCs, WriterPCs
<1>1. ASSUME Step(p, "lw_mutex", "lw_test"), P("mutex")
      PROVE  Sound(p, "lw_test")
  <2>1. Effect(p, "lw_test")
    BY <1>1 DEF Effect
  <2> QED BY <1>1, <2>1, EffectIsSound
<1>2. ASSUME Test(p, "lw_test", "lw_ww")
      PROVE  Sound(p, "lw_ww")
  <2>1. Effect(p, "lw_ww")
    BY <1>2 DEF Effect
  <2> QED BY <1>2, <2>1, EffectIsSound
<1>3. ASSUME Test(p, "lw_test", "lw_ok_write"), ~(lk["ar"] + lk["aw"] > 0)
      PROVE  Sound(p, "lw_ok_write")
  <2>1. Effect(p, "lw_ok_write")
    BY <1>3 DEF Effect
  <2>2. ActiveWriters = 0 /\ ActiveReaders = 0
    <3>1. lk["aw"] = 0 /\ lk["ar"] = 0 /\ Count(GrantWritePCs) = 0 /\ Count(GrantReadPCs) = 0
      BY <1>3, AloneInMutex DEF LockInv, LockTypeOK, Sems
    <3> QED BY <3>1 DEF ActiveWriters, ActiveReaders
  <2>3. UNCHANGED <<ActiveWriters, ActiveReaders>>
    BY <1>3, TestKeeps
  <2> QED BY <1>3, <2>1, <2>2, <2>3, EffectIsSound
<1>4. ASSUME Step(p, "lw_ww", "lw_release"), V("ww")
      PROVE  Sound(p, "lw_release")
  <2>1. Effect(p, "lw_release")
    BY <1>4 DEF Effect
  <2> QED BY <1>4, <2>1, EffectIsSound
<1>5. ASSUME Step(p, "lw_ok_write", "lw_aw"), V("ok_write")
      PROVE  Sound(p, "lw_aw")
  <2>1. Effect(p, "lw_aw")
    BY <1>5 DEF Effect, SomethingCounted, LockInv, Tested
  <2> QED BY <1>5, <2>1, EffectIsSound
<1>6. ASSUME Step(p, "lw_aw", "lw_release"), V("aw")
      PROVE  Sound(p, "lw_release")
  <2>1. Effect(p, "lw_release")
    BY <1>6 DEF Effect, SomethingCounted
  <2> QED BY <1>6, <2>1, EffectIsSound
<1>7. ASSUME Step(p, "lw_release", "lw_enter"), V("mutex")
      PROVE  Sound(p, "lw_enter")
  <2>1. Effect(p, "lw_enter")
    BY <1>7 DEF Effect
  <2> QED BY <1>7, <2>1, EffectIsSound
<1>8. ASSUME Step(p, "lw_enter", "writing"), P("ok_write")
      PROVE  Sound(p, "writing")
  <2>1. Effect(p, "writing")
    BY <1>8 DEF Effect, SomethingCounted
  <2> QED BY <1>8, <2>1, EffectIsSound
<1> QED BY <1>1, <1>2, <1>3, <1>4, <1>5, <1>6, <1>7, <1>8 DEF lock_writer_WP

LEMMA WriterReleases ==
  ASSUME LockInv, NEW p \in Lockers, release_writer_WP(p)
  PROVE  \E to : Sound(p, to)
<1> USE DEF Step, Test, AllStay, ThreeStay, Stays, Enters, Leaves,
            WritingPCs, ReadingPCs, GrantWritePCs, GrantReadPCs, MutexPCs,
            NoneActivePCs, NoWriterPCs, OneSide, ReaderPCs, WriterPCs
<1>1. ASSUME Step(p, "rw_mutex", "rw_leave"), P("mutex")
      PROVE  Sound(p, "rw_leave")
  <2>1. Effect(p, "rw_leave")
    BY <1>1 DEF Effect
  <2> QED BY <1>1, <2>1, EffectIsSound
<1>2. ASSUME Step(p, "rw_leave", "rw_test"), P("aw")
      PROVE  Sound(p, "rw_test")
  <2>1. Effect(p, "rw_test")
    BY <1>2 DEF Effect, SomethingCounted
  <2>2. ActiveWriters' = 0 /\ ActiveReaders' = 0
    BY <1>2, LastWriter
  <2> QED BY <1>2, <2>1, <2>2, EffectIsSound
<1>3. ASSUME Test(p, "rw_test", "rw_ok_write")
      PROVE  Sound(p, "rw_ok_write")
  <2>1. Effect(p, "rw_ok_write")
    BY <1>3 DEF Effect
  <2>2. ActiveWriters = 0 /\ ActiveReaders = 0
    BY <1>3 DEF LockInv, Tested
  <2>3. UNCHANGED <<ActiveWriters, ActiveReaders>>
    BY <1>3, TestKeeps
  <2> QED BY <1>3, <2>1, <2>2, <2>3, EffectIsSound
<1>4. ASSUME Test(p, "rw_test", "rw_ok_read")
      PROVE  Sound(p, "rw_ok_read")
  <2>1. Effect(p, "rw_ok_read")
    BY <1>4 DEF Effect
  <2>2. ActiveWriters = 0 /\ ActiveReaders = 0
    BY <1>4 DEF LockInv, Tested
  <2>3. UNCHANGED <<ActiveWriters, ActiveReaders>>
    BY <1>4, TestKeeps
  <2> QED BY <1>4, <2>1, <2>2, <2>3, EffectIsSound
<1>5. ASSUME Test(p, "rw_test", "rw_release")
      PROVE  Sound(p, "rw_release")
  <2>1. Effect(p, "rw_release")
    BY <1>5 DEF Effect
  <2> QED BY <1>5, <2>1, EffectIsSound
<1>6. ASSUME Step(p, "rw_ok_write", "rw_aw"), V("ok_write")
      PROVE  Sound(p, "rw_aw")
  <2>1. Effect(p, "rw_aw")
    BY <1>6 DEF Effect, SomethingCounted, LockInv, Tested
  <2> QED BY <1>6, <2>1, EffectIsSound
<1>7. ASSUME Step(p, "rw_aw", "rw_ww"), V("aw")
      PROVE  Sound(p, "rw_ww")
  <2>1. Effect(p, "rw_ww")
    BY <1>7 DEF Effect, SomethingCounted
  <2> QED BY <1>7, <2>1, EffectIsSound
<1>8. ASSUME Step(p, "rw_ww", "rw_release"), P("ww")
      PROVE  Sound(p, "rw_release")
  <2>1. Effect(p, "rw_release")
    BY <1>8 DEF Effect
  <2> QED BY <1>8, <2>1, EffectIsSound
<1>9. ASSUME Step(p, "rw_ok_read", "rw_ar"), V("ok_read")
      PROVE  Sound(p, "rw_ar")
  <2>1. Effect(p, "rw_ar")
    BY <1>9 DEF Effect, SomethingCounted, LockInv, Tested
  <2> QED BY <1>9, <2>1, EffectIsSound
<1>10. ASSUME Step(p, "rw_ar", "rw_wr"), V("ar")
      PROVE  Sound(p, "rw_wr")
  <2>1. Effect(p, "rw_wr")
    BY <1>10 DEF Effect, SomethingCounted
  <2> QED BY <1>10, <2>1, EffectIsSound
<1>11. ASSUME Step(p, "rw_wr", "rw_release"), P("wr")
      PROVE  Sound(p, "rw_release")
  <2>1. Effect(p, "rw_release")
    BY <1>11 DEF Effect
  <2> QED BY <1>11, <2>1, EffectIsSound
<1>12. ASSUME Step(p, "rw_release", "idle"), V("mutex")
      PROVE  Sound(p, "idle")
  <2>1. Effect(p, "idle")
    BY <1>12 DEF Effect
  <2> QED BY <1>12, <2>1, EffectIsSound
<1> QED BY <1>1, <1>2, <1>3, <1>4, <1>5, <1>6, <1>7, <1>8, <1>9, <1>10, <1>11, <1>12
        DEF release_writer_WP

(* Asking for the lock and starting to give it back count for nothing.       *)
LEMMA CallersSound ==
  ASSUME LockInv, NEW p \in Lockers, Acquire(p) \/ Release(p)
  PROVE  \E to : Sound(p, to)
<1> USE DEF Step, Test, AllStay, ThreeStay, Stays, WritingPCs, ReadingPCs, GrantWritePCs,
            GrantReadPCs, MutexPCs, NoneActivePCs, NoWriterPCs
<1>1. CASE Acquire(p)
  <2> DEFINE to == IF p \in Writers THEN "lw_mutex" ELSE "lr_mutex"
  <2>1. LockTypeOK'
    BY <1>1, LockersAssumption, UsesAssumption
       DEF Acquire, LockInv, LockTypeOK, Lockers, ReaderPCs, WriterPCs
  <2>2. NothingCounted(p, to)
    BY <1>1 DEF Acquire, NothingCounted
  <2>3. Sound(p, to)
    BY <1>1, <2>1, <2>2 DEF Acquire, Sound, Kind
  <2> QED BY <2>3
<1>2. CASE Test(p, "writing", "rw_mutex")
  <2>1. Effect(p, "rw_mutex")
    BY <1>2 DEF Effect
  <2>2. Sound(p, "rw_mutex")
    BY <1>2, <2>1, EffectIsSound DEF OneSide, WriterPCs
  <2> QED BY <2>2
<1>3. CASE Test(p, "reading", "rr_mutex")
  <2>1. Effect(p, "rr_mutex")
    BY <1>3 DEF Effect
  <2>2. Sound(p, "rr_mutex")
    BY <1>3, <2>1, EffectIsSound DEF OneSide, ReaderPCs
  <2> QED BY <2>2
<1> QED BY <1>1, <1>2, <1>3 DEF Release

LEMMA LockInvHolds == LockSpec => []LockInv
<1>1. LockInit => LockInv
  <2> SUFFICES ASSUME LockInit PROVE LockInv
    OBVIOUS
  <2>1. LockTypeOK
    BY UsesAssumption DEF LockInit, LockTypeOK, Sems, ReaderPCs, WriterPCs, Lockers
  <2>2. \A pcs : "idle" \notin pcs => At(pcs) = {} /\ Count(pcs) = 0
    BY FS_EmptySet DEF LockInit, At, Count
  <2>3. /\ At(MutexPCs) = {} /\ Count(WritingPCs) = 0 /\ Count(ReadingPCs) = 0
        /\ Count(GrantWritePCs) = 0 /\ Count(GrantReadPCs) = 0
    BY <2>2 DEF MutexPCs, WritingPCs, ReadingPCs, GrantWritePCs, GrantReadPCs
  <2>4. MutexInv
    BY <2>3 DEF MutexInv, LockInit, Sems
  <2>5. TokensCounted /\ Exclusive
    BY <2>3 DEF TokensCounted, Exclusive, ActiveWriters, ActiveReaders, Writing, Reading,
                Count, LockInit, Sems
  <2>6. Tested
    BY DEF Tested, LockInit
  <2> QED BY <2>1, <2>4, <2>5, <2>6 DEF LockInv
<1>2. LockInv /\ [LockNext]_lockVars => LockInv'
  <2> SUFFICES ASSUME LockInv, [LockNext]_lockVars PROVE LockInv'
    OBVIOUS
  <2>1. CASE UNCHANGED lockVars
    BY <2>1 DEF lockVars, LockInv, LockTypeOK, MutexInv, TokensCounted, Tested, Exclusive,
                ActiveWriters, ActiveReaders, Count, At, Writing, Reading
  <2>2. ASSUME NEW p \in Lockers, LockStep(p) \/ Acquire(p) \/ Release(p) PROVE LockInv'
    <3>1. \E to : Sound(p, to)
      BY <2>2, ReaderLocks, ReaderReleases, WriterLocks, WriterReleases, CallersSound DEF LockStep
    <3> QED BY <3>1, SoundStep
  <2> QED BY <2>1, <2>2 DEF LockNext, AllDone
<1> QED BY <1>1, <1>2, PTL DEF LockSpec

(* Every semaphore of the lock keeps a natural value and every process is at *)
(* an operation of its own side of the lock.                                 *)
THEOREM SeatsLockType == LockSpec => []LockTypeOK
<1>1. LockInv => LockTypeOK
  BY DEF LockInv
<1> QED BY <1>1, LockInvHolds, PTL

(* The counters of the lock tell the truth, in every reachable state.        *)
THEOREM SeatsLockTokens == LockSpec => []TokensCounted
<1>1. LockInv => TokensCounted
  BY DEF LockInv
<1> QED BY <1>1, LockInvHolds, PTL

(* The lock of the seats is exclusive for any number of readers and writers. *)
THEOREM SeatsLockExclusion == LockSpec => []MutualExclusion
<1>1. LockInv => MutualExclusion
  <2> SUFFICES ASSUME LockInv, NEW p \in Writing PROVE Writing = {p} /\ Reading = {}
    BY DEF MutualExclusion
  <2>1. /\ IsFiniteSet(Writing) /\ Cardinality(Writing) \in Nat
        /\ IsFiniteSet(Reading) /\ Cardinality(Reading) \in Nat
        /\ Count(GrantWritePCs) \in Nat /\ Count(GrantReadPCs) \in Nat
    BY LockersFinite DEF Writing, Reading, Count
  <2>2. \A s \in Sems : lk[s] \in Nat
    BY DEF LockInv, LockTypeOK
  <2>3. Cardinality(Writing) # 0
    BY <2>1, FS_EmptySet
  <2>4. Cardinality(Writing) = 1 /\ Cardinality(Reading) = 0
    <3> DEFINE GW == Count(GrantWritePCs)   GR == Count(GrantReadPCs)
    <3>1. /\ lk["ok_write"] + Cardinality(Writing) = lk["aw"] + GW
          /\ lk["ok_read"] + Cardinality(Reading) = lk["ar"] + GR
      BY DEF LockInv, TokensCounted, Count
    <3>2. lk["aw"] + GW <= 1 /\ (lk["aw"] + GW = 1 => lk["ar"] + GR = 0)
      BY DEF LockInv, Exclusive, ActiveWriters, ActiveReaders
    <3>3. /\ lk["ok_write"] \in Nat /\ lk["ok_read"] \in Nat /\ lk["aw"] \in Nat /\ lk["ar"] \in Nat
          /\ GW \in Nat /\ GR \in Nat
      BY <2>1, <2>2 DEF Sems
    <3> DEFINE W == Cardinality(Writing)   R == Cardinality(Reading)
    <3>4. W \in Nat /\ R \in Nat /\ W # 0
      BY <2>1, <2>3
    <3> HIDE DEF GW, GR, W, R
    <3>5. lk["aw"] + GW = 1 /\ W = 1
      BY <3>1, <3>2, <3>3, <3>4 DEF W, R
    <3>6. lk["ar"] + GR = 0
      BY <3>2, <3>5
    <3>7. R = 0
      <4>1. lk["ok_read"] + R = 0
        BY <3>1, <3>6 DEF R
      <4> QED BY <3>3, <3>4, <4>1
    <3> QED BY <3>5, <3>7 DEF W, R
  <2>5. Reading = {}
    BY <2>1, <2>4, FS_EmptySet
  <2>6. ASSUME NEW q \in Writing, q # p PROVE FALSE
    <3>1. Cardinality(Writing \ {p}) = 0 /\ IsFiniteSet(Writing \ {p})
      BY <2>1, <2>4, FS_RemoveElement
    <3>2. Writing \ {p} = {}
      BY <3>1, FS_EmptySet
    <3> QED BY <2>6, <3>2
  <2> QED BY <2>5, <2>6
<1> QED BY <1>1, LockInvHolds, PTL
=============================================================================
