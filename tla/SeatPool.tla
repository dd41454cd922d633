----------------------------- MODULE SeatPool -----------------------------
(***************************************************************************)
(* What the seats promise to the workers, without semaphores, lock or      *)
(* table: every service has a number of seats, a worker who asks gets one  *)
(* or is refused because all are held, and a new day starts with all free. *)
(* Seats implements it.                                                    *)
(***************************************************************************)
EXTENDS Naturals, FiniteSets

CONSTANTS
  Workers,    \* the worker processes
  Services,   \* the services
  ServiceOf,  \* the service each worker is assigned to
  NofSeats    \* the seats of each service

VARIABLES
  holding,  \* the workers who hold a seat
  refused   \* the workers who were refused one and wait

vars == <<holding, refused>>

Holders(s) == {w \in holding : ServiceOf[w] = s}
Full(s) == Cardinality(Holders(s)) = NofSeats[s]

Init == holding = {} /\ refused = {}

Take(w) ==
  /\ w \notin holding /\ ~Full(ServiceOf[w])
  /\ holding' = holding \cup {w}
  /\ refused' = refused \ {w}

Refuse(w) ==
  /\ w \notin holding /\ Full(ServiceOf[w])
  /\ refused' = refused \cup {w}
  /\ UNCHANGED holding

Leave(w) ==
  /\ w \in holding \cup refused
  /\ holding' = holding \ {w}
  /\ refused' = refused \ {w}

Next == \E w \in Workers : Take(w) \/ Refuse(w) \/ Leave(w)

Spec == Init /\ [][Next]_vars

(* No service ever has more workers than seats. *)
NeverOverbooked == \A s \in Services : Cardinality(Holders(s)) <= NofSeats[s]
===========================================================================
