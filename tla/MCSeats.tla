------------------------------ MODULE MCSeats ------------------------------
EXTENDS Seats
CONSTANTS w1, w2, w3, s1, s2
MCOneService  == [w \in Writers |-> s1]
MCTwoServices == [w \in Writers |-> IF w = w2 THEN s2 ELSE s1]
MCTwoSeats    == [s \in Services |-> {1, 2}]
MCSeatEach    == [s \in Services |-> IF s = s1 THEN {1} ELSE {2}]
MCOneSeat     == [s \in Services |-> {1}]
============================================================================
