------------------------------ MODULE MCOffice ------------------------------
EXTENDS Office
CONSTANTS u1, w1, w2, s1, s2
MCOneService == [w \in Workers |-> s1]
MCOneSeat    == [s \in Services |-> IF s = s1 THEN {1} ELSE {}]
MCDuration   == [s \in Services |-> 1]
MCList       == {<<s1, s2>>}
=============================================================================
