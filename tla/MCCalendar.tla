----------------------------- MODULE MCCalendar -----------------------------
EXTENDS Calendar, TLC
CONSTANTS u1, u2, u3
MCWishes == {[time |-> 1, duration |-> 1], [time |-> 2, duration |-> 2],
             [time |-> 4, duration |-> 2], [time |-> 2, duration |-> 1]}
Symmetry == Permutations(Users)
=============================================================================
