--------------------------- MODULE MCDayBarrier ---------------------------
EXTENDS DayBarrier
CONSTANTS w1, w2, u1, n1, n2
MCNobodyNew == <<>>
MCOneBatch  == <<{n1}>>
MCTwoBatches == <<{n1}, {n2}>>
===========================================================================
