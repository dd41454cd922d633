------------------------------ MODULE MCSetup ------------------------------
EXTENDS Setup
Small    == [workers |-> 1, users |-> 1, extra |-> 0, seats |-> 2]
Larger   == [workers |-> 2, users |-> 1, extra |-> 1, seats |-> 3]
NoWorker == [workers |-> 0, users |-> 1, extra |-> 0, seats |-> 1]
TooLarge == [workers |-> 1, users |-> 20, extra |-> 0, seats |-> 1]
MCConfigs == {Small, Larger, NoWorker, TooLarge}
MCStamps  == <<7, 7, 3>>
=============================================================================
