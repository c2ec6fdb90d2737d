------------------------------ MODULE MCSessions ------------------------------
(* Values for the runs of Sessions.                                         *)
EXTENDS Sessions

CONSTANTS t1, t2, u1, u2, a1, a2

TwoThreads == {t1, t2}
TwoUsers == {u1, u2}
TwoAddrs == {a1, a2}

===============================================================================
