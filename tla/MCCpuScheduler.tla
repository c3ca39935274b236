--------------------------- MODULE MCCpuScheduler ---------------------------
(* Instances of CpuScheduler for TLC.                                      *)
EXTENDS CpuScheduler

CONSTANTS t1, t2, t3, foreign

MCOwnTask == {t1, t2, t3}

(* Lists of three tasks, and one that is refused for each reason.          *)
MCTaskLists == {<<t1, t2, t3>>, <<t2>>, <<t1, t1>>, <<t1, foreign>>}
=============================================================================
