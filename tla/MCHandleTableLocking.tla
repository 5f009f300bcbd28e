----------------------- MODULE MCHandleTableLocking -----------------------
(* Instances of HandleTableLocking for TLC.                                *)
EXTENDS HandleTableLocking

CONSTANTS t1, t2

MCThreads == {t1, t2}
=============================================================================
