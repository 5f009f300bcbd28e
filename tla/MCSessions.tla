---------------------------- MODULE MCSessions ----------------------------
(* Instances of Sessions for TLC.                                          *)
EXTENDS Sessions

CONSTANTS t1, t2

MCThreads == {t1, t2}
OneOrTwo == {{t1}, {t1, t2}}
Two == {{t1, t2}}
=============================================================================
