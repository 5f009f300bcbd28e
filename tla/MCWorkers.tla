----------------------------- MODULE MCWorkers -----------------------------
(* Instances of Workers for TLC.                                           *)
EXTENDS Workers

CONSTANTS a1, a2, t1, t2

MCAddresses == {a1, a2}
MCObjects == MCAddresses \cup {Static, Buffer}
MCThreads == {t1, t2}
OneOrTwo == {{t1}, {t1, t2}}
Two == {{t1, t2}}
NoIdioms == {{}}
=============================================================================
