--------------------------- MODULE MCEngineSessions ---------------------------
(* Threads and sessions for model checking. *)
EXTENDS EngineSessions

CONSTANTS t1, t2, s1, s2
MCThreads == {t1, t2}
MCSessions == {s1, s2}
=============================================================================
