-------------------------- MODULE MCEngineLifecycle --------------------------
(* Engines and threads for model checking. *)
EXTENDS EngineLifecycle

CONSTANTS t1, t2, t3, e1, e2, e3
MCThreads == {t1, t2, t3}
MCEngines == {e1, e2, e3}
MCOptedIn == {e1, e2}
=============================================================================
