--------------------------- MODULE EngineLifecycle ---------------------------
(***************************************************************************)
(* The start and the end of engines, nanovllm/engine/llm_engine.py: the    *)
(* constructor, which may fail half way and then calls exit(); exit(),     *)
(* which several threads and the atexit hook may call; and the lease on    *)
(* Python's garbage collector that engines in one process share.           *)
(*                                                                         *)
(* A step is a block under one lock, or a call that may raise.             *)
(***************************************************************************)
EXTENDS Integers, FiniteSets

CONSTANTS
  Engines,
  Threads,
  OptedIn,       \* the engines with disable_python_gc
  MaxToggles     \* bound: changes of the collector by the application

ASSUME EngineLifecycleAssumption ==
  /\ IsFiniteSet(Engines)
  /\ OptedIn \subseteq Engines
  /\ MaxToggles \in Nat

Missing == "None"

VARIABLES
  at,              \* per thread [place, engine]
  life,            \* of each engine: "new", "starting", "live" or "over"
  model_runner,    \* whether an engine has one
  registered,      \* _atexit_registered
  lease_active,    \* _python_gc_lease_active
  exit_started,
  exit_complete,
  count,           \* _PYTHON_GC_LEASE_COUNT
  pre_first,       \* _PYTHON_GC_PRE_FIRST_ENABLED: {} or the set of its value
  gc_enabled,      \* the collector
  wanted,          \* what the application last made of it
  toggles

vars == <<at, life, model_runner, registered, lease_active, exit_started, exit_complete,
          count, pre_first, gc_enabled, wanted, toggles>>

lease == <<count, pre_first, gc_enabled>>
user == <<wanted, toggles>>
exits == <<exit_started, exit_complete>>

Nowhere == [place |-> "out", engine |-> Missing]
Place(t) == at[t].place
E(t) == at[t].engine
Goto(t, place) == at' = [at EXCEPT ![t].place = place]
Leave(t) == at' = [at EXCEPT ![t] = Nowhere]
Enter(t, place, e) == Place(t) = "out" /\ at' = [at EXCEPT ![t] = [place |-> place, engine |-> e]]

-----------------------------------------------------------------------------
(* The lease: each operation is one block under _PYTHON_GC_LEASE_LOCK *)

Baseline == IF count = 0 THEN {gc_enabled} ELSE pre_first

\* Mutant: every engine remembers the state it finds.
AcquireEach ==
  /\ pre_first' = {gc_enabled}
  /\ gc_enabled' = FALSE
  /\ count' = count + 1

_acquire_python_gc_lease ==
  /\ pre_first' = Baseline
  /\ gc_enabled' = FALSE
  /\ count' = count + 1

\* gc.disable() raises: a first owner takes its note back.
AcquireFails == UNCHANGED lease

_release_python_gc_lease ==
  /\ count' = count - 1
  /\ gc_enabled' = (count = 1 /\ TRUE \in pre_first)
  /\ pre_first' = IF count = 1 THEN {} ELSE pre_first

\* "unrelated code must not toggle cyclic GC while it is active".
Toggle ==
  /\ count = 0
  /\ toggles < MaxToggles
  /\ toggles' = toggles + 1
  /\ wanted' = ~wanted
  /\ gc_enabled' = ~gc_enabled
  /\ UNCHANGED <<at, life, model_runner, registered, lease_active, exits, count, pre_first>>

-----------------------------------------------------------------------------
(* The constructor *)

__init__(t, e) ==
  /\ life[e] = "new"
  /\ Enter(t, "build", e)
  /\ life' = [life EXCEPT ![e] = "starting"]
  /\ UNCHANGED <<model_runner, registered, lease_active, exits, lease, user>>

\* Workers and runner; a failure before there is a runner only stops the workers.
Build(t) ==
  /\ Place(t) = "build"
  /\ \/ /\ model_runner' = [model_runner EXCEPT ![E(t)] = TRUE]
        /\ Goto(t, "register")
        /\ UNCHANGED life
     \/ /\ life' = [life EXCEPT ![E(t)] = "over"]
        /\ Leave(t)
        /\ UNCHANGED model_runner
  /\ UNCHANGED <<registered, lease_active, exits, lease, user>>

\* Scheduler and atexit hook; from here on a failure goes through exit().
Register(t) ==
  /\ Place(t) = "register"
  /\ \/ /\ registered' = [registered EXCEPT ![E(t)] = TRUE]
        /\ Goto(t, IF E(t) \in OptedIn THEN "acquire" ELSE "finish")
     \/ Goto(t, "claim") /\ UNCHANGED registered
  /\ UNCHANGED <<life, model_runner, lease_active, exits, lease, user>>

Acquire(t) ==
  /\ Place(t) = "acquire"
  /\ \/ /\ _acquire_python_gc_lease
        /\ lease_active' = [lease_active EXCEPT ![E(t)] = TRUE]
        /\ Goto(t, "finish")
     \/ /\ AcquireFails
        /\ Goto(t, "claim")
        /\ UNCHANGED lease_active
  /\ UNCHANGED <<life, model_runner, registered, exits, user>>

\* Only now does anybody but its constructor know the engine.
Finish(t) ==
  /\ Place(t) = "finish"
  /\ life' = [life EXCEPT ![E(t)] = "live"]
  /\ Leave(t)
  /\ UNCHANGED <<model_runner, registered, lease_active, exits, lease, user>>

-----------------------------------------------------------------------------
(* exit() *)

\* Called by any thread, any number of times; the atexit hook is such a call.
exit(t, e) ==
  /\ life[e] \in {"live", "over"}
  /\ life[e] = "over" => exit_started[e]
  /\ Enter(t, "claim", e)
  /\ UNCHANGED <<life, model_runner, registered, lease_active, exits, lease, user>>

Claim(t) ==
  /\ Place(t) = "claim"
  /\ \/ exit_started[E(t)] /\ Goto(t, "await") /\ UNCHANGED exit_started
     \/ /\ ~exit_started[E(t)]
        /\ exit_started' = [exit_started EXCEPT ![E(t)] = TRUE]
        /\ Goto(t, "teardown")
  /\ UNCHANGED <<life, model_runner, registered, lease_active, exit_complete, lease, user>>

\* Mutant: only the owner of the cleanup knows that it is over.
MayReturnAtOnce(e) == TRUE

MayReturn(e) == exit_complete[e]

Await(t) ==
  /\ Place(t) = "await"
  /\ MayReturn(E(t))
  /\ Leave(t)
  /\ UNCHANGED <<life, model_runner, registered, lease_active, exits, lease, user>>

\* The runner's exit and the joins, whether they raise or not.
Teardown(t) ==
  /\ Place(t) = "teardown"
  /\ model_runner' = [model_runner EXCEPT ![E(t)] = FALSE]
  /\ Goto(t, "restore")
  /\ UNCHANGED <<life, registered, lease_active, exit_started, exit_complete, lease, user>>

\* Mutant: every exit() releases, whether the engine took the lease or not.
OwesNothingNever(e) == FALSE

OwesNothing(e) == ~lease_active[e]

_restore_python_gc(t) ==
  /\ Place(t) = "restore"
  /\ lease_active' = [lease_active EXCEPT ![E(t)] = FALSE]
  /\ Goto(t, IF OwesNothing(E(t)) THEN "unregister" ELSE "release")
  /\ UNCHANGED <<life, model_runner, registered, exits, lease, user>>

Release(t) ==
  /\ Place(t) = "release"
  /\ _release_python_gc_lease
  /\ Goto(t, "unregister")
  /\ UNCHANGED <<life, model_runner, registered, lease_active, exits, user>>

\* Mutant: an exit() that raises leaves the others waiting.
CompleteIfFine(e) ==
  \/ exit_complete' = [exit_complete EXCEPT ![e] = TRUE]
  \/ UNCHANGED exit_complete

Complete(e) == exit_complete' = [exit_complete EXCEPT ![e] = TRUE]

Unregister(t) ==
  /\ Place(t) = "unregister"
  /\ registered' = [registered EXCEPT ![E(t)] = FALSE]
  /\ Complete(E(t))
  /\ life' = [life EXCEPT ![E(t)] = "over"]
  /\ Leave(t)
  /\ UNCHANGED <<model_runner, lease_active, exit_started, lease, user>>

-----------------------------------------------------------------------------
(* Specification *)

Init ==
  /\ at = [t \in Threads |-> Nowhere]
  /\ life = [e \in Engines |-> "new"]
  /\ model_runner = [e \in Engines |-> FALSE]
  /\ registered = [e \in Engines |-> FALSE]
  /\ lease_active = [e \in Engines |-> FALSE]
  /\ exit_started = [e \in Engines |-> FALSE]
  /\ exit_complete = [e \in Engines |-> FALSE]
  /\ count = 0
  /\ pre_first = {}
  /\ gc_enabled \in BOOLEAN
  /\ wanted = gc_enabled
  /\ toggles = 0

Continue(t) ==
  \/ Build(t) \/ Register(t) \/ Acquire(t) \/ Finish(t) \/ Claim(t) \/ Await(t)
  \/ Teardown(t) \/ _restore_python_gc(t) \/ Release(t) \/ Unregister(t)

\* Nobody starts or ends an engine, and applications may leave it at that.  (That no
\* thread is left waiting then is ExitsReturn.)
Rest == (\A t \in Threads : Place(t) \in {"out", "await"}) /\ UNCHANGED vars

Next ==
  \/ \E t \in Threads, e \in Engines : __init__(t, e) \/ exit(t, e)
  \/ \E t \in Threads : Continue(t)
  \/ Toggle
  \/ Rest

Spec == Init /\ [][Next]_vars

\* Threads run; a constructor, a runner's exit and a join end.  Nobody has to call exit().
FairSpec == Spec /\ \A t \in Threads : WF_vars(Continue(t))

-----------------------------------------------------------------------------
(* Properties *)

Releasing(e) == \E t \in Threads : at[t] = [place |-> "release", engine |-> e]

\* The count is the number of engines that still have to release: no failed
\* constructor keeps a lease, none is released twice, and so none underflows.
LeaseCountIsExact ==
  count = Cardinality({e \in Engines : lease_active[e] \/ Releasing(e)})

\* The collector is off while an engine that asked for it lives, whichever others come
\* and go, and "the final exit() restores the state that existed before the first
\* lease".
GcFollowsLease ==
  /\ \A e \in Engines : lease_active[e] => ~gc_enabled
  /\ count = 0 => gc_enabled = wanted

\* However many threads call exit(), the runner is told to exit once; and whoever comes
\* back, the caller that waited too, finds the engine torn down and its lease given
\* back.
ExitIsOver ==
  [][\A t \in Threads :
       /\ (Place(t) = "teardown" /\ Place(t)' # "teardown") => model_runner[E(t)]
       /\ (Place(t) \in {"await", "unregister"} /\ Place(t)' = "out") =>
            /\ ~model_runner[E(t)]
            /\ ~lease_active[E(t)]
            /\ ~Releasing(E(t))]_vars

\* Every exit() returns.
ExitsReturn == \A t \in Threads : Place(t) = "claim" ~> Place(t) = "out"
=============================================================================
