------------------------- MODULE EngineLifecycleProofs -------------------------
(***************************************************************************)
(* Proofs about the start and the end of engines, for any number of        *)
(* engines and threads: the count of the garbage-collector lease, the      *)
(* state of the collector, and what a returning exit() has achieved.       *)
(***************************************************************************)
EXTENDS EngineLifecycle, FiniteSetTheorems, TLAPS

-----------------------------------------------------------------------------
(* The inductive invariant *)

Building == {"build", "register", "acquire", "finish"}
Cleaning == {"teardown", "restore", "release", "unregister"}
Places == {"out", "claim", "await"} \cup Building \cup Cleaning

AtType == [Threads -> [place : Places, engine : Engines \cup {Missing}]]

\* Every field of the engines, of the lease and of the threads keeps its type.
TypeOK ==
  /\ at \in AtType
  /\ life \in [Engines -> {"new", "starting", "live", "over"}]
  /\ model_runner \in [Engines -> BOOLEAN]
  /\ registered \in [Engines -> BOOLEAN]
  /\ lease_active \in [Engines -> BOOLEAN]
  /\ exit_started \in [Engines -> BOOLEAN]
  /\ exit_complete \in [Engines -> BOOLEAN]
  /\ count \in Nat
  /\ pre_first \in SUBSET BOOLEAN
  /\ gc_enabled \in BOOLEAN
  /\ wanted \in BOOLEAN
  /\ toggles \in Nat

\* Thread t is in the constructor or in exit() of e.
On(t, e) == Place(t) # "out" /\ E(t) = e

\* What the place of a thread says of its engine.
ThreadInv(t, e) ==
  /\ Place(t) \in Building => life[e] = "starting" /\ ~exit_started[e]
  /\ Place(t) \in {"build", "register", "acquire"} => ~lease_active[e]
  /\ Place(t) \in {"register", "acquire", "finish"} => model_runner[e]
  /\ Place(t) = "claim" =>
       /\ life[e] = "starting" => ~exit_started[e]
       /\ ~exit_started[e] => model_runner[e] /\ life[e] \in {"starting", "live"}
  /\ Place(t) = "await" => exit_started[e] /\ life[e] # "starting"
  /\ Place(t) \in Cleaning =>
       exit_started[e] /\ ~exit_complete[e] /\ life[e] \in {"starting", "live"}
  /\ Place(t) = "teardown" => model_runner[e]
  /\ Place(t) \in {"restore", "release", "unregister"} => ~model_runner[e]
  /\ Place(t) \in {"release", "unregister"} => ~lease_active[e]

\* An engine that is starting has one thread, and one thread cleans up.
EngineInv(e) ==
  /\ life[e] = "new" =>
       /\ \A t \in Threads : ~On(t, e)
       /\ ~exit_started[e] /\ ~exit_complete[e] /\ ~lease_active[e]
  /\ life[e] = "starting" => \A t, u \in Threads : On(t, e) /\ On(u, e) => t = u
  /\ life[e] = "live" /\ ~exit_started[e] => model_runner[e]
  /\ life[e] = "over" /\ ~exit_started[e] => \A t \in Threads : ~On(t, e)
  /\ life[e] = "over" /\ exit_started[e] => exit_complete[e]
  /\ exit_complete[e] =>
       exit_started[e] /\ ~model_runner[e] /\ ~lease_active[e] /\ life[e] = "over"
  /\ \A t, u \in Threads :
       On(t, e) /\ On(u, e) /\ Place(t) \in Cleaning /\ Place(u) \in Cleaning => t = u

\* The lease remembers what the application wanted as long as somebody holds it.
GcInv ==
  IF count = 0 THEN pre_first = {} /\ gc_enabled = wanted
  ELSE pre_first = {wanted} /\ ~gc_enabled

IInv ==
  /\ TypeOK
  /\ \A t \in Threads : Place(t) # "out" => E(t) \in Engines /\ ThreadInv(t, E(t))
  /\ \A e \in Engines : EngineInv(e)
  /\ LeaseCountIsExact
  /\ GcInv

Holders == {e \in Engines : lease_active[e] \/ Releasing(e)}

-----------------------------------------------------------------------------
(* Steps of the constructor and of exit() *)

\* A thread that enters an engine: the constructor, or one more exit().
LEMMA EnterKeepsInv ==
  ASSUME IInv, NEW t \in Threads, NEW e \in Engines, __init__(t, e) \/ exit(t, e)
  PROVE  IInv'
<1>1. /\ TypeOK
      /\ \A u \in Threads : Place(u) # "out" => E(u) \in Engines /\ ThreadInv(u, E(u))
      /\ \A d \in Engines : EngineInv(d)
  BY DEF IInv
<1>2. PICK place \in {"build", "claim"} :
        /\ at[t].place = "out"
        /\ at' = [at EXCEPT ![t] = [place |-> place, engine |-> e]]
        /\ UNCHANGED <<model_runner, registered, lease_active, exits, lease, user>>
        /\ place = "build" => life[e] = "new" /\ life' = [life EXCEPT ![e] = "starting"]
        /\ place = "claim" =>
             /\ life[e] \in {"live", "over"}
             /\ life[e] = "over" => exit_started[e]
             /\ UNCHANGED life
  BY DEF __init__, exit, Enter, Place
<1>3. TypeOK'
  BY <1>1, <1>2 DEF TypeOK, AtType, Places, Building, lease, user, exits
<1>4. \A u \in Threads : Place(u)' # "out" => E(u)' \in Engines /\ ThreadInv(u, E(u))'
  BY <1>1, <1>2 DEF TypeOK, AtType, Places, Building, Cleaning, lease, user, exits, ThreadInv,
     EngineInv, Place, E, On
<1>5. \A d \in Engines : EngineInv(d)'
  BY <1>1, <1>2 DEF TypeOK, AtType, Places, Building, Cleaning, lease, user, exits, ThreadInv,
     EngineInv, Place, E, On
<1>6. Holders' = Holders
  BY <1>1, <1>2 DEF TypeOK, AtType, lease, Holders, Releasing
<1>7. LeaseCountIsExact' /\ GcInv'
  BY <1>2, <1>6 DEF IInv, LeaseCountIsExact, GcInv, Holders, lease, user
<1> QED BY <1>3, <1>4, <1>5, <1>7 DEF IInv

\* Workers and runner are there, or the constructor has failed without a trace.
LEMMA BuildKeepsInv ==
  ASSUME IInv, NEW t \in Threads, Build(t)
  PROVE  IInv'
<1> DEFINE e == E(t)
<1>1. /\ TypeOK
      /\ \A u \in Threads : Place(u) # "out" => E(u) \in Engines /\ ThreadInv(u, E(u))
      /\ \A d \in Engines : EngineInv(d)
  BY DEF IInv
<1>2. /\ at[t].place = "build"
      /\ \/ /\ model_runner' = [model_runner EXCEPT ![e] = TRUE]
            /\ at' = [at EXCEPT ![t].place = "register"]
            /\ UNCHANGED life
         \/ /\ life' = [life EXCEPT ![e] = "over"]
            /\ at' = [at EXCEPT ![t] = Nowhere]
            /\ UNCHANGED model_runner
      /\ UNCHANGED <<registered, lease_active, exits, lease, user>>
  BY DEF Build, Goto, Leave, Place, E
<1>3. e \in Engines /\ ThreadInv(t, e) /\ EngineInv(e)
  BY <1>1, <1>2 DEF Place
<1>4. TypeOK'
  <2>1. (at \in AtType)'
    BY <1>1, <1>2, <1>3 DEF TypeOK, AtType, Places, Building, Cleaning, Nowhere
  <2> QED BY <1>1, <1>2, <1>3, <2>1 DEF TypeOK, lease, user, exits
<1>5. \A u \in Threads : Place(u)' # "out" => E(u)' \in Engines /\ ThreadInv(u, E(u))'
  BY <1>1, <1>2, <1>3 DEF TypeOK, AtType, Places, Building, Cleaning, Nowhere, lease, user, exits,
     ThreadInv, EngineInv, Place, E, On
<1>6. \A d \in Engines : EngineInv(d)'
  BY <1>1, <1>2, <1>3, SMTT(30) DEF TypeOK, AtType, Places, Building, Cleaning, Nowhere, lease, user, exits,
     ThreadInv, EngineInv, Place, E, On
<1>7. Holders' = Holders
  BY <1>1, <1>2, <1>3 DEF TypeOK, AtType, Nowhere, lease, Holders, Releasing
<1>8. LeaseCountIsExact' /\ GcInv'
  BY <1>2, <1>7 DEF IInv, LeaseCountIsExact, GcInv, Holders, lease, user
<1> QED BY <1>4, <1>5, <1>6, <1>8 DEF IInv

\* From the registration on a failure takes the way of exit().
LEMMA RegisterKeepsInv ==
  ASSUME IInv, NEW t \in Threads, Register(t)
  PROVE  IInv'
<1> DEFINE e == E(t)
<1>1. /\ TypeOK
      /\ \A u \in Threads : Place(u) # "out" => E(u) \in Engines /\ ThreadInv(u, E(u))
      /\ \A d \in Engines : EngineInv(d)
  BY DEF IInv
<1>2. /\ at[t].place = "register"
      /\ \E place \in {"acquire", "finish", "claim"} : at' = [at EXCEPT ![t].place = place]
      /\ registered' = [registered EXCEPT ![e] = TRUE] \/ UNCHANGED registered
      /\ UNCHANGED <<life, model_runner, lease_active, exits, lease, user>>
  BY DEF Register, Goto, Leave, Place, E
<1>3. e \in Engines /\ ThreadInv(t, e) /\ EngineInv(e)
  BY <1>1, <1>2 DEF Place
<1>4. TypeOK'
  <2>1. (at \in AtType)'
    BY <1>1, <1>2, <1>3 DEF TypeOK, AtType, Places, Building, Cleaning, Nowhere
  <2> QED BY <1>1, <1>2, <1>3, <2>1 DEF TypeOK, lease, user, exits
<1>5. \A u \in Threads : Place(u)' # "out" => E(u)' \in Engines /\ ThreadInv(u, E(u))'
  BY <1>1, <1>2, <1>3 DEF TypeOK, AtType, Places, Building, Cleaning, Nowhere, lease, user, exits,
     ThreadInv, EngineInv, Place, E, On
<1>6. \A d \in Engines : EngineInv(d)'
  BY <1>1, <1>2, <1>3 DEF TypeOK, AtType, Places, Building, Cleaning, Nowhere, lease, user, exits,
     ThreadInv, EngineInv, Place, E, On
<1>7. Holders' = Holders
  BY <1>1, <1>2, <1>3 DEF TypeOK, AtType, Nowhere, lease, Holders, Releasing
<1>8. LeaseCountIsExact' /\ GcInv'
  BY <1>2, <1>7 DEF IInv, LeaseCountIsExact, GcInv, Holders, lease, user
<1> QED BY <1>4, <1>5, <1>6, <1>8 DEF IInv

\* The engine becomes known to others.
LEMMA FinishKeepsInv ==
  ASSUME IInv, NEW t \in Threads, Finish(t)
  PROVE  IInv'
<1> DEFINE e == E(t)
<1>1. /\ TypeOK
      /\ \A u \in Threads : Place(u) # "out" => E(u) \in Engines /\ ThreadInv(u, E(u))
      /\ \A d \in Engines : EngineInv(d)
  BY DEF IInv
<1>2. /\ at[t].place = "finish"
      /\ life' = [life EXCEPT ![e] = "live"]
      /\ at' = [at EXCEPT ![t] = Nowhere]
      /\ UNCHANGED <<model_runner, registered, lease_active, exits, lease, user>>
  BY DEF Finish, Goto, Leave, Place, E
<1>3. e \in Engines /\ ThreadInv(t, e) /\ EngineInv(e)
  BY <1>1, <1>2 DEF Place
<1>4. TypeOK'
  <2>1. (at \in AtType)'
    BY <1>1, <1>2, <1>3 DEF TypeOK, AtType, Places, Building, Cleaning, Nowhere
  <2> QED BY <1>1, <1>2, <1>3, <2>1 DEF TypeOK, lease, user, exits
<1>5. \A u \in Threads : Place(u)' # "out" => E(u)' \in Engines /\ ThreadInv(u, E(u))'
  BY <1>1, <1>2, <1>3 DEF TypeOK, AtType, Places, Building, Cleaning, Nowhere, lease, user, exits,
     ThreadInv, EngineInv, Place, E, On
<1>6. \A d \in Engines : EngineInv(d)'
  BY <1>1, <1>2, <1>3 DEF TypeOK, AtType, Places, Building, Cleaning, Nowhere, lease, user, exits,
     ThreadInv, EngineInv, Place, E, On
<1>7. Holders' = Holders
  BY <1>1, <1>2, <1>3 DEF TypeOK, AtType, Nowhere, lease, Holders, Releasing
<1>8. LeaseCountIsExact' /\ GcInv'
  BY <1>2, <1>7 DEF IInv, LeaseCountIsExact, GcInv, Holders, lease, user
<1> QED BY <1>4, <1>5, <1>6, <1>8 DEF IInv

\* Only the first exit() becomes the cleanup.
LEMMA ClaimKeepsInv ==
  ASSUME IInv, NEW t \in Threads, Claim(t)
  PROVE  IInv'
<1> DEFINE e == E(t)
<1>1. /\ TypeOK
      /\ \A u \in Threads : Place(u) # "out" => E(u) \in Engines /\ ThreadInv(u, E(u))
      /\ \A d \in Engines : EngineInv(d)
  BY DEF IInv
<1>2. /\ at[t].place = "claim"
      /\ \/ /\ exit_started[e]
            /\ at' = [at EXCEPT ![t].place = "await"]
            /\ UNCHANGED exit_started
         \/ /\ ~exit_started[e]
            /\ exit_started' = [exit_started EXCEPT ![e] = TRUE]
            /\ at' = [at EXCEPT ![t].place = "teardown"]
      /\ UNCHANGED <<life, model_runner, registered, lease_active, exit_complete, lease, user>>
  BY DEF Claim, Goto, Leave, Place, E
<1>3. e \in Engines /\ ThreadInv(t, e) /\ EngineInv(e)
  BY <1>1, <1>2 DEF Place
<1>4. TypeOK'
  <2>1. (at \in AtType)'
    BY <1>1, <1>2, <1>3 DEF TypeOK, AtType, Places, Building, Cleaning, Nowhere
  <2> QED BY <1>1, <1>2, <1>3, <2>1 DEF TypeOK, lease, user, exits
<1>5. \A u \in Threads : Place(u)' # "out" => E(u)' \in Engines /\ ThreadInv(u, E(u))'
  BY <1>1, <1>2, <1>3, SMTT(30) DEF TypeOK, AtType, Places, Building, Cleaning, Nowhere, lease, user, exits,
     ThreadInv, EngineInv, Place, E, On
<1>6. \A d \in Engines : EngineInv(d)'
  <2> SUFFICES ASSUME NEW d \in Engines PROVE EngineInv(d)'
    OBVIOUS
  <2>1. \A u \in Threads :
          /\ E(u)' = E(u)
          /\ Place(u)' = IF u = t THEN (IF exit_started[e] THEN "await" ELSE "teardown")
                         ELSE Place(u)
    BY <1>1, <1>2 DEF TypeOK, AtType, Place, E
  <2>2. exit_started'[d] = (exit_started[d] \/ d = e)
    BY <1>1, <1>2, <1>3 DEF TypeOK
  <2>3. Place(t) = "claim"
    BY <1>2 DEF Place
  <2>4. EngineInv(d) /\ \A u \in Threads : On(u, d) => ThreadInv(u, d)
    BY <1>1 DEF On
  <2> QED BY <1>2, <1>3, <2>1, <2>2, <2>3, <2>4, ZenonT(60) DEF EngineInv, ThreadInv, On, Building, Cleaning
<1>7. Holders' = Holders
  BY <1>1, <1>2, <1>3 DEF TypeOK, AtType, Nowhere, lease, Holders, Releasing
<1>8. LeaseCountIsExact' /\ GcInv'
  BY <1>2, <1>7 DEF IInv, LeaseCountIsExact, GcInv, Holders, lease, user
<1> QED BY <1>4, <1>5, <1>6, <1>8 DEF IInv

\* A later exit() returns.
LEMMA AwaitKeepsInv ==
  ASSUME IInv, NEW t \in Threads, Await(t)
  PROVE  IInv'
<1> DEFINE e == E(t)
<1>1. /\ TypeOK
      /\ \A u \in Threads : Place(u) # "out" => E(u) \in Engines /\ ThreadInv(u, E(u))
      /\ \A d \in Engines : EngineInv(d)
  BY DEF IInv
<1>2. /\ at[t].place = "await"
      /\ at' = [at EXCEPT ![t] = Nowhere]
      /\ UNCHANGED <<life, model_runner, registered, lease_active, exits, lease, user>>
  BY DEF Await, Goto, Leave, Place, E
<1>3. e \in Engines /\ ThreadInv(t, e) /\ EngineInv(e)
  BY <1>1, <1>2 DEF Place
<1>4. TypeOK'
  <2>1. (at \in AtType)'
    BY <1>1, <1>2, <1>3 DEF TypeOK, AtType, Places, Building, Cleaning, Nowhere
  <2> QED BY <1>1, <1>2, <1>3, <2>1 DEF TypeOK, lease, user, exits
<1>5. \A u \in Threads : Place(u)' # "out" => E(u)' \in Engines /\ ThreadInv(u, E(u))'
  BY <1>1, <1>2, <1>3 DEF TypeOK, AtType, Places, Building, Cleaning, Nowhere, lease, user, exits,
     ThreadInv, EngineInv, Place, E, On
<1>6. \A d \in Engines : EngineInv(d)'
  BY <1>1, <1>2, <1>3 DEF TypeOK, AtType, Places, Building, Cleaning, Nowhere, lease, user, exits,
     ThreadInv, EngineInv, Place, E, On
<1>7. Holders' = Holders
  BY <1>1, <1>2, <1>3 DEF TypeOK, AtType, Nowhere, lease, Holders, Releasing
<1>8. LeaseCountIsExact' /\ GcInv'
  BY <1>2, <1>7 DEF IInv, LeaseCountIsExact, GcInv, Holders, lease, user
<1> QED BY <1>4, <1>5, <1>6, <1>8 DEF IInv

\* The runner goes before the lease.
LEMMA TeardownKeepsInv ==
  ASSUME IInv, NEW t \in Threads, Teardown(t)
  PROVE  IInv'
<1> DEFINE e == E(t)
<1>1. /\ TypeOK
      /\ \A u \in Threads : Place(u) # "out" => E(u) \in Engines /\ ThreadInv(u, E(u))
      /\ \A d \in Engines : EngineInv(d)
  BY DEF IInv
<1>2. /\ at[t].place = "teardown"
      /\ model_runner' = [model_runner EXCEPT ![e] = FALSE]
      /\ at' = [at EXCEPT ![t].place = "restore"]
      /\ UNCHANGED <<life, registered, lease_active, exit_started, exit_complete, lease, user>>
  BY DEF Teardown, Goto, Leave, Place, E
<1>3. e \in Engines /\ ThreadInv(t, e) /\ EngineInv(e)
  BY <1>1, <1>2 DEF Place
<1>4. TypeOK'
  <2>1. (at \in AtType)'
    BY <1>1, <1>2, <1>3 DEF TypeOK, AtType, Places, Building, Cleaning, Nowhere
  <2> QED BY <1>1, <1>2, <1>3, <2>1 DEF TypeOK, lease, user, exits
<1>5. \A u \in Threads : Place(u)' # "out" => E(u)' \in Engines /\ ThreadInv(u, E(u))'
  BY <1>1, <1>2, <1>3 DEF TypeOK, AtType, Places, Building, Cleaning, Nowhere, lease, user, exits,
     ThreadInv, EngineInv, Place, E, On
<1>6. \A d \in Engines : EngineInv(d)'
  BY <1>1, <1>2, <1>3 DEF TypeOK, AtType, Places, Building, Cleaning, Nowhere, lease, user, exits,
     ThreadInv, EngineInv, Place, E, On
<1>7. Holders' = Holders
  BY <1>1, <1>2, <1>3 DEF TypeOK, AtType, Nowhere, lease, Holders, Releasing
<1>8. LeaseCountIsExact' /\ GcInv'
  BY <1>2, <1>7 DEF IInv, LeaseCountIsExact, GcInv, Holders, lease, user
<1> QED BY <1>4, <1>5, <1>6, <1>8 DEF IInv

\* The cleanup is complete.
LEMMA UnregisterKeepsInv ==
  ASSUME IInv, NEW t \in Threads, Unregister(t)
  PROVE  IInv'
<1> DEFINE e == E(t)
<1>1. /\ TypeOK
      /\ \A u \in Threads : Place(u) # "out" => E(u) \in Engines /\ ThreadInv(u, E(u))
      /\ \A d \in Engines : EngineInv(d)
  BY DEF IInv
<1>2. /\ at[t].place = "unregister"
      /\ registered' = [registered EXCEPT ![e] = FALSE]
      /\ exit_complete' = [exit_complete EXCEPT ![e] = TRUE]
      /\ life' = [life EXCEPT ![e] = "over"]
      /\ at' = [at EXCEPT ![t] = Nowhere]
      /\ UNCHANGED <<model_runner, lease_active, exit_started, lease, user>>
  BY DEF Unregister, Goto, Leave, Place, E, Complete
<1>3. e \in Engines /\ ThreadInv(t, e) /\ EngineInv(e)
  BY <1>1, <1>2 DEF Place
<1>4. TypeOK'
  <2>1. (at \in AtType)'
    BY <1>1, <1>2, <1>3 DEF TypeOK, AtType, Places, Building, Cleaning, Nowhere
  <2> QED BY <1>1, <1>2, <1>3, <2>1 DEF TypeOK, lease, user, exits
<1>5. \A u \in Threads : Place(u)' # "out" => E(u)' \in Engines /\ ThreadInv(u, E(u))'
  BY <1>1, <1>2, <1>3 DEF TypeOK, AtType, Places, Building, Cleaning, Nowhere, lease, user, exits,
     ThreadInv, EngineInv, Place, E, On
<1>6. \A d \in Engines : EngineInv(d)'
  BY <1>1, <1>2, <1>3 DEF TypeOK, AtType, Places, Building, Cleaning, Nowhere, lease, user, exits,
     ThreadInv, EngineInv, Place, E, On
<1>7. Holders' = Holders
  BY <1>1, <1>2, <1>3 DEF TypeOK, AtType, Nowhere, lease, Holders, Releasing
<1>8. LeaseCountIsExact' /\ GcInv'
  BY <1>2, <1>7 DEF IInv, LeaseCountIsExact, GcInv, Holders, lease, user
<1> QED BY <1>4, <1>5, <1>6, <1>8 DEF IInv

\* An engine stays a holder from the note that it has the lease to the release.
LEMMA RestoreKeepsInv ==
  ASSUME IInv, NEW t \in Threads, _restore_python_gc(t)
  PROVE  IInv'
<1> DEFINE e == E(t)
<1>1. /\ TypeOK
      /\ \A u \in Threads : Place(u) # "out" => E(u) \in Engines /\ ThreadInv(u, E(u))
      /\ \A d \in Engines : EngineInv(d)
  BY DEF IInv
<1>2. /\ at[t].place = "restore"
      /\ lease_active' = [lease_active EXCEPT ![e] = FALSE]
      /\ \/ ~lease_active[e] /\ at' = [at EXCEPT ![t].place = "unregister"]
         \/ lease_active[e] /\ at' = [at EXCEPT ![t].place = "release"]
      /\ UNCHANGED <<life, model_runner, registered, exits, lease, user>>
  BY DEF _restore_python_gc, Goto, Leave, Place, E, OwesNothing
<1>3. e \in Engines /\ ThreadInv(t, e) /\ EngineInv(e)
  BY <1>1, <1>2 DEF Place
<1>4. TypeOK'
  <2>1. (at \in AtType)'
    BY <1>1, <1>2, <1>3 DEF TypeOK, AtType, Places, Building, Cleaning, Nowhere
  <2> QED BY <1>1, <1>2, <1>3, <2>1 DEF TypeOK, lease, user, exits
<1>5. \A u \in Threads : Place(u)' # "out" => E(u)' \in Engines /\ ThreadInv(u, E(u))'
  BY <1>1, <1>2, <1>3 DEF TypeOK, AtType, Places, Building, Cleaning, Nowhere, lease, user, exits,
     ThreadInv, EngineInv, Place, E, On
<1>6. \A d \in Engines : EngineInv(d)'
  <2> SUFFICES ASSUME NEW d \in Engines PROVE EngineInv(d)'
    OBVIOUS
  <2>1. \A u \in Threads :
          /\ E(u)' = E(u)
          /\ Place(u)' = IF u = t THEN (IF lease_active[e] THEN "release" ELSE "unregister")
                         ELSE Place(u)
    BY <1>1, <1>2 DEF TypeOK, AtType, Place, E
  <2>2. lease_active'[d] => lease_active[d]
    BY <1>1, <1>2, <1>3 DEF TypeOK
  <2>3. Place(t) = "restore"
    BY <1>2 DEF Place
  <2> QED BY <1>1, <1>2, <2>1, <2>2, <2>3 DEF EngineInv, On, Cleaning, exits
<1>7. Holders' = Holders
  <2>1. \A d \in Engines : d # e => (d \in Holders' <=> d \in Holders)
    BY <1>1, <1>2, <1>3 DEF TypeOK, AtType, Holders, Releasing, E
  <2>2. e \in Holders <=> lease_active[e]
    BY <1>1, <1>2, <1>3
       DEF TypeOK, AtType, Holders, Releasing, EngineInv, On, Place, E, Cleaning
  <2>3. e \in Holders' <=> lease_active[e]
    BY <1>1, <1>2, <1>3
       DEF TypeOK, AtType, Holders, Releasing, EngineInv, On, Place, E, Cleaning
  <2> QED BY <1>3, <2>1, <2>2, <2>3 DEF Holders
<1>8. LeaseCountIsExact' /\ GcInv'
  BY <1>2, <1>7 DEF IInv, LeaseCountIsExact, GcInv, Holders, lease, user
<1> QED BY <1>4, <1>5, <1>6, <1>8 DEF IInv

\* A new holder, or none if gc.disable() has raised.
LEMMA AcquireKeepsInv ==
  ASSUME IInv, NEW t \in Threads, Acquire(t)
  PROVE  IInv'
<1> DEFINE e == E(t)
<1>1. /\ TypeOK
      /\ \A u \in Threads : Place(u) # "out" => E(u) \in Engines /\ ThreadInv(u, E(u))
      /\ \A d \in Engines : EngineInv(d)
  BY DEF IInv
<1>2. /\ at[t].place = "acquire"
      /\ \/ /\ _acquire_python_gc_lease
            /\ lease_active' = [lease_active EXCEPT ![e] = TRUE]
            /\ at' = [at EXCEPT ![t].place = "finish"]
         \/ /\ UNCHANGED <<lease, lease_active>>
            /\ at' = [at EXCEPT ![t].place = "claim"]
      /\ UNCHANGED <<life, model_runner, registered, exits, user>>
  BY DEF Acquire, Goto, Leave, Place, E, AcquireFails
<1>3. e \in Engines /\ ThreadInv(t, e) /\ EngineInv(e)
  BY <1>1, <1>2 DEF Place
<1>4. TypeOK'
  <2>1. (at \in AtType)'
    BY <1>1, <1>2, <1>3 DEF TypeOK, AtType, Places, Building, Cleaning, Nowhere
  <2>2. (lease_active \in [Engines -> BOOLEAN])'
    BY <1>1, <1>2, <1>3 DEF TypeOK
  <2>4. (count \in Nat)'
    BY <1>1, <1>2 DEF TypeOK, lease, _acquire_python_gc_lease
  <2>3. (pre_first \in SUBSET BOOLEAN /\ gc_enabled \in BOOLEAN)'
    BY <1>1, <1>2 DEF TypeOK, lease, _acquire_python_gc_lease, Baseline
  <2> QED BY <1>1, <1>2, <2>1, <2>2, <2>3, <2>4 DEF TypeOK, user, exits
<1>5. \A u \in Threads : Place(u)' # "out" => E(u)' \in Engines /\ ThreadInv(u, E(u))'
  BY <1>1, <1>2, <1>3, SMTT(30) DEF TypeOK, AtType, Places, Building, Cleaning, Nowhere, lease, user, exits,
     ThreadInv, EngineInv, Place, E, On
<1>6. \A d \in Engines : EngineInv(d)'
  <2>1. CASE _acquire_python_gc_lease /\ lease_active' = [lease_active EXCEPT ![e] = TRUE]
          /\ at' = [at EXCEPT ![t].place = "finish"]
    BY <1>1, <1>2, <1>3, <2>1 DEF TypeOK, AtType, Places, Building, Cleaning, Nowhere, lease, user, exits,
       ThreadInv, EngineInv, Place, E, On
  <2>2. CASE lease_active' = lease_active /\ at' = [at EXCEPT ![t].place = "claim"]
    BY <1>1, <1>2, <1>3, <2>2 DEF TypeOK, AtType, Places, Building, Cleaning, Nowhere, lease, user, exits,
       ThreadInv, EngineInv, Place, E, On
  <2> QED BY <1>1, <1>2, <2>1, <2>2 DEF TypeOK
<1>7. ASSUME UNCHANGED <<lease, lease_active>>, at' = [at EXCEPT ![t].place = "claim"]
      PROVE  LeaseCountIsExact' /\ GcInv'
  <2>1. Holders' = Holders
    BY <1>1, <1>2, <1>3, <1>7 DEF TypeOK, AtType, Places, lease, Holders, Releasing
  <2> QED BY <1>2, <1>7, <2>1 DEF IInv, LeaseCountIsExact, GcInv, Holders, lease, user
<1>9. ASSUME _acquire_python_gc_lease, lease_active' = [lease_active EXCEPT ![e] = TRUE],
             at' = [at EXCEPT ![t].place = "finish"]
      PROVE  LeaseCountIsExact' /\ GcInv'
  <2>1. e \notin Holders
    BY <1>1, <1>2, <1>3 DEF TypeOK, AtType, Holders, Releasing, ThreadInv, EngineInv, On, Place, E, Building
  <2>2. Holders' = Holders \cup {e}
    BY <1>1, <1>2, <1>3, <1>9 DEF TypeOK, AtType, Holders, Releasing
  <2>3. IsFiniteSet(Holders)
    BY EngineLifecycleAssumption, FS_Subset DEF EngineLifecycleAssumption, Holders
  <2>4. Cardinality(Holders') = Cardinality(Holders) + 1
    BY <2>1, <2>2, <2>3, FS_AddElement
  <2>5. LeaseCountIsExact'
    BY <2>4, <1>9 DEF IInv, LeaseCountIsExact, Holders, _acquire_python_gc_lease
  <2>6. GcInv'
    BY <1>1, <1>2, <1>9 DEF IInv, GcInv, TypeOK, _acquire_python_gc_lease, Baseline, user
  <2> QED BY <2>5, <2>6
<1>8. LeaseCountIsExact' /\ GcInv'
  BY <1>2, <1>7, <1>9
<1> QED BY <1>4, <1>5, <1>6, <1>8 DEF IInv

\* A holder less.
LEMMA ReleaseKeepsInv ==
  ASSUME IInv, NEW t \in Threads, Release(t)
  PROVE  IInv'
<1> DEFINE e == E(t)
<1>1. /\ TypeOK
      /\ \A u \in Threads : Place(u) # "out" => E(u) \in Engines /\ ThreadInv(u, E(u))
      /\ \A d \in Engines : EngineInv(d)
  BY DEF IInv
<1>2. /\ at[t].place = "release"
      /\ _release_python_gc_lease
      /\ at' = [at EXCEPT ![t].place = "unregister"]
      /\ UNCHANGED <<life, model_runner, registered, lease_active, exits, user>>
  BY DEF Release, Goto, Leave, Place, E
<1>3. e \in Engines /\ ThreadInv(t, e) /\ EngineInv(e)
  BY <1>1, <1>2 DEF Place
<1>9. /\ count > 0 /\ count' = count - 1
      /\ Cardinality(Holders') = count - 1
  <2>1. e \in Holders
    BY <1>1, <1>2, <1>3 DEF TypeOK, AtType, Holders, Releasing, Place, E
  <2>2. Holders' = Holders \ {e}
    BY <1>1, <1>2, <1>3
       DEF TypeOK, AtType, Holders, Releasing, ThreadInv, EngineInv, On, Place, E, Cleaning
  <2>3. IsFiniteSet(Holders)
    BY EngineLifecycleAssumption, FS_Subset DEF EngineLifecycleAssumption, Holders
  <2>4. Cardinality(Holders \ {e}) = Cardinality(Holders) - 1 /\ Cardinality(Holders \ {e}) \in Nat
    BY <2>1, <2>3, FS_RemoveElement, FS_CardinalityType
  <2>5. Cardinality(Holders) = count
    BY DEF IInv, LeaseCountIsExact, Holders
  <2>6. Cardinality(Holders') = count - 1
    BY <2>2, <2>4, <2>5
  <2>7. count' = count - 1
    BY <1>2 DEF _release_python_gc_lease
  <2> QED BY <1>1, <2>4, <2>5, <2>6, <2>7 DEF TypeOK
<1>4. TypeOK'
  <2>1. (at \in AtType)'
    BY <1>1, <1>2, <1>3 DEF TypeOK, AtType, Places, Building, Cleaning, Nowhere
  <2> QED BY <1>1, <1>2, <1>3, <2>1, <1>9 DEF TypeOK, lease, user, exits,
     _release_python_gc_lease
<1>5. \A u \in Threads : Place(u)' # "out" => E(u)' \in Engines /\ ThreadInv(u, E(u))'
  BY <1>1, <1>2, <1>3 DEF TypeOK, AtType, Places, Building, Cleaning, Nowhere, lease, user, exits,
     ThreadInv, EngineInv, Place, E, On
<1>6. \A d \in Engines : EngineInv(d)'
  BY <1>1, <1>2, <1>3 DEF TypeOK, AtType, Places, Building, Cleaning, Nowhere, lease, user, exits,
     ThreadInv, EngineInv, Place, E, On
<1>7. LeaseCountIsExact'
  BY <1>9, <1>2 DEF LeaseCountIsExact, Holders, _release_python_gc_lease
<1>10. GcInv'
  <2>1. pre_first = {wanted} /\ wanted \in BOOLEAN /\ count \in Nat /\ wanted' = wanted
    BY <1>1, <1>2, <1>9 DEF IInv, GcInv, TypeOK, user
  <2>2. CASE count = 1
    <3>1. gc_enabled' = (TRUE \in {wanted}) /\ pre_first' = {} /\ count' = 0
      BY <1>2, <1>9, <2>1, <2>2 DEF _release_python_gc_lease
    <3>2. gc_enabled' = wanted
      <4>1. CASE wanted = TRUE
        BY <3>1, <4>1, Zenon
      <4>2. CASE wanted = FALSE
        <5>1. (TRUE \in {FALSE}) = FALSE
          OBVIOUS
        <5>2. gc_enabled' = (TRUE \in {FALSE})
          BY <3>1, <4>2, Zenon
        <5> QED BY <4>2, <5>1, <5>2, Zenon
      <4> QED BY <2>1, <4>1, <4>2, Zenon
    <3> QED BY <2>1, <3>1, <3>2 DEF GcInv
  <2>3. CASE count # 1
    <3>1. gc_enabled' = FALSE
      BY <1>2, <2>3, Zenon DEF _release_python_gc_lease
    <3>2. pre_first' = {wanted}
      BY <1>2, <2>1, <2>3, Zenon DEF _release_python_gc_lease
    <3>3. count' # 0
      BY <1>9, <2>1, <2>3
    <3> QED BY <2>1, <3>1, <3>2, <3>3 DEF GcInv
  <2> QED BY <2>2, <2>3
<1>8. LeaseCountIsExact' /\ GcInv'
  BY <1>7, <1>10
<1> QED BY <1>4, <1>5, <1>6, <1>8 DEF IInv

\* The application switches the collector while nobody holds the lease.
LEMMA ToggleKeepsInv ==
  ASSUME IInv, Toggle
  PROVE  IInv'
<1>1. /\ count = 0 /\ wanted' = ~wanted /\ gc_enabled' = ~gc_enabled /\ toggles' = toggles + 1
      /\ UNCHANGED <<at, life, model_runner, registered, lease_active, exit_started,
                     exit_complete, count, pre_first>>
  BY DEF Toggle, exits
<1>2. TypeOK'
  BY <1>1 DEF IInv, TypeOK, AtType
<1>3. \A t \in Threads : Place(t)' # "out" => E(t)' \in Engines /\ ThreadInv(t, E(t))'
  BY <1>1 DEF IInv, ThreadInv, Place, E
<1>4. \A e \in Engines : EngineInv(e)'
  BY <1>1 DEF IInv, EngineInv, On, Place, E
<1>5. LeaseCountIsExact'
  BY <1>1 DEF IInv, LeaseCountIsExact, Releasing
<1>6. GcInv'
  BY <1>1 DEF IInv, GcInv, TypeOK
<1> QED BY <1>2, <1>3, <1>4, <1>5, <1>6 DEF IInv

\* Nothing changes when nothing does.
LEMMA StutterKeepsInv ==
  ASSUME IInv, UNCHANGED vars
  PROVE  IInv'
<1>1. UNCHANGED <<at, life, model_runner, registered, lease_active, exit_started,
                  exit_complete, count, pre_first, gc_enabled, wanted, toggles>>
  BY DEF vars
<1>2. TypeOK'
  BY <1>1 DEF IInv, TypeOK, AtType
<1>3. \A t \in Threads : Place(t)' # "out" => E(t)' \in Engines /\ ThreadInv(t, E(t))'
  BY <1>1 DEF IInv, ThreadInv, Place, E
<1>4. \A e \in Engines : EngineInv(e)'
  BY <1>1 DEF IInv, EngineInv, On, Place, E
<1>5. LeaseCountIsExact' /\ GcInv'
  BY <1>1 DEF IInv, LeaseCountIsExact, Releasing, GcInv
<1> QED BY <1>2, <1>3, <1>4, <1>5 DEF IInv

\* A process without engines satisfies the invariant.
LEMMA InitInv == Init => IInv
<1> SUFFICES ASSUME Init PROVE IInv
  OBVIOUS
<1>1. TypeOK
  BY DEF Init, TypeOK, AtType, Places, Nowhere
<1>2. \A t \in Threads : Place(t) = "out"
  BY DEF Init, Place, Nowhere
<1>3. \A e \in Engines : EngineInv(e)
  BY <1>2 DEF Init, EngineInv, On
<1>4. Holders = {}
  BY <1>2 DEF Init, Holders, Releasing, Place
<1>5. LeaseCountIsExact
  BY <1>4, FS_EmptySet DEF Init, LeaseCountIsExact, Holders
<1>6. GcInv
  BY DEF Init, GcInv
<1> QED BY <1>1, <1>2, <1>3, <1>5, <1>6 DEF IInv

\* Every step keeps it: one case per disjunct of Next.
LEMMA NextInv == IInv /\ [Next]_vars => IInv'
<1> SUFFICES ASSUME IInv, [Next]_vars PROVE IInv'
  OBVIOUS
<1>1. ASSUME NEW t \in Threads, NEW e \in Engines, __init__(t, e) \/ exit(t, e) PROVE IInv'
  BY <1>1, EnterKeepsInv
<1>2. ASSUME NEW t \in Threads, Continue(t) PROVE IInv'
  BY <1>2, BuildKeepsInv, RegisterKeepsInv, AcquireKeepsInv, FinishKeepsInv, ClaimKeepsInv,
     AwaitKeepsInv, TeardownKeepsInv, RestoreKeepsInv, ReleaseKeepsInv, UnregisterKeepsInv
     DEF Continue
<1>3. CASE Toggle
  BY <1>3, ToggleKeepsInv
<1>4. CASE UNCHANGED vars
  BY <1>4, StutterKeepsInv
<1> QED BY <1>1, <1>2, <1>3, <1>4 DEF Next, Rest

-----------------------------------------------------------------------------
(* Theorems *)

\* The invariant that the theorems below rest on.
THEOREM Invariance == Spec => []IInv
<1> QED BY InitInv, NextInv, PTL DEF Spec

\* However engines are built, fail half way and exit, in any threads, the count of
\* _acquire_python_gc_lease and _release_python_gc_lease is the number of engines that
\* still owe a release; it never goes below zero and never keeps a dead engine.
THEOREM LeaseCountStaysExact == Spec => []LeaseCountIsExact
<1>1. IInv => LeaseCountIsExact
  BY DEF IInv
<1> QED BY <1>1, Invariance, PTL

\* The collector is off while an engine holds the lease, and with the last release it is
\* what the application had made of it before the first.
THEOREM CollectorFollowsLease == Spec => []GcFollowsLease
<1>1. ASSUME IInv PROVE GcFollowsLease
  <2>1. ASSUME NEW e \in Engines, lease_active[e] PROVE ~gc_enabled
    <3>1. e \in Holders /\ IsFiniteSet(Holders)
      BY <2>1, EngineLifecycleAssumption, FS_Subset DEF EngineLifecycleAssumption, Holders
    <3>2. Cardinality(Holders) # 0
      BY <3>1, FS_EmptySet
    <3>3. count # 0
      BY <1>1, <3>2 DEF IInv, LeaseCountIsExact, Holders
    <3> QED BY <1>1, <3>3 DEF IInv, GcInv
  <2>2. count = 0 => gc_enabled = wanted
    BY <1>1 DEF IInv, GcInv
  <2> QED BY <2>1, <2>2 DEF GcFollowsLease
<1> QED BY <1>1, Invariance, PTL

\* What ExitIsOver says of one step.
ExitStep ==
  \A t \in Threads :
    /\ (Place(t) = "teardown" /\ Place(t)' # "teardown") => model_runner[E(t)]
    /\ (Place(t) \in {"await", "unregister"} /\ Place(t)' = "out") =>
         /\ ~model_runner[E(t)]
         /\ ~lease_active[E(t)]
         /\ ~Releasing(E(t))

\* Only the caller that has waited for exit_complete leaves "await".
LEMMA AwaitedExit ==
  ASSUME IInv, Next, NEW t \in Threads, Place(t) = "await", Place(t)' = "out"
  PROVE  exit_complete[E(t)]
<1>1. ASSUME NEW u \in Threads, NEW e \in Engines, __init__(u, e) \/ exit(u, e) PROVE FALSE
  BY <1>1 DEF IInv, TypeOK, AtType, __init__, exit, Enter, Place
<1>2. ASSUME NEW u \in Threads, Continue(u), u # t PROVE FALSE
  BY <1>2 DEF IInv, TypeOK, AtType, Continue, Build, Register, Acquire, Finish, Claim, Await,
     Teardown, _restore_python_gc, Release, Unregister, Goto, Leave, Place
<1>3. CASE Continue(t)
  BY <1>3 DEF Continue, Build, Register, Acquire, Finish, Claim, Await, MayReturn,
     Teardown, _restore_python_gc, Release, Unregister, Place
<1>4. CASE Toggle \/ Rest
  BY <1>4 DEF Toggle, Rest, vars, Place
<1> QED BY <1>1, <1>2, <1>3, <1>4 DEF Next

\* exit() tells the runner to exit once, however many threads call it, and every caller
\* that comes back finds the runner gone and the lease returned.
THEOREM ExitLeavesNothing == Spec => ExitIsOver
<1>1. ASSUME IInv, [Next]_vars PROVE ExitStep \/ UNCHANGED vars
  <2> SUFFICES ASSUME Next PROVE ExitStep
    BY <1>1
  <2>1. ASSUME NEW t \in Threads, Place(t) = "teardown" PROVE model_runner[E(t)]
    BY <1>1, <2>1 DEF IInv, ThreadInv
  <2>2. ASSUME NEW t \in Threads, Place(t) = "unregister"
        PROVE  ~model_runner[E(t)] /\ ~lease_active[E(t)] /\ ~Releasing(E(t))
    BY <1>1, <2>2 DEF IInv, TypeOK, AtType, ThreadInv, EngineInv, On, Releasing, Cleaning,
       Place, E
  <2>3. ASSUME NEW t \in Threads, Place(t) = "await", Place(t)' = "out"
        PROVE  ~model_runner[E(t)] /\ ~lease_active[E(t)] /\ ~Releasing(E(t))
    <3>1. exit_complete[E(t)]
      BY <1>1, <2>3, AwaitedExit
    <3> QED BY <1>1, <2>3, <3>1 DEF IInv, TypeOK, AtType, ThreadInv, EngineInv, Releasing,
          Cleaning, Place, E
  <2> QED BY <2>1, <2>2, <2>3 DEF ExitStep
<1>2. [][ExitStep]_vars => ExitIsOver
  BY DEF ExitIsOver, ExitStep
<1> QED BY <1>1, <1>2, Invariance, PTL DEF Spec
=============================================================================
