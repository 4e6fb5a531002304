---------------------------- MODULE TensorParallel ----------------------------
(***************************************************************************)
(* Rank 0 and its workers: nanovllm/engine/model_runner.py (read_shm,      *)
(* write_shm, call, loop, the start and the end of a runner) and the       *)
(* engine's _join_workers.                                                 *)
(*                                                                         *)
(* Rank 0 publishes a call in the one shared-memory frame, sets an event   *)
(* per worker and runs the call itself.  No worker ever acknowledges: the  *)
(* frame may be written again only because every run() ends, on rank 0, in *)
(* a transfer that waits for collectives all ranks have to launch.  A      *)
(* worker launches its part and goes on without waiting.                   *)
(*                                                                         *)
(* A call is its number; all the collectives of one call are one launch.   *)
(***************************************************************************)
EXTENDS Integers, Sequences, SequencesExt

CONSTANTS
  Workers,        \* ranks 1 and up
  MaxCalls,       \* bound: run() calls
  MaxFailures     \* bound: ranks that die or raise

root == "rank 0"

ASSUME TensorParallelAssumption ==
  /\ MaxCalls \in Nat
  /\ MaxFailures \in Nat
  /\ root \notin Workers

Ranks == Workers \cup {root}

VARIABLES
  pc,             \* where each rank is
  calls,          \* the methods that rank 0 published
  frame,          \* shared memory: of which call are the header and the payload
  event,          \* per worker
  unsignalled,    \* workers whose event write_shm has yet to set
  seen,           \* what each worker read of the frame
  launched,       \* per rank the calls whose collectives it launched; 0 is the start
  shm,            \* the name "nanovllm": "none", "linked" or "unlinked"
  root_failed,    \* whether rank 0 has raised with a call published
  failures

vars == <<pc, calls, frame, event, unsignalled, seen, launched, shm, root_failed,
          failures>>

\* What calls pass through, and what has gone wrong.
channel == <<calls, frame, event, unsignalled, seen>>
health == <<root_failed, failures>>

Goto(r, place) == pc' = [pc EXCEPT ![r] = place]
Launch(r, n) == launched' = [launched EXCEPT ![r] = Append(@, n)]

Call == Len(calls)

-----------------------------------------------------------------------------
(* Collectives *)

\* Mutant: a run() that reads nothing back from the device.
SyncedNever(r) == TRUE

\* Every rank has launched as much as r has: r's device is done with it.
Synced(r) == \A q \in Ranks : Len(launched[q]) >= Len(launched[r])

Waiting == {"starting", "sync", "closing"}

\* q will not launch anything any more: it has ended, or nobody will wake it.
Silent(q) ==
  \/ pc[q] \in {"gone", "aborting", "join", "down"}
  \/ q \in Workers /\ pc[q] = "wait" /\ ~event[q] /\ q \notin unsignalled

Behind(r) == {q \in Ranks : Len(launched[q]) < Len(launched[r])}

\* r waits only for ranks that will never come.  The process group's timeout releases
\* it; timeouts are taken to be longer than any step of a rank that is alive.
Hopeless(r) ==
  /\ pc[r] \in Waiting
  /\ Behind(r) # {}
  /\ \A q \in Behind(r) : Silent(q)

-----------------------------------------------------------------------------
(* The start: rank 0 creates the segment, all meet, the workers attach to it *)

CreateShm ==
  /\ pc[root] = "create"
  /\ shm' = "linked"
  /\ Launch(root, 0)
  /\ Goto(root, "starting")
  /\ UNCHANGED <<channel, health>>

\* Anything that fails before it: device, weights, memory, an existing segment.
RootInitFails ==
  /\ pc[root] = "create"
  /\ failures < MaxFailures
  /\ failures' = failures + 1
  /\ Goto(root, "aborting")
  /\ UNCHANGED <<channel, launched, shm, root_failed>>

WorkerMeets(w) ==
  /\ pc[w] = "start"
  /\ Launch(w, 0)
  /\ Goto(w, "starting")
  /\ UNCHANGED <<channel, shm, health>>

StartBarrier(r) ==
  /\ pc[r] = "starting"
  /\ Synced(r)
  /\ Goto(r, IF r = root THEN "ready" ELSE "attach")
  /\ UNCHANGED <<channel, launched, shm, health>>

\* A worker that does not find the segment ends.
Attach(w) ==
  /\ pc[w] = "attach"
  /\ Goto(w, IF shm = "linked" THEN "wait" ELSE "gone")
  /\ UNCHANGED <<channel, launched, shm, health>>

-----------------------------------------------------------------------------
(* call() on rank 0 *)

\* A frame that does not fit raises before anything is written.
WriteHeader(method) ==
  /\ pc[root] = "ready"
  /\ method = "run" => Call < MaxCalls
  /\ calls' = Append(calls, method)
  /\ frame' = [frame EXCEPT !.header = Call + 1]
  /\ Goto(root, "payload")
  /\ UNCHANGED <<event, unsignalled, seen, launched, shm, health>>

WritePayload ==
  /\ pc[root] = "payload"
  /\ frame' = [frame EXCEPT !.payload = Call]
  /\ unsignalled' = Workers
  /\ Goto(root, "signal")
  /\ UNCHANGED <<calls, event, seen, launched, shm, health>>

SetEvent(w) ==
  /\ pc[root] = "signal"
  /\ w \in unsignalled
  /\ event' = [event EXCEPT ![w] = TRUE]
  /\ unsignalled' = unsignalled \ {w}
  /\ Goto(root, IF unsignalled = {w} THEN "method" ELSE "signal")
  /\ UNCHANGED <<calls, frame, seen, launched, shm, health>>

RootRun ==
  /\ pc[root] = "method"
  /\ calls[Call] = "run"
  /\ Launch(root, Call)
  /\ Goto(root, "sync")
  /\ UNCHANGED <<channel, shm, health>>

\* run() raises on rank 0 alone, before its collectives; the engine reports it.
RootRunFails ==
  /\ pc[root] = "method"
  /\ calls[Call] = "run"
  /\ failures < MaxFailures
  /\ failures' = failures + 1
  /\ root_failed' = TRUE
  /\ Goto(root, "ready")
  /\ UNCHANGED <<channel, launched, shm>>

\* tokens.tolist(): waits for this call's collectives.
RootResult ==
  /\ pc[root] = "sync"
  /\ Synced(root)
  /\ Goto(root, "ready")
  /\ UNCHANGED <<channel, launched, shm, health>>

-----------------------------------------------------------------------------
(* loop() on a worker *)

\* Mutant: the event is cleared when the call has been made.
ThenLate == [payload |-> "method", clear |-> "wait", method |-> "clear"]

Then == [payload |-> "clear", clear |-> "method", method |-> "wait"]

ReadHeader(w) ==
  /\ pc[w] = "wait"
  /\ event[w]
  /\ seen' = [seen EXCEPT ![w].header = frame.header]
  /\ Goto(w, "payload")
  /\ UNCHANGED <<calls, frame, event, unsignalled, launched, shm, health>>

ReadPayload(w) ==
  /\ pc[w] = "payload"
  /\ seen' = [seen EXCEPT ![w].payload = frame.payload]
  /\ Goto(w, Then.payload)
  /\ UNCHANGED <<calls, frame, event, unsignalled, launched, shm, health>>

ClearEvent(w) ==
  /\ pc[w] = "clear"
  /\ event' = [event EXCEPT ![w] = FALSE]
  /\ Goto(w, Then.clear)
  /\ UNCHANGED <<calls, frame, unsignalled, seen, launched, shm, health>>

\* A frame of two calls does not decode: the worker raises and ends.
WorkerRun(w) ==
  /\ pc[w] = "method"
  /\ \/ /\ seen[w].header # seen[w].payload
        /\ Goto(w, "gone")
        /\ UNCHANGED launched
     \/ /\ seen[w].header = seen[w].payload
        /\ Launch(w, seen[w].payload)
        /\ Goto(w, IF calls[seen[w].payload] = "run" THEN Then.method ELSE "closing")
  /\ UNCHANGED <<channel, shm, health>>

\* A worker that raises closes without the barrier and ends; so does a killed one.
WorkerDies(w) ==
  /\ pc[w] # "gone"
  /\ failures < MaxFailures
  /\ failures' = failures + 1
  /\ Goto(w, "gone")
  /\ UNCHANGED <<channel, launched, shm, root_failed>>

-----------------------------------------------------------------------------
(* The end: _close and _join_workers *)

\* exit() on rank 0 detaches and waits for the workers to have done so too.
RootExit ==
  /\ pc[root] = "method"
  /\ calls[Call] = "exit"
  /\ Launch(root, Call)
  /\ Goto(root, "closing")
  /\ UNCHANGED <<channel, shm, health>>

\* Mutant: rank 0 does not wait for the workers before it unlinks.
ClosedAtOnce == TRUE

ClosedBarrier == Synced(root)

\* Then, or when the barrier has failed, it removes the segment's name.
Unlink ==
  /\ pc[root] = "closing"
  /\ ClosedBarrier \/ Hopeless(root)
  /\ shm' = "unlinked"
  /\ Goto(root, "join")
  /\ UNCHANGED <<channel, launched, health>>

\* A runner that failed to start gives back what it has, without a barrier.
Abort ==
  /\ pc[root] = "aborting"
  /\ shm' = IF shm = "linked" THEN "unlinked" ELSE shm
  /\ Goto(root, "join")
  /\ UNCHANGED <<channel, launched, health>>

WorkerExit(w) ==
  /\ pc[w] = "closing"
  /\ Synced(w)
  /\ Goto(w, "gone")
  /\ UNCHANGED <<channel, launched, shm, health>>

\* The process group's timeout: run() raises, a start is aborted, a worker ends.
Timeout(r) ==
  /\ Hopeless(r)
  /\ \/ r = root /\ pc[r] = "sync" /\ Goto(r, "ready")
     \/ r = root /\ pc[r] = "starting" /\ Goto(r, "aborting")
     \/ r # root /\ Goto(r, "gone")
  /\ UNCHANGED <<channel, launched, shm, health>>

\* An aborted start stops its workers at once; an exit stops those that do not end by
\* themselves within the time of a join.
Overdue(w) == Call = 0 \/ Silent(w) \/ Hopeless(w)

\* Mutant: workers are only joined.
StopNobody(w) == pc[root] = "join" /\ pc[w] = "gone" /\ UNCHANGED vars

StopWorker(w) ==
  /\ pc[root] = "join"
  /\ pc[w] # "gone"
  /\ Overdue(w)
  /\ Goto(w, "gone")
  /\ UNCHANGED <<channel, launched, shm, health>>

Joined ==
  /\ pc[root] = "join"
  /\ \A w \in Workers : pc[w] = "gone"
  /\ Goto(root, "down")
  /\ UNCHANGED <<channel, launched, shm, health>>

-----------------------------------------------------------------------------
(* Specification *)

Init ==
  /\ pc = [r \in Ranks |-> IF r = root THEN "create" ELSE "start"]
  /\ calls = <<>>
  /\ frame = [header |-> 0, payload |-> 0]
  /\ event = [w \in Workers |-> FALSE]
  /\ unsignalled = {}
  /\ seen = [w \in Workers |-> [header |-> 0, payload |-> 0]]
  /\ launched = [r \in Ranks |-> <<>>]
  /\ shm = "none"
  /\ root_failed = FALSE
  /\ failures = 0

RootStep ==
  \/ CreateShm \/ StartBarrier(root) \/ WritePayload \/ RootRun \/ RootResult
  \/ RootExit \/ Unlink \/ Abort \/ Joined \/ Timeout(root)
  \/ \E w \in Workers : SetEvent(w) \/ StopWorker(w)

WorkerStep(w) ==
  \/ WorkerMeets(w) \/ StartBarrier(w) \/ Attach(w) \/ ReadHeader(w) \/ ReadPayload(w)
  \/ ClearEvent(w) \/ WorkerRun(w) \/ WorkerExit(w) \/ Timeout(w)

Fails == RootInitFails \/ RootRunFails \/ \E w \in Workers : WorkerDies(w)

Down == pc[root] = "down" /\ UNCHANGED vars

Next ==
  \/ RootStep
  \/ \E method \in {"run", "exit"} : WriteHeader(method)
  \/ \E w \in Workers : WorkerStep(w)
  \/ Fails
  \/ Down

Spec == Init /\ [][Next]_vars

\* Ranks that are alive go on, joins and timeouts expire.  Nobody has to call run()
\* or exit().
FairSpec ==
  /\ Spec
  /\ WF_vars(RootStep)
  /\ \A w \in Workers : WF_vars(WorkerStep(w))

-----------------------------------------------------------------------------
(* Properties *)

\* One frame and no acknowledgement, and still every worker makes the calls of rank
\* 0, each once and in order: the collectives that meet are those of the same call.
CollectivesMatch ==
  \A w \in Workers :
    IsPrefix(launched[w], launched[root]) \/ IsPrefix(launched[root], launched[w])

\* No worker reads a frame of which rank 0 has already rewritten a part.
FramesAreWhole ==
  \A w \in Workers : pc[w] \in {"clear", "method"} => seen[w].header = seen[w].payload

\* Calls reach the workers whole, once and in order, whoever dies, unless rank 0 alone
\* has failed in the middle of one: write_shm reuses the frame without looking.
CallsArrive == ~root_failed => CollectivesMatch /\ FramesAreWhole

\* Without a failure nobody waits for a rank that will never come: no wake-up is
\* lost between the event that is set and the one that is cleared.
NobodyWaitsInVain == failures = 0 => \A r \in Ranks : ~Hopeless(r)

\* Rank 0 may create the segment, make its calls, exit and unlink it before a slow
\* worker gets to attach; the two barriers prevent that.
AttachFindsShm ==
  failures = 0 => \A w \in Workers : pc[w] = "attach" => shm = "linked"

\* An engine that exits, or fails to start, ends: whatever died before, the workers
\* are gone and the segment's name is free for the next engine.
ExitEnds ==
  (pc[root] = "aborting" \/ (Call > 0 /\ calls[Call] = "exit"))
    ~> (pc[root] = "down" /\ shm # "linked" /\ \A w \in Workers : pc[w] = "gone")
=============================================================================
