---------------------------- MODULE EngineSessions ----------------------------
(***************************************************************************)
(* Who owns the engine: the session lease, the locks and the streams of    *)
(* nanovllm/engine/llm_engine.py.                                          *)
(*                                                                         *)
(* generate() and stream() hold the lease from their start to their end;   *)
(* step() and add_request() are refused while somebody holds it.  A stream *)
(* that its user drops is cleaned up by a finalizer, which the garbage     *)
(* collector runs on top of whatever a thread is doing.  So a thread is a  *)
(* stack of calls, each with the session it is for and the place it is at. *)
(*                                                                         *)
(* Of the scheduler only the owners of the queued requests remain.         *)
(***************************************************************************)
EXTENDS Integers, Sequences, FiniteSets

CONSTANTS
  Threads,
  Sessions,      \* each is started once, by generate() or by stream()
  MaxPending,    \* bound: events of one step
  MaxManual,     \* bound: add_request() calls
  GcInLocks      \* whether the collector may run inside a _session_lock block

Manual == "manual"     \* owner of requests that add_request queued
Nobody == "nobody"

ASSUME EngineSessionsAssumption ==
  /\ MaxPending \in Nat \ {0}
  /\ MaxManual \in Nat
  /\ GcInLocks \in BOOLEAN
  /\ {Manual, Nobody} \cap (Threads \cup Sessions) = {}

VARIABLES
  stack,            \* per thread its calls, the running one last
  session_lock,     \* holder of _session_lock, a Lock
  execution_lock,   \* [owner, depth] of _execution_lock, an RLock
  iteration_lock,   \* per session the holder of its _iteration_lock
  active_session,   \* the session of the lease
  queued,           \* whose requests the scheduler has
  life,             \* of each session
  pending,          \* undelivered events of a stream
  manual            \* add_request() calls so far

vars == <<stack, session_lock, execution_lock, iteration_lock, active_session,
          queued, life, pending, manual>>

locks == <<session_lock, execution_lock, iteration_lock>>
owners == <<active_session, queued, life, pending, manual>>

-----------------------------------------------------------------------------
(* Calls *)

Call(op, s, at) == [op |-> op, session |-> s, at |-> at]
Top(t) == stack[t][Len(stack[t])]
Busy(t) == stack[t] # <<>>
At(t, places) == Busy(t) /\ Top(t).at \in places

Frames == UNION {{stack[t][i] : i \in DOMAIN stack[t]} : t \in Threads}

Push(t, call) == stack' = [stack EXCEPT ![t] = Append(@, call)]
Goto(t, place) == stack' = [stack EXCEPT ![t][Len(stack[t])].at = place]
Pop(t) == stack' = [stack EXCEPT ![t] = SubSeq(@, 1, Len(@) - 1)]

\* A call on a stream holds its iteration lock until it returns.
Unlocked(t) == [s \in Sessions |->
  IF Top(t).op \in {"next", "close"} /\ Top(t).session = s THEN Nobody ELSE iteration_lock[s]]

Return(t) == Pop(t) /\ iteration_lock' = Unlocked(t)

\* "Serialize public engine access": the calls without a session are made only
\* while no other thread is in the engine; collector callbacks are not calls.
Calling(u) == \E i \in DOMAIN stack[u] : stack[u][i].op # "finalize"
InManual(u) == \E i \in DOMAIN stack[u] : stack[u][i].op \in {"step", "add"}

Start(t, call) ==
  /\ ~Busy(t)
  /\ \A u \in Threads : ~InManual(u)
  /\ call.op \in {"step", "add"} => \A u \in Threads : ~Calling(u)
  /\ Push(t, call)
  /\ UNCHANGED locks

generate(t, s) ==
  /\ life[s] = "unused"
  /\ Start(t, Call("generate", s, "acquire"))
  /\ life' = [life EXCEPT ![s] = "starting"]
  /\ UNCHANGED <<active_session, queued, pending, manual>>

stream(t, s) ==
  /\ life[s] = "unused"
  /\ Start(t, Call("stream", s, "acquire"))
  /\ life' = [life EXCEPT ![s] = "starting"]
  /\ UNCHANGED <<active_session, queued, pending, manual>>

\* next() and close(), possibly on different threads.
UseStream(t, s, op) ==
  /\ life[s] \in {"open", "closed"}
  /\ Start(t, Call(op, s, "iterate"))
  /\ UNCHANGED owners

step(t) == Start(t, Call("step", Manual, "check")) /\ UNCHANGED owners

add_request(t) ==
  /\ manual < MaxManual
  /\ Start(t, Call("add", Manual, "check"))
  /\ manual' = manual + 1
  /\ UNCHANGED <<active_session, queued, life, pending>>

\* The user drops the last reference to a stream that no call is using.
Drop(s) ==
  /\ life[s] = "open"
  /\ \A f \in Frames : f.session # s
  /\ life' = [life EXCEPT ![s] = "dropped"]
  /\ UNCHANGED <<stack, locks, active_session, queued, pending, manual>>

\* The collector finds it, on any thread that is running Python code.
Collect(t, s) ==
  /\ life[s] = "dropped"
  /\ GcInLocks \/ session_lock # t
  /\ life' = [life EXCEPT ![s] = "collected"]
  /\ Push(t, Call("finalize", s, "cancel"))
  /\ UNCHANGED <<locks, active_session, queued, pending, manual>>

-----------------------------------------------------------------------------
(* The session lease: every access is a block under _session_lock *)

Inside == [acquire |-> "acquiring", release |-> "releasing", check |-> "checking"]

LockSession(t) ==
  /\ At(t, {"acquire", "release", "check"})
  /\ session_lock = Nobody
  /\ session_lock' = t
  /\ Goto(t, Inside[Top(t).at])
  /\ UNCHANGED <<execution_lock, iteration_lock, owners>>

\* Mutant: only queued requests keep a session from starting.
RefusedIfQueued == queued # {}

\* Mutant: only another session keeps one from starting.
RefusedIfActive == active_session # Nobody

Refused == active_session # Nobody \/ queued # {}

_acquire_session(t) ==
  /\ At(t, {"acquiring"})
  /\ session_lock' = Nobody
  /\ \/ /\ Refused
        /\ life' = [life EXCEPT ![Top(t).session] = "ended"]
        /\ Return(t)
        /\ UNCHANGED active_session
     \/ /\ ~Refused
        /\ active_session' = Top(t).session
        /\ Goto(t, "admit")
        /\ UNCHANGED <<iteration_lock, life>>
  /\ UNCHANGED <<execution_lock, queued, pending, manual>>

_assert_public_step_access(t) ==
  /\ At(t, {"checking"})
  /\ session_lock' = Nobody
  /\ \/ active_session # Nobody /\ Return(t)
     \/ /\ active_session = Nobody
        /\ Goto(t, IF Top(t).op = "step" THEN "run" ELSE "admit")
        /\ UNCHANGED iteration_lock
  /\ UNCHANGED <<execution_lock, owners>>

\* The end of generate, of a failed start, of close and of the finalizer.
_release_session(t) ==
  /\ At(t, {"releasing"})
  /\ session_lock' = Nobody
  /\ active_session' = IF active_session = Top(t).session THEN Nobody ELSE active_session
  /\ life' = [life EXCEPT ![Top(t).session] = IF @ = "closed" THEN @ ELSE "ended"]
  /\ Return(t)
  /\ UNCHANGED <<execution_lock, queued, pending, manual>>

-----------------------------------------------------------------------------
(* Admission, steps and cancellation *)

_admit_batch(t) ==
  LET s == Top(t).session
  IN  /\ At(t, {"admit"})
      /\ \/ \* An empty batch, or a rejected one with what it admitted taken back.
            /\ IF s = Manual THEN Return(t) ELSE Goto(t, "cancel") /\ UNCHANGED iteration_lock
            /\ UNCHANGED <<queued, life>>
         \/ /\ queued' = queued \cup {s}
            /\ CASE Top(t).op = "generate" -> Goto(t, "run") /\ UNCHANGED <<iteration_lock, life>>
                 [] Top(t).op = "stream" -> /\ life' = [life EXCEPT ![s] = "open"]
                                            /\ Return(t)
                 [] Top(t).op = "add" -> Return(t) /\ UNCHANGED life
      /\ UNCHANGED <<session_lock, execution_lock, active_session, pending, manual>>

MayExecute(t) == execution_lock.owner \in {Nobody, t}
Entered(t) == [owner |-> t, depth |-> execution_lock.depth + 1]
Left(t) == IF execution_lock.depth = 1 THEN [owner |-> Nobody, depth |-> 0]
           ELSE [execution_lock EXCEPT !.depth = @ - 1]

\* generate's loop, a stream without pending events, a manual step.
EnterStep(t) ==
  /\ At(t, {"run"})
  /\ queued # {}
  /\ Top(t).op = "next" => pending[Top(t).session] = 0
  /\ MayExecute(t)
  /\ execution_lock' = Entered(t)
  /\ Goto(t, "stepping")
  /\ UNCHANGED <<session_lock, iteration_lock, owners>>

\* A step ends with events for the queued requests, which may all be finished by
\* them, or it raises.
LeaveStep(t) ==
  LET s == Top(t).session
  IN  /\ At(t, {"stepping"})
      /\ execution_lock' = Left(t)
      /\ \/ /\ CASE Top(t).op = "step" -> Return(t)
                 [] Top(t).op = "generate" -> Goto(t, "cancel") /\ UNCHANGED iteration_lock
                 [] Top(t).op = "next" -> Goto(t, "close") /\ UNCHANGED iteration_lock
            /\ UNCHANGED <<queued, pending>>
         \/ \E events \in 0 .. MaxPending, finished \in BOOLEAN :
              /\ finished => events > 0
              /\ queued' = IF finished THEN {} ELSE queued
              /\ IF Top(t).op = "next"
                 THEN pending' = [pending EXCEPT ![s] = events]
                 ELSE UNCHANGED pending
              /\ IF Top(t).op = "step" THEN Return(t)
                 ELSE Goto(t, "run") /\ UNCHANGED iteration_lock
      /\ UNCHANGED <<session_lock, active_session, life, manual>>

\* generate's loop ends with the queue; without work a stream's next() and a manual
\* step() fail.
NothingLeft(t) ==
  /\ At(t, {"run"})
  /\ queued = {}
  /\ \/ Top(t).op = "generate" /\ Goto(t, "cancel") /\ UNCHANGED iteration_lock
     \/ /\ Top(t).op = "next"
        /\ pending[Top(t).session] = 0
        /\ Goto(t, "close")
        /\ UNCHANGED iteration_lock
     \/ Top(t).op = "step" /\ Return(t)
  /\ UNCHANGED <<session_lock, execution_lock, owners>>

\* next() returns an event, and closes the stream with the last one.
Deliver(t) ==
  LET s == Top(t).session
  IN  /\ At(t, {"run"})
      /\ Top(t).op = "next"
      /\ pending[s] > 0
      /\ pending' = [pending EXCEPT ![s] = @ - 1]
      /\ IF pending[s] = 1 /\ s \notin queued
         THEN Goto(t, "close") /\ UNCHANGED iteration_lock
         ELSE Return(t)
      /\ UNCHANGED <<session_lock, execution_lock, active_session, queued, life, manual>>

\* next() and close() under the iteration lock.
Iterate(t) ==
  LET s == Top(t).session
  IN  /\ At(t, {"iterate"})
      /\ iteration_lock[s] = Nobody
      /\ \/ life[s] = "closed" /\ Return(t)
         \/ /\ life[s] # "closed"
            /\ iteration_lock' = [iteration_lock EXCEPT ![s] = t]
            /\ Goto(t, IF Top(t).op = "next" THEN "run" ELSE "close")
      /\ UNCHANGED <<session_lock, execution_lock, owners>>

\* Mutant: close() gives the lease back and leaves the requests.
CleanupRelease == "release"

Cleanup == "cancel"

\* _close_locked: no second close, no finalizer any more.
Close(t) ==
  LET s == Top(t).session
  IN  /\ At(t, {"close"})
      /\ life' = [life EXCEPT ![s] = "closed"]
      /\ pending' = [pending EXCEPT ![s] = 0]
      /\ Goto(t, Cleanup)
      /\ UNCHANGED <<locks, active_session, queued, manual>>

EnterCancel(t) ==
  /\ At(t, {"cancel"})
  /\ MayExecute(t)
  /\ execution_lock' = Entered(t)
  /\ Goto(t, "cancelling")
  /\ UNCHANGED <<session_lock, iteration_lock, owners>>

\* Mutant: the finalizer only cancels.
AfterCancelEnd(t) ==
  IF Top(t).op = "finalize" THEN Return(t) ELSE Goto(t, "release") /\ UNCHANGED iteration_lock

AfterCancel(t) == Goto(t, "release") /\ UNCHANGED iteration_lock

LeaveCancel(t) ==
  /\ At(t, {"cancelling"})
  /\ queued' = queued \ {Top(t).session}
  /\ execution_lock' = Left(t)
  /\ AfterCancel(t)
  /\ UNCHANGED <<session_lock, active_session, life, pending, manual>>

-----------------------------------------------------------------------------
(* Specification *)

Init ==
  /\ stack = [t \in Threads |-> <<>>]
  /\ session_lock = Nobody
  /\ execution_lock = [owner |-> Nobody, depth |-> 0]
  /\ iteration_lock = [s \in Sessions |-> Nobody]
  /\ active_session = Nobody
  /\ queued = {}
  /\ life = [s \in Sessions |-> "unused"]
  /\ pending = [s \in Sessions |-> 0]
  /\ manual = 0

Begin(t) ==
  \/ \E s \in Sessions : generate(t, s) \/ stream(t, s)
  \/ \E s \in Sessions, op \in {"next", "close"} : UseStream(t, s, op)
  \/ step(t)
  \/ add_request(t)

\* The running call of a thread goes on.
Continue(t) ==
  \/ LockSession(t) \/ _acquire_session(t) \/ _assert_public_step_access(t)
  \/ _release_session(t) \/ _admit_batch(t) \/ EnterStep(t) \/ LeaveStep(t)
  \/ NothingLeft(t) \/ Deliver(t) \/ Iterate(t) \/ Close(t) \/ EnterCancel(t)
  \/ LeaveCancel(t)

\* Nobody is in the engine, and users may leave it at that.
Rest == (\A t \in Threads : ~Busy(t)) /\ UNCHANGED vars

Next ==
  \/ \E t \in Threads : Begin(t) \/ Continue(t)
  \/ \E s \in Sessions : Drop(s)
  \/ \E t \in Threads, s \in Sessions : Collect(t, s)
  \/ Rest

Spec == Init /\ [][Next]_vars

\* Threads run and steps return; a lock that is free again and again is not kept
\* from a waiting thread for ever; and the collector comes to every dropped stream.
FairSpec ==
  /\ Spec
  /\ \A t \in Threads : SF_vars(Continue(t))
  /\ \A s \in Sessions : SF_vars(\E t \in Threads : Collect(t, s))

-----------------------------------------------------------------------------
(* Properties *)

\* Requests outlive nobody: whatever is queued belongs to the holder of the lease
\* or, without one, to manual callers.  So a session that starts never meets the
\* requests of a session before it.
QueueBelongsToOwner ==
  queued \subseteq {IF active_session = Nobody THEN Manual ELSE active_session}

\* A step is made only by the holder of the lease and works only on its requests, and
\* only the holder gives it back: "stream received events owned by another request
\* session" and "attempted to release a stream session owned elsewhere" are never
\* raised.
StepsBelongToOwner ==
  \A f \in Frames :
    /\ f.at = "stepping" =>
         /\ active_session = IF f.session = Manual THEN Nobody ELSE f.session
         /\ queued \subseteq {f.session}
    /\ f.at = "releasing" => active_session = f.session

\* Requests are never cancelled, and their blocks released, in the middle of a
\* step, although the execution lock is reentrant and a finalizer can run on the
\* very thread that is stepping.
CancelOutsideStep ==
  \A f, g \in Frames : ~(f.at = "cancelling" /\ g.at = "stepping")

\* A session that is closed, failed or dropped gives the engine back, and so does
\* every generate().
LeaseIsReturned ==
  \A s \in Sessions :
    /\ life[s] \in {"closed", "dropped", "ended"} ~> active_session # s
    /\ (\E t \in Threads : Busy(t) /\ Top(t) = Call("generate", s, "cancel"))
         ~> active_session # s

\* The finalizer of an abandoned stream "releases the engine lease": it is not
\* made to wait for a lock that its own thread holds.
FinalizerCanRelease ==
  \A t \in Threads :
    Busy(t) /\ Top(t).op = "finalize" /\ Top(t).at = "release" => session_lock # t
=============================================================================
