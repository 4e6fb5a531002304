------------------------- MODULE TensorParallelProofs -------------------------
(***************************************************************************)
(* Proofs about the calls of rank 0 to its workers, for any number of      *)
(* workers, of calls and of failures: the frame that nobody acknowledges   *)
(* delivers every call once, and without failures nobody waits in vain.    *)
(***************************************************************************)
EXTENDS TensorParallel, TLAPS

-----------------------------------------------------------------------------
(* The inductive invariant *)

RootPlaces == {"create", "starting", "ready", "payload", "signal", "method", "sync", "closing",
               "aborting", "join", "down"}
WorkerPlaces == {"start", "starting", "attach", "wait", "payload", "clear", "method", "closing",
                 "gone"}

Part == [header : Nat, payload : Nat]

\* Places, the channel and the collectives keep their types.
TypeOK ==
  /\ pc \in [Ranks -> RootPlaces \cup WorkerPlaces]
  /\ pc[root] \in RootPlaces
  /\ \A w \in Workers : pc[w] \in WorkerPlaces
  /\ calls \in Seq({"run", "exit"})
  /\ frame \in Part
  /\ event \in [Workers -> BOOLEAN]
  /\ unsignalled \in SUBSET Workers
  /\ seen \in [Workers -> Part]
  /\ launched \in [Ranks -> Seq(Nat)]
  /\ shm \in {"none", "linked", "unlinked"}
  /\ root_failed \in BOOLEAN
  /\ failures \in Nat

Launches(r) == Len(launched[r])

\* Every rank launches call 0, the start, then call 1 and so on.
InOrder == \A r \in Ranks : \A i \in 1 .. Launches(r) : launched[r][i] = i - 1

\* Rank 0 launches a call, writes the next one only after that, and its frame is whole
\* from the first event it sets.
Delivering == {"signal", "method", "sync", "closing"}

RootInv ==
  /\ pc[root] = "create" => Launches(root) = 0 /\ Call = 0
  /\ pc[root] = "starting" => Launches(root) = 1
  /\ pc[root] \in {"starting", "aborting"} => Call = 0
  /\ pc[root] \in {"ready", "sync", "closing"} => Launches(root) = Call + 1
  /\ pc[root] \in {"payload", "signal", "method"} => Launches(root) = Call
  /\ pc[root] \in {"payload", "signal", "method", "sync", "closing"} => Call > 0
  /\ pc[root] \in {"join", "down"} /\ Call > 0 => Launches(root) = Call + 1
  /\ pc[root] \in {"ready", "sync"} /\ Call > 0 => calls[Call] = "run"
  /\ pc[root] \in {"closing", "join", "down"} /\ Call > 0 => calls[Call] = "exit"
  /\ unsignalled # {} => pc[root] = "signal"
  /\ pc[root] \in {"payload"} \cup Delivering => frame.header = Call
  /\ pc[root] \in Delivering => frame.payload = Call

\* w has made k - 1 calls, and none is announced to it.
Idle(w, k) == pc[w] \in {"starting", "attach", "wait"} /\ Launches(w) = k /\ ~event[w]

\* Call is announced to w, which has yet to make it.
Called(w) ==
  /\ w \notin unsignalled
  /\ Launches(w) = Call
  /\ \/ event[w] /\ pc[w] \in {"starting", "attach", "wait", "payload", "clear"}
     \/ ~event[w] /\ pc[w] = "method"

\* w has made it.
Done(w) ==
  /\ w \notin unsignalled
  /\ Launches(w) = Call + 1
  /\ ~event[w]
  /\ pc[w] = IF calls[Call] = "run" THEN "wait" ELSE "closing"

\* Where a worker that is alive can be, for each place of rank 0.
WorkerInv(w) ==
  /\ pc[w] = "start" => Launches(w) = 0
  /\ pc[w] \in {"starting", "attach"} => Launches(w) = 1
  /\ pc[root] = "create" => pc[w] \in {"start", "starting"} /\ ~event[w]
  /\ pc[root] \in {"starting", "aborting"} => (pc[w] = "start" /\ ~event[w]) \/ Idle(w, 1)
  /\ pc[root] = "ready" => Idle(w, Call + 1)
  /\ pc[root] = "payload" => Idle(w, Call)
  /\ pc[root] \in Delivering =>
       (w \in unsignalled /\ Idle(w, Call)) \/ Called(w) \/ Done(w)
  /\ pc[root] \in {"join", "down"} =>
       IF Call = 0 THEN (pc[w] = "start" /\ ~event[w]) \/ Idle(w, 1) ELSE Done(w)
  /\ pc[w] \in {"payload", "clear", "method"} => seen[w].header = Call
  /\ pc[w] \in {"clear", "method"} => seen[w].payload = Call

Aligned == InOrder /\ RootInv /\ \A w \in Workers : pc[w] # "gone" => WorkerInv(w)

\* What holds as long as nothing has failed.
FreeInv ==
  /\ pc[root] # "aborting"
  /\ pc[root] \notin {"create", "join", "down"} => shm = "linked"
  /\ pc[root] \in {"join", "down"} => Call > 0
  /\ \A w \in Workers : pc[w] = "gone" =>
       pc[root] \in {"closing", "join", "down"} /\ Launches(w) = Call + 1

IInv ==
  /\ TypeOK
  /\ root_failed => failures > 0
  /\ ~root_failed => Aligned
  /\ failures = 0 => FreeInv

-----------------------------------------------------------------------------
(* Places and launches *)

\* Rank 0 and the workers are the ranks.
LEMMA WorkersAreRanks ==
  /\ root \in Ranks
  /\ root \notin Workers
  /\ Workers \subseteq Ranks
  /\ \A r \in Ranks : r = root \/ r \in Workers
  BY TensorParallelAssumption DEF Ranks

\* One rank moves.
PcAt(r, p) ==
  /\ pc' \in [Ranks -> RootPlaces \cup WorkerPlaces]
  /\ pc'[r] = p
  /\ \A q \in Ranks : q # r => pc'[q] = pc[q]

\* Goto moves one rank.
LEMMA GotoAt ==
  ASSUME TypeOK, NEW r \in Ranks, NEW p \in RootPlaces \cup WorkerPlaces, Goto(r, p)
  PROVE  PcAt(r, p)
  BY DEF TypeOK, Goto, PcAt

\* One rank launches.
LaunchedAt(r, n) ==
  /\ launched' \in [Ranks -> Seq(Nat)]
  /\ Launches(r)' = Launches(r) + 1
  /\ launched'[r][Launches(r) + 1] = n
  /\ \A i \in 1 .. Launches(r) : launched'[r][i] = launched[r][i]
  /\ \A q \in Ranks : q # r => launched'[q] = launched[q]

\* Launch adds one launch.
LEMMA LaunchAt ==
  ASSUME TypeOK, NEW r \in Ranks, NEW n \in Nat, Launch(r, n)
  PROVE  LaunchedAt(r, n)
<1>1. launched[r] \in Seq(Nat)
  BY DEF TypeOK
<1>2. /\ launched' \in [Ranks -> Seq(Nat)]
      /\ launched'[r] = Append(launched[r], n)
      /\ \A q \in Ranks : q # r => launched'[q] = launched[q]
  BY <1>1 DEF TypeOK, Launch
<1>3. /\ Len(Append(launched[r], n)) = Len(launched[r]) + 1
      /\ Append(launched[r], n)[Len(launched[r]) + 1] = n
      /\ \A i \in 1 .. Len(launched[r]) : Append(launched[r], n)[i] = launched[r][i]
  BY <1>1
<1> QED BY <1>2, <1>3 DEF LaunchedAt, Launches

\* Calls and launches are counted.
LEMMA LaunchesInNat ==
  ASSUME TypeOK
  PROVE  Call \in Nat /\ \A r \in Ranks : Launches(r) \in Nat
  BY DEF TypeOK, Call, Launches

\* The next call in the order.
LEMMA LaunchInOrder ==
  ASSUME TypeOK, InOrder, NEW r \in Ranks, LaunchedAt(r, Launches(r))
  PROVE  InOrder'
<1> SUFFICES ASSUME NEW q \in Ranks, NEW i \in 1 .. Launches(q)'
             PROVE  launched'[q][i] = i - 1
  BY DEF InOrder
<1>1. Launches(r) \in Nat
  BY LaunchesInNat
<1>2. CASE q # r
  <2>1. launched'[q] = launched[q] /\ i \in 1 .. Launches(q)
    BY <1>2 DEF LaunchedAt, Launches
  <2> QED BY <2>1 DEF InOrder
<1>3. CASE q = r
  <2>1. i \in 1 .. Launches(r) \/ i = Launches(r) + 1
    BY <1>1, <1>3 DEF LaunchedAt
  <2>2. CASE i \in 1 .. Launches(r)
    BY <1>3, <2>2 DEF LaunchedAt, InOrder
  <2>3. CASE i = Launches(r) + 1
    BY <1>1, <1>3, <2>3 DEF LaunchedAt
  <2> QED BY <2>1, <2>2, <2>3
<1> QED BY <1>2, <1>3

\* A worker that nothing happens to, while rank 0 stays where it is.
LEMMA WorkerKept ==
  ASSUME NEW v \in Workers, WorkerInv(v), pc'[root] = pc[root], pc'[v] = pc[v],
         launched'[v] = launched[v], event'[v] = event[v], seen'[v] = seen[v],
         UNCHANGED <<calls, unsignalled>>
  PROVE  WorkerInv(v)'
  BY DEF WorkerInv, Idle, Called, Done, Launches, Call

-----------------------------------------------------------------------------
(* The steps of a worker *)

\* A worker moves, and neither rank 0 nor another worker does.
LEMMA WorkerMoves ==
  ASSUME IInv, NEW w \in Workers, pc[w] # "gone", NEW p \in WorkerPlaces, Goto(w, p),
         launched' \in [Ranks -> Seq(Nat)],
         \A q \in Ranks : q # w => launched'[q] = launched[q],
         event' \in [Workers -> BOOLEAN], seen' \in [Workers -> Part],
         \A v \in Workers : v # w => event'[v] = event[v] /\ seen'[v] = seen[v],
         failures' \in Nat, failures' = 0 => failures = 0,
         root_failed => failures' > 0,
         UNCHANGED <<calls, frame, unsignalled, shm, root_failed>>,
         ~root_failed /\ Aligned => InOrder',
         ~root_failed /\ Aligned /\ p # "gone" /\ pc'[w] = p /\ pc'[root] = pc[root] =>
           WorkerInv(w)',
         p = "gone" /\ failures' = 0 =>
           pc[root] \in {"closing", "join", "down"} /\ Launches(w)' = Call + 1
  PROVE  IInv'
<1>1. PcAt(w, p) /\ root \in Ranks /\ root # w
  BY GotoAt, WorkersAreRanks DEF IInv
<1>2. pc'[root] = pc[root] /\ launched'[root] = launched[root]
  BY <1>1 DEF PcAt
<1>3. \A v \in Workers : v # w => pc'[v] = pc[v] /\ launched'[v] = launched[v]
  BY <1>1, WorkersAreRanks DEF PcAt
<1>4. TypeOK'
  BY <1>1, <1>2, <1>3 DEF IInv, TypeOK, PcAt
<1>5. ~root_failed' => Aligned'
  <2> SUFFICES ASSUME ~root_failed' PROVE Aligned'
    OBVIOUS
  <2>1. ~root_failed /\ Aligned
    BY DEF IInv
  <2>2. RootInv'
    BY <1>2, <2>1 DEF Aligned, RootInv, Launches, Call, Delivering
  <2>3. ASSUME NEW v \in Workers, pc'[v] # "gone" PROVE WorkerInv(v)'
    <3>1. CASE v = w
      BY <1>1, <1>2, <2>1, <2>3, <3>1 DEF PcAt
    <3>2. CASE v # w
      <4>1. WorkerInv(v)
        BY <1>3, <2>1, <2>3, <3>2 DEF Aligned
      <4> QED BY <1>2, <1>3, <3>2, <4>1, WorkerKept
    <3> QED BY <3>1, <3>2
  <2> QED BY <2>1, <2>2, <2>3 DEF Aligned
<1>6. failures' = 0 => FreeInv'
  <2> SUFFICES ASSUME failures' = 0 PROVE FreeInv'
    OBVIOUS
  <2>1. FreeInv
    BY DEF IInv
  <2>2. ASSUME NEW v \in Workers, pc'[v] = "gone"
        PROVE  pc'[root] \in {"closing", "join", "down"} /\ Launches(v)' = Call' + 1
    <3>1. CASE v = w
      BY <1>1, <1>2, <2>2, <3>1 DEF PcAt, Call
    <3>2. CASE v # w
      BY <1>2, <1>3, <2>1, <2>2, <3>2 DEF FreeInv, Launches, Call
    <3> QED BY <3>1, <3>2
  <2> QED BY <1>2, <2>1, <2>2 DEF FreeInv, Call
<1> QED BY <1>4, <1>5, <1>6 DEF IInv

\* Without a failure, whoever a rank waits for will come.
LEMMA NoHope ==
  ASSUME IInv, failures = 0, NEW r \in Ranks
  PROVE  ~Hopeless(r)
<1> SUFFICES ASSUME pc[r] \in Waiting, NEW q \in Ranks, Launches(q) < Launches(r), Silent(q)
             PROVE  FALSE
  BY DEF Hopeless, Behind, Launches
<1>1. ~root_failed /\ Aligned /\ FreeInv /\ TypeOK
  BY DEF IInv
<1>2. Call \in Nat /\ Launches(r) \in Nat /\ Launches(q) \in Nat
  BY <1>1, LaunchesInNat
<1>3. RootInv /\ pc[root] \in RootPlaces
  BY <1>1 DEF Aligned, TypeOK
<1>4. \A w \in Workers : pc[w] \in WorkerPlaces /\ (pc[w] # "gone" => WorkerInv(w))
  BY <1>1 DEF Aligned, TypeOK
<1>5. \A w \in Workers : pc[w] = "gone" =>
        pc[root] \in {"closing", "join", "down"} /\ Launches(w) = Call + 1
  BY <1>1 DEF FreeInv
\* Nobody is further than the call that is being made.
<1>6. Launches(r) <= Call + 1
  <2>1. CASE r = root
    BY <1>2, <1>3, <2>1 DEF RootInv, Waiting
  <2>2. CASE r # root
    <3>1. r \in Workers /\ pc[r] # "gone"
      BY <2>2, WorkersAreRanks DEF Waiting
    <3>2. WorkerInv(r)
      BY <1>4, <3>1
    <3> QED BY <1>1, <1>2, <1>3, <3>2 DEF WorkerInv, RootPlaces, Idle, Called, Done, Delivering,
                                   Waiting, FreeInv
  <2> QED BY <2>1, <2>2
<1>7. CASE q = root
  <2>1. pc[root] \in {"join", "down"} /\ Call > 0
    BY <1>1, <1>3, <1>7, WorkersAreRanks DEF Silent, RootPlaces, FreeInv
  <2> QED BY <1>2, <1>3, <1>6, <1>7, <2>1 DEF RootInv
<1>8. CASE q \in Workers
  <2>1. CASE pc[q] = "gone"
    BY <1>2, <1>5, <1>6, <1>8, <2>1
  <2>2. CASE pc[q] # "gone"
    <3>1. WorkerInv(q) /\ pc[q] = "wait" /\ ~event[q] /\ q \notin unsignalled
      BY <1>4, <1>8, <2>2 DEF Silent, WorkerPlaces
    <3>2. pc[root] \in {"starting", "ready", "payload"} \cup Delivering \cup {"join", "down"}
      BY <1>1, <1>3, <3>1 DEF WorkerInv, RootPlaces, Delivering, FreeInv
    <3>3. CASE pc[root] \in Delivering \cup {"join", "down"}
      <4>1. Launches(q) = Call + 1
        BY <1>1, <3>1, <3>3 DEF WorkerInv, Called, Done, FreeInv, Delivering
      <4> QED BY <1>2, <1>6, <4>1
    <3>4. CASE pc[root] = "ready"
      <4>1. Launches(q) = Call + 1
        BY <3>1, <3>4 DEF WorkerInv, Idle
      <4> QED BY <1>2, <1>6, <4>1
    <3>5. CASE pc[root] = "starting"
      <4>1. Launches(q) = 1 /\ Call = 0
        BY <1>3, <3>1, <3>5 DEF WorkerInv, Idle, RootInv
      <4> QED BY <1>2, <1>6, <4>1
    <3>6. CASE pc[root] = "payload"
      <4>1. Launches(q) = Call
        BY <3>1, <3>6 DEF WorkerInv, Idle
      <4>2. r \in Workers /\ pc[r] # "gone"
        BY <3>6, WorkersAreRanks DEF Waiting
      <4>3. Launches(r) = Call
        BY <1>4, <3>6, <4>2 DEF WorkerInv, Idle
      <4> QED BY <1>2, <4>1, <4>3
    <3> QED BY <3>2, <3>3, <3>4, <3>5, <3>6
  <2> QED BY <2>1, <2>2
<1> QED BY <1>7, <1>8, WorkersAreRanks

\* A worker joins the process group.
LEMMA WorkerMeetsInv ==
  ASSUME IInv, NEW w \in Workers, WorkerMeets(w)
  PROVE  IInv'
<1>1. /\ pc[w] = "start" /\ Goto(w, "starting") /\ Launch(w, 0)
      /\ UNCHANGED <<calls, frame, event, unsignalled, seen, shm, root_failed, failures>>
  BY DEF WorkerMeets, channel, health
<1>2. w \in Ranks /\ TypeOK
  BY WorkersAreRanks DEF IInv
<1>3. LaunchedAt(w, 0)
  BY <1>1, <1>2, LaunchAt
<1>4. Launches(w) \in Nat /\ Call \in Nat
  BY <1>2, LaunchesInNat
<1>5. ASSUME ~root_failed, Aligned PROVE InOrder' /\ Launches(w)' = 1 /\ WorkerInv(w)
  <2>1. Launches(w) = 0 /\ WorkerInv(w)
    BY <1>1, <1>5 DEF Aligned, WorkerInv
  <2> QED BY <1>2, <1>3, <1>5, <2>1, LaunchInOrder DEF Aligned, LaunchedAt
<1>6. ASSUME ~root_failed, Aligned, pc'[w] = "starting", pc'[root] = pc[root]
      PROVE  WorkerInv(w)'
  <2>1. RootInv /\ pc[root] \in RootPlaces
    BY <1>2, <1>6 DEF Aligned, TypeOK
  <2>2. pc[root] \in {"create", "starting", "aborting", "join", "down"}
    BY <1>1, <1>5, <1>6, <2>1 DEF WorkerInv, RootPlaces, Delivering, Idle, Called, Done
  <2>3. ~event[w] /\ (pc[root] \in {"join", "down"} => Call = 0)
    BY <1>1, <1>5, <1>6, <2>2 DEF WorkerInv, Idle, Done
  <2> QED BY <1>1, <1>5, <1>6, <2>2, <2>3 DEF WorkerInv, Idle, Delivering, Call
<1> QED BY <1>1, <1>2, <1>3, <1>5, <1>6, WorkerMoves DEF IInv, TypeOK, LaunchedAt, WorkerPlaces

\* A worker leaves the start barrier.
LEMMA StartBarrierInv ==
  ASSUME IInv, NEW w \in Workers, StartBarrier(w)
  PROVE  IInv'
<1>1. /\ pc[w] = "starting" /\ Goto(w, "attach") /\ Synced(w)
      /\ UNCHANGED <<calls, frame, event, unsignalled, seen, launched, shm, root_failed, failures>>
  BY WorkersAreRanks DEF StartBarrier, channel, health
<1>2. w \in Ranks /\ TypeOK /\ Launches(root) >= Launches(w)
  BY <1>1, WorkersAreRanks DEF IInv, Synced, Launches
<1>3. ASSUME ~root_failed, Aligned, pc'[w] = "attach", pc'[root] = pc[root]
      PROVE  WorkerInv(w)'
  <2>1. RootInv /\ pc[root] \in RootPlaces /\ WorkerInv(w)
    BY <1>1, <1>2, <1>3 DEF Aligned, TypeOK
  <2>2. pc[root] # "create"
    BY <1>1, <1>2, <2>1 DEF RootInv, WorkerInv
  <2> QED BY <1>1, <1>3, <2>1, <2>2 DEF WorkerInv, Idle, Called, Done, Delivering, Call, Launches
<1>4. Aligned => InOrder'
  BY <1>1 DEF Aligned, InOrder, Launches
<1> QED BY <1>1, <1>2, <1>3, <1>4, WorkerMoves DEF IInv, TypeOK, WorkerPlaces

\* A worker attaches to the shared memory.
LEMMA AttachInv ==
  ASSUME IInv, NEW w \in Workers, Attach(w)
  PROVE  IInv'
<1>1. /\ pc[w] = "attach" /\ Goto(w, IF shm = "linked" THEN "wait" ELSE "gone")
      /\ UNCHANGED <<calls, frame, event, unsignalled, seen, launched, shm, root_failed, failures>>
  BY DEF Attach, channel, health
<1>2. w \in Ranks /\ TypeOK
  BY WorkersAreRanks DEF IInv
<1>3. ASSUME ~root_failed, Aligned, pc'[w] = "wait", pc'[root] = pc[root]
      PROVE  WorkerInv(w)'
  <2>1. pc[root] \in RootPlaces /\ WorkerInv(w)
    BY <1>1, <1>2, <1>3 DEF Aligned, TypeOK
  <2>2. pc[root] # "create"
    BY <1>1, <2>1 DEF WorkerInv
  <2> QED BY <1>1, <1>3, <2>1, <2>2 DEF WorkerInv, Idle, Called, Done, Delivering, Call, Launches
<1>4. Aligned => InOrder'
  BY <1>1 DEF Aligned, InOrder, Launches
\* The barriers keep rank 0 from unlinking the segment.
<1>5. failures = 0 => shm = "linked"
  <2> SUFFICES ASSUME failures = 0 PROVE shm = "linked"
    OBVIOUS
  <2>1. FreeInv /\ WorkerInv(w)
    BY <1>1 DEF IInv, Aligned
  <2> QED BY <1>1, <2>1 DEF FreeInv, WorkerInv, Done
<1>6. CASE shm = "linked"
  BY <1>1, <1>2, <1>3, <1>4, <1>6, WorkerMoves DEF IInv, TypeOK, WorkerPlaces
<1>7. CASE shm # "linked"
  <2>1. Goto(w, "gone") /\ failures > 0
    BY <1>1, <1>2, <1>5, <1>7 DEF TypeOK
  <2> QED BY <1>1, <1>2, <1>4, <2>1, WorkerMoves DEF IInv, TypeOK, WorkerPlaces
<1> QED BY <1>6, <1>7

\* A worker reads the length of the frame.
LEMMA ReadHeaderInv ==
  ASSUME IInv, NEW w \in Workers, ReadHeader(w)
  PROVE  IInv'
<1>1. /\ pc[w] = "wait" /\ event[w] /\ Goto(w, "payload")
      /\ seen' = [seen EXCEPT ![w].header = frame.header]
      /\ UNCHANGED <<calls, frame, event, unsignalled, launched, shm, root_failed, failures>>
  BY DEF ReadHeader, health
<1>2. w \in Ranks /\ TypeOK
  BY WorkersAreRanks DEF IInv
<1>3. /\ seen' \in [Workers -> Part] /\ seen'[w].header = frame.header
      /\ \A v \in Workers : v # w => seen'[v] = seen[v]
  BY <1>1, <1>2 DEF TypeOK, Part
<1>4. ASSUME ~root_failed, Aligned, pc'[w] = "payload", pc'[root] = pc[root]
      PROVE  WorkerInv(w)'
  <2>1. pc[root] \in RootPlaces /\ WorkerInv(w) /\ RootInv
    BY <1>1, <1>2, <1>4 DEF Aligned, TypeOK
  <2>2. pc[root] \in Delivering /\ Called(w)
    BY <1>1, <2>1 DEF WorkerInv, RootPlaces, Delivering, Idle, Called, Done
  <2>3. frame.header = Call
    BY <2>1, <2>2 DEF RootInv
  <2> QED BY <1>1, <1>3, <1>4, <2>2, <2>3 DEF WorkerInv, Called, Delivering, Call, Launches
<1>5. Aligned => InOrder'
  BY <1>1 DEF Aligned, InOrder, Launches
<1> QED BY <1>1, <1>2, <1>3, <1>4, <1>5, WorkerMoves DEF IInv, TypeOK, WorkerPlaces

\* A worker reads the frame.
LEMMA ReadPayloadInv ==
  ASSUME IInv, NEW w \in Workers, ReadPayload(w)
  PROVE  IInv'
<1>1. /\ pc[w] = "payload" /\ Goto(w, "clear")
      /\ seen' = [seen EXCEPT ![w].payload = frame.payload]
      /\ UNCHANGED <<calls, frame, event, unsignalled, launched, shm, root_failed, failures>>
  BY DEF ReadPayload, health, Then
<1>2. w \in Ranks /\ TypeOK
  BY WorkersAreRanks DEF IInv
<1>3. /\ seen' \in [Workers -> Part]
      /\ seen'[w].payload = frame.payload /\ seen'[w].header = seen[w].header
      /\ \A v \in Workers : v # w => seen'[v] = seen[v]
  BY <1>1, <1>2 DEF TypeOK, Part
<1>4. ASSUME ~root_failed, Aligned, pc'[w] = "clear", pc'[root] = pc[root]
      PROVE  WorkerInv(w)'
  <2>1. pc[root] \in RootPlaces /\ WorkerInv(w) /\ RootInv
    BY <1>1, <1>2, <1>4 DEF Aligned, TypeOK
  <2>2. pc[root] \in Delivering /\ Called(w)
    BY <1>1, <2>1 DEF WorkerInv, RootPlaces, Delivering, Idle, Called, Done
  <2>3. frame.payload = Call /\ seen[w].header = Call
    BY <1>1, <2>1, <2>2 DEF RootInv, WorkerInv
  <2> QED BY <1>1, <1>3, <1>4, <2>2, <2>3 DEF WorkerInv, Called, Delivering, Call, Launches
<1>5. Aligned => InOrder'
  BY <1>1 DEF Aligned, InOrder, Launches
<1> QED BY <1>1, <1>2, <1>3, <1>4, <1>5, WorkerMoves DEF IInv, TypeOK, WorkerPlaces

\* A worker clears its event.
LEMMA ClearEventInv ==
  ASSUME IInv, NEW w \in Workers, ClearEvent(w)
  PROVE  IInv'
<1>1. /\ pc[w] = "clear" /\ Goto(w, "method")
      /\ event' = [event EXCEPT ![w] = FALSE]
      /\ UNCHANGED <<calls, frame, seen, unsignalled, launched, shm, root_failed, failures>>
  BY DEF ClearEvent, health, Then
<1>2. w \in Ranks /\ TypeOK
  BY WorkersAreRanks DEF IInv
<1>3. /\ event' \in [Workers -> BOOLEAN] /\ event'[w] = FALSE
      /\ \A v \in Workers : v # w => event'[v] = event[v]
  BY <1>1, <1>2 DEF TypeOK
<1>4. ASSUME ~root_failed, Aligned, pc'[w] = "method", pc'[root] = pc[root]
      PROVE  WorkerInv(w)'
  <2>1. pc[root] \in RootPlaces /\ WorkerInv(w)
    BY <1>1, <1>2, <1>4 DEF Aligned, TypeOK
  <2>2. pc[root] \in Delivering /\ Called(w)
    BY <1>1, <2>1 DEF WorkerInv, RootPlaces, Delivering, Idle, Called, Done
  <2>3. seen[w].payload = Call /\ seen[w].header = Call
    BY <1>1, <2>1 DEF WorkerInv
  <2> QED BY <1>1, <1>3, <1>4, <2>2, <2>3 DEF WorkerInv, Called, Delivering, Call, Launches
<1>5. Aligned => InOrder'
  BY <1>1 DEF Aligned, InOrder, Launches
<1> QED BY <1>1, <1>2, <1>3, <1>4, <1>5, WorkerMoves DEF IInv, TypeOK, WorkerPlaces

\* A worker runs the call it has read.
LEMMA WorkerRunInv ==
  ASSUME IInv, NEW w \in Workers, WorkerRun(w)
  PROVE  IInv'
<1>1. /\ pc[w] = "method"
      /\ UNCHANGED <<calls, frame, event, unsignalled, seen, shm, root_failed, failures>>
  BY DEF WorkerRun, channel, health
<1>2. w \in Ranks /\ TypeOK /\ Call \in Nat /\ Launches(w) \in Nat
  BY WorkersAreRanks, LaunchesInNat DEF IInv
<1>3. ~root_failed /\ Aligned =>
        /\ seen[w].header = Call /\ seen[w].payload = Call
        /\ pc[root] \in Delivering /\ Called(w)
  <2> SUFFICES ASSUME ~root_failed, Aligned
               PROVE  /\ seen[w].header = Call /\ seen[w].payload = Call
                      /\ pc[root] \in Delivering /\ Called(w)
    OBVIOUS
  <2>1. pc[root] \in RootPlaces /\ WorkerInv(w)
    BY <1>1, <1>2 DEF Aligned, TypeOK
  <2> QED BY <1>1, <2>1 DEF WorkerInv, RootPlaces, Delivering, Idle, Called, Done
<1>4. CASE seen[w].header # seen[w].payload /\ Goto(w, "gone") /\ UNCHANGED launched
  <2>1. root_failed /\ failures > 0
    BY <1>3, <1>4 DEF IInv
  <2> QED BY <1>1, <1>2, <1>4, <2>1, WorkerMoves, SMTT(30) DEF IInv, TypeOK, WorkerPlaces
<1>5. CASE /\ Launch(w, seen[w].payload)
           /\ Goto(w, IF calls[seen[w].payload] = "run" THEN Then.method ELSE "closing")
  <2>1. PICK p \in {"wait", "closing"} :
          Goto(w, p) /\ p = IF calls[seen[w].payload] = "run" THEN "wait" ELSE "closing"
    BY <1>5 DEF Then
  <2>2. seen[w].payload \in Nat
    BY <1>2 DEF TypeOK, Part
  <2>3. LaunchedAt(w, seen[w].payload)
    BY <1>2, <1>5, <2>2, LaunchAt
  <2>4. ~root_failed /\ Aligned => InOrder'
    <3> SUFFICES ASSUME ~root_failed, Aligned PROVE InOrder'
      OBVIOUS
    <3>1. Launches(w) = seen[w].payload
      BY <1>3 DEF Called
    <3> QED BY <1>2, <2>3, <3>1, LaunchInOrder DEF Aligned
  <2>5. ASSUME ~root_failed, Aligned, pc'[w] = p, pc'[root] = pc[root]
        PROVE  WorkerInv(w)'
    <3>1. /\ Launches(w)' = Call + 1
          /\ p = IF calls[Call] = "run" THEN "wait" ELSE "closing"
          /\ w \notin unsignalled /\ ~event[w]
      BY <1>1, <1>3, <2>1, <2>3, <2>5 DEF LaunchedAt, Called
    <3>2. Done(w)'
      BY <1>1, <2>5, <3>1 DEF Done, Call
    <3> QED BY <1>1, <1>3, <2>1, <2>5, <3>2 DEF WorkerInv, Delivering
  <2> QED BY <1>1, <1>2, <2>1, <2>3, <2>4, <2>5, WorkerMoves
          DEF IInv, TypeOK, WorkerPlaces, LaunchedAt
<1> QED BY <1>4, <1>5 DEF WorkerRun

\* A worker that ends, by itself or not, is counted out.
LEMMA GoneInv ==
  ASSUME IInv, NEW w \in Workers, pc[w] # "gone", Goto(w, "gone"),
         failures' \in Nat, failures' = 0 => failures = 0, failures' >= failures,
         failures' = 0 => pc[root] \in {"closing", "join", "down"} /\ Launches(w) = Call + 1,
         UNCHANGED <<calls, frame, event, unsignalled, seen, launched, shm, root_failed>>
  PROVE  IInv'
<1>1. w \in Ranks /\ TypeOK
  BY WorkersAreRanks DEF IInv
<1>2. Aligned => InOrder'
  BY <1>1 DEF Aligned, InOrder, Launches
<1>3. Launches(w)' = Launches(w)
  BY DEF Launches
<1>4. root_failed => failures' > 0
  BY DEF IInv, TypeOK
<1> QED BY <1>1, <1>2, <1>3, <1>4, WorkerMoves DEF IInv, TypeOK, WorkerPlaces

\* A worker leaves its loop.
LEMMA WorkerExitInv ==
  ASSUME IInv, NEW w \in Workers, WorkerExit(w)
  PROVE  IInv'
<1>1. /\ pc[w] = "closing" /\ Goto(w, "gone") /\ Synced(w)
      /\ UNCHANGED <<calls, frame, event, unsignalled, seen, launched, shm, root_failed, failures>>
  BY DEF WorkerExit, channel, health
<1>2. TypeOK /\ Call \in Nat /\ Launches(w) \in Nat /\ Launches(root) \in Nat
  BY WorkersAreRanks, LaunchesInNat DEF IInv
<1>3. failures = 0 => pc[root] \in {"closing", "join", "down"} /\ Launches(w) = Call + 1
  <2> SUFFICES ASSUME failures = 0
               PROVE  pc[root] \in {"closing", "join", "down"} /\ Launches(w) = Call + 1
    OBVIOUS
  <2>1. RootInv /\ WorkerInv(w) /\ pc[root] \in RootPlaces
    BY <1>1 DEF IInv, Aligned, TypeOK
  <2>2. pc[root] \in Delivering \cup {"join", "down"} /\ Done(w)
    BY <1>1, <2>1 DEF WorkerInv, RootPlaces, Delivering, Idle, Called, Done
  <2>3. Launches(root) >= Launches(w)
    BY <1>1, WorkersAreRanks DEF Synced, Launches
  <2>4. pc[root] \notin {"signal", "method"}
    BY <1>2, <2>1, <2>2, <2>3 DEF RootInv, Done
  <2>5. pc[root] # "sync"
    BY <1>1, <2>1, <2>2 DEF RootInv, Done
  <2> QED BY <2>2, <2>4, <2>5 DEF Delivering, Done
<1> QED BY <1>1, <1>2, <1>3, GoneInv DEF TypeOK

\* A collective of a worker times out.
LEMMA WorkerTimeoutInv ==
  ASSUME IInv, NEW w \in Workers, Timeout(w)
  PROVE  IInv'
<1>1. /\ pc[w] # "gone" /\ Goto(w, "gone") /\ Hopeless(w) /\ w \in Ranks
      /\ UNCHANGED <<calls, frame, event, unsignalled, seen, launched, shm, root_failed, failures>>
  BY WorkersAreRanks DEF Timeout, channel, health, Hopeless, Waiting
<1>2. failures # 0
  BY <1>1, NoHope
<1> QED BY <1>1, <1>2, GoneInv DEF IInv, TypeOK

\* A worker dies.
LEMMA WorkerDiesInv ==
  ASSUME IInv, NEW w \in Workers, WorkerDies(w)
  PROVE  IInv'
  BY GoneInv DEF WorkerDies, channel, IInv, TypeOK

\* Rank 0 terminates a worker.
LEMMA StopWorkerInv ==
  ASSUME IInv, NEW w \in Workers, StopWorker(w)
  PROVE  IInv'
<1>1. /\ pc[root] = "join" /\ pc[w] # "gone" /\ Goto(w, "gone")
      /\ UNCHANGED <<calls, frame, event, unsignalled, seen, launched, shm, root_failed, failures>>
  BY DEF StopWorker, channel, health
<1>2. failures = 0 => Launches(w) = Call + 1
  <2> SUFFICES ASSUME failures = 0 PROVE Launches(w) = Call + 1
    OBVIOUS
  <2>1. WorkerInv(w) /\ FreeInv
    BY <1>1 DEF IInv, Aligned
  <2> QED BY <1>1, <2>1 DEF WorkerInv, FreeInv, Done
<1> QED BY <1>1, <1>2, GoneInv DEF IInv, TypeOK

-----------------------------------------------------------------------------
(* The steps of rank 0 *)

\* Rank 0 moves; what else it does to the state is of the right type.
LEMMA RootMoves ==
  ASSUME IInv, NEW p \in RootPlaces, Goto(root, p),
         launched' \in [Ranks -> Seq(Nat)],
         \A v \in Workers : launched'[v] = launched[v],
         calls' \in Seq({"run", "exit"}), frame' \in Part, event' \in [Workers -> BOOLEAN],
         unsignalled' \in SUBSET Workers, shm' \in {"none", "linked", "unlinked"},
         root_failed' \in BOOLEAN, failures' \in Nat, failures' = 0 => failures = 0,
         root_failed' => failures' > 0, root_failed => root_failed', UNCHANGED seen,
         pc'[root] = p /\ ~root_failed /\ ~root_failed' /\ Aligned => InOrder' /\ RootInv',
         \A v \in Workers :
           /\ pc'[root] = p /\ ~root_failed /\ ~root_failed' /\ RootInv
           /\ pc'[v] = pc[v] /\ pc[v] # "gone" /\ WorkerInv(v)
           => WorkerInv(v)',
         pc'[root] = p /\ ~root_failed /\ Aligned /\ FreeInv /\ failures' = 0 =>
           /\ p # "aborting"
           /\ p \notin {"create", "join", "down"} => shm' = "linked"
           /\ p \in {"join", "down"} => Call' > 0
           /\ p \notin {"closing", "join", "down"} => pc[root] \notin {"closing", "join", "down"}
           /\ pc[root] \in {"closing", "join", "down"} => Call' = Call
  PROVE  IInv'
<1>1. PcAt(root, p)
  BY GotoAt, WorkersAreRanks DEF IInv
<1>2. /\ pc' \in [Ranks -> RootPlaces \cup WorkerPlaces] /\ pc'[root] = p
      /\ \A v \in Workers : pc'[v] = pc[v]
  BY <1>1, WorkersAreRanks DEF PcAt
<1>3. TypeOK'
  BY <1>2 DEF IInv, TypeOK
<1>4. ASSUME ~root_failed' PROVE Aligned'
  <2>1. ~root_failed /\ Aligned
    BY <1>4 DEF IInv
  <2>2. ASSUME NEW v \in Workers, pc'[v] # "gone" PROVE WorkerInv(v)'
    <3>1. pc'[v] = pc[v] /\ pc[v] # "gone" /\ WorkerInv(v) /\ RootInv
      BY <1>2, <2>1, <2>2 DEF Aligned
    <3> QED BY <1>2, <1>4, <2>1, <3>1
  <2> QED BY <1>2, <1>4, <2>1, <2>2 DEF Aligned
<1>5. ASSUME failures' = 0 PROVE FreeInv'
  <2>1. FreeInv /\ ~root_failed /\ Aligned
    BY <1>5 DEF IInv
  <2>2. ASSUME NEW v \in Workers, pc'[v] = "gone"
        PROVE  p \in {"closing", "join", "down"} /\ Launches(v)' = Call' + 1
    <3>1. pc[root] \in {"closing", "join", "down"} /\ Launches(v) = Call + 1
      BY <1>2, <2>1, <2>2 DEF FreeInv
    <3> QED BY <1>2, <1>5, <2>1, <3>1 DEF Launches
  <2> QED BY <1>2, <1>5, <2>1, <2>2 DEF FreeInv
<1> QED BY <1>3, <1>4, <1>5 DEF IInv

\* Rank 0 creates the shared memory.
LEMMA CreateShmInv ==
  ASSUME IInv, CreateShm
  PROVE  IInv'
<1>1. /\ pc[root] = "create" /\ Goto(root, "starting") /\ Launch(root, 0) /\ shm' = "linked"
      /\ UNCHANGED <<calls, frame, event, unsignalled, seen, root_failed, failures>>
  BY DEF CreateShm, channel, health
<1>2. root \in Ranks /\ TypeOK /\ Launches(root) \in Nat
  BY WorkersAreRanks, LaunchesInNat DEF IInv
<1>3. LaunchedAt(root, 0)
  BY <1>1, <1>2, LaunchAt
<1>4. ASSUME pc'[root] = "starting", ~root_failed, Aligned
      PROVE  InOrder' /\ RootInv'
  <2>1. Launches(root) = 0 /\ Call = 0 /\ unsignalled = {}
    BY <1>1, <1>4 DEF Aligned, RootInv
  <2>2. Launches(root)' = 1
    BY <1>3, <2>1 DEF LaunchedAt
  <2>3. InOrder'
    BY <1>2, <1>3, <1>4, <2>1, LaunchInOrder DEF Aligned
  <2>4. RootInv'
    BY <1>1, <1>4, <2>1, <2>2 DEF RootInv, Call, Delivering
  <2> QED BY <2>3, <2>4
<1>5. ASSUME NEW v \in Workers, pc'[root] = "starting", pc'[v] = pc[v], WorkerInv(v)
      PROVE  WorkerInv(v)'
  <2>1. launched'[v] = launched[v]
    BY <1>3, WorkersAreRanks DEF LaunchedAt
  <2> QED BY <1>1, <1>5, <2>1 DEF WorkerInv, Idle, Delivering, Launches, Call
<1> QED BY <1>1, <1>2, <1>3, <1>4, <1>5, RootMoves, WorkersAreRanks
        DEF IInv, TypeOK, LaunchedAt, RootPlaces

\* The set-up of rank 0 fails.
LEMMA RootInitFailsInv ==
  ASSUME IInv, RootInitFails
  PROVE  IInv'
<1>1. /\ pc[root] = "create" /\ Goto(root, "aborting") /\ failures' = failures + 1
      /\ UNCHANGED <<calls, frame, event, unsignalled, seen, launched, shm, root_failed>>
  BY DEF RootInitFails, channel
<1>2. TypeOK /\ failures' \in Nat /\ failures' > 0
  BY <1>1 DEF IInv, TypeOK
<1>3. ASSUME pc'[root] = "aborting", ~root_failed, Aligned
      PROVE  InOrder' /\ RootInv'
  <2>1. InOrder'
    BY <1>1, <1>3 DEF Aligned, InOrder, Launches
  <2>2. RootInv'
    BY <1>1, <1>3 DEF Aligned, RootInv, Call, Delivering
  <2> QED BY <2>1, <2>2
<1>4. ASSUME NEW v \in Workers, pc'[root] = "aborting", pc'[v] = pc[v], WorkerInv(v)
      PROVE  WorkerInv(v)'
  BY <1>1, <1>4 DEF WorkerInv, Idle, Delivering, Launches, Call
<1> QED BY <1>1, <1>2, <1>3, <1>4, RootMoves DEF IInv, TypeOK, RootPlaces

\* Rank 0 leaves the start barrier.
LEMMA RootBarrierInv ==
  ASSUME IInv, StartBarrier(root)
  PROVE  IInv'
<1>1. /\ pc[root] = "starting" /\ Goto(root, "ready") /\ Synced(root)
      /\ UNCHANGED <<calls, frame, event, unsignalled, seen, launched, shm, root_failed, failures>>
  BY DEF StartBarrier, channel, health
<1>2. TypeOK
  BY DEF IInv
<1>3. ASSUME pc'[root] = "ready", ~root_failed, Aligned
      PROVE  InOrder' /\ RootInv'
  <2>1. InOrder'
    BY <1>1, <1>3 DEF Aligned, InOrder, Launches
  <2>2. RootInv'
    BY <1>1, <1>3 DEF Aligned, RootInv, Call, Delivering, Launches
  <2> QED BY <2>1, <2>2
<1>4. ASSUME NEW v \in Workers, pc'[root] = "ready", pc'[v] = pc[v], WorkerInv(v), RootInv
      PROVE  WorkerInv(v)'
  <2>1. Launches(v) >= Launches(root)
    BY <1>1, WorkersAreRanks DEF Synced, Launches
  <2>2. Launches(root) = 1 /\ Call = 0
    BY <1>1, <1>4 DEF RootInv
  <2>3. pc[v] # "start"
    BY <1>4, <2>1, <2>2 DEF WorkerInv
  <2>4. Idle(v, Call + 1)
    BY <1>1, <1>4, <2>2, <2>3 DEF WorkerInv
  <2> QED BY <1>1, <1>4, <2>3, <2>4 DEF WorkerInv, Idle, Delivering, Launches, Call
<1> QED BY <1>1, <1>2, <1>3, <1>4, RootMoves DEF IInv, FreeInv, TypeOK, RootPlaces

\* Rank 0 writes the length of the frame.
LEMMA WriteHeaderInv ==
  ASSUME IInv, NEW method \in {"run", "exit"}, WriteHeader(method)
  PROVE  IInv'
<1>1. /\ pc[root] = "ready" /\ Goto(root, "payload")
      /\ calls' = Append(calls, method)
      /\ frame' = [frame EXCEPT !.header = Call + 1]
      /\ UNCHANGED <<event, unsignalled, seen, launched, shm, root_failed, failures>>
  BY DEF WriteHeader, health
<1>2. TypeOK /\ Call \in Nat
  BY LaunchesInNat DEF IInv
<1>3. calls' \in Seq({"run", "exit"}) /\ Call' = Call + 1
  BY <1>1, <1>2 DEF TypeOK, Call
<1>4. frame' \in Part /\ frame'.header = Call'
  <2>1. PICK c \in Nat : c = Call + 1
    BY <1>2
  <2>2. frame' \in Part /\ frame'.header = c
    BY <1>1, <1>2, <2>1 DEF TypeOK, Part
  <2> QED BY <1>3, <2>1, <2>2
<1>5. ASSUME pc'[root] = "payload", ~root_failed, Aligned
      PROVE  InOrder' /\ RootInv'
  <2>1. InOrder'
    BY <1>1, <1>5 DEF Aligned, InOrder, Launches
  <2>2. Launches(root)' = Call' /\ Call' > 0 /\ unsignalled = {}
    BY <1>1, <1>2, <1>3, <1>5 DEF Aligned, RootInv, Launches
  <2>3. RootInv'
    BY <1>1, <1>4, <1>5, <2>2 DEF RootInv, Delivering
  <2> QED BY <2>1, <2>3
<1>6. ASSUME NEW v \in Workers, pc'[root] = "payload", pc'[v] = pc[v], WorkerInv(v)
      PROVE  WorkerInv(v)'
  <2>1. Idle(v, Call + 1)
    BY <1>1, <1>6 DEF WorkerInv
  <2>2. Idle(v, Call)'
    BY <1>1, <1>3, <1>6, <2>1 DEF Idle, Launches
  <2> QED BY <1>1, <1>6, <2>1, <2>2 DEF WorkerInv, Idle, Delivering, Launches
<1> QED BY <1>1, <1>2, <1>3, <1>4, <1>5, <1>6, RootMoves DEF IInv, FreeInv, TypeOK, RootPlaces

\* Rank 0 writes the frame.
LEMMA WritePayloadInv ==
  ASSUME IInv, WritePayload
  PROVE  IInv'
<1>1. /\ pc[root] = "payload" /\ Goto(root, "signal")
      /\ frame' = [frame EXCEPT !.payload = Call]
      /\ unsignalled' = Workers
      /\ UNCHANGED <<calls, event, seen, launched, shm, root_failed, failures>>
  BY DEF WritePayload, health
<1>2. TypeOK /\ Call \in Nat
  BY LaunchesInNat DEF IInv
<1>3. frame' \in Part /\ frame'.header = frame.header /\ frame'.payload = Call
  BY <1>1, <1>2 DEF TypeOK, Part
<1>4. ASSUME pc'[root] = "signal", ~root_failed, Aligned
      PROVE  InOrder' /\ RootInv'
  <2>1. InOrder'
    BY <1>1, <1>4 DEF Aligned, InOrder, Launches
  <2>2. RootInv'
    BY <1>1, <1>3, <1>4 DEF Aligned, RootInv, Delivering, Launches, Call
  <2> QED BY <2>1, <2>2
<1>5. ASSUME NEW v \in Workers, pc'[root] = "signal", pc'[v] = pc[v], WorkerInv(v)
      PROVE  WorkerInv(v)'
  <2>1. Idle(v, Call)
    BY <1>1, <1>5 DEF WorkerInv
  <2>2. v \in unsignalled' /\ Idle(v, Call)'
    BY <1>1, <1>5, <2>1 DEF Idle, Launches, Call
  <2> QED BY <1>1, <1>5, <2>1, <2>2 DEF WorkerInv, Idle, Delivering, Launches
<1> QED BY <1>1, <1>2, <1>3, <1>4, <1>5, RootMoves DEF IInv, FreeInv, TypeOK, RootPlaces

\* Rank 0 wakes one worker.
LEMMA SetEventInv ==
  ASSUME IInv, NEW w \in Workers, SetEvent(w)
  PROVE  IInv'
<1>1. /\ pc[root] = "signal" /\ w \in unsignalled
      /\ event' = [event EXCEPT ![w] = TRUE]
      /\ unsignalled' = unsignalled \ {w}
      /\ UNCHANGED <<calls, frame, seen, launched, shm, root_failed, failures>>
  BY DEF SetEvent, health
<1>2. PICK p \in {"method", "signal"} :
        Goto(root, p) /\ p = IF unsignalled = {w} THEN "method" ELSE "signal"
  BY DEF SetEvent
<1>3. TypeOK
  BY DEF IInv
<1>4. /\ event' \in [Workers -> BOOLEAN] /\ event'[w] = TRUE
      /\ \A v \in Workers : v # w => event'[v] = event[v]
  BY <1>1, <1>3 DEF TypeOK
<1>5. ASSUME pc'[root] = p, ~root_failed, Aligned
      PROVE  InOrder' /\ RootInv'
  <2>1. InOrder'
    BY <1>1, <1>5 DEF Aligned, InOrder, Launches
  <2>2. unsignalled' # {} => p = "signal"
    BY <1>1, <1>2
  <2>3. RootInv'
    BY <1>1, <1>2, <1>5, <2>2 DEF Aligned, RootInv, Delivering, Launches, Call
  <2> QED BY <2>1, <2>3
<1>6. ASSUME NEW v \in Workers, pc'[root] = p, pc'[v] = pc[v], WorkerInv(v)
      PROVE  WorkerInv(v)'
  <2>1. (v \in unsignalled /\ Idle(v, Call)) \/ Called(v) \/ Done(v)
    BY <1>1, <1>6 DEF WorkerInv, Delivering
  <2>2. UNCHANGED <<Launches(v), Call, calls, seen>>
    BY <1>1 DEF Launches, Call
  <2>3. (v \in unsignalled' /\ Idle(v, Call)') \/ Called(v)' \/ Done(v)'
    <3>1. CASE v = w
      <4>1. Idle(v, Call)
        BY <1>1, <2>1, <3>1 DEF Called, Done
      <4> QED BY <1>1, <1>4, <1>6, <2>2, <3>1, <4>1 DEF Idle, Called
    <3>2. CASE v # w
      <4>1. event'[v] = event[v] /\ (v \in unsignalled' <=> v \in unsignalled)
        BY <1>1, <1>4, <3>2
      <4> QED BY <1>6, <2>1, <2>2, <4>1 DEF Idle, Called, Done
    <3> QED BY <3>1, <3>2
  <2> QED BY <1>2, <1>6, <2>2, <2>3 DEF WorkerInv, Delivering
<1> QED BY <1>1, <1>2, <1>3, <1>4, <1>5, <1>6, RootMoves DEF IInv, FreeInv, TypeOK, RootPlaces

\* Rank 0 launches its part of the call.
LEMMA RootLaunchInv ==
  ASSUME IInv, pc[root] = "method", NEW p \in {"sync", "closing"}, Goto(root, p),
         calls[Call] = (IF p = "sync" THEN "run" ELSE "exit"), Launch(root, Call),
         UNCHANGED <<calls, frame, event, unsignalled, seen, shm, root_failed, failures>>
  PROVE  IInv'
<1>1. root \in Ranks /\ TypeOK /\ Launches(root) \in Nat /\ Call \in Nat
  BY WorkersAreRanks, LaunchesInNat DEF IInv
<1>2. LaunchedAt(root, Call)
  BY <1>1, LaunchAt
<1>3. ASSUME pc'[root] = p, ~root_failed, Aligned
      PROVE  InOrder' /\ RootInv'
  <2>1. Launches(root) = Call /\ Call > 0 /\ unsignalled = {}
    BY <1>3 DEF Aligned, RootInv
  <2>2. InOrder'
    BY <1>1, <1>2, <1>3, <2>1, LaunchInOrder DEF Aligned
  <2>3. Launches(root)' = Call + 1 /\ Call' = Call
    BY <1>2, <2>1 DEF LaunchedAt, Call
  <2>4. frame.header = Call /\ frame.payload = Call
    BY <1>3 DEF Aligned, RootInv, Delivering
  <2>5. RootInv'
    BY <1>3, <2>1, <2>3, <2>4 DEF RootInv, Delivering
  <2> QED BY <2>2, <2>5
<1>4. ASSUME NEW v \in Workers, pc'[root] = p, pc'[v] = pc[v], WorkerInv(v)
      PROVE  WorkerInv(v)'
  <2>1. launched'[v] = launched[v]
    BY <1>2, WorkersAreRanks DEF LaunchedAt
  <2>2. (v \in unsignalled /\ Idle(v, Call)) \/ Called(v) \/ Done(v)
    BY <1>4 DEF WorkerInv, Delivering
  <2>3. (v \in unsignalled' /\ Idle(v, Call)') \/ Called(v)' \/ Done(v)'
    BY <1>4, <2>1, <2>2 DEF Idle, Called, Done, Launches, Call
  <2> QED BY <1>4, <2>1, <2>3 DEF WorkerInv, Delivering, Launches, Call
<1> QED BY <1>1, <1>2, <1>3, <1>4, RootMoves, WorkersAreRanks
        DEF IInv, FreeInv, TypeOK, LaunchedAt, RootPlaces

\* The call raises in rank 0.
LEMMA RootRunFailsInv ==
  ASSUME IInv, RootRunFails
  PROVE  IInv'
<1>1. /\ Goto(root, "ready") /\ failures' = failures + 1 /\ root_failed' = TRUE
      /\ UNCHANGED <<calls, frame, event, unsignalled, seen, launched, shm>>
  BY DEF RootRunFails, channel
<1>2. failures' \in Nat /\ failures' > 0
  BY <1>1 DEF IInv, TypeOK
<1> QED BY <1>1, <1>2, RootMoves DEF IInv, TypeOK, RootPlaces

\* Whoever has not made the call that rank 0 waits for is gone, or will make it.
LEMMA AllDone ==
  ASSUME IInv, pc[root] \in {"sync", "closing"}, Synced(root) \/ Hopeless(root),
         NEW v \in Workers, RootInv, WorkerInv(v), pc[v] # "gone"
  PROVE  Done(v)
<1>1. unsignalled = {} /\ Launches(root) = Call + 1
  BY DEF RootInv
<1>2. Called(v) \/ Done(v)
  BY <1>1 DEF WorkerInv, Delivering
<1>3. v \in Ranks /\ v # root /\ Call \in Nat /\ pc[v] \in WorkerPlaces
  BY WorkersAreRanks, LaunchesInNat DEF IInv, TypeOK
<1>4. CASE Called(v)
  <2>1. Launches(v) < Launches(root)
    BY <1>1, <1>3, <1>4 DEF Called
  <2>2. ~Synced(root)
    <3> SUFFICES ASSUME Synced(root) PROVE FALSE
      OBVIOUS
    <3>1. Launches(v) >= Launches(root)
      BY <1>3 DEF Synced, Launches
    <3> QED BY <1>1, <1>3, <1>4, <3>1 DEF Called
  <2>3. v \in Behind(root)
    BY <1>3, <2>1 DEF Behind, Launches
  <2>4. Silent(v)
    BY <2>2, <2>3 DEF Hopeless
  <2> QED BY <1>3, <1>4, <2>4 DEF Silent, WorkerPlaces, Called
<1> QED BY <1>2, <1>4

\* Rank 0 goes on with or without the workers that are gone.
LEMMA RootGoesOn ==
  ASSUME IInv, pc[root] = "sync", Synced(root) \/ Hopeless(root), Goto(root, "ready"),
         UNCHANGED <<calls, frame, event, unsignalled, seen, launched, shm, root_failed, failures>>
  PROVE  IInv'
<1>1. ASSUME pc'[root] = "ready", ~root_failed, Aligned
      PROVE  InOrder' /\ RootInv'
  <2>1. InOrder'
    BY <1>1 DEF Aligned, InOrder, Launches
  <2>2. RootInv'
    BY <1>1 DEF Aligned, RootInv, Delivering, Launches, Call
  <2> QED BY <2>1, <2>2
<1>2. ASSUME NEW v \in Workers, pc'[root] = "ready", pc'[v] = pc[v], pc[v] # "gone",
             WorkerInv(v), RootInv
      PROVE  WorkerInv(v)'
  <2>1. Done(v) /\ calls[Call] = "run"
    BY <1>2, AllDone DEF RootInv
  <2>2. Idle(v, Call + 1)'
    BY <1>2, <2>1 DEF Idle, Done, Launches, Call
  <2> QED BY <1>2, <2>1, <2>2 DEF WorkerInv, Done, Delivering, Launches, Call
<1> QED BY <1>1, <1>2, RootMoves DEF IInv, FreeInv, TypeOK, RootPlaces

\* Rank 0 unlinks the shared memory.
LEMMA UnlinkInv ==
  ASSUME IInv, Unlink
  PROVE  IInv'
<1>1. /\ pc[root] = "closing" /\ Goto(root, "join") /\ shm' = "unlinked"
      /\ Synced(root) \/ Hopeless(root)
      /\ UNCHANGED <<calls, frame, event, unsignalled, seen, launched, root_failed, failures>>
  BY DEF Unlink, channel, health, ClosedBarrier
<1>2. ASSUME pc'[root] = "join", ~root_failed, Aligned
      PROVE  InOrder' /\ RootInv'
  <2>1. InOrder'
    BY <1>1, <1>2 DEF Aligned, InOrder, Launches
  <2>2. RootInv'
    BY <1>1, <1>2 DEF Aligned, RootInv, Delivering, Launches, Call
  <2> QED BY <2>1, <2>2
<1>3. ASSUME NEW v \in Workers, pc'[root] = "join", pc'[v] = pc[v], pc[v] # "gone",
             WorkerInv(v), RootInv
      PROVE  WorkerInv(v)'
  <2>1. Done(v) /\ Call > 0 /\ Call \in Nat
    BY <1>1, <1>3, AllDone, LaunchesInNat DEF RootInv, IInv
  <2>2. Done(v)' /\ Call' # 0
    BY <1>1, <1>3, <2>1 DEF Done, Launches, Call
  <2> QED BY <1>1, <1>3, <2>1, <2>2 DEF WorkerInv, Delivering, Launches, Call
<1>4. ~root_failed /\ Aligned => Call > 0
  BY <1>1 DEF Aligned, RootInv
<1>5. Call' = Call
  BY <1>1 DEF Call
<1> QED BY <1>1, <1>2, <1>3, <1>4, <1>5, RootMoves DEF IInv, FreeInv, TypeOK, RootPlaces

\* A start that is given up, before or after the segment is there.
LEMMA AbortingInv ==
  ASSUME IInv, pc[root] = "starting", Hopeless(root), Goto(root, "aborting"),
         UNCHANGED <<calls, frame, event, unsignalled, seen, launched, shm, root_failed, failures>>
  PROVE  IInv'
<1>1. failures # 0
  BY NoHope, WorkersAreRanks
<1>2. ASSUME pc'[root] = "aborting", ~root_failed, Aligned
      PROVE  InOrder' /\ RootInv'
  <2>1. InOrder'
    BY <1>2 DEF Aligned, InOrder, Launches
  <2>2. RootInv'
    BY <1>2 DEF Aligned, RootInv, Delivering, Launches, Call
  <2> QED BY <2>1, <2>2
<1>3. ASSUME NEW v \in Workers, pc'[root] = "aborting", pc'[v] = pc[v], WorkerInv(v)
      PROVE  WorkerInv(v)'
  BY <1>3 DEF WorkerInv, Idle, Delivering, Launches, Call
<1> QED BY <1>1, <1>2, <1>3, RootMoves DEF IInv, TypeOK, RootPlaces

\* A collective of rank 0 times out.
LEMMA RootTimeoutInv ==
  ASSUME IInv, Timeout(root)
  PROVE  IInv'
<1>1. /\ Hopeless(root)
      /\ UNCHANGED <<calls, frame, event, unsignalled, seen, launched, shm, root_failed, failures>>
  BY DEF Timeout, channel, health
<1>2. CASE pc[root] = "sync" /\ Goto(root, "ready")
  BY <1>1, <1>2, RootGoesOn
<1>3. CASE pc[root] = "starting" /\ Goto(root, "aborting")
  BY <1>1, <1>3, AbortingInv
<1> QED BY <1>2, <1>3 DEF Timeout

\* Rank 0 aborts.
LEMMA AbortInv ==
  ASSUME IInv, Abort
  PROVE  IInv'
<1>1. /\ pc[root] = "aborting" /\ Goto(root, "join")
      /\ shm' = IF shm = "linked" THEN "unlinked" ELSE shm
      /\ UNCHANGED <<calls, frame, event, unsignalled, seen, launched, root_failed, failures>>
  BY DEF Abort, channel, health
<1>2. failures # 0 /\ shm' \in {"none", "linked", "unlinked"}
  BY <1>1 DEF IInv, FreeInv, TypeOK
<1>3. ASSUME pc'[root] = "join", ~root_failed, Aligned
      PROVE  InOrder' /\ RootInv'
  <2>1. InOrder'
    BY <1>1, <1>3 DEF Aligned, InOrder, Launches
  <2>2. RootInv'
    BY <1>1, <1>3 DEF Aligned, RootInv, Delivering, Launches, Call
  <2> QED BY <2>1, <2>2
<1>4. ASSUME NEW v \in Workers, pc'[root] = "join", pc'[v] = pc[v], WorkerInv(v), RootInv
      PROVE  WorkerInv(v)'
  <2>1. Call = 0
    BY <1>1, <1>4 DEF RootInv
  <2> QED BY <1>1, <1>4, <2>1 DEF WorkerInv, Idle, Delivering, Launches, Call
<1> QED BY <1>1, <1>2, <1>3, <1>4, RootMoves DEF IInv, TypeOK, RootPlaces

\* Rank 0 has joined its workers.
LEMMA JoinedInv ==
  ASSUME IInv, Joined
  PROVE  IInv'
<1>1. /\ pc[root] = "join" /\ Goto(root, "down")
      /\ \A w \in Workers : pc[w] = "gone"
      /\ UNCHANGED <<calls, frame, event, unsignalled, seen, launched, shm, root_failed, failures>>
  BY DEF Joined, channel, health
<1>2. ASSUME pc'[root] = "down", ~root_failed, Aligned
      PROVE  InOrder' /\ RootInv'
  <2>1. InOrder'
    BY <1>1, <1>2 DEF Aligned, InOrder, Launches
  <2>2. RootInv'
    BY <1>1, <1>2 DEF Aligned, RootInv, Delivering, Launches, Call
  <2> QED BY <2>1, <2>2
<1>3. Call' = Call
  BY <1>1 DEF Call
<1> QED BY <1>1, <1>2, <1>3, RootMoves DEF IInv, FreeInv, TypeOK, RootPlaces

\* Nobody has launched anything yet.
LEMMA InitInv == Init => IInv
<1> SUFFICES ASSUME Init PROVE IInv
  OBVIOUS
<1>1. /\ pc[root] = "create"
      /\ \A w \in Workers : pc[w] = "start"
      /\ \A r \in Ranks : launched[r] = <<>>
  BY WorkersAreRanks DEF Init
<1>2. \A r \in Ranks : Launches(r) = 0
  BY <1>1 DEF Launches
<1>3. Call = 0 /\ unsignalled = {}
  BY DEF Init, Call
<1>4. pc \in [Ranks -> RootPlaces \cup WorkerPlaces] /\ launched \in [Ranks -> Seq(Nat)]
  BY DEF Init, RootPlaces, WorkerPlaces
<1>5. TypeOK
  <2>1. frame \in Part /\ seen \in [Workers -> Part]
    BY DEF Init, Part
  <2>2. event \in [Workers -> BOOLEAN]
    BY DEF Init
  <2>3. pc[root] \in RootPlaces /\ \A w \in Workers : pc[w] \in WorkerPlaces
    BY <1>1 DEF RootPlaces, WorkerPlaces
  <2>4. calls \in Seq({"run", "exit"})
    BY DEF Init
  <2> QED BY <1>4, <2>1, <2>2, <2>3, <2>4 DEF Init, TypeOK
<1>6. RootInv
  BY <1>1, <1>2, <1>3, WorkersAreRanks DEF RootInv, Delivering
<1>7. \A w \in Workers : WorkerInv(w)
  BY <1>1, <1>2, WorkersAreRanks DEF Init, WorkerInv, Delivering
<1>8. InOrder
  BY <1>2 DEF InOrder
<1>9. FreeInv
  BY <1>1 DEF FreeInv
<1> QED BY <1>5, <1>6, <1>7, <1>8, <1>9 DEF IInv, Aligned, Init

\* Nothing changes when nothing does.
LEMMA StutterKeepsInv ==
  ASSUME IInv, UNCHANGED vars
  PROVE  IInv'
<1> USE DEF vars
<1>1. TypeOK'
  BY DEF IInv, TypeOK
<1>2. Aligned => Aligned'
  BY DEF Aligned, InOrder, RootInv, WorkerInv, Idle, Called, Done, Launches, Call, Delivering
<1>3. FreeInv => FreeInv'
  BY DEF FreeInv, Launches, Call
<1> QED BY <1>1, <1>2, <1>3 DEF IInv

\* Every step, by the action it is.
LEMMA NextInv == IInv /\ [Next]_vars => IInv'
<1> SUFFICES ASSUME IInv, [Next]_vars PROVE IInv'
  OBVIOUS
<1>1. CASE RootRun
  BY <1>1, RootLaunchInv DEF RootRun, channel, health
<1>2. CASE RootExit
  BY <1>2, RootLaunchInv DEF RootExit, channel, health
<1>3. CASE RootResult
  BY <1>3, RootGoesOn DEF RootResult, channel, health
<1>4. CASE RootStep
  BY <1>1, <1>2, <1>3, <1>4, CreateShmInv, RootBarrierInv, WritePayloadInv, UnlinkInv, AbortInv,
     JoinedInv, RootTimeoutInv, SetEventInv, StopWorkerInv DEF RootStep
<1>5. ASSUME NEW w \in Workers, WorkerStep(w)
      PROVE  IInv'
  BY <1>5, WorkerMeetsInv, StartBarrierInv, AttachInv, ReadHeaderInv, ReadPayloadInv,
     ClearEventInv, WorkerRunInv, WorkerExitInv, WorkerTimeoutInv DEF WorkerStep
<1>6. CASE Fails
  BY <1>6, RootInitFailsInv, RootRunFailsInv, WorkerDiesInv DEF Fails
<1>7. CASE Down \/ UNCHANGED vars
  BY <1>7, StutterKeepsInv DEF Down
<1> QED BY <1>4, <1>5, <1>6, <1>7, WriteHeaderInv DEF Next

\* The invariant holds in every reachable state of rank 0 and its workers.
THEOREM Invariance == Spec => []IInv
  BY InitInv, NextInv, PTL DEF Spec

-----------------------------------------------------------------------------
(* What follows *)

\* Of two ranks that launch in order, the one that launched less launched a prefix.
LEMMA PrefixInOrder ==
  ASSUME TypeOK, InOrder, NEW q \in Ranks, NEW r \in Ranks, Launches(q) <= Launches(r)
  PROVE  IsPrefix(launched[q], launched[r])
<1>1. launched[q] \in Seq(Nat) /\ launched[r] \in Seq(Nat)
  BY DEF TypeOK
<1>2. Len(launched[q]) \in Nat /\ Len(launched[r]) \in Nat /\ Len(launched[q]) <= Len(launched[r])
  BY <1>1 DEF Launches
<1>3. \A i \in 1 .. Len(launched[q]) : launched[q][i] = launched[r][i]
  BY <1>2 DEF InOrder, Launches
<1>4. SubSeq(launched[q], 1, Len(launched[q])) = SubSeq(launched[r], 1, Len(launched[q]))
  BY <1>1, <1>2, <1>3
<1> QED BY <1>1, <1>2, <1>3, <1>4 DEF IsPrefix

\* Unless rank 0 has failed in the middle of a call, calls reach the workers whole, once
\* and in order, whoever dies.
THEOREM CallsAlwaysArrive == Spec => []CallsArrive
<1>1. IInv => CallsArrive
  <2> SUFFICES ASSUME IInv, ~root_failed PROVE CollectivesMatch /\ FramesAreWhole
    BY DEF CallsArrive
  <2>1. Aligned /\ TypeOK
    BY DEF IInv
  <2>2. CollectivesMatch
    <3> SUFFICES ASSUME NEW w \in Workers
                 PROVE  \/ IsPrefix(launched[w], launched[root])
                        \/ IsPrefix(launched[root], launched[w])
      BY DEF CollectivesMatch
    <3>1. w \in Ranks /\ root \in Ranks /\ Launches(w) \in Nat /\ Launches(root) \in Nat
      BY <2>1, WorkersAreRanks, LaunchesInNat
    <3>2. Launches(w) <= Launches(root) \/ Launches(root) <= Launches(w)
      BY <3>1
    <3> QED BY <2>1, <3>1, <3>2, PrefixInOrder DEF Aligned
  <2>3. FramesAreWhole
    BY <2>1 DEF FramesAreWhole, Aligned, WorkerInv
  <2> QED BY <2>2, <2>3
<1> QED BY <1>1, Invariance, PTL

\* Without a failure no rank waits for one that will never come.
THEOREM NobodyEverWaitsInVain == Spec => []NobodyWaitsInVain
<1>1. IInv => NobodyWaitsInVain
  BY NoHope DEF NobodyWaitsInVain
<1> QED BY <1>1, Invariance, PTL

\* Without a failure every worker finds the segment that rank 0 has created.
THEOREM AttachAlwaysFindsShm == Spec => []AttachFindsShm
<1>1. IInv => AttachFindsShm
  <2> SUFFICES ASSUME IInv, failures = 0, NEW w \in Workers, pc[w] = "attach"
               PROVE  shm = "linked"
    BY DEF AttachFindsShm
  <2>1. FreeInv /\ WorkerInv(w)
    BY DEF IInv, Aligned
  <2> QED BY <2>1 DEF FreeInv, WorkerInv, Done
<1> QED BY <1>1, Invariance, PTL
=============================================================================
