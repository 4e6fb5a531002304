-------------------------- MODULE EngineSessionsProofs --------------------------
(***************************************************************************)
(* Proofs about the owner of the engine, for any number of threads and     *)
(* sessions, wherever the garbage collector may run: what is queued, who   *)
(* steps, and that nothing is cancelled in the middle of a step.           *)
(***************************************************************************)
EXTENDS EngineSessions, SequenceTheorems, TLAPS

-----------------------------------------------------------------------------
(* The inductive invariant *)

Ops == {"generate", "stream", "next", "close", "step", "add", "finalize"}

Ending == {"cancel", "cancelling", "release", "releasing"}

\* Where a call of each kind can be.
PlacesOf ==
  [generate |-> {"acquire", "acquiring", "admit", "run", "stepping"} \cup Ending,
   stream   |-> {"acquire", "acquiring", "admit"} \cup Ending,
   next     |-> {"iterate", "run", "stepping", "close"} \cup Ending,
   close    |-> {"iterate", "close"} \cup Ending,
   step     |-> {"check", "checking", "run", "stepping"},
   add      |-> {"check", "checking", "admit"},
   finalize |-> Ending]

Places == {"acquire", "acquiring", "check", "checking", "iterate", "admit", "run", "stepping",
           "close"} \cup Ending

\* The places that a call reaches only as the owner of the engine.
Owning == {"admit", "run", "stepping", "close"} \cup Ending

Lives == {"unused", "starting", "open", "closed", "dropped", "collected", "ended"}

Frame == [op : Ops, session : Sessions \cup {Manual}, at : Places]

\* The stacks, the locks and the lease keep their types.
TypeOK ==
  /\ stack \in [Threads -> Seq(Frame)]
  /\ session_lock \in Threads \cup {Nobody}
  /\ execution_lock \in [owner : Threads \cup {Nobody}, depth : Int]
  /\ iteration_lock \in [Sessions -> Threads \cup {Nobody}]
  /\ active_session \in Sessions \cup {Nobody}
  /\ queued \in SUBSET (Sessions \cup {Manual})
  /\ life \in [Sessions -> Lives]
  /\ pending \in [Sessions -> Nat]
  /\ manual \in Nat

\* The session of a call is in a state that allows the call.
LifeOf(f) ==
  /\ f.op \in {"generate", "stream"} => life[f.session] = "starting"
  /\ f.op \in {"next", "close"} =>
       /\ life[f.session] \in {"open", "closed"}
       /\ f.at \in {"run", "stepping", "close"} => life[f.session] = "open"
       /\ f.at \in Ending => life[f.session] = "closed"
  /\ f.op = "finalize" => life[f.session] = "collected"

\* What holds of a call f at position i of the stack of t.
FrameInv(t, i, f) ==
  /\ i > 1 => f.op = "finalize"
  /\ f.session = Manual <=> f.op \in {"step", "add"}
  /\ f.at \in PlacesOf[f.op]
  /\ f.session # Manual => LifeOf(f)
  /\ f.at \in Owning =>
       active_session = IF f.session = Manual THEN Nobody ELSE f.session
  /\ f.at \in {"release", "releasing"} => f.session \notin queued
  /\ f.op \in {"next", "close"} /\ f.at \in Owning => iteration_lock[f.session] = t

\* Two calls are for one session only if both use its stream, and a call without a
\* session has no others beside it but finalizers.
Pair(f, g) ==
  /\ f.op \in {"generate", "stream", "finalize"} => f.session # g.session
  /\ f.op \in {"step", "add"} => g.op = "finalize"

FramesInv == \A t \in Threads : \A i \in DOMAIN stack[t] : FrameInv(t, i, stack[t][i])

PairsInv ==
  \A t, u \in Threads : \A i \in DOMAIN stack[t], j \in DOMAIN stack[u] :
    t # u \/ i # j => Pair(stack[t][i], stack[u][j])

\* A stream that can still be used or has to be collected has the lease.
LeaseInv == \A s \in Sessions : life[s] \in {"open", "dropped", "collected"} => active_session = s

IInv == TypeOK /\ FramesInv /\ PairsInv /\ LeaseInv /\ QueueBelongsToOwner

-----------------------------------------------------------------------------
(* Stacks *)

\* The stacks with call g for the running call of t.
Moved(t, g) ==
  /\ stack' \in [Threads -> Seq(Frame)]
  /\ \A u \in Threads :
       /\ DOMAIN stack'[u] = DOMAIN stack[u]
       /\ \A i \in DOMAIN stack[u] :
            stack'[u][i] = IF u = t /\ i = Len(stack[t]) THEN g ELSE stack[u][i]

\* Call f at another place.
AtPlace(f, p) == [f EXCEPT !.at = p]

\* The stacks without that call.
Popped(t) ==
  /\ stack' \in [Threads -> Seq(Frame)]
  /\ \A u \in Threads :
       /\ DOMAIN stack'[u] = IF u = t THEN DOMAIN stack[t] \ {Len(stack[t])} ELSE DOMAIN stack[u]
       /\ \A i \in DOMAIN stack'[u] : stack'[u][i] = stack[u][i]

\* The stacks with a new call.
Pushed(t, f) ==
  /\ stack' \in [Threads -> Seq(Frame)]
  /\ \A u \in Threads :
       /\ DOMAIN stack'[u] = IF u = t THEN DOMAIN stack[t] \cup {Len(stack[t]) + 1}
                             ELSE DOMAIN stack[u]
       /\ \A i \in DOMAIN stack[u] : stack'[u][i] = stack[u][i]
  /\ stack'[t][Len(stack[t]) + 1] = f

\* The running call is the last one of its stack.
LEMMA TopOf ==
  ASSUME TypeOK, NEW t \in Threads, Busy(t)
  PROVE  /\ Len(stack[t]) \in DOMAIN stack[t]
         /\ Len(stack[t]) \in Nat \ {0}
         /\ DOMAIN stack[t] = 1 .. Len(stack[t])
         /\ Top(t) \in Frame
         /\ Top(t) = stack[t][Len(stack[t])]
  BY DEF TypeOK, Busy, Top

\* A call that moves stays the same call.
LEMMA PlaceOf ==
  ASSUME NEW f \in Frame, NEW p \in Places
  PROVE  /\ AtPlace(f, p) \in Frame
         /\ AtPlace(f, p).op = f.op
         /\ AtPlace(f, p).session = f.session
         /\ AtPlace(f, p).at = p
  BY DEF Frame, AtPlace

\* Goto moves the running call.
LEMMA GotoMoves ==
  ASSUME TypeOK, NEW t \in Threads, Busy(t), NEW p \in Places, Goto(t, p)
  PROVE  Moved(t, AtPlace(Top(t), p))
<1> DEFINE n == Len(stack[t])
           g == AtPlace(Top(t), p)
<1>1. /\ n \in DOMAIN stack[t] /\ DOMAIN stack[t] = 1 .. n /\ n \in Nat
      /\ stack[t] \in Seq(Frame) /\ stack[t][n] = Top(t) /\ g \in Frame
  BY TopOf, PlaceOf DEF TypeOK
<1>2. stack' = [stack EXCEPT ![t] = [stack[t] EXCEPT ![n] = g]]
  BY <1>1 DEF Goto, AtPlace
<1> HIDE DEF g
<1>4. [stack[t] EXCEPT ![n] = g] \in Seq(Frame)
  BY <1>1
<1>5. /\ stack' \in [Threads -> Seq(Frame)]
      /\ \A u \in Threads : u # t => stack'[u] = stack[u]
      /\ stack'[t] = [stack[t] EXCEPT ![n] = g]
  BY <1>2, <1>4 DEF TypeOK
<1>6. /\ DOMAIN stack'[t] = DOMAIN stack[t]
      /\ \A i \in DOMAIN stack[t] : stack'[t][i] = IF i = n THEN g ELSE stack[t][i]
  BY <1>1, <1>5
<1> QED BY <1>5, <1>6 DEF Moved, g

\* Pop ends it.
LEMMA PopPops ==
  ASSUME TypeOK, NEW t \in Threads, Busy(t), Pop(t)
  PROVE  Popped(t)
<1> DEFINE n == Len(stack[t])
           rest == SubSeq(stack[t], 1, n - 1)
<1>1. n \in Nat \ {0} /\ stack[t] \in Seq(Frame) /\ DOMAIN stack[t] = 1 .. n
  BY TopOf DEF TypeOK
<1>2. /\ rest \in Seq(Frame)
      /\ DOMAIN rest = 1 .. n - 1
      /\ \A i \in 1 .. n - 1 : rest[i] = stack[t][i]
  BY <1>1
<1>3. /\ stack' \in [Threads -> Seq(Frame)]
      /\ \A u \in Threads : u # t => stack'[u] = stack[u]
      /\ stack'[t] = rest
  BY <1>2 DEF Pop, TypeOK
<1>4. DOMAIN rest = DOMAIN stack[t] \ {n}
  BY <1>1, <1>2
<1> QED BY <1>2, <1>3, <1>4 DEF Popped

\* Push starts one above it.
LEMMA PushPushes ==
  ASSUME TypeOK, NEW t \in Threads, NEW f \in Frame, Push(t, f)
  PROVE  Pushed(t, f)
<1> DEFINE n == Len(stack[t])
           more == Append(stack[t], f)
<1>1. n \in Nat /\ stack[t] \in Seq(Frame) /\ DOMAIN stack[t] = 1 .. n
  BY DEF TypeOK
<1>2. /\ more \in Seq(Frame)
      /\ DOMAIN more = 1 .. n + 1
      /\ \A i \in 1 .. n : more[i] = stack[t][i]
      /\ more[n + 1] = f
  BY <1>1
<1>3. /\ stack' \in [Threads -> Seq(Frame)]
      /\ \A u \in Threads : u # t => stack'[u] = stack[u]
      /\ stack'[t] = more
  BY <1>2 DEF Push, TypeOK
<1>4. DOMAIN more = DOMAIN stack[t] \cup {n + 1}
  BY <1>1, <1>2
<1> QED BY <1>1, <1>2, <1>3, <1>4 DEF Pushed

\* The running call keeps what holds of calls.
LEMMA TopInv ==
  ASSUME IInv, NEW t \in Threads, Busy(t)
  PROVE  /\ Top(t) \in Frame
         /\ FrameInv(t, Len(stack[t]), Top(t))
         /\ Len(stack[t]) \in Nat \ {0}
  BY TopOf DEF IInv, FramesInv

\* So does every other call, which is for another session where it must be.
LEMMA OtherInv ==
  ASSUME IInv, NEW t \in Threads, Busy(t),
         NEW u \in Threads, NEW i \in DOMAIN stack[u], u # t \/ i # Len(stack[t])
  PROVE  /\ stack[u][i] \in Frame
         /\ FrameInv(u, i, stack[u][i])
         /\ Pair(stack[u][i], Top(t))
         /\ Pair(Top(t), stack[u][i])
         /\ u = t => Top(t).op = "finalize"
<1> DEFINE n == Len(stack[t])
<1>1. /\ n \in DOMAIN stack[t] /\ n \in Nat \ {0} /\ DOMAIN stack[t] = 1 .. n
      /\ Top(t) = stack[t][n]
  BY TopOf DEF IInv
<1>2. stack[u][i] \in Frame
  BY DEF IInv, TypeOK
<1>3. u = t => n > 1
  BY <1>1
<1>4. FrameInv(u, i, stack[u][i]) /\ FrameInv(t, n, stack[t][n])
  BY <1>1 DEF IInv, FramesInv
<1>5. u = t => Top(t).op = "finalize"
  BY <1>1, <1>3, <1>4 DEF FrameInv
<1>6. Pair(stack[u][i], stack[t][n]) /\ Pair(stack[t][n], stack[u][i])
  BY <1>1 DEF IInv, PairsInv
<1> QED BY <1>1, <1>2, <1>4, <1>5, <1>6

\* The calls but the running one of t still are as they must be.
OthersKept(t) ==
  \A u \in Threads : \A i \in DOMAIN stack[u] : \A f \in Frame :
    (u # t \/ i # Len(stack[t])) /\ f = stack[u][i] => FrameInv(u, i, f)'

\* The calls stay consistent when one of them moves to a place it may be in.
LEMMA MoveKeepsInv ==
  ASSUME IInv, NEW t \in Threads, Busy(t), NEW p \in Places, Goto(t, p), OthersKept(t),
         NEW n, n = Len(stack[t]),
         \A g \in Frame : g = AtPlace(Top(t), p) => FrameInv(t, n, g)'
  PROVE  FramesInv' /\ PairsInv' /\ stack' \in [Threads -> Seq(Frame)]
<1>1. PICK g \in Frame : g = AtPlace(Top(t), p)
  BY TopInv, PlaceOf
<1>2. /\ stack' \in [Threads -> Seq(Frame)]
      /\ \A u \in Threads :
           /\ DOMAIN stack'[u] = DOMAIN stack[u]
           /\ \A i \in DOMAIN stack[u] :
                stack'[u][i] = IF u = t /\ i = Len(stack[t]) THEN g ELSE stack[u][i]
  BY <1>1, GotoMoves DEF IInv, Moved
<1>3. g.op = Top(t).op /\ g.session = Top(t).session
  BY <1>1, TopInv, PlaceOf
<1>4. n \in DOMAIN stack[t] /\ Top(t) = stack[t][n]
  BY TopOf DEF IInv
<1>5. FramesInv'
  <2> SUFFICES ASSUME NEW u \in Threads, NEW i \in DOMAIN stack[u]
               PROVE  FrameInv(u, i, stack[u][i])'
    BY <1>2 DEF FramesInv
  <2>1. PICK f \in Frame : f = stack'[u][i]
    BY <1>2
  <2>2. FrameInv(u, i, f)'
    BY <1>1, <1>2, <2>1 DEF OthersKept
  <2> QED BY <2>1, <2>2 DEF FrameInv, LifeOf
<1>6. PairsInv'
  <2> SUFFICES ASSUME NEW u \in Threads, NEW v \in Threads,
                      NEW i \in DOMAIN stack[u], NEW j \in DOMAIN stack[v], u # v \/ i # j
               PROVE  Pair(stack'[u][i], stack'[v][j])
    BY <1>2 DEF PairsInv, Pair
  <2>1. Pair(stack[u][i], stack[v][j])
    BY DEF IInv, PairsInv
  <2>2. /\ stack'[u][i].op = stack[u][i].op /\ stack'[u][i].session = stack[u][i].session
        /\ stack'[v][j].op = stack[v][j].op /\ stack'[v][j].session = stack[v][j].session
    BY <1>2, <1>3, <1>4
  <2> QED BY <2>1, <2>2 DEF Pair
<1> QED BY <1>2, <1>5, <1>6

\* They stay consistent when one of them ends.
LEMMA PopKeepsInv ==
  ASSUME IInv, NEW t \in Threads, Busy(t), Pop(t), OthersKept(t)
  PROVE  FramesInv' /\ PairsInv' /\ stack' \in [Threads -> Seq(Frame)]
<1>1. /\ stack' \in [Threads -> Seq(Frame)]
      /\ \A u \in Threads : \A i \in DOMAIN stack'[u] :
           /\ i \in DOMAIN stack[u]
           /\ stack'[u][i] = stack[u][i]
           /\ u # t \/ i # Len(stack[t])
  <2>1. Popped(t)
    BY PopPops DEF IInv
  <2> SUFFICES ASSUME NEW u \in Threads, NEW i \in DOMAIN stack'[u]
               PROVE  /\ i \in DOMAIN stack[u]
                      /\ stack'[u][i] = stack[u][i]
                      /\ u # t \/ i # Len(stack[t])
    BY <2>1 DEF Popped
  <2>2. CASE u = t
    BY <2>1, <2>2 DEF Popped
  <2>3. CASE u # t
    BY <2>1, <2>3 DEF Popped
  <2> QED BY <2>2, <2>3
<1>2. FramesInv'
  <2> SUFFICES ASSUME NEW u \in Threads, NEW i \in DOMAIN stack'[u]
               PROVE  FrameInv(u, i, stack[u][i])'
    BY DEF FramesInv
  <2>1. PICK f \in Frame : f = stack'[u][i]
    BY <1>1
  <2>2. FrameInv(u, i, f)'
    BY <1>1, <2>1 DEF OthersKept
  <2> QED BY <2>1, <2>2 DEF FrameInv, LifeOf
<1>3. PairsInv'
  <2> SUFFICES ASSUME NEW u \in Threads, NEW v \in Threads,
                      NEW i \in DOMAIN stack'[u], NEW j \in DOMAIN stack'[v], u # v \/ i # j
               PROVE  Pair(stack'[u][i], stack'[v][j])
    BY DEF PairsInv, Pair
  <2>1. Pair(stack[u][i], stack[v][j])
    BY <1>1 DEF IInv, PairsInv
  <2> QED BY <1>1, <2>1 DEF Pair
<1> QED BY <1>1, <1>2, <1>3

\* They stay consistent when a call starts that goes with all of them.
LEMMA PushKeepsInv ==
  ASSUME IInv, NEW t \in Threads, NEW n, n = Len(stack[t]) + 1,
         NEW g \in Frame, Push(t, g), FrameInv(t, n, g)',
         \A u \in Threads : \A i \in DOMAIN stack[u] : \A f \in Frame :
           f = stack[u][i] => FrameInv(u, i, f)' /\ Pair(f, g) /\ Pair(g, f)
  PROVE  FramesInv' /\ PairsInv' /\ stack' \in [Threads -> Seq(Frame)]
<1>1. /\ stack' \in [Threads -> Seq(Frame)]
      /\ \A u \in Threads : \A i \in DOMAIN stack'[u] :
           \/ u = t /\ i = n /\ stack'[u][i] = g
           \/ i \in DOMAIN stack[u] /\ stack'[u][i] = stack[u][i]
  <2>1. Pushed(t, g)
    BY PushPushes DEF IInv
  <2> SUFFICES ASSUME NEW u \in Threads, NEW i \in DOMAIN stack'[u]
               PROVE  \/ u = t /\ i = n /\ stack'[u][i] = g
                      \/ i \in DOMAIN stack[u] /\ stack'[u][i] = stack[u][i]
    BY <2>1 DEF Pushed
  <2>2. CASE u = t
    BY <2>1, <2>2 DEF Pushed
  <2>3. CASE u # t
    BY <2>1, <2>3 DEF Pushed
  <2> QED BY <2>2, <2>3
<1>2. \A u \in Threads : \A i \in DOMAIN stack[u] : stack[u][i] \in Frame
  BY DEF IInv, TypeOK
<1>3. FramesInv'
  <2> SUFFICES ASSUME NEW u \in Threads, NEW i \in DOMAIN stack'[u]
               PROVE  FrameInv(u, i, stack[u][i])'
    BY DEF FramesInv
  <2>1. PICK f \in Frame : f = stack'[u][i]
    BY <1>1
  <2>2. FrameInv(u, i, f)'
    <3>1. CASE u = t /\ i = n /\ stack'[u][i] = g
      BY <2>1, <3>1
    <3>2. CASE i \in DOMAIN stack[u] /\ stack'[u][i] = stack[u][i]
      BY <2>1, <3>2
    <3> QED BY <1>1, <3>1, <3>2
  <2> QED BY <2>1, <2>2 DEF FrameInv, LifeOf
<1>4. PairsInv'
  <2> SUFFICES ASSUME NEW u \in Threads, NEW v \in Threads,
                      NEW i \in DOMAIN stack'[u], NEW j \in DOMAIN stack'[v], u # v \/ i # j
               PROVE  Pair(stack'[u][i], stack'[v][j])
    BY DEF PairsInv, Pair
  <2>1. CASE i \in DOMAIN stack[u] /\ stack'[u][i] = stack[u][i]
    <3>1. CASE j \in DOMAIN stack[v] /\ stack'[v][j] = stack[v][j]
      BY <2>1, <3>1 DEF IInv, PairsInv
    <3>2. CASE v = t /\ j = n /\ stack'[v][j] = g
      BY <2>1, <3>2, <1>2
    <3> QED BY <1>1, <3>1, <3>2
  <2>2. CASE u = t /\ i = n /\ stack'[u][i] = g
    <3>1. CASE j \in DOMAIN stack[v] /\ stack'[v][j] = stack[v][j]
      BY <2>2, <3>1, <1>2
    <3> QED BY <1>1, <2>2, <3>1
  <2> QED BY <1>1, <2>1, <2>2
<1> QED BY <1>1, <1>3, <1>4

\* A step that changes no lease, stream or lock of a stream, and queues nothing, leaves
\* the other calls as they are.
LEMMA OthersQuiet ==
  ASSUME IInv, NEW t \in Threads, Busy(t), queued' \subseteq queued,
         UNCHANGED <<active_session, life, iteration_lock>>
  PROVE  OthersKept(t)
<1> SUFFICES ASSUME NEW u \in Threads, NEW i \in DOMAIN stack[u], NEW f \in Frame,
                    u # t \/ i # Len(stack[t]), f = stack[u][i]
             PROVE  FrameInv(u, i, f)'
  BY DEF OthersKept
<1>1. FrameInv(u, i, f)
  BY OtherInv
<1> QED BY <1>1 DEF FrameInv, LifeOf

\* Such a step keeps the lease and the queue as they must be.
LEMMA LeaseQuiet ==
  ASSUME IInv, queued' \subseteq queued, UNCHANGED <<active_session, life>>
  PROVE  LeaseInv' /\ QueueBelongsToOwner'
  BY DEF IInv, LeaseInv, QueueBelongsToOwner

-----------------------------------------------------------------------------
(* The steps *)

\* What a call that goes to place p must be like before.
MayGo(t, p) ==
  LET f == Top(t)
  IN  /\ p \in PlacesOf[f.op]
      /\ p \in Owning =>
           active_session = IF f.session = Manual THEN Nobody ELSE f.session
      /\ f.op \in {"next", "close"} =>
           /\ f.at \in Owning
           /\ p \in {"run", "stepping", "close"} => f.at \in {"run", "stepping", "close"}
           /\ p \in Ending => f.at \in Ending

\* The running call goes on, and nothing else happens to the calls.
LEMMA QuietMove ==
  ASSUME IInv, NEW t \in Threads, Busy(t), NEW p \in Places, Goto(t, p), MayGo(t, p),
         queued' \subseteq queued,
         p \in {"release", "releasing"} => Top(t).session \notin queued',
         UNCHANGED <<active_session, life, iteration_lock>>
  PROVE  /\ stack' \in [Threads -> Seq(Frame)]
         /\ FramesInv' /\ PairsInv' /\ LeaseInv' /\ QueueBelongsToOwner'
<1>1. PICK n : n = Len(stack[t])
  OBVIOUS
<1>2. PICK f \in Frame : f = Top(t)
  BY TopInv
<1>3. OthersKept(t)
  BY OthersQuiet
<1>4. ASSUME NEW g \in Frame, g = AtPlace(Top(t), p)
      PROVE  FrameInv(t, n, g)'
  <2>1. g.op = f.op /\ g.session = f.session /\ g.at = p
    BY <1>2, <1>4, PlaceOf
  <2>2. FrameInv(t, n, f)
    BY <1>1, <1>2, TopInv
  <2> QED BY <1>2, <2>1, <2>2 DEF MayGo, FrameInv, LifeOf
<1>5. FramesInv' /\ PairsInv' /\ stack' \in [Threads -> Seq(Frame)]
  BY <1>1, <1>3, <1>4, MoveKeepsInv
<1> QED BY <1>5, LeaseQuiet

\* A session call takes its iteration lock.
LEMMA LockSessionKeepsInv ==
  ASSUME IInv, NEW t \in Threads, LockSession(t)
  PROVE  IInv'
<1> DEFINE p == Inside[Top(t).at]
<1>1. /\ Busy(t) /\ Top(t).at \in {"acquire", "release", "check"}
      /\ session_lock' = t
      /\ Goto(t, p)
      /\ UNCHANGED <<execution_lock, iteration_lock, active_session, queued, life, pending, manual>>
  BY DEF LockSession, At, owners
<1>2. Top(t) \in Frame /\ FrameInv(t, Len(stack[t]), Top(t))
  BY <1>1, TopInv
<1>3. /\ Top(t).at = "acquire" => p = "acquiring"
      /\ Top(t).at = "release" => p = "releasing"
      /\ Top(t).at = "check" => p = "checking"
  BY <1>1 DEF Inside
<1>4. p \in Places
  BY <1>1, <1>3 DEF Places, Ending
<1>5. MayGo(t, p)
  BY <1>1, <1>2, <1>3 DEF MayGo, FrameInv, Frame, Ops, PlacesOf, Owning, Ending
<1>6. p \in {"release", "releasing"} => Top(t).session \notin queued'
  BY <1>1, <1>2, <1>3 DEF FrameInv
<1>7. /\ stack' \in [Threads -> Seq(Frame)]
      /\ FramesInv' /\ PairsInv' /\ LeaseInv' /\ QueueBelongsToOwner'
  BY <1>1, <1>4, <1>5, <1>6, QuietMove
<1> QED BY <1>1, <1>7 DEF IInv, TypeOK

\* The execution lock keeps its type.
LEMMA ExecutionLock ==
  ASSUME TypeOK, NEW t \in Threads
  PROVE  /\ Entered(t) \in [owner : Threads \cup {Nobody}, depth : Int]
         /\ Left(t) \in [owner : Threads \cup {Nobody}, depth : Int]
<1>1. Entered(t) \in [owner : Threads \cup {Nobody}, depth : Int]
  BY DEF TypeOK, Entered
<1>2. ASSUME NEW d \in Int
      PROVE  [execution_lock EXCEPT !.depth = d] \in [owner : Threads \cup {Nobody}, depth : Int]
  BY DEF TypeOK
<1>3. execution_lock.depth - 1 \in Int
  BY DEF TypeOK
<1>4. [owner |-> Nobody, depth |-> 0] \in [owner : Threads \cup {Nobody}, depth : Int]
  OBVIOUS
<1> QED BY <1>1, <1>2, <1>3, <1>4 DEF Left

\* A call enters the step, with the execution lock.
LEMMA EnterStepKeepsInv ==
  ASSUME IInv, NEW t \in Threads, EnterStep(t)
  PROVE  IInv'
<1>1. /\ Busy(t) /\ Top(t).at = "run"
      /\ execution_lock' = Entered(t)
      /\ Goto(t, "stepping")
      /\ UNCHANGED <<session_lock, iteration_lock, active_session, queued, life, pending, manual>>
  BY DEF EnterStep, At, owners
<1>2. Top(t) \in Frame /\ FrameInv(t, Len(stack[t]), Top(t))
  BY <1>1, TopInv
<1>3. "stepping" \in Places /\ MayGo(t, "stepping")
  BY <1>1, <1>2 DEF MayGo, FrameInv, Frame, Ops, PlacesOf, Owning, Ending, Places
<1>4. /\ stack' \in [Threads -> Seq(Frame)]
      /\ FramesInv' /\ PairsInv' /\ LeaseInv' /\ QueueBelongsToOwner'
  BY <1>1, <1>3, QuietMove
<1> QED BY <1>1, <1>4, ExecutionLock DEF IInv, TypeOK

\* A call enters the cancellation, with the execution lock.
LEMMA EnterCancelKeepsInv ==
  ASSUME IInv, NEW t \in Threads, EnterCancel(t)
  PROVE  IInv'
<1>1. /\ Busy(t) /\ Top(t).at = "cancel"
      /\ execution_lock' = Entered(t)
      /\ Goto(t, "cancelling")
      /\ UNCHANGED <<session_lock, iteration_lock, active_session, queued, life, pending, manual>>
  BY DEF EnterCancel, At, owners
<1>2. Top(t) \in Frame /\ FrameInv(t, Len(stack[t]), Top(t))
  BY <1>1, TopInv
<1>3. "cancelling" \in Places /\ MayGo(t, "cancelling")
  BY <1>1, <1>2 DEF MayGo, FrameInv, Frame, Ops, PlacesOf, Owning, Ending, Places
<1>4. /\ stack' \in [Threads -> Seq(Frame)]
      /\ FramesInv' /\ PairsInv' /\ LeaseInv' /\ QueueBelongsToOwner'
  BY <1>1, <1>3, QuietMove
<1> QED BY <1>1, <1>4, ExecutionLock DEF IInv, TypeOK

\* It leaves the cancellation.
LEMMA LeaveCancelKeepsInv ==
  ASSUME IInv, NEW t \in Threads, LeaveCancel(t)
  PROVE  IInv'
<1>1. /\ Busy(t) /\ Top(t).at = "cancelling"
      /\ execution_lock' = Left(t)
      /\ queued' = queued \ {Top(t).session}
      /\ Goto(t, "release")
      /\ UNCHANGED <<session_lock, iteration_lock, active_session, life, pending, manual>>
  BY DEF LeaveCancel, At, AfterCancel
<1>2. Top(t) \in Frame /\ FrameInv(t, Len(stack[t]), Top(t))
  BY <1>1, TopInv
<1>3. "release" \in Places /\ MayGo(t, "release")
  BY <1>1, <1>2 DEF MayGo, FrameInv, Frame, Ops, PlacesOf, Owning, Ending, Places
<1>4. /\ stack' \in [Threads -> Seq(Frame)]
      /\ FramesInv' /\ PairsInv' /\ LeaseInv' /\ QueueBelongsToOwner'
  BY <1>1, <1>3, QuietMove
<1> QED BY <1>1, <1>4, ExecutionLock DEF IInv, TypeOK

\* A call that returns unlocks the stream it uses, and no other call has that lock.
LEMMA UnlockKeeps ==
  ASSUME IInv, NEW t \in Threads, Busy(t), iteration_lock' = Unlocked(t),
         Top(t).op \in {"next", "close"} =>
           Top(t).at \in Owning \/ iteration_lock[Top(t).session] = Nobody,
         NEW u \in Threads, NEW i \in DOMAIN stack[u], u # t \/ i # Len(stack[t]),
         NEW f \in Frame, f = stack[u][i], f.op \in {"next", "close"}, f.at \in Owning
  PROVE  iteration_lock'[f.session] = u
<1>1. FrameInv(u, i, f) /\ (u = t => Top(t).op = "finalize")
  BY OtherInv
<1>2. FrameInv(t, Len(stack[t]), Top(t))
  BY TopInv
<1>3. iteration_lock[f.session] = u /\ f.session # Manual
  BY <1>1 DEF FrameInv
<1>4. f.session \in Sessions
  BY <1>3 DEF Frame
<1>5. CASE Top(t).op \in {"next", "close"} /\ Top(t).session = f.session
  <2>1. iteration_lock[f.session] \in {t, Nobody}
    BY <1>2, <1>5 DEF FrameInv
  <2>2. u # t /\ u # Nobody
    BY <1>1, <1>5, EngineSessionsAssumption
  <2> QED BY <1>3, <2>1, <2>2
<1>6. CASE ~(Top(t).op \in {"next", "close"} /\ Top(t).session = f.session)
  BY <1>3, <1>4, <1>6 DEF Unlocked
<1> QED BY <1>5, <1>6

\* The iteration locks keep their type.
LEMMA UnlockedType ==
  ASSUME TypeOK, NEW t \in Threads, iteration_lock' = Unlocked(t)
  PROVE  iteration_lock' \in [Sessions -> Threads \cup {Nobody}]
  BY DEF TypeOK, Unlocked

\* The running call returns, and nothing else happens to the calls.
LEMMA QuietReturn ==
  ASSUME IInv, NEW t \in Threads, Busy(t), Return(t),
         Top(t).op \in {"next", "close"} =>
           Top(t).at \in Owning \/ iteration_lock[Top(t).session] = Nobody,
         queued' \subseteq queued, UNCHANGED <<active_session, life>>
  PROVE  /\ stack' \in [Threads -> Seq(Frame)]
         /\ iteration_lock' \in [Sessions -> Threads \cup {Nobody}]
         /\ FramesInv' /\ PairsInv' /\ LeaseInv' /\ QueueBelongsToOwner'
<1>1. Pop(t) /\ iteration_lock' = Unlocked(t)
  BY DEF Return
<1>2. OthersKept(t)
  <2> SUFFICES ASSUME NEW u \in Threads, NEW i \in DOMAIN stack[u], NEW f \in Frame,
                      u # t \/ i # Len(stack[t]), f = stack[u][i]
               PROVE  FrameInv(u, i, f)'
    BY DEF OthersKept
  <2>1. FrameInv(u, i, f)
    BY OtherInv
  <2>2. f.op \in {"next", "close"} /\ f.at \in Owning => iteration_lock'[f.session] = u
    BY <1>1, UnlockKeeps
  <2> QED BY <2>1, <2>2 DEF FrameInv, LifeOf
<1>3. FramesInv' /\ PairsInv' /\ stack' \in [Threads -> Seq(Frame)]
  BY <1>1, <1>2, PopKeepsInv
<1> QED BY <1>1, <1>3, LeaseQuiet, UnlockedType DEF IInv

\* A stream finds nothing left to run.
LEMMA NothingLeftKeepsInv ==
  ASSUME IInv, NEW t \in Threads, NothingLeft(t)
  PROVE  IInv'
<1>1. /\ Busy(t) /\ Top(t).at = "run"
      /\ UNCHANGED <<session_lock, execution_lock, active_session, queued, life, pending, manual>>
  BY DEF NothingLeft, At, owners
<1>2. Top(t) \in Frame /\ FrameInv(t, Len(stack[t]), Top(t))
  BY <1>1, TopInv
<1>3. CASE Top(t).op = "generate" /\ Goto(t, "cancel") /\ UNCHANGED iteration_lock
  <2>1. "cancel" \in Places /\ MayGo(t, "cancel")
    BY <1>1, <1>2, <1>3 DEF MayGo, FrameInv, Frame, Ops, PlacesOf, Owning, Ending, Places
  <2>2. /\ stack' \in [Threads -> Seq(Frame)]
        /\ FramesInv' /\ PairsInv' /\ LeaseInv' /\ QueueBelongsToOwner'
    BY <1>1, <1>3, <2>1, QuietMove
  <2> QED BY <1>1, <1>3, <2>2 DEF IInv, TypeOK
<1>4. CASE Top(t).op = "next" /\ Goto(t, "close") /\ UNCHANGED iteration_lock
  <2>1. "close" \in Places /\ MayGo(t, "close")
    BY <1>1, <1>2, <1>4 DEF MayGo, FrameInv, Frame, Ops, PlacesOf, Owning, Ending, Places
  <2>2. /\ stack' \in [Threads -> Seq(Frame)]
        /\ FramesInv' /\ PairsInv' /\ LeaseInv' /\ QueueBelongsToOwner'
    BY <1>1, <1>4, <2>1, QuietMove
  <2> QED BY <1>1, <1>4, <2>2 DEF IInv, TypeOK
<1>5. CASE Top(t).op = "step" /\ Return(t)
  <2>1. /\ stack' \in [Threads -> Seq(Frame)]
        /\ iteration_lock' \in [Sessions -> Threads \cup {Nobody}]
        /\ FramesInv' /\ PairsInv' /\ LeaseInv' /\ QueueBelongsToOwner'
    BY <1>1, <1>5, QuietReturn
  <2> QED BY <1>1, <1>5, <2>1 DEF IInv, TypeOK
<1> QED BY <1>3, <1>4, <1>5 DEF NothingLeft

\* A stream delivers what is buffered.
LEMMA DeliverKeepsInv ==
  ASSUME IInv, NEW t \in Threads, Deliver(t)
  PROVE  IInv'
<1>1. /\ Busy(t) /\ Top(t).at = "run" /\ Top(t).op = "next"
      /\ pending[Top(t).session] > 0
      /\ pending' = [pending EXCEPT ![Top(t).session] = @ - 1]
      /\ UNCHANGED <<session_lock, execution_lock, active_session, queued, life, manual>>
      /\ \/ Goto(t, "close") /\ UNCHANGED iteration_lock
         \/ Return(t)
  BY DEF Deliver, At
<1>2. Top(t) \in Frame /\ FrameInv(t, Len(stack[t]), Top(t))
  BY <1>1, TopInv
<1>3. Top(t).session \in Sessions
  BY <1>1, <1>2 DEF FrameInv, Frame
<1>4. pending' \in [Sessions -> Nat]
  BY <1>1, <1>3 DEF IInv, TypeOK
<1>5. CASE Goto(t, "close") /\ UNCHANGED iteration_lock
  <2>1. "close" \in Places /\ MayGo(t, "close")
    BY <1>1, <1>2, <1>5 DEF MayGo, FrameInv, Frame, Ops, PlacesOf, Owning, Ending, Places
  <2>2. /\ stack' \in [Threads -> Seq(Frame)]
        /\ FramesInv' /\ PairsInv' /\ LeaseInv' /\ QueueBelongsToOwner'
    BY <1>1, <1>5, <2>1, QuietMove
  <2> QED BY <1>1, <1>4, <1>5, <2>2 DEF IInv, TypeOK
<1>6. CASE Return(t)
  <2>1. /\ stack' \in [Threads -> Seq(Frame)]
        /\ iteration_lock' \in [Sessions -> Threads \cup {Nobody}]
        /\ FramesInv' /\ PairsInv' /\ LeaseInv' /\ QueueBelongsToOwner'
    BY <1>1, <1>6, QuietReturn DEF Owning
  <2> QED BY <1>1, <1>4, <1>6, <2>1 DEF IInv, TypeOK
<1> QED BY <1>1, <1>5, <1>6

\* A step ends, and may have finished requests.
LEMMA LeaveStepKeepsInv ==
  ASSUME IInv, NEW t \in Threads, LeaveStep(t)
  PROVE  IInv'
<1>1. /\ Busy(t) /\ Top(t).at = "stepping"
      /\ execution_lock' = Left(t)
      /\ UNCHANGED <<session_lock, active_session, life, manual>>
  BY DEF LeaveStep, At
<1>2. Top(t) \in Frame /\ FrameInv(t, Len(stack[t]), Top(t))
  BY <1>1, TopInv
<1>3. Top(t).op \in {"step", "generate", "next"}
  BY <1>1, <1>2 DEF FrameInv, Frame, Ops, PlacesOf, Ending
<1>4. Top(t).op = "next" => Top(t).session \in Sessions
  BY <1>2 DEF FrameInv, Frame
<1>5. ASSUME NEW p \in {"cancel", "close", "run"}, Goto(t, p), UNCHANGED iteration_lock,
             p = "cancel" => Top(t).op = "generate",
             p = "close" => Top(t).op = "next",
             queued' \subseteq queued, pending' \in [Sessions -> Nat]
      PROVE  IInv'
  <2>1. p \in Places /\ MayGo(t, p)
    BY <1>1, <1>2, <1>3, <1>5 DEF MayGo, FrameInv, Frame, Ops, PlacesOf, Owning, Ending, Places
  <2>2. /\ stack' \in [Threads -> Seq(Frame)]
        /\ FramesInv' /\ PairsInv' /\ LeaseInv' /\ QueueBelongsToOwner'
    BY <1>1, <1>5, <2>1, QuietMove
  <2> QED BY <1>1, <1>5, <2>2, ExecutionLock DEF IInv, TypeOK
<1>6. ASSUME Top(t).op = "step", Return(t), queued' \subseteq queued,
             pending' \in [Sessions -> Nat]
      PROVE  IInv'
  <2>1. /\ stack' \in [Threads -> Seq(Frame)]
        /\ iteration_lock' \in [Sessions -> Threads \cup {Nobody}]
        /\ FramesInv' /\ PairsInv' /\ LeaseInv' /\ QueueBelongsToOwner'
    BY <1>1, <1>6, QuietReturn
  <2> QED BY <1>1, <1>6, <2>1, ExecutionLock DEF IInv, TypeOK
<1>7. CASE /\ CASE Top(t).op = "step" -> Return(t)
                [] Top(t).op = "generate" -> Goto(t, "cancel") /\ UNCHANGED iteration_lock
                [] Top(t).op = "next" -> Goto(t, "close") /\ UNCHANGED iteration_lock
           /\ UNCHANGED <<queued, pending>>
  <2>1. queued' \subseteq queued /\ pending' \in [Sessions -> Nat]
    BY <1>7 DEF IInv, TypeOK
  <2>2. CASE Top(t).op = "step"
    <3>1. Return(t)
      BY <1>7, <2>2
    <3> QED BY <1>6, <2>1, <2>2, <3>1
  <2>3. CASE Top(t).op = "generate"
    <3>1. Goto(t, "cancel") /\ UNCHANGED iteration_lock
      BY <1>7, <2>3
    <3> QED BY <1>5, <2>1, <2>3, <3>1
  <2>4. CASE Top(t).op = "next"
    <3>1. Goto(t, "close") /\ UNCHANGED iteration_lock
      BY <1>7, <2>4
    <3> QED BY <1>5, <2>1, <2>4, <3>1
  <2> QED BY <1>3, <2>2, <2>3, <2>4
<1>8. CASE \E events \in 0 .. MaxPending, finished \in BOOLEAN :
             /\ finished => events > 0
             /\ queued' = IF finished THEN {} ELSE queued
             /\ IF Top(t).op = "next"
                THEN pending' = [pending EXCEPT ![Top(t).session] = events]
                ELSE UNCHANGED pending
             /\ IF Top(t).op = "step" THEN Return(t)
                ELSE Goto(t, "run") /\ UNCHANGED iteration_lock
  <2>1. PICK events \in 0 .. MaxPending :
          /\ queued' \subseteq queued
          /\ IF Top(t).op = "next"
             THEN pending' = [pending EXCEPT ![Top(t).session] = events]
             ELSE UNCHANGED pending
          /\ IF Top(t).op = "step" THEN Return(t)
             ELSE Goto(t, "run") /\ UNCHANGED iteration_lock
    BY <1>8
  <2>2. events \in Nat
    BY <2>1, EngineSessionsAssumption
  <2>3. pending' \in [Sessions -> Nat]
    BY <1>4, <2>1, <2>2 DEF IInv, TypeOK
  <2>4. CASE Top(t).op = "step"
    BY <1>6, <2>1, <2>3, <2>4
  <2>5. CASE Top(t).op # "step"
    <3>1. Goto(t, "run") /\ UNCHANGED iteration_lock
      BY <2>1, <2>5
    <3> QED BY <1>5, <2>1, <2>3, <3>1
  <2> QED BY <2>4, <2>5
<1> QED BY <1>7, <1>8 DEF LeaveStep

\* The access check of a public step passes or raises.
LEMMA CheckKeepsInv ==
  ASSUME IInv, NEW t \in Threads, _assert_public_step_access(t)
  PROVE  IInv'
<1>1. /\ Busy(t) /\ Top(t).at = "checking"
      /\ session_lock' = Nobody
      /\ UNCHANGED <<execution_lock, active_session, queued, life, pending, manual>>
  BY DEF _assert_public_step_access, At, owners
<1>2. Top(t) \in Frame /\ FrameInv(t, Len(stack[t]), Top(t))
  BY <1>1, TopInv
<1>3. Top(t).op \in {"step", "add"} /\ Top(t).session = Manual
  BY <1>1, <1>2 DEF FrameInv, Frame, Ops, PlacesOf, Ending
<1>4. CASE Return(t)
  <2>1. /\ stack' \in [Threads -> Seq(Frame)]
        /\ iteration_lock' \in [Sessions -> Threads \cup {Nobody}]
        /\ FramesInv' /\ PairsInv' /\ LeaseInv' /\ QueueBelongsToOwner'
    BY <1>1, <1>3, <1>4, QuietReturn
  <2> QED BY <1>1, <2>1 DEF IInv, TypeOK
<1>5. CASE /\ active_session = Nobody
           /\ Goto(t, IF Top(t).op = "step" THEN "run" ELSE "admit")
           /\ UNCHANGED iteration_lock
  <2>1. PICK p : p = IF Top(t).op = "step" THEN "run" ELSE "admit"
    OBVIOUS
  <2>2. p \in Places /\ MayGo(t, p) /\ p \notin {"release", "releasing"}
    BY <1>1, <1>2, <1>3, <1>5, <2>1 DEF MayGo, PlacesOf, Ending, Places
  <2>3. /\ stack' \in [Threads -> Seq(Frame)]
        /\ FramesInv' /\ PairsInv' /\ LeaseInv' /\ QueueBelongsToOwner'
    BY <1>1, <1>5, <2>1, <2>2, QuietMove
  <2> QED BY <1>1, <1>5, <2>3 DEF IInv, TypeOK
<1> QED BY <1>4, <1>5 DEF _assert_public_step_access

\* A session takes the engine, or is refused.
LEMMA AcquireKeepsInv ==
  ASSUME IInv, NEW t \in Threads, _acquire_session(t)
  PROVE  IInv'
<1>1. /\ Busy(t) /\ Top(t).at = "acquiring"
      /\ session_lock' = Nobody
      /\ UNCHANGED <<execution_lock, queued, pending, manual>>
  BY DEF _acquire_session, At
<1>2. Top(t) \in Frame /\ FrameInv(t, Len(stack[t]), Top(t))
  BY <1>1, TopInv
<1>3. PICK f \in Frame : f = Top(t)
  BY <1>2
<1>4. PICK n : n = Len(stack[t])
  OBVIOUS
<1>5. f.op \in {"generate", "stream"} /\ f.session \in Sessions
  BY <1>1, <1>2, <1>3 DEF FrameInv, Frame, Ops, PlacesOf, Ending
<1>6. ASSUME NEW u \in Threads, NEW i \in DOMAIN stack[u], NEW g \in Frame,
             u # t \/ i # Len(stack[t]), g = stack[u][i]
      PROVE  /\ FrameInv(u, i, g)
             /\ g.session # f.session
             /\ g.op \notin {"step", "add"}
  BY <1>1, <1>3, <1>5, <1>6, OtherInv DEF Pair
<1>7. CASE /\ Return(t)
           /\ life' = [life EXCEPT ![Top(t).session] = "ended"]
           /\ UNCHANGED active_session
  <2>1. iteration_lock' = Unlocked(t) /\ Pop(t)
    BY <1>7 DEF Return
  <2>2. /\ life' \in [Sessions -> Lives]
        /\ \A s \in Sessions : life'[s] = IF s = f.session THEN "ended" ELSE life[s]
    BY <1>3, <1>5, <1>7 DEF IInv, TypeOK, Lives
  <2>3. OthersKept(t)
    <3> SUFFICES ASSUME NEW u \in Threads, NEW i \in DOMAIN stack[u], NEW g \in Frame,
                        u # t \/ i # Len(stack[t]), g = stack[u][i]
                 PROVE  FrameInv(u, i, g)'
      BY DEF OthersKept
    <3>1. FrameInv(u, i, g) /\ g.session # f.session
      BY <1>6
    <3>2. g.op \in {"next", "close"} /\ g.at \in Owning => iteration_lock'[g.session] = u
      BY <1>1, <1>3, <1>5, <2>1, UnlockKeeps
    <3>3. g.session # Manual => life'[g.session] = life[g.session]
      BY <2>2, <3>1 DEF Frame
    <3> QED BY <1>1, <1>7, <3>1, <3>2, <3>3 DEF FrameInv, LifeOf
  <2>4. FramesInv' /\ PairsInv' /\ stack' \in [Threads -> Seq(Frame)]
    BY <1>1, <2>1, <2>3, PopKeepsInv
  <2>5. iteration_lock' \in [Sessions -> Threads \cup {Nobody}]
    BY <2>1, UnlockedType DEF IInv
  <2>6. LeaseInv' /\ QueueBelongsToOwner'
    BY <1>1, <1>7, <2>2 DEF IInv, LeaseInv, QueueBelongsToOwner
  <2> QED BY <1>1, <1>7, <2>2, <2>4, <2>5, <2>6 DEF IInv, TypeOK
<1>8. CASE /\ ~Refused
           /\ active_session' = Top(t).session
           /\ Goto(t, "admit")
           /\ UNCHANGED <<iteration_lock, life>>
  <2>1. active_session = Nobody /\ queued = {}
    BY <1>8 DEF Refused
  <2>2. OthersKept(t)
    <3> SUFFICES ASSUME NEW u \in Threads, NEW i \in DOMAIN stack[u], NEW g \in Frame,
                        u # t \/ i # Len(stack[t]), g = stack[u][i]
                 PROVE  FrameInv(u, i, g)'
      BY DEF OthersKept
    <3>1. FrameInv(u, i, g) /\ g.op \notin {"step", "add"}
      BY <1>6
    <3>2. g.session # Manual
      BY <3>1 DEF FrameInv
    <3>3. g.session # Nobody
      BY EngineSessionsAssumption DEF Frame, Manual, Nobody
    <3>4. g.at \notin Owning
      BY <2>1, <3>1, <3>2, <3>3 DEF FrameInv
    <3> QED BY <1>1, <1>8, <3>1, <3>2, <3>4 DEF FrameInv, LifeOf
  <2>3. ASSUME NEW g \in Frame, g = AtPlace(Top(t), "admit")
        PROVE  FrameInv(t, n, g)'
    <3>1. g.op = f.op /\ g.session = f.session /\ g.at = "admit"
      BY <1>3, <2>3, PlaceOf DEF Places
    <3>2. FrameInv(t, n, f)
      BY <1>2, <1>3, <1>4
    <3>3. f.session # Manual
      BY <1>5, <3>2 DEF FrameInv
    <3>4. "admit" \in PlacesOf[f.op]
      BY <1>5 DEF PlacesOf
    <3> QED BY <1>3, <1>5, <1>8, <3>1, <3>2, <3>3, <3>4 DEF FrameInv, LifeOf
  <2>4. FramesInv' /\ PairsInv' /\ stack' \in [Threads -> Seq(Frame)]
    <3>1. "admit" \in Places
      BY DEF Places
    <3> QED BY <1>1, <1>4, <1>8, <2>2, <2>3, <3>1, MoveKeepsInv
  <2>5. LeaseInv' /\ QueueBelongsToOwner'
    <3>1. \A s \in Sessions : life[s] \notin {"open", "dropped", "collected"}
      BY <2>1, EngineSessionsAssumption DEF IInv, LeaseInv
    <3> QED BY <1>1, <1>8, <2>1, <3>1 DEF LeaseInv, QueueBelongsToOwner
  <2> QED BY <1>1, <1>3, <1>5, <1>8, <2>4, <2>5 DEF IInv, TypeOK
<1> QED BY <1>7, <1>8 DEF _acquire_session

\* While a call with a session is the owner of the engine, no other call is.
LEMMA OneOwner ==
  ASSUME IInv, NEW t \in Threads, Busy(t), Top(t).at \in Owning, Top(t).session # Manual,
         NEW u \in Threads, NEW i \in DOMAIN stack[u], NEW g \in Frame,
         u # t \/ i # Len(stack[t]), g = stack[u][i]
  PROVE  g.at \notin Owning
<1>1. Top(t) \in Frame /\ FrameInv(t, Len(stack[t]), Top(t))
  BY TopInv
<1>2. PICK f \in Frame : f = Top(t)
  BY <1>1
<1>3. FrameInv(u, i, g) /\ Pair(g, f) /\ Pair(f, g) /\ (u = t => f.op = "finalize")
  BY <1>2, OtherInv
<1>4. active_session = f.session /\ f.session # Nobody
  BY <1>1, <1>2, EngineSessionsAssumption DEF FrameInv, Frame, Manual, Nobody
<1> SUFFICES ASSUME g.at \in Owning PROVE FALSE
  OBVIOUS
<1>5. g.session = f.session /\ g.session # Manual
  BY <1>2, <1>3, <1>4 DEF FrameInv
<1>6. g.op \in {"next", "close"} /\ f.op \in {"next", "close"}
  BY <1>1, <1>2, <1>3, <1>5 DEF FrameInv, Pair, Frame, Ops
<1>7. iteration_lock[g.session] = u /\ iteration_lock[g.session] = t
  BY <1>1, <1>2, <1>3, <1>5, <1>6 DEF FrameInv
<1> QED BY <1>3, <1>6, <1>7

\* The owner gives the engine back.
LEMMA ReleaseKeepsInv ==
  ASSUME IInv, NEW t \in Threads, _release_session(t)
  PROVE  IInv'
<1>1. /\ Busy(t) /\ Top(t).at = "releasing"
      /\ session_lock' = Nobody
      /\ active_session' = IF active_session = Top(t).session THEN Nobody ELSE active_session
      /\ life' = [life EXCEPT ![Top(t).session] = IF @ = "closed" THEN @ ELSE "ended"]
      /\ Pop(t) /\ iteration_lock' = Unlocked(t)
      /\ UNCHANGED <<execution_lock, queued, pending, manual>>
  BY DEF _release_session, At, Return
<1>2. Top(t) \in Frame /\ FrameInv(t, Len(stack[t]), Top(t))
  BY <1>1, TopInv
<1>3. PICK f \in Frame : f = Top(t)
  BY <1>2
<1>4. f.session # Manual /\ f.session \in Sessions
  BY <1>1, <1>2, <1>3 DEF FrameInv, Frame, Ops, PlacesOf, Ending
<1>5. f.at \in Owning /\ f.at \in Ending
  BY <1>1, <1>3 DEF Owning, Ending
<1>6. active_session = f.session /\ active_session' = Nobody /\ f.session \notin queued
  BY <1>1, <1>2, <1>3, <1>4, <1>5 DEF FrameInv
<1>7. /\ life' \in [Sessions -> Lives]
      /\ life'[f.session] = IF life[f.session] = "closed" THEN "closed" ELSE "ended"
      /\ \A s \in Sessions : s # f.session => life'[s] = life[s]
  BY <1>1, <1>3, <1>4 DEF IInv, TypeOK, Lives
<1>8. OthersKept(t)
  <2> SUFFICES ASSUME NEW u \in Threads, NEW i \in DOMAIN stack[u], NEW g \in Frame,
                      u # t \/ i # Len(stack[t]), g = stack[u][i]
               PROVE  FrameInv(u, i, g)'
    BY DEF OthersKept
  <2>1. FrameInv(u, i, g) /\ Pair(g, f) /\ Pair(f, g)
    BY <1>1, <1>3, OtherInv
  <2>2. g.at \notin Owning
    BY <1>1, <1>3, <1>4, <1>5, OneOwner
  <2>3. g.session # Manual => LifeOf(g)'
    <3> SUFFICES ASSUME g.session # Manual PROVE LifeOf(g)'
      OBVIOUS
    <3>1. g.session \in Sessions /\ LifeOf(g)
      BY <2>1 DEF Frame, FrameInv
    <3>2. CASE g.session # f.session
      BY <1>7, <3>1, <3>2 DEF LifeOf
    <3>3. CASE g.session = f.session
      <4>1. g.op \in {"next", "close"} /\ f.op \in {"next", "close"}
        BY <1>2, <1>3, <1>4, <2>1, <3>3 DEF Pair, FrameInv, Frame, Ops
      <4>2. life[g.session] = "closed"
        BY <1>2, <1>3, <1>4, <1>5, <3>3, <4>1 DEF FrameInv, LifeOf
      <4>3. life'[g.session] = life[g.session]
        BY <1>7, <3>3, <4>2
      <4> QED BY <3>1, <4>3 DEF LifeOf
    <3> QED BY <3>2, <3>3
  <2>4. g.at \notin {"release", "releasing"}
    BY <2>2 DEF Owning, Ending
  <2> QED BY <2>1, <2>2, <2>3, <2>4 DEF FrameInv
<1>9. FramesInv' /\ PairsInv' /\ stack' \in [Threads -> Seq(Frame)]
  BY <1>1, <1>8, PopKeepsInv
<1>10. iteration_lock' \in [Sessions -> Threads \cup {Nobody}]
  BY <1>1, UnlockedType DEF IInv
<1>11. LeaseInv'
  <2> SUFFICES ASSUME NEW s \in Sessions, life'[s] \in {"open", "dropped", "collected"}
               PROVE  FALSE
    BY DEF LeaseInv
  <2>1. s # f.session
    BY <1>7
  <2> QED BY <1>6, <1>7, <2>1 DEF IInv, LeaseInv
<1>12. QueueBelongsToOwner'
  <2>1. queued = {}
    BY <1>4, <1>6, EngineSessionsAssumption DEF IInv, QueueBelongsToOwner
  <2> QED BY <1>1, <2>1 DEF QueueBelongsToOwner
<1> QED BY <1>1, <1>6, <1>7, <1>9, <1>10, <1>11, <1>12 DEF IInv, TypeOK

\* The owner queues its requests.
LEMMA AdmitKeepsInv ==
  ASSUME IInv, NEW t \in Threads, _admit_batch(t)
  PROVE  IInv'
<1>1. /\ Busy(t) /\ Top(t).at = "admit"
      /\ UNCHANGED <<session_lock, execution_lock, active_session, pending, manual>>
  BY DEF _admit_batch, At
<1>2. Top(t) \in Frame /\ FrameInv(t, Len(stack[t]), Top(t))
  BY <1>1, TopInv
<1>3. PICK f \in Frame : f = Top(t)
  BY <1>2
<1>4. PICK n : n = Len(stack[t])
  OBVIOUS
<1>5. /\ f.op \in {"generate", "stream", "add"}
      /\ f.op = "add" <=> f.session = Manual
      /\ f.op # "add" => f.session \in Sessions
  BY <1>1, <1>2, <1>3 DEF FrameInv, Frame, Ops, PlacesOf, Ending
<1>6. active_session = IF f.session = Manual THEN Nobody ELSE f.session
  BY <1>1, <1>2, <1>3 DEF FrameInv, Owning
<1>7. CASE /\ IF f.session = Manual THEN Return(t)
              ELSE Goto(t, "cancel") /\ UNCHANGED iteration_lock
           /\ UNCHANGED <<queued, life>>
  <2>1. CASE f.session = Manual
    <3>1. /\ stack' \in [Threads -> Seq(Frame)]
          /\ iteration_lock' \in [Sessions -> Threads \cup {Nobody}]
          /\ FramesInv' /\ PairsInv' /\ LeaseInv' /\ QueueBelongsToOwner'
      BY <1>1, <1>3, <1>5, <1>7, <2>1, QuietReturn
    <3> QED BY <1>1, <1>7, <3>1 DEF IInv, TypeOK
  <2>2. CASE f.session # Manual
    <3>1. "cancel" \in Places /\ MayGo(t, "cancel")
      BY <1>3, <1>5, <1>6, <2>2 DEF MayGo, PlacesOf, Ending, Places
    <3>2. /\ stack' \in [Threads -> Seq(Frame)]
          /\ FramesInv' /\ PairsInv' /\ LeaseInv' /\ QueueBelongsToOwner'
      BY <1>1, <1>7, <2>2, <3>1, QuietMove
    <3> QED BY <1>1, <1>7, <2>2, <3>2 DEF IInv, TypeOK
  <2> QED BY <2>1, <2>2
<1>8. CASE /\ queued' = queued \cup {f.session}
           /\ CASE f.op = "generate" -> Goto(t, "run") /\ UNCHANGED <<iteration_lock, life>>
                [] f.op = "stream" -> /\ life' = [life EXCEPT ![f.session] = "open"]
                                      /\ Return(t)
                [] f.op = "add" -> Return(t) /\ UNCHANGED life
  <2>1. queued' \in SUBSET (Sessions \cup {Manual}) /\ QueueBelongsToOwner'
    BY <1>1, <1>5, <1>6, <1>8, EngineSessionsAssumption DEF IInv, TypeOK, QueueBelongsToOwner
  <2>2. ASSUME NEW u \in Threads, NEW i \in DOMAIN stack[u], NEW g \in Frame,
               u # t \/ i # n, g = stack[u][i]
        PROVE  /\ FrameInv(u, i, g)
               /\ g.session # f.session
               /\ g.at \in {"release", "releasing"} => g.session \notin queued'
    <3>1. FrameInv(u, i, g) /\ Pair(g, f) /\ Pair(f, g)
      BY <1>1, <1>3, <1>4, <2>2, OtherInv
    <3>2. g.session # f.session
      BY <1>5, <3>1 DEF FrameInv, Pair
    <3> QED BY <1>8, <3>1, <3>2 DEF FrameInv
  <2>3. CASE f.op = "generate"
    <3>1. Goto(t, "run") /\ UNCHANGED <<iteration_lock, life>>
      BY <1>8, <2>3
    <3>2. OthersKept(t)
      BY <1>1, <1>4, <2>2, <3>1 DEF OthersKept, FrameInv, LifeOf
    <3>3. ASSUME NEW g \in Frame, g = AtPlace(Top(t), "run")
          PROVE  FrameInv(t, n, g)'
      <4>1. g.op = "generate" /\ g.session = f.session /\ g.at = "run"
        BY <1>3, <2>3, <3>3, PlaceOf DEF Places
      <4>2. FrameInv(t, n, f)
        BY <1>2, <1>3, <1>4
      <4>3. "run" \in PlacesOf["generate"]
        BY DEF PlacesOf
      <4> QED BY <1>1, <1>5, <1>6, <2>3, <3>1, <4>1, <4>2, <4>3 DEF FrameInv, LifeOf
    <3>4. FramesInv' /\ PairsInv' /\ stack' \in [Threads -> Seq(Frame)]
      <4>1. "run" \in Places
        BY DEF Places
      <4> QED BY <1>1, <1>4, <3>1, <3>2, <3>3, <4>1, MoveKeepsInv
    <3> QED BY <1>1, <2>1, <3>1, <3>4 DEF IInv, TypeOK, LeaseInv
  <2>4. ASSUME f.op # "generate", Return(t), UNCHANGED life
        PROVE  FramesInv' /\ PairsInv' /\ stack' \in [Threads -> Seq(Frame)]
    <3>1. OthersKept(t)
      <4> SUFFICES ASSUME NEW u \in Threads, NEW i \in DOMAIN stack[u], NEW g \in Frame,
                          u # t \/ i # Len(stack[t]), g = stack[u][i]
                   PROVE  FrameInv(u, i, g)'
        BY DEF OthersKept
      <4>1. g.op \in {"next", "close"} /\ g.at \in Owning => iteration_lock'[g.session] = u
        BY <1>1, <1>3, <1>5, <2>4, UnlockKeeps DEF Return
      <4> QED BY <1>1, <1>4, <2>2, <2>4, <4>1 DEF FrameInv, LifeOf
    <3> QED BY <1>1, <2>4, <3>1, PopKeepsInv DEF Return
  <2>5. CASE f.op = "add"
    <3>1. Return(t) /\ UNCHANGED life
      BY <1>8, <2>5
    <3>2. iteration_lock' \in [Sessions -> Threads \cup {Nobody}]
      BY <3>1, UnlockedType DEF IInv, Return
    <3>3. FramesInv' /\ PairsInv' /\ stack' \in [Threads -> Seq(Frame)]
      BY <2>4, <2>5, <3>1
    <3> QED BY <1>1, <2>1, <3>1, <3>2, <3>3 DEF IInv, TypeOK, LeaseInv
  <2>6. CASE f.op = "stream"
    <3>1. Return(t) /\ life' = [life EXCEPT ![f.session] = "open"]
      BY <1>8, <2>6
    <3>2. iteration_lock' \in [Sessions -> Threads \cup {Nobody}]
      BY <3>1, UnlockedType DEF IInv, Return
    <3>3. /\ life' \in [Sessions -> Lives]
          /\ \A s \in Sessions : s # f.session => life'[s] = life[s]
      BY <1>5, <3>1 DEF IInv, TypeOK, Lives
    <3>4. OthersKept(t)
      <4> SUFFICES ASSUME NEW u \in Threads, NEW i \in DOMAIN stack[u], NEW g \in Frame,
                          u # t \/ i # Len(stack[t]), g = stack[u][i]
                   PROVE  FrameInv(u, i, g)'
        BY DEF OthersKept
      <4>1. g.op \in {"next", "close"} /\ g.at \in Owning => iteration_lock'[g.session] = u
        BY <1>1, <1>3, <1>5, <3>1, UnlockKeeps DEF Return
      <4>2. g.session # Manual => life'[g.session] = life[g.session]
        BY <1>4, <2>2, <3>3 DEF Frame
      <4> QED BY <1>1, <1>4, <2>2, <4>1, <4>2 DEF FrameInv, LifeOf
    <3>5. FramesInv' /\ PairsInv' /\ stack' \in [Threads -> Seq(Frame)]
      BY <1>1, <3>1, <3>4, PopKeepsInv DEF Return
    <3>6. LeaseInv'
      BY <1>1, <1>5, <1>6, <2>6, <3>3 DEF IInv, LeaseInv
    <3> QED BY <1>1, <2>1, <3>2, <3>3, <3>5, <3>6 DEF IInv, TypeOK
  <2> QED BY <1>5, <2>3, <2>5, <2>6
<1> QED BY <1>3, <1>7, <1>8 DEF _admit_batch

\* A stream is asked for its next chunk.
LEMMA IterateKeepsInv ==
  ASSUME IInv, NEW t \in Threads, Iterate(t)
  PROVE  IInv'
<1>1. /\ Busy(t) /\ Top(t).at = "iterate"
      /\ iteration_lock[Top(t).session] = Nobody
      /\ UNCHANGED <<session_lock, execution_lock, active_session, queued, life, pending, manual>>
  BY DEF Iterate, At, owners
<1>2. Top(t) \in Frame /\ FrameInv(t, Len(stack[t]), Top(t))
  BY <1>1, TopInv
<1>3. PICK f \in Frame : f = Top(t)
  BY <1>2
<1>4. PICK n : n = Len(stack[t])
  OBVIOUS
<1>5. f.op \in {"next", "close"} /\ f.session \in Sessions /\ f.session # Manual
  BY <1>1, <1>2, <1>3 DEF FrameInv, Frame, Ops, PlacesOf, Ending
<1>6. CASE Return(t)
  <2>1. /\ stack' \in [Threads -> Seq(Frame)]
        /\ iteration_lock' \in [Sessions -> Threads \cup {Nobody}]
        /\ FramesInv' /\ PairsInv' /\ LeaseInv' /\ QueueBelongsToOwner'
    BY <1>1, <1>6, QuietReturn
  <2> QED BY <1>1, <2>1 DEF IInv, TypeOK
<1>7. CASE /\ life[f.session] # "closed"
           /\ iteration_lock' = [iteration_lock EXCEPT ![f.session] = t]
           /\ Goto(t, IF f.op = "next" THEN "run" ELSE "close")
  <2>1. PICK p : p = IF f.op = "next" THEN "run" ELSE "close"
    OBVIOUS
  <2>2. p \in Places /\ p \in PlacesOf[f.op] /\ p \notin Ending
    BY <1>5, <2>1 DEF Places, PlacesOf, Ending
  <2>3. life[f.session] = "open" /\ active_session = f.session
    BY <1>2, <1>3, <1>5, <1>7 DEF FrameInv, LifeOf, IInv, LeaseInv
  <2>4. /\ iteration_lock' \in [Sessions -> Threads \cup {Nobody}]
        /\ iteration_lock'[f.session] = t
        /\ \A s \in Sessions : s # f.session => iteration_lock'[s] = iteration_lock[s]
    BY <1>5, <1>7 DEF IInv, TypeOK
  <2>5. OthersKept(t)
    <3> SUFFICES ASSUME NEW u \in Threads, NEW i \in DOMAIN stack[u], NEW g \in Frame,
                        u # t \/ i # Len(stack[t]), g = stack[u][i]
                 PROVE  FrameInv(u, i, g)'
      BY DEF OthersKept
    <3>1. FrameInv(u, i, g)
      BY <1>1, OtherInv
    <3>2. g.op \in {"next", "close"} /\ g.at \in Owning => iteration_lock'[g.session] = u
      <4> SUFFICES ASSUME g.op \in {"next", "close"}, g.at \in Owning
                   PROVE  iteration_lock'[g.session] = u
        OBVIOUS
      <4>1. iteration_lock[g.session] = u /\ g.session \in Sessions
        BY <3>1 DEF FrameInv, Frame
      <4>2. g.session # f.session
        BY <1>1, <1>3, <4>1, EngineSessionsAssumption
      <4> QED BY <2>4, <4>1, <4>2
    <3> QED BY <1>1, <3>1, <3>2 DEF FrameInv, LifeOf
  <2>6. ASSUME NEW g \in Frame, g = AtPlace(Top(t), p)
        PROVE  FrameInv(t, n, g)'
    <3>1. g.op = f.op /\ g.session = f.session /\ g.at = p
      BY <1>3, <2>2, <2>6, PlaceOf
    <3>2. FrameInv(t, n, f)
      BY <1>2, <1>3, <1>4
    <3>3. p \notin {"release", "releasing"}
      BY <2>2 DEF Ending
    <3> QED BY <1>1, <1>5, <2>2, <2>3, <2>4, <3>1, <3>2, <3>3 DEF FrameInv, LifeOf
  <2>7. FramesInv' /\ PairsInv' /\ stack' \in [Threads -> Seq(Frame)]
    BY <1>1, <1>4, <1>7, <2>1, <2>2, <2>5, <2>6, MoveKeepsInv
  <2> QED BY <1>1, <2>4, <2>7, LeaseQuiet DEF IInv, TypeOK
<1> QED BY <1>3, <1>6, <1>7 DEF Iterate

\* A session is closed.
LEMMA CloseKeepsInv ==
  ASSUME IInv, NEW t \in Threads, Close(t)
  PROVE  IInv'
<1>1. /\ Busy(t) /\ Top(t).at = "close"
      /\ life' = [life EXCEPT ![Top(t).session] = "closed"]
      /\ pending' = [pending EXCEPT ![Top(t).session] = 0]
      /\ Goto(t, "cancel")
      /\ UNCHANGED <<session_lock, execution_lock, iteration_lock, active_session, queued, manual>>
  BY DEF Close, At, locks, Cleanup
<1>2. Top(t) \in Frame /\ FrameInv(t, Len(stack[t]), Top(t))
  BY <1>1, TopInv
<1>3. PICK f \in Frame : f = Top(t)
  BY <1>2
<1>4. PICK n : n = Len(stack[t])
  OBVIOUS
<1>5. f.op \in {"next", "close"} /\ f.session \in Sessions /\ f.session # Manual
  BY <1>1, <1>2, <1>3 DEF FrameInv, Frame, Ops, PlacesOf, Ending
<1>6. f.at \in Owning
  BY <1>1, <1>3 DEF Owning
<1>7. /\ life' \in [Sessions -> Lives]
      /\ pending' \in [Sessions -> Nat]
      /\ life'[f.session] = "closed"
      /\ \A s \in Sessions : s # f.session => life'[s] = life[s]
  BY <1>1, <1>3, <1>5 DEF IInv, TypeOK, Lives
<1>8. OthersKept(t)
  <2> SUFFICES ASSUME NEW u \in Threads, NEW i \in DOMAIN stack[u], NEW g \in Frame,
                      u # t \/ i # Len(stack[t]), g = stack[u][i]
               PROVE  FrameInv(u, i, g)'
    BY DEF OthersKept
  <2>1. FrameInv(u, i, g) /\ Pair(g, f) /\ Pair(f, g)
    BY <1>1, <1>3, OtherInv
  <2>2. g.at \notin Owning
    BY <1>1, <1>3, <1>5, <1>6, OneOwner
  <2>3. g.session # Manual => LifeOf(g)'
    <3> SUFFICES ASSUME g.session # Manual PROVE LifeOf(g)'
      OBVIOUS
    <3>1. g.session \in Sessions /\ LifeOf(g)
      BY <2>1 DEF Frame, FrameInv
    <3>2. CASE g.session # f.session
      BY <1>7, <3>1, <3>2 DEF LifeOf
    <3>3. CASE g.session = f.session
      <4>1. g.op \in {"next", "close"}
        BY <2>1, <3>3 DEF Pair, FrameInv, Frame, Ops
      <4>2. g.at \notin {"run", "stepping", "close"}
        BY <2>2 DEF Owning
      <4> QED BY <1>7, <3>3, <4>1, <4>2 DEF LifeOf
    <3> QED BY <3>2, <3>3
  <2> QED BY <1>1, <2>1, <2>2, <2>3 DEF FrameInv
<1>9. ASSUME NEW g \in Frame, g = AtPlace(Top(t), "cancel")
      PROVE  FrameInv(t, n, g)'
  <2>1. g.op = f.op /\ g.session = f.session /\ g.at = "cancel"
    BY <1>3, <1>9, PlaceOf DEF Places, Ending
  <2>2. FrameInv(t, n, f)
    BY <1>2, <1>3, <1>4
  <2>3. "cancel" \in PlacesOf[f.op]
    BY <1>5 DEF PlacesOf, Ending
  <2> QED BY <1>1, <1>5, <1>6, <1>7, <2>1, <2>2, <2>3 DEF FrameInv, LifeOf
<1>10. FramesInv' /\ PairsInv' /\ stack' \in [Threads -> Seq(Frame)]
  <2>1. "cancel" \in Places
    BY DEF Places, Ending
  <2> QED BY <1>1, <1>4, <1>8, <1>9, <2>1, MoveKeepsInv
<1>11. LeaseInv' /\ QueueBelongsToOwner'
  BY <1>1, <1>7 DEF IInv, LeaseInv, QueueBelongsToOwner
<1> QED BY <1>1, <1>7, <1>10, <1>11 DEF IInv, TypeOK

\* A call is started on an empty stack, beside no call without a session.
LEMMA StartInv ==
  ASSUME IInv, NEW t \in Threads, NEW g, Start(t, g)
  PROVE  /\ Push(t, g)
         /\ Len(stack[t]) = 0
         /\ UNCHANGED <<session_lock, execution_lock, iteration_lock>>
         /\ \A u \in Threads : \A i \in DOMAIN stack[u] :
              /\ stack[u][i].op \notin {"step", "add"}
              /\ g.op \in {"step", "add"} => stack[u][i].op = "finalize"
<1>1. stack[t] = <<>>
  BY DEF Start, Busy
<1>2. Len(stack[t]) = 0
  BY <1>1
<1> QED BY <1>2 DEF Start, InManual, Calling, locks

\* A thread creates a session.
LEMMA NewSessionKeepsInv ==
  ASSUME IInv, NEW t \in Threads, NEW s \in Sessions, NEW op \in {"generate", "stream"},
         life[s] = "unused",
         Start(t, Call(op, s, "acquire")),
         life' = [life EXCEPT ![s] = "starting"],
         UNCHANGED <<active_session, queued, pending, manual>>
  PROVE  IInv'
<1>1. PICK g : g = Call(op, s, "acquire")
  OBVIOUS
<1>2. g.op = op /\ g.session = s /\ g.at = "acquire" /\ g \in Frame
  BY <1>1 DEF Call, Frame, Ops, Places
<1>3. /\ Push(t, g)
      /\ Len(stack[t]) = 0
      /\ UNCHANGED <<session_lock, execution_lock, iteration_lock>>
      /\ \A u \in Threads : \A i \in DOMAIN stack[u] : stack[u][i].op \notin {"step", "add"}
  BY <1>1, StartInv
<1>4. /\ life' \in [Sessions -> Lives]
      /\ life'[s] = "starting"
      /\ \A r \in Sessions : r # s => life'[r] = life[r]
  BY DEF IInv, TypeOK, Lives
<1>5. s # Manual
  BY EngineSessionsAssumption
<1>6. FrameInv(t, 1, g)'
  <2>1. "acquire" \in PlacesOf[op]
    BY DEF PlacesOf
  <2>2. "acquire" \notin Owning
    BY DEF Owning, Ending
  <2> QED BY <1>2, <1>4, <1>5, <2>1, <2>2 DEF FrameInv, LifeOf
<1>7. ASSUME NEW u \in Threads, NEW i \in DOMAIN stack[u], NEW f \in Frame, f = stack[u][i]
      PROVE  FrameInv(u, i, f)' /\ Pair(f, g) /\ Pair(g, f)
  <2>1. FrameInv(u, i, f) /\ f.op \notin {"step", "add"}
    BY <1>3, <1>7 DEF IInv, FramesInv
  <2>2. f.session # Manual /\ f.session \in Sessions
    BY <2>1 DEF FrameInv, Frame
  <2>3. f.session # s
    BY <2>1, <2>2 DEF FrameInv, LifeOf, Frame, Ops
  <2>4. FrameInv(u, i, f)'
    BY <1>3, <1>4, <2>1, <2>2, <2>3 DEF FrameInv, LifeOf
  <2> QED BY <1>2, <2>1, <2>3, <2>4 DEF Pair
<1>8. FramesInv' /\ PairsInv' /\ stack' \in [Threads -> Seq(Frame)]
  BY <1>2, <1>3, <1>6, <1>7, PushKeepsInv
<1>9. LeaseInv' /\ QueueBelongsToOwner'
  BY <1>4 DEF IInv, LeaseInv, QueueBelongsToOwner
<1> QED BY <1>3, <1>4, <1>8, <1>9 DEF IInv, TypeOK

\* A thread iterates or closes a stream.
LEMMA UseStreamKeepsInv ==
  ASSUME IInv, NEW t \in Threads, NEW s \in Sessions, NEW op \in {"next", "close"},
         UseStream(t, s, op)
  PROVE  IInv'
<1>1. PICK g : g = Call(op, s, "iterate")
  OBVIOUS
<1>2. g.op = op /\ g.session = s /\ g.at = "iterate" /\ g \in Frame
  BY <1>1 DEF Call, Frame, Ops, Places
<1>3. /\ Push(t, g)
      /\ Len(stack[t]) = 0
      /\ UNCHANGED <<session_lock, execution_lock, iteration_lock>>
      /\ \A u \in Threads : \A i \in DOMAIN stack[u] : stack[u][i].op \notin {"step", "add"}
  BY <1>1, StartInv DEF UseStream
<1>4. /\ life[s] \in {"open", "closed"}
      /\ UNCHANGED <<active_session, queued, life, pending, manual>>
  BY DEF UseStream, owners
<1>5. s # Manual
  BY EngineSessionsAssumption
<1>6. FrameInv(t, 1, g)'
  <2>1. "iterate" \in PlacesOf[op]
    BY DEF PlacesOf
  <2>2. "iterate" \notin Owning /\ "iterate" \notin Ending
    BY DEF Owning, Ending
  <2> QED BY <1>2, <1>4, <1>5, <2>1, <2>2 DEF FrameInv, LifeOf
<1>7. ASSUME NEW u \in Threads, NEW i \in DOMAIN stack[u], NEW f \in Frame, f = stack[u][i]
      PROVE  FrameInv(u, i, f)' /\ Pair(f, g) /\ Pair(g, f)
  <2>1. FrameInv(u, i, f) /\ f.op \notin {"step", "add"}
    BY <1>3, <1>7 DEF IInv, FramesInv
  <2>2. f.op \in {"generate", "stream", "finalize"} => f.session # s
    BY <1>4, <2>1 DEF FrameInv, LifeOf
  <2>3. FrameInv(u, i, f)'
    BY <1>3, <1>4, <2>1 DEF FrameInv, LifeOf
  <2> QED BY <1>2, <2>1, <2>2, <2>3 DEF Pair
<1>8. FramesInv' /\ PairsInv' /\ stack' \in [Threads -> Seq(Frame)]
  BY <1>2, <1>3, <1>6, <1>7, PushKeepsInv
<1> QED BY <1>3, <1>4, <1>8, LeaseQuiet DEF IInv, TypeOK

\* A thread calls the engine itself.
LEMMA ManualCallKeepsInv ==
  ASSUME IInv, NEW t \in Threads, NEW op \in {"step", "add"},
         Start(t, Call(op, Manual, "check")), manual' \in Nat,
         UNCHANGED <<active_session, queued, life, pending>>
  PROVE  IInv'
<1>1. PICK g : g = Call(op, Manual, "check")
  OBVIOUS
<1>2. g.op = op /\ g.session = Manual /\ g.at = "check" /\ g \in Frame
  BY <1>1 DEF Call, Frame, Ops, Places
<1>3. /\ Push(t, g)
      /\ Len(stack[t]) = 0
      /\ UNCHANGED <<session_lock, execution_lock, iteration_lock>>
      /\ \A u \in Threads : \A i \in DOMAIN stack[u] : stack[u][i].op = "finalize"
  BY <1>1, <1>2, StartInv
<1>4. FrameInv(t, 1, g)'
  <2>1. "check" \in PlacesOf[op]
    BY DEF PlacesOf
  <2>2. "check" \notin Owning
    BY DEF Owning, Ending
  <2> QED BY <1>2, <2>1, <2>2 DEF FrameInv
<1>5. ASSUME NEW u \in Threads, NEW i \in DOMAIN stack[u], NEW f \in Frame, f = stack[u][i]
      PROVE  FrameInv(u, i, f)' /\ Pair(f, g) /\ Pair(g, f)
  <2>1. FrameInv(u, i, f) /\ f.op = "finalize"
    BY <1>3, <1>5 DEF IInv, FramesInv
  <2>2. FrameInv(u, i, f)'
    BY <1>3, <2>1 DEF FrameInv, LifeOf
  <2> QED BY <1>2, <2>1, <2>2 DEF Pair, FrameInv
<1>6. FramesInv' /\ PairsInv' /\ stack' \in [Threads -> Seq(Frame)]
  BY <1>2, <1>3, <1>4, <1>5, PushKeepsInv
<1> QED BY <1>3, <1>6, LeaseQuiet DEF IInv, TypeOK

\* The collector runs a finalizer on top of whatever its thread is doing.
LEMMA CollectKeepsInv ==
  ASSUME IInv, NEW t \in Threads, NEW s \in Sessions, Collect(t, s)
  PROVE  IInv'
<1>1. PICK g : g = Call("finalize", s, "cancel")
  OBVIOUS
<1>2. g.op = "finalize" /\ g.session = s /\ g.at = "cancel" /\ g \in Frame
  BY <1>1 DEF Call, Frame, Ops, Places, Ending
<1>3. /\ Push(t, g)
      /\ life[s] = "dropped"
      /\ life' = [life EXCEPT ![s] = "collected"]
      /\ UNCHANGED <<session_lock, execution_lock, iteration_lock, active_session, queued,
                     pending, manual>>
  BY <1>1 DEF Collect, locks
<1>4. /\ life' \in [Sessions -> Lives]
      /\ life'[s] = "collected"
      /\ \A r \in Sessions : r # s => life'[r] = life[r]
  BY <1>3 DEF IInv, TypeOK, Lives
<1>5. s # Manual /\ active_session = s
  BY <1>3, EngineSessionsAssumption DEF IInv, LeaseInv
<1>6. PICK n : n = Len(stack[t]) + 1
  OBVIOUS
<1>7. FrameInv(t, n, g)'
  <2>1. "cancel" \in PlacesOf["finalize"] /\ "cancel" \in Owning
    BY DEF PlacesOf, Ending, Owning
  <2> QED BY <1>2, <1>3, <1>4, <1>5, <2>1 DEF FrameInv, LifeOf
<1>8. ASSUME NEW u \in Threads, NEW i \in DOMAIN stack[u], NEW f \in Frame, f = stack[u][i]
      PROVE  FrameInv(u, i, f)' /\ Pair(f, g) /\ Pair(g, f)
  <2>1. FrameInv(u, i, f)
    BY <1>8 DEF IInv, FramesInv
  <2>2. f.session # s
    BY <1>3, <1>5, <2>1 DEF FrameInv, LifeOf, Frame, Ops
  <2>3. f.session # Manual => life'[f.session] = life[f.session]
    BY <1>4, <2>2 DEF Frame
  <2>4. FrameInv(u, i, f)'
    BY <1>3, <2>1, <2>3 DEF FrameInv, LifeOf
  <2> QED BY <1>2, <2>2, <2>4 DEF Pair
<1>9. FramesInv' /\ PairsInv' /\ stack' \in [Threads -> Seq(Frame)]
  BY <1>2, <1>3, <1>6, <1>7, <1>8, PushKeepsInv
<1>10. LeaseInv' /\ QueueBelongsToOwner'
  BY <1>3, <1>4, <1>5 DEF IInv, LeaseInv, QueueBelongsToOwner
<1> QED BY <1>3, <1>4, <1>9, <1>10 DEF IInv, TypeOK

\* The last reference to a session goes.
LEMMA DropKeepsInv ==
  ASSUME IInv, NEW s \in Sessions, Drop(s)
  PROVE  IInv'
<1>1. /\ life[s] = "open"
      /\ life' = [life EXCEPT ![s] = "dropped"]
      /\ \A f \in Frames : f.session # s
      /\ UNCHANGED <<stack, session_lock, execution_lock, iteration_lock, active_session, queued,
                     pending, manual>>
  BY DEF Drop, locks
<1>2. /\ life' \in [Sessions -> Lives]
      /\ \A r \in Sessions : r # s => life'[r] = life[r]
  BY <1>1 DEF IInv, TypeOK, Lives
<1>3. FramesInv'
  <2> SUFFICES ASSUME NEW u \in Threads, NEW i \in DOMAIN stack[u]
               PROVE  FrameInv(u, i, stack[u][i])'
    BY <1>1 DEF FramesInv
  <2>1. PICK f \in Frame : f = stack[u][i]
    BY DEF IInv, TypeOK
  <2>2. FrameInv(u, i, f) /\ f.session # s
    BY <1>1, <2>1 DEF IInv, FramesInv, Frames
  <2>3. f.session # Manual => life'[f.session] = life[f.session]
    BY <1>2, <2>2 DEF Frame
  <2>4. FrameInv(u, i, f)'
    BY <1>1, <2>2, <2>3 DEF FrameInv, LifeOf
  <2> QED BY <1>1, <2>1, <2>4 DEF FrameInv, LifeOf
<1>4. PairsInv'
  BY <1>1 DEF IInv, PairsInv
<1>5. LeaseInv' /\ QueueBelongsToOwner'
  BY <1>1, <1>2 DEF IInv, LeaseInv, QueueBelongsToOwner
<1> QED BY <1>1, <1>2, <1>3, <1>4, <1>5 DEF IInv, TypeOK

\* Nothing holds of no call: the initial state.
LEMMA InitInv == Init => IInv
<1> SUFFICES ASSUME Init PROVE IInv
  OBVIOUS
<1>1. \A t \in Threads : stack[t] = <<>>
  BY DEF Init
<1>2. \A t \in Threads : DOMAIN stack[t] = {}
  BY <1>1
<1>3. TypeOK
  BY DEF Init, TypeOK, Lives
<1>4. FramesInv /\ PairsInv
  BY <1>2 DEF FramesInv, PairsInv
<1>5. LeaseInv /\ QueueBelongsToOwner
  BY DEF Init, LeaseInv, QueueBelongsToOwner
<1> QED BY <1>3, <1>4, <1>5 DEF IInv

\* Nothing changes when nothing does.
LEMMA StutterKeepsInv ==
  ASSUME IInv, UNCHANGED vars
  PROVE  IInv'
<1> USE DEF vars
<1>1. TypeOK'
  BY DEF IInv, TypeOK
<1>2. FramesInv'
  BY DEF IInv, FramesInv, FrameInv, LifeOf
<1>3. PairsInv'
  BY DEF IInv, PairsInv
<1>4. LeaseInv' /\ QueueBelongsToOwner'
  BY DEF IInv, LeaseInv, QueueBelongsToOwner
<1> QED BY <1>1, <1>2, <1>3, <1>4 DEF IInv

\* Every step, by the action it is.
LEMMA NextInv == IInv /\ [Next]_vars => IInv'
<1> SUFFICES ASSUME IInv, [Next]_vars PROVE IInv'
  OBVIOUS
<1>1. ASSUME NEW t \in Threads, NEW s \in Sessions, generate(t, s)
      PROVE  IInv'
  BY <1>1, NewSessionKeepsInv DEF generate
<1>2. ASSUME NEW t \in Threads, NEW s \in Sessions, stream(t, s)
      PROVE  IInv'
  BY <1>2, NewSessionKeepsInv DEF stream
<1>3. ASSUME NEW t \in Threads, step(t)
      PROVE  IInv'
  <2>1. manual' \in Nat /\ UNCHANGED <<active_session, queued, life, pending>>
    BY <1>3 DEF step, owners, IInv, TypeOK
  <2> QED BY <1>3, <2>1, ManualCallKeepsInv DEF step
<1>4. ASSUME NEW t \in Threads, add_request(t)
      PROVE  IInv'
  <2>1. manual' \in Nat /\ UNCHANGED <<active_session, queued, life, pending>>
    BY <1>4 DEF add_request, IInv, TypeOK
  <2> QED BY <1>4, <2>1, ManualCallKeepsInv DEF add_request
<1>5. ASSUME NEW t \in Threads, Begin(t)
      PROVE  IInv'
  BY <1>1, <1>2, <1>3, <1>4, <1>5, UseStreamKeepsInv DEF Begin
<1>6. ASSUME NEW t \in Threads, Continue(t)
      PROVE  IInv'
  BY <1>6, LockSessionKeepsInv, AcquireKeepsInv, CheckKeepsInv, ReleaseKeepsInv, AdmitKeepsInv,
     EnterStepKeepsInv, LeaveStepKeepsInv, NothingLeftKeepsInv, DeliverKeepsInv,
     IterateKeepsInv, CloseKeepsInv, EnterCancelKeepsInv, LeaveCancelKeepsInv DEF Continue
<1>7. CASE Rest \/ UNCHANGED vars
  BY <1>7, StutterKeepsInv DEF Rest
<1> QED BY <1>5, <1>6, <1>7, DropKeepsInv, CollectKeepsInv DEF Next

\* The invariant holds in every reachable state of the sessions of an engine.
THEOREM Invariance == Spec => []IInv
  BY InitInv, NextInv, PTL DEF Spec

-----------------------------------------------------------------------------
(* What follows *)

\* Whatever is queued belongs to the holder of the lease or, without one, to manual
\* callers.
THEOREM QueueStaysWithOwner == Spec => []QueueBelongsToOwner
<1>1. IInv => QueueBelongsToOwner
  BY DEF IInv
<1> QED BY <1>1, Invariance, PTL

\* A call that steps or gives the lease back holds it, and the requests of a step are
\* its own.
LEMMA OwnersStep == IInv => StepsBelongToOwner
<1> SUFFICES ASSUME IInv, NEW f \in Frames
             PROVE  /\ f.at = "stepping" =>
                         /\ active_session = IF f.session = Manual THEN Nobody ELSE f.session
                         /\ queued \subseteq {f.session}
                    /\ f.at = "releasing" => active_session = f.session
  BY DEF StepsBelongToOwner
<1>0. PICK t \in Threads : \E k \in DOMAIN stack[t] : f = stack[t][k]
  BY DEF Frames
<1>1. PICK i \in DOMAIN stack[t] : f = stack[t][i]
  BY <1>0
<1>2. FrameInv(t, i, f) /\ f \in Frame
  BY <1>1 DEF IInv, FramesInv, TypeOK
<1>3. f.at \in {"stepping", "releasing"} =>
        active_session = IF f.session = Manual THEN Nobody ELSE f.session
  BY <1>2 DEF FrameInv, Owning, Ending
<1>4. f.at = "releasing" => f.session # Manual
  BY <1>2 DEF FrameInv, Frame, Ops, PlacesOf, Ending
<1>5. f.session # Manual => f.session # Nobody
  BY <1>2, EngineSessionsAssumption DEF Frame
<1> QED BY <1>3, <1>4, <1>5 DEF IInv, QueueBelongsToOwner

\* Steps are made, and the lease is given back, only by the call that holds it: the two
\* errors about a foreign session are never raised.
THEOREM StepsStayWithOwner == Spec => []StepsBelongToOwner
  BY OwnersStep, Invariance, PTL

\* A call that cancels and one that steps would both own the engine, so they would be
\* for one session and hold the lock of its stream: one call, at two places.
LEMMA OwnersCancel == IInv => CancelOutsideStep
<1> SUFFICES ASSUME IInv, NEW f \in Frames, NEW g \in Frames,
                    f.at = "cancelling", g.at = "stepping"
             PROVE  FALSE
  BY DEF CancelOutsideStep
<1>0. PICK t \in Threads : \E k \in DOMAIN stack[t] : f = stack[t][k]
  BY DEF Frames
<1>1. PICK i \in DOMAIN stack[t] : f = stack[t][i]
  BY <1>0
<1>a. PICK u \in Threads : \E k \in DOMAIN stack[u] : g = stack[u][k]
  BY DEF Frames
<1>2. PICK j \in DOMAIN stack[u] : g = stack[u][j]
  BY <1>a
<1>3. f \in Frame /\ g \in Frame /\ FrameInv(t, i, f) /\ FrameInv(u, j, g)
  BY <1>1, <1>2 DEF IInv, FramesInv, TypeOK
<1>4. t # u \/ i # j
  BY <1>1, <1>2
<1>5. Pair(f, g) /\ Pair(g, f)
  BY <1>1, <1>2, <1>4 DEF IInv, PairsInv
<1>6. f.session # Manual /\ f.session # Nobody
  BY <1>3, EngineSessionsAssumption DEF FrameInv, Frame, Ops, PlacesOf, Ending
<1>7. f.at \in Owning /\ g.at \in Owning
  BY DEF Owning, Ending
<1>8. f.session = g.session
  BY <1>3, <1>6, <1>7 DEF FrameInv
<1>9. f.op \in {"next", "close"} /\ g.op \in {"next", "close"}
  BY <1>3, <1>5, <1>6, <1>8 DEF FrameInv, Pair, Frame, Ops
<1>10. iteration_lock[f.session] = t /\ iteration_lock[f.session] = u
  BY <1>3, <1>7, <1>8, <1>9 DEF FrameInv
<1>11. i = 1 /\ j = 1
  <2>1. i \in Nat \ {0} /\ j \in Nat \ {0}
    BY <1>1, <1>2 DEF IInv, TypeOK
  <2> QED BY <1>3, <1>9, <2>1 DEF FrameInv
<1> QED BY <1>4, <1>10, <1>11

\* Requests are never cancelled in the middle of a step, whichever thread the finalizer
\* of a dropped stream runs on.
THEOREM CancelStaysOutsideStep == Spec => []CancelOutsideStep
  BY OwnersCancel, Invariance, PTL
=============================================================================
