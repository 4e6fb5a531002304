---------------------------- MODULE SchedulerProofs ----------------------------
(***************************************************************************)
(* Proofs about nanovllm/engine/scheduler.py.                              *)
(*                                                                         *)
(* The first part is about the queues, the batch and the token counts:     *)
(* statuses name queues, and what users see of the scheduler is the        *)
(* request service.  Nothing in it depends on how the allocator hands out  *)
(* blocks, nor on who retries a failed step.                               *)
(*                                                                         *)
(* The second part is about scheduler and block manager together: every    *)
(* call respects the allocator's contract, so what the rows count as       *)
(* cached is in the cache; schedule() always finds a row; no block leaks;  *)
(* admission is first in, first out.  Its theorems are for callers that    *)
(* step again after a failed forward pass only if it ran nothing but a     *)
(* chunk inside a prompt.  A retry of any other failed step breaks the     *)
(* num_cached == len - 1 invariant, which run scheduler_retry shows.       *)
(***************************************************************************)
EXTENDS Scheduler, SequenceTheorems, FiniteSetTheorems, TLAPS

\* The proofs about the allocator, for the scheduler's own.
BMP == INSTANCE BlockManagerProofs
         WITH Prompts <- {r.prompt : r \in Requests}, MaxLen <- MaxModelLen + 1

\* The running sequences, in order: while schedule() decodes, the rows it has popped
\* are in its local list and go back in front of the deque at the end.
active == IF phase = "decode" THEN scheduled_seqs \o running ELSE running

\* The phases in which the batch is complete up to the rows prefill may still add.
Batching == {"prefill", "run", "commit", "emit", "finish"}

\* The types of the fields, without those of the allocator.
QueueTypes ==
  /\ request \in [Seqs -> [prompt : Seq(Token), max_tokens : Nat, ignore_eos : BOOLEAN]]
  /\ token_ids \in [Seqs -> Seq(Token)]
  /\ num_cached_tokens \in [Seqs -> Nat]
  /\ status \in [Seqs -> Statuses]
  /\ num_scheduled_tokens \in [Seqs -> 0 .. MaxNumBatchedTokens]
  /\ is_prefill \in [Seqs -> BOOLEAN]
  /\ waiting \in Seq(Seqs)
  /\ running \in Seq(Seqs)
  /\ mid_chunk_seq \in Seqs \cup {None}
  /\ phase \in Phases
  /\ scheduled_seqs \in Seq(Seqs)
  /\ Len(scheduled_seqs) <= MaxNumSeqs
  /\ num_decodes \in 0 .. MaxNumSeqs
  /\ num_batched_tokens \in 0 .. MaxNumBatchedTokens
  /\ row \in 0 .. MaxNumSeqs
  /\ targets \in SUBSET Seqs
  /\ failures \in 0 .. MaxFailures

\* FINISHED, not yet taken off the running queue.
Leaving(s) == phase = "finish" /\ s = scheduled_seqs[row]

\* The two queues at every step of a call: no sequence is in both or twice in one, its
\* status names its queue, and the partial prefill is the waiting head.
QueuesInv ==
  /\ IsInjective(waiting)
  /\ IsInjective(active)
  /\ Range(waiting) \cap Range(active) = {}
  /\ \A s \in Seqs :
       /\ s \in Range(waiting) <=> status[s] = "WAITING"
       /\ s \in Range(active) <=> (status[s] = "RUNNING" \/ Leaving(s))
       /\ Leaving(s) => status[s] = "FINISHED"
  /\ mid_chunk_seq # None => waiting # <<>> /\ Head(waiting) = mid_chunk_seq
  /\ phase = "cancel" => targets # {} /\ targets \subseteq Queued

\* Row i of the batch runs, or is the chunk of a prompt that will not be complete after it;
\* such a chunk has used up the budget, and is never the row that emits.
RowInv(i) ==
  \/ scheduled_seqs[i] \in Range(running)
  \/ /\ scheduled_seqs[i] = mid_chunk_seq
     /\ num_cached_tokens[mid_chunk_seq] + num_scheduled_tokens[mid_chunk_seq]
          < Len(token_ids[mid_chunk_seq])
     /\ phase \in {"prefill", "run", "commit"} \/ i # row
     /\ phase = "prefill" => remaining = 0

\* The batch and the position of the postprocess loop in it.
BatchInv ==
  /\ phase \in {"decode", "prefill", "run"} => row = 0
  /\ phase = "run" => scheduled_seqs # <<>>
  /\ phase \in {"commit", "emit", "finish"} => row \in 1 .. Len(scheduled_seqs)
  /\ phase \in Batching =>
       /\ IsInjective(scheduled_seqs)
       /\ \A i \in 1 .. Len(scheduled_seqs) : i >= row => RowInv(i)

\* Token counts: a live request is below its limit, a waiting one not fully cached.
TokensInv ==
  \A s \in Seqs :
    IF status[s] = "NONE"
    THEN token_ids[s] = <<>> /\ request[s].prompt = <<>> /\ num_cached_tokens[s] = 0
    ELSE /\ request[s] \in Requests
         /\ Admissible(request[s])
         /\ Len(token_ids[s]) >= Len(request[s].prompt)
         /\ status[s] \in {"WAITING", "RUNNING"} =>
              Len(token_ids[s]) < Len(request[s].prompt) + request[s].max_tokens
         /\ status[s] = "WAITING" => num_cached_tokens[s] < Len(token_ids[s])

\* The inductive invariant.
QInv == QueueTypes /\ QueuesInv /\ BatchInv /\ TokensInv
-----------------------------------------------------------------------------
(* Queues as sequences *)

\* The elements of a queue are what its positions hold.
LEMMA RangeIs ==
  ASSUME NEW S, NEW q \in Seq(S)
  PROVE  /\ Range(q) \subseteq S
         /\ Len(q) \in Nat /\ DOMAIN q = 1 .. Len(q)
         /\ \A x : x \in Range(q) <=> \E i \in 1 .. Len(q) : q[i] = x
         /\ q = <<>> <=> Range(q) = {}
<1>1. /\ Len(q) \in Nat /\ DOMAIN q = 1 .. Len(q)
      /\ \A i \in 1 .. Len(q) : q[i] \in S
  BY LenProperties, ElementOfSeq
<1>2. \A x : x \in Range(q) <=> \E i \in 1 .. Len(q) : q[i] = x
  BY <1>1 DEF Range
<1>3. q = <<>> <=> Len(q) = 0
  BY EmptySeq
<1>4. Len(q) = 0 => Range(q) = {}
  BY <1>1, <1>2
<1>5. Len(q) # 0 => q[1] \in Range(q)
  BY <1>1, <1>2
<1> QED BY <1>1, <1>2, <1>3, <1>4, <1>5

\* popleft: the head and the rest.
LEMMA PopSpec ==
  ASSUME NEW S, NEW q \in Seq(S), q # <<>>
  PROVE  /\ Head(q) \in S /\ Head(q) = q[1] /\ Head(q) \in Range(q)
         /\ Tail(q) \in Seq(S)
         /\ Len(Tail(q)) = Len(q) - 1
         /\ \A i \in 1 .. Len(q) - 1 : Tail(q)[i] = q[i + 1]
         /\ Range(q) = Range(Tail(q)) \cup {Head(q)}
         /\ IsInjective(q) => IsInjective(Tail(q)) /\ Head(q) \notin Range(Tail(q))
<1>1. /\ Head(q) \in S /\ Head(q) = q[1] /\ Tail(q) \in Seq(S)
      /\ Len(Tail(q)) = Len(q) - 1
      /\ \A i \in 1 .. Len(q) - 1 : Tail(q)[i] = q[i + 1]
  BY HeadTailProperties
<1>2. Len(q) \in Nat \ {0} /\ DOMAIN q = 1 .. Len(q)
  BY EmptySeq, LenProperties
<1>3. DOMAIN Tail(q) = 1 .. Len(q) - 1
  BY <1>1, LenProperties
<1>4. \A x : x \in Range(q) <=> \E i \in 1 .. Len(q) : q[i] = x
  BY RangeIs
<1>5. \A x : x \in Range(Tail(q)) <=> \E i \in 1 .. Len(q) - 1 : Tail(q)[i] = x
  BY <1>1, RangeIs
<1>6. ASSUME NEW x \in Range(q) PROVE x \in Range(Tail(q)) \cup {Head(q)}
  <2>1. PICK i \in 1 .. Len(q) : q[i] = x
    BY <1>4
  <2>2. CASE i = 1
    BY <1>1, <2>1, <2>2
  <2>3. CASE i # 1
    <3>1. i - 1 \in 1 .. Len(q) - 1 /\ Tail(q)[i - 1] = q[i - 1 + 1] /\ i - 1 + 1 = i
      BY <1>1, <1>2, <2>3
    <3> QED BY <1>5, <2>1, <3>1
  <2> QED BY <2>2, <2>3
<1>7. ASSUME NEW x \in Range(Tail(q)) PROVE x \in Range(q)
  <2>1. PICK i \in 1 .. Len(q) - 1 : Tail(q)[i] = x
    BY <1>5
  <2>2. i + 1 \in 1 .. Len(q) /\ q[i + 1] = x
    BY <1>1, <1>2, <2>1
  <2> QED BY <1>4, <2>2
<1>8. Head(q) \in Range(q)
  BY <1>1, <1>2, <1>4
<1>9. ASSUME IsInjective(q)
      PROVE  IsInjective(Tail(q)) /\ Head(q) \notin Range(Tail(q))
  <2>1. ASSUME NEW i \in 1 .. Len(q) - 1, NEW k \in 1 .. Len(q) - 1, Tail(q)[i] = Tail(q)[k]
        PROVE  i = k
    <3>1. q[i + 1] = q[k + 1] /\ i + 1 \in DOMAIN q /\ k + 1 \in DOMAIN q
      BY <1>1, <1>2, <2>1
    <3>2. i + 1 = k + 1
      BY <1>9, <3>1 DEF IsInjective
    <3> QED BY <3>2
  <2>2. ASSUME NEW i \in 1 .. Len(q) - 1, Tail(q)[i] = Head(q) PROVE FALSE
    <3>1. q[i + 1] = q[1] /\ i + 1 \in DOMAIN q /\ 1 \in DOMAIN q
      BY <1>1, <1>2, <2>2
    <3>2. i + 1 = 1
      BY <1>9, <3>1 DEF IsInjective
    <3> QED BY <3>2
  <2> QED BY <1>3, <1>5, <2>1, <2>2 DEF IsInjective
<1> QED BY <1>1, <1>6, <1>7, <1>8, <1>9

\* append: one more element, at the end.
LEMMA PushSpec ==
  ASSUME NEW S, NEW q \in Seq(S), NEW e \in S
  PROVE  /\ Append(q, e) \in Seq(S)
         /\ Len(Append(q, e)) = Len(q) + 1
         /\ \A i \in 1 .. Len(q) : Append(q, e)[i] = q[i]
         /\ Append(q, e)[Len(q) + 1] = e
         /\ Range(Append(q, e)) = Range(q) \cup {e}
         /\ Append(q, e) # <<>>
         /\ q # <<>> => Head(Append(q, e)) = Head(q)
         /\ IsInjective(q) /\ e \notin Range(q) => IsInjective(Append(q, e))
<1> DEFINE p == Append(q, e)
<1>1. /\ p \in Seq(S) /\ p # <<>> /\ Len(p) = Len(q) + 1
      /\ \A i \in 1 .. Len(q) : p[i] = q[i]
      /\ p[Len(q) + 1] = e
  BY AppendProperties
<1>2. q # <<>> => Head(p) = Head(q)
  BY HeadTailAppend
<1> HIDE DEF p
<1>3. Len(q) \in Nat /\ DOMAIN p = 1 .. Len(q) + 1 /\ DOMAIN q = 1 .. Len(q)
  BY <1>1, LenProperties
<1>4. \A x : x \in Range(q) <=> \E i \in 1 .. Len(q) : q[i] = x
  BY RangeIs
<1>5. \A x : x \in Range(p) <=> \E i \in 1 .. Len(q) + 1 : p[i] = x
  BY <1>1, RangeIs
<1>6. \A i \in 1 .. Len(q) + 1 : i \in 1 .. Len(q) \/ i = Len(q) + 1
  BY <1>3
<1>7. \A i \in 1 .. Len(q) : i \in 1 .. Len(q) + 1
  BY <1>3
<1>8. Len(q) + 1 \in 1 .. Len(q) + 1
  BY <1>3
<1>9. Range(p) = Range(q) \cup {e}
  BY <1>1, <1>4, <1>5, <1>6, <1>7, <1>8
<1>10. ASSUME IsInjective(q), e \notin Range(q) PROVE IsInjective(p)
  <2> SUFFICES ASSUME NEW i \in 1 .. Len(q) + 1, NEW k \in 1 .. Len(q) + 1, p[i] = p[k]
               PROVE  i = k
    BY <1>3 DEF IsInjective
  <2>1. CASE i \in 1 .. Len(q) /\ k \in 1 .. Len(q)
    <3>1. q[i] = q[k] /\ i \in DOMAIN q /\ k \in DOMAIN q
      BY <1>1, <1>3, <2>1
    <3> QED BY <1>10, <3>1 DEF IsInjective
  <2>2. CASE i \in 1 .. Len(q) /\ k = Len(q) + 1
    BY <1>1, <1>4, <1>10, <2>2
  <2>3. CASE i = Len(q) + 1 /\ k \in 1 .. Len(q)
    BY <1>1, <1>4, <1>10, <2>3
  <2> QED BY <1>6, <2>1, <2>2, <2>3
<1> QED BY <1>1, <1>2, <1>9, <1>10 DEF p

\* pop: all but the last element.
LEMMA DropSpec ==
  ASSUME NEW S, NEW q \in Seq(S), q # <<>>
  PROVE  /\ SubSeq(q, 1, Len(q) - 1) \in Seq(S)
         /\ Len(SubSeq(q, 1, Len(q) - 1)) = Len(q) - 1
         /\ \A i \in 1 .. Len(q) - 1 : SubSeq(q, 1, Len(q) - 1)[i] = q[i]
         /\ LastOf(q) \in S
         /\ Range(q) = Range(SubSeq(q, 1, Len(q) - 1)) \cup {LastOf(q)}
         /\ IsInjective(q) => /\ IsInjective(SubSeq(q, 1, Len(q) - 1))
                              /\ LastOf(q) \notin Range(SubSeq(q, 1, Len(q) - 1))
<1> DEFINE p == SubSeq(q, 1, Len(q) - 1)
           n == Len(q)
<1>1. n \in Nat \ {0} /\ DOMAIN q = 1 .. n /\ \A i \in 1 .. n : q[i] \in S
  BY EmptySeq, LenProperties, ElementOfSeq
<1>2. p \in Seq(S) /\ Len(p) = n - 1 /\ \A i \in 1 .. n - 1 : p[i] = q[i]
  BY <1>1, SubSeqProperties
<1> HIDE DEF p
<1>3. DOMAIN p = 1 .. n - 1
  BY <1>2, LenProperties
<1>4. \A x : x \in Range(q) <=> \E i \in 1 .. n : q[i] = x
  BY RangeIs
<1>5. \A x : x \in Range(p) <=> \E i \in 1 .. n - 1 : p[i] = x
  BY <1>2, RangeIs
<1>6. LastOf(q) = q[n]
  BY DEF LastOf
<1> HIDE DEF n
<1>7. n \in 1 .. n /\ \A i \in 1 .. n : i \in 1 .. n - 1 \/ i = n
  BY <1>1
<1>8. \A i \in 1 .. n - 1 : i \in 1 .. n /\ i # n
  BY <1>1
<1>9. Range(q) = Range(p) \cup {LastOf(q)}
  BY <1>2, <1>4, <1>5, <1>6, <1>7, <1>8
<1>10. ASSUME IsInjective(q) PROVE IsInjective(p) /\ LastOf(q) \notin Range(p)
  BY <1>1, <1>2, <1>3, <1>5, <1>6, <1>7, <1>8, <1>10 DEF IsInjective
<1> QED BY <1>1, <1>2, <1>6, <1>7, <1>9, <1>10 DEF p, n

\* Concatenation: the elements of both, once if neither repeats nor shares one.
LEMMA JoinSpec ==
  ASSUME NEW S, NEW p \in Seq(S), NEW q \in Seq(S)
  PROVE  /\ p \o q \in Seq(S)
         /\ Range(p \o q) = Range(p) \cup Range(q)
         /\ IsInjective(p \o q) <=>
              IsInjective(p) /\ IsInjective(q) /\ Range(p) \cap Range(q) = {}
<1> DEFINE j == p \o q
           m == Len(p)
           n == Len(q)
<1>1. m \in Nat /\ n \in Nat /\ DOMAIN p = 1 .. m /\ DOMAIN q = 1 .. n
  BY LenProperties
<1>2. j \in Seq(S) /\ Len(j) = m + n
      /\ \A i \in 1 .. m + n : j[i] = IF i <= m THEN p[i] ELSE q[i - m]
  BY ConcatProperties
<1>3. Range(j) = Range(p) \cup Range(q)
  BY RangeConcatenation
<1> HIDE DEF j
<1>4. DOMAIN j = 1 .. m + n
  BY <1>2, LenProperties
<1>5. /\ \A x : x \in Range(p) <=> \E i \in 1 .. m : p[i] = x
      /\ \A x : x \in Range(q) <=> \E i \in 1 .. n : q[i] = x
  BY RangeIs
<1> HIDE DEF m, n
<1>6. \A i \in 1 .. m : i \in DOMAIN j /\ j[i] = p[i]
  BY <1>1, <1>2, <1>4
<1>7. \A i \in 1 .. n : m + i \in DOMAIN j /\ j[m + i] = q[i]
  <2> SUFFICES ASSUME NEW i \in 1 .. n, NEW c, c = m + i
               PROVE  c \in DOMAIN j /\ j[c] = q[i]
    OBVIOUS
  <2>1. c \in 1 .. m + n /\ ~(c <= m) /\ c - m = i
    BY <1>1
  <2> QED BY <1>2, <1>4, <2>1
<1>8. ASSUME IsInjective(j)
      PROVE  IsInjective(p) /\ IsInjective(q) /\ Range(p) \cap Range(q) = {}
  <2>1. IsInjective(p)
    BY <1>1, <1>6, <1>8 DEF IsInjective
  <2>2. IsInjective(q)
    <3> SUFFICES ASSUME NEW i \in 1 .. n, NEW k \in 1 .. n, q[i] = q[k] PROVE i = k
      BY <1>1 DEF IsInjective
    <3>1. m + i = m + k
      BY <1>7, <1>8 DEF IsInjective
    <3> QED BY <1>1, <3>1
  <2>3. ASSUME NEW x \in Range(p), x \in Range(q) PROVE FALSE
    <3>1. PICK i \in 1 .. m : p[i] = x
      BY <1>5
    <3>2. PICK k \in 1 .. n : q[k] = x
      BY <1>5, <2>3
    <3>3. i = m + k
      BY <1>6, <1>7, <1>8, <3>1, <3>2 DEF IsInjective
    <3> QED BY <1>1, <3>3
  <2> QED BY <2>1, <2>2, <2>3
<1>9. ASSUME IsInjective(p), IsInjective(q), Range(p) \cap Range(q) = {}
      PROVE  IsInjective(j)
  <2> SUFFICES ASSUME NEW a \in 1 .. m + n, NEW b \in 1 .. m + n, j[a] = j[b] PROVE a = b
    BY <1>4 DEF IsInjective
  <2>1. ASSUME NEW c \in 1 .. m + n, ~(c <= m)
        PROVE  c - m \in 1 .. n /\ j[c] = q[c - m]
    BY <1>1, <1>2, <2>1
  <2>2. ASSUME NEW c \in 1 .. m + n, c <= m PROVE c \in 1 .. m /\ j[c] = p[c]
    BY <1>1, <1>2, <2>2
  <2>3. CASE a <= m /\ b <= m
    BY <1>1, <1>9, <2>2, <2>3 DEF IsInjective
  <2>4. CASE ~(a <= m) /\ ~(b <= m)
    <3>1. a - m = b - m
      BY <1>1, <1>9, <2>1, <2>4 DEF IsInjective
    <3> QED BY <1>1, <3>1
  <2>5. CASE a <= m /\ ~(b <= m)
    BY <1>5, <1>9, <2>1, <2>2, <2>5
  <2>6. CASE ~(a <= m) /\ b <= m
    BY <1>5, <1>9, <2>1, <2>2, <2>6
  <2> QED BY <2>3, <2>4, <2>5, <2>6
<1> QED BY <1>2, <1>3, <1>8, <1>9 DEF j

\* Moving the head of one queue to the end of the queue before it changes nothing in
\* the order of both.
LEMMA MoveSpec ==
  ASSUME NEW S, NEW p \in Seq(S), NEW q \in Seq(S), q # <<>>
  PROVE  Append(p, Head(q)) \o Tail(q) = p \o q
<1> DEFINE a == Append(p, Head(q))
           t == Tail(q)
           m == Len(p)
           n == Len(q)
<1>1. /\ Head(q) \in S /\ Head(q) = q[1] /\ t \in Seq(S) /\ Len(t) = n - 1
      /\ \A i \in 1 .. n - 1 : t[i] = q[i + 1]
      /\ m \in Nat /\ n \in Nat \ {0}
  BY PopSpec, EmptySeq, LenProperties
<1>2. a \in Seq(S) /\ Len(a) = m + 1 /\ a[m + 1] = q[1] /\ \A i \in 1 .. m : a[i] = p[i]
  BY <1>1, PushSpec
<1> HIDE DEF a, t
<1>3. /\ a \o t \in Seq(S) /\ Len(a \o t) = m + n
      /\ \A i \in 1 .. m + n : (a \o t)[i] = IF i <= m + 1 THEN a[i] ELSE t[i - (m + 1)]
  <2>1. /\ a \o t \in Seq(S) /\ Len(a \o t) = Len(a) + Len(t)
        /\ \A i \in 1 .. Len(a) + Len(t) : (a \o t)[i] = IF i <= Len(a) THEN a[i] ELSE t[i - Len(a)]
    BY <1>1, <1>2, ConcatProperties
  <2>2. Len(a) + Len(t) = m + n
    BY <1>1, <1>2
  <2> QED BY <1>2, <2>1, <2>2
<1>4. /\ p \o q \in Seq(S) /\ Len(p \o q) = m + n
      /\ \A i \in 1 .. m + n : (p \o q)[i] = IF i <= m THEN p[i] ELSE q[i - m]
  BY ConcatProperties
<1> HIDE DEF m, n
<1>5. ASSUME NEW i \in 1 .. m + n PROVE (a \o t)[i] = (p \o q)[i]
  <2>1. i <= m \/ i = m + 1 \/ i > m + 1
    BY <1>1
  <2>2. CASE i <= m
    <3>1. i <= m + 1 /\ i \in 1 .. m
      BY <1>1, <2>2
    <3> QED BY <1>2, <1>3, <1>4, <2>2, <3>1
  <2>3. CASE i = m + 1
    <3>1. i <= m + 1 /\ ~(i <= m) /\ i - m = 1
      BY <1>1, <2>3
    <3> QED BY <1>2, <1>3, <1>4, <2>3, <3>1
  <2>4. CASE i > m + 1
    <3>1. /\ ~(i <= m + 1) /\ ~(i <= m) /\ i - (m + 1) \in 1 .. n - 1
          /\ i - (m + 1) + 1 = i - m
      BY <1>1, <2>4
    <3> QED BY <1>1, <1>3, <1>4, <3>1
  <2> QED BY <2>1, <2>2, <2>3, <2>4
<1>6. Len(a \o t) = Len(p \o q)
  BY <1>1, <1>3, <1>4
<1>7. \A i \in 1 .. Len(a \o t) : (a \o t)[i] = (p \o q)[i]
  BY <1>3, <1>5
<1>8. a \o t = p \o q
  BY <1>3, <1>4, <1>6, <1>7, SeqEqual
<1> QED BY <1>8 DEF a, t

-----------------------------------------------------------------------------
(* Selection from queues, and the admission walk *)

\* The scheduler's configuration is one the allocator's proofs are about.
LEMMA AllocatorAssumption == BMP!BlockManagerAssumption
<1>1. /\ NumBlocks \in Nat \ {0} /\ BlockSize \in Nat \ {0, 1} /\ MaxModelLen + 1 \in Nat
      /\ IsFiniteSet(Seqs)
  BY SchedulerAssumption DEF SchedulerAssumption
<1>2. BMP!IsFiniteSet(Seqs)
  BY <1>1 DEF IsFiniteSet, BMP!IsFiniteSet
<1>3. {r.prompt : r \in Requests} \subseteq Seq(Token) \ {<<>>}
  BY SchedulerAssumption DEF SchedulerAssumption
<1> QED BY <1>1, <1>2, <1>3 DEF BMP!BlockManagerAssumption

\* Keep, as the allocator's proofs know it.
LEMMA KeepSpec ==
  ASSUME NEW T, NEW q \in Seq(T), NEW S
  PROVE  /\ BM!Keep(q, S) \in Seq(T)
         /\ Range(BM!Keep(q, S)) = Range(q) \cap S
         /\ IsInjective(q) => IsInjective(BM!Keep(q, S))
         /\ \A a, b \in DOMAIN BM!Keep(q, S) :
              a < b => \E i, j \in DOMAIN q :
                         i < j /\ BM!Keep(q, S)[a] = q[i] /\ BM!Keep(q, S)[b] = q[j]
<1>1. BMP!Keep(q, S) = BM!Keep(q, S)
  BY DEF BM!Keep, BMP!Keep, BM!KeptAt, BMP!KeptAt, BM!KeptUpTo, BMP!KeptUpTo,
         BM!NthKept, BMP!NthKept, BM!Cardinality, BMP!Cardinality,
         BM!IsFiniteSet, BMP!IsFiniteSet
<1>2. \A f : (BMP!Range(f) = Range(f)) /\ (BMP!IsInjective(f) <=> IsInjective(f))
  BY DEF BMP!Range, Range, BMP!IsInjective, IsInjective
<1>3. /\ BMP!Keep(q, S) \in Seq(T)
      /\ BMP!Range(BMP!Keep(q, S)) = BMP!Range(q) \cap S
      /\ BMP!IsInjective(q) => BMP!IsInjective(BMP!Keep(q, S))
      /\ \A a, b \in DOMAIN BMP!Keep(q, S) :
           a < b => \E i, j \in DOMAIN q :
                      i < j /\ BMP!Keep(q, S)[a] = q[i] /\ BMP!Keep(q, S)[b] = q[j]
  BY AllocatorAssumption, BMP!KeepSpec DEF BMP!BlockManagerAssumption
<1> QED BY <1>1, <1>2, <1>3

\* remove: the queue without s.
LEMMA WithoutSpec ==
  ASSUME NEW q \in Seq(Seqs), NEW s
  PROVE  /\ Without(q, s) \in Seq(Seqs)
         /\ Range(Without(q, s)) = Range(q) \ {s}
         /\ IsInjective(q) => IsInjective(Without(q, s))
<1>1. Range(q) \subseteq Seqs
  BY RangeIs
<1> QED BY <1>1, KeepSpec DEF Without

\* Every set of positions has a first one.
LEMMA FirstPosition ==
  ASSUME NEW n \in Nat, NEW S, NEW k \in 1 .. n, k \in S
  PROVE  \E m \in 1 .. n : m \in S /\ \A i \in 1 .. m - 1 : i \notin S
<1> DEFINE id == [i \in 1 .. n |-> i]
           K == BM!Keep(id, S)
           m == K[1]
<1>1. id \in Seq(1 .. n) /\ DOMAIN id = 1 .. n /\ \A i \in 1 .. n : id[i] = i
  BY IsASeq
<1> HIDE DEF id
<1>2. Range(id) = 1 .. n
  BY <1>1 DEF Range
<1>3. /\ K \in Seq(1 .. n)
      /\ Range(K) = 1 .. n \cap S
      /\ \A a, b \in DOMAIN K : a < b => \E i, j \in DOMAIN id : i < j /\ K[a] = id[i] /\ K[b] = id[j]
  <2>1. PICK T : T = 1 .. n
    OBVIOUS
  <2>2. id \in Seq(T)
    BY <1>1, <2>1
  <2>3. /\ K \in Seq(T)
        /\ Range(K) = Range(id) \cap S
        /\ \A a, b \in DOMAIN K : a < b => \E i, j \in DOMAIN id : i < j /\ K[a] = id[i] /\ K[b] = id[j]
    BY <2>2, KeepSpec
  <2> HIDE DEF K
  <2> QED BY <1>2, <2>1, <2>3
<1> HIDE DEF K
<1>4. /\ Len(K) \in Nat /\ DOMAIN K = 1 .. Len(K)
      /\ \A x : x \in Range(K) <=> \E i \in 1 .. Len(K) : K[i] = x
  BY <1>3, RangeIs
<1>5. \E i \in 1 .. Len(K) : K[i] = k
  BY <1>3, <1>4
<1>6. 1 \in 1 .. Len(K)
  BY <1>4, <1>5
<1>7. m \in 1 .. n /\ m \in S
  BY <1>3, <1>4, <1>6
<1>8. ASSUME NEW i \in 1 .. m - 1, i \in S PROVE FALSE
  <2>1. i \in 1 .. n /\ i < m
    BY <1>7, <1>8
  <2>2. PICK a \in 1 .. Len(K) : K[a] = i
    BY <1>3, <1>4, <1>8, <2>1
  <2>3. a # 1 /\ 1 < a
    BY <1>4, <2>1, <2>2, <1>7
  <2>4. PICK x \in DOMAIN id, y \in DOMAIN id : x < y /\ K[1] = id[x] /\ K[a] = id[y]
    <3>1. 1 \in DOMAIN K /\ a \in DOMAIN K
      BY <1>4, <1>6
    <3>2. \A p, r \in DOMAIN K : p < r => \E x, y \in DOMAIN id : x < y /\ K[p] = id[x] /\ K[r] = id[y]
      BY <1>3
    <3> QED BY <2>3, <3>1, <3>2
  <2>5. x \in 1 .. n /\ y \in 1 .. n /\ m = x /\ i = y
    BY <1>1, <2>2, <2>4
  <2> QED BY <1>7, <2>1, <2>4, <2>5
<1> QED BY <1>7, <1>8

\* The walk of can_allocate stops at a block before the last, so that it leaves at
\* least one token to compute.
LEMMA CachedBlocks ==
  ASSUME NEW s \in Seqs, token_ids[s] \in Seq(Token), token_ids[s] # <<>>
  PROVE  LET c == BM!num_cached_blocks(s)
         IN  /\ c \in Nat
             /\ c * BlockSize \in Nat
             /\ c * BlockSize < BM!num_tokens(s)
             /\ c < BM!num_blocks(s)
             /\ \A i \in 1 .. c : BM!Hit(s, i)
<1> DEFINE b == BM!num_blocks(s)
           t == BM!num_tokens(s)
           Walk(c) == /\ \A i \in 1 .. c : BM!Hit(s, i)
                      /\ c = b - 1 \/ ~BM!Hit(s, c + 1)
<1>1. BlockSize \in Nat \ {0} /\ t \in Nat \ {0}
  BY SchedulerAssumption, EmptySeq DEF SchedulerAssumption, BM!num_tokens
<1>2. b \in Nat \ {0} /\ (b - 1) * BlockSize < t
  <2>1. b = (t + BlockSize - 1) \div BlockSize
    BY DEF BM!num_blocks, BM!BlocksFor
  <2> HIDE DEF b, t
  <2>2. PICK x \in Nat : x = t + BlockSize - 1
    BY <1>1
  <2>3. x \div BlockSize \in Nat /\ x % BlockSize \in 0 .. BlockSize - 1
        /\ x = BlockSize * (x \div BlockSize) + (x % BlockSize)
    BY <1>1
  <2>4. b \in Nat /\ x = BlockSize * b + (x % BlockSize)
    BY <2>1, <2>2, <2>3
  <2>5. b # 0
    BY <1>1, <2>2, <2>3, <2>4
  <2>6. (b - 1) * BlockSize = BlockSize * b - BlockSize
    BY <1>1, <2>4
  <2>7. BlockSize * b \in Nat
    BY <1>1, <2>4
  <2> QED BY <1>1, <2>2, <2>3, <2>4, <2>5, <2>6, <2>7
<1>3. \E c \in 0 .. b - 1 : Walk(c)
  <2> HIDE DEF b
  <2> DEFINE misses == {i \in 1 .. b - 1 : ~BM!Hit(s, i)}
  <2>1. CASE misses = {}
    <3>1. b - 1 \in 0 .. b - 1 /\ Walk(b - 1)
      BY <1>2, <2>1
    <3> QED BY <3>1
  <2>2. CASE misses # {}
    <3>1. PICK k \in 1 .. b - 1 : k \in misses
      BY <2>2
    <3>2. b - 1 \in Nat
      BY <1>2
    <3> HIDE DEF misses
    <3>3. PICK m \in 1 .. b - 1 : m \in misses /\ \A i \in 1 .. m - 1 : i \notin misses
      BY <3>1, <3>2, FirstPosition
    <3>4. m - 1 \in 0 .. b - 1 /\ (m - 1) + 1 = m /\ \A i \in 1 .. m - 1 : i \in 1 .. b - 1
      BY <1>2, <3>3
    <3>5. Walk(m - 1)
      BY <3>3, <3>4 DEF misses
    <3> QED BY <3>4, <3>5
  <2> QED BY <2>1, <2>2
<1> DEFINE c == BM!num_cached_blocks(s)
<1>4. c = CHOOSE x \in 0 .. b - 1 : Walk(x)
  BY DEF BM!num_cached_blocks
<1>5. c \in 0 .. b - 1 /\ Walk(c)
  <2> HIDE DEF b, c, Walk
  <2> QED BY <1>3, <1>4
<1> HIDE DEF c
<1>6. c \in Nat /\ c < b /\ c <= b - 1 /\ c * BlockSize \in Nat /\ c * BlockSize <= (b - 1) * BlockSize
  <2> HIDE DEF b, t, Walk
  <2>1. c \in Nat /\ c <= b - 1 /\ b - 1 \in Nat /\ c < b
    BY <1>2, <1>5
  <2>2. PICK d \in Nat : b - 1 = c + d
    <3>1. b - 1 - c \in Nat /\ b - 1 = c + (b - 1 - c)
      BY <2>1
    <3> QED BY <3>1
  <2>3. (b - 1) * BlockSize = c * BlockSize + d * BlockSize
    BY <1>1, <2>1, <2>2
  <2>4. c * BlockSize \in Nat /\ d * BlockSize \in Nat
    BY <1>1, <2>1
  <2> QED BY <2>1, <2>3, <2>4
<1>7. c * BlockSize < t
  <2> HIDE DEF b, t
  <2>1. (b - 1) * BlockSize \in Int
    BY <1>1, <1>2
  <2> QED BY <1>1, <1>2, <1>6, <2>1
<1> QED BY <1>5, <1>6, <1>7 DEF c

-----------------------------------------------------------------------------
(* What the queues see of the allocator's operations *)

\* Growing a table counts no token.
LEMMA GrowthEffect ==
  ASSUME NEW s, NEW n, BM!may_append(s) \/ BM!extend(s, n)
  PROVE  UNCHANGED <<token_ids, num_cached_tokens>>
BY DEF BM!may_append, BM!extend, BM!take_blocks

\* Releasing a table forgets its sequence's cached tokens.
LEMMA ReleaseEffect ==
  ASSUME NEW s, BM!deallocate(s)
  PROVE  token_ids' = token_ids /\ num_cached_tokens' = [num_cached_tokens EXCEPT ![s] = 0]
BY DEF BM!deallocate

\* Allocating a table counts the cached blocks it starts with.
LEMMA AllocateEffect ==
  ASSUME NEW s, NEW c, NEW n, BM!allocate_incremental(s, c, n)
  PROVE  /\ token_ids' = token_ids
         /\ num_cached_tokens' = [num_cached_tokens EXCEPT ![s] = c * BlockSize]
BY DEF BM!allocate_incremental

\* Committing counts the tokens of the row.
LEMMA CommitEffect ==
  ASSUME NEW s, NEW n, BM!commit(s, n)
  PROVE  /\ token_ids' = token_ids
         /\ num_cached_tokens' = [num_cached_tokens EXCEPT ![s] = @ + n]
BY DEF BM!commit

\* The forward pass counts nothing, whether it stored its rows or not.
LEMMA StoreEffect ==
  ASSUME NEW slot, BM!store_kvcache(slot) \/ UNCHANGED bmVars
  PROVE  UNCHANGED <<token_ids, num_cached_tokens>>
BY DEF BM!store_kvcache, BM!seqVars, bmVars

-----------------------------------------------------------------------------
(* What keeps the parts of the invariant *)

\* The constants, as the proofs use them.
LEMMA Constants ==
  /\ Seqs \subseteq Nat /\ None \notin Seqs
  /\ MaxNumSeqs \in Nat \ {0} /\ MaxNumBatchedTokens \in Nat /\ MaxNumBatchedTokens >= MaxNumSeqs
  /\ BlockSize \in Nat \ {0}
  /\ Requests \subseteq [prompt : Seq(Token) \ {<<>>}, max_tokens : Nat \ {0}, ignore_eos : BOOLEAN]
<1>1. 0 - 1 \notin Nat
  OBVIOUS
<1> QED BY <1>1, SchedulerAssumption DEF SchedulerAssumption, None

\* A step that neither submits nor emits keeps the token counts in bounds.
LEMMA TokensStay ==
  ASSUME QueueTypes, TokensInv, UNCHANGED <<token_ids, request>>,
         \A s \in Seqs :
           /\ \/ status'[s] = status[s]
              \/ /\ status[s] # "NONE" /\ status'[s] # "NONE"
                 /\ status'[s] \in {"WAITING", "RUNNING"} => status[s] \in {"WAITING", "RUNNING"}
           /\ \/ num_cached_tokens'[s] = 0
              \/ /\ num_cached_tokens'[s] = num_cached_tokens[s]
                 /\ status'[s] = "WAITING" => status[s] = "WAITING"
              \/ status'[s] = "WAITING" /\ num_cached_tokens'[s] < Len(token_ids[s])
              \/ status'[s] \notin {"WAITING", "NONE"}
  PROVE  TokensInv'
<1> SUFFICES ASSUME NEW s \in Seqs
             PROVE  IF status'[s] = "NONE"
                    THEN token_ids[s] = <<>> /\ request[s].prompt = <<>> /\ num_cached_tokens'[s] = 0
                    ELSE /\ request[s] \in Requests
                         /\ Admissible(request[s])
                         /\ Len(token_ids[s]) >= Len(request[s].prompt)
                         /\ status'[s] \in {"WAITING", "RUNNING"} =>
                              Len(token_ids[s]) < Len(request[s].prompt) + request[s].max_tokens
                         /\ status'[s] = "WAITING" => num_cached_tokens'[s] < Len(token_ids[s])
  BY DEF TokensInv, Admissible, BM!BlocksFor
<1>1. status[s] # "NONE" => Len(token_ids[s]) > 0
  <2> SUFFICES ASSUME status[s] # "NONE" PROVE Len(token_ids[s]) > 0
    OBVIOUS
  <2>1. request[s] \in Requests /\ Len(token_ids[s]) >= Len(request[s].prompt)
    BY DEF TokensInv
  <2>2. request[s].prompt \in Seq(Token) \ {<<>>}
    BY <2>1, Constants
  <2>3. Len(request[s].prompt) \in Nat \ {0} /\ Len(token_ids[s]) \in Nat
    BY <2>2, EmptySeq DEF QueueTypes
  <2> QED BY <2>1, <2>3
<1>2. status'[s] = "NONE" <=> status[s] = "NONE"
  OBVIOUS
<1>3. CASE status[s] = "NONE"
  BY <1>2, <1>3 DEF TokensInv
<1>4. CASE status[s] # "NONE"
  BY <1>1, <1>2, <1>4 DEF TokensInv
<1> QED BY <1>3, <1>4

\* A step that leaves the queues and statuses alone keeps them consistent.
LEMMA QueuesStay ==
  ASSUME QueuesInv, UNCHANGED <<waiting, status, mid_chunk_seq>>, active' = active,
         phase # "finish", phase' # "finish",
         phase' = "cancel" => targets' # {} /\ targets' \subseteq Queued'
  PROVE  QueuesInv'
<1>1. \A s : ~Leaving(s) /\ ~Leaving(s)'
  BY DEF Leaving
<1> QED BY <1>1 DEF QueuesInv

\* Where there is no batch there is nothing to say about it.
LEMMA NoBatch ==
  ASSUME phase' \in {"idle", "failed", "cancel"}
  PROVE  BatchInv'
BY DEF BatchInv, Batching

\* A sequence moves within its queue or from running to the waiting tail.
LEMMA PreemptQueues ==
  ASSUME QueueTypes, QueuesInv, phase # "finish", phase' \notin {"finish", "cancel"},
         NEW s \in Seqs, NEW queue \in Seq(Seqs), preempt(s, queue),
         \/ /\ waiting # <<>> /\ s = Head(waiting) /\ queue = Tail(waiting)
            /\ active' = active
         \/ /\ queue = waiting /\ mid_chunk_seq = None
            /\ s \in Range(active)
            /\ IsInjective(active') /\ Range(active') = Range(active) \ {s}
  PROVE  /\ QueuesInv'
         /\ mid_chunk_seq' = None
         /\ waiting' \in Seq(Seqs) /\ status' \in [Seqs -> Statuses]
         /\ num_cached_tokens' \in [Seqs -> Nat]
         /\ UNCHANGED <<token_ids, request>>
         /\ \A r \in Seqs :
              \/ status'[r] = status[r] /\ num_cached_tokens'[r] = num_cached_tokens[r]
              \/ status[r] \in {"WAITING", "RUNNING"} /\ status'[r] = "WAITING" /\ num_cached_tokens'[r] = 0
<1>1. /\ waiting' = Append(queue, s)
      /\ status' = [status EXCEPT ![s] = "WAITING"]
      /\ mid_chunk_seq' = MarkWithout(s)
      /\ UNCHANGED <<token_ids, request>>
      /\ num_cached_tokens' = [num_cached_tokens EXCEPT ![s] = 0]
  BY ReleaseEffect DEF preempt
<1>2. /\ status \in [Seqs -> Statuses] /\ num_cached_tokens \in [Seqs -> Nat]
      /\ waiting \in Seq(Seqs)
  BY DEF QueueTypes
<1>3. waiting' \in Seq(Seqs) /\ status' \in [Seqs -> Statuses] /\ num_cached_tokens' \in [Seqs -> Nat]
  BY <1>1, <1>2, PushSpec DEF Statuses
<1>4. \A r : ~Leaving(r) /\ ~Leaving(r)'
  BY DEF Leaving
<1>5. /\ IsInjective(waiting) /\ IsInjective(active) /\ Range(waiting) \cap Range(active) = {}
      /\ \A r \in Seqs : /\ r \in Range(waiting) <=> status[r] = "WAITING"
                         /\ r \in Range(active) <=> status[r] = "RUNNING"
      /\ mid_chunk_seq # None => waiting # <<>> /\ Head(waiting) = mid_chunk_seq
  BY <1>4 DEF QueuesInv
<1>6. CASE waiting # <<>> /\ s = Head(waiting) /\ queue = Tail(waiting) /\ active' = active
  <2>1. s \in Range(waiting) /\ s \notin Range(queue) /\ Range(waiting) = Range(queue) \cup {s}
        /\ IsInjective(queue)
    BY <1>2, <1>5, <1>6, PopSpec
  <2>2. Range(waiting') = Range(waiting) /\ IsInjective(waiting')
    BY <1>1, <2>1, PushSpec
  <2>3. status' = status
    BY <1>1, <1>2, <1>5, <2>1
  <2>4. mid_chunk_seq' = None
    BY <1>1, <1>5, <1>6 DEF MarkWithout
  <2>5. QueuesInv'
    <3>1. IsInjective(waiting') /\ IsInjective(active') /\ Range(waiting') \cap Range(active') = {}
      BY <1>5, <1>6, <2>2
    <3>2. \A r \in Seqs : /\ r \in Range(waiting') <=> status'[r] = "WAITING"
                          /\ r \in Range(active') <=> (status'[r] = "RUNNING" \/ Leaving(r)')
                          /\ Leaving(r)' => status'[r] = "FINISHED"
      BY <1>4, <1>5, <1>6, <2>2, <2>3
    <3> QED BY <2>4, <3>1, <3>2 DEF QueuesInv
  <2> QED BY <1>1, <1>2, <1>3, <1>5, <2>1, <2>3, <2>4, <2>5
<1>7. CASE /\ queue = waiting /\ mid_chunk_seq = None /\ s \in Range(active)
           /\ IsInjective(active') /\ Range(active') = Range(active) \ {s}
  <2>1. status[s] = "RUNNING" /\ s \notin Range(waiting)
    BY <1>5, <1>7
  <2>2. Range(waiting') = Range(waiting) \cup {s} /\ IsInjective(waiting')
    BY <1>1, <1>2, <1>5, <1>7, <2>1, PushSpec
  <2>3. \A r \in Seqs : status'[r] = IF r = s THEN "WAITING" ELSE status[r]
    BY <1>1, <1>2
  <2>4. mid_chunk_seq' = None
    BY <1>1, <1>7, Constants DEF MarkWithout
  <2>5. QueuesInv'
    <3>1. IsInjective(waiting') /\ IsInjective(active') /\ Range(waiting') \cap Range(active') = {}
      BY <1>5, <1>7, <2>2
    <3>2. \A r \in Seqs : /\ r \in Range(waiting') <=> status'[r] = "WAITING"
                          /\ r \in Range(active') <=> (status'[r] = "RUNNING" \/ Leaving(r)')
                          /\ Leaving(r)' => status'[r] = "FINISHED"
      BY <1>4, <1>5, <1>7, <2>2, <2>3
    <3> QED BY <2>4, <3>1, <3>2 DEF QueuesInv
  <2> QED BY <1>1, <1>2, <1>3, <2>1, <2>3, <2>4, <2>5
<1> QED BY <1>6, <1>7

-----------------------------------------------------------------------------
(* schedule() *)

\* _admit_request and add: the new request joins the waiting tail.
LEMMA AddKeeps ==
  ASSUME QInv, NEW s \in Seqs, NEW r \in Requests, add_request(s, r)
  PROVE  QInv'
<1>1. /\ phase = "idle" /\ status[s] = "NONE" /\ Admissible(r)
      /\ token_ids' = [token_ids EXCEPT ![s] = r.prompt]
      /\ num_cached_tokens' = num_cached_tokens
      /\ request' = [request EXCEPT ![s] = r]
      /\ status' = [status EXCEPT ![s] = "WAITING"]
      /\ waiting' = Append(waiting, s)
      /\ UNCHANGED <<num_scheduled_tokens, is_prefill, running, mid_chunk_seq>>
      /\ UNCHANGED <<scheduled_seqs, num_decodes, num_batched_tokens, row, phase, targets, failures>>
  BY DEF add_request, BM!new_sequence, rowVars, stepVars
<1>2. /\ r \in [prompt : Seq(Token) \ {<<>>}, max_tokens : Nat \ {0}, ignore_eos : BOOLEAN]
      /\ r.prompt \in Seq(Token) /\ r.max_tokens \in Nat \ {0}
  BY Constants
<1>3. QueueTypes'
  <2>1. /\ request' \in [Seqs -> [prompt : Seq(Token), max_tokens : Nat, ignore_eos : BOOLEAN]]
        /\ token_ids' \in [Seqs -> Seq(Token)]
    BY <1>1, <1>2 DEF QInv, QueueTypes
  <2>2. waiting' \in Seq(Seqs) /\ status' \in [Seqs -> Statuses]
    BY <1>1, PushSpec DEF QInv, QueueTypes, Statuses
  <2> QED BY <1>1, <2>1, <2>2 DEF QInv, QueueTypes
<1>4. QueuesInv'
  <2>1. /\ waiting \in Seq(Seqs) /\ status \in [Seqs -> Statuses]
        /\ IsInjective(waiting) /\ IsInjective(active) /\ Range(waiting) \cap Range(active) = {}
        /\ \A q \in Seqs : /\ q \in Range(waiting) <=> status[q] = "WAITING"
                           /\ q \in Range(active) <=> status[q] = "RUNNING"
        /\ mid_chunk_seq # None => waiting # <<>> /\ Head(waiting) = mid_chunk_seq
    BY <1>1 DEF QInv, QueueTypes, QueuesInv, Leaving
  <2>2. s \notin Range(waiting) /\ s \notin Range(active)
    BY <1>1, <2>1
  <2>3. /\ Range(waiting') = Range(waiting) \cup {s} /\ IsInjective(waiting') /\ waiting' # <<>>
        /\ waiting # <<>> => Head(waiting') = Head(waiting)
    BY <1>1, <2>1, <2>2, PushSpec
  <2>4. active' = active /\ \A q : ~Leaving(q)'
    BY <1>1 DEF active, Leaving
  <2>5. \A q \in Seqs : status'[q] = IF q = s THEN "WAITING" ELSE status[q]
    BY <1>1, <2>1
  <2>6. Range(waiting') \cap Range(active') = {}
    BY <2>1, <2>2, <2>3, <2>4
  <2>7. \A q \in Seqs : /\ q \in Range(waiting') <=> status'[q] = "WAITING"
                        /\ q \in Range(active') <=> (status'[q] = "RUNNING" \/ Leaving(q)')
                        /\ Leaving(q)' => status'[q] = "FINISHED"
    BY <2>1, <2>2, <2>3, <2>4, <2>5
  <2>8. mid_chunk_seq' # None => waiting' # <<>> /\ Head(waiting') = mid_chunk_seq'
    BY <1>1, <2>1, <2>3
  <2> QED BY <1>1, <2>1, <2>3, <2>4, <2>6, <2>7, <2>8 DEF QueuesInv
<1>5. TokensInv'
  <2> SUFFICES ASSUME NEW q \in Seqs
               PROVE  IF status'[q] = "NONE"
                      THEN /\ token_ids'[q] = <<>> /\ request'[q].prompt = <<>>
                           /\ num_cached_tokens'[q] = 0
                      ELSE /\ request'[q] \in Requests
                           /\ Admissible(request'[q])
                           /\ Len(token_ids'[q]) >= Len(request'[q].prompt)
                           /\ status'[q] \in {"WAITING", "RUNNING"} =>
                                Len(token_ids'[q]) < Len(request'[q].prompt) + request'[q].max_tokens
                           /\ status'[q] = "WAITING" => num_cached_tokens'[q] < Len(token_ids'[q])
    BY DEF TokensInv, Admissible, BM!BlocksFor
  <2>1. CASE q = s
    <3>1. status'[q] = "WAITING" /\ token_ids'[q] = r.prompt /\ request'[q] = r
      BY <1>1, <2>1 DEF QInv, QueueTypes
    <3>2. Len(r.prompt) \in Nat \ {0} /\ num_cached_tokens'[q] = 0
      BY <1>1, <1>2, <2>1, EmptySeq DEF QInv, TokensInv
    <3> QED BY <1>1, <1>2, <3>1, <3>2
  <2>2. CASE q # s
    <3>1. status'[q] = status[q] /\ token_ids'[q] = token_ids[q] /\ request'[q] = request[q]
      BY <1>1, <2>2 DEF QInv, QueueTypes
    <3> QED BY <1>1, <3>1 DEF QInv, TokensInv
  <2> QED BY <2>1, <2>2
<1> QED BY <1>1, <1>3, <1>4, <1>5, NoBatch DEF QInv

\* schedule() starts with an empty batch.
LEMMA StartKeeps ==
  ASSUME QInv, StartStep
  PROVE  QInv'
<1>1. /\ phase = "idle" /\ phase' = "decode" /\ scheduled_seqs' = <<>>
      /\ num_decodes' = 0 /\ num_batched_tokens' = 0 /\ row' = 0
      /\ UNCHANGED <<token_ids, num_cached_tokens, request, status, num_scheduled_tokens, is_prefill,
                     waiting, running, mid_chunk_seq, targets, failures>>
  BY DEF StartStep, bmVars, reqVars, rowVars, queueVars
<1>2. QueueTypes'
  <2>1. /\ scheduled_seqs' \in Seq(Seqs) /\ Len(scheduled_seqs') = 0
        /\ phase' \in Phases /\ MaxNumSeqs \in Nat /\ MaxNumBatchedTokens \in Nat
    BY <1>1, Constants, EmptySeq DEF Phases
  <2> QED BY <1>1, <2>1 DEF QInv, QueueTypes
<1>3. active' = active
  <2>1. <<>> \o running = running
    BY ConcatEmptySeq DEF QInv, QueueTypes
  <2> QED BY <1>1, <2>1 DEF active
<1>4. QueuesInv'
  BY <1>1, <1>3, QueuesStay DEF QInv
<1>5. TokensInv'
  BY <1>1, TokensStay DEF QInv
<1>6. BatchInv'
  BY <1>1 DEF BatchInv, Batching
<1> QED BY <1>2, <1>4, <1>5, <1>6 DEF QInv

\* A decode row moves from the deque to the local list.
LEMMA DecodeKeeps ==
  ASSUME QInv, DecodeRow
  PROVE  QInv'
<1> DEFINE s == Head(running)
<1>1. /\ phase = "decode" /\ running # <<>> /\ Len(scheduled_seqs) < MaxNumSeqs
      /\ running' = Tail(running) /\ scheduled_seqs' = Append(scheduled_seqs, s)
      /\ num_scheduled_tokens' = [num_scheduled_tokens EXCEPT ![s] = 1]
      /\ is_prefill' = [is_prefill EXCEPT ![s] = FALSE]
      /\ UNCHANGED <<token_ids, num_cached_tokens, request, status, waiting, mid_chunk_seq,
                     num_decodes, num_batched_tokens, row, phase, targets, failures>>
  BY GrowthEffect DEF DecodeRow, Decoding, reqVars
<1>2. running \in Seq(Seqs) /\ scheduled_seqs \in Seq(Seqs)
  BY DEF QInv, QueueTypes
<1>3. s \in Seqs /\ Tail(running) \in Seq(Seqs)
  BY <1>1, <1>2, PopSpec
<1>4. scheduled_seqs' \in Seq(Seqs) /\ Len(scheduled_seqs') = Len(scheduled_seqs) + 1
  BY <1>1, <1>2, <1>3, PushSpec
<1>5. QueueTypes'
  <2>1. num_scheduled_tokens' \in [Seqs -> 0 .. MaxNumBatchedTokens]
    <3>1. 1 \in 0 .. MaxNumBatchedTokens
      BY Constants
    <3> QED BY <1>1, <1>3, <3>1 DEF QInv, QueueTypes
  <2>2. is_prefill' \in [Seqs -> BOOLEAN]
    BY <1>1, <1>3 DEF QInv, QueueTypes
  <2>3. Len(scheduled_seqs') <= MaxNumSeqs
    BY <1>1, <1>2, <1>4, Constants
  <2> QED BY <1>1, <1>3, <1>4, <2>1, <2>2, <2>3 DEF QInv, QueueTypes
<1>6. active' = active
  BY <1>1, <1>2, MoveSpec DEF active
<1>7. QueuesInv'
  BY <1>1, <1>6, QueuesStay DEF QInv
<1>8. TokensInv'
  BY <1>1, TokensStay DEF QInv
<1>9. BatchInv'
  BY <1>1 DEF QInv, BatchInv, Batching
<1> QED BY <1>5, <1>7, <1>8, <1>9 DEF QInv

\* The types after a preemption.
LEMMA PreemptTypes ==
  ASSUME QueueTypes, NEW s \in Seqs, NEW queue, preempt(s, queue),
         waiting' \in Seq(Seqs), status' \in [Seqs -> Statuses],
         num_cached_tokens' \in [Seqs -> Nat], UNCHANGED <<token_ids, request>>,
         mid_chunk_seq' = None, running' \in Seq(Seqs), phase' \in Phases,
         num_scheduled_tokens' \in [Seqs -> 0 .. MaxNumBatchedTokens]
  PROVE  QueueTypes' /\ UNCHANGED <<scheduled_seqs, num_decodes, num_batched_tokens, row, targets, failures>>
<1>1. is_prefill' = [is_prefill EXCEPT ![s] = TRUE]
  BY DEF preempt
<1>2. is_prefill' \in [Seqs -> BOOLEAN]
  BY <1>1 DEF QueueTypes
<1>3. UNCHANGED <<scheduled_seqs, num_decodes, num_batched_tokens, row, targets, failures>>
  BY DEF preempt, stepVars
<1> QED BY <1>2, <1>3 DEF QueueTypes

\* A partial prefill gives way: it goes from the head to the tail of its queue.
LEMMA ReclaimKeeps ==
  ASSUME QInv, ReclaimMidChunk
  PROVE  QInv'
<1> DEFINE s == Head(waiting)
<1>1. /\ phase = "decode" /\ mid_chunk_seq # None /\ preempt(s, Tail(waiting))
      /\ UNCHANGED <<running, num_scheduled_tokens, phase>>
  BY DEF ReclaimMidChunk, Decoding
<1>2. waiting # <<>> /\ waiting \in Seq(Seqs) /\ running \in Seq(Seqs)
  BY <1>1 DEF QInv, QueueTypes, QueuesInv
<1>3. s \in Seqs /\ Tail(waiting) \in Seq(Seqs)
  BY <1>2, PopSpec
<1>4. active' = active
  BY <1>1 DEF active, preempt, stepVars
<1>5. /\ QueuesInv' /\ mid_chunk_seq' = None
      /\ waiting' \in Seq(Seqs) /\ status' \in [Seqs -> Statuses]
      /\ num_cached_tokens' \in [Seqs -> Nat] /\ UNCHANGED <<token_ids, request>>
      /\ \A r \in Seqs :
           \/ status'[r] = status[r] /\ num_cached_tokens'[r] = num_cached_tokens[r]
           \/ status[r] \in {"WAITING", "RUNNING"} /\ status'[r] = "WAITING" /\ num_cached_tokens'[r] = 0
  BY <1>1, <1>2, <1>3, <1>4, PreemptQueues DEF QInv
<1>6. QueueTypes' /\ UNCHANGED <<scheduled_seqs, num_decodes, num_batched_tokens, row, targets, failures>>
  BY <1>1, <1>2, <1>3, <1>5, PreemptTypes DEF QInv, QueueTypes
<1>7. TokensInv'
  BY <1>5, TokensStay DEF QInv
<1>8. BatchInv'
  BY <1>1, <1>6 DEF QInv, BatchInv, Batching
<1> QED BY <1>5, <1>6, <1>7, <1>8 DEF QInv

\* The last running sequence gives way; it may be the one that needs the block.
LEMMA PreemptLastKeeps ==
  ASSUME QInv, PreemptTail \/ PreemptSelf
  PROVE  QInv'
<1> DEFINE s == LastOf(running)
           front == SubSeq(running, 1, Len(running) - 1)
<1>1. running \in Seq(Seqs) /\ scheduled_seqs \in Seq(Seqs) /\ waiting \in Seq(Seqs)
  BY DEF QInv, QueueTypes
<1>2. /\ phase = "decode" /\ running # <<>> /\ mid_chunk_seq = None
      /\ UNCHANGED <<num_scheduled_tokens, phase>>
  BY DEF PreemptTail, PreemptSelf, Decoding
<1>3. preempt(s, waiting) /\ running' = front
  <2>1. CASE PreemptTail
    BY <2>1 DEF PreemptTail
  <2>2. CASE PreemptSelf
    <3>1. Len(running) = 1 /\ running' = <<>> /\ preempt(Head(running), waiting)
      BY <2>2 DEF PreemptSelf
    <3>2. Head(running) = running[1]
      BY <1>1, <1>2, PopSpec
    <3>3. front = <<>>
      BY <1>1, <3>1, SubSeqEmpty
    <3> QED BY <3>1, <3>2, <3>3 DEF LastOf
  <2> QED BY <2>1, <2>2
<1>4. /\ front \in Seq(Seqs) /\ s \in Seqs /\ Range(running) = Range(front) \cup {s}
      /\ IsInjective(running) => IsInjective(front) /\ s \notin Range(front)
  BY <1>1, <1>2, DropSpec
<1>5. scheduled_seqs' = scheduled_seqs
  BY <1>3 DEF preempt, stepVars
<1>6. active = scheduled_seqs \o running /\ active' = scheduled_seqs \o front
  BY <1>2, <1>3, <1>5 DEF active
<1> HIDE DEF front, s
<1>7. /\ IsInjective(active)
      /\ IsInjective(scheduled_seqs) /\ IsInjective(running)
      /\ Range(scheduled_seqs) \cap Range(running) = {}
      /\ Range(active) = Range(scheduled_seqs) \cup Range(running)
  BY <1>1, <1>6, JoinSpec DEF QInv, QueuesInv
<1>8. /\ IsInjective(active') /\ Range(active') = Range(scheduled_seqs) \cup Range(front)
  BY <1>1, <1>4, <1>6, <1>7, JoinSpec
<1>9. s \in Range(active) /\ Range(active') = Range(active) \ {s}
  BY <1>4, <1>7, <1>8
<1>10. /\ QueuesInv' /\ mid_chunk_seq' = None
      /\ waiting' \in Seq(Seqs) /\ status' \in [Seqs -> Statuses]
      /\ num_cached_tokens' \in [Seqs -> Nat] /\ UNCHANGED <<token_ids, request>>
      /\ \A r \in Seqs :
           \/ status'[r] = status[r] /\ num_cached_tokens'[r] = num_cached_tokens[r]
           \/ status[r] \in {"WAITING", "RUNNING"} /\ status'[r] = "WAITING" /\ num_cached_tokens'[r] = 0
  BY <1>1, <1>2, <1>3, <1>4, <1>8, <1>9, PreemptQueues DEF QInv
<1>11. QueueTypes' /\ UNCHANGED <<scheduled_seqs, num_decodes, num_batched_tokens, row, targets, failures>>
  BY <1>1, <1>2, <1>3, <1>4, <1>10, PreemptTypes DEF QInv, QueueTypes
<1>12. TokensInv'
  BY <1>10, TokensStay DEF QInv
<1>13. BatchInv'
  BY <1>2, <1>11 DEF QInv, BatchInv, Batching
<1> QED BY <1>10, <1>11, <1>12, <1>13 DEF QInv

\* The decode rows go back in front of the deque.
LEMMA EndDecodeKeeps ==
  ASSUME QInv, EndDecode
  PROVE  QInv'
<1>1. /\ phase = "decode" /\ phase' = "prefill" /\ running' = scheduled_seqs \o running
      /\ num_decodes' = Len(scheduled_seqs) /\ num_batched_tokens' = Len(scheduled_seqs)
      /\ UNCHANGED <<token_ids, num_cached_tokens, request, status, num_scheduled_tokens, is_prefill,
                     waiting, mid_chunk_seq, scheduled_seqs, row, targets, failures>>
  BY DEF EndDecode, bmVars, reqVars, rowVars
<1>2. /\ running \in Seq(Seqs) /\ scheduled_seqs \in Seq(Seqs) /\ Len(scheduled_seqs) <= MaxNumSeqs
      /\ Len(scheduled_seqs) \in Nat
  BY DEF QInv, QueueTypes
<1>3. active = scheduled_seqs \o running /\ active' = active
  BY <1>1 DEF active
<1>4. /\ running' \in Seq(Seqs) /\ Range(running') = Range(scheduled_seqs) \cup Range(running)
      /\ IsInjective(scheduled_seqs)
  BY <1>1, <1>2, <1>3, JoinSpec DEF QInv, QueuesInv
<1>5. QueueTypes'
  <2>1. num_decodes' \in 0 .. MaxNumSeqs /\ num_batched_tokens' \in 0 .. MaxNumBatchedTokens
    BY <1>1, <1>2, Constants
  <2> QED BY <1>1, <1>4, <2>1 DEF QInv, QueueTypes, Phases
<1>6. QueuesInv'
  BY <1>1, <1>3, QueuesStay DEF QInv
<1>7. TokensInv'
  BY <1>1, TokensStay DEF QInv
<1>8. BatchInv'
  <2>1. row = 0
    BY <1>1 DEF QInv, BatchInv
  <2>2. \A i \in 1 .. Len(scheduled_seqs) : scheduled_seqs[i] \in Range(running')
    BY <1>2, <1>4, RangeIs
  <2> QED BY <1>1, <1>4, <2>1, <2>2 DEF BatchInv, RowInv, Batching
<1> QED BY <1>5, <1>6, <1>7, <1>8 DEF QInv

\* While prefill has budget left, no row of the batch is a cut-off chunk.
LEMMA RowsRunning ==
  ASSUME QInv, Prefilling
  PROVE  /\ row = 0 /\ phase = "prefill" /\ active = running
         /\ IsInjective(scheduled_seqs)
         /\ Range(scheduled_seqs) \subseteq Range(running)
<1>1. phase = "prefill" /\ remaining > 0
  BY DEF Prefilling
<1>2. row = 0 /\ IsInjective(scheduled_seqs)
      /\ \A i \in 1 .. Len(scheduled_seqs) : i >= row => RowInv(i)
  BY <1>1 DEF QInv, BatchInv, Batching
<1>3. remaining # 0
  BY <1>1, Constants DEF QInv, QueueTypes, remaining
<1>4. \A i \in 1 .. Len(scheduled_seqs) : scheduled_seqs[i] \in Range(running)
  <2> TAKE i \in 1 .. Len(scheduled_seqs)
  <2>1. i >= row
    BY <1>2
  <2> QED BY <1>1, <1>2, <1>3, <2>1 DEF RowInv
<1>5. scheduled_seqs \in Seq(Seqs)
  BY DEF QInv, QueueTypes
<1> QED BY <1>1, <1>2, <1>4, <1>5, RangeIs DEF active

\* The waiting head gets a chunk, and the running queue if the chunk is its last.
LEMMA ChunkKeeps ==
  ASSUME QInv, Prefilling, NEW s, s = Head(waiting), NEW work \in Nat \ {0},
         token_ids' = token_ids, num_cached_tokens' \in [Seqs -> Nat],
         \A r \in Seqs \ {s} : num_cached_tokens'[r] = num_cached_tokens[r],
         num_cached_tokens'[s] + work = Len(token_ids[s]),
         ScheduleChunk(s, work)
  PROVE  QInv'
<1>1. /\ waiting # <<>> /\ Len(scheduled_seqs) < MaxNumSeqs
      /\ remaining > 0 /\ remaining = MaxNumBatchedTokens - num_batched_tokens
  BY DEF Prefilling, remaining
<1>2. /\ waiting \in Seq(Seqs) /\ running \in Seq(Seqs) /\ scheduled_seqs \in Seq(Seqs)
      /\ status \in [Seqs -> Statuses] /\ num_batched_tokens \in 0 .. MaxNumBatchedTokens
      /\ num_scheduled_tokens \in [Seqs -> 0 .. MaxNumBatchedTokens]
      /\ token_ids \in [Seqs -> Seq(Token)]
  BY DEF QInv, QueueTypes
<1>3. /\ row = 0 /\ phase = "prefill" /\ active = running /\ IsInjective(scheduled_seqs)
      /\ Range(scheduled_seqs) \subseteq Range(running)
  BY RowsRunning
<1>4. /\ s \in Seqs /\ s \in Range(waiting) /\ Tail(waiting) \in Seq(Seqs)
      /\ Range(waiting) = Range(Tail(waiting)) \cup {s}
      /\ IsInjective(waiting) => IsInjective(Tail(waiting)) /\ s \notin Range(Tail(waiting))
  BY <1>1, <1>2, PopSpec
<1>5. /\ IsInjective(waiting) /\ IsInjective(running) /\ Range(waiting) \cap Range(running) = {}
      /\ \A r \in Seqs : /\ r \in Range(waiting) <=> status[r] = "WAITING"
                         /\ r \in Range(running) <=> status[r] = "RUNNING"
      /\ mid_chunk_seq # None => Head(waiting) = mid_chunk_seq
  BY <1>3 DEF QInv, QueuesInv, Leaving
<1>6. s \notin Range(running) /\ s \notin Range(scheduled_seqs) /\ status[s] = "WAITING"
  BY <1>3, <1>4, <1>5
<1> DEFINE chunk == Smaller(work, remaining)
<1>7. /\ chunk \in Nat \ {0} /\ chunk <= work /\ chunk <= MaxNumBatchedTokens
      /\ num_batched_tokens + chunk <= MaxNumBatchedTokens
      /\ chunk < work => chunk = remaining
  BY <1>1, <1>2, Constants DEF Smaller
<1>8. /\ num_scheduled_tokens' = [num_scheduled_tokens EXCEPT ![s] = chunk]
      /\ num_batched_tokens' = num_batched_tokens + chunk
      /\ scheduled_seqs' = Append(scheduled_seqs, s)
      /\ UNCHANGED <<request, is_prefill, num_decodes, row, phase, targets, failures>>
      /\ \/ /\ chunk = work
            /\ mid_chunk_seq' = MarkWithout(s)
            /\ status' = [status EXCEPT ![s] = "RUNNING"]
            /\ waiting' = Tail(waiting)
            /\ running' = Append(running, s)
         \/ /\ chunk < work
            /\ mid_chunk_seq' = s
            /\ UNCHANGED <<status, waiting, running>>
  BY DEF ScheduleChunk
<1> HIDE DEF chunk
<1>9. /\ scheduled_seqs' \in Seq(Seqs) /\ Len(scheduled_seqs') = Len(scheduled_seqs) + 1
      /\ IsInjective(scheduled_seqs') /\ Range(scheduled_seqs') = Range(scheduled_seqs) \cup {s}
  <2>1. /\ Append(scheduled_seqs, s) \in Seq(Seqs)
        /\ Len(Append(scheduled_seqs, s)) = Len(scheduled_seqs) + 1
        /\ Range(Append(scheduled_seqs, s)) = Range(scheduled_seqs) \cup {s}
    BY <1>2, <1>4, PushSpec
  <2>2. IsInjective(Append(scheduled_seqs, s))
    BY <1>2, <1>3, <1>4, <1>6, PushSpec
  <2> QED BY <1>8, <2>1, <2>2
<1>10. /\ num_scheduled_tokens' \in [Seqs -> 0 .. MaxNumBatchedTokens]
       /\ num_batched_tokens' \in 0 .. MaxNumBatchedTokens
       /\ Len(scheduled_seqs') <= MaxNumSeqs
       /\ num_scheduled_tokens'[s] = chunk
  <2>1. chunk \in 0 .. MaxNumBatchedTokens
    BY <1>7, Constants
  <2>2. num_scheduled_tokens' \in [Seqs -> 0 .. MaxNumBatchedTokens] /\ num_scheduled_tokens'[s] = chunk
    BY <1>2, <1>4, <1>8, <2>1
  <2>3. num_batched_tokens' \in 0 .. MaxNumBatchedTokens
    BY <1>2, <1>7, <1>8, Constants
  <2>4. Len(scheduled_seqs') <= MaxNumSeqs
    BY <1>1, <1>2, <1>9, Constants
  <2> QED BY <2>2, <2>3, <2>4
<1>11. active' = running' /\ (\A r : ~Leaving(r)') /\ row' = 0 /\ phase' = "prefill"
  BY <1>3, <1>8 DEF active, Leaving
<1>12. CASE chunk = work
  <2>1. /\ mid_chunk_seq' = MarkWithout(s)
        /\ status' = [status EXCEPT ![s] = "RUNNING"]
        /\ waiting' = Tail(waiting)
        /\ running' = Append(running, s)
    BY <1>7, <1>8, <1>12
  <2>2. running' \in Seq(Seqs) /\ Range(running') = Range(running) \cup {s} /\ IsInjective(running')
    <3>1. Append(running, s) \in Seq(Seqs) /\ Range(Append(running, s)) = Range(running) \cup {s}
      BY <1>2, <1>4, PushSpec
    <3>2. IsInjective(Append(running, s))
      BY <1>2, <1>4, <1>5, <1>6, PushSpec
    <3> QED BY <2>1, <3>1, <3>2
  <2>3. \A r \in Seqs : status'[r] = IF r = s THEN "RUNNING" ELSE status[r]
    BY <1>2, <2>1
  <2>4. mid_chunk_seq' = None
    BY <1>5, <2>1 DEF MarkWithout
  <2>5. QueueTypes'
    <3>1. status' \in [Seqs -> Statuses]
      BY <1>2, <2>1 DEF Statuses
    <3> QED BY <1>4, <1>8, <1>9, <1>10, <2>1, <2>2, <2>4, <3>1 DEF QInv, QueueTypes
  <2>6. QueuesInv'
    <3>1. IsInjective(waiting') /\ Range(waiting') = Range(waiting) \ {s}
      BY <1>4, <1>5, <2>1
    <3>2. IsInjective(active') /\ Range(waiting') \cap Range(active') = {}
      BY <1>5, <1>11, <2>2, <3>1
    <3>3. \A r \in Seqs : /\ r \in Range(waiting') <=> status'[r] = "WAITING"
                          /\ r \in Range(active') <=> (status'[r] = "RUNNING" \/ Leaving(r)')
                          /\ Leaving(r)' => status'[r] = "FINISHED"
      BY <1>5, <1>11, <2>2, <2>3, <3>1
    <3> QED BY <1>11, <2>4, <3>1, <3>2, <3>3 DEF QueuesInv
  <2>7. TokensInv'
    BY <1>6, <1>8, <2>3, TokensStay DEF QInv
  <2>8. BatchInv'
    <3>1. \A i \in 1 .. Len(scheduled_seqs') : scheduled_seqs'[i] \in Range(running')
      BY <1>3, <1>9, <2>2, RangeIs
    <3> QED BY <1>9, <1>11, <3>1 DEF BatchInv, RowInv, Batching
  <2> QED BY <2>5, <2>6, <2>7, <2>8 DEF QInv
<1>13. CASE chunk < work
  <2>1. mid_chunk_seq' = s /\ UNCHANGED <<status, waiting, running>>
    BY <1>7, <1>8, <1>13
  <2>2. QueueTypes'
    BY <1>4, <1>8, <1>9, <1>10, <2>1 DEF QInv, QueueTypes
  <2>3. QueuesInv'
    <3>1. mid_chunk_seq' # None => waiting' # <<>> /\ Head(waiting') = mid_chunk_seq'
      BY <1>1, <2>1
    <3>2. \A r \in Seqs : /\ r \in Range(waiting') <=> status'[r] = "WAITING"
                          /\ r \in Range(active') <=> (status'[r] = "RUNNING" \/ Leaving(r)')
                          /\ Leaving(r)' => status'[r] = "FINISHED"
      BY <1>5, <1>11, <2>1
    <3>3. IsInjective(waiting') /\ IsInjective(active') /\ Range(waiting') \cap Range(active') = {}
      BY <1>5, <1>11, <2>1
    <3> QED BY <1>11, <3>1, <3>2, <3>3 DEF QueuesInv
  <2>4. num_cached_tokens'[s] < Len(token_ids[s])
    BY <1>2, <1>4
  <2>5. TokensInv'
    BY <1>6, <1>8, <2>1, <2>4, TokensStay DEF QInv
  <2>6. BatchInv'
    <3>1. num_cached_tokens'[s] + num_scheduled_tokens'[s] < Len(token_ids'[s])
      <4>1. num_cached_tokens'[s] \in Nat /\ Len(token_ids[s]) \in Nat
        BY <1>2, <1>4
      <4> QED BY <1>7, <1>10, <1>13, <4>1
    <3>2. remaining' = 0
      <4>1. remaining' = MaxNumBatchedTokens - num_batched_tokens'
        BY DEF remaining
      <4> QED BY <1>1, <1>2, <1>7, <1>8, <1>13, <4>1, Constants
    <3>3. ASSUME NEW i \in 1 .. Len(scheduled_seqs') PROVE RowInv(i)'
      <4>1. scheduled_seqs'[i] \in Range(running') \/ scheduled_seqs'[i] = s
        BY <1>3, <1>9, <2>1, RangeIs
      <4> QED BY <1>11, <2>1, <3>1, <3>2, <4>1 DEF RowInv
    <3> QED BY <1>9, <1>11, <3>3 DEF BatchInv, Batching
  <2> QED BY <2>2, <2>3, <2>5, <2>6 DEF QInv
<1> QED BY <1>7, <1>8, <1>12, <1>13

\* A sequence that is waiting has tokens left to compute.
LEMMA WaitingHead ==
  ASSUME QInv, Prefilling
  PROVE  LET s == Head(waiting)
         IN  /\ s \in Seqs /\ s \in Range(waiting)
             /\ token_ids[s] \in Seq(Token) /\ token_ids[s] # <<>>
             /\ num_cached_tokens[s] \in Nat
             /\ num_cached_tokens[s] < Len(token_ids[s])
<1> DEFINE s == Head(waiting)
<1>1. waiting # <<>> /\ waiting \in Seq(Seqs)
  BY DEF Prefilling, QInv, QueueTypes
<1>2. s \in Seqs /\ s \in Range(waiting)
  BY <1>1, PopSpec
<1>3. status[s] = "WAITING"
  BY <1>2 DEF QInv, QueuesInv
<1>4. num_cached_tokens[s] < Len(token_ids[s])
  BY <1>2, <1>3 DEF QInv, TokensInv
<1>5. token_ids[s] \in Seq(Token) /\ num_cached_tokens[s] \in Nat
  BY <1>2 DEF QInv, QueueTypes
<1>6. token_ids[s] # <<>>
  BY <1>4, <1>5, EmptySeq
<1> QED BY <1>2, <1>4, <1>5, <1>6

\* Admission of a waiting sequence.
LEMMA AdmitKeeps ==
  ASSUME QInv, AdmitPrefill
  PROVE  QInv'
<1> DEFINE s == Head(waiting)
           cached == BM!num_cached_blocks(s)
           work == BM!num_tokens(s) - cached * BlockSize
<1>1. /\ Prefilling /\ ScheduleChunk(s, work)
      /\ BM!allocate_incremental(s, cached, cached * BlockSize + Smaller(work, remaining))
  BY DEF AdmitPrefill
<1>2. s \in Seqs /\ token_ids[s] \in Seq(Token) /\ token_ids[s] # <<>>
  BY <1>1, WaitingHead
<1>3. cached * BlockSize \in Nat /\ cached * BlockSize < BM!num_tokens(s)
  BY <1>2, CachedBlocks
<1>4. BM!num_tokens(s) = Len(token_ids[s]) /\ Len(token_ids[s]) \in Nat
  BY <1>2 DEF BM!num_tokens
<1>5. /\ token_ids' = token_ids
      /\ num_cached_tokens' = [num_cached_tokens EXCEPT ![s] = cached * BlockSize]
  BY <1>1, AllocateEffect
<1> HIDE DEF s, cached
<1>6. work \in Nat \ {0} /\ cached * BlockSize + work = Len(token_ids[s])
  BY <1>3, <1>4
<1>7. num_cached_tokens \in [Seqs -> Nat]
  BY DEF QInv, QueueTypes
<1>8. /\ num_cached_tokens' \in [Seqs -> Nat] /\ num_cached_tokens'[s] = cached * BlockSize
      /\ \A r \in Seqs \ {s} : num_cached_tokens'[r] = num_cached_tokens[r]
  BY <1>2, <1>3, <1>5, <1>7
<1> HIDE DEF work
<1>9. num_cached_tokens'[s] + work = Len(token_ids[s])
  BY <1>6, <1>8
<1>10. s = Head(waiting)
  BY DEF s
<1> QED BY <1>1, <1>5, <1>6, <1>8, <1>9, <1>10, ChunkKeeps

\* The next chunk of the partial prefill.
LEMMA ContinueKeeps ==
  ASSUME QInv, ContinuePrefill
  PROVE  QInv'
<1> DEFINE s == Head(waiting)
           work == BM!num_tokens(s) - num_cached_tokens[s]
           through == num_cached_tokens[s] + Smaller(work, remaining)
<1>1. Prefilling /\ ScheduleChunk(s, work) /\ BM!extend(s, through)
  BY DEF ContinuePrefill
<1>2. /\ s \in Seqs /\ token_ids[s] \in Seq(Token)
      /\ num_cached_tokens[s] \in Nat /\ num_cached_tokens[s] < Len(token_ids[s])
  BY <1>1, WaitingHead
<1>3. UNCHANGED <<token_ids, num_cached_tokens>>
  BY <1>1, GrowthEffect
<1>4. BM!num_tokens(s) = Len(token_ids[s]) /\ Len(token_ids[s]) \in Nat
  BY <1>2 DEF BM!num_tokens
<1> HIDE DEF s
<1>5. work \in Nat \ {0} /\ num_cached_tokens[s] + work = Len(token_ids[s])
  BY <1>2, <1>4
<1>6. num_cached_tokens' \in [Seqs -> Nat]
  BY <1>3 DEF QInv, QueueTypes
<1> HIDE DEF work, through
<1>7. s = Head(waiting)
  BY DEF s
<1> QED BY <1>1, <1>3, <1>5, <1>6, <1>7, ChunkKeeps

\* The partial prefill that finds no room goes to the tail.
LEMMA RequeueKeeps ==
  ASSUME QInv, RequeuePrefill
  PROVE  QInv'
<1> DEFINE s == Head(waiting)
<1>1. /\ Prefilling /\ preempt(s, Tail(waiting))
      /\ num_scheduled_tokens' = [num_scheduled_tokens EXCEPT ![s] = 0]
      /\ phase' \in {"run", "prefill"} /\ running' = running
      /\ phase' = "run" => scheduled_seqs # <<>>
  BY DEF RequeuePrefill
<1>2. waiting # <<>> /\ waiting \in Seq(Seqs) /\ running \in Seq(Seqs)
  BY <1>1 DEF QInv, QueueTypes, Prefilling
<1>3. s \in Seqs /\ Tail(waiting) \in Seq(Seqs)
  BY <1>2, PopSpec
<1>4. /\ row = 0 /\ phase = "prefill" /\ active = running /\ IsInjective(scheduled_seqs)
      /\ Range(scheduled_seqs) \subseteq Range(running)
  BY <1>1, RowsRunning
<1>5. active' = active
  BY <1>1, <1>4 DEF active
<1>6. /\ QueuesInv' /\ mid_chunk_seq' = None
      /\ waiting' \in Seq(Seqs) /\ status' \in [Seqs -> Statuses]
      /\ num_cached_tokens' \in [Seqs -> Nat] /\ UNCHANGED <<token_ids, request>>
      /\ \A r \in Seqs :
           \/ status'[r] = status[r] /\ num_cached_tokens'[r] = num_cached_tokens[r]
           \/ status[r] \in {"WAITING", "RUNNING"} /\ status'[r] = "WAITING" /\ num_cached_tokens'[r] = 0
  BY <1>1, <1>2, <1>3, <1>4, <1>5, PreemptQueues DEF QInv
<1>7. num_scheduled_tokens' \in [Seqs -> 0 .. MaxNumBatchedTokens]
  <2>1. 0 \in 0 .. MaxNumBatchedTokens
    BY Constants
  <2> QED BY <1>1, <1>3, <2>1 DEF QInv, QueueTypes
<1>8. QueueTypes' /\ UNCHANGED <<scheduled_seqs, num_decodes, num_batched_tokens, row, targets, failures>>
  <2>1. phase' \in Phases
    BY <1>1 DEF Phases
  <2> QED BY <1>1, <1>2, <1>3, <1>6, <1>7, <2>1, PreemptTypes DEF QInv
<1>9. TokensInv'
  BY <1>6, TokensStay DEF QInv
<1>10. BatchInv'
  <2>1. \A i \in 1 .. Len(scheduled_seqs) : scheduled_seqs[i] \in Range(running)
    BY <1>4, RangeIs DEF QInv, QueueTypes
  <2> QED BY <1>1, <1>4, <1>8, <2>1 DEF BatchInv, RowInv, Batching
<1> QED BY <1>6, <1>8, <1>9, <1>10 DEF QInv

\* schedule() returns its batch or raises.
LEMMA EndPrefillKeeps ==
  ASSUME QInv, EndPrefill
  PROVE  QInv'
<1>1. /\ phase = "prefill" /\ phase' \in {"run", "failed"}
      /\ phase' = "run" => scheduled_seqs # <<>>
      /\ UNCHANGED <<token_ids, num_cached_tokens, request, status, num_scheduled_tokens, is_prefill,
                     waiting, running, mid_chunk_seq, scheduled_seqs, num_decodes, num_batched_tokens,
                     row, targets, failures>>
  BY DEF EndPrefill, bmVars, reqVars, rowVars, queueVars, stepVars
<1>2. QueueTypes'
  BY <1>1 DEF QInv, QueueTypes, Phases
<1>3. active' = active
  BY <1>1 DEF active
<1>4. QueuesInv'
  BY <1>1, <1>3, QueuesStay DEF QInv
<1>5. TokensInv'
  BY <1>1, TokensStay DEF QInv
<1>6. BatchInv'
  BY <1>1 DEF QInv, BatchInv, RowInv, Batching
<1> QED BY <1>2, <1>4, <1>5, <1>6 DEF QInv

-----------------------------------------------------------------------------
(* run() and postprocess() *)

\* The forward pass moves no sequence, whether it returns or raises.
LEMMA RunKeeps ==
  ASSUME QInv, Run \/ RunFails
  PROVE  QInv'
<1>1. /\ phase = "run"
      /\ UNCHANGED <<token_ids, num_cached_tokens, request, status, num_scheduled_tokens, is_prefill,
                     waiting, running, mid_chunk_seq, scheduled_seqs, num_decodes, num_batched_tokens,
                     targets>>
  <2>1. UNCHANGED <<token_ids, num_cached_tokens>>
    BY StoreEffect DEF Run, RunFails
  <2> QED BY <2>1 DEF Run, RunFails, reqVars, rowVars, queueVars, stepVars
<1>2. active' = active /\ phase' \in {"commit", "failed"}
  BY <1>1 DEF active, Run, RunFails
<1>3. QueuesInv' /\ TokensInv'
  BY <1>1, <1>2, QueuesStay, TokensStay DEF QInv
<1>4. CASE Run
  <2>1. phase' = "commit" /\ row' = 1 /\ failures' = failures
    BY <1>4 DEF Run
  <2>2. QueueTypes'
    <3>1. 1 \in 0 .. MaxNumSeqs
      BY Constants
    <3> QED BY <1>1, <2>1, <3>1 DEF QInv, QueueTypes, Phases
  <2>3. /\ row = 0 /\ IsInjective(scheduled_seqs)
        /\ \A i \in 1 .. Len(scheduled_seqs) : i >= row => RowInv(i)
    BY <1>1 DEF QInv, BatchInv, Batching
  <2>4. \A i \in 1 .. Len(scheduled_seqs) : RowInv(i)'
    BY <1>1, <2>1, <2>3 DEF RowInv
  <2>5. 1 \in 1 .. Len(scheduled_seqs)
    <3>1. scheduled_seqs # <<>> /\ scheduled_seqs \in Seq(Seqs)
      BY <1>1 DEF QInv, BatchInv, QueueTypes
    <3> QED BY <3>1, EmptySeq
  <2> QED BY <1>1, <1>3, <2>1, <2>2, <2>3, <2>4, <2>5 DEF QInv, BatchInv, Batching
<1>5. CASE RunFails
  <2>1. phase' = "failed" /\ failures' = failures + 1 /\ failures < MaxFailures /\ row' = row
    BY <1>5 DEF RunFails, stepVars
  <2>2. QueueTypes'
    <3>1. failures' \in 0 .. MaxFailures
      BY <2>1, SchedulerAssumption DEF QInv, QueueTypes, SchedulerAssumption
    <3> QED BY <1>1, <2>1, <3>1 DEF QInv, QueueTypes, Phases
  <2> QED BY <1>3, <2>1, <2>2, NoBatch DEF QInv
<1> QED BY <1>4, <1>5

\* The step after which a postprocess row is done: the next row, or the end.
LEMMA AdvanceKeeps ==
  ASSUME QueueTypes, BatchInv, phase \in {"commit", "emit", "finish"}, NextRow,
         \A i \in 1 .. Len(scheduled_seqs) :
           i > row => \/ scheduled_seqs[i] \in Range(running')
                      \/ /\ scheduled_seqs[i] = mid_chunk_seq'
                         /\ num_cached_tokens'[mid_chunk_seq'] + num_scheduled_tokens'[mid_chunk_seq']
                              < Len(token_ids'[mid_chunk_seq'])
  PROVE  /\ BatchInv'
         /\ phase' \in {"commit", "idle"}
         /\ row' \in 0 .. MaxNumSeqs
         /\ scheduled_seqs' \in Seq(Seqs) /\ Len(scheduled_seqs') <= MaxNumSeqs
<1>1. /\ scheduled_seqs \in Seq(Seqs) /\ Len(scheduled_seqs) \in Nat
      /\ Len(scheduled_seqs) <= MaxNumSeqs /\ row \in 1 .. Len(scheduled_seqs)
      /\ IsInjective(scheduled_seqs)
  <2>1. scheduled_seqs \in Seq(Seqs) /\ Len(scheduled_seqs) <= MaxNumSeqs
    BY DEF QueueTypes
  <2>2. row \in 1 .. Len(scheduled_seqs) /\ IsInjective(scheduled_seqs)
    BY DEF BatchInv, Batching
  <2> QED BY <2>1, <2>2, LenProperties
<1>2. CASE row < Len(scheduled_seqs)
  <2>1. phase' = "commit" /\ row' = row + 1 /\ scheduled_seqs' = scheduled_seqs
    BY <1>2 DEF NextRow
  <2>2. row' \in 1 .. Len(scheduled_seqs) /\ row' \in 0 .. MaxNumSeqs
    BY <1>1, <1>2, <2>1, Constants
  <2>3. ASSUME NEW i \in 1 .. Len(scheduled_seqs), i >= row' PROVE RowInv(i)'
    <3>1. i > row
      BY <1>1, <2>1, <2>3
    <3> QED BY <2>1, <3>1 DEF RowInv
  <2> QED BY <1>1, <2>1, <2>2, <2>3 DEF BatchInv, Batching
<1>3. CASE ~(row < Len(scheduled_seqs))
  <2>1. phase' = "idle" /\ row' = 0 /\ scheduled_seqs' = <<>>
    BY <1>3 DEF NextRow
  <2>2. BatchInv'
    BY <2>1, NoBatch
  <2> QED BY <2>1, <2>2, Constants, EmptySeq
<1> QED BY <1>2, <1>3

\* The current row: a running sequence, or the chunk that was cut off.
LEMMA CurrentRow ==
  ASSUME QInv, phase \in {"commit", "emit", "finish"}
  PROVE  LET s == scheduled_seqs[row]
         IN  /\ row \in 1 .. Len(scheduled_seqs) /\ s \in Seqs /\ RowInv(row)
             /\ active = running
             /\ phase \in {"emit", "finish"} => s \in Range(running)
             /\ \A i \in 1 .. Len(scheduled_seqs) : i > row => scheduled_seqs[i] # s /\ RowInv(i)
<1>1. /\ row \in 1 .. Len(scheduled_seqs) /\ IsInjective(scheduled_seqs)
      /\ \A i \in 1 .. Len(scheduled_seqs) : i >= row => RowInv(i)
  BY DEF QInv, BatchInv, Batching
<1>2. /\ scheduled_seqs \in Seq(Seqs) /\ Len(scheduled_seqs) \in Nat
      /\ DOMAIN scheduled_seqs = 1 .. Len(scheduled_seqs)
  BY LenProperties DEF QInv, QueueTypes
<1>3. scheduled_seqs[row] \in Seqs
  BY <1>1, <1>2, ElementOfSeq
<1>4. RowInv(row)
  BY <1>1, <1>2
<1>5. phase \in {"emit", "finish"} => scheduled_seqs[row] \in Range(running)
  BY <1>4 DEF RowInv
<1>6. \A i \in 1 .. Len(scheduled_seqs) : i > row => scheduled_seqs[i] # scheduled_seqs[row] /\ RowInv(i)
  <2> SUFFICES ASSUME NEW i \in 1 .. Len(scheduled_seqs), i > row
               PROVE  scheduled_seqs[i] # scheduled_seqs[row] /\ RowInv(i)
    OBVIOUS
  <2>1. i >= row /\ i # row /\ i \in DOMAIN scheduled_seqs /\ row \in DOMAIN scheduled_seqs
    BY <1>1, <1>2
  <2> QED BY <1>1, <2>1 DEF IsInjective
<1>7. active = running
  BY DEF active
<1> QED BY <1>1, <1>3, <1>4, <1>5, <1>6, <1>7

\* A sequence that runs is not the partial prefill.
LEMMA RunningIsNotMid ==
  ASSUME QInv, phase # "decode", NEW s \in Range(running)
  PROVE  /\ s # mid_chunk_seq
         /\ s \in Seqs /\ s \notin Range(waiting)
         /\ status[s] = "RUNNING" \/ (Leaving(s) /\ status[s] = "FINISHED")
<1>1. active = running /\ s \in Seqs
  BY RangeIs DEF active, QInv, QueueTypes
<1>2. s \notin Range(waiting) /\ (status[s] = "RUNNING" \/ (Leaving(s) /\ status[s] = "FINISHED"))
  BY <1>1 DEF QInv, QueuesInv
<1>3. s # mid_chunk_seq
  <2> SUFFICES ASSUME s = mid_chunk_seq PROVE FALSE
    OBVIOUS
  <2>1. s # None
    BY <1>1, Constants
  <2>2. waiting # <<>> /\ Head(waiting) = s /\ waiting \in Seq(Seqs)
    BY <2>1 DEF QInv, QueuesInv, QueueTypes
  <2> QED BY <1>2, <2>2, PopSpec
<1> QED BY <1>1, <1>2, <1>3

\* The partial prefill is waiting.
LEMMA MidIsWaiting ==
  ASSUME QInv, mid_chunk_seq # None
  PROVE  /\ mid_chunk_seq \in Seqs /\ mid_chunk_seq \in Range(waiting)
         /\ status[mid_chunk_seq] = "WAITING"
<1>1. waiting # <<>> /\ Head(waiting) = mid_chunk_seq /\ waiting \in Seq(Seqs)
  BY DEF QInv, QueuesInv, QueueTypes
<1>2. mid_chunk_seq \in Seqs /\ mid_chunk_seq \in Range(waiting)
  BY <1>1, PopSpec
<1> QED BY <1>2 DEF QInv, QueuesInv

\* A row's tokens are counted; a running row goes on to emit its token.
LEMMA CommitKeeps ==
  ASSUME QInv, CommitRow
  PROVE  QInv'
<1> DEFINE s == scheduled_seqs[row]
           n == num_scheduled_tokens[s]
<1>1. /\ phase = "commit"
      /\ token_ids' = token_ids
      /\ num_cached_tokens' = [num_cached_tokens EXCEPT ![s] = @ + n]
      /\ num_scheduled_tokens' = [num_scheduled_tokens EXCEPT ![s] = 0]
      /\ UNCHANGED <<request, status, is_prefill, waiting, running, mid_chunk_seq>>
      /\ UNCHANGED <<num_decodes, num_batched_tokens, targets, failures>>
      /\ IF num_cached_tokens[s] + n < Len(token_ids[s])
         THEN NextRow
         ELSE phase' = "emit" /\ UNCHANGED <<row, scheduled_seqs>>
  BY CommitEffect DEF CommitRow, reqVars, queueVars, BM!num_tokens
<1>2. /\ row \in 1 .. Len(scheduled_seqs) /\ s \in Seqs /\ RowInv(row) /\ active = running
      /\ \A i \in 1 .. Len(scheduled_seqs) : i > row => scheduled_seqs[i] # s /\ RowInv(i)
  BY <1>1, CurrentRow
<1>3. /\ num_cached_tokens \in [Seqs -> Nat] /\ num_scheduled_tokens \in [Seqs -> 0 .. MaxNumBatchedTokens]
      /\ status \in [Seqs -> Statuses]
  BY DEF QInv, QueueTypes
<1>4. n \in Nat /\ n \in 0 .. MaxNumBatchedTokens
  <2>1. n \in 0 .. MaxNumBatchedTokens
    BY <1>2, <1>3
  <2> HIDE DEF n
  <2> QED BY <2>1, Constants
<1> HIDE DEF n
<1>5. /\ num_cached_tokens' \in [Seqs -> Nat]
      /\ num_cached_tokens'[s] = num_cached_tokens[s] + n
      /\ \A r \in Seqs \ {s} : num_cached_tokens'[r] = num_cached_tokens[r]
  BY <1>1, <1>2, <1>3, <1>4
<1>6. /\ num_scheduled_tokens' \in [Seqs -> 0 .. MaxNumBatchedTokens]
      /\ \A r \in Seqs \ {s} : num_scheduled_tokens'[r] = num_scheduled_tokens[r]
  <2>1. 0 \in 0 .. MaxNumBatchedTokens
    BY Constants
  <2> QED BY <1>1, <1>2, <1>3, <2>1
<1>7. \/ s \in Range(running) /\ status[s] = "RUNNING"
      \/ s = mid_chunk_seq /\ status[s] = "WAITING" /\ num_cached_tokens[s] + n < Len(token_ids[s])
  <2>1. CASE s \in Range(running)
    <3>1. status[s] = "RUNNING" \/ Leaving(s)
      BY <1>1, <2>1, RunningIsNotMid
    <3> QED BY <1>1, <2>1, <3>1 DEF Leaving
  <2>2. CASE s # None /\ s = mid_chunk_seq /\ num_cached_tokens[s] + n < Len(token_ids[s])
    BY <2>2, MidIsWaiting
  <2> QED BY <1>2, <2>1, <2>2, Constants DEF RowInv, n
<1>8. ASSUME NEW i \in 1 .. Len(scheduled_seqs), i > row
      PROVE  \/ scheduled_seqs[i] \in Range(running')
             \/ /\ scheduled_seqs[i] = mid_chunk_seq'
                /\ num_cached_tokens'[mid_chunk_seq'] + num_scheduled_tokens'[mid_chunk_seq']
                     < Len(token_ids'[mid_chunk_seq'])
  <2>1. RowInv(i) /\ scheduled_seqs[i] # s
    BY <1>2, <1>8
  <2>2. scheduled_seqs[i] \in Seqs
    BY ElementOfSeq DEF QInv, QueueTypes
  <2> HIDE DEF s
  <2>3. CASE scheduled_seqs[i] \in Range(running)
    BY <1>1, <2>3
  <2>4. CASE scheduled_seqs[i] = mid_chunk_seq
             /\ num_cached_tokens[mid_chunk_seq] + num_scheduled_tokens[mid_chunk_seq]
                  < Len(token_ids[mid_chunk_seq])
    BY <1>1, <1>5, <1>6, <2>1, <2>2, <2>4
  <2> QED BY <2>1, <2>3, <2>4 DEF RowInv
<1>9. TokensInv'
  <2>1. \A r \in Seqs :
          \/ num_cached_tokens'[r] = num_cached_tokens[r]
          \/ status[r] = "WAITING" /\ num_cached_tokens'[r] < Len(token_ids[r])
          \/ status[r] = "RUNNING"
    BY <1>5, <1>7
  <2> QED BY <1>1, <2>1, TokensStay DEF QInv
<1>10. /\ phase' \in {"commit", "idle", "emit"} /\ BatchInv'
       /\ row' \in 0 .. MaxNumSeqs
       /\ scheduled_seqs' \in Seq(Seqs) /\ Len(scheduled_seqs') <= MaxNumSeqs
  <2>1. CASE num_cached_tokens[s] + n < Len(token_ids[s])
    BY <1>1, <1>8, <2>1, AdvanceKeeps DEF QInv
  <2>2. CASE ~(num_cached_tokens[s] + n < Len(token_ids[s]))
    <3>1. phase' = "emit" /\ UNCHANGED <<row, scheduled_seqs>> /\ s \in Range(running)
      BY <1>1, <1>7, <2>2
    <3>2. IsInjective(scheduled_seqs)
      BY <1>1 DEF QInv, BatchInv, Batching
    <3>3. ASSUME NEW i \in 1 .. Len(scheduled_seqs), i >= row PROVE RowInv(i)'
      <4>1. CASE i = row
        BY <1>1, <3>1, <4>1 DEF RowInv
      <4>2. CASE i > row
        <5>1. i # row
          BY <1>2, <4>2
        <5> QED BY <1>8, <3>1, <4>2, <5>1 DEF RowInv
      <4>3. i = row \/ i > row
        BY <1>2, <3>3
      <4> QED BY <4>1, <4>2, <4>3
    <3>4. BatchInv'
      BY <1>2, <3>1, <3>2, <3>3 DEF BatchInv, Batching
    <3> QED BY <3>1, <3>4 DEF QInv, QueueTypes
  <2> QED BY <2>1, <2>2
<1>11. active' = active
  BY <1>1, <1>2, <1>10 DEF active
<1>12. QueuesInv'
  BY <1>1, <1>10, <1>11, QueuesStay DEF QInv
<1>13. QueueTypes'
  BY <1>1, <1>5, <1>6, <1>10 DEF QInv, QueueTypes, Phases
<1> QED BY <1>9, <1>10, <1>12, <1>13 DEF QInv

\* The number of tokens generated so far.
LEMMA CompletionLen ==
  ASSUME QInv, NEW s \in Seqs, status[s] # "NONE"
  PROVE  /\ Len(Completion(s)) = Len(token_ids[s]) - Len(request[s].prompt)
         /\ Len(token_ids[s]) \in Nat /\ Len(request[s].prompt) \in Nat \ {0}
         /\ request[s].max_tokens \in Nat \ {0}
         /\ Len(token_ids[s]) >= Len(request[s].prompt)
<1>1. /\ request[s] \in Requests /\ Len(token_ids[s]) >= Len(request[s].prompt)
      /\ token_ids[s] \in Seq(Token)
  BY DEF QInv, TokensInv, QueueTypes
<1>2. request[s].prompt \in Seq(Token) \ {<<>>} /\ request[s].max_tokens \in Nat \ {0}
  BY <1>1, Constants
<1>3. Len(request[s].prompt) \in Nat \ {0} /\ Len(token_ids[s]) \in Nat
  BY <1>1, <1>2, EmptySeq, LenProperties
<1> DEFINE m == Len(request[s].prompt)
           k == Len(token_ids[s])
<1>4. \A i \in m + 1 .. k : token_ids[s][i] \in Token
  BY <1>1, <1>3
<1>5. m \in Nat /\ k \in Nat /\ k >= m /\ Completion(s) = SubSeq(token_ids[s], m + 1, k)
  BY <1>1, <1>3 DEF Completion
<1>6. Len(Completion(s)) = k - m
  <2> HIDE DEF m, k
  <2>1. m + 1 \in Int /\ k \in Int
    BY <1>5
  <2>2. Len(Completion(s)) = IF m + 1 <= k THEN k - (m + 1) + 1 ELSE 0
    BY <1>4, <1>5, <2>1, SubSeqProperties
  <2> QED BY <1>5, <2>2
<1> QED BY <1>1, <1>2, <1>3, <1>6

\* A token is appended; the last one ends the request.
LEMMA EmitKeeps ==
  ASSUME QInv, NEW t \in Token, EmitToken(t)
  PROVE  QInv'
<1> DEFINE s == scheduled_seqs[row]
<1>1. /\ phase = "emit"
      /\ token_ids' = [token_ids EXCEPT ![s] = Append(@, t)]
      /\ num_cached_tokens' = num_cached_tokens
      /\ UNCHANGED <<request, num_scheduled_tokens, is_prefill, waiting, running, mid_chunk_seq>>
      /\ UNCHANGED <<num_decodes, num_batched_tokens, targets, failures>>
      /\ \/ /\ Finished(s, t)
            /\ status' = [status EXCEPT ![s] = "FINISHED"]
            /\ phase' = "finish"
            /\ UNCHANGED <<row, scheduled_seqs>>
         \/ /\ ~Finished(s, t)
            /\ NextRow
            /\ UNCHANGED status
  BY DEF EmitToken, BM!append_token, rowVars, queueVars
<1>2. /\ row \in 1 .. Len(scheduled_seqs) /\ s \in Seqs /\ s \in Range(running) /\ active = running
      /\ \A i \in 1 .. Len(scheduled_seqs) : i > row => scheduled_seqs[i] # s /\ RowInv(i)
  BY <1>1, CurrentRow
<1>3. s # mid_chunk_seq /\ status[s] = "RUNNING" /\ s \notin Range(waiting)
  BY <1>1, <1>2, RunningIsNotMid DEF Leaving
<1>4. token_ids \in [Seqs -> Seq(Token)] /\ status \in [Seqs -> Statuses] /\ scheduled_seqs \in Seq(Seqs)
  BY DEF QInv, QueueTypes
<1>5. /\ token_ids' \in [Seqs -> Seq(Token)]
      /\ Len(token_ids'[s]) = Len(token_ids[s]) + 1
      /\ \A r \in Seqs \ {s} : token_ids'[r] = token_ids[r]
  <2>1. Append(token_ids[s], t) \in Seq(Token) /\ Len(Append(token_ids[s], t)) = Len(token_ids[s]) + 1
    BY <1>2, <1>4, AppendProperties
  <2> QED BY <1>1, <1>2, <1>4, <2>1
<1>6. /\ Len(Completion(s)) = Len(token_ids[s]) - Len(request[s].prompt)
      /\ Len(token_ids[s]) \in Nat /\ Len(request[s].prompt) \in Nat \ {0}
      /\ request[s].max_tokens \in Nat \ {0}
      /\ Len(token_ids[s]) >= Len(request[s].prompt)
  BY <1>2, <1>3, CompletionLen
<1>7. ASSUME NEW i \in 1 .. Len(scheduled_seqs), i > row
      PROVE  \/ scheduled_seqs[i] \in Range(running')
             \/ /\ scheduled_seqs[i] = mid_chunk_seq'
                /\ num_cached_tokens'[mid_chunk_seq'] + num_scheduled_tokens'[mid_chunk_seq']
                     < Len(token_ids'[mid_chunk_seq'])
  <2>1. RowInv(i) /\ scheduled_seqs[i] # s /\ scheduled_seqs[i] \in Seqs
    BY <1>2, <1>4, <1>7, ElementOfSeq
  <2> HIDE DEF s
  <2>2. CASE scheduled_seqs[i] \in Range(running)
    BY <1>1, <2>2
  <2>3. CASE scheduled_seqs[i] = mid_chunk_seq
             /\ num_cached_tokens[mid_chunk_seq] + num_scheduled_tokens[mid_chunk_seq]
                  < Len(token_ids[mid_chunk_seq])
    BY <1>1, <1>5, <2>1, <2>3
  <2> QED BY <2>1, <2>2, <2>3 DEF RowInv
<1>8. /\ IsInjective(waiting) /\ IsInjective(running) /\ Range(waiting) \cap Range(running) = {}
      /\ \A r \in Seqs : /\ r \in Range(waiting) <=> status[r] = "WAITING"
                         /\ r \in Range(running) <=> status[r] = "RUNNING"
      /\ mid_chunk_seq # None => waiting # <<>> /\ Head(waiting) = mid_chunk_seq
  BY <1>1, <1>2 DEF QInv, QueuesInv, Leaving
<1>9. ASSUME status' \in [Seqs -> Statuses], \A r \in Seqs \ {s} : status'[r] = status[r],
             status'[s] \in {"RUNNING", "FINISHED"},
             status'[s] = "RUNNING" => Len(token_ids[s]) + 1 < Len(request[s].prompt) + request[s].max_tokens
      PROVE  TokensInv'
  <2> SUFFICES ASSUME NEW q \in Seqs
               PROVE  IF status'[q] = "NONE"
                      THEN /\ token_ids'[q] = <<>> /\ request[q].prompt = <<>>
                           /\ num_cached_tokens'[q] = 0
                      ELSE /\ request[q] \in Requests
                           /\ Admissible(request[q])
                           /\ Len(token_ids'[q]) >= Len(request[q].prompt)
                           /\ status'[q] \in {"WAITING", "RUNNING"} =>
                                Len(token_ids'[q]) < Len(request[q].prompt) + request[q].max_tokens
                           /\ status'[q] = "WAITING" => num_cached_tokens'[q] < Len(token_ids'[q])
    BY <1>1 DEF TokensInv, Admissible, BM!BlocksFor
  <2>1. CASE q = s
    <3>1. request[s] \in Requests /\ Admissible(request[s])
      BY <1>2, <1>3 DEF QInv, TokensInv
    <3> QED BY <1>5, <1>6, <1>9, <2>1, <3>1
  <2>2. CASE q # s
    <3>1. status'[q] = status[q] /\ token_ids'[q] = token_ids[q]
          /\ num_cached_tokens'[q] = num_cached_tokens[q]
      BY <1>1, <1>5, <1>9, <2>2
    <3> QED BY <3>1 DEF QInv, TokensInv
  <2> QED BY <2>1, <2>2
<1>10. CASE Finished(s, t) /\ phase' = "finish"
  <2>1. status' = [status EXCEPT ![s] = "FINISHED"] /\ UNCHANGED <<row, scheduled_seqs>>
    BY <1>1, <1>10
  <2>2. \A r \in Seqs : status'[r] = IF r = s THEN "FINISHED" ELSE status[r]
    BY <1>4, <2>1
  <2>3. status' \in [Seqs -> Statuses]
    BY <1>4, <2>1 DEF Statuses
  <2>4. QueueTypes'
    BY <1>1, <1>5, <1>10, <2>1, <2>3 DEF QInv, QueueTypes, Phases
  <2>5. TokensInv'
    BY <1>2, <1>9, <2>2, <2>3
  <2>6. active' = running /\ \A r : Leaving(r)' <=> r = s
    BY <1>1, <1>10, <2>1 DEF active, Leaving
  <2>7. QueuesInv'
    <3>1. \A r \in Seqs : /\ r \in Range(waiting') <=> status'[r] = "WAITING"
                          /\ r \in Range(active') <=> (status'[r] = "RUNNING" \/ Leaving(r)')
                          /\ Leaving(r)' => status'[r] = "FINISHED"
      BY <1>1, <1>2, <1>3, <1>8, <2>2, <2>6
    <3>2. IsInjective(waiting') /\ IsInjective(active') /\ Range(waiting') \cap Range(active') = {}
      BY <1>1, <1>8, <2>6
    <3>3. mid_chunk_seq' # None => waiting' # <<>> /\ Head(waiting') = mid_chunk_seq'
      BY <1>1, <1>8
    <3> QED BY <1>10, <3>1, <3>2, <3>3 DEF QueuesInv
  <2>8. BatchInv'
    <3>1. IsInjective(scheduled_seqs)
      BY <1>1 DEF QInv, BatchInv, Batching
    <3>2. ASSUME NEW i \in 1 .. Len(scheduled_seqs), i >= row PROVE RowInv(i)'
      <4>1. CASE i = row
        BY <1>1, <1>2, <2>1, <4>1 DEF RowInv
      <4>2. CASE i > row
        <5>1. i # row
          BY <1>2, <4>2
        <5> QED BY <1>7, <1>10, <2>1, <4>2, <5>1 DEF RowInv
      <4>3. i = row \/ i > row
        BY <1>2, <3>2
      <4> QED BY <4>1, <4>2, <4>3
    <3> QED BY <1>2, <1>10, <2>1, <3>1, <3>2 DEF BatchInv, Batching
  <2> QED BY <2>4, <2>5, <2>7, <2>8 DEF QInv
<1>11. CASE ~Finished(s, t) /\ NextRow /\ UNCHANGED status
  <2>1. /\ BatchInv' /\ phase' \in {"commit", "idle"} /\ row' \in 0 .. MaxNumSeqs
        /\ scheduled_seqs' \in Seq(Seqs) /\ Len(scheduled_seqs') <= MaxNumSeqs
    BY <1>1, <1>7, <1>11, AdvanceKeeps DEF QInv
  <2>2. QueueTypes'
    BY <1>1, <1>5, <1>11, <2>1 DEF QInv, QueueTypes, Phases
  <2>3. active' = active
    BY <1>1, <1>2, <2>1 DEF active
  <2>4. QueuesInv'
    BY <1>1, <1>11, <2>1, <2>3, QueuesStay DEF QInv
  <2>5. Len(token_ids[s]) + 1 < Len(request[s].prompt) + request[s].max_tokens
    <3>1. ~(Len(Completion(s)) + 1 >= request[s].max_tokens)
      BY <1>11 DEF Finished
    <3>2. PICK a \in Nat, b \in Nat, m \in Nat :
            a = Len(token_ids[s]) /\ b = Len(request[s].prompt) /\ m = request[s].max_tokens
      BY <1>6
    <3>3. ~(a - b + 1 >= m)
      BY <1>6, <3>1, <3>2
    <3>4. a + 1 < b + m
      BY <3>3
    <3> QED BY <3>2, <3>4
  <2>6. TokensInv'
    BY <1>3, <1>4, <1>9, <1>11, <2>5
  <2> QED BY <2>1, <2>2, <2>4, <2>6 DEF QInv
<1> QED BY <1>1, <1>10, <1>11

\* A finished sequence leaves the running queue.
LEMMA FinishKeeps ==
  ASSUME QInv, FinishRow
  PROVE  QInv'
<1> DEFINE s == scheduled_seqs[row]
<1>1. /\ phase = "finish"
      /\ token_ids' = token_ids
      /\ num_cached_tokens' = [num_cached_tokens EXCEPT ![s] = 0]
      /\ running' = Without(running, s)
      /\ NextRow
      /\ UNCHANGED <<request, status, num_scheduled_tokens, is_prefill, waiting, mid_chunk_seq>>
      /\ UNCHANGED <<num_decodes, num_batched_tokens, targets, failures>>
  BY ReleaseEffect DEF FinishRow, reqVars, rowVars
<1>2. /\ row \in 1 .. Len(scheduled_seqs) /\ s \in Seqs /\ s \in Range(running) /\ active = running
      /\ \A i \in 1 .. Len(scheduled_seqs) : i > row => scheduled_seqs[i] # s /\ RowInv(i)
  BY <1>1, CurrentRow
<1>3. s # mid_chunk_seq
  BY <1>1, <1>2, RunningIsNotMid
<1>4. /\ running \in Seq(Seqs) /\ scheduled_seqs \in Seq(Seqs)
      /\ num_cached_tokens \in [Seqs -> Nat] /\ status \in [Seqs -> Statuses]
  BY DEF QInv, QueueTypes
<1>5. /\ running' \in Seq(Seqs) /\ Range(running') = Range(running) \ {s}
      /\ IsInjective(running) => IsInjective(running')
  BY <1>1, <1>4, WithoutSpec
<1>6. /\ num_cached_tokens' \in [Seqs -> Nat]
      /\ \A r \in Seqs \ {s} : num_cached_tokens'[r] = num_cached_tokens[r]
      /\ num_cached_tokens'[s] = 0
  BY <1>1, <1>2, <1>4
<1>7. ASSUME NEW i \in 1 .. Len(scheduled_seqs), i > row
      PROVE  \/ scheduled_seqs[i] \in Range(running')
             \/ /\ scheduled_seqs[i] = mid_chunk_seq'
                /\ num_cached_tokens'[mid_chunk_seq'] + num_scheduled_tokens'[mid_chunk_seq']
                     < Len(token_ids'[mid_chunk_seq'])
  <2>1. RowInv(i) /\ scheduled_seqs[i] # s /\ scheduled_seqs[i] \in Seqs
    BY <1>2, <1>4, <1>7, ElementOfSeq
  <2> HIDE DEF s
  <2>2. CASE scheduled_seqs[i] \in Range(running)
    BY <1>5, <2>1, <2>2
  <2>3. CASE scheduled_seqs[i] = mid_chunk_seq
             /\ num_cached_tokens[mid_chunk_seq] + num_scheduled_tokens[mid_chunk_seq]
                  < Len(token_ids[mid_chunk_seq])
    BY <1>1, <1>6, <2>1, <2>3
  <2> QED BY <2>1, <2>2, <2>3 DEF RowInv
<1>8. /\ BatchInv' /\ phase' \in {"commit", "idle"} /\ row' \in 0 .. MaxNumSeqs
      /\ scheduled_seqs' \in Seq(Seqs) /\ Len(scheduled_seqs') <= MaxNumSeqs
  BY <1>1, <1>7, AdvanceKeeps DEF QInv
<1>9. QueueTypes'
  BY <1>1, <1>5, <1>6, <1>8 DEF QInv, QueueTypes, Phases
<1>10. TokensInv'
  BY <1>1, <1>6, TokensStay DEF QInv
<1>11. QueuesInv'
  <2>1. /\ IsInjective(waiting) /\ IsInjective(running) /\ Range(waiting) \cap Range(running) = {}
        /\ \A r \in Seqs : /\ r \in Range(waiting) <=> status[r] = "WAITING"
                           /\ r \in Range(running) <=> (status[r] = "RUNNING" \/ r = s)
        /\ status[s] = "FINISHED"
        /\ mid_chunk_seq # None => waiting # <<>> /\ Head(waiting) = mid_chunk_seq
    BY <1>1, <1>2 DEF QInv, QueuesInv, Leaving
  <2>2. active' = running' /\ \A r : ~Leaving(r)'
    BY <1>8 DEF active, Leaving
  <2>3. \A r \in Seqs : /\ r \in Range(waiting') <=> status'[r] = "WAITING"
                        /\ r \in Range(active') <=> (status'[r] = "RUNNING" \/ Leaving(r)')
                        /\ Leaving(r)' => status'[r] = "FINISHED"
    BY <1>1, <1>5, <2>1, <2>2
  <2>4. IsInjective(waiting') /\ IsInjective(active') /\ Range(waiting') \cap Range(active') = {}
    BY <1>1, <1>5, <2>1, <2>2
  <2>5. mid_chunk_seq' # None => waiting' # <<>> /\ Head(waiting') = mid_chunk_seq'
    BY <1>1, <2>1
  <2> QED BY <1>8, <2>3, <2>4, <2>5 DEF QueuesInv
<1> QED BY <1>8, <1>9, <1>10, <1>11 DEF QInv

-----------------------------------------------------------------------------
(* cancel() and retries *)

\* Removing another sequence leaves the head of a queue where it is.
LEMMA WithoutHead ==
  ASSUME NEW q \in Seq(Seqs), q # <<>>, IsInjective(q), NEW s, s # Head(q)
  PROVE  Without(q, s) # <<>> /\ Head(Without(q, s)) = Head(q)
<1> DEFINE w == Without(q, s)
<1>1. /\ w \in Seq(Seqs) /\ Range(w) = Range(q) \ {s}
      /\ \A a, b \in DOMAIN w : a < b => \E i, j \in DOMAIN q : i < j /\ w[a] = q[i] /\ w[b] = q[j]
  <2>1. w \in Seq(Seqs) /\ Range(w) = Range(q) \ {s}
    BY WithoutSpec
  <2>2. \A a, b \in DOMAIN w : a < b => \E i, j \in DOMAIN q : i < j /\ w[a] = q[i] /\ w[b] = q[j]
    BY KeepSpec DEF Without
  <2> QED BY <2>1, <2>2
<1> HIDE DEF w
<1>2. Head(q) = q[1] /\ Head(q) \in Range(q) /\ DOMAIN q = 1 .. Len(q) /\ Len(q) \in Nat \ {0}
  BY PopSpec, EmptySeq, LenProperties
<1>3. Head(q) \in Range(w) /\ w # <<>>
  BY <1>1, <1>2, RangeIs
<1>4. Len(w) \in Nat \ {0} /\ DOMAIN w = 1 .. Len(w) /\ Head(w) = w[1]
  BY <1>1, <1>3, PopSpec, EmptySeq, LenProperties
<1>5. PICK k \in 1 .. Len(w) : w[k] = Head(q)
  BY <1>1, <1>3, RangeIs
<1>6. CASE k = 1
  BY <1>3, <1>4, <1>5, <1>6 DEF w
<1>7. CASE k # 1
  <2>1. 1 < k /\ 1 \in DOMAIN w /\ k \in DOMAIN w
    BY <1>4, <1>7
  <2>2. PICK i \in DOMAIN q, j \in DOMAIN q : i < j /\ w[1] = q[i] /\ w[k] = q[j]
    BY <1>1, <2>1
  <2>3. j = 1
    BY <1>2, <1>5, <2>2 DEF IsInjective
  <2> QED BY <1>2, <2>2, <2>3
<1> QED BY <1>6, <1>7

\* cancel() has collected its targets.
LEMMA CancelKeeps ==
  ASSUME QInv, NEW T \in SUBSET Queued, Cancel(T)
  PROVE  QInv'
<1>1. /\ phase \in {"idle", "failed"} /\ phase' = "cancel" /\ T # {} /\ targets' = T
      /\ UNCHANGED <<token_ids, num_cached_tokens, request, status, num_scheduled_tokens, is_prefill,
                     waiting, running, mid_chunk_seq, scheduled_seqs, num_decodes, num_batched_tokens,
                     row, failures>>
  BY DEF Cancel, bmVars, reqVars, rowVars, queueVars, stepVars
<1>2. Queued' = Queued /\ Queued \subseteq Seqs
  <2>1. waiting \in Seq(Seqs) /\ running \in Seq(Seqs)
    BY DEF QInv, QueueTypes
  <2> QED BY <1>1, <2>1, RangeIs DEF Queued
<1>3. QueueTypes'
  BY <1>1, <1>2 DEF QInv, QueueTypes, Phases
<1>4. active' = active
  BY <1>1 DEF active
<1>5. QueuesInv' /\ TokensInv'
  BY <1>1, <1>2, <1>4, QueuesStay, TokensStay DEF QInv
<1> QED BY <1>1, <1>3, <1>5, NoBatch DEF QInv

\* The sequence that cancel() removes next is one of its targets, in a queue.
LEMMA NextTarget ==
  ASSUME QInv, phase = "cancel"
  PROVE  LET s == Head(BM!Keep(waiting \o running, targets))
         IN  s \in Seqs /\ s \in targets /\ s \in Queued
<1> DEFINE all == waiting \o running
           K == BM!Keep(all, targets)
<1>1. targets # {} /\ targets \subseteq Queued /\ waiting \in Seq(Seqs) /\ running \in Seq(Seqs)
  BY DEF QInv, QueuesInv, QueueTypes
<1>2. all \in Seq(Seqs) /\ Range(all) = Queued
  BY <1>1, JoinSpec DEF Queued
<1> HIDE DEF all
<1>3. K \in Seq(Seqs) /\ Range(K) = Queued \cap targets
  BY <1>2, KeepSpec
<1> HIDE DEF K
<1>4. K # <<>>
  BY <1>1, <1>3, RangeIs
<1>5. Head(K) \in Seqs /\ Head(K) \in Range(K)
  BY <1>3, <1>4, PopSpec
<1> QED BY <1>3, <1>5 DEF K, all

\* A target leaves the queue it is in.
LEMMA CancelRowKeeps ==
  ASSUME QInv, CancelRow
  PROVE  QInv'
<1>1. PICK s : s = Head(BM!Keep(waiting \o running, targets))
  OBVIOUS
<1>2. /\ phase = "cancel" /\ release(s)
      /\ waiting' = Without(waiting, s) /\ running' = Without(running, s)
      /\ mid_chunk_seq' = MarkWithout(s)
      /\ num_scheduled_tokens' = [num_scheduled_tokens EXCEPT ![s] = 0]
      /\ status' = [status EXCEPT ![s] = "CANCELLED"]
      /\ targets' = targets \ {s}
      /\ phase' = IF targets' = {} THEN "idle" ELSE "cancel"
      /\ UNCHANGED <<request, is_prefill, scheduled_seqs, num_decodes, num_batched_tokens, row, failures>>
  BY <1>1 DEF CancelRow, stepVars
<1>3. s \in Seqs /\ s \in targets /\ s \in Queued
  BY <1>1, <1>2, NextTarget
<1>4. /\ waiting \in Seq(Seqs) /\ running \in Seq(Seqs) /\ status \in [Seqs -> Statuses]
      /\ num_cached_tokens \in [Seqs -> Nat]
      /\ num_scheduled_tokens \in [Seqs -> 0 .. MaxNumBatchedTokens]
      /\ targets \in SUBSET Seqs
      /\ mid_chunk_seq \in Seqs \cup {None}
  BY DEF QInv, QueueTypes
<1>5. /\ token_ids' = token_ids
      /\ num_cached_tokens' \in [Seqs -> Nat]
      /\ \A r \in Seqs : num_cached_tokens'[r] = num_cached_tokens[r] \/ num_cached_tokens'[r] = 0
  <2>1. CASE BM!deallocate(s)
    <3>1. token_ids' = token_ids /\ num_cached_tokens' = [num_cached_tokens EXCEPT ![s] = 0]
      BY <2>1, ReleaseEffect
    <3> QED BY <1>4, <3>1
  <2>2. CASE UNCHANGED bmVars
    BY <1>4, <2>2 DEF bmVars
  <2> QED BY <1>2, <2>1, <2>2 DEF release
<1>6. active = running /\ active' = running' /\ \A r : ~Leaving(r) /\ ~Leaving(r)'
  BY <1>2 DEF active, Leaving
<1>7. /\ IsInjective(waiting) /\ IsInjective(running) /\ Range(waiting) \cap Range(running) = {}
      /\ \A r \in Seqs : /\ r \in Range(waiting) <=> status[r] = "WAITING"
                         /\ r \in Range(running) <=> status[r] = "RUNNING"
      /\ mid_chunk_seq # None => waiting # <<>> /\ Head(waiting) = mid_chunk_seq
      /\ targets \subseteq Queued
  BY <1>2, <1>6 DEF QInv, QueuesInv
<1>8. /\ waiting' \in Seq(Seqs) /\ Range(waiting') = Range(waiting) \ {s} /\ IsInjective(waiting')
      /\ running' \in Seq(Seqs) /\ Range(running') = Range(running) \ {s} /\ IsInjective(running')
  BY <1>2, <1>4, <1>7, WithoutSpec
<1>9. \A r \in Seqs : status'[r] = IF r = s THEN "CANCELLED" ELSE status[r]
  BY <1>2, <1>4
<1>10. QueueTypes'
  <2>1. num_scheduled_tokens' \in [Seqs -> 0 .. MaxNumBatchedTokens]
    <3>1. 0 \in 0 .. MaxNumBatchedTokens
      BY Constants
    <3> QED BY <1>2, <1>3, <1>4, <3>1
  <2>2. status' \in [Seqs -> Statuses]
    BY <1>2, <1>4 DEF Statuses
  <2>3. mid_chunk_seq' \in Seqs \cup {None} /\ targets' \in SUBSET Seqs /\ phase' \in Phases
    BY <1>2, <1>4 DEF MarkWithout, Phases
  <2> QED BY <1>2, <1>5, <1>8, <2>1, <2>2, <2>3 DEF QInv, QueueTypes
<1>11. QueuesInv'
  <2>1. \A r \in Seqs : /\ r \in Range(waiting') <=> status'[r] = "WAITING"
                        /\ r \in Range(active') <=> (status'[r] = "RUNNING" \/ Leaving(r)')
                        /\ Leaving(r)' => status'[r] = "FINISHED"
    BY <1>6, <1>7, <1>8, <1>9
  <2>2. IsInjective(waiting') /\ IsInjective(active') /\ Range(waiting') \cap Range(active') = {}
    BY <1>6, <1>7, <1>8
  <2>3. mid_chunk_seq' # None => waiting' # <<>> /\ Head(waiting') = mid_chunk_seq'
    <3> SUFFICES ASSUME mid_chunk_seq' # None
                 PROVE  waiting' # <<>> /\ Head(waiting') = mid_chunk_seq'
      OBVIOUS
    <3>1. mid_chunk_seq' = mid_chunk_seq /\ s # mid_chunk_seq
      BY <1>2 DEF MarkWithout
    <3> QED BY <1>2, <1>4, <1>7, <3>1, WithoutHead
  <2>4. phase' = "cancel" => targets' # {} /\ targets' \subseteq Queued'
    BY <1>2, <1>7, <1>8 DEF Queued
  <2> QED BY <2>1, <2>2, <2>3, <2>4 DEF QueuesInv
<1>12. TokensInv'
  <2>1. status[s] # "NONE"
    BY <1>3, <1>7 DEF Queued
  <2> QED BY <1>2, <1>5, <1>9, <2>1, TokensStay DEF QInv
<1>13. BatchInv'
  BY <1>2, NoBatch
<1> QED BY <1>10, <1>11, <1>12, <1>13 DEF QInv

\* A caller that steps again changes nothing by itself.
LEMMA RetryKeeps ==
  ASSUME QInv, Retry
  PROVE  QInv'
<1>1. /\ phase = "failed" /\ phase' = "idle"
      /\ UNCHANGED <<token_ids, num_cached_tokens, request, status, num_scheduled_tokens, is_prefill,
                     waiting, running, mid_chunk_seq, scheduled_seqs, num_decodes, num_batched_tokens,
                     row, targets, failures>>
  BY DEF Retry, bmVars, reqVars, rowVars, queueVars, stepVars
<1>2. QueueTypes' /\ active' = active
  BY <1>1 DEF QInv, QueueTypes, Phases, active
<1>3. QueuesInv' /\ TokensInv'
  BY <1>1, <1>2, QueuesStay, TokensStay DEF QInv
<1> QED BY <1>1, <1>2, <1>3, NoBatch DEF QInv

\* Nothing changes when nothing does.
LEMMA StutterKeeps ==
  ASSUME QInv, UNCHANGED vars
  PROVE  QInv'
<1>1. UNCHANGED <<token_ids, num_cached_tokens, request, status, num_scheduled_tokens, is_prefill,
                  waiting, running, mid_chunk_seq, scheduled_seqs, num_decodes, num_batched_tokens,
                  row, phase, targets, failures>>
  BY DEF vars, bmVars, reqVars, rowVars, queueVars, stepVars
<1>2. QueueTypes' /\ active' = active
  BY <1>1 DEF QInv, QueueTypes, active
<1>3. QueuesInv'
  BY <1>1, <1>2 DEF QInv, QueuesInv, Leaving, Queued
<1>4. TokensInv'
  BY <1>1, TokensStay DEF QInv
<1>5. BatchInv'
  BY <1>1 DEF QInv, BatchInv, RowInv, remaining
<1> QED BY <1>2, <1>3, <1>4, <1>5 DEF QInv

-----------------------------------------------------------------------------
(* The theorems *)

\* An engine without requests satisfies the invariant.
LEMMA InitQueues == Init => QInv
<1> SUFFICES ASSUME Init PROVE QInv
  OBVIOUS
<1>1. /\ token_ids = [s \in Seqs |-> <<>>] /\ num_cached_tokens = [s \in Seqs |-> 0]
      /\ request = [s \in Seqs |-> [prompt |-> <<>>, max_tokens |-> 0, ignore_eos |-> FALSE]]
      /\ status = [s \in Seqs |-> "NONE"]
      /\ num_scheduled_tokens = [s \in Seqs |-> 0]
      /\ is_prefill = [s \in Seqs |-> TRUE]
      /\ waiting = <<>> /\ running = <<>> /\ mid_chunk_seq = None /\ phase = "idle"
      /\ scheduled_seqs = <<>> /\ num_decodes = 0 /\ num_batched_tokens = 0 /\ row = 0
      /\ targets = {} /\ failures = 0
  BY DEF Init, BM!Init
<1>2. QueueTypes
  <2>1. request \in [Seqs -> [prompt : Seq(Token), max_tokens : Nat, ignore_eos : BOOLEAN]]
    <3>1. [prompt |-> <<>>, max_tokens |-> 0, ignore_eos |-> FALSE]
            \in [prompt : Seq(Token), max_tokens : Nat, ignore_eos : BOOLEAN]
      BY EmptySeq
    <3> QED BY <1>1, <3>1
  <2>2. /\ token_ids \in [Seqs -> Seq(Token)]
        /\ num_cached_tokens \in [Seqs -> Nat]
        /\ status \in [Seqs -> Statuses]
        /\ is_prefill \in [Seqs -> BOOLEAN]
        /\ waiting \in Seq(Seqs) /\ running \in Seq(Seqs) /\ scheduled_seqs \in Seq(Seqs)
    BY <1>1, EmptySeq DEF Statuses
  <2>3. num_scheduled_tokens \in [Seqs -> 0 .. MaxNumBatchedTokens]
    <3>1. 0 \in 0 .. MaxNumBatchedTokens
      BY Constants
    <3> QED BY <1>1, <3>1
  <2>4. /\ Len(scheduled_seqs) <= MaxNumSeqs
        /\ num_decodes \in 0 .. MaxNumSeqs
        /\ num_batched_tokens \in 0 .. MaxNumBatchedTokens
        /\ row \in 0 .. MaxNumSeqs
        /\ failures \in 0 .. MaxFailures
    BY <1>1, Constants, EmptySeq, SchedulerAssumption DEF SchedulerAssumption
  <2> QED BY <1>1, <2>1, <2>2, <2>3, <2>4 DEF QueueTypes, Phases
<1>3. QueuesInv
  <2>1. Range(<<>>) = {} /\ IsInjective(<<>>)
    BY DEF Range, IsInjective
  <2>2. active = <<>> /\ \A s : ~Leaving(s)
    BY <1>1 DEF active, Leaving
  <2> QED BY <1>1, <2>1, <2>2 DEF QueuesInv
<1>4. BatchInv
  BY <1>1 DEF BatchInv, Batching
<1>5. TokensInv
  BY <1>1 DEF TokensInv
<1> QED BY <1>2, <1>3, <1>4, <1>5 DEF QInv

\* Every step keeps the invariant: one case per disjunct of Next.
LEMMA NextQueues == QInv /\ [Next]_vars => QInv'
<1> SUFFICES ASSUME QInv, [Next]_vars PROVE QInv'
  OBVIOUS
<1>1. ASSUME NEW s \in Seqs, NEW r \in Requests, add_request(s, r) PROVE QInv'
  BY <1>1, AddKeeps
<1>2. CASE StartStep
  BY <1>2, StartKeeps
<1>3. CASE Schedule
  BY <1>3, DecodeKeeps, ReclaimKeeps, PreemptLastKeeps, EndDecodeKeeps, AdmitKeeps,
     ContinueKeeps, RequeueKeeps, EndPrefillKeeps DEF Schedule
<1>4. CASE Run \/ RunFails
  BY <1>4, RunKeeps
<1>5. CASE Postprocess
  BY <1>5, CommitKeeps, EmitKeeps, FinishKeeps DEF Postprocess
<1>6. ASSUME NEW T \in SUBSET Queued, Cancel(T) PROVE QInv'
  BY <1>6, CancelKeeps
<1>7. CASE CleanUp
  BY <1>6, <1>7 DEF CleanUp
<1>8. CASE CancelRow
  BY <1>8, CancelRowKeeps
<1>9. CASE Retry
  BY <1>9, RetryKeeps
<1>10. CASE Rest \/ UNCHANGED vars
  BY <1>10, StutterKeeps DEF Rest
<1> QED BY <1>1, <1>2, <1>3, <1>4, <1>5, <1>6, <1>7, <1>8, <1>9, <1>10 DEF Next

\* The queues, the batch and the token counts stay consistent, whatever steps fail and
\* whoever retries them.
THEOREM QueueInvariance == Spec => []QInv
BY InitQueues, NextQueues, PTL DEF Spec

\* Between steps a request is in the one queue its status names, once; one that ended
\* is in none (Scheduler.add, schedule, preempt, postprocess and cancel).
THEOREM StatusesNameQueues == Spec => []QueuesMatchStatus
<1>1. QInv => QueuesMatchStatus
  <2> SUFFICES ASSUME QInv, phase = "idle"
               PROVE  /\ IsInjective(waiting \o running)
                      /\ \A s \in Seqs :
                           /\ s \in Range(waiting) <=> status[s] = "WAITING"
                           /\ s \in Range(running) <=> status[s] = "RUNNING"
    BY DEF QueuesMatchStatus
  <2>1. active = running /\ \A s : ~Leaving(s)
    BY DEF active, Leaving
  <2>2. waiting \in Seq(Seqs) /\ running \in Seq(Seqs)
    BY DEF QInv, QueueTypes
  <2>3. IsInjective(waiting) /\ IsInjective(running) /\ Range(waiting) \cap Range(running) = {}
    BY <2>1 DEF QInv, QueuesInv
  <2>4. IsInjective(waiting \o running)
    BY <2>2, <2>3, JoinSpec
  <2> QED BY <2>1, <2>4 DEF QInv, QueuesInv
<1> QED BY <1>1, QueueInvariance, PTL

-----------------------------------------------------------------------------
(* Refinement of the request service *)

\* What the service's users see: the refinement mapping of Scheduler!Service.
Seen(st) ==
  CASE st = "NONE" -> "absent"
    [] st \in {"WAITING", "RUNNING"} -> "pending"
    [] st = "FINISHED" -> "finished"
    [] st = "CANCELLED" -> "cancelled"

SeenState == [s \in Seqs |-> Seen(status[s])]
SeenOutput == [s \in Seqs |-> Completion(s)]

\* The service's formulas in terms of what is seen.
LEMMA ServiceIs ==
  /\ Service!Init <=>
       /\ request = [s \in Seqs |-> [prompt |-> <<>>, max_tokens |-> 0, ignore_eos |-> FALSE]]
       /\ SeenState = [s \in Seqs |-> "absent"]
       /\ SeenOutput = [s \in Seqs |-> <<>>]
  /\ \A s, r :
       Service!Submit(s, r) <=>
         /\ SeenState[s] = "absent"
         /\ request' = [request EXCEPT ![s] = r]
         /\ SeenState' = [SeenState EXCEPT ![s] = "pending"]
         /\ SeenOutput' = SeenOutput
  /\ \A s, t :
       Service!Emit(s, t) <=>
         /\ SeenState[s] = "pending"
         /\ SeenOutput' = [SeenOutput EXCEPT ![s] = Append(@, t)]
         /\ SeenState' = [SeenState EXCEPT ![s] =
                            IF (t = EOS /\ ~request[s].ignore_eos)
                                 \/ Len(SeenOutput[s]) + 1 = request[s].max_tokens
                            THEN "finished" ELSE "pending"]
         /\ request' = request
  /\ \A s :
       Service!Withdraw(s) <=>
         /\ SeenState[s] = "pending"
         /\ SeenState' = [SeenState EXCEPT ![s] = "cancelled"]
         /\ request' = request
         /\ SeenOutput' = SeenOutput
  /\ UNCHANGED Service!serviceVars <=>
       (request' = request /\ SeenState' = SeenState /\ SeenOutput' = SeenOutput)
<1> USE DEF SeenState, SeenOutput, Seen
<1>1. Service!Init <=>
       /\ request = [s \in Seqs |-> [prompt |-> <<>>, max_tokens |-> 0, ignore_eos |-> FALSE]]
       /\ SeenState = [s \in Seqs |-> "absent"]
       /\ SeenOutput = [s \in Seqs |-> <<>>]
  BY DEF Service!Init
<1>2. \A s, r :
       Service!Submit(s, r) <=>
         /\ SeenState[s] = "absent"
         /\ request' = [request EXCEPT ![s] = r]
         /\ SeenState' = [SeenState EXCEPT ![s] = "pending"]
         /\ SeenOutput' = SeenOutput
  BY DEF Service!Submit
<1>3. \A s, t :
       Service!Emit(s, t) <=>
         /\ SeenState[s] = "pending"
         /\ SeenOutput' = [SeenOutput EXCEPT ![s] = Append(@, t)]
         /\ SeenState' = [SeenState EXCEPT ![s] =
                            IF (t = EOS /\ ~request[s].ignore_eos)
                                 \/ Len(SeenOutput[s]) + 1 = request[s].max_tokens
                            THEN "finished" ELSE "pending"]
         /\ request' = request
  BY DEF Service!Emit, Service!Ends
<1>4. \A s :
       Service!Withdraw(s) <=>
         /\ SeenState[s] = "pending"
         /\ SeenState' = [SeenState EXCEPT ![s] = "cancelled"]
         /\ request' = request
         /\ SeenOutput' = SeenOutput
  BY DEF Service!Withdraw
<1>5. UNCHANGED Service!serviceVars <=>
       (request' = request /\ SeenState' = SeenState /\ SeenOutput' = SeenOutput)
  BY DEF Service!serviceVars
<1> QED BY <1>1, <1>2, <1>3, <1>4, <1>5

Pending == {"WAITING", "RUNNING"}

\* What moves requests between the queues is not seen.
LEMMA Unseen ==
  ASSUME UNCHANGED <<token_ids, request>>,
         \A s \in Seqs : status'[s] = status[s] \/ (status[s] \in Pending /\ status'[s] \in Pending)
  PROVE  UNCHANGED Service!serviceVars
<1>1. \A s \in Seqs : Seen(status'[s]) = Seen(status[s])
  BY DEF Seen, Pending
<1>2. SeenState' = SeenState
  BY <1>1 DEF SeenState
<1>3. SeenOutput' = SeenOutput
  BY DEF SeenOutput, Completion
<1> QED BY <1>2, <1>3, ServiceIs

\* A status that changes is seen to.
LEMMA SeenUpdate ==
  ASSUME QInv, NEW s \in Seqs, NEW st, status' = [status EXCEPT ![s] = st]
  PROVE  /\ SeenState[s] = Seen(status[s])
         /\ SeenState' = [SeenState EXCEPT ![s] = Seen(st)]
<1>1. status \in [Seqs -> Statuses]
  BY DEF QInv, QueueTypes
<1>2. SeenState[s] = Seen(status[s])
  BY DEF SeenState
<1>3. status'[s] = st /\ \A x \in Seqs \ {s} : status'[x] = status[x]
  BY <1>1
<1>4. \A x \in Seqs : Seen(status'[x]) = IF x = s THEN Seen(st) ELSE Seen(status[x])
  BY <1>3
<1> QED BY <1>2, <1>4 DEF SeenState

\* Preemption is not seen.
LEMMA PreemptUnseen ==
  ASSUME QInv, NEW s \in Seqs, status[s] \in Pending, NEW q, preempt(s, q)
  PROVE  UNCHANGED Service!serviceVars
<1>1. status' = [status EXCEPT ![s] = "WAITING"] /\ token_ids' = token_ids /\ request' = request
  BY ReleaseEffect DEF preempt
<1>2. status \in [Seqs -> Statuses]
  BY DEF QInv, QueueTypes
<1> QED BY <1>1, <1>2, Unseen DEF Pending

\* The head of the waiting queue is a pending request.
LEMMA HeadPending ==
  ASSUME QInv, waiting # <<>>
  PROVE  Head(waiting) \in Seqs /\ status[Head(waiting)] \in Pending
<1>1. waiting \in Seq(Seqs)
  BY DEF QInv, QueueTypes
<1>2. Head(waiting) \in Seqs /\ Head(waiting) \in Range(waiting)
  BY <1>1, PopSpec
<1> QED BY <1>2 DEF QInv, QueuesInv, Pending

\* No turn of the loops of schedule() is seen.
LEMMA ScheduleUnseen ==
  ASSUME QInv, Schedule
  PROVE  UNCHANGED Service!serviceVars
<1>1. waiting \in Seq(Seqs) /\ running \in Seq(Seqs) /\ status \in [Seqs -> Statuses]
  BY DEF QInv, QueueTypes
<1>2. \A s \in Range(running) : s \in Seqs /\ (phase # "finish" => status[s] \in Pending)
  <2> SUFFICES ASSUME NEW s \in Range(running)
               PROVE  s \in Seqs /\ (phase # "finish" => status[s] \in Pending)
    OBVIOUS
  <2>1. s \in Seqs
    BY <1>1, RangeIs
  <2>2. scheduled_seqs \in Seq(Seqs)
    BY DEF QInv, QueueTypes
  <2>3. s \in Range(active)
    <3>1. Range(scheduled_seqs \o running) = Range(scheduled_seqs) \cup Range(running)
      BY <1>1, <2>2, JoinSpec
    <3> QED BY <3>1 DEF active
  <2> QED BY <2>1, <2>3 DEF QInv, QueuesInv, Leaving, Pending
<1>3. CASE DecodeRow
  <2>1. UNCHANGED <<token_ids, request, status>>
    BY <1>3, GrowthEffect DEF DecodeRow, reqVars
  <2> QED BY <2>1, Unseen
<1>4. CASE ReclaimMidChunk
  <2>1. waiting # <<>> /\ preempt(Head(waiting), Tail(waiting))
    BY <1>4 DEF ReclaimMidChunk, QInv, QueuesInv
  <2> QED BY <2>1, HeadPending, PreemptUnseen
<1>5. CASE PreemptTail \/ PreemptSelf
  <2>1. phase = "decode" /\ running # <<>>
    BY <1>5 DEF PreemptTail, PreemptSelf, Decoding
  <2>2. PICK s \in Range(running) : preempt(s, waiting)
    <3>1. Head(running) \in Range(running)
      BY <1>1, <2>1, PopSpec
    <3>2. LastOf(running) \in Range(running)
      <4>1. Len(running) \in Nat \ {0}
        BY <1>1, <2>1, EmptySeq, LenProperties
      <4> QED BY <1>1, <4>1, RangeIs DEF LastOf
    <3> QED BY <1>5, <3>1, <3>2 DEF PreemptTail, PreemptSelf
  <2> QED BY <1>2, <2>1, <2>2, PreemptUnseen
<1>6. CASE EndDecode \/ EndPrefill
  <2>1. UNCHANGED <<token_ids, request, status>>
    BY <1>6 DEF EndDecode, EndPrefill, bmVars, reqVars
  <2> QED BY <2>1, Unseen
<1>7. ASSUME Prefilling, NEW work, ScheduleChunk(Head(waiting), work), token_ids' = token_ids
      PROVE  UNCHANGED Service!serviceVars
  <2>1. waiting # <<>>
    BY <1>7 DEF Prefilling
  <2>2. /\ status' = status \/ status' = [status EXCEPT ![Head(waiting)] = "RUNNING"]
        /\ request' = request
    BY <1>7 DEF ScheduleChunk
  <2> QED BY <1>1, <1>7, <2>1, <2>2, HeadPending, Unseen DEF Pending
<1>8. CASE AdmitPrefill
  BY <1>7, <1>8, AllocateEffect DEF AdmitPrefill
<1>9. CASE ContinuePrefill
  BY <1>7, <1>9, GrowthEffect DEF ContinuePrefill
<1>10. CASE RequeuePrefill
  <2>1. waiting # <<>> /\ preempt(Head(waiting), Tail(waiting))
    BY <1>10 DEF RequeuePrefill, Prefilling
  <2> QED BY <2>1, HeadPending, PreemptUnseen
<1> QED BY <1>3, <1>4, <1>5, <1>6, <1>8, <1>9, <1>10 DEF Schedule

\* A submission is seen as one; nothing has been generated for it.
LEMMA AddIsSubmit ==
  ASSUME QInv, NEW s \in Seqs, NEW r \in Requests, add_request(s, r)
  PROVE  Service!Submit(s, r)
<1>1. /\ status[s] = "NONE"
      /\ token_ids' = [token_ids EXCEPT ![s] = r.prompt]
      /\ request' = [request EXCEPT ![s] = r]
      /\ status' = [status EXCEPT ![s] = "WAITING"]
  BY DEF add_request, BM!new_sequence
<1>2. /\ token_ids \in [Seqs -> Seq(Token)] /\ status \in [Seqs -> Statuses]
      /\ request \in [Seqs -> [prompt : Seq(Token), max_tokens : Nat, ignore_eos : BOOLEAN]]
      /\ token_ids[s] = <<>> /\ request[s].prompt = <<>>
  BY <1>1 DEF QInv, QueueTypes, TokensInv
<1>3. r.prompt \in Seq(Token)
  BY Constants
<1>4. \A p \in Seq(Token) : SubSeq(p, Len(p) + 1, Len(p)) = <<>>
  <2> SUFFICES ASSUME NEW p \in Seq(Token) PROVE SubSeq(p, Len(p) + 1, Len(p)) = <<>>
    OBVIOUS
  <2>1. PICK n \in Nat : n = Len(p)
    BY LenProperties
  <2>2. SubSeq(p, n + 1, n) \in Seq(Token) /\ Len(SubSeq(p, n + 1, n)) = 0
    <3>1. n + 1 \in Int /\ n \in Int /\ \A i \in n + 1 .. n : p[i] \in Token
      OBVIOUS
    <3>2. /\ SubSeq(p, n + 1, n) \in Seq(Token)
          /\ Len(SubSeq(p, n + 1, n)) = IF n + 1 <= n THEN n - (n + 1) + 1 ELSE 0
      BY <3>1, SubSeqProperties
    <3> QED BY <3>2
  <2> QED BY <2>1, <2>2, EmptySeq
<1>5. SeenOutput' = SeenOutput
  <2>1. Completion(s)' = <<>> /\ Completion(s) = <<>>
    <3>1. token_ids'[s] = r.prompt /\ request'[s] = r
      BY <1>1, <1>2
    <3> QED BY <1>2, <1>3, <1>4, <3>1, EmptySeq DEF Completion
  <2>2. \A x \in Seqs \ {s} : Completion(x)' = Completion(x)
    BY <1>1, <1>2 DEF Completion
  <2>3. \A x \in Seqs : Completion(x)' = Completion(x)
    BY <2>1, <2>2
  <2> QED BY <2>3 DEF SeenOutput
<1>6. SeenState[s] = "absent" /\ SeenState' = [SeenState EXCEPT ![s] = "pending"]
  BY <1>1, <1>2, SeenUpdate DEF Seen
<1> QED BY <1>1, <1>5, <1>6, ServiceIs

\* Appending a token to a sequence appends it to each of its suffixes.
LEMMA AppendedSub ==
  ASSUME NEW q \in Seq(Token), NEW t \in Token, NEW m \in Nat, m <= Len(q)
  PROVE  SubSeq(Append(q, t), m + 1, Len(q) + 1) = Append(SubSeq(q, m + 1, Len(q)), t)
<1>1. PICK k \in Nat : k = Len(q)
  BY LenProperties
<1> DEFINE left == SubSeq(Append(q, t), m + 1, k + 1)
           sub == SubSeq(q, m + 1, k)
           right == Append(sub, t)
<1>2. /\ Append(q, t) \in Seq(Token) /\ Len(Append(q, t)) = k + 1
      /\ Append(q, t)[k + 1] = t /\ \A i \in 1 .. k : Append(q, t)[i] = q[i]
  BY <1>1, AppendProperties
<1>3. /\ sub \in Seq(Token) /\ Len(sub) = k - m /\ \A i \in 1 .. k - m : sub[i] = q[m + i]
  <2>1. m + 1 \in Int /\ k \in Int /\ \A i \in m + 1 .. k : q[i] \in Token
    BY <1>1
  <2>2. /\ sub \in Seq(Token)
        /\ Len(sub) = IF m + 1 <= k THEN k - (m + 1) + 1 ELSE 0
        /\ \A i \in 1 .. k - (m + 1) + 1 : sub[i] = q[m + 1 + i - 1]
    BY <2>1, SubSeqProperties
  <2> QED BY <1>1, <2>2
<1>4. /\ left \in Seq(Token) /\ Len(left) = k - m + 1
      /\ \A i \in 1 .. k - m + 1 : left[i] = Append(q, t)[m + i]
  <2>1. PICK a \in Seq(Token) : a = Append(q, t)
    BY <1>2
  <2>2. m + 1 \in Int /\ k + 1 \in Int /\ \A i \in m + 1 .. k + 1 : a[i] \in Token
    BY <1>1, <1>2, <2>1
  <2>3. /\ SubSeq(a, m + 1, k + 1) \in Seq(Token)
        /\ Len(SubSeq(a, m + 1, k + 1)) = IF m + 1 <= k + 1 THEN k + 1 - (m + 1) + 1 ELSE 0
        /\ \A i \in 1 .. k + 1 - (m + 1) + 1 : SubSeq(a, m + 1, k + 1)[i] = a[m + 1 + i - 1]
    BY <2>2, SubSeqProperties
  <2> QED BY <1>1, <2>1, <2>3
<1>5. /\ right \in Seq(Token) /\ Len(right) = k - m + 1
      /\ right[k - m + 1] = t /\ \A i \in 1 .. k - m : right[i] = sub[i]
  BY <1>3, AppendProperties
<1> HIDE DEF left, right, sub
<1>6. \A i \in 1 .. k - m + 1 : left[i] = right[i]
  <2> SUFFICES ASSUME NEW i \in 1 .. k - m + 1 PROVE left[i] = right[i]
    OBVIOUS
  <2>1. CASE i = k - m + 1
    BY <1>1, <1>2, <1>4, <1>5, <2>1
  <2>2. CASE i # k - m + 1
    <3>1. i \in 1 .. k - m /\ m + i \in 1 .. k
      BY <1>1, <2>2
    <3> QED BY <1>2, <1>3, <1>4, <1>5, <3>1
  <2> QED BY <2>1, <2>2
<1>7. left = right
  BY <1>1, <1>4, <1>5, <1>6, SeqEqual
<1> QED BY <1>1, <1>7 DEF left, right, sub

\* A token is seen to be generated; it is seen to be the last one exactly if the code
\* takes it for the last: below the limit, >= and = are the same test.
LEMMA EmitIsEmit ==
  ASSUME QInv, NEW t \in Token, EmitToken(t)
  PROVE  Service!Emit(scheduled_seqs[row], t)
<1>0. PICK s : s = scheduled_seqs[row]
  OBVIOUS
<1>1. /\ phase = "emit"
      /\ token_ids' = [token_ids EXCEPT ![s] = Append(@, t)]
      /\ request' = request
      /\ \/ Finished(s, t) /\ status' = [status EXCEPT ![s] = "FINISHED"]
         \/ ~Finished(s, t) /\ status' = status
  BY <1>0 DEF EmitToken, BM!append_token
<1>2. s \in Seqs /\ s \in Range(running) /\ active = running
  BY <1>0, <1>1, CurrentRow
<1>3. status[s] = "RUNNING"
  BY <1>1, <1>2, RunningIsNotMid DEF Leaving
<1>4. token_ids \in [Seqs -> Seq(Token)]
  BY DEF QInv, QueueTypes
<1>5. PICK m \in Nat, k \in Nat : /\ m = Len(request[s].prompt) /\ k = Len(token_ids[s]) /\ k >= m
                                /\ Len(Completion(s)) = k - m
                                /\ k < m + request[s].max_tokens
                                /\ request[s].max_tokens \in Nat
  <2>1. Len(token_ids[s]) < Len(request[s].prompt) + request[s].max_tokens
    BY <1>2, <1>3 DEF QInv, TokensInv
  <2>2. /\ Len(Completion(s)) = Len(token_ids[s]) - Len(request[s].prompt)
        /\ Len(token_ids[s]) \in Nat /\ Len(request[s].prompt) \in Nat
        /\ request[s].max_tokens \in Nat
        /\ Len(token_ids[s]) >= Len(request[s].prompt)
    BY <1>2, <1>3, CompletionLen
  <2> QED BY <2>1, <2>2
<1>6. Completion(s)' = Append(Completion(s), t)
  <2>1. token_ids[s] \in Seq(Token) /\ token_ids'[s] = Append(token_ids[s], t)
    BY <1>1, <1>2, <1>4
  <2>2. PICK q \in Seq(Token) : q = token_ids[s]
    BY <2>1
  <2>3. Completion(s) = SubSeq(q, m + 1, k) /\ Len(q) = k
    BY <1>5, <2>2 DEF Completion
  <2>4. Completion(s)' = SubSeq(Append(q, t), m + 1, k + 1)
    <3>1. token_ids'[s] = Append(q, t) /\ request'[s] = request[s]
      BY <1>1, <2>1, <2>2
    <3>2. Len(Append(q, t)) = k + 1
      BY <2>3, AppendProperties
    <3> QED BY <1>5, <3>1, <3>2 DEF Completion
  <2>5. SubSeq(Append(q, t), m + 1, k + 1) = Append(SubSeq(q, m + 1, k), t)
    BY <1>5, <2>3, AppendedSub
  <2> QED BY <2>3, <2>4, <2>5
<1>7. SeenOutput' = [SeenOutput EXCEPT ![s] = Append(@, t)]
  <2>1. \A x \in Seqs \ {s} : Completion(x)' = Completion(x)
    BY <1>1, <1>2, <1>4 DEF Completion
  <2>2. \A x \in Seqs : Completion(x)' = IF x = s THEN Append(Completion(s), t) ELSE Completion(x)
    BY <1>6, <2>1
  <2> QED BY <1>2, <2>2 DEF SeenOutput
<1>8. Finished(s, t) <=> ((t = EOS /\ ~request[s].ignore_eos)
                            \/ Len(SeenOutput[s]) + 1 = request[s].max_tokens)
  <2>1. SeenOutput[s] = Completion(s)
    BY <1>2 DEF SeenOutput
  <2>2. Len(Completion(s)) + 1 >= request[s].max_tokens
          <=> Len(Completion(s)) + 1 = request[s].max_tokens
    <3>1. PICK n \in Nat : n = request[s].max_tokens
      BY <1>5
    <3>2. k < m + n
      BY <1>5, <3>1
    <3>3. k - m + 1 >= n <=> k - m + 1 = n
      BY <3>2
    <3> QED BY <1>5, <3>1, <3>3
  <2> QED BY <2>1, <2>2 DEF Finished
<1>9. SeenState[s] = "pending"
  BY <1>2, <1>3 DEF SeenState, Seen
<1>10. CASE Finished(s, t)
  <2>1. status' = [status EXCEPT ![s] = "FINISHED"]
    BY <1>1, <1>10
  <2>2. SeenState' = [SeenState EXCEPT ![s] = "finished"]
    BY <1>2, <2>1, SeenUpdate DEF Seen
  <2> QED BY <1>0, <1>1, <1>7, <1>8, <1>9, <1>10, <2>2, ServiceIs
<1>11. CASE ~Finished(s, t)
  <2>1. SeenState' = SeenState
    BY <1>1, <1>11 DEF SeenState
  <2>2. SeenState' = [SeenState EXCEPT ![s] = "pending"]
    BY <1>2, <1>9, <2>1 DEF SeenState
  <2> QED BY <1>0, <1>1, <1>7, <1>8, <1>9, <1>11, <2>2, ServiceIs
<1> QED BY <1>10, <1>11

\* A target of cancel() is seen to be withdrawn, with what was generated for it.
LEMMA CancelIsWithdraw ==
  ASSUME QInv, CancelRow
  PROVE  \E s \in Seqs : Service!Withdraw(s)
<1>1. PICK s : s = Head(BM!Keep(waiting \o running, targets))
  OBVIOUS
<1>2. /\ phase = "cancel" /\ release(s)
      /\ status' = [status EXCEPT ![s] = "CANCELLED"]
      /\ request' = request
  BY <1>1 DEF CancelRow
<1>3. s \in Seqs /\ s \in Queued
  BY <1>1, <1>2, NextTarget
<1>4. status[s] \in Pending
  BY <1>2, <1>3 DEF QInv, QueuesInv, Queued, active, Leaving, Pending
<1>5. token_ids' = token_ids
  BY <1>2, ReleaseEffect DEF release, bmVars
<1>6. SeenOutput' = SeenOutput
  BY <1>2, <1>5 DEF SeenOutput, Completion
<1>7. SeenState[s] = "pending" /\ SeenState' = [SeenState EXCEPT ![s] = "cancelled"]
  BY <1>2, <1>3, <1>4, SeenUpdate DEF Seen, Pending
<1> QED BY <1>2, <1>3, <1>6, <1>7, ServiceIs

\* Every step of the scheduler is a step of the service, or not seen.
LEMMA NextIsService ==
  ASSUME QInv, [Next]_vars
  PROVE  [Service!Next]_(Service!serviceVars)
<1>1. ASSUME NEW s \in Seqs, NEW r \in Requests, add_request(s, r) PROVE Service!Next
  BY <1>1, AddIsSubmit DEF Service!Next
<1>2. CASE Schedule
  BY <1>2, ScheduleUnseen
<1>3. ASSUME StartStep \/ Run \/ RunFails \/ CommitRow \/ FinishRow
               \/ (\E T \in SUBSET Queued : Cancel(T)) \/ Retry \/ UNCHANGED vars
      PROVE  UNCHANGED Service!serviceVars
  <2>1. UNCHANGED <<token_ids, request, status>>
    BY <1>3, StoreEffect, CommitEffect, ReleaseEffect
       DEF StartStep, Run, RunFails, CommitRow, FinishRow, Cancel, Retry, vars, bmVars, reqVars
  <2> QED BY <2>1, Unseen
<1>4. ASSUME NEW t \in Token, EmitToken(t) PROVE Service!Next
  <2>1. scheduled_seqs[row] \in Seqs
    BY <1>4, CurrentRow DEF EmitToken
  <2> QED BY <1>4, <2>1, EmitIsEmit DEF Service!Next
<1>5. CASE CancelRow
  BY <1>5, CancelIsWithdraw DEF Service!Next
<1> QED BY <1>1, <1>2, <1>3, <1>4, <1>5 DEF Next, Postprocess, CleanUp, Rest

\* Batching, chunking, preemption, failures and retries are invisible in the output: seen
\* by its users, the scheduler is the request service.
THEOREM SchedulerImplementsService == Spec => ImplementsService
<1>1. Init => Service!Init
  <2> SUFFICES ASSUME Init PROVE Service!Init
    OBVIOUS
  <2>1. /\ request = [s \in Seqs |-> [prompt |-> <<>>, max_tokens |-> 0, ignore_eos |-> FALSE]]
        /\ status = [s \in Seqs |-> "NONE"] /\ token_ids = [s \in Seqs |-> <<>>]
    BY DEF Init, BM!Init
  <2>2. SeenState = [s \in Seqs |-> "absent"]
    BY <2>1 DEF SeenState, Seen
  <2>3. \A s \in Seqs : Completion(s) = <<>>
    <3>1. SubSeq(<<>>, 0 + 1, 0) = <<>>
      OBVIOUS
    <3> QED BY <2>1, <3>1 DEF Completion
  <2>4. SeenOutput = [s \in Seqs |-> <<>>]
    BY <2>3 DEF SeenOutput
  <2> QED BY <2>1, <2>2, <2>4, ServiceIs
<1>2. QInv /\ [Next]_vars => [Service!Next]_(Service!serviceVars)
  BY NextIsService
<1> QED BY <1>1, <1>2, QueueInvariance, PTL DEF Spec, ImplementsService, Service!Spec

-----------------------------------------------------------------------------
(* The inductive invariant *)

\* The sequences whose row of the batch is still to be committed.
RowsFrom(k) == {scheduled_seqs[i] : i \in k .. Len(scheduled_seqs)}

Open ==
  CASE phase \in {"decode", "prefill", "run", "failed"} -> RowsFrom(1)
    [] phase = "commit" -> RowsFrom(row)
    [] phase \in {"emit", "finish"} -> RowsFrom(row + 1)
    [] phase \in {"idle", "cancel"} -> {}

\* The row between its commit and the end of its turn.
Current(s) == phase \in {"emit", "finish"} /\ s = scheduled_seqs[row]

\* A sequence whose tokens and table are in motion, or about to go.
Loose(s) == s \in Open \/ Current(s) \/ (phase = "cancel" /\ s \in targets)

\* All tokens but the last are cached, and the table is no longer than they need.
Ready(s) ==
  /\ num_cached_tokens[s] > 0
  /\ num_cached_tokens[s] = Len(token_ids[s]) - 1
  /\ Len(block_table[s]) = BM!BlocksFor(num_cached_tokens[s])

\* The scheduled tokens of s exist and fit its table; only a chunk cut short leaves some.
Fits(s) ==
  /\ num_scheduled_tokens[s] > 0
  /\ num_cached_tokens[s] + num_scheduled_tokens[s] <= Len(token_ids[s])
  /\ num_cached_tokens[s] + num_scheduled_tokens[s] <= BlockSize * Len(block_table[s])
  /\ s # mid_chunk_seq =>
       /\ num_cached_tokens[s] + num_scheduled_tokens[s] = Len(token_ids[s])
       /\ Len(block_table[s]) = BM!BlocksFor(Len(token_ids[s]))

\* The forward pass has stored what the row of s will commit.
Stored(s) ==
  BM!Computed(s, num_cached_tokens[s], num_cached_tokens[s] + num_scheduled_tokens[s] - 1)

Postprocessing == {"commit", "emit", "finish"}

\* What a sequence has in every phase: blocks if it runs or is the partial prefill,
\* which has no more of them than its prompt needs; a table that fits its tokens.
SeqInv(s) ==
  /\ block_table[s] # <<>> <=> (s \in Range(active) \/ s = mid_chunk_seq)
  /\ s = mid_chunk_seq => Len(block_table[s]) <= BM!BlocksFor(Len(token_ids[s]))
  /\ s \in Range(active) /\ ~Loose(s) => Ready(s)
  /\ s \in Open /\ phase # "failed" => Fits(s)
  /\ s \in Open /\ phase \in Postprocessing => Stored(s)
  /\ Current(s) /\ phase = "emit" =>
       /\ num_cached_tokens[s] = Len(token_ids[s])
       /\ Len(block_table[s]) = BM!BlocksFor(Len(token_ids[s]))

\* A decode row computes its last token and nothing else.
Decodes(s) ==
  /\ s \in Range(active)
  /\ num_scheduled_tokens[s] = 1
  /\ num_cached_tokens[s] > 0
  /\ num_cached_tokens[s] = Len(token_ids[s]) - 1

\* The decode rows come first.
DecodesInv ==
  /\ phase = "decode" => \A s \in Range(scheduled_seqs) : Decodes(s)
  /\ phase \in {"prefill", "run"} =>
       /\ num_decodes <= Len(scheduled_seqs)
       /\ \A i \in 1 .. num_decodes : Decodes(scheduled_seqs[i])

\* What the batch is charged.
ChargeInv ==
  phase \in {"prefill", "run"} =>
    num_batched_tokens = Cardinality(RowTokens(Range(scheduled_seqs)))

\* There is work, and an empty batch has left all of it waiting.
WorkInv ==
  /\ phase = "decode" => waiting # <<>> \/ active # <<>>
  /\ phase = "prefill" /\ scheduled_seqs = <<>> => running = <<>> /\ waiting # <<>>
  /\ phase = "failed" => scheduled_seqs # <<>>

StepInv == (\A s \in Seqs : SeqInv(s)) /\ DecodesInv /\ ChargeInv /\ WorkInv

\* The inductive invariant, for callers that do not retry a failed decode step.
IInv == QInv /\ BMP!IInv /\ StepInv

-----------------------------------------------------------------------------
(* The allocator, as the scheduler uses it *)

\* The scheduler's instance of the allocator and that of the proofs about it are one.
LEMMA SameSteps == BM!Next <=> BMP!Next
  BY DEF BM!Next, BMP!Next, BM!Forward, BMP!Forward, BM!PagedSlots, BMP!PagedSlots,
         BM!SlotOf, BMP!SlotOf, BM!store_kvcache, BMP!store_kvcache, BM!Blocks, BMP!Blocks,
         BM!seqVars, BMP!seqVars, BM!indexVars, BMP!indexVars, BM!poolVars, BMP!poolVars,
         BM!Covered, BMP!Covered, BM!num_tokens, BMP!num_tokens,
         BM!RollbackAppends, BMP!RollbackAppends,
         BM!rollback_uncommitted_appends, BMP!rollback_uncommitted_appends, BM!Range, BMP!Range,
         BM!NoHash, BMP!NoHash, BM!RowGroups, BMP!RowGroups, BM!IsInjective, BMP!IsInjective,
         BM!Cardinality, BMP!Cardinality, BM!AppendToken, BMP!AppendToken,
         BM!append_token, BMP!append_token, BM!Commit, BMP!Commit, BM!commit, BMP!commit,
         BM!hash_blocks, BMP!hash_blocks, BM!Completed, BMP!Completed,
         BM!ChainSoFar, BMP!ChainSoFar, BM!Computed, BMP!Computed, BM!Holds, BMP!Holds,
         BM!Deallocate, BMP!Deallocate, BM!deallocate, BMP!deallocate, BM!Released, BMP!Released,
         BM!Reversed, BMP!Reversed, BM!Keep, BMP!Keep, BM!NthKept, BMP!NthKept,
         BM!KeptUpTo, BMP!KeptUpTo, BM!KeptAt, BMP!KeptAt, BM!Dereferenced, BMP!Dereferenced,
         BM!MayAppend, BMP!MayAppend, BM!may_append, BMP!may_append,
         BM!take_blocks, BMP!take_blocks, BM!ResetHashes, BMP!ResetHashes,
         BM!StaleEntries, BMP!StaleEntries, BM!Restrict, BMP!Restrict,
         BM!BlocksFor, BMP!BlocksFor, BM!Extend, BMP!Extend, BM!extend, BMP!extend,
         BM!missing_blocks, BMP!missing_blocks, BM!AllocateIncremental, BMP!AllocateIncremental,
         BM!allocate_incremental, BMP!allocate_incremental, BM!PrefixHash, BMP!PrefixHash,
         BM!Hit, BMP!Hit, BM!num_blocks, BMP!num_blocks, BM!Create, BMP!Create,
         BM!new_sequence, BMP!new_sequence

\* Likewise for what is known of it.
LEMMA SameFacts ==
  /\ BM!TypeOK <=> BMP!TypeOK
  /\ BM!CachedIsComputed <=> BMP!CachedIsComputed
<1>1. BM!TypeOK <=> BMP!TypeOK
  BY DEF BM!TypeOK, BMP!TypeOK, BM!Blocks, BMP!Blocks
<1>2. BM!CachedIsComputed <=> BMP!CachedIsComputed
  BY DEF BM!CachedIsComputed, BMP!CachedIsComputed, BM!Computed, BMP!Computed,
         BM!SlotOf, BMP!SlotOf, BM!Holds, BMP!Holds
<1> QED BY <1>1, <1>2

\* A call that respects the contract keeps the allocator's invariant.
LEMMA AllocatorKeeps ==
  ASSUME BMP!IInv, BM!Next \/ UNCHANGED bmVars
  PROVE  BMP!IInv'
<1>1. [BMP!Next]_(BMP!bmVars)
  BY SameSteps DEF bmVars, BMP!bmVars, BMP!poolVars, BMP!indexVars, BMP!seqVars
<1> QED BY <1>1, AllocatorAssumption, BMP!NextInv DEF BMP!BlockManagerAssumption

\* What the scheduler uses of the allocator's invariant.
LEMMA AllocatorFacts ==
  ASSUME BMP!IInv
  PROVE  /\ BM!TypeOK
         /\ BM!CachedIsComputed
         /\ \A s \in Seqs : /\ num_cached_tokens[s] <= Len(token_ids[s])
                            /\ num_cached_tokens[s] <= BlockSize * Len(block_table[s])
  BY SameFacts DEF BMP!IInv, BMP!PoolInv, BMP!HashChain, BMP!num_tokens

\* A call that respects the contract leaves tables.
LEMMA TablesTyped ==
  ASSUME BMP!IInv, BM!Next
  PROVE  block_table' \in [Seqs -> Seq(BM!Blocks)]
  BY AllocatorKeeps DEF BMP!IInv, BMP!PoolInv, BMP!TypeOK, BMP!Blocks, BM!Blocks

\* When no sequence holds a block the whole pool is free.
LEMMA PoolIsFree ==
  ASSUME BMP!IInv, \A s \in Seqs : block_table[s] = <<>>
  PROVE  used_block_ids = {} /\ Len(free_block_ids) = NumBlocks
  BY AllocatorAssumption, BMP!IdlePool DEF BMP!BlockManagerAssumption

\* An allocated table covers exactly the chunk it is for.
LEMMA AllocatedTable ==
  ASSUME BMP!IInv, NEW s \in Seqs, NEW c \in Nat, NEW n \in Nat, BM!AllocateIncremental(s, c, n)
  PROVE  Len(block_table'[s]) = BM!BlocksFor(n)
<1>1. BMP!AllocateIncremental(s, c, n)
  BY DEF BM!AllocateIncremental, BMP!AllocateIncremental,
         BM!allocate_incremental, BMP!allocate_incremental, BM!Range, BMP!Range,
         BM!ResetHashes, BMP!ResetHashes, BM!StaleEntries, BMP!StaleEntries,
         BM!Restrict, BMP!Restrict, BM!NoHash, BMP!NoHash, BM!Blocks, BMP!Blocks,
         BM!Cardinality, BMP!Cardinality, BM!Keep, BMP!Keep, BM!NthKept, BMP!NthKept,
         BM!KeptUpTo, BMP!KeptUpTo, BM!KeptAt, BMP!KeptAt, BM!BlocksFor, BMP!BlocksFor,
         BM!PrefixHash, BMP!PrefixHash, BM!Hit, BMP!Hit, BM!num_tokens, BMP!num_tokens
<1>2. Len(block_table'[s]) = BMP!BlocksFor(n)
  BY <1>1, AllocatorAssumption, BMP!AllocateKeepsInv DEF BMP!BlockManagerAssumption
<1> QED BY <1>2 DEF BM!BlocksFor, BMP!BlocksFor

\* A forward pass stores the rows it is asked for.
LEMMA ForwardStores ==
  ASSUME BMP!IInv, NEW n \in [Seqs -> 0 .. MaxModelLen + 1], BM!Forward(n), NEW s \in Seqs, n[s] > 0
  PROVE  BM!Computed(s, num_cached_tokens[s], num_cached_tokens[s] + n[s] - 1)'
<1>1. BMP!Forward(n)
  BY DEF BM!Forward, BMP!Forward, BM!PagedSlots, BMP!PagedSlots, BM!SlotOf, BMP!SlotOf,
         BM!store_kvcache, BMP!store_kvcache, BM!Blocks, BMP!Blocks, BM!seqVars, BMP!seqVars,
         BM!indexVars, BMP!indexVars, BM!poolVars, BMP!poolVars, BM!Covered, BMP!Covered,
         BM!num_tokens, BMP!num_tokens
<1>2. BMP!Computed(s, num_cached_tokens[s], num_cached_tokens[s] + n[s] - 1)'
  BY <1>1, AllocatorAssumption, BMP!ForwardComputes DEF BMP!BlockManagerAssumption
<1> QED BY <1>2 DEF BM!Computed, BMP!Computed, BM!SlotOf, BMP!SlotOf, BM!Holds, BMP!Holds

-----------------------------------------------------------------------------
(* Blocks for tokens *)

\* Block boundaries are ordered like block numbers.
LEMMA Multiples ==
  ASSUME NEW b \in Nat \ {0}, NEW i \in Nat, NEW j \in Nat
  PROVE  /\ i <= j <=> b * i <= b * j
         /\ b * (i + 1) = b * i + b
  OBVIOUS

\* BlocksFor(n) is the least number of blocks with room for n tokens.
LEMMA Blocks ==
  ASSUME NEW n \in Nat
  PROVE  /\ BM!BlocksFor(n) \in Nat
         /\ \A k \in Nat : BM!BlocksFor(n) <= k <=> n <= BlockSize * k
<1>1. PICK b \in Nat \ {0} : b = BlockSize
  BY Constants
<1>2. PICK q \in Nat, r \in 0 .. b - 1 : n + b - 1 = b * q + r /\ q = (n + b - 1) \div b
  OBVIOUS
<1>3. BM!BlocksFor(n) = q
  BY <1>1, <1>2 DEF BM!BlocksFor
<1>4. ASSUME NEW k \in Nat PROVE q <= k <=> n <= b * k
  <2>1. PICK x \in Nat, y \in Nat : x = b * q /\ y = b * k
    OBVIOUS
  <2>2. CASE q <= k
    <3>1. x <= y
      BY <2>1, <2>2, Multiples
    <3> QED BY <1>2, <2>1, <2>2, <3>1
  <2>3. CASE k < q
    <3>1. b * (k + 1) <= b * q /\ b * (k + 1) = b * k + b
      BY <2>3, Multiples
    <3> QED BY <1>2, <2>1, <2>3, <3>1
  <2> QED BY <2>2, <2>3
<1> QED BY <1>1, <1>3, <1>4

\* More tokens need no fewer blocks.
LEMMA MoreBlocks ==
  ASSUME NEW m \in Nat, NEW n \in Nat, m <= n
  PROVE  BM!BlocksFor(m) <= BM!BlocksFor(n)
<1>1. PICK j \in Nat : j = BM!BlocksFor(n)
  BY Blocks
<1>2. n <= BlockSize * j /\ BlockSize * j \in Nat
  BY <1>1, Blocks, Constants
<1>3. m <= BlockSize * j
  BY <1>2
<1> QED BY <1>1, <1>3, Blocks

\* One token more needs a block more exactly if it is the first of a block.
LEMMA NextBlock ==
  ASSUME NEW n \in Nat \ {0, 1}
  PROVE  BM!BlocksFor(n) = BM!BlocksFor(n - 1) + (IF n % BlockSize = 1 THEN 1 ELSE 0)
<1>1. PICK b \in Nat \ {0, 1} : b = BlockSize
  BY SchedulerAssumption DEF SchedulerAssumption
<1>2. PICK q \in Nat, r \in 0 .. b - 1 : n = b * q + r /\ r = n % b
  <2>1. n \div b \in Nat /\ n % b \in 0 .. b - 1 /\ n = b * (n \div b) + (n % b)
    OBVIOUS
  <2> QED BY <2>1
<1>3. PICK x \in Nat : x = b * q
  OBVIOUS
<1>4. PICK i \in Nat : i = BM!BlocksFor(n - 1) /\ \A k \in Nat : i <= k <=> n - 1 <= b * k
  BY <1>1, Blocks
<1>5. PICK j \in Nat : j = BM!BlocksFor(n) /\ \A k \in Nat : j <= k <=> n <= b * k
  BY <1>1, Blocks
<1>6. b * (q + 1) = x + b
  BY <1>3, Multiples
<1>7. CASE r = 0
  <2>1. j <= q
    <3>1. n <= b * q
      BY <1>2, <1>3, <1>7
    <3> QED BY <1>5, <3>1
  <2>2. i <= q
    <3>1. n - 1 <= b * q
      BY <1>2, <1>3, <1>7
    <3> QED BY <1>4, <3>1
  <2>3. ASSUME NEW k \in Nat, k < q PROVE b * k < n - 1
    <3>1. b * (k + 1) <= b * q /\ b * (k + 1) = b * k + b
      BY <2>3, Multiples
    <3> QED BY <1>2, <1>3, <1>7, <3>1
  <2>4. i = q /\ j = q
    <3>1. ~(i < q)
      <4> SUFFICES ASSUME i < q PROVE FALSE
        OBVIOUS
      <4>1. b * i < n - 1 /\ b * i \in Nat
        BY <2>3
      <4>2. n - 1 <= b * i
        BY <1>4
      <4> QED BY <4>1, <4>2
    <3>2. ~(j < q)
      <4> SUFFICES ASSUME j < q PROVE FALSE
        OBVIOUS
      <4>1. b * j < n - 1 /\ b * j \in Nat
        BY <2>3
      <4>2. n <= b * j
        BY <1>5
      <4> QED BY <4>1, <4>2
    <3> QED BY <2>1, <2>2, <3>1, <3>2
  <2>5. n % BlockSize # 1
    BY <1>1, <1>2, <1>7
  <2> QED BY <1>4, <1>5, <2>4, <2>5
<1>8. CASE r # 0
  <2>1. j = q + 1
    <3>1. ~(j <= q) /\ j <= q + 1
      BY <1>2, <1>3, <1>5, <1>6, <1>8
    <3> QED BY <3>1
  <2>2. i <= q <=> r = 1
    BY <1>2, <1>3, <1>4, <1>8
  <2>3. i <= q + 1
    BY <1>2, <1>3, <1>4, <1>6
  <2>4. r = 1 => i = q
    <3> SUFFICES ASSUME r = 1, i < q PROVE FALSE
      BY <2>2
    <3>1. b * (i + 1) <= b * q /\ b * (i + 1) = b * i + b
      BY Multiples
    <3>2. n - 1 <= b * i
      BY <1>4
    <3> QED BY <1>2, <1>3, <3>1, <3>2
  <2>5. n % BlockSize = 1 <=> r = 1
    BY <1>1, <1>2
  <2>6. j = i + (IF r = 1 THEN 1 ELSE 0)
    BY <2>1, <2>2, <2>3, <2>4
  <2> QED BY <1>4, <1>5, <2>5, <2>6
<1> QED BY <1>7, <1>8

-----------------------------------------------------------------------------
(* What is known of a sequence *)

\* The counts of a sequence, and how they bound each other.
LEMMA Counts ==
  ASSUME QInv, BMP!IInv, NEW s \in Seqs
  PROVE  /\ Len(token_ids[s]) \in Nat
         /\ num_cached_tokens[s] \in Nat
         /\ num_scheduled_tokens[s] \in Nat
         /\ Len(block_table[s]) \in Nat
         /\ block_table[s] = <<>> <=> Len(block_table[s]) = 0
         /\ BM!BlocksFor(Len(token_ids[s])) \in Nat
         /\ BM!BlocksFor(num_cached_tokens[s]) \in Nat
         /\ num_cached_tokens[s] <= Len(token_ids[s])
         /\ num_cached_tokens[s] <= BlockSize * Len(block_table[s])
<1>1. /\ token_ids[s] \in Seq(Token) /\ num_cached_tokens[s] \in Nat
      /\ num_scheduled_tokens[s] \in 0 .. MaxNumBatchedTokens
  BY DEF QInv, QueueTypes
<1>2. block_table[s] \in Seq(BM!Blocks)
  BY AllocatorFacts DEF BM!TypeOK
<1>3. /\ Len(token_ids[s]) \in Nat /\ Len(block_table[s]) \in Nat
      /\ block_table[s] = <<>> <=> Len(block_table[s]) = 0
  BY <1>1, <1>2, EmptySeq, LenProperties
<1>4. num_scheduled_tokens[s] \in Nat
  BY <1>1, Constants
<1> QED BY <1>1, <1>3, <1>4, AllocatorFacts, Blocks

\* A live request fits the model and the pool.
LEMMA Live ==
  ASSUME QInv, NEW s \in Seqs, status[s] \in {"WAITING", "RUNNING"}
  PROVE  /\ Len(token_ids[s]) \in 1 .. MaxModelLen
         /\ BM!BlocksFor(Len(token_ids[s])) <= NumBlocks
<1>1. /\ request[s] \in Requests /\ Admissible(request[s])
      /\ Len(token_ids[s]) < Len(request[s].prompt) + request[s].max_tokens
      /\ Len(token_ids[s]) >= Len(request[s].prompt)
  BY DEF QInv, TokensInv
<1>2. PICK p \in Nat \ {0}, m \in Nat \ {0}, n \in Nat :
        p = Len(request[s].prompt) /\ m = request[s].max_tokens /\ n = Len(token_ids[s])
  BY CompletionLen
<1>3. p + m - 1 <= MaxModelLen /\ BM!BlocksFor(p + m - 1) <= NumBlocks
  BY <1>1, <1>2 DEF Admissible
<1>4. n <= p + m - 1 /\ n >= 1 /\ p + m - 1 \in Nat /\ MaxModelLen \in Nat /\ NumBlocks \in Nat
  BY <1>1, <1>2, SchedulerAssumption DEF SchedulerAssumption
<1>5. BM!BlocksFor(n) <= BM!BlocksFor(p + m - 1)
  BY <1>4, MoreBlocks
<1>6. BM!BlocksFor(n) \in Nat /\ BM!BlocksFor(p + m - 1) \in Nat
  BY <1>4, Blocks
<1> QED BY <1>2, <1>3, <1>4, <1>5, <1>6

\* Waiting, running and mid-chunk sequences.
LEMMA Members ==
  ASSUME QInv
  PROVE  /\ waiting \in Seq(Seqs) /\ running \in Seq(Seqs) /\ scheduled_seqs \in Seq(Seqs)
         /\ active \in Seq(Seqs)
         /\ Range(waiting) \subseteq Seqs /\ Range(active) \subseteq Seqs
         /\ Range(running) \subseteq Range(active)
         /\ Range(scheduled_seqs) \subseteq Seqs
         /\ Len(scheduled_seqs) \in Nat
         /\ mid_chunk_seq \notin Range(active)
         /\ mid_chunk_seq # None => mid_chunk_seq \in Seqs /\ status[mid_chunk_seq] = "WAITING"
         /\ \A s \in Range(waiting) : status[s] = "WAITING" /\ s \notin Range(active)
         /\ \A s \in Range(active) : ~Leaving(s) => status[s] = "RUNNING"
         /\ RowsFrom(1) = Range(scheduled_seqs)
<1>1. waiting \in Seq(Seqs) /\ running \in Seq(Seqs) /\ scheduled_seqs \in Seq(Seqs)
  BY DEF QInv, QueueTypes
<1>2. active \in Seq(Seqs) /\ Range(running) \subseteq Range(active)
  BY <1>1, JoinSpec DEF active
<1>3. /\ Range(waiting) \subseteq Seqs /\ Range(active) \subseteq Seqs
      /\ Range(scheduled_seqs) \subseteq Seqs
  BY <1>1, <1>2, RangeIs
<1>4. Range(waiting) \cap Range(active) = {}
  BY DEF QInv, QueuesInv
<1>5. mid_chunk_seq # None => mid_chunk_seq \in Range(waiting)
  <2> SUFFICES ASSUME mid_chunk_seq # None PROVE mid_chunk_seq \in Range(waiting)
    OBVIOUS
  <2>1. waiting # <<>> /\ Head(waiting) = mid_chunk_seq
    BY DEF QInv, QueuesInv
  <2> QED BY <1>1, <2>1, PopSpec
<1>6. mid_chunk_seq \notin Range(active)
  BY <1>3, <1>4, <1>5, Constants
<1>7. /\ \A s \in Range(waiting) : status[s] = "WAITING" /\ s \notin Range(active)
      /\ \A s \in Range(active) : ~Leaving(s) => status[s] = "RUNNING"
  BY <1>3, <1>4 DEF QInv, QueuesInv
<1>8. RowsFrom(1) = Range(scheduled_seqs) /\ Len(scheduled_seqs) \in Nat
  BY <1>1, LenProperties DEF RowsFrom, Range
<1> QED BY <1>1, <1>2, <1>3, <1>5, <1>6, <1>7, <1>8

\* The open rows of a batch that is complete run, or are the partial prefill.
LEMMA OpenRows ==
  ASSUME QInv, phase \in Batching
  PROVE  /\ \A s \in Open : s \in Seqs /\ (s \in Range(running) \/ s = mid_chunk_seq)
         /\ active = running
<1>1. active = running /\ phase # "decode" /\ phase # "failed"
  BY DEF active, Batching
<1>2. PICK k \in Nat : Open = RowsFrom(k) /\ k >= 1 /\ k >= row
  <2>1. phase \in {"prefill", "run"} => Open = RowsFrom(1) /\ row = 0
    BY DEF Open, QInv, BatchInv
  <2>2. phase = "commit" => Open = RowsFrom(row)
    BY DEF Open
  <2>3. phase \in {"emit", "finish"} => Open = RowsFrom(row + 1)
    BY DEF Open
  <2>4. phase \in Postprocessing => row \in 1 .. Len(scheduled_seqs)
    BY DEF QInv, BatchInv, Postprocessing
  <2>5. Len(scheduled_seqs) \in Nat
    BY Members
  <2>6. row \in Nat
    <3>1. row \in 0 .. MaxNumSeqs /\ MaxNumSeqs \in Nat
      BY Constants DEF QInv, QueueTypes
    <3> QED BY <3>1
  <2>7. CASE phase \in {"prefill", "run"}
    BY <2>1, <2>7
  <2>8. CASE phase = "commit"
    BY <2>2, <2>4, <2>5, <2>6, <2>8 DEF Postprocessing
  <2>9. CASE phase \in {"emit", "finish"}
    BY <2>3, <2>6, <2>9
  <2> QED BY <2>7, <2>8, <2>9 DEF Batching
<1>3. ASSUME NEW s \in Open PROVE s \in Seqs /\ (s \in Range(running) \/ s = mid_chunk_seq)
  <2>1. PICK i \in k .. Len(scheduled_seqs) : s = scheduled_seqs[i]
    BY <1>2, <1>3 DEF RowsFrom
  <2>2. i \in 1 .. Len(scheduled_seqs) /\ i >= row
    <3>1. row \in Int /\ Len(scheduled_seqs) \in Nat
      BY Members DEF QInv, QueueTypes
    <3> QED BY <1>2, <2>1, <3>1
  <2>3. RowInv(i)
    BY <2>2 DEF QInv, BatchInv
  <2>4. s \in Seqs
    BY <2>1, <2>2, Members
  <2> QED BY <2>1, <2>3, <2>4 DEF RowInv
<1> QED BY <1>1, <1>3

\* Nothing happens to a sequence.
Kept(s) ==
  /\ token_ids'[s] = token_ids[s]
  /\ num_cached_tokens'[s] = num_cached_tokens[s]
  /\ num_scheduled_tokens'[s] = num_scheduled_tokens[s]
  /\ block_table'[s] = block_table[s]

\* What is stored stays, unless the forward pass runs.
LEMMA StoredStays ==
  ASSUME NEW s, Kept(s), kv' = kv, Stored(s)
  PROVE  Stored(s)'
  BY DEF Kept, Stored, BM!Computed, BM!Holds, BM!SlotOf

\* A sequence that nothing happens to keeps what is known of it.
LEMMA SeqStays ==
  ASSUME NEW s \in Seqs, SeqInv(s), Kept(s),
         s \in Range(active)' <=> s \in Range(active),
         s = mid_chunk_seq' <=> s = mid_chunk_seq,
         s \in Range(active) /\ ~Loose(s)' => ~Loose(s),
         s \in Open' /\ phase' # "failed" => s \in Open /\ phase # "failed",
         s \in Open' /\ phase' \in Postprocessing => Stored(s)',
         ~(Current(s)' /\ phase' = "emit")
  PROVE  SeqInv(s)'
<1>1. BM!BlocksFor(Len(token_ids[s]))' = BM!BlocksFor(Len(token_ids[s]))
  BY DEF Kept, BM!BlocksFor
<1>2. Ready(s) => Ready(s)'
  BY DEF Kept, Ready, BM!BlocksFor
<1>3. Fits(s) => Fits(s)'
  BY <1>1 DEF Kept, Fits
<1> QED BY <1>1, <1>2, <1>3 DEF SeqInv, Kept

-----------------------------------------------------------------------------
(* Steps that leave every sequence alone *)

\* Nothing happens to any sequence.
LEMMA AllKept ==
  ASSUME UNCHANGED <<bmVars, num_scheduled_tokens>>
  PROVE  kv' = kv /\ \A s : Kept(s)
  BY DEF bmVars, Kept

\* schedule() begins.
LEMMA StartStays ==
  ASSUME IInv, StartStep
  PROVE  StepInv'
<1>1. /\ phase = "idle" /\ Queued # {} /\ phase' = "decode" /\ scheduled_seqs' = <<>>
      /\ UNCHANGED <<running, waiting, mid_chunk_seq>> /\ kv' = kv /\ \A s : Kept(s)
  BY AllKept DEF StartStep, rowVars, queueVars
<1>2. active' = active
  <2>1. running \in Seq(Seqs) /\ active = running
    BY <1>1, Members DEF IInv, active
  <2> QED BY <1>1, <2>1 DEF active
<1>3. Open' = {}
  <2>1. RowsFrom(1)' = {}
    BY <1>1 DEF RowsFrom
  <2> QED BY <1>1, <2>1 DEF Open
<1>4. Open = {} /\ \A s : ~Current(s) /\ ~Current(s)' /\ ~Loose(s)
  BY <1>1 DEF Open, Current, Loose
<1>5. \A s \in Seqs : SeqInv(s)'
  BY <1>1, <1>2, <1>3, <1>4, SeqStays DEF IInv, StepInv
<1>6. DecodesInv' /\ ChargeInv'
  BY <1>1 DEF DecodesInv, ChargeInv, Range
<1>7. WorkInv'
  <2>1. waiting # <<>> \/ running # <<>>
    BY <1>1 DEF Queued, Range
  <2>2. active = running
    BY <1>1 DEF active
  <2> QED BY <1>1, <1>2, <2>1, <2>2 DEF WorkInv
<1> QED BY <1>5, <1>6, <1>7 DEF StepInv

\* cancel() has collected its targets: some of the idle requests, or all that are left of a
\* failed step.
LEMMA CancelStays ==
  ASSUME IInv, NEW T, Cancel(T), phase = "idle" \/ T = Queued
  PROVE  StepInv'
<1>1. /\ phase \in {"idle", "failed"} /\ phase' = "cancel" /\ targets' = T
      /\ UNCHANGED <<running, waiting, mid_chunk_seq, scheduled_seqs, row>> /\ kv' = kv /\ \A s : Kept(s)
  BY AllKept DEF Cancel, rowVars, queueVars, stepVars
<1>2. active' = active /\ active = running
  BY <1>1 DEF active
<1>3. Open' = {} /\ \A s : ~Current(s) /\ ~Current(s)'
  BY <1>1 DEF Open, Current
<1>4. \A s \in Range(active) : ~Loose(s)' => ~Loose(s)
  <2>1. CASE phase = "idle"
    BY <2>1 DEF Loose, Open, Current
  <2>2. CASE T = Queued
    BY <1>1, <1>2, <2>2 DEF Loose, Queued
  <2> QED BY <2>1, <2>2
<1>5. \A s \in Seqs : SeqInv(s)'
  BY <1>1, <1>2, <1>3, <1>4, SeqStays DEF IInv, StepInv
<1>6. DecodesInv' /\ ChargeInv' /\ WorkInv'
  BY <1>1 DEF DecodesInv, ChargeInv, WorkInv
<1> QED BY <1>5, <1>6 DEF StepInv

\* A failed step that is stepped over safely: it ran nothing but a chunk inside a prompt,
\* or its decode rows were put back to where they were scheduled from.
Retriable ==
  \/ RetryAfterFailure = "chunk"
  \/ \A s \in Range(scheduled_seqs) : s \in Range(active) => Ready(s)

\* The caller steps again after such a step.
LEMMA RetryStays ==
  ASSUME IInv, Retry, Retriable
  PROVE  StepInv'
<1>1. /\ phase = "failed" /\ phase' = "idle"
      /\ RetryAfterFailure = "chunk" => scheduled_seqs = <<mid_chunk_seq>>
      /\ UNCHANGED <<running, waiting, mid_chunk_seq, scheduled_seqs, row>> /\ kv' = kv /\ \A s : Kept(s)
  BY AllKept DEF Retry, rowVars, queueVars, stepVars
<1>2. active' = active
  BY <1>1 DEF active
<1>3. Open' = {} /\ \A s : ~Current(s) /\ ~Current(s)'
  BY <1>1 DEF Open, Current
<1>4. \A s \in Range(active) : Loose(s) => Ready(s)
  <2>1. Open = Range(scheduled_seqs)
    BY <1>1, Members DEF Open, IInv
  <2>2. \A s \in Range(active) : Loose(s) => s \in Range(scheduled_seqs)
    BY <1>1, <1>3, <2>1 DEF Loose
  <2>3. CASE RetryAfterFailure = "chunk"
    <3>1. Range(scheduled_seqs) = {mid_chunk_seq}
      BY <1>1, <2>3 DEF Range
    <3> QED BY <2>2, <3>1, Members DEF IInv
  <2>4. CASE RetryAfterFailure # "chunk"
    BY <2>2, <2>4 DEF Retriable
  <2> QED BY <2>3, <2>4
<1>5. \A s \in Seqs : SeqInv(s)'
  <2> SUFFICES ASSUME NEW s \in Seqs PROVE SeqInv(s)'
    OBVIOUS
  <2>1. SeqInv(s) /\ Kept(s)
    BY <1>1 DEF IInv, StepInv
  <2>2. s \in Range(active) => Ready(s)
    BY <1>4, <2>1 DEF SeqInv
  <2>3. Ready(s) => Ready(s)'
    BY <2>1 DEF Ready, Kept
  <2> QED BY <1>1, <1>2, <1>3, <2>1, <2>2, <2>3 DEF SeqInv, Kept, Postprocessing
<1>6. DecodesInv' /\ ChargeInv' /\ WorkInv'
  BY <1>1 DEF DecodesInv, ChargeInv, WorkInv
<1> QED BY <1>5, <1>6 DEF StepInv

\* Nothing changes when nothing does.
LEMMA StutterStays ==
  ASSUME IInv, UNCHANGED vars
  PROVE  StepInv'
<1>1. /\ UNCHANGED <<running, waiting, mid_chunk_seq, scheduled_seqs, row, phase, targets>>
      /\ UNCHANGED <<num_scheduled_tokens, num_cached_tokens, token_ids, block_table, kv>>
      /\ UNCHANGED <<num_decodes, num_batched_tokens>>
  BY DEF vars, bmVars, rowVars, queueVars, stepVars
<1>2. active' = active /\ Open' = Open /\ \A s : (Current(s)' <=> Current(s)) /\ (Loose(s)' <=> Loose(s))
  BY <1>1 DEF active, Open, RowsFrom, Current, Loose
<1>3. \A s \in Seqs : SeqInv(s)'
  BY <1>1, <1>2 DEF IInv, StepInv, SeqInv, Ready, Fits, Stored, BM!Computed, BM!Holds, BM!SlotOf,
                    BM!BlocksFor
<1>4. DecodesInv'
  BY <1>1, <1>2 DEF IInv, StepInv, DecodesInv, Decodes
<1>5. ChargeInv' /\ WorkInv'
  BY <1>1, <1>2 DEF IInv, StepInv, ChargeInv, WorkInv, RowTokens
<1> QED BY <1>3, <1>4, <1>5 DEF StepInv

\* A new request holds nothing.
LEMMA AddStays ==
  ASSUME IInv, NEW s \in Seqs, NEW r \in Requests, add_request(s, r)
  PROVE  StepInv' /\ BM!Next
<1>1. /\ phase = "idle" /\ phase' = "idle" /\ status[s] = "NONE"
      /\ BM!new_sequence(s, r.prompt)
      /\ UNCHANGED <<num_scheduled_tokens, running, mid_chunk_seq, scheduled_seqs, row, targets>>
  BY DEF add_request, rowVars, stepVars
<1>2. /\ token_ids' = [token_ids EXCEPT ![s] = r.prompt]
      /\ UNCHANGED <<block_table, num_cached_tokens, kv>>
  BY <1>1 DEF BM!new_sequence
<1>3. token_ids \in [Seqs -> Seq(Token)] /\ token_ids[s] = <<>>
  BY <1>1 DEF IInv, QInv, QueueTypes, TokensInv
<1>4. BM!Next
  <2>1. BM!Create(s, r.prompt)
    BY <1>1, <1>3 DEF BM!Create
  <2>2. r.prompt \in {x.prompt : x \in Requests}
    OBVIOUS
  <2> QED BY <2>1, <2>2 DEF BM!Next
<1>5. active' = active /\ Open = {} /\ Open' = {} /\ \A x : ~Current(x) /\ ~Current(x)' /\ ~Loose(x)
  BY <1>1 DEF active, Open, Current, Loose
<1>6. s \notin Range(active) /\ s # mid_chunk_seq
  <2>1. \A x : ~Leaving(x)
    BY <1>1 DEF Leaving
  <2> QED BY <1>1, <2>1, Members, Constants DEF IInv
<1>7. \A x \in Seqs \ {s} : SeqInv(x)'
  <2>1. \A x \in Seqs \ {s} : Kept(x)
    BY <1>1, <1>2, <1>3 DEF Kept
  <2> QED BY <1>1, <1>5, <2>1, SeqStays DEF IInv, StepInv
<1>8. SeqInv(s)'
  <2>1. block_table[s] = <<>>
    BY <1>6 DEF IInv, StepInv, SeqInv
  <2> QED BY <1>1, <1>2, <1>5, <1>6, <2>1 DEF SeqInv
<1>9. DecodesInv' /\ ChargeInv' /\ WorkInv'
  BY <1>1 DEF DecodesInv, ChargeInv, WorkInv
<1> QED BY <1>4, <1>7, <1>8, <1>9 DEF StepInv

-----------------------------------------------------------------------------
(* The decode loop *)

\* Blocks from the free list are appended to one table.
LEMMA TableGrows ==
  ASSUME BM!TypeOK, NEW s \in Seqs, NEW n \in Nat, BM!take_blocks(s, n)
  PROVE  /\ Len(block_table'[s]) = Len(block_table[s]) + n
         /\ \A x \in Seqs \ {s} : block_table'[x] = block_table[x]
         /\ UNCHANGED <<token_ids, num_cached_tokens, kv>>
<1> DEFINE fresh == SubSeq(free_block_ids, 1, n)
<1>1. /\ Len(free_block_ids) >= n
      /\ block_table' = [block_table EXCEPT ![s] = @ \o fresh]
      /\ UNCHANGED <<token_ids, num_cached_tokens, kv>>
  BY DEF BM!take_blocks
<1>2. /\ free_block_ids \in Seq(BM!Blocks) /\ block_table \in [Seqs -> Seq(BM!Blocks)]
      /\ Len(free_block_ids) \in Nat
  BY LenProperties DEF BM!TypeOK
<1>3. fresh \in Seq(BM!Blocks) /\ Len(fresh) = n
  <2>1. \A i \in 1 .. n : free_block_ids[i] \in BM!Blocks
    BY <1>1, <1>2
  <2>2. /\ fresh \in Seq(BM!Blocks)
        /\ Len(fresh) = IF 1 <= n THEN n - 1 + 1 ELSE 0
    BY <2>1, SubSeqProperties
  <2> QED BY <2>2
<1>4. Len(block_table[s] \o fresh) = Len(block_table[s]) + n
  BY <1>2, <1>3, ConcatProperties
<1> HIDE DEF fresh
<1>5. block_table'[s] = block_table[s] \o fresh /\ \A x \in Seqs \ {s} : block_table'[x] = block_table[x]
  BY <1>1, <1>2
<1> QED BY <1>1, <1>4, <1>5

\* A decoder gets its row, and a block if its last token begins one.
LEMMA DecodeStays ==
  ASSUME IInv, DecodeRow
  PROVE  StepInv' /\ BM!Next
<1>1. PICK x : x = Head(running)
  OBVIOUS
<1>2. /\ phase = "decode" /\ phase' = "decode" /\ running # <<>>
      /\ running' = Tail(running) /\ scheduled_seqs' = Append(scheduled_seqs, x)
      /\ num_scheduled_tokens' = [num_scheduled_tokens EXCEPT ![x] = 1]
      /\ BM!may_append(x)
      /\ UNCHANGED <<waiting, mid_chunk_seq, row, targets>>
  BY <1>1 DEF DecodeRow, Decoding
<1>3. /\ running \in Seq(Seqs) /\ scheduled_seqs \in Seq(Seqs) /\ BM!TypeOK
      /\ num_scheduled_tokens \in [Seqs -> 0 .. MaxNumBatchedTokens]
  BY AllocatorFacts DEF IInv, QInv, QueueTypes
<1>4. x \in Seqs /\ x \in Range(running)
  BY <1>1, <1>2, <1>3, PopSpec
<1>5. active' = active /\ active = scheduled_seqs \o running
  BY <1>1, <1>2, <1>3, MoveSpec DEF active
<1>6. x \in Range(active) /\ x # mid_chunk_seq /\ x \notin Range(scheduled_seqs)
  <2>1. IsInjective(active) /\ mid_chunk_seq \notin Range(active)
    BY Members DEF IInv, QInv, QueuesInv
  <2>2. Range(active) = Range(scheduled_seqs) \cup Range(running) /\ Range(scheduled_seqs) \cap Range(running) = {}
    BY <1>3, <1>5, <2>1, JoinSpec
  <2> QED BY <1>4, <2>1, <2>2
<1>7. Open = Range(scheduled_seqs) /\ Open' = Range(scheduled_seqs) \cup {x}
  <2>1. Open = Range(scheduled_seqs)
    BY <1>2, Members DEF Open, IInv
  <2>2. /\ scheduled_seqs' \in Seq(Seqs)
        /\ Range(scheduled_seqs)' = Range(scheduled_seqs) \cup {x}
    BY <1>2, <1>3, <1>4, PushSpec
  <2>3. RowsFrom(1)' = Range(scheduled_seqs)'
    BY <2>2, LenProperties DEF RowsFrom, Range
  <2> QED BY <1>2, <2>1, <2>2, <2>3 DEF Open
<1>8. \A s : ~Current(s) /\ ~Current(s)' /\ (Loose(s) <=> s \in Open) /\ (Loose(s)' <=> s \in Open')
  BY <1>2 DEF Current, Loose
<1>9. Ready(x)
  BY <1>4, <1>6, <1>7, <1>8 DEF IInv, StepInv, SeqInv
<1>10. PICK c \in Nat, n \in Nat : c = num_cached_tokens[x] /\ n = Len(token_ids[x]) /\ c > 0 /\ c = n - 1
  BY <1>4, <1>9, Counts DEF Ready, IInv
<1>11. BM!Next
  <2>1. BM!MayAppend(x)
    BY <1>2, <1>9 DEF BM!MayAppend, Ready, BM!num_tokens
  <2> QED BY <1>4, <2>1 DEF BM!Next
<1>12. /\ Len(block_table'[x]) = BM!BlocksFor(n)
       /\ \A s \in Seqs \ {x} : block_table'[s] = block_table[s]
       /\ UNCHANGED <<token_ids, num_cached_tokens, kv>>
  <2> DEFINE m == IF n % BlockSize = 1 THEN 1 ELSE 0
  <2>1. BM!take_blocks(x, m)
    BY <1>2, <1>10 DEF BM!may_append, BM!num_tokens
  <2>2. m \in Nat
    OBVIOUS
  <2>3. BM!BlocksFor(n) = BM!BlocksFor(n - 1) + m
    BY <1>10, NextBlock
  <2>4. Len(block_table[x]) = BM!BlocksFor(n - 1)
    BY <1>9, <1>10 DEF Ready
  <2> HIDE DEF m
  <2> QED BY <1>3, <1>4, <2>1, <2>2, <2>3, <2>4, TableGrows
<1>13. num_scheduled_tokens'[x] = 1 /\ \A s \in Seqs \ {x} : Kept(s)
  BY <1>2, <1>3, <1>4, <1>12 DEF Kept
<1>14. \A s \in Seqs \ {x} : SeqInv(s)'
  BY <1>2, <1>5, <1>7, <1>8, <1>13, SeqStays DEF IInv, StepInv, Postprocessing
<1>15. BM!BlocksFor(n) \in Nat /\ BM!BlocksFor(n) > 0 /\ n <= BlockSize * BM!BlocksFor(n)
  <2>1. PICK b \in Nat : b = BM!BlocksFor(n) /\ \A k \in Nat : b <= k <=> n <= BlockSize * k
    BY Blocks
  <2>2. n <= BlockSize * b
    BY <2>1
  <2>3. b # 0
    BY <1>10, <2>2, Constants
  <2> QED BY <2>1, <2>2, <2>3
<1>16. SeqInv(x)'
  <2>1. block_table'[x] # <<>>
    BY <1>12, <1>15, EmptySeq
  <2>2. Fits(x)'
    <3>1. BM!BlocksFor(Len(token_ids[x]))' = BM!BlocksFor(n) /\ Len(token_ids'[x]) = n
      BY <1>10, <1>12 DEF BM!BlocksFor
    <3>2. num_cached_tokens'[x] + num_scheduled_tokens'[x] = n
      <4>1. num_cached_tokens' = num_cached_tokens
        BY <1>12
      <4>2. num_cached_tokens'[x] = c
        BY <1>10, <4>1
      <4>3. c + 1 = n
        BY <1>10
      <4> QED BY <1>13, <4>2, <4>3
    <3>3. num_scheduled_tokens'[x] > 0 /\ n <= BlockSize * Len(block_table'[x]) /\ n <= n
      BY <1>12, <1>13, <1>15
    <3> QED BY <1>12, <3>1, <3>2, <3>3 DEF Fits
  <2> QED BY <1>2, <1>5, <1>6, <1>7, <1>8, <2>1, <2>2 DEF SeqInv, Postprocessing
<1>17. DecodesInv'
  <2>1. \A s \in Range(scheduled_seqs) : s \in Seqs \ {x} /\ Decodes(s)
    BY <1>2, <1>6, Members DEF IInv, StepInv, DecodesInv
  <2>2. \A s \in Range(scheduled_seqs) : Decodes(s)'
    BY <1>5, <1>13, <2>1 DEF Decodes, Kept
  <2>3. Decodes(x)'
    BY <1>5, <1>6, <1>10, <1>12, <1>13 DEF Decodes
  <2>4. Range(scheduled_seqs)' = Range(scheduled_seqs) \cup {x}
    BY <1>2, <1>3, <1>4, PushSpec
  <2> QED BY <1>2, <2>2, <2>3, <2>4 DEF DecodesInv
<1>18. ChargeInv' /\ WorkInv'
  <2>1. active' # <<>>
    BY <1>5, <1>6, RangeIs, Members DEF IInv
  <2> QED BY <1>2, <2>1 DEF ChargeInv, WorkInv
<1> QED BY <1>11, <1>14, <1>16, <1>17, <1>18 DEF StepInv

\* Somebody outside the batch loses its blocks, and nobody else anything.
LEMMA PreemptStays ==
  ASSUME IInv, NEW x \in Seqs, NEW q \in Seq(Seqs), preempt(x, q),
         x \in Range(active) \/ x = mid_chunk_seq, x \notin Range(scheduled_seqs),
         mid_chunk_seq \in {x, None}, Range(active)' = Range(active) \ {x},
         \A s \in Seqs \ {x} : num_scheduled_tokens'[s] = num_scheduled_tokens[s],
         \/ phase = "decode" /\ phase' = "decode"
         \/ phase = "prefill" /\ phase' \in {"prefill", "run"} /\ UNCHANGED running
  PROVE  StepInv' /\ BM!Next
<1>1. /\ mid_chunk_seq' = MarkWithout(x) /\ BM!deallocate(x) /\ waiting' = Append(q, x)
      /\ UNCHANGED <<scheduled_seqs, num_decodes, num_batched_tokens, row, targets>>
  BY DEF preempt, stepVars
<1>2. /\ block_table' = [block_table EXCEPT ![x] = <<>>]
      /\ num_cached_tokens' = [num_cached_tokens EXCEPT ![x] = 0]
      /\ UNCHANGED <<token_ids, kv>>
  BY <1>1 DEF BM!deallocate
<1>3. BM!TypeOK /\ scheduled_seqs \in Seq(Seqs)
  BY AllocatorFacts DEF IInv, QInv, QueueTypes
<1>4. block_table'[x] = <<>> /\ \A s \in Seqs \ {x} : Kept(s)
  BY <1>2, <1>3 DEF BM!TypeOK, Kept
<1>5. BM!Next
  <2>1. block_table[x] # <<>>
    BY DEF IInv, StepInv, SeqInv
  <2> QED BY <1>1, <2>1 DEF BM!Next, BM!Deallocate
<1>6. mid_chunk_seq' = None
  BY <1>1 DEF MarkWithout
<1>7. Open = Range(scheduled_seqs) /\ Open' = Open
  <2>1. Open = Range(scheduled_seqs)
    BY Members DEF Open, IInv
  <2>2. RowsFrom(1)' = RowsFrom(1)
    BY <1>1 DEF RowsFrom
  <2> QED BY <2>1, <2>2 DEF Open
<1>8. \A s : ~Current(s) /\ ~Current(s)' /\ (Loose(s) <=> s \in Open) /\ (Loose(s)' <=> s \in Open')
  BY DEF Current, Loose
<1>9. \A s \in Seqs \ {x} : SeqInv(s)'
  <2>1. \A s \in Seqs \ {x} : (s = mid_chunk_seq' <=> s = mid_chunk_seq)
    BY <1>6, Constants
  <2> QED BY <1>4, <1>7, <1>8, <2>1, SeqStays DEF IInv, StepInv, Postprocessing
<1>10. SeqInv(x)'
  <2>1. x # mid_chunk_seq' /\ x \notin Range(active)' /\ x \notin Open' /\ ~Current(x)'
    BY <1>6, <1>7, <1>8, Constants
  <2> QED BY <1>4, <2>1 DEF SeqInv
<1>11. DecodesInv'
  <2>1. ASSUME NEW s \in Range(scheduled_seqs), Decodes(s) PROVE Decodes(s)'
    <3>1. s \in Seqs \ {x}
      BY Members DEF IInv
    <3> QED BY <1>4, <2>1, <3>1 DEF Decodes, Kept
  <2>2. CASE phase = "decode"
    BY <1>1, <2>1, <2>2 DEF IInv, StepInv, DecodesInv
  <2>3. CASE phase = "prefill"
    <3>1. num_decodes <= Len(scheduled_seqs) /\ \A i \in 1 .. num_decodes : Decodes(scheduled_seqs[i])
      BY <2>3 DEF IInv, StepInv, DecodesInv
    <3>2. \A i \in 1 .. num_decodes : scheduled_seqs[i] \in Range(scheduled_seqs)
      <4>1. num_decodes \in Int /\ Len(scheduled_seqs) \in Nat
        BY <1>3, LenProperties DEF IInv, QInv, QueueTypes
      <4> QED BY <1>3, <3>1, <4>1, RangeIs
    <3>3. \A i \in 1 .. num_decodes : Decodes(scheduled_seqs[i])'
      <4> SUFFICES ASSUME NEW i \in 1 .. num_decodes PROVE Decodes(scheduled_seqs[i])'
        OBVIOUS
      <4>1. PICK s : s = scheduled_seqs[i] /\ s = scheduled_seqs'[i]
        BY <1>1
      <4>2. Decodes(s)'
        BY <2>1, <3>1, <3>2, <4>1
      <4> QED BY <4>1, <4>2 DEF Decodes
    <3> QED BY <1>1, <2>3, <3>1, <3>3 DEF DecodesInv
  <2> QED BY <2>2, <2>3
<1>12. ChargeInv'
  <2>1. RowTokens(Range(scheduled_seqs))' = RowTokens(Range(scheduled_seqs))
    <3>1. \A s \in Range(scheduled_seqs) : num_scheduled_tokens'[s] = num_scheduled_tokens[s]
      BY Members DEF IInv
    <3>2. Range(scheduled_seqs)' = Range(scheduled_seqs)
      BY <1>1
    <3> HIDE DEF Range
    <3> QED BY <3>1, <3>2 DEF RowTokens
  <2> QED BY <1>1, <2>1 DEF IInv, StepInv, ChargeInv
<1>13. WorkInv'
  <2>1. waiting' # <<>>
    BY <1>1, PushSpec
  <2> QED BY <1>1, <2>1 DEF IInv, StepInv, WorkInv
<1> QED BY <1>5, <1>9, <1>10, <1>11, <1>12, <1>13 DEF StepInv

\* The partial prefill gives way to a decoder.
LEMMA ReclaimStays ==
  ASSUME IInv, ReclaimMidChunk
  PROVE  StepInv' /\ BM!Next
<1>1. PICK x : x = Head(waiting)
  OBVIOUS
<1>2. /\ phase = "decode" /\ phase' = "decode" /\ mid_chunk_seq # None /\ preempt(x, Tail(waiting))
      /\ UNCHANGED <<running, num_scheduled_tokens>>
  BY <1>1 DEF ReclaimMidChunk, Decoding
<1>3. waiting # <<>> /\ x = mid_chunk_seq /\ waiting \in Seq(Seqs)
  BY <1>1, <1>2 DEF IInv, QInv, QueueTypes, QueuesInv
<1>4. x \in Seqs /\ Tail(waiting) \in Seq(Seqs)
  BY <1>1, <1>3, PopSpec
<1>5. active' = active
  BY <1>2 DEF active, preempt, stepVars
<1>6. x \notin Range(active)
  BY <1>3, Members DEF IInv
<1>7. x \notin Range(scheduled_seqs)
  <2>1. Range(active) = Range(scheduled_seqs) \cup Range(running)
    BY <1>2, Members, JoinSpec DEF active, IInv
  <2> QED BY <1>6, <2>1
<1>8. Range(active)' = Range(active) \ {x}
  BY <1>5, <1>6
<1> QED BY <1>2, <1>3, <1>4, <1>7, <1>8, PreemptStays

\* The last running sequence gives way.
LEMMA PreemptLastStays ==
  ASSUME IInv, PreemptTail \/ PreemptSelf
  PROVE  StepInv' /\ BM!Next
<1> DEFINE front == SubSeq(running, 1, Len(running) - 1)
<1>1. running \in Seq(Seqs) /\ scheduled_seqs \in Seq(Seqs) /\ waiting \in Seq(Seqs)
  BY Members DEF IInv
<1>2. /\ phase = "decode" /\ phase' = "decode" /\ running # <<>> /\ mid_chunk_seq = None
      /\ UNCHANGED num_scheduled_tokens
  BY DEF PreemptTail, PreemptSelf, Decoding
<1>3. PICK x : x = LastOf(running)
  OBVIOUS
<1>4. preempt(x, waiting) /\ running' = front
  <2>1. CASE PreemptTail
    BY <1>3, <2>1 DEF PreemptTail
  <2>2. CASE PreemptSelf
    <3>1. Len(running) = 1 /\ running' = <<>> /\ preempt(Head(running), waiting)
      BY <2>2 DEF PreemptSelf
    <3>2. Head(running) = running[1]
      BY <1>1, <1>2, PopSpec
    <3>3. front = <<>>
      BY <1>1, <3>1, SubSeqEmpty
    <3> QED BY <1>3, <3>1, <3>2, <3>3 DEF LastOf
  <2> QED BY <2>1, <2>2
<1>5. /\ front \in Seq(Seqs) /\ x \in Seqs /\ Range(running) = Range(front) \cup {x}
      /\ IsInjective(running) => x \notin Range(front)
  BY <1>1, <1>2, <1>3, DropSpec
<1>6. scheduled_seqs' = scheduled_seqs
  BY <1>4 DEF preempt, stepVars
<1>7. active = scheduled_seqs \o running /\ active' = scheduled_seqs \o front
  BY <1>2, <1>4, <1>6 DEF active
<1> HIDE DEF front
<1>8. /\ IsInjective(running) /\ Range(scheduled_seqs) \cap Range(running) = {}
      /\ Range(active) = Range(scheduled_seqs) \cup Range(running)
  BY <1>1, <1>7, JoinSpec DEF IInv, QInv, QueuesInv
<1>9. Range(active)' = Range(scheduled_seqs) \cup Range(front)
  BY <1>1, <1>5, <1>7, JoinSpec
<1>10. x \in Range(active) /\ x \notin Range(scheduled_seqs) /\ Range(active)' = Range(active) \ {x}
  BY <1>5, <1>8, <1>9
<1> QED BY <1>1, <1>2, <1>4, <1>5, <1>10, PreemptStays

\* The partial prefill finds no blocks for its next chunk and goes to the tail.
LEMMA RequeueStays ==
  ASSUME IInv, RequeuePrefill
  PROVE  StepInv' /\ BM!Next
<1>1. PICK x : x = Head(waiting)
  OBVIOUS
<1>2. /\ Prefilling /\ preempt(x, Tail(waiting)) /\ block_table[x] # <<>>
      /\ num_scheduled_tokens' = [num_scheduled_tokens EXCEPT ![x] = 0]
      /\ phase' \in {"run", "prefill"} /\ running' = running
  BY <1>1 DEF RequeuePrefill
<1>3. waiting # <<>> /\ waiting \in Seq(Seqs)
  BY <1>2 DEF IInv, QInv, QueueTypes, Prefilling
<1>4. x \in Seqs /\ x \in Range(waiting) /\ Tail(waiting) \in Seq(Seqs)
  BY <1>1, <1>3, PopSpec
<1>5. /\ phase = "prefill" /\ active = running
      /\ Range(scheduled_seqs) \subseteq Range(running)
  BY <1>2, RowsRunning DEF IInv
<1>6. active' = active /\ x \notin Range(active)
  BY <1>2, <1>4, <1>5, Members DEF active, IInv
<1>7. x = mid_chunk_seq
  BY <1>2, <1>4, <1>6 DEF IInv, StepInv, SeqInv
<1>8. \A s \in Seqs \ {x} : num_scheduled_tokens'[s] = num_scheduled_tokens[s]
  BY <1>2 DEF IInv, QInv, QueueTypes
<1>9. x \notin Range(scheduled_seqs) /\ Range(active)' = Range(active) \ {x}
  BY <1>5, <1>6
<1> QED BY <1>2, <1>4, <1>5, <1>7, <1>8, <1>9, PreemptStays

-----------------------------------------------------------------------------
(* What a batch is charged *)

\* A batch of decode rows computes a token for each of them.
LEMMA OneEach ==
  ASSUME NEW R, IsFiniteSet(R), \A s \in R : num_scheduled_tokens[s] = 1
  PROVE  Cardinality(RowTokens(R)) = Cardinality(R)
<1>1. 1 \in 1 .. MaxNumBatchedTokens
  BY Constants
<1>2. RowTokens(R) = R \X {1}
  <2>1. ASSUME NEW x \in RowTokens(R) PROVE x \in R \X {1}
    <3>1. PICK s \in R, n \in 1 .. MaxNumBatchedTokens : x = <<s, n>>
      BY DEF RowTokens
    <3>2. n <= num_scheduled_tokens[s]
      BY <3>1 DEF RowTokens
    <3> QED BY <3>1, <3>2
  <2>2. ASSUME NEW x \in R \X {1} PROVE x \in RowTokens(R)
    BY <1>1 DEF RowTokens
  <2> QED BY <2>1, <2>2
<1>3. Cardinality(R \X {1}) = Cardinality(R) * Cardinality({1})
  BY FS_Singleton, FS_Product
<1>4. Cardinality({1}) = 1 /\ Cardinality(R) \in Nat
  BY FS_Singleton, FS_CardinalityType
<1> QED BY <1>2, <1>3, <1>4

\* A row more adds its tokens.
LEMMA RowAdds ==
  ASSUME NEW R, IsFiniteSet(R), NEW x, x \notin R, NEW c \in 0 .. MaxNumBatchedTokens,
         num_scheduled_tokens'[x] = c,
         \A s \in R : num_scheduled_tokens'[s] = num_scheduled_tokens[s]
  PROVE  Cardinality(RowTokens(R \cup {x})') = Cardinality(RowTokens(R)) + c
<1> DEFINE new == {x} \X (1 .. c)
<1>1. c \in Nat /\ MaxNumBatchedTokens \in Nat
  BY Constants
<1>2. RowTokens(R \cup {x})' = RowTokens(R) \cup new
  <2>1. ASSUME NEW y \in RowTokens(R \cup {x})' PROVE y \in RowTokens(R) \cup new
    <3>1. PICK s \in R \cup {x}, n \in 1 .. MaxNumBatchedTokens : y = <<s, n>>
      BY <2>1 DEF RowTokens
    <3>2. n <= num_scheduled_tokens'[s]
      BY <2>1, <3>1 DEF RowTokens
    <3>3. CASE s = x
      BY <1>1, <3>1, <3>2, <3>3
    <3>4. CASE s \in R
      BY <3>1, <3>2, <3>4 DEF RowTokens
    <3> QED BY <3>3, <3>4
  <2>2. ASSUME NEW y \in RowTokens(R) PROVE y \in RowTokens(R \cup {x})'
    BY DEF RowTokens
  <2>3. ASSUME NEW y \in new PROVE y \in RowTokens(R \cup {x})'
    <3>1. PICK n \in 1 .. c : y = <<x, n>>
      OBVIOUS
    <3>2. n \in 1 .. MaxNumBatchedTokens /\ n <= num_scheduled_tokens'[x]
      BY <1>1
    <3> QED BY <3>1, <3>2 DEF RowTokens
  <2> QED BY <2>1, <2>2, <2>3
<1>3. RowTokens(R) \cap new = {}
  BY DEF RowTokens
<1>4. IsFiniteSet(RowTokens(R))
  <2>1. IsFiniteSet(1 .. MaxNumBatchedTokens)
    BY <1>1, FS_Interval
  <2>2. IsFiniteSet(R \X (1 .. MaxNumBatchedTokens))
    BY <2>1, FS_Product
  <2>3. RowTokens(R) \in SUBSET (R \X (1 .. MaxNumBatchedTokens))
    BY DEF RowTokens
  <2> QED BY <2>2, <2>3, FS_Subset
<1>5. IsFiniteSet(new) /\ Cardinality(new) = c
  <2>1. IsFiniteSet(1 .. c) /\ Cardinality(1 .. c) = c
    <3>1. IsFiniteSet(1 .. c) /\ Cardinality(1 .. c) = IF 1 > c THEN 0 ELSE c - 1 + 1
      BY <1>1, FS_Interval
    <3> QED BY <1>1, <3>1
  <2>2. IsFiniteSet({x}) /\ Cardinality({x}) = 1
    BY FS_Singleton
  <2>3. IsFiniteSet(new) /\ Cardinality(new) = Cardinality({x}) * Cardinality(1 .. c)
    BY <2>1, <2>2, FS_Product
  <2> QED BY <1>1, <2>1, <2>2, <2>3
<1> HIDE DEF new
<1>6. Cardinality(RowTokens(R) \cup new)
        = Cardinality(RowTokens(R)) + Cardinality(new) - Cardinality(RowTokens(R) \cap new)
  BY <1>4, <1>5, FS_Union
<1>7. Cardinality(RowTokens(R) \cap new) = 0
  BY <1>3, FS_EmptySet
<1>8. PICK k \in Nat : k = Cardinality(RowTokens(R))
  BY <1>4, FS_CardinalityType
<1>9. Cardinality(RowTokens(R) \cup new) = k + c
  BY <1>1, <1>5, <1>6, <1>7, <1>8
<1> QED BY <1>2, <1>8, <1>9

\* Distinct rows are as many as their list is long.
LEMMA RowCount ==
  ASSUME NEW q \in Seq(Seqs), IsInjective(q)
  PROVE  IsFiniteSet(Range(q)) /\ Cardinality(Range(q)) = Len(q)
<1>1. q \in [1 .. Len(q) -> Range(q)] /\ Len(q) \in Nat /\ DOMAIN q = 1 .. Len(q)
  BY LenProperties DEF Range
<1>2. q \in Surjection(1 .. Len(q), Range(q)) /\ q \in Injection(1 .. Len(q), Range(q))
  BY <1>1 DEF Surjection, Injection, Range, IsInjective
<1>3. IsFiniteSet(1 .. Len(q)) /\ Cardinality(1 .. Len(q)) = Len(q)
  <2>1. IsFiniteSet(1 .. Len(q)) /\ Cardinality(1 .. Len(q)) = IF 1 > Len(q) THEN 0 ELSE Len(q) - 1 + 1
    BY <1>1, FS_Interval
  <2> QED BY <1>1, <2>1
<1> QED BY <1>2, <1>3, FS_Surjection

\* The rows of the decode loop are charged a token each.
LEMMA EndDecodeStays ==
  ASSUME IInv, EndDecode
  PROVE  StepInv'
<1>1. /\ phase = "decode" /\ phase' = "prefill" /\ ~Decoding
      /\ running' = scheduled_seqs \o running
      /\ num_decodes' = Len(scheduled_seqs) /\ num_batched_tokens' = Len(scheduled_seqs)
      /\ UNCHANGED <<waiting, mid_chunk_seq, scheduled_seqs, row, num_scheduled_tokens>>
      /\ kv' = kv /\ \A s : Kept(s)
  BY AllKept DEF EndDecode, rowVars
<1>2. active' = active /\ active = scheduled_seqs \o running
  BY <1>1 DEF active
<1>3. scheduled_seqs \in Seq(Seqs) /\ running \in Seq(Seqs) /\ Len(scheduled_seqs) \in Nat
  BY Members DEF IInv
<1>4. Open = Range(scheduled_seqs) /\ Open' = Open
  <2>1. Open = Range(scheduled_seqs)
    BY <1>1, Members DEF Open, IInv
  <2>2. RowsFrom(1)' = RowsFrom(1)
    BY <1>1 DEF RowsFrom
  <2> QED BY <1>1, <2>1, <2>2 DEF Open
<1>5. \A s : ~Current(s) /\ ~Current(s)' /\ (Loose(s) <=> s \in Open) /\ (Loose(s)' <=> s \in Open')
  BY <1>1 DEF Current, Loose
<1>6. \A s \in Seqs : SeqInv(s)'
  BY <1>1, <1>2, <1>4, <1>5, SeqStays DEF IInv, StepInv, Postprocessing
<1>7. \A s \in Range(scheduled_seqs) : Decodes(s) /\ Decodes(s)'
  BY <1>1, <1>2 DEF IInv, StepInv, DecodesInv, Decodes, Kept
<1>8. DecodesInv'
  <2>1. ASSUME NEW i \in 1 .. num_decodes' PROVE Decodes(scheduled_seqs[i])'
    <3>1. PICK s : s = scheduled_seqs[i] /\ s = scheduled_seqs'[i]
      BY <1>1
    <3>2. s \in Range(scheduled_seqs)
      BY <1>1, <1>3, <2>1, <3>1, RangeIs
    <3> QED BY <1>7, <3>1, <3>2 DEF Decodes
  <2>2. num_decodes' <= Len(scheduled_seqs')
    BY <1>1, <1>3
  <2> QED BY <1>1, <2>1, <2>2 DEF DecodesInv
<1>9. ChargeInv'
  <2>1. IsInjective(scheduled_seqs)
    BY <1>2, <1>3, JoinSpec DEF IInv, QInv, QueuesInv
  <2>2. PICK R : R = Range(scheduled_seqs)
    OBVIOUS
  <2>3. IsFiniteSet(R) /\ Cardinality(R) = Len(scheduled_seqs)
    BY <1>3, <2>1, <2>2, RowCount
  <2>4. Cardinality(RowTokens(R)) = Cardinality(R)
    BY <1>7, <2>2, <2>3, OneEach DEF Decodes
  <2>5. RowTokens(R)' = RowTokens(R)
    BY <1>1 DEF RowTokens
  <2>6. Range(scheduled_seqs)' = R
    BY <1>1, <2>2
  <2>7. RowTokens(Range(scheduled_seqs))' = RowTokens(R)'
    BY <2>6 DEF RowTokens
  <2> QED BY <1>1, <2>3, <2>4, <2>5, <2>7 DEF ChargeInv
<1>10. WorkInv'
  <2> SUFFICES ASSUME scheduled_seqs = <<>> PROVE running' = <<>> /\ waiting # <<>>
    BY <1>1 DEF WorkInv
  <2>1. running = <<>>
    BY <1>1, Constants DEF Decoding
  <2>2. running' = <<>> /\ active = <<>>
    BY <1>1, <1>2, <2>1
  <2> QED BY <1>1, <2>2 DEF IInv, StepInv, WorkInv
<1> QED BY <1>6, <1>8, <1>9, <1>10 DEF StepInv

-----------------------------------------------------------------------------
(* The prefill loop *)

\* With an empty batch nothing is running, nobody holds a block, and so the waiting head
\* can be admitted.
LEMMA SomethingFits ==
  ASSUME IInv, phase = "prefill", scheduled_seqs = <<>>
  PROVE  /\ Prefilling
         /\ block_table[Head(waiting)] = <<>> => BM!can_allocate(Head(waiting))
<1>1. waiting # <<>> /\ running = <<>> /\ active = <<>>
  BY DEF IInv, StepInv, WorkInv, active
<1>2. num_batched_tokens = 0
  <2>1. RowTokens(Range(scheduled_seqs)) = {}
    BY DEF RowTokens, Range
  <2> QED BY <2>1, FS_EmptySet DEF IInv, StepInv, ChargeInv
<1>3. Prefilling
  BY <1>1, <1>2, Constants DEF Prefilling, remaining
<1>4. PICK x : x = Head(waiting)
  OBVIOUS
<1>5. x \in Seqs /\ x \in Range(waiting) /\ token_ids[x] \in Seq(Token) /\ token_ids[x] # <<>>
  BY <1>3, <1>4, WaitingHead DEF IInv
<1>6. ASSUME block_table[x] = <<>> PROVE BM!can_allocate(x)
  <2>1. mid_chunk_seq = None
    <3> SUFFICES ASSUME mid_chunk_seq # None PROVE FALSE
      OBVIOUS
    <3>1. x = mid_chunk_seq
      BY <1>4 DEF IInv, QInv, QueuesInv
    <3> QED BY <1>5, <1>6, <3>1 DEF IInv, StepInv, SeqInv
  <2>2. ASSUME NEW s \in Seqs PROVE block_table[s] = <<>>
    <3>1. s \notin Range(active)
      BY <1>1 DEF Range
    <3> QED BY <2>1, <3>1, Constants DEF IInv, StepInv, SeqInv
  <2>3. used_block_ids = {} /\ Len(free_block_ids) = NumBlocks
    BY <2>2, PoolIsFree DEF IInv
  <2>4. status[x] = "WAITING"
    BY <1>5, Members DEF IInv
  <2>5. BM!num_blocks(x) <= NumBlocks /\ BM!num_blocks(x) \in Nat
    BY <1>5, <2>4, Live, Counts DEF IInv, BM!num_blocks, BM!num_tokens
  <2>6. \A C : BM!Cardinality(C \cap used_block_ids) = 0
    BY <2>3, FS_EmptySet DEF BM!Cardinality, Cardinality
  <2>7. NumBlocks \in Nat
    BY SchedulerAssumption DEF SchedulerAssumption
  <2> QED BY <2>3, <2>5, <2>6, <2>7 DEF BM!can_allocate
<1> QED BY <1>3, <1>4, <1>6

\* The batch is complete, and not empty.
LEMMA EndPrefillStays ==
  ASSUME IInv, EndPrefill
  PROVE  StepInv'
<1>1. scheduled_seqs # <<>>
  BY SomethingFits DEF EndPrefill
<1>2. /\ phase = "prefill" /\ phase' = "run"
      /\ UNCHANGED <<waiting, running, mid_chunk_seq, scheduled_seqs, row, num_scheduled_tokens>>
      /\ UNCHANGED <<num_decodes, num_batched_tokens>>
      /\ kv' = kv /\ \A s : Kept(s)
  BY <1>1, AllKept DEF EndPrefill, rowVars, queueVars, stepVars
<1>3. active' = active /\ Open' = Open
  BY <1>2 DEF active, Open, RowsFrom
<1>4. \A s : ~Current(s) /\ ~Current(s)' /\ (Loose(s) <=> s \in Open) /\ (Loose(s)' <=> s \in Open')
  BY <1>2 DEF Current, Loose
<1>5. \A s \in Seqs : SeqInv(s)'
  BY <1>2, <1>3, <1>4, SeqStays DEF IInv, StepInv, Postprocessing
<1>6. DecodesInv'
  <2>1. ASSUME NEW s, Decodes(s) PROVE Decodes(s)'
    BY <1>2, <1>3, <2>1 DEF Decodes, Kept
  <2>2. ASSUME NEW i \in 1 .. num_decodes PROVE Decodes(scheduled_seqs[i])'
    <3>1. PICK s : s = scheduled_seqs[i] /\ s = scheduled_seqs'[i]
      BY <1>2
    <3>2. Decodes(s)
      BY <1>2, <3>1 DEF IInv, StepInv, DecodesInv, Decodes
    <3>3. Decodes(s)'
      BY <2>1, <3>2
    <3> QED BY <3>1, <3>3 DEF Decodes
  <2> QED BY <1>2, <2>2 DEF IInv, StepInv, DecodesInv
<1>7. ChargeInv' /\ WorkInv'
  BY <1>2 DEF IInv, StepInv, ChargeInv, WorkInv, RowTokens
<1> QED BY <1>5, <1>6, <1>7 DEF StepInv

\* The waiting head gets a chunk, in a table that covers it and no more than the prompt.
LEMMA ChunkStays ==
  ASSUME IInv, Prefilling, NEW x, x = Head(waiting), NEW work \in Nat \ {0}, NEW c \in Nat,
         NEW blocks \in Nat, ScheduleChunk(x, work),
         token_ids' = token_ids, num_cached_tokens'[x] = c, c + work = Len(token_ids[x]),
         block_table'[x] = <<>> <=> blocks = 0, Len(block_table'[x]) = blocks,
         c + Smaller(work, remaining) <= BlockSize * blocks,
         blocks <= BM!BlocksFor(Len(token_ids[x])),
         \A s \in Seqs \ {x} : /\ num_cached_tokens'[s] = num_cached_tokens[s]
                               /\ block_table'[s] = block_table[s]
  PROVE  StepInv'
<1>1. /\ waiting # <<>> /\ waiting \in Seq(Seqs) /\ running \in Seq(Seqs) /\ scheduled_seqs \in Seq(Seqs)
      /\ num_batched_tokens \in 0 .. MaxNumBatchedTokens
      /\ num_scheduled_tokens \in [Seqs -> 0 .. MaxNumBatchedTokens]
      /\ remaining > 0 /\ remaining = MaxNumBatchedTokens - num_batched_tokens
  BY DEF Prefilling, remaining, IInv, QInv, QueueTypes
<1>2. /\ row = 0 /\ phase = "prefill" /\ active = running
      /\ IsInjective(scheduled_seqs) /\ Range(scheduled_seqs) \subseteq Range(running)
  BY RowsRunning DEF IInv
<1>3. x \in Seqs /\ x \in Range(waiting) /\ x \notin Range(running) /\ x \notin Range(scheduled_seqs)
  <2>1. x \in Seqs /\ x \in Range(waiting)
    BY <1>1, PopSpec
  <2> QED BY <1>2, <2>1, Members DEF IInv
<1>4. PICK k \in Nat \ {0} :
        /\ k = Smaller(work, remaining) /\ k <= work /\ k \in 0 .. MaxNumBatchedTokens
  <2>1. Smaller(work, remaining) \in Nat \ {0} /\ Smaller(work, remaining) <= work
        /\ Smaller(work, remaining) <= MaxNumBatchedTokens
    BY <1>1, Constants DEF Smaller
  <2> QED BY <2>1, Constants
<1>5. /\ num_scheduled_tokens' = [num_scheduled_tokens EXCEPT ![x] = k]
      /\ num_batched_tokens' = num_batched_tokens + k
      /\ scheduled_seqs' = Append(scheduled_seqs, x)
      /\ UNCHANGED <<num_decodes, row, phase, targets>>
      /\ \/ k = work /\ mid_chunk_seq' = MarkWithout(x) /\ running' = Append(running, x)
         \/ k < work /\ mid_chunk_seq' = x /\ running' = running
  BY <1>4 DEF ScheduleChunk
<1>6. mid_chunk_seq \in {x, None}
  BY DEF IInv, QInv, QueuesInv
<1>7. \/ k = work /\ mid_chunk_seq' = None /\ Range(active)' = Range(active) \cup {x}
      \/ k < work /\ mid_chunk_seq' = x /\ Range(active)' = Range(active)
  <2>1. active' = running'
    BY <1>2, <1>5 DEF active
  <2>2. Range(Append(running, x)) = Range(running) \cup {x}
    BY <1>1, <1>3, PushSpec
  <2> QED BY <1>2, <1>5, <1>6, <2>1, <2>2 DEF MarkWithout
<1>8. num_scheduled_tokens'[x] = k /\ \A s \in Seqs \ {x} : Kept(s)
  BY <1>1, <1>3, <1>5 DEF Kept
<1>9. /\ scheduled_seqs' \in Seq(Seqs) /\ scheduled_seqs' # <<>>
      /\ Len(scheduled_seqs') = Len(scheduled_seqs) + 1 /\ Len(scheduled_seqs) \in Nat
      /\ \A i \in 1 .. Len(scheduled_seqs) : scheduled_seqs'[i] = scheduled_seqs[i]
      /\ Range(scheduled_seqs)' = Range(scheduled_seqs) \cup {x}
  <2>1. Len(scheduled_seqs) \in Nat
    BY <1>1, LenProperties
  <2>2. /\ Append(scheduled_seqs, x) \in Seq(Seqs) /\ Append(scheduled_seqs, x) # <<>>
        /\ Len(Append(scheduled_seqs, x)) = Len(scheduled_seqs) + 1
        /\ \A i \in 1 .. Len(scheduled_seqs) : Append(scheduled_seqs, x)[i] = scheduled_seqs[i]
        /\ Range(Append(scheduled_seqs, x)) = Range(scheduled_seqs) \cup {x}
    <3>1. scheduled_seqs \in Seq(Seqs) /\ x \in Seqs
      BY <1>1, <1>3
    <3>2. Append(scheduled_seqs, x) \in Seq(Seqs)
      BY <3>1
    <3>3. /\ Append(scheduled_seqs, x) # <<>>
          /\ Len(Append(scheduled_seqs, x)) = Len(scheduled_seqs) + 1
          /\ \A i \in 1 .. Len(scheduled_seqs) : Append(scheduled_seqs, x)[i] = scheduled_seqs[i]
      BY <3>1, PushSpec
    <3>4. Range(Append(scheduled_seqs, x)) = Range(scheduled_seqs) \cup {x}
      BY <3>1, PushSpec
    <3> QED BY <3>2, <3>3, <3>4
  <2> QED BY <1>5, <2>1, <2>2
<1>10. Open = Range(scheduled_seqs) /\ Open' = Range(scheduled_seqs) \cup {x}
  <2>1. Open = Range(scheduled_seqs)
    BY <1>2, Members DEF Open, IInv
  <2>2. RowsFrom(1)' = Range(scheduled_seqs)'
    BY <1>9, LenProperties DEF RowsFrom, Range
  <2> QED BY <1>2, <1>5, <1>9, <2>1, <2>2 DEF Open
<1>11. \A s : ~Current(s) /\ ~Current(s)' /\ (Loose(s) <=> s \in Open) /\ (Loose(s)' <=> s \in Open')
  BY <1>2, <1>5 DEF Current, Loose
<1>12. \A s \in Seqs \ {x} : SeqInv(s)'
  <2>1. \A s \in Seqs \ {x} : /\ s = mid_chunk_seq' <=> s = mid_chunk_seq
                              /\ s \in Range(active)' <=> s \in Range(active)
    BY <1>6, <1>7, Constants
  <2> QED BY <1>2, <1>5, <1>8, <1>10, <1>11, <2>1, SeqStays DEF IInv, StepInv, Postprocessing
<1>13. PICK n \in Nat : n = Len(token_ids[x]) /\ n = Len(token_ids'[x]) /\ n = c + work
  OBVIOUS
<1>14. c + k <= n /\ c + k <= BlockSize * blocks /\ (k = work => c + k = n)
  BY <1>4, <1>13
<1>15. blocks # 0
  <2> SUFFICES ASSUME blocks = 0 PROVE FALSE
    OBVIOUS
  <2>1. BlockSize * blocks = 0
    BY Constants
  <2> QED BY <1>4, <1>14, <2>1
<1>16. blocks <= BM!BlocksFor(n)
  BY <1>13
<1>17. k = work => blocks = BM!BlocksFor(n)
  <2> SUFFICES ASSUME k = work PROVE blocks = BM!BlocksFor(n)
    OBVIOUS
  <2>1. BM!BlocksFor(n) <= blocks /\ BM!BlocksFor(n) \in Nat
    BY <1>14, Blocks
  <2> QED BY <1>16, <2>1
<1>18. SeqInv(x)'
  <2>1. BM!BlocksFor(Len(token_ids[x]))' = BM!BlocksFor(n)
    BY <1>13 DEF BM!BlocksFor
  <2>2. Fits(x)'
    <3>1. num_scheduled_tokens'[x] > 0 /\ num_cached_tokens'[x] + num_scheduled_tokens'[x] = c + k
      BY <1>8
    <3>2. x # mid_chunk_seq' => k = work
      BY <1>7
    <3> QED BY <1>13, <1>14, <1>17, <2>1, <3>1, <3>2 DEF Fits
  <2>3. block_table'[x] # <<>> /\ x \in Open' /\ Len(block_table'[x]) <= BM!BlocksFor(n)
    BY <1>10, <1>15, <1>16
  <2>4. x \in Range(active)' \/ x = mid_chunk_seq'
    BY <1>7
  <2> QED BY <1>2, <1>5, <1>11, <2>1, <2>2, <2>3, <2>4 DEF SeqInv, Postprocessing
<1>19. DecodesInv'
  <2>1. num_decodes <= Len(scheduled_seqs) /\ num_decodes \in Int
    BY <1>2 DEF IInv, QInv, QueueTypes, StepInv, DecodesInv
  <2>2. num_decodes' <= Len(scheduled_seqs')
    BY <1>5, <1>9, <2>1
  <2>3. ASSUME NEW i \in 1 .. num_decodes PROVE Decodes(scheduled_seqs[i])'
    <3>1. i \in 1 .. Len(scheduled_seqs)
      BY <1>9, <2>1
    <3>2. PICK s : s = scheduled_seqs[i] /\ s = scheduled_seqs'[i]
      BY <1>9, <3>1
    <3>3. Decodes(s)
      BY <1>2, <3>2 DEF IInv, StepInv, DecodesInv, Decodes
    <3>4. s \in Range(scheduled_seqs) /\ s \in Seqs \ {x}
      <4>1. s \in Range(scheduled_seqs)
        BY <1>1, <3>1, <3>2, RangeIs
      <4> QED BY <1>3, <4>1, Members DEF IInv
    <3>5. Decodes(s)'
      BY <1>7, <1>8, <3>3, <3>4 DEF Decodes, Kept
    <3> QED BY <3>2, <3>5 DEF Decodes
  <2>4. \A i \in 1 .. num_decodes' : Decodes(scheduled_seqs[i])'
    BY <1>5, <2>3
  <2> QED BY <1>2, <1>5, <2>2, <2>4 DEF DecodesInv
<1>20. ChargeInv'
  <2>1. PICK R : R = Range(scheduled_seqs)
    OBVIOUS
  <2>2. IsFiniteSet(R) /\ x \notin R /\ R \subseteq Seqs
    BY <1>1, <1>2, <1>3, <2>1, RowCount, RangeIs
  <2>3. Cardinality(RowTokens(R \cup {x})') = Cardinality(RowTokens(R)) + k
    BY <1>4, <1>8, <2>2, RowAdds DEF Kept
  <2>4. num_batched_tokens = Cardinality(RowTokens(R))
    BY <1>2, <2>1 DEF IInv, StepInv, ChargeInv
  <2>5. Range(scheduled_seqs)' = R \cup {x}
    BY <1>9, <2>1
  <2>6. RowTokens(Range(scheduled_seqs))' = RowTokens(R \cup {x})'
    BY <2>5 DEF RowTokens
  <2> QED BY <1>5, <2>3, <2>4, <2>6 DEF ChargeInv
<1>21. WorkInv'
  BY <1>2, <1>5, <1>9 DEF WorkInv
<1> QED BY <1>12, <1>18, <1>19, <1>20, <1>21 DEF StepInv

\* Admission of a waiting sequence.
LEMMA AdmitStays ==
  ASSUME IInv, AdmitPrefill
  PROVE  StepInv' /\ BM!Next
<1>1. PICK x, c, n : x = Head(waiting) /\ c = BM!num_cached_blocks(x) /\ n = Len(token_ids[x])
  OBVIOUS
<1>2. x \in Seqs /\ token_ids[x] \in Seq(Token) /\ token_ids[x] # <<>> /\ x \in Range(waiting)
  BY <1>1, WaitingHead DEF AdmitPrefill, IInv
<1>3. PICK b : b = c * BlockSize
  OBVIOUS
<1>4. /\ c \in Nat /\ b \in Nat /\ b < n /\ c < BM!num_blocks(x) /\ n \in Nat
      /\ \A i \in 1 .. c : BM!Hit(x, i)
  BY <1>1, <1>2, <1>3, CachedBlocks, LenProperties DEF BM!num_tokens
<1>5. PICK work \in Nat \ {0} : work = n - b /\ b + work = n
  BY <1>4
<1>6. PICK k \in Nat \ {0} : k = Smaller(work, remaining) /\ k <= work
  <2>1. remaining \in Nat \ {0}
    BY Constants DEF AdmitPrefill, Prefilling, remaining, IInv, QInv, QueueTypes
  <2> QED BY <2>1 DEF Smaller
<1>7. /\ Prefilling /\ ScheduleChunk(x, work)
      /\ BM!allocate_incremental(x, c, b + k)
  BY <1>1, <1>3, <1>5, <1>6 DEF AdmitPrefill, BM!num_tokens
<1>8. b + k \in Nat /\ b + k <= n /\ b + k > b
  BY <1>4, <1>5, <1>6
<1>9. BM!AllocateIncremental(x, c, b + k)
  BY <1>1, <1>3, <1>4, <1>7, <1>8 DEF BM!AllocateIncremental, BM!num_tokens
<1>10. BM!Next
  <2>1. n <= MaxModelLen /\ MaxModelLen \in Nat
    <3>1. status[x] = "WAITING"
      BY <1>2, Members DEF IInv
    <3> QED BY <1>1, <1>2, <3>1, Live, SchedulerAssumption DEF IInv, SchedulerAssumption
  <2>2. b + k \in 1 .. MaxModelLen + 1
    BY <1>4, <1>5, <1>6, <1>8, <2>1
  <2>3. c \in 0 .. BM!num_blocks(x)
    <3>1. BM!num_blocks(x) \in Nat
      BY <1>1, <1>4, Blocks DEF BM!num_blocks, BM!num_tokens
    <3> QED BY <1>4, <3>1
  <2> QED BY <1>2, <1>9, <2>2, <2>3 DEF BM!Next
<1>11. PICK blocks \in Nat : blocks = BM!BlocksFor(b + k)
  BY <1>8, Blocks
<1>12. Len(block_table'[x]) = blocks
  BY <1>2, <1>4, <1>8, <1>9, <1>11, AllocatedTable DEF IInv
<1>13. b + k <= BlockSize * blocks
  BY <1>8, <1>11, Blocks
<1>14. blocks <= BM!BlocksFor(n)
  BY <1>4, <1>8, <1>11, MoreBlocks
<1>15. BM!TypeOK
  BY AllocatorFacts DEF IInv
<1>16. block_table' \in [Seqs -> Seq(BM!Blocks)]
  BY <1>10, TablesTyped DEF IInv
<1>17. block_table'[x] = <<>> <=> blocks = 0
  <2>1. block_table'[x] \in Seq(BM!Blocks)
    BY <1>2, <1>16
  <2> QED BY <1>12, <2>1, EmptySeq, LenProperties
<1>18. /\ token_ids' = token_ids /\ num_cached_tokens'[x] = b
       /\ \A s \in Seqs \ {x} : /\ num_cached_tokens'[s] = num_cached_tokens[s]
                                /\ block_table'[s] = block_table[s]
  BY <1>2, <1>3, <1>7, <1>15 DEF BM!TypeOK, BM!allocate_incremental
<1>19. StepInv'
  BY <1>1, <1>4, <1>5, <1>6, <1>7, <1>11, <1>12, <1>13, <1>14, <1>17, <1>18, ChunkStays
<1> QED BY <1>10, <1>19

\* The next chunk of the partial prefill.
LEMMA ContinueStays ==
  ASSUME IInv, ContinuePrefill
  PROVE  StepInv' /\ BM!Next
<1>1. PICK x, c, n : x = Head(waiting) /\ c = num_cached_tokens[x] /\ n = Len(token_ids[x])
  OBVIOUS
<1>2. x \in Seqs /\ token_ids[x] \in Seq(Token) /\ x \in Range(waiting) /\ c \in Nat /\ c < n /\ n \in Nat
  BY <1>1, WaitingHead, LenProperties DEF ContinuePrefill, IInv
<1>3. PICK work \in Nat \ {0} : work = n - c /\ c + work = n
  BY <1>2
<1>4. PICK k \in Nat \ {0} : k = Smaller(work, remaining) /\ k <= work
  <2>1. remaining \in Nat \ {0}
    BY Constants DEF ContinuePrefill, Prefilling, remaining, IInv, QInv, QueueTypes
  <2> QED BY <2>1 DEF Smaller
<1>5. Prefilling /\ ScheduleChunk(x, work) /\ BM!extend(x, c + k) /\ block_table[x] # <<>>
  BY <1>1, <1>3, <1>4 DEF ContinuePrefill, BM!num_tokens
<1>6. c + k \in Nat /\ c + k <= n
  BY <1>2, <1>3, <1>4
<1>7. BM!Next
  <2>1. n <= MaxModelLen /\ MaxModelLen \in Nat
    <3>1. status[x] = "WAITING"
      BY <1>2, Members DEF IInv
    <3> QED BY <1>1, <1>2, <3>1, Live, SchedulerAssumption DEF IInv, SchedulerAssumption
  <2>2. c + k \in 1 .. MaxModelLen + 1
    BY <1>2, <1>3, <1>4, <1>6, <2>1
  <2>3. BM!Extend(x, c + k)
    BY <1>1, <1>5, <1>6 DEF BM!Extend, BM!num_tokens
  <2> QED BY <1>2, <2>2, <2>3 DEF BM!Next
<1>8. x = mid_chunk_seq
  <2>1. x \notin Range(active)
    BY <1>2, Members DEF IInv
  <2> QED BY <1>2, <1>5, <2>1 DEF IInv, StepInv, SeqInv
<1>9. PICK held \in Nat : held = Len(block_table[x]) /\ held <= BM!BlocksFor(n)
  BY <1>1, <1>2, <1>8, Counts DEF IInv, StepInv, SeqInv
<1>10. PICK need \in Nat : need = BM!BlocksFor(c + k) /\ need <= BM!BlocksFor(n)
  BY <1>2, <1>6, Blocks, MoreBlocks
<1>11. PICK m \in Nat : m = BM!missing_blocks(x, c + k) /\ need <= held + m /\ held + m <= BM!BlocksFor(n)
  <2>1. BM!missing_blocks(x, c + k) = IF need > held THEN need - held ELSE 0
    BY <1>9, <1>10 DEF BM!missing_blocks
  <2>2. BM!BlocksFor(n) \in Nat
    BY <1>2, Blocks
  <2> QED BY <1>9, <1>10, <2>1, <2>2
<1>12. BM!TypeOK
  BY AllocatorFacts DEF IInv
<1>13. /\ Len(block_table'[x]) = held + m
       /\ \A s \in Seqs \ {x} : block_table'[s] = block_table[s]
       /\ UNCHANGED <<token_ids, num_cached_tokens>>
  BY <1>2, <1>5, <1>9, <1>11, <1>12, TableGrows DEF BM!extend
<1>14. block_table' \in [Seqs -> Seq(BM!Blocks)]
  BY <1>7, TablesTyped DEF IInv
<1>15. block_table'[x] = <<>> <=> held + m = 0
  <2>1. block_table'[x] \in Seq(BM!Blocks)
    BY <1>2, <1>14
  <2> QED BY <1>13, <2>1, EmptySeq, LenProperties
<1>16. c + k <= BlockSize * (held + m)
  <2>1. PICK j \in Nat : j = held + m
    OBVIOUS
  <2>2. PICK t \in Nat : t = c + k
    BY <1>6
  <2>3. BM!BlocksFor(t) <= j
    BY <1>10, <1>11, <2>1, <2>2
  <2>4. t <= BlockSize * j
    BY <2>3, Blocks
  <2> QED BY <2>1, <2>2, <2>4
<1>17. PICK blocks \in Nat : blocks = held + m
  OBVIOUS
<1>18. StepInv'
  <2>1. /\ x = Head(waiting) /\ Prefilling /\ ScheduleChunk(x, work)
        /\ token_ids' = token_ids /\ num_cached_tokens'[x] = c /\ c + work = Len(token_ids[x])
    BY <1>1, <1>3, <1>5, <1>13
  <2>2. /\ block_table'[x] = <<>> <=> blocks = 0
        /\ Len(block_table'[x]) = blocks /\ blocks <= BM!BlocksFor(Len(token_ids[x]))
    BY <1>1, <1>11, <1>13, <1>15, <1>17
  <2>3. c + Smaller(work, remaining) <= BlockSize * blocks
    BY <1>4, <1>16, <1>17
  <2>4. \A s \in Seqs \ {x} : /\ num_cached_tokens'[s] = num_cached_tokens[s]
                               /\ block_table'[s] = block_table[s]
    BY <1>13
  <2> QED BY <1>2, <2>1, <2>2, <2>3, <2>4, ChunkStays
<1> QED BY <1>7, <1>18

-----------------------------------------------------------------------------
(* The forward pass *)

\* The flat slot of the last token, taken relative to the last block of a table without
\* spare blocks, is that of the paged layout.
LEMMA LastSlot ==
  ASSUME NEW n \in Nat \ {0}, NEW t \in Nat
  PROVE  LET blocks == BM!BlocksFor(n)
             slot == t * BlockSize + (n - (blocks - 1) * BlockSize) - 1
         IN  /\ (n - 1) \div BlockSize + 1 = blocks
             /\ slot \div BlockSize = t
             /\ slot % BlockSize = (n - 1) % BlockSize
<1>1. PICK b \in Nat \ {0} : b = BlockSize
  BY Constants
<1>2. PICK q \in Nat, r \in 0 .. b - 1 :
        /\ n - 1 = b * q + r /\ q = (n - 1) \div b /\ r = (n - 1) % b
  <2>1. /\ n - 1 \in Nat /\ (n - 1) \div b \in Nat /\ (n - 1) % b \in 0 .. b - 1
        /\ n - 1 = b * ((n - 1) \div b) + ((n - 1) % b)
    OBVIOUS
  <2> QED BY <2>1
<1>3. BM!BlocksFor(n) = q + 1
  <2>1. PICK k \in Nat : k = BM!BlocksFor(n) /\ \A i \in Nat : k <= i <=> n <= b * i
    BY <1>1, Blocks
  <2>2. b * (q + 1) = b * q + b /\ b * q \in Nat
    BY Multiples
  <2>3. k <= q + 1 /\ ~(k <= q)
    BY <1>2, <2>1, <2>2
  <2> QED BY <2>1, <2>3
<1>4. t * b + (n - ((q + 1) - 1) * b) - 1 = b * t + r
  <2>1. PICK x \in Nat, y \in Nat : x = b * t /\ x = t * b /\ y = b * q /\ y = q * b
    OBVIOUS
  <2>2. (q + 1) - 1 = q
    OBVIOUS
  <2> QED BY <1>2, <2>1, <2>2
<1>5. (b * t + r) \div b = t /\ (b * t + r) % b = r
  OBVIOUS
<1> QED BY <1>1, <1>2, <1>3, <1>4, <1>5

\* A function without arguments is the empty list.
LEMMA NoSlots ==
  ASSUME NEW s, NEW c \in Nat
  PROVE  [p \in c .. c - 1 |-> BM!SlotOf(s, p)] = <<>>
<1>1. c .. c - 1 = {}
  OBVIOUS
<1> QED BY <1>1

\* A decode row is stored where the ragged layout would put it.
LEMMA DecodeSlots ==
  ASSUME IInv, phase = "run", NEW s \in Seqs, s \in Range(scheduled_seqs), Decodes(s)
  PROVE  prepare_decode(s) = prepare_ragged(s)
<1>1. PICK c, n, L : c = num_cached_tokens[s] /\ n = Len(token_ids[s]) /\ L = Len(block_table[s])
  OBVIOUS
<1>2. /\ c \in Nat \ {0} /\ n \in Nat \ {0} /\ c = n - 1 /\ L \in Nat
      /\ num_scheduled_tokens[s] = 1
  <2>1. c \in Nat /\ n \in Nat /\ L \in Nat
    BY <1>1, Counts DEF IInv
  <2>2. c > 0 /\ c = n - 1 /\ num_scheduled_tokens[s] = 1
    BY <1>1 DEF Decodes
  <2> QED BY <2>1, <2>2
<1>3. s \in Open /\ s # mid_chunk_seq
  BY Members DEF Open, IInv, Decodes
<1>4. L = BM!BlocksFor(n) /\ L \in Nat \ {0}
  <2>1. L = BM!BlocksFor(n)
    BY <1>1, <1>3 DEF IInv, StepInv, SeqInv, Fits
  <2>2. block_table[s] # <<>>
    BY DEF IInv, StepInv, SeqInv, Decodes
  <2> QED BY <1>1, <1>2, <2>1, <2>2, Counts DEF IInv
<1>5. PICK t \in Nat : t = block_table[s][L]
  <2>1. block_table[s] \in Seq(BM!Blocks) /\ L \in 1 .. Len(block_table[s])
    BY <1>1, <1>4, AllocatorFacts DEF IInv, BM!TypeOK
  <2>2. block_table[s][L] \in BM!Blocks
    BY <2>1, ElementOfSeq
  <2> QED BY <2>2 DEF BM!Blocks
<1> DEFINE slot == t * BlockSize + (n - (L - 1) * BlockSize) - 1
<1>6. c \div BlockSize + 1 = L /\ slot \div BlockSize = t /\ slot % BlockSize = c % BlockSize
  BY <1>2, <1>4, LastSlot
<1>7. prepare_decode(s) = [p \in {n - 1} |-> <<slot \div BlockSize, slot % BlockSize>>]
  BY <1>1, <1>5 DEF prepare_decode, BM!num_tokens
<1> HIDE DEF slot
<1>8. prepare_decode(s) = [p \in {c} |-> <<t, c % BlockSize>>]
  BY <1>2, <1>6, <1>7
<1>9. BM!SlotOf(s, c) = <<t, c % BlockSize>>
  BY <1>5, <1>6 DEF BM!SlotOf
<1>10. num_cached_tokens[s] .. num_cached_tokens[s] + num_scheduled_tokens[s] - 1 = {c}
  BY <1>1, <1>2
<1>11. prepare_ragged(s) = [p \in {c} |-> BM!SlotOf(s, p)]
  BY <1>10 DEF prepare_ragged
<1>12. [p \in {c} |-> BM!SlotOf(s, p)] = [p \in {c} |-> <<t, c % BlockSize>>]
  BY <1>9
<1> QED BY <1>8, <1>11, <1>12

\* The forward pass stores every row in the paged layout, and each has room there.
LEMMA BatchIsPaged ==
  ASSUME IInv, phase = "run"
  PROVE  \E n \in [Seqs -> 0 .. MaxModelLen + 1] :
           /\ slot_mapping = BM!PagedSlots(n)
           /\ \A s \in Seqs : n[s] > 0 => BM!Covered(s, n[s])
           /\ \A s \in Range(scheduled_seqs) : n[s] = num_scheduled_tokens[s]
<1>1. Open = Range(scheduled_seqs) /\ Range(scheduled_seqs) \subseteq Seqs
  BY Members DEF Open, IInv
<1>2. ASSUME NEW s \in Range(scheduled_seqs)
      PROVE  /\ num_scheduled_tokens[s] \in 0 .. MaxModelLen + 1
             /\ BM!Covered(s, num_scheduled_tokens[s])
  <2>1. s \in Seqs /\ Fits(s)
    BY <1>1 DEF IInv, StepInv, SeqInv
  <2>2. status[s] \in {"WAITING", "RUNNING"}
    <3>1. s \in Range(active) \/ s = mid_chunk_seq
      BY <1>1, OpenRows DEF IInv, Batching
    <3>2. s # None
      BY <2>1, Constants
    <3> QED BY <3>1, <3>2, Members DEF IInv, Leaving
  <2>3. PICK c \in Nat, k \in Nat, m \in Nat :
          c = num_cached_tokens[s] /\ k = num_scheduled_tokens[s] /\ m = Len(token_ids[s])
    BY <2>1, Counts DEF IInv
  <2>4. c + k <= m /\ m <= MaxModelLen /\ MaxModelLen \in Nat
    BY <2>1, <2>2, <2>3, Live, SchedulerAssumption DEF IInv, Fits, SchedulerAssumption
  <2>5. k \in 0 .. MaxModelLen + 1
    BY <2>4
  <2> QED BY <2>1, <2>3, <2>5 DEF BM!Covered, Fits, BM!num_tokens
<1>3. PICK n : n = [s \in Seqs |-> IF s \in Range(scheduled_seqs) THEN num_scheduled_tokens[s] ELSE 0]
  OBVIOUS
<1>4. n \in [Seqs -> 0 .. MaxModelLen + 1]
  <2>1. 0 \in 0 .. MaxModelLen + 1
    BY SchedulerAssumption DEF SchedulerAssumption
  <2> QED BY <1>2, <1>3, <2>1
<1>5. ASSUME NEW s \in Seqs
      PROVE  slot_mapping[s] = [p \in num_cached_tokens[s] .. num_cached_tokens[s] + n[s] - 1 |-> BM!SlotOf(s, p)]
  <2>1. num_cached_tokens[s] \in Nat
    BY Counts DEF IInv
  <2>2. CASE s \notin Range(scheduled_seqs)
    <3>1. slot_mapping[s] = <<>> /\ n[s] = 0
      BY <1>3, <2>2 DEF slot_mapping
    <3>2. num_cached_tokens[s] + n[s] - 1 = num_cached_tokens[s] - 1
      BY <2>1, <3>1
    <3>3. [p \in num_cached_tokens[s] .. num_cached_tokens[s] - 1 |-> BM!SlotOf(s, p)] = <<>>
      BY <2>1, NoSlots
    <3> QED BY <3>1, <3>2, <3>3
  <2>3. CASE s \in Range(scheduled_seqs)
    <3>1. n[s] = num_scheduled_tokens[s]
      BY <1>3, <2>3
    <3>2. slot_mapping[s] = prepare_ragged(s)
      <4>1. CASE ragged
        BY <2>3, <4>1 DEF slot_mapping
      <4>2. CASE ~ragged
        <5>1. PICK i \in 1 .. Len(scheduled_seqs) : s = scheduled_seqs[i]
          BY <2>3, RangeIs, Members DEF IInv
        <5>2. i \in 1 .. num_decodes
          <6>1. num_decodes \in Int /\ Len(scheduled_seqs) \in Nat /\ ~(Len(scheduled_seqs) > num_decodes)
            BY <4>2, Members DEF IInv, QInv, QueueTypes, ragged
          <6> QED BY <6>1
        <5>3. Decodes(s)
          BY <5>1, <5>2 DEF IInv, StepInv, DecodesInv
        <5>4. slot_mapping[s] = prepare_decode(s)
          BY <2>3, <4>2 DEF slot_mapping
        <5> QED BY <2>3, <5>3, <5>4, DecodeSlots
      <4> QED BY <4>1, <4>2
    <3> QED BY <3>1, <3>2 DEF prepare_ragged
  <2> QED BY <2>2, <2>3
<1>6. slot_mapping = BM!PagedSlots(n)
  <2>1. slot_mapping = [s \in Seqs |-> slot_mapping[s]]
    BY DEF slot_mapping
  <2> QED BY <1>5, <2>1 DEF BM!PagedSlots
<1>7. \A s \in Seqs : n[s] > 0 => BM!Covered(s, n[s])
  BY <1>2, <1>3
<1>8. \A s \in Range(scheduled_seqs) : n[s] = num_scheduled_tokens[s]
  BY <1>1, <1>3
<1> QED BY <1>4, <1>6, <1>7, <1>8

\* The rows are stored.
LEMMA RunStays ==
  ASSUME IInv, Run
  PROVE  StepInv' /\ BM!Next
<1>1. /\ phase = "run" /\ phase' = "commit" /\ row' = 1 /\ BM!store_kvcache(slot_mapping)
      /\ UNCHANGED <<num_scheduled_tokens, waiting, running, mid_chunk_seq, scheduled_seqs>>
  BY DEF Run, rowVars, queueVars
<1>2. PICK n \in [Seqs -> 0 .. MaxModelLen + 1] :
        /\ slot_mapping = BM!PagedSlots(n)
        /\ \A s \in Seqs : n[s] > 0 => BM!Covered(s, n[s])
        /\ \A s \in Range(scheduled_seqs) : n[s] = num_scheduled_tokens[s]
  BY <1>1, BatchIsPaged
<1>3. BM!Forward(n)
  BY <1>1, <1>2 DEF BM!Forward
<1>4. BM!Next
  BY <1>3 DEF BM!Next
<1>5. \A s : Kept(s)
  BY <1>1 DEF BM!store_kvcache, BM!seqVars, Kept
<1>6. active' = active /\ Open = Range(scheduled_seqs) /\ Open' = Open
  <2>1. Open = RowsFrom(1) /\ Open' = RowsFrom(1)'
    BY <1>1 DEF Open, RowsFrom
  <2>2. RowsFrom(1)' = RowsFrom(1)
    BY <1>1 DEF RowsFrom
  <2> QED BY <1>1, <2>1, <2>2, Members DEF active, IInv
<1>7. \A s : ~Current(s) /\ ~Current(s)' /\ (Loose(s) <=> s \in Open) /\ (Loose(s)' <=> s \in Open')
  BY <1>1 DEF Current, Loose
<1>8. ASSUME NEW s \in Open PROVE Stored(s)'
  <2>1. s \in Seqs /\ n[s] = num_scheduled_tokens'[s] /\ n[s] > 0
    <3>1. s \in Seqs /\ Fits(s)
      BY <1>1, <1>6, Members DEF IInv, StepInv, SeqInv
    <3> QED BY <1>1, <1>2, <1>6, <3>1 DEF Fits
  <2>2. BM!Computed(s, num_cached_tokens[s], num_cached_tokens[s] + n[s] - 1)'
    BY <1>2, <1>3, <2>1, ForwardStores DEF IInv
  <2> QED BY <2>1, <2>2 DEF Stored
<1>9. \A s \in Seqs : SeqInv(s)'
  BY <1>1, <1>5, <1>6, <1>7, <1>8, SeqStays DEF IInv, StepInv
<1>10. DecodesInv' /\ ChargeInv' /\ WorkInv'
  BY <1>1 DEF DecodesInv, ChargeInv, WorkInv
<1> QED BY <1>4, <1>9, <1>10 DEF StepInv

\* The forward pass raises.
LEMMA RunFailsStays ==
  ASSUME IInv, RunFails
  PROVE  StepInv' /\ (BM!Next \/ UNCHANGED bmVars)
<1>1. /\ phase = "run" /\ phase' = "failed"
      /\ BM!store_kvcache(slot_mapping) \/ UNCHANGED bmVars
      /\ UNCHANGED <<num_scheduled_tokens, waiting, running, mid_chunk_seq, scheduled_seqs, row>>
  BY DEF RunFails, rowVars, queueVars, stepVars
<1>2. BM!Next \/ UNCHANGED bmVars
  <2> SUFFICES ASSUME BM!store_kvcache(slot_mapping) PROVE BM!Next
    BY <1>1
  <2>1. PICK n \in [Seqs -> 0 .. MaxModelLen + 1] :
          /\ slot_mapping = BM!PagedSlots(n)
          /\ \A s \in Seqs : n[s] > 0 => BM!Covered(s, n[s])
    BY <1>1, BatchIsPaged
  <2> QED BY <2>1 DEF BM!Forward, BM!Next
<1>3. \A s : Kept(s)
  BY <1>1 DEF BM!store_kvcache, BM!seqVars, bmVars, Kept
<1>4. active' = active /\ Open' = Open
  BY <1>1 DEF active, Open, RowsFrom
<1>5. \A s : ~Current(s) /\ ~Current(s)' /\ (Loose(s) <=> s \in Open) /\ (Loose(s)' <=> s \in Open')
  BY <1>1 DEF Current, Loose
<1>6. \A s \in Seqs : SeqInv(s)'
  BY <1>1, <1>3, <1>4, <1>5, SeqStays DEF IInv, StepInv, Postprocessing
<1>7. DecodesInv' /\ ChargeInv' /\ WorkInv'
  BY <1>1 DEF DecodesInv, ChargeInv, WorkInv, IInv, QInv, BatchInv
<1> QED BY <1>2, <1>6, <1>7 DEF StepInv

-----------------------------------------------------------------------------
(* The postprocess loop *)

\* The rows from the current one on are it and the rows after it.
LEMMA RowsSplit ==
  ASSUME QInv, phase \in Postprocessing
  PROVE  /\ RowsFrom(row) = RowsFrom(row + 1) \cup {scheduled_seqs[row]}
         /\ scheduled_seqs[row] \notin RowsFrom(row + 1)
<1>1. /\ row \in 1 .. Len(scheduled_seqs) /\ Len(scheduled_seqs) \in Nat
      /\ \A i \in 1 .. Len(scheduled_seqs) : i > row => scheduled_seqs[i] # scheduled_seqs[row]
  BY CurrentRow, Members DEF Postprocessing
<1>2. row .. Len(scheduled_seqs) = (row + 1 .. Len(scheduled_seqs)) \cup {row}
  BY <1>1
<1>3. \A i \in row + 1 .. Len(scheduled_seqs) : i \in 1 .. Len(scheduled_seqs) /\ i > row
  BY <1>1
<1> QED BY <1>1, <1>2, <1>3 DEF RowsFrom

\* What a turn of the loop leaves of the other sequences.
LEMMA RowStays ==
  ASSUME IInv, phase \in Postprocessing, NEW x, x = scheduled_seqs[row],
         kv' = kv, mid_chunk_seq' = mid_chunk_seq,
         \A s \in Seqs \ {x} : Kept(s),
         \A s \in Seqs \ {x} : s \in Range(running)' <=> s \in Range(running),
         \/ NextRow
         \/ phase' \in {"emit", "finish"} /\ UNCHANGED <<row, scheduled_seqs>>
  PROVE  /\ \A s \in Seqs \ {x} : SeqInv(s)'
         /\ DecodesInv' /\ ChargeInv' /\ WorkInv'
         /\ x \notin Open' /\ active' = running'
         /\ phase' \in {"emit", "finish"} => Current(x)'
         /\ phase' \notin {"emit", "finish"} => ~Current(x)'
<1>1. row \in 1 .. Len(scheduled_seqs) /\ Len(scheduled_seqs) \in Nat /\ active = running
  BY CurrentRow, Members DEF IInv, Postprocessing
<1>2. /\ RowsFrom(row) = RowsFrom(row + 1) \cup {x}
      /\ x \notin RowsFrom(row + 1)
  BY RowsSplit DEF IInv
<1>3. /\ phase' \in {"commit", "idle", "emit", "finish"}
      /\ Open' = RowsFrom(row + 1)
      /\ \A s : Current(s)' <=> phase' \in {"emit", "finish"} /\ s = x
  <2>1. CASE NextRow /\ row < Len(scheduled_seqs)
    <3>1. phase' = "commit" /\ row' = row + 1 /\ scheduled_seqs' = scheduled_seqs
      BY <2>1 DEF NextRow
    <3> QED BY <3>1 DEF Open, RowsFrom, Current
  <2>2. CASE NextRow /\ ~(row < Len(scheduled_seqs))
    <3>1. phase' = "idle"
      BY <2>2 DEF NextRow
    <3>2. row + 1 .. Len(scheduled_seqs) = {}
      BY <1>1, <2>2
    <3> QED BY <3>1, <3>2 DEF Open, RowsFrom, Current
  <2>3. CASE phase' \in {"emit", "finish"} /\ UNCHANGED <<row, scheduled_seqs>>
    BY <2>3 DEF Open, RowsFrom, Current
  <2> QED BY <2>1, <2>2, <2>3
<1>4. /\ Open \in {RowsFrom(row), RowsFrom(row + 1)}
      /\ \A s : Current(s) => s = x
      /\ phase # "cancel" /\ phase' # "cancel" /\ phase # "failed" /\ phase' # "failed"
  BY <1>3 DEF Open, Current, Postprocessing
<1>5. active' = running'
  BY <1>3 DEF active
<1>6. ASSUME NEW s \in Seqs \ {x} PROVE SeqInv(s)'
  <2>1. s \in Open' <=> s \in Open
    BY <1>2, <1>3, <1>4
  <2>2. ~Current(s)' /\ (Loose(s)' <=> s \in Open') /\ (Loose(s) <=> s \in Open)
    BY <1>3, <1>4 DEF Loose
  <2>3. s \in Open' => Stored(s)'
    <3> SUFFICES ASSUME s \in Open PROVE Stored(s)'
      BY <2>1
    <3>1. Stored(s)
      BY DEF IInv, StepInv, SeqInv
    <3> QED BY <3>1, StoredStays
  <2>4. s \in Range(active)' <=> s \in Range(active)
    BY <1>1, <1>5
  <2>5. SeqInv(s) /\ Kept(s)
    BY DEF IInv, StepInv
  <2> QED BY <1>4, <2>1, <2>2, <2>3, <2>4, <2>5, SeqStays
<1>7. DecodesInv' /\ ChargeInv' /\ WorkInv'
  BY <1>3 DEF DecodesInv, ChargeInv, WorkInv
<1> QED BY <1>2, <1>3, <1>5, <1>6, <1>7

\* The current row is a running sequence, unless it is a chunk that was cut off.
LEMMA RowIs ==
  ASSUME IInv, phase = "commit", NEW x, x = scheduled_seqs[row]
  PROVE  /\ x \in Seqs /\ x \in Open /\ Fits(x) /\ Stored(x)
         /\ status[x] \in {"WAITING", "RUNNING"}
         /\ \/ x \in Range(active) /\ x # mid_chunk_seq
            \/ /\ x = mid_chunk_seq /\ x \notin Range(active)
               /\ num_cached_tokens[x] + num_scheduled_tokens[x] < Len(token_ids[x])
<1>1. x \in Seqs /\ RowInv(row) /\ active = running
  BY CurrentRow DEF IInv
<1>2. x \in Open
  BY RowsSplit DEF Open, IInv, Postprocessing
<1>3. Fits(x) /\ Stored(x)
  BY <1>1, <1>2 DEF IInv, StepInv, SeqInv, Postprocessing
<1>4. CASE x \in Range(active)
  BY <1>1, <1>2, <1>3, <1>4, Members DEF IInv, Leaving
<1>5. CASE /\ x = mid_chunk_seq
           /\ num_cached_tokens[x] + num_scheduled_tokens[x] < Len(token_ids[x])
  <2>1. x # None
    BY <1>1, Constants
  <2> QED BY <1>1, <1>2, <1>3, <1>5, <2>1, Members DEF IInv
<1> QED BY <1>1, <1>4, <1>5 DEF RowInv

\* A row's tokens are published and counted.
LEMMA CommitStays ==
  ASSUME IInv, CommitRow
  PROVE  StepInv' /\ BM!Next
<1>1. PICK x : x = scheduled_seqs[row]
  OBVIOUS
<1>2. PICK k : k = num_scheduled_tokens[x]
  OBVIOUS
<1>3. /\ phase = "commit" /\ BM!commit(x, k)
      /\ num_scheduled_tokens' = [num_scheduled_tokens EXCEPT ![x] = 0]
      /\ UNCHANGED <<running, mid_chunk_seq>>
      /\ IF num_cached_tokens[x] + k < Len(token_ids[x])
         THEN NextRow
         ELSE phase' = "emit" /\ UNCHANGED <<row, scheduled_seqs>>
  BY <1>1, <1>2 DEF CommitRow, queueVars, BM!num_tokens
<1>4. /\ num_cached_tokens' = [num_cached_tokens EXCEPT ![x] = @ + k]
      /\ UNCHANGED <<token_ids, block_table, kv>>
  BY <1>3 DEF BM!commit
<1>5. /\ x \in Seqs /\ Fits(x) /\ Stored(x) /\ status[x] \in {"WAITING", "RUNNING"}
      /\ \/ x \in Range(active) /\ x # mid_chunk_seq
         \/ x = mid_chunk_seq /\ x \notin Range(active) /\ num_cached_tokens[x] + k < Len(token_ids[x])
  BY <1>1, <1>2, <1>3, RowIs
<1>6. PICK c \in Nat, n \in Nat, L \in Nat :
        c = num_cached_tokens[x] /\ n = Len(token_ids[x]) /\ L = Len(block_table[x])
  BY <1>5, Counts DEF IInv
<1>7. k \in Nat \ {0} /\ c + k <= n /\ c + k <= BlockSize * L
  <2>1. num_scheduled_tokens[x] \in Nat
    BY <1>5, Counts DEF IInv
  <2> QED BY <1>2, <1>5, <1>6, <2>1 DEF Fits
<1>8. BM!Next
  <2>1. BM!Commit(x, k)
    BY <1>2, <1>3, <1>5, <1>6, <1>7 DEF BM!Commit, BM!Covered, BM!num_tokens, Stored
  <2>2. k \in 1 .. MaxModelLen + 1
    <3>1. n <= MaxModelLen /\ MaxModelLen \in Nat
      BY <1>5, <1>6, Live, SchedulerAssumption DEF IInv, SchedulerAssumption
    <3> QED BY <1>6, <1>7, <3>1
  <2> QED BY <1>5, <2>1, <2>2 DEF BM!Next
<1>9. num_cached_tokens \in [Seqs -> Nat] /\ num_scheduled_tokens \in [Seqs -> 0 .. MaxNumBatchedTokens]
  BY DEF IInv, QInv, QueueTypes
<1>10. num_cached_tokens'[x] = c + k /\ \A s \in Seqs \ {x} : Kept(s)
  BY <1>3, <1>4, <1>5, <1>6, <1>9 DEF Kept
<1>11. /\ \A s \in Seqs \ {x} : SeqInv(s)'
       /\ DecodesInv' /\ ChargeInv' /\ WorkInv'
       /\ x \notin Open' /\ active' = running'
       /\ phase' \in {"emit", "finish"} => Current(x)'
       /\ phase' \notin {"emit", "finish"} => ~Current(x)'
  <2>1. \/ NextRow
        \/ phase' \in {"emit", "finish"} /\ UNCHANGED <<row, scheduled_seqs>>
    BY <1>3
  <2>2. phase \in Postprocessing
    BY <1>3 DEF Postprocessing
  <2> QED BY <1>1, <1>3, <1>4, <1>10, <2>1, <2>2, RowStays
<1>12. active' = active /\ block_table'[x] = block_table[x] /\ token_ids'[x] = token_ids[x]
  BY <1>3, <1>4, <1>11 DEF active
<1>13. /\ block_table[x] # <<>> <=> (x \in Range(active) \/ x = mid_chunk_seq)
       /\ x = mid_chunk_seq => L <= BM!BlocksFor(n)
  BY <1>5, <1>6 DEF IInv, StepInv, SeqInv
<1>14. BM!BlocksFor(Len(token_ids[x]))' = BM!BlocksFor(n)
  BY <1>6, <1>12 DEF BM!BlocksFor
<1>15. SeqInv(x)'
  <2>1. CASE c + k < n
    <3>1. phase' \in {"commit", "idle"} /\ x \notin Range(active)
      <4>1. NextRow
        BY <1>3, <1>6, <2>1
      <4>2. x = mid_chunk_seq
        BY <1>2, <1>5, <1>6, <1>7, <2>1 DEF Fits
      <4> QED BY <1>5, <4>1, <4>2 DEF NextRow
    <3> QED BY <1>3, <1>6, <1>11, <1>12, <1>13, <1>14, <3>1 DEF SeqInv
  <2>2. CASE ~(c + k < n)
    <3>1. phase' = "emit" /\ x \in Range(active) /\ x # mid_chunk_seq
      BY <1>3, <1>5, <1>6, <2>2
    <3>2. L = BM!BlocksFor(n) /\ c + k = n
      BY <1>2, <1>5, <1>6, <3>1 DEF Fits
    <3>3. Loose(x)'
      BY <1>11, <3>1 DEF Loose
    <3>4. num_cached_tokens'[x] = Len(token_ids'[x]) /\ Len(block_table'[x]) = BM!BlocksFor(n)
      BY <1>6, <1>10, <1>12, <3>2
    <3> QED BY <1>3, <1>11, <1>12, <1>13, <1>14, <3>1, <3>3, <3>4 DEF SeqInv
  <2> QED BY <2>1, <2>2
<1> QED BY <1>8, <1>11, <1>15 DEF StepInv

\* A token is appended: the row is ready for the next step, or finishes.
LEMMA EmitStays ==
  ASSUME IInv, NEW t \in Token, EmitToken(t)
  PROVE  StepInv' /\ BM!Next
<1>1. PICK x : x = scheduled_seqs[row]
  OBVIOUS
<1>2. /\ phase = "emit" /\ BM!append_token(x, t)
      /\ UNCHANGED <<num_scheduled_tokens, running, mid_chunk_seq>>
      /\ \/ NextRow
         \/ phase' \in {"emit", "finish"} /\ UNCHANGED <<row, scheduled_seqs>>
      /\ phase' # "emit"
  BY <1>1 DEF EmitToken, rowVars, queueVars, NextRow
<1>3. /\ token_ids' = [token_ids EXCEPT ![x] = Append(@, t)]
      /\ UNCHANGED <<num_cached_tokens, block_table, kv>>
  BY <1>2 DEF BM!append_token
<1>4. x \in Seqs /\ x \in Range(active) /\ active = running /\ x # mid_chunk_seq /\ status[x] = "RUNNING"
  BY <1>1, <1>2, CurrentRow, Members DEF IInv, Leaving
<1>5. PICK n \in Nat : n = Len(token_ids[x])
  BY <1>4, Counts DEF IInv
<1>6. num_cached_tokens[x] = n /\ Len(block_table[x]) = BM!BlocksFor(n) /\ block_table[x] # <<>>
  <2>1. Current(x)
    BY <1>1, <1>2 DEF Current
  <2> QED BY <1>2, <1>4, <1>5, <2>1 DEF IInv, StepInv, SeqInv
<1>7. n \in 1 .. MaxModelLen /\ MaxModelLen \in Nat /\ token_ids[x] \in Seq(Token) /\ token_ids[x] # <<>>
  <2>1. n \in 1 .. MaxModelLen /\ MaxModelLen \in Nat
    BY <1>4, <1>5, Live, SchedulerAssumption DEF IInv, SchedulerAssumption
  <2>2. token_ids[x] \in Seq(Token)
    BY <1>4 DEF IInv, QInv, QueueTypes
  <2> QED BY <1>5, <2>1, <2>2, EmptySeq
<1>8. BM!Next
  <2>1. n < MaxModelLen + 1
    BY <1>7
  <2>2. BM!AppendToken(x, t)
    BY <1>2, <1>5, <1>6, <1>7, <2>1 DEF BM!AppendToken, BM!num_tokens
  <2> QED BY <1>4, <2>2 DEF BM!Next
<1>9. /\ Len(token_ids'[x]) = n + 1
      /\ \A s \in Seqs \ {x} : Kept(s)
  <2>1. Len(Append(token_ids[x], t)) = n + 1
    BY <1>5, <1>7, AppendProperties
  <2>2. token_ids \in [Seqs -> Seq(Token)]
    BY DEF IInv, QInv, QueueTypes
  <2> QED BY <1>2, <1>3, <1>4, <2>1, <2>2 DEF Kept
<1>10. /\ \A s \in Seqs \ {x} : SeqInv(s)'
       /\ DecodesInv' /\ ChargeInv' /\ WorkInv'
       /\ x \notin Open' /\ active' = running'
  <2>1. phase \in Postprocessing
    BY <1>2 DEF Postprocessing
  <2> QED BY <1>1, <1>2, <1>3, <1>9, <2>1, RowStays
<1>11. Ready(x)'
  <2>1. BM!BlocksFor(num_cached_tokens[x])' = BM!BlocksFor(n)
    BY <1>3, <1>6 DEF BM!BlocksFor
  <2>2. num_cached_tokens'[x] = n /\ Len(block_table'[x]) = BM!BlocksFor(n)
    BY <1>3, <1>6
  <2>3. n > 0 /\ n = n + 1 - 1
    BY <1>7
  <2> QED BY <1>9, <2>1, <2>2, <2>3 DEF Ready
<1>12. SeqInv(x)'
  <2>1. x \in Range(active)' /\ x # mid_chunk_seq' /\ block_table'[x] # <<>>
    BY <1>2, <1>3, <1>4, <1>6, <1>10
  <2> QED BY <1>2, <1>10, <1>11, <2>1 DEF SeqInv
<1> QED BY <1>8, <1>10, <1>12 DEF StepInv

\* A finished sequence leaves with its blocks.
LEMMA FinishStays ==
  ASSUME IInv, FinishRow
  PROVE  StepInv' /\ BM!Next
<1>1. PICK x : x = scheduled_seqs[row]
  OBVIOUS
<1>2. /\ phase = "finish" /\ BM!deallocate(x) /\ running' = Without(running, x) /\ NextRow
      /\ UNCHANGED <<num_scheduled_tokens, mid_chunk_seq>>
  BY <1>1 DEF FinishRow, rowVars
<1>3. x \in Seqs /\ x \in Range(active) /\ active = running /\ x # mid_chunk_seq
  BY <1>1, <1>2, CurrentRow, Members DEF IInv
<1>4. BM!Next
  <2>1. block_table[x] # <<>>
    BY <1>3 DEF IInv, StepInv, SeqInv
  <2> QED BY <1>2, <1>3, <2>1 DEF BM!Deallocate, BM!Next
<1>5. /\ block_table' = [block_table EXCEPT ![x] = <<>>]
      /\ num_cached_tokens' = [num_cached_tokens EXCEPT ![x] = 0]
      /\ UNCHANGED <<token_ids, kv>>
  BY <1>2 DEF BM!deallocate
<1>6. BM!TypeOK
  BY AllocatorFacts DEF IInv
<1>7. block_table'[x] = <<>> /\ \A s \in Seqs \ {x} : Kept(s)
  BY <1>2, <1>3, <1>5, <1>6 DEF BM!TypeOK, Kept
<1>8. Range(running)' = Range(running) \ {x}
  <2>1. running \in Seq(Seqs)
    BY Members DEF IInv
  <2>2. Range(Without(running, x)) = Range(running) \ {x}
    BY <2>1, WithoutSpec
  <2> QED BY <1>2, <2>2
<1>9. /\ \A s \in Seqs \ {x} : SeqInv(s)'
      /\ DecodesInv' /\ ChargeInv' /\ WorkInv'
      /\ x \notin Open' /\ active' = running'
      /\ phase' \notin {"emit", "finish"} => ~Current(x)'
  <2>1. phase \in Postprocessing
    BY <1>2 DEF Postprocessing
  <2>2. \A s \in Seqs \ {x} : s \in Range(running)' <=> s \in Range(running)
    BY <1>8
  <2> QED BY <1>1, <1>2, <1>5, <1>7, <2>1, <2>2, RowStays
<1>10. SeqInv(x)'
  <2>1. x \notin Range(active)' /\ x # mid_chunk_seq' /\ ~Current(x)'
    BY <1>2, <1>3, <1>8, <1>9 DEF NextRow
  <2> QED BY <1>7, <1>9, <2>1 DEF SeqInv
<1> QED BY <1>4, <1>9, <1>10 DEF StepInv

\* A cancelled sequence leaves with what it holds.
LEMMA CancelRowStays ==
  ASSUME IInv, CancelRow
  PROVE  StepInv' /\ (BM!Next \/ UNCHANGED bmVars)
<1>1. PICK x : x = Head(BM!Keep(waiting \o running, targets))
  OBVIOUS
<1>2. /\ phase = "cancel" /\ release(x)
      /\ running' = Without(running, x)
      /\ mid_chunk_seq' = MarkWithout(x)
      /\ num_scheduled_tokens' = [num_scheduled_tokens EXCEPT ![x] = 0]
      /\ targets' = targets \ {x}
      /\ phase' = IF targets' = {} THEN "idle" ELSE "cancel"
  BY <1>1 DEF CancelRow
<1>3. x \in Seqs
  BY <1>1, <1>2, NextTarget DEF IInv
<1>4. BM!Next \/ UNCHANGED bmVars
  BY <1>2, <1>3 DEF release, BM!Deallocate, BM!Next
<1>5. BM!TypeOK /\ num_scheduled_tokens \in [Seqs -> 0 .. MaxNumBatchedTokens] /\ running \in Seq(Seqs)
  BY AllocatorFacts DEF IInv, QInv, QueueTypes
<1>6. block_table'[x] = <<>> /\ \A s \in Seqs \ {x} : Kept(s)
  <2>1. CASE BM!deallocate(x)
    <3>1. /\ block_table' = [block_table EXCEPT ![x] = <<>>]
          /\ num_cached_tokens' = [num_cached_tokens EXCEPT ![x] = 0]
          /\ token_ids' = token_ids
      BY <2>1 DEF BM!deallocate
    <3> QED BY <1>2, <1>3, <1>5, <3>1 DEF BM!TypeOK, Kept
  <2>2. CASE block_table[x] = <<>> /\ UNCHANGED bmVars
    BY <1>2, <1>3, <1>5, <2>2 DEF bmVars, Kept
  <2> QED BY <1>2, <2>1, <2>2 DEF release
<1>7. active = running /\ active' = running' /\ Range(active)' = Range(active) \ {x}
  <2>1. Range(Without(running, x)) = Range(running) \ {x}
    BY <1>5, WithoutSpec
  <2>2. active = running /\ active' = running'
    BY <1>2 DEF active
  <2> QED BY <1>2, <2>1, <2>2
<1>8. x # mid_chunk_seq' /\ \A s \in Seqs \ {x} : s = mid_chunk_seq' <=> s = mid_chunk_seq
  BY <1>2, <1>3, Constants DEF MarkWithout
<1>9. Open = {} /\ Open' = {} /\ \A s : ~Current(s) /\ ~Current(s)'
  BY <1>2 DEF Open, Current
<1>10. \A s \in Seqs \ {x} : ~Loose(s)' => ~Loose(s)
  BY <1>2, <1>9 DEF Loose
<1>11. \A s \in Seqs \ {x} : SeqInv(s)'
  <2>1. \A s \in Seqs \ {x} : s \in Range(active)' <=> s \in Range(active)
    BY <1>7
  <2> QED BY <1>6, <1>8, <1>9, <1>10, <2>1, SeqStays DEF IInv, StepInv
<1>12. SeqInv(x)'
  <2>1. x \notin Range(active)'
    BY <1>7
  <2> QED BY <1>6, <1>8, <1>9, <2>1 DEF SeqInv
<1>13. DecodesInv' /\ ChargeInv' /\ WorkInv'
  BY <1>2 DEF DecodesInv, ChargeInv, WorkInv
<1> QED BY <1>4, <1>11, <1>12, <1>13 DEF StepInv

-----------------------------------------------------------------------------
(* The invariant *)

\* An engine without requests satisfies the invariant.
LEMMA InitInv == Init => IInv
<1> SUFFICES ASSUME Init PROVE IInv
  OBVIOUS
<1>1. QInv
  BY InitQueues
<1>2. BMP!IInv
  <2>1. BMP!Init
    BY DEF Init, BM!Init, BMP!Init, BM!Blocks, BMP!Blocks, BM!NoHash, BMP!NoHash
  <2> QED BY <2>1, AllocatorAssumption, BMP!InitInv DEF BMP!BlockManagerAssumption
<1>3. /\ block_table = [s \in Seqs |-> <<>>] /\ running = <<>> /\ mid_chunk_seq = None /\ phase = "idle"
  BY DEF Init, BM!Init
<1>4. active = <<>> /\ Open = {} /\ \A s : ~Current(s)
  BY <1>3 DEF active, Open, Current
<1>5. \A s \in Seqs : s # mid_chunk_seq /\ s \notin Range(active)
  BY <1>3, <1>4, Constants DEF Range
<1>6. StepInv
  BY <1>3, <1>4, <1>5 DEF StepInv, SeqInv, DecodesInv, ChargeInv, WorkInv
<1> QED BY <1>1, <1>2, <1>6 DEF IInv

\* Every step keeps the scheduler's part, and is a call the allocator allows or none.
LEMMA NextStep ==
  ASSUME IInv, [Next]_vars, Retry => Retriable
  PROVE  StepInv' /\ (BM!Next \/ UNCHANGED bmVars)
<1>1. ASSUME NEW s \in Seqs, NEW r \in Requests, add_request(s, r)
      PROVE  StepInv' /\ BM!Next
  BY <1>1, AddStays
<1>2. CASE StartStep
  BY <1>2, StartStays DEF StartStep
<1>3. CASE Schedule
  <2>1. CASE EndDecode
    BY <2>1, EndDecodeStays DEF EndDecode
  <2>2. CASE EndPrefill
    BY <2>2, EndPrefillStays DEF EndPrefill
  <2> QED BY <1>3, <2>1, <2>2, DecodeStays, ReclaimStays, PreemptLastStays, AdmitStays,
             ContinueStays, RequeueStays DEF Schedule
<1>4. CASE Run \/ RunFails
  BY <1>4, RunStays, RunFailsStays
<1>5. CASE Postprocess
  BY <1>5, CommitStays, EmitStays, FinishStays DEF Postprocess
<1>6. ASSUME NEW T, Cancel(T), phase = "idle" \/ T = Queued
      PROVE  StepInv' /\ UNCHANGED bmVars
  BY <1>6, CancelStays DEF Cancel
<1>7. CASE CleanUp
  BY <1>6, <1>7 DEF CleanUp
<1>8. CASE CancelRow
  BY <1>8, CancelRowStays
<1>9. CASE Retry
  BY <1>9, RetryStays DEF Retry
<1>10. CASE Rest \/ UNCHANGED vars
  BY <1>10, StutterStays DEF Rest, vars
<1> QED BY <1>1, <1>2, <1>3, <1>4, <1>5, <1>6, <1>7, <1>8, <1>9, <1>10 DEF Next

\* Every step keeps the invariant.
LEMMA NextInv ==
  ASSUME IInv, [Next]_vars, Retry => Retriable
  PROVE  IInv'
<1>1. StepInv' /\ (BM!Next \/ UNCHANGED bmVars)
  BY NextStep
<1>2. BMP!IInv'
  BY <1>1, AllocatorKeeps DEF IInv
<1>3. QInv'
  BY NextQueues DEF IInv
<1> QED BY <1>1, <1>2, <1>3 DEF IInv

-----------------------------------------------------------------------------
(* The theorems *)

\* The queues, the batch, the block tables and the cache stay consistent, when a failed
\* step is retried only if it ran nothing but a chunk inside a prompt.
THEOREM Invariance ==
  ASSUME RetryAfterFailure = "chunk"
  PROVE  Spec => []IInv
<1>1. IInv /\ [Next]_vars => IInv'
  BY NextInv DEF Retriable
<1> QED BY <1>1, InitInv, PTL DEF Spec

\* Every call the scheduler makes to the allocator respects the allocator's contract.
THEOREM AllocatorIsUsedWell ==
  ASSUME RetryAfterFailure = "chunk"
  PROVE  Spec => UsesBlockManager
<1>1. Init => BM!Init
  BY DEF Init
<1>2. IInv /\ [Next]_vars => [BM!Next]_(BM!bmVars)
  <2>1. bmVars' = bmVars => UNCHANGED BM!bmVars
    BY DEF bmVars, BM!bmVars, BM!poolVars, BM!indexVars, BM!seqVars
  <2> QED BY <2>1, NextStep DEF Retriable
<1> QED BY <1>1, <1>2, Invariance, PTL DEF Spec, UsesBlockManager, BM!Spec

\* Attention reads only computed positions: what the scheduler counts as cached is in the
\* cache, whatever was shared, evicted, preempted, cancelled or recycled.
THEOREM CachedTokensAreComputed ==
  ASSUME RetryAfterFailure = "chunk"
  PROVE  Spec => []CachedIsComputed
<1>1. IInv => CachedIsComputed
  BY AllocatorFacts DEF IInv, CachedIsComputed
<1> QED BY <1>1, Invariance, PTL

\* schedule() never reaches its "could not schedule pending work" error.
THEOREM NeverStuck ==
  ASSUME RetryAfterFailure = "chunk"
  PROVE  Spec => []AlwaysSchedulesSomething
<1>1. IInv => AlwaysSchedulesSomething
  BY DEF IInv, QInv, BatchInv, StepInv, WorkInv, AlwaysSchedulesSomething
<1> QED BY <1>1, Invariance, PTL

\* A decode row has all tokens but the last cached, and blocks for just those it has.
LEMMA DecodesAreAligned ==
  IInv => DecodeRowsAreAligned
<1> SUFFICES ASSUME IInv, phase = "run", NEW i \in 1 .. num_decodes, NEW s, s = scheduled_seqs[i]
             PROVE  /\ num_cached_tokens[s] = BM!num_tokens(s) - 1
                    /\ Len(block_table[s]) = BM!num_blocks(s)
  BY DEF DecodeRowsAreAligned
<1>1. Decodes(s)
  BY DEF IInv, StepInv, DecodesInv
<1>2. s \in Seqs /\ s # mid_chunk_seq
  BY <1>1, Members DEF IInv, Decodes
<1>3. s \in Open
  <2>1. i \in 1 .. Len(scheduled_seqs)
    <3>1. num_decodes <= Len(scheduled_seqs) /\ num_decodes \in Int /\ Len(scheduled_seqs) \in Nat
      BY Members DEF IInv, QInv, QueueTypes, StepInv, DecodesInv
    <3> QED BY <3>1
  <2> QED BY <2>1 DEF Open, RowsFrom
<1>4. Fits(s)
  BY <1>2, <1>3 DEF IInv, StepInv, SeqInv
<1> QED BY <1>1, <1>2, <1>4 DEF Decodes, Fits, BM!num_tokens, BM!num_blocks

\* The num_cached == len - 1 invariant that the decode layout relies on.
THEOREM DecodeLayoutIsRight ==
  ASSUME RetryAfterFailure = "chunk"
  PROVE  Spec => []DecodeRowsAreAligned
  BY Invariance, DecodesAreAligned, PTL

\* Without requests nobody holds a block.
LEMMA RestHoldsNothing ==
  IInv => AllBlocksReturn
<1> SUFFICES ASSUME IInv, Queued = {}, phase = "idle" PROVE used_block_ids = {}
  BY DEF AllBlocksReturn
<1>1. active = running /\ Range(running) = {} /\ Range(waiting) = {}
  BY DEF active, Queued
<1>2. mid_chunk_seq = None
  BY <1>1, MidIsWaiting DEF IInv
<1>3. \A s \in Seqs : block_table[s] = <<>>
  BY <1>1, <1>2, Constants DEF IInv, StepInv, SeqInv
<1> QED BY <1>3, PoolIsFree DEF IInv

\* Nothing leaks: when no request is left, every block is free again.
THEOREM BlocksReturn ==
  ASSUME RetryAfterFailure = "chunk"
  PROVE  Spec => []AllBlocksReturn
  BY Invariance, RestHoldsNothing, PTL

\* The queues and the batch are in order at every step of schedule(), postprocess() and
\* cancel(), for every pool, budget and set of requests.
THEOREM QueuesAreInOrder ==
  ASSUME RetryAfterFailure = "chunk"
  PROVE  Spec => []QueueDiscipline
<1>1. IInv => TypeOK
  BY AllocatorFacts DEF IInv, QInv, QueueTypes, TypeOK
<1>2. IInv => MidChunkAtHead
  <2> SUFFICES ASSUME IInv PROVE MidChunkAtHead
    OBVIOUS
  <2>1. ASSUME mid_chunk_seq = None, waiting # <<>> PROVE block_table[Head(waiting)] = <<>>
    <3>1. PICK x : x = Head(waiting)
      OBVIOUS
    <3>2. x \in Seqs /\ x \notin Range(active)
      BY <2>1, <3>1, Members, PopSpec DEF IInv
    <3>3. x # mid_chunk_seq
      BY <2>1, <3>2, Constants
    <3> QED BY <3>1, <3>2, <3>3 DEF IInv, StepInv, SeqInv
  <2>2. ASSUME mid_chunk_seq # None
        PROVE  waiting # <<>> /\ Head(waiting) = mid_chunk_seq /\ block_table[mid_chunk_seq] # <<>>
    BY <2>2, MidIsWaiting DEF IInv, QInv, QueuesInv, StepInv, SeqInv
  <2> QED BY <2>1, <2>2 DEF MidChunkAtHead
<1>3. IInv => OnlyActiveWorkHoldsBlocks
  <2> SUFFICES ASSUME IInv PROVE OnlyActiveWorkHoldsBlocks
    OBVIOUS
  <2>1. Range(active) = Range(running) \cup (IF phase = "decode" THEN Range(scheduled_seqs) ELSE {})
    <3>1. CASE phase = "decode"
      <4>1. Range(active) = Range(scheduled_seqs) \cup Range(running)
        BY <3>1, Members, JoinSpec DEF IInv, active
      <4> QED BY <3>1, <4>1
    <3>2. CASE phase # "decode"
      BY <3>2 DEF active
    <3> QED BY <3>1, <3>2
  <2>2. \A s \in Seqs : block_table[s] # <<>> <=> s \in Range(active) \cup {mid_chunk_seq}
    BY DEF IInv, StepInv, SeqInv
  <2> QED BY <2>1, <2>2 DEF OnlyActiveWorkHoldsBlocks
<1>4. IInv => BatchWithinBudget
  BY DEF IInv, QInv, QueueTypes, BatchInv, Batching, StepInv, ChargeInv, BatchWithinBudget
<1>5. TypeOK /\ MidChunkAtHead /\ OnlyActiveWorkHoldsBlocks /\ QueuesMatchStatus /\ BatchWithinBudget
        => QueueDiscipline
  BY DEF QueueDiscipline
<1> QED BY <1>1, <1>2, <1>3, <1>4, <1>5, Invariance, StatusesNameQueues, PTL

-----------------------------------------------------------------------------
(* FIFO admission *)

\* What FifoAdmission says of a step.
Fifo ==
  \A s, t \in Range(waiting) :
    Before(waiting, s, t) =>
      /\ Before(waiting', t, s) => block_table[s] # <<>> /\ block_table'[s] = <<>>
      /\ s \in Range(waiting') /\ t \in Range(running') => s = mid_chunk_seq

\* Two elements of a queue without repetition have one order, and none is before the head.
LEMMA OneOrder ==
  ASSUME NEW q \in Seq(Seqs), IsInjective(q), NEW s, NEW t, Before(q, s, t)
  PROVE  ~Before(q, t, s) /\ t # Head(q) /\ s # t
<1>1. PICK i \in 1 .. Len(q), j \in 1 .. Len(q) : i < j /\ q[i] = s /\ q[j] = t
  BY DEF Before
<1>2. Len(q) \in Nat /\ DOMAIN q = 1 .. Len(q)
  BY LenProperties
<1>3. \A k, l \in 1 .. Len(q) : q[k] = q[l] => k = l
  BY <1>2 DEF IsInjective
<1>4. ~Before(q, t, s)
  <2> SUFFICES ASSUME NEW k \in 1 .. Len(q), NEW l \in 1 .. Len(q), k < l, q[k] = t, q[l] = s
               PROVE  FALSE
    BY DEF Before
  <2>1. k = j /\ l = i
    BY <1>1, <1>3
  <2> QED BY <1>1, <1>2, <2>1
<1>5. q # <<>> /\ Head(q) = q[1] /\ 1 \in 1 .. Len(q)
  <2>1. Len(q) # 0
    BY <1>1, <1>2
  <2>2. q # <<>>
    BY <2>1
  <2> QED BY <1>2, <2>1, <2>2, PopSpec
<1>6. t # Head(q)
  <2>1. j # 1
    BY <1>1, <1>2
  <2> QED BY <1>1, <1>3, <1>5, <2>1
<1>7. i # j
  BY <1>1, <1>2
<1> QED BY <1>1, <1>3, <1>4, <1>6, <1>7

\* A new tail element changes nothing in the order of the others.
LEMMA PushOrder ==
  ASSUME NEW q \in Seq(Seqs), NEW e \in Seqs, NEW s, NEW t, t # e, Before(Append(q, e), s, t)
  PROVE  Before(q, s, t)
<1> DEFINE p == Append(q, e)
<1>1. Len(p) = Len(q) + 1 /\ p[Len(q) + 1] = e /\ \A i \in 1 .. Len(q) : p[i] = q[i]
  BY PushSpec
<1>2. Len(q) \in Nat
  BY LenProperties
<1>3. PICK i \in 1 .. Len(p), j \in 1 .. Len(p) : i < j /\ p[i] = s /\ p[j] = t
  BY DEF Before
<1> HIDE DEF p
<1>4. j # Len(q) + 1
  BY <1>1, <1>3
<1>5. i \in 1 .. Len(q) /\ j \in 1 .. Len(q)
  BY <1>1, <1>2, <1>3, <1>4
<1> QED BY <1>1, <1>3, <1>5 DEF Before

\* Nor does taking the head away.
LEMMA PopOrder ==
  ASSUME NEW q \in Seq(Seqs), q # <<>>, NEW s, NEW t, Before(Tail(q), s, t)
  PROVE  Before(q, s, t)
<1> DEFINE p == Tail(q)
<1>1. Len(p) = Len(q) - 1 /\ \A i \in 1 .. Len(q) - 1 : p[i] = q[i + 1]
  BY PopSpec
<1>2. Len(q) \in Nat
  BY LenProperties
<1>3. PICK i \in 1 .. Len(p), j \in 1 .. Len(p) : i < j /\ p[i] = s /\ p[j] = t
  BY DEF Before
<1> HIDE DEF p
<1>4. i + 1 \in 1 .. Len(q) /\ j + 1 \in 1 .. Len(q) /\ i + 1 < j + 1
  BY <1>1, <1>2, <1>3
<1>5. q[i + 1] = s /\ q[j + 1] = t
  BY <1>1, <1>3
<1> QED BY <1>4, <1>5 DEF Before

\* Nor does taking any one element out.
LEMMA RemoveOrder ==
  ASSUME NEW q \in Seq(Seqs), NEW x, NEW s, NEW t, Before(Without(q, x), s, t)
  PROVE  Before(q, s, t)
<1>1. PICK p : p = BM!Keep(q, Seqs \ {x})
  OBVIOUS
<1>2. p \in Seq(Seqs)
  BY <1>1, KeepSpec
<1>3. \A a, b \in DOMAIN p : a < b => \E i, j \in DOMAIN q : i < j /\ p[a] = q[i] /\ p[b] = q[j]
  BY <1>1, KeepSpec
<1>4. DOMAIN p = 1 .. Len(p) /\ DOMAIN q = 1 .. Len(q)
  BY <1>2, LenProperties
<1>5. PICK a \in 1 .. Len(p), b \in 1 .. Len(p) : a < b /\ p[a] = s /\ p[b] = t
  BY <1>1 DEF Before, Without
<1>6. PICK i \in DOMAIN q, j \in DOMAIN q : i < j /\ p[a] = q[i] /\ p[b] = q[j]
  BY <1>3, <1>4, <1>5
<1> QED BY <1>4, <1>5, <1>6 DEF Before

\* A step is fair to the waiting queue if it reverses nothing and admits nobody from it.
LEMMA OrderKept ==
  ASSUME QInv, \A s, t \in Range(waiting) : Before(waiting', t, s) => Before(waiting, t, s),
         Range(running') \cap Range(waiting) = {}
  PROVE  Fifo
<1>1. waiting \in Seq(Seqs) /\ IsInjective(waiting)
  BY DEF QInv, QueueTypes, QueuesInv
<1> QED BY <1>1, OneOrder DEF Fifo

\* A preempted decoder, like a new request, joins the waiting tail.
LEMMA TailIsFair ==
  ASSUME QInv, NEW x \in Seqs, x \notin Range(waiting), waiting' = Append(waiting, x),
         Range(running') \subseteq Range(active)
  PROVE  Fifo
<1>1. waiting \in Seq(Seqs) /\ Range(waiting) \cap Range(active) = {}
  BY DEF QInv, QueueTypes, QueuesInv
<1>2. \A s, t \in Range(waiting) : Before(waiting', t, s) => Before(waiting, t, s)
  BY <1>1, PushOrder
<1> QED BY <1>1, <1>2, OrderKept

\* The preempted partial prefill, which had the head and loses its blocks, goes to the tail.
LEMMA DemotionIsFair ==
  ASSUME QInv, NEW x, waiting # <<>>, x = Head(waiting), waiting' = Append(Tail(waiting), x),
         block_table[x] # <<>>, block_table'[x] = <<>>, Range(running') \subseteq Range(active)
  PROVE  Fifo
<1>1. waiting \in Seq(Seqs) /\ IsInjective(waiting) /\ Range(waiting) \cap Range(active) = {}
  BY DEF QInv, QueueTypes, QueuesInv
<1>2. x \in Seqs /\ Tail(waiting) \in Seq(Seqs)
  BY <1>1, PopSpec
<1>3. ASSUME NEW s \in Range(waiting), NEW t \in Range(waiting), Before(waiting, s, t),
             Before(waiting', t, s), s # x
      PROVE  FALSE
  <2>1. Before(Tail(waiting), t, s)
    BY <1>2, <1>3, PushOrder
  <2>2. Before(waiting, t, s)
    BY <1>1, <2>1, PopOrder
  <2> QED BY <1>1, <1>3, <2>2, OneOrder
<1> QED BY <1>1, <1>3 DEF Fifo

\* Who is admitted is the head of the queue.
LEMMA ChunkIsFair ==
  ASSUME QInv, Prefilling, NEW work, ScheduleChunk(Head(waiting), work)
  PROVE  Fifo
<1>1. PICK x : x = Head(waiting)
  OBVIOUS
<1>2. /\ waiting # <<>> /\ waiting \in Seq(Seqs) /\ running \in Seq(Seqs) /\ IsInjective(waiting)
      /\ active = running /\ Range(waiting) \cap Range(active) = {}
  BY DEF Prefilling, QInv, QueueTypes, QueuesInv, active
<1>3. CASE waiting' = Tail(waiting) /\ running' = Append(running, x)
  <2>1. x \in Seqs
    BY <1>1, <1>2, PopSpec
  <2>2. Range(running') = Range(running) \cup {x}
    BY <1>2, <1>3, <2>1, PushSpec
  <2>3. ASSUME NEW s \in Range(waiting), NEW t \in Range(waiting), Before(waiting, s, t)
        PROVE  ~Before(waiting', t, s) /\ t \notin Range(running')
    <3>1. ~Before(waiting, t, s) /\ t # x
      BY <1>1, <1>2, <2>3, OneOrder
    <3>2. ~Before(waiting', t, s)
      BY <1>2, <1>3, <3>1, PopOrder
    <3> QED BY <1>2, <2>2, <3>1, <3>2
  <2> QED BY <2>3 DEF Fifo
<1>4. CASE UNCHANGED <<waiting, running>>
  BY <1>2, <1>4, OrderKept
<1> QED BY <1>1, <1>3, <1>4 DEF ScheduleChunk

\* Every step is fair.
LEMMA NextIsFair ==
  ASSUME IInv, Next
  PROVE  Fifo
<1>1. /\ QInv /\ waiting \in Seq(Seqs) /\ running \in Seq(Seqs) /\ scheduled_seqs \in Seq(Seqs)
      /\ Range(running) \subseteq Range(active) /\ Range(waiting) \cap Range(active) = {}
      /\ Range(active) \subseteq Seqs
  BY Members DEF IInv, QInv, QueuesInv
<1>2. ASSUME UNCHANGED waiting, Range(running') \subseteq Range(active) PROVE Fifo
  BY <1>1, <1>2, OrderKept
<1>3. ASSUME UNCHANGED <<waiting, running>> PROVE Fifo
  BY <1>1, <1>2, <1>3
<1>4. ASSUME NEW s \in Seqs, NEW r \in Requests, add_request(s, r) PROVE Fifo
  <2>1. waiting' = Append(waiting, s) /\ running' = running /\ status[s] = "NONE"
    BY <1>4 DEF add_request
  <2>2. s \notin Range(waiting)
    BY <2>1, Members DEF IInv
  <2> QED BY <1>1, <2>1, <2>2, TailIsFair
<1>5. CASE DecodeRow
  <2>1. running # <<>> /\ running' = Tail(running) /\ UNCHANGED waiting
    BY <1>5 DEF DecodeRow, Decoding
  <2>2. Range(Tail(running)) \subseteq Range(running)
    BY <1>1, <2>1, PopSpec
  <2> QED BY <1>1, <1>2, <2>1, <2>2
<1>6. CASE ReclaimMidChunk \/ RequeuePrefill
  <2>1. PICK x : x = Head(waiting)
    OBVIOUS
  <2>2. waiting # <<>> /\ preempt(x, Tail(waiting)) /\ running' = running /\ block_table[x] # <<>>
    <3>1. CASE RequeuePrefill
      BY <2>1, <3>1 DEF RequeuePrefill, Prefilling
    <3>2. CASE ReclaimMidChunk
      <4>1. mid_chunk_seq # None /\ preempt(x, Tail(waiting)) /\ running' = running
        BY <2>1, <3>2 DEF ReclaimMidChunk
      <4>2. waiting # <<>> /\ x = mid_chunk_seq /\ x \in Seqs
        BY <2>1, <4>1, MidIsWaiting DEF IInv, QInv, QueuesInv
      <4> QED BY <4>1, <4>2 DEF IInv, StepInv, SeqInv
    <3> QED BY <1>6, <3>1, <3>2
  <2>3. waiting' = Append(Tail(waiting), x) /\ block_table' = [block_table EXCEPT ![x] = <<>>]
    BY <2>2 DEF preempt, BM!deallocate
  <2>4. block_table'[x] = <<>>
    <3>1. x \in Seqs
      BY <1>1, <2>1, <2>2, PopSpec
    <3> QED BY <2>3, <3>1, AllocatorFacts DEF IInv, BM!TypeOK
  <2> QED BY <1>1, <2>1, <2>2, <2>3, <2>4, DemotionIsFair
<1>7. CASE PreemptTail \/ PreemptSelf
  <2> DEFINE front == SubSeq(running, 1, Len(running) - 1)
  <2>1. PICK x : x \in Range(running) /\ preempt(x, waiting) /\ Range(running') \subseteq Range(running)
    <3>1. CASE PreemptTail
      <4>1. running # <<>> /\ running' = front /\ preempt(LastOf(running), waiting)
        BY <3>1 DEF PreemptTail, Decoding
      <4>2. Range(running) = Range(front) \cup {LastOf(running)}
        BY <1>1, <4>1, DropSpec
      <4> QED BY <4>1, <4>2
    <3>2. CASE PreemptSelf
      <4>1. running # <<>> /\ running' = <<>> /\ preempt(Head(running), waiting)
        BY <3>2 DEF PreemptSelf, Decoding
      <4>2. Head(running) \in Range(running)
        BY <1>1, <4>1, PopSpec
      <4>3. Range(<<>>) = {}
        BY DEF Range
      <4> QED BY <4>1, <4>2, <4>3
    <3> QED BY <1>7, <3>1, <3>2
  <2>2. waiting' = Append(waiting, x)
    BY <2>1 DEF preempt
  <2>3. x \in Seqs /\ x \notin Range(waiting) /\ Range(running') \subseteq Range(active)
    BY <1>1, <2>1
  <2> QED BY <1>1, <2>2, <2>3, TailIsFair
<1>8. CASE EndDecode
  <2>1. phase = "decode" /\ running' = scheduled_seqs \o running /\ UNCHANGED waiting
    BY <1>8 DEF EndDecode
  <2>2. running' = active
    BY <2>1 DEF active
  <2> QED BY <1>2, <2>1, <2>2
<1>9. CASE AdmitPrefill \/ ContinuePrefill
  BY <1>1, <1>9, ChunkIsFair DEF AdmitPrefill, ContinuePrefill
<1>10. CASE FinishRow
  <2>1. running' = Without(running, scheduled_seqs[row]) /\ UNCHANGED waiting
    BY <1>10 DEF FinishRow
  <2>2. Range(Without(running, scheduled_seqs[row])) \subseteq Range(running)
    BY <1>1, WithoutSpec
  <2> QED BY <1>1, <1>2, <2>1, <2>2
<1>11. CASE CancelRow
  <2>1. PICK x : waiting' = Without(waiting, x) /\ running' = Without(running, x)
    BY <1>11 DEF CancelRow
  <2>2. Range(running') \subseteq Range(running)
    BY <1>1, <2>1, WithoutSpec
  <2>3. \A s, t \in Range(waiting) : Before(waiting', t, s) => Before(waiting, t, s)
    BY <1>1, <2>1, RemoveOrder
  <2> QED BY <1>1, <2>2, <2>3, OrderKept
<1>12. CASE StartStep \/ EndPrefill \/ Run \/ RunFails \/ CommitRow \/ Retry \/ Rest
  BY <1>3, <1>12 DEF StartStep, EndPrefill, Run, RunFails, CommitRow, Retry, Rest, vars, queueVars
<1>13. ASSUME NEW t \in Token, EmitToken(t) PROVE Fifo
  BY <1>3, <1>13 DEF EmitToken, queueVars
<1>14. ASSUME NEW T, Cancel(T) PROVE Fifo
  BY <1>3, <1>14 DEF Cancel, queueVars
<1> QED BY <1>4, <1>5, <1>6, <1>7, <1>8, <1>9, <1>10, <1>11, <1>12, <1>13, <1>14
        DEF Next, Schedule, Postprocess, CleanUp

\* A waiting request is overtaken only by losing its blocks to a preemption; otherwise
\* admission is first in, first out.
THEOREM AdmissionIsFifo ==
  ASSUME RetryAfterFailure = "chunk"
  PROVE  Spec => FifoAdmission
<1>1. IInv /\ [Next]_vars => [Fifo]_vars
  BY NextIsFair
<1>2. [][Fifo]_vars => FifoAdmission
  BY DEF Fifo, FifoAdmission
<1> QED BY <1>1, <1>2, Invariance, PTL DEF Spec

=============================================================================
