------------------------------ MODULE Scheduler ------------------------------
(***************************************************************************)
(* Continuous batching: nanovllm/engine/scheduler.py driven by the step    *)
(* loop of nanovllm/engine/llm_engine.py, without speculation.             *)
(*                                                                         *)
(* One engine step is schedule(), model_runner.run() and postprocess().    *)
(* The engine is single threaded, so the steps of one call follow each     *)
(* other; `phase` says where the call is.  Every turn of the loops of      *)
(* schedule(), postprocess() and cancel() is one action, which makes at    *)
(* most one call to the block manager.  Requests may arrive and be         *)
(* cancelled between engine steps, and the forward pass may raise.         *)
(***************************************************************************)
EXTENDS Integers, Sequences, FiniteSets, Functions

CONSTANTS
  NumBlocks, BlockSize, Seqs, Token,
  EOS,                   \* config.eos
  Requests,              \* [prompt, max_tokens, ignore_eos] a user may submit
  MaxNumSeqs,            \* config.max_num_seqs
  MaxNumBatchedTokens,   \* config.max_num_batched_tokens
  MaxModelLen,           \* config.max_model_len
  MaxFailures,           \* bound: forward passes that raise
  RetryAfterFailure      \* after which failed steps a manual caller steps again

\* Sequence ids are drawn from a counter; _admit_request refuses an empty prompt and
\* SamplingParams a token limit below one; config.py: sizes are positive, and the
\* token budget is at least the number of sequences.
ASSUME SchedulerAssumption ==
  /\ NumBlocks \in Nat \ {0}
  /\ BlockSize \in Nat \ {0, 1}
  /\ Seqs \subseteq Nat
  /\ IsFiniteSet(Seqs)
  /\ Requests \subseteq [prompt : Seq(Token) \ {<<>>}, max_tokens : Nat \ {0},
                         ignore_eos : BOOLEAN]
  /\ MaxNumSeqs \in Nat \ {0}
  /\ MaxNumBatchedTokens \in Nat
  /\ MaxNumBatchedTokens >= MaxNumSeqs
  /\ MaxModelLen \in Nat
  /\ MaxFailures \in Nat
  /\ RetryAfterFailure \in {"chunk", "any"}

None == 0 - 1            \* Python's None, where a sequence id could be

VARIABLES
  free_block_ids, used_block_ids, ref_count, block_hash, hash_to_block_id,
  token_ids, block_table, num_cached_tokens, kv,
  request,               \* the submitted parameters of each sequence
  status,                \* Sequence.status, "NONE" before the sequence exists
  num_scheduled_tokens,  \* Sequence.num_scheduled_tokens
  is_prefill,            \* Sequence.is_prefill
  waiting, running,      \* the two deques, head first
  mid_chunk_seq,
  phase,                 \* where the current engine call is
  scheduled_seqs,        \* local of schedule() and step()
  num_decodes,           \* local of schedule()
  num_batched_tokens,    \* local of schedule()
  row,                   \* position of the postprocess loop in scheduled_seqs
  targets,               \* local of cancel()
  failures               \* forward passes that have raised

bmVars == <<free_block_ids, used_block_ids, ref_count, block_hash, hash_to_block_id,
            token_ids, block_table, num_cached_tokens, kv>>

BM == INSTANCE BlockManager
        WITH Prompts <- {r.prompt : r \in Requests}, MaxLen <- MaxModelLen + 1

reqVars == <<request, status>>
rowVars == <<num_scheduled_tokens, is_prefill>>
queueVars == <<waiting, running, mid_chunk_seq>>
stepVars == <<scheduled_seqs, num_decodes, num_batched_tokens, row>>
vars == <<bmVars, reqVars, rowVars, queueVars, stepVars, phase, targets, failures>>

\* Mutant: the last element fills the gap.
WithoutInOrder(queue, s) ==
  IF s \in Range(queue)
  THEN [i \in 1 .. Len(queue) - 1 |-> IF queue[i] = s THEN queue[Len(queue)] ELSE queue[i]]
  ELSE queue

Without(queue, s) == BM!Keep(queue, Seqs \ {s})
LastOf(queue) == queue[Len(queue)]
Queued == Range(waiting) \cup Range(running)

-----------------------------------------------------------------------------
(* LLMEngine._admit_request and Scheduler.add *)

\* The last sampled token is never fed back, hence the - 1.
Admissible(r) ==
  LET processed_tokens == Len(r.prompt) + r.max_tokens - 1
  IN  /\ processed_tokens <= MaxModelLen
      /\ BM!BlocksFor(processed_tokens) <= NumBlocks

add_request(s, r) ==
  /\ phase = "idle"
  /\ status[s] = "NONE"
  /\ \A t \in Seqs : t < s => status[t] # "NONE"
  /\ Len(waiting) + Len(running) < MaxNumSeqs
  /\ Admissible(r)
  /\ BM!new_sequence(s, r.prompt)
  /\ request' = [request EXCEPT ![s] = r]
  /\ status' = [status EXCEPT ![s] = "WAITING"]
  /\ waiting' = Append(waiting, s)
  /\ UNCHANGED <<rowVars, running, mid_chunk_seq, stepVars, phase, targets, failures>>

-----------------------------------------------------------------------------
(* Scheduler.schedule *)

StartStep ==
  /\ phase = "idle"
  /\ Queued # {}
  /\ phase' = "decode"
  /\ scheduled_seqs' = <<>>
  /\ num_decodes' = 0
  /\ num_batched_tokens' = 0
  /\ row' = 0
  /\ UNCHANGED <<bmVars, reqVars, rowVars, queueVars, targets, failures>>

\* Mutant: the mark of the partial prefill is never cleared.
StaleMark(s) == mid_chunk_seq

\* mid_chunk_seq once s has left the waiting head.
MarkWithout(s) == IF s = mid_chunk_seq THEN None ELSE mid_chunk_seq

\* Release everything s holds and put it behind `queue`, at the waiting tail.
preempt(s, queue) ==
  /\ mid_chunk_seq' = MarkWithout(s)
  /\ status' = [status EXCEPT ![s] = "WAITING"]
  /\ is_prefill' = [is_prefill EXCEPT ![s] = TRUE]
  /\ BM!deallocate(s)
  /\ waiting' = Append(queue, s)
  /\ UNCHANGED <<request, stepVars, targets, failures>>

\* The decode loop; the sequence it has popped is the head of running.
Decoding ==
  /\ phase = "decode"
  /\ running # <<>>
  /\ Len(scheduled_seqs) < MaxNumSeqs

DecodeRow ==
  LET s == Head(running)
  IN  /\ Decoding
      /\ BM!can_append(s)
      /\ running' = Tail(running)
      /\ scheduled_seqs' = Append(scheduled_seqs, s)
      /\ num_scheduled_tokens' = [num_scheduled_tokens EXCEPT ![s] = 1]
      /\ is_prefill' = [is_prefill EXCEPT ![s] = FALSE]
      /\ BM!may_append(s)
      /\ UNCHANGED <<reqVars, waiting, mid_chunk_seq, num_decodes, num_batched_tokens,
                     row, phase, targets, failures>>

\* A partial prefill gives way to a decoder before another decoder does.
ReclaimMidChunk ==
  /\ Decoding
  /\ ~BM!can_append(Head(running))
  /\ mid_chunk_seq # None
  /\ preempt(Head(waiting), Tail(waiting))
  /\ UNCHANGED <<running, num_scheduled_tokens, phase>>

PreemptTail ==
  /\ Decoding
  /\ ~BM!can_append(Head(running))
  /\ mid_chunk_seq = None
  /\ Len(running) > 1
  /\ preempt(LastOf(running), waiting)
  /\ running' = SubSeq(running, 1, Len(running) - 1)
  /\ UNCHANGED <<num_scheduled_tokens, phase>>

PreemptSelf ==
  /\ Decoding
  /\ ~BM!can_append(Head(running))
  /\ mid_chunk_seq = None
  /\ Len(running) = 1
  /\ preempt(Head(running), waiting)
  /\ running' = <<>>
  /\ UNCHANGED <<num_scheduled_tokens, phase>>

EndDecode ==
  /\ phase = "decode"
  /\ ~Decoding
  /\ running' = scheduled_seqs \o running
  /\ num_decodes' = Len(scheduled_seqs)
  /\ num_batched_tokens' = Len(scheduled_seqs)
  /\ phase' = "prefill"
  /\ UNCHANGED <<bmVars, reqVars, rowVars, waiting, mid_chunk_seq, scheduled_seqs,
                 row, targets, failures>>

\* Mutant: a token is held back for every row a step could have.
remaining_after_reserve == MaxNumBatchedTokens - num_batched_tokens - MaxNumSeqs

remaining == MaxNumBatchedTokens - num_batched_tokens

\* The prefill loop has a waiting sequence, a row and budget for it.
Prefilling ==
  /\ phase = "prefill"
  /\ waiting # <<>>
  /\ Len(scheduled_seqs) < MaxNumSeqs
  /\ remaining > 0

Smaller(m, n) == IF m < n THEN m ELSE n

\* Give the waiting head a chunk of the `work` tokens it has left.  Only a chunk
\* that is cut short by the budget leaves it at the waiting head, as mid-chunk.
ScheduleChunk(s, work) ==
  LET chunk == Smaller(work, remaining)
  IN  /\ num_scheduled_tokens' = [num_scheduled_tokens EXCEPT ![s] = chunk]
      /\ num_batched_tokens' = num_batched_tokens + chunk
      /\ scheduled_seqs' = Append(scheduled_seqs, s)
      /\ \/ /\ chunk = work
            /\ mid_chunk_seq' = MarkWithout(s)
            /\ status' = [status EXCEPT ![s] = "RUNNING"]
            /\ waiting' = Tail(waiting)
            /\ running' = Append(running, s)
         \/ /\ chunk < work
            /\ mid_chunk_seq' = s
            /\ UNCHANGED <<status, waiting, running>>
      /\ UNCHANGED <<request, is_prefill, num_decodes, row, phase, targets, failures>>

\* Whole-request admission, but blocks only for this chunk.
AdmitPrefill ==
  LET s == Head(waiting)
      cached == BM!num_cached_blocks(s)
      work == BM!num_tokens(s) - cached * BlockSize
  IN  /\ Prefilling
      /\ block_table[s] = <<>>
      /\ BM!can_allocate(s)
      /\ BM!allocate_incremental(s, cached, cached * BlockSize + Smaller(work, remaining))
      /\ ScheduleChunk(s, work)

ContinuePrefill ==
  LET s == Head(waiting)
      work == BM!num_tokens(s) - num_cached_tokens[s]
      through == num_cached_tokens[s] + Smaller(work, remaining)
  IN  /\ Prefilling
      /\ block_table[s] # <<>>
      /\ BM!can_extend(s, through)
      /\ BM!extend(s, through)
      /\ ScheduleChunk(s, work)

\* Decode growth took the blocks the next chunk needs: requeue the partial prefill.
RequeuePrefill ==
  LET s == Head(waiting)
      work == BM!num_tokens(s) - num_cached_tokens[s]
      through == num_cached_tokens[s] + Smaller(work, remaining)
  IN  /\ Prefilling
      /\ block_table[s] # <<>>
      /\ ~BM!can_extend(s, through)
      /\ num_scheduled_tokens' = [num_scheduled_tokens EXCEPT ![s] = 0]
      /\ preempt(s, Tail(waiting))
      /\ phase' = IF scheduled_seqs # <<>> THEN "run" ELSE "prefill"
      /\ UNCHANGED running

\* Nothing more fits.  An empty batch is the "could not schedule" error.
EndPrefill ==
  /\ phase = "prefill"
  /\ Prefilling => block_table[Head(waiting)] = <<>> /\ ~BM!can_allocate(Head(waiting))
  /\ phase' = IF scheduled_seqs # <<>> THEN "run" ELSE "failed"
  /\ UNCHANGED <<bmVars, reqVars, rowVars, queueVars, stepVars, targets, failures>>

-----------------------------------------------------------------------------
(* ModelRunner.run: where the rows of the step are stored *)

prepare_ragged(s) ==
  [p \in num_cached_tokens[s] .. num_cached_tokens[s] + num_scheduled_tokens[s] - 1 |->
     BM!SlotOf(s, p)]

\* Mutant: the slot is the first of the last block.
prepare_decode_first(s) ==
  [p \in {BM!num_tokens(s) - 1} |-> <<block_table[s][Len(block_table[s])], 0>>]

\* A decode step writes one position, through the last block of the table; the
\* offset is relative to that block, as a flat slot number.
prepare_decode(s) ==
  LET blocks == Len(block_table[s])
      last_block_num_tokens == BM!num_tokens(s) - (blocks - 1) * BlockSize
      slot == block_table[s][blocks] * BlockSize + last_block_num_tokens - 1
  IN  [p \in {BM!num_tokens(s) - 1} |-> <<slot \div BlockSize, slot % BlockSize>>]

ragged == Len(scheduled_seqs) > num_decodes

slot_mapping ==
  [s \in Seqs |-> IF s \notin Range(scheduled_seqs) THEN <<>>
                  ELSE IF ragged THEN prepare_ragged(s) ELSE prepare_decode(s)]

Run ==
  /\ phase = "run"
  /\ BM!store_kvcache(slot_mapping)
  /\ phase' = "commit"
  /\ row' = 1
  /\ UNCHANGED <<reqVars, rowVars, queueVars, scheduled_seqs, num_decodes,
                 num_batched_tokens, targets, failures>>

\* The forward pass raises, before or after it stored its rows.  Nothing is undone.
RunFails ==
  /\ phase = "run"
  /\ failures < MaxFailures
  /\ BM!store_kvcache(slot_mapping) \/ UNCHANGED bmVars
  /\ failures' = failures + 1
  /\ phase' = "failed"
  /\ UNCHANGED <<reqVars, rowVars, queueVars, stepVars, targets>>

-----------------------------------------------------------------------------
(* Scheduler.postprocess, one row at a time *)

NextRow ==
  IF row < Len(scheduled_seqs)
  THEN /\ phase' = "commit"
       /\ row' = row + 1
       /\ UNCHANGED scheduled_seqs
  ELSE /\ phase' = "idle"
       /\ row' = 0
       /\ scheduled_seqs' = <<>>

\* Publish and count the row's tokens; a row still in prefill emits nothing.
CommitRow ==
  LET s == scheduled_seqs[row]
      n == num_scheduled_tokens[s]
  IN  /\ phase = "commit"
      /\ BM!commit(s, n)
      /\ num_scheduled_tokens' = [num_scheduled_tokens EXCEPT ![s] = 0]
      /\ IF num_cached_tokens[s] + n < BM!num_tokens(s)
         THEN NextRow
         ELSE phase' = "emit" /\ UNCHANGED <<row, scheduled_seqs>>
      /\ UNCHANGED <<reqVars, is_prefill, queueVars, num_decodes, num_batched_tokens,
                     targets, failures>>

Completion(s) == SubSeq(token_ids[s], Len(request[s].prompt) + 1, Len(token_ids[s]))

\* Mutant: the token limit is tested with > instead of >=.
FinishedLate(s, t) ==
  \/ ~request[s].ignore_eos /\ t = EOS
  \/ Len(Completion(s)) + 1 > request[s].max_tokens

\* Token t is the last one of s.
Finished(s, t) ==
  \/ ~request[s].ignore_eos /\ t = EOS
  \/ Len(Completion(s)) + 1 >= request[s].max_tokens

EmitToken(t) ==
  LET s == scheduled_seqs[row]
  IN  /\ phase = "emit"
      /\ BM!append_token(s, t)
      /\ \/ /\ Finished(s, t)
            /\ status' = [status EXCEPT ![s] = "FINISHED"]
            /\ phase' = "finish"
            /\ UNCHANGED <<row, scheduled_seqs>>
         \/ /\ ~Finished(s, t)
            /\ NextRow
            /\ UNCHANGED status
      /\ UNCHANGED <<request, rowVars, queueVars, num_decodes, num_batched_tokens,
                     targets, failures>>

FinishRow ==
  LET s == scheduled_seqs[row]
  IN  /\ phase = "finish"
      /\ BM!deallocate(s)
      /\ running' = Without(running, s)
      /\ NextRow
      /\ UNCHANGED <<reqVars, rowVars, waiting, mid_chunk_seq, num_decodes,
                     num_batched_tokens, targets, failures>>

-----------------------------------------------------------------------------
(* Scheduler.cancel: by a user between steps, or as the cleanup of a failed step *)

Cancel(T) ==
  /\ phase \in {"idle", "failed"}
  /\ T # {}
  /\ phase' = "cancel"
  /\ targets' = T
  /\ UNCHANGED <<bmVars, reqVars, rowVars, queueVars, stepVars, failures>>

\* Mutant: a waiting sequence is taken to hold no blocks.
release_running(s) ==
  \/ s \in Range(running) /\ BM!deallocate(s)
  \/ s \notin Range(running) /\ UNCHANGED bmVars

\* A partial prefill is still waiting while it owns blocks.
release(s) ==
  \/ block_table[s] # <<>> /\ BM!deallocate(s)
  \/ block_table[s] = <<>> /\ UNCHANGED bmVars

\* The first remaining target, waiting queue first.
CancelRow ==
  LET s == Head(BM!Keep(waiting \o running, targets))
  IN  /\ phase = "cancel"
      /\ release(s)
      /\ waiting' = Without(waiting, s)
      /\ running' = Without(running, s)
      /\ mid_chunk_seq' = MarkWithout(s)
      /\ num_scheduled_tokens' = [num_scheduled_tokens EXCEPT ![s] = 0]
      /\ status' = [status EXCEPT ![s] = "CANCELLED"]
      /\ targets' = targets \ {s}
      /\ phase' = IF targets' = {} THEN "idle" ELSE "cancel"
      /\ UNCHANGED <<request, is_prefill, stepVars, failures>>

\* A manual caller of step() may simply call it again, after any failed step or only
\* after one that ran nothing but a chunk inside a prompt.
Retry ==
  /\ phase = "failed"
  /\ RetryAfterFailure = "chunk" => scheduled_seqs = <<mid_chunk_seq>>
  /\ phase' = "idle"
  /\ UNCHANGED <<bmVars, reqVars, rowVars, queueVars, stepVars, targets, failures>>

-----------------------------------------------------------------------------
(* Specification *)

Init ==
  /\ BM!Init
  /\ request = [s \in Seqs |-> [prompt |-> <<>>, max_tokens |-> 0, ignore_eos |-> FALSE]]
  /\ status = [s \in Seqs |-> "NONE"]
  /\ num_scheduled_tokens = [s \in Seqs |-> 0]
  /\ is_prefill = [s \in Seqs |-> TRUE]
  /\ waiting = <<>>
  /\ running = <<>>
  /\ mid_chunk_seq = None
  /\ phase = "idle"
  /\ scheduled_seqs = <<>>
  /\ num_decodes = 0
  /\ num_batched_tokens = 0
  /\ row = 0
  /\ targets = {}
  /\ failures = 0

Schedule ==
  \/ DecodeRow \/ ReclaimMidChunk \/ PreemptTail \/ PreemptSelf \/ EndDecode
  \/ AdmitPrefill \/ ContinuePrefill \/ RequeuePrefill \/ EndPrefill

Postprocess == CommitRow \/ (\E t \in Token : EmitToken(t)) \/ FinishRow

\* generate() and streams cancel what they submitted when a step raises.
CleanUp == phase = "failed" /\ Cancel(Queued)

\* What a caller that drives the engine to completion makes it do.
Engine == StartStep \/ Schedule \/ Run \/ Postprocess \/ CleanUp \/ CancelRow

\* With nothing queued the engine rests until the next request.
Rest == phase = "idle" /\ Queued = {} /\ UNCHANGED vars

Next ==
  \/ \E s \in Seqs, r \in Requests : add_request(s, r)
  \/ StartStep
  \/ Schedule
  \/ Run
  \/ RunFails
  \/ Postprocess
  \/ \E T \in SUBSET Queued : phase = "idle" /\ Cancel(T)
  \/ CleanUp
  \/ CancelRow
  \/ Retry
  \/ Rest

Spec == Init /\ [][Next]_vars

\* The engine loop keeps stepping; users are free to stop submitting or cancelling.
FairSpec == Spec /\ WF_vars(Engine)

-----------------------------------------------------------------------------
(* Properties *)

Phases == {"idle", "decode", "prefill", "run", "commit", "emit", "finish", "failed", "cancel"}
Statuses == {"NONE", "WAITING", "RUNNING", "FINISHED", "CANCELLED"}

\* Every scheduler and sequence field keeps its type.
TypeOK ==
  /\ BM!TypeOK
  /\ status \in [Seqs -> Statuses]
  /\ num_scheduled_tokens \in [Seqs -> 0 .. MaxNumBatchedTokens]
  /\ is_prefill \in [Seqs -> BOOLEAN]
  /\ waiting \in Seq(Seqs)
  /\ running \in Seq(Seqs)
  /\ mid_chunk_seq \in Seqs \cup {None}
  /\ phase \in Phases
  /\ scheduled_seqs \in Seq(Seqs)
  /\ num_decodes \in 0 .. MaxNumSeqs
  /\ num_batched_tokens \in 0 .. MaxNumBatchedTokens
  /\ row \in 0 .. MaxNumSeqs
  /\ targets \in SUBSET Seqs
  /\ failures \in 0 .. MaxFailures

\* _check_mid_chunk_invariant, which the code asserts at the ends of schedule(),
\* preempt() and cancel(), holds at every step in between too.
MidChunkAtHead ==
  IF mid_chunk_seq = None
  THEN waiting # <<>> => block_table[Head(waiting)] = <<>>
  ELSE /\ waiting # <<>>
       /\ Head(waiting) = mid_chunk_seq
       /\ block_table[mid_chunk_seq] # <<>>

\* KV blocks belong to work in progress only: a sequence holds blocks exactly if
\* it is decoding, in the batch being built, or the one partial prefill.
OnlyActiveWorkHoldsBlocks ==
  \A s \in Seqs :
    block_table[s] # <<>> <=>
      s \in Range(running) \cup (IF phase = "decode" THEN Range(scheduled_seqs) ELSE {})
              \cup {mid_chunk_seq}

\* Between steps, a request is in the one queue its status names, once; a
\* request that ended is in none.
QueuesMatchStatus ==
  phase = "idle" =>
    /\ IsInjective(waiting \o running)
    /\ \A s \in Seqs :
         /\ s \in Range(waiting) <=> status[s] = "WAITING"
         /\ s \in Range(running) <=> status[s] = "RUNNING"

\* schedule() never reaches its "could not schedule pending work" error: admission
\* and preemption always leave room for some row.
AlwaysSchedulesSomething == phase \in {"run", "failed"} => scheduled_seqs # <<>>

\* The tokens that the rows of a step compute.
RowTokens(rows) ==
  {x \in rows \X (1 .. MaxNumBatchedTokens) : x[2] <= num_scheduled_tokens[x[1]]}

\* The rows of a step are distinct sequences within both batch limits, and their
\* tokens add up to the budget charged for them.
BatchWithinBudget ==
  phase = "run" =>
    /\ IsInjective(scheduled_seqs)
    /\ Len(scheduled_seqs) <= MaxNumSeqs
    /\ num_batched_tokens <= MaxNumBatchedTokens
    /\ num_batched_tokens = Cardinality(RowTokens(Range(scheduled_seqs)))

\* The queues and the batch are in order at every step of schedule(), postprocess()
\* and cancel(): the partial prefill is where the code looks for it, blocks belong to
\* work in progress, statuses name queues, batches keep to their limits.
QueueDiscipline ==
  /\ TypeOK
  /\ MidChunkAtHead
  /\ OnlyActiveWorkHoldsBlocks
  /\ QueuesMatchStatus
  /\ BatchWithinBudget

\* "decode-mode row: identical indices via the num_cached == len-1 invariant": a
\* decode row has all its tokens but the last in the cache, and its table ends in
\* the block of that last token, which prepare_decode addresses as the last one.
DecodeRowsAreAligned ==
  phase = "run" =>
    \A i \in 1 .. num_decodes :
      LET s == scheduled_seqs[i]
      IN  /\ num_cached_tokens[s] = BM!num_tokens(s) - 1
          /\ Len(block_table[s]) = BM!num_blocks(s)

\* Nothing leaks: when no request is left, every block is free again.
AllBlocksReturn == Queued = {} /\ phase = "idle" => used_block_ids = {}

\* Attention reads only computed positions: what each row counts as cached is in
\* the slots its block table leads to, whatever was shared, evicted or recycled.
CachedIsComputed == BM!CachedIsComputed

\* A waiting request is overtaken only when it lost its blocks in that very step
\* (a preempted partial prefill goes to the tail); otherwise admission is FIFO.
Before(queue, s, t) ==
  \E i, j \in 1 .. Len(queue) : i < j /\ queue[i] = s /\ queue[j] = t

FifoAdmission ==
  [][\A s, t \in Range(waiting) :
       Before(waiting, s, t) =>
         /\ Before(waiting', t, s) => block_table[s] # <<>> /\ block_table'[s] = <<>>
         /\ s \in Range(waiting') /\ t \in Range(running') => s = mid_chunk_seq]_vars

\* Every call the scheduler makes to the allocator respects its contract, so the
\* allocator's invariants carry over to the composed system.
UsesBlockManager == BM!Spec

Service ==
  INSTANCE RequestService WITH
    state <- [s \in Seqs |->
                CASE status[s] = "NONE" -> "absent"
                  [] status[s] \in {"WAITING", "RUNNING"} -> "pending"
                  [] status[s] = "FINISHED" -> "finished"
                  [] status[s] = "CANCELLED" -> "cancelled"],
    output <- [s \in Seqs |-> Completion(s)]

\* Batching, chunking, preemption and failures are invisible in the output: seen
\* by its users, the scheduler is the request service.
ImplementsService == Service!Spec

\* Every submitted request ends, however often it is preempted or requeued.
EveryRequestEnds ==
  \A s \in Seqs : status[s] \in {"WAITING", "RUNNING"} ~> status[s] \in {"FINISHED", "CANCELLED"}
=============================================================================
