# A TLA+ model of nano-vLLM

This directory is a verification development for the inference engine in
`src/nanovllm`: TLA+ modules translated from its source, TLC configurations that
model-check them on small instances, and TLAPS proofs of the properties that
matter most for every instance.

## 1. Inventory

nano-vLLM is a single-process (optionally tensor-parallel) LLM inference engine.
A user submits prompts, the *engine* admits them as *sequences*, the *scheduler*
builds one mixed batch of decode rows and prefill chunks per step, the *block
manager* gives sequences the KV-cache blocks they need and shares blocks between
equal prefixes, the *model runner* computes the batch on the GPU(s), and the
scheduler commits the result. With a draft model configured, decode steps become
*speculative* cycles: propose, verify, commit or roll back.

| Component | State | Operations | Talks to | What is hard | Correct if |
|---|---|---|---|---|---|
| `engine/sequence.py` | tokens, block table, cached / draft-cached / scheduled counts, status | `__init__`, `append_token`, views | written by scheduler and block manager | counts describe memory that Python never sees | the counts are what the caches hold |
| `engine/block_manager.py` | free deque, used set, per-block reference count and hash, hash index, temporary reservations | `can_allocate`, `allocate_incremental`, `extend`, `can_append`, `may_append`, `deallocate`, `rollback_uncommitted_appends`, `hash_blocks`; reserve / rollback / finalize of a temporary append | called by the scheduler only | sharing, lazy eviction, duplicate publication, rollback after a partial failure | pool partitioned, counts exact, no write into shared blocks, the index never lies |
| `engine/scheduler.py` | waiting and running deques, the one partial prefill, active speculative transaction, pending draft coverage | `add`, `schedule`, `preempt`, `postprocess`, `cancel`; plan / abort / commit of speculative steps | engine above, block manager below | over-committed memory, chunked prefill interleaved with decode growth, preemption, cancellation of partial work | never stuck, FIFO, every request ends, nothing leaks, output independent of batching |
| `engine/llm_engine.py` | scheduler, runner, session lease, execution lock, GC lease, worker processes | `add_request`, `step`, `generate`, `stream`, `exit` | users (several threads), runner | check-then-act on the session, abandoned streams finalized by the collector, failure cleanup, shutdown while stepping | one owner at a time, requests of a dead session are cancelled, lease always released |
| `engine/model_runner.py` | KV tensors, CUDA graphs, shared-memory frame and events of the worker ranks | `call`, `run`, `prepare_ragged`, `prepare_decode`, `read_shm`, `write_shm`, `loop`, initialise / close | workers over shared memory | one frame, no acknowledgement; slot arithmetic | each rank runs the same calls; slots are those of the paged layout |
| `engine/speculative_memory.py`, `speculative_routes.py` | workspace plan, route registry and its warmed components | plan the workspace, build, warm and resolve routes | runner at construction, engine per step | pruning, buckets and warm-up derived separately from the same limits | every cycle that fits has a route, every route was warmed |
| `engine/speculative_plan.py`, `speculative_policy.py`, `speculative_result.py` | immutable plans, calibration | draft budget, effective k, catch-up, choice of k, validation of plans and results | scheduler, runner, engine | arithmetic at the limits of budget, model length and memory; three parties check the same cycle | a plan never exceeds what was budgeted, nobody rejects what another made |
| `engine/speculative_execution.py`, `layers/sampler.py` | storage of draft and target laws, verifier shapes | filter, sample, verify, accept, correct | runner | layouts that differ by lane, rows with different parameters in one batch | emitted tokens have the target model's law |
| `utils/streaming_detokenizer.py` | emitted frontier | `feed`, `flush` | streams | partial characters, text that changes with context | concatenated deltas are the text |
| the other `layers/`, `models/`, `utils/loader.py`, `utils/tokenizer_identity.py`, `config.py`, `metrics.py` | tensors, weights, configuration | numerical kernels, loading, validation | runner | numerics | out of a model checker's reach (config limits appear as assumptions) |
| `benchmarks/`, `deployment/`, `tests/` | – | – | – | – | not part of the engine |

The hazards this leads to, each at its line and with the property that would
catch it, are in `PROJECT.json` under `hazards`.

## 2. Modules

| Module | Models | Extends / instantiates |
|---|---|---|
| `BlockManager` | `block_manager.py` (committed allocation), the fields of `Sequence` it owns, `store_kvcache` | – |
| `BlockManagerProofs` | the inductive invariant of `BlockManager` and its theorems | `BlockManager` |
| `SchedulerProofs` | first the invariant of the queues, and `Scheduler` implements `RequestService`; then the invariant of scheduler and allocator together, and `Scheduler` implements `BlockManager!Spec` | extends `Scheduler`, instantiates `BlockManagerProofs` |
| `TemporaryAppendProofs` | what each operation on a reservation does, and the state it goes back to | extends `TemporaryAppend`, `BlockManagerProofs` |
| `SpeculationCycleProofs` | the inductive invariant of `Speculation`; the steps of a cycle up to the commit, and the failures | extends `Speculation` and `SchedulerProofs`, instantiates `TemporaryAppendProofs` |
| `SpeculationProofs` | the commit, the undo and the plain steps; the theorems about `Speculation` | extends `SpeculationCycleProofs` |
| `EngineSessionsProofs`, `EngineLifecycleProofs`, `TensorParallelProofs` | inductive invariant and theorems of the module they name | extend it |
| `Scheduler` | `scheduler.py` and `_step_unlocked` without speculation, `_admit_request`, `prepare_ragged`, `prepare_decode` | instantiates `BlockManager` and `RequestService` |
| `RequestService` | abstract: what a user is promised | – |
| `TemporaryAppend` | `block_manager.py`: temporary append reservations; the draft cache's contents | extends `BlockManager` |
| `Speculation` | the engine step with a draft model: `plan_speculative_step` … `commit_speculative`, `_execute_speculative_verified` / `_shadow`, the draft and verifier passes, all failure paths | extends `Scheduler`, instantiates `TemporaryAppend` |
| `SpeculativeRoutes` | `speculative_memory.py`, `speculative_routes.py`, `speculative_policy.py`, the limits and checks of `speculative_plan.py`, the warm-up and plan validation of `model_runner.py`, `warm_verifier` | – |
| `SpeculativeSampling` | `layers/sampler.py`, the lanes of `speculative_execution.py`, the draft loop and sampling metadata of `model_runner.py` | – |
| `EngineSessions` | `llm_engine.py`: the session lease and its locks, `generate`, `StreamSession`, manual steps, the finalizer of abandoned streams | – |
| `EngineLifecycle` | `llm_engine.py`: the constructor and its failures, `exit` on several threads, the lease on the garbage collector | – |
| `TensorParallel` | `model_runner.py`: the shared-memory frame and events, start and end of the ranks; `_join_workers` | – |
| `MCBlockManager`, `MCScheduler`, `MCSpeculation`, `MCSpeculativeRoutes`, `MCSpeculativeSampling`, `MCEngineSessions`, `MCEngineLifecycle`, `MCTensorParallel` | values of constants for TLC | the module they name |

### BlockManager

Each operation of the class is an operator with the Python name (`can_allocate`,
`allocate_incremental`, `extend`, `may_append`, `deallocate`,
`rollback_uncommitted_appends`, `hash_blocks`) that is the *whole* effect of the
call, loops included: `ResetHashes(F)` is `_allocate_block` for every block of
`F`, `deallocate` walks the table backwards and appends the released blocks to
the free list in that order. The specification around them (`Create`,
`AllocateIncremental`, …, `AppendToken`) is the most general client: any order of
calls on any sequences, with the conditions the code checks or its only caller
guarantees as guards. That contract is not taken on trust: the run
`scheduler` checks (`UsesBlockManager`) that the scheduler's calls satisfy it.

*Abstractions.* A hash is represented by the token prefix it is computed from,
because `compute_hash` chains the previous hash with the block's tokens; this
assumes xxh64 does not collide (the code also compares the last block's tokens,
which then never disagree). `kv` records for each slot of the target cache which
prefix's last position was computed into it; the Python code has no such state,
the properties `CachedIsComputed` and `IndexIsSound` compare its metadata with it.
`Block.token_ids` is implied by the prefix. `allocate()` (whole-request
allocation) has no caller in the engine and is not modelled; the snapshot-and-restore paths
for exceptions inside an operation are atomic in the model.

### Scheduler

`phase` is the position in one call of `step()`; every turn of a loop in
`schedule`, `postprocess` and `cancel` is one action making at most one call to
the block manager:

| Code | Actions |
|---|---|
| `_admit_request`, `add` | `add_request` |
| decode loop of `schedule` | `StartStep`, `DecodeRow`, `ReclaimMidChunk`, `PreemptTail`, `PreemptSelf`, `EndDecode` |
| prefill loop of `schedule` | `AdmitPrefill`, `ContinuePrefill`, `RequeuePrefill`, `EndPrefill` |
| `model_runner.call("run", …)` | `Run`, `RunFails` (raises before or after storing) |
| `postprocess`, one row | `CommitRow`, `EmitToken`, `FinishRow` |
| `cancel` | `Cancel`, `CancelRow` |
| `generate`/stream cleanup after an error; a manual second `step()` | `CleanUp`; `Retry` |

The engine runs one step at a time under its execution lock, so submission and
cancellation happen only between steps (`phase = "idle"`). The sampled token is
any member of `Token`. Two branches of `schedule` cannot be reached and so have no
state of their own: "incremental KV allocation changed after admission"
(`can_allocate` is the stronger test), and the `continue` after a requeue with an
empty batch (decode growth is the only thing that can take the blocks, and then
the batch is not empty); `RequeuePrefill` models the branch all the same.

`RequestService` is the promise to users: tokens are appended one at a time to a
pending request, which finishes exactly at its end-of-sequence token or token
limit, or is cancelled. `ImplementsService` maps the scheduler's statuses and
token lists onto it; everything about memory and batching must be a stutter.

### TemporaryAppend and Speculation

`TemporaryAppend` adds the one live `TemporaryBlockReservation`, a record of the
same fields as the Python dataclass: rows, allocation order, appended blocks, and
the state before (tables, counts, free list, used set, index, reference counts and
hashes of the blocks concerned). Each operation is one operator with the Python
name. `draft_kv` is the draft model's cache, addressed through the same tables;
`num_draft_cached_tokens` claims how much of it is valid.

`Speculation` continues the scheduler's `phase` through a cycle. `mode` is the branch
of `_step_unlocked` that an engine takes for the whole of its life: *verified* when the
verifier was warmed, *shadow* when there is a draft model but no verifier, *ordinary*
without a draft model:

| Code | Actions |
|---|---|
| `plan_speculative_step` (and its bypass) | `plan_speculative_step`; a bypass is simply `Run` |
| `prepare_speculative_target_writes` | same name |
| `_execute_draft_proposals` | `execute_draft_proposals` |
| `speculative_execution.execute` | `execute_verifier` |
| `commit_speculative`: physical trim, then each row's append, publication, release | `FinalizeReservation`, `AppendBurst`, `PublishBurst`, `ReleaseBurst` |
| `handoff_draft_discard` + `stage_draft_coverage`, then the ordinary decode | `handoff_draft_discard`, `Run`, `SpeculativePostprocess` |
| the runner rejects a plan or raises in a pass, before or after it stored; the host rejects a result | `RunnerFails`; `ResultRejected` |
| an exception inside `commit_speculative`'s `try` | `CommitFails` (any point of any row), restoring the saved host state |
| an exception in the ordinary pass, before or after it stored | `SpeculativeRunFails` |
| `abort_speculative_step`, then `rollback_failed_decode_schedule` | same names |

*Abstractions.* Route admission and the adaptive policy appear as an arbitrary cap
on k (or none: the bypass); which cap it is, is the subject of `SpeculativeRoutes`.
Proposals, the accepted count and the last token of a row are arbitrary, which covers
every acceptance rule; which law they have is the subject of `SpeculativeSampling`. Cycle ids,
fingerprints and the random-generator snapshot are left out; the checks on plans
and results are one of the reasons for `RunnerFails` and `ResultRejected`. `plan_draft_discard`, an older
planner, is reached only if the scheduler lacks `plan_speculative_step`.
`postprocess` validates before it changes anything and is taken not to raise
afterwards. An exception of the last resort, in the undo itself, is not modelled.
A caller retries only pure decode steps here (`RetryDecode`): that a retry after a
failed prefill step goes wrong is the finding of `scheduler_retry`.

### SpeculativeRoutes

A behaviour is the construction of one engine and then any number of decode batches:

| Code | Actions |
|---|---|
| `_plan_speculative_memory`, `_initialize_speculative_route_registry` | `Plan` |
| `capture_draft_cudagraph` | same name |
| `_pretouch_draft_routes` | `pretouch_draft_routes`; `EnvelopeExceeded` when the warm-up needs more memory than the plan reserved |
| `warm_verifier` | same name |
| `_execute_speculative_verified` up to the run | `execute_speculative_verified`, `Return` |

Every exception that would mean that the code disagrees with itself (a witness without
a graph, routes with a gap in K, a plan the runner refuses) leads to `phase = "error"`,
and `OwnChecksPass` says that it is not reached. `Runnable` is a second, independent
statement of what a batch could run, without routes, buckets or shapes;
`LongestProposalThatFits` compares the two.

*Abstractions.* A decode row is its committed, draft-cached and remaining tokens and
its sampling family; all rows that admission permits are tried, whether or not some
history leads to them. Byte counts are the formulas of `speculative_memory.py` with a
small vocabulary, one item size for both models, and the constants of the margin as
parameters. Predicted speedups are not computed: any calibrated K within the policy's
caps may win. Blocks are not reserved here (`Speculation` does that), so a cycle that
fits may still be bypassed for want of free blocks. `MAX_*` limits are constants so that
they bind in small instances.

### SpeculativeSampling

A state holds, for each row, *all* outcomes of the random draws so far with their number
of equally likely cases, so that a probability is a count and TLC compares counts.
Laws in storage are who wrote them (row, step, sampling metadata): a reader that looks
at the wrong row gets another row's law, or `Unknown` if nobody wrote it in this cycle.

| Code | Actions |
|---|---|
| loop of `_execute_draft_proposals_validated` | `draft_proposal_step` |
| `target_probabilities`; `sequential_target_probabilities` | `target_probabilities`; `sequential_target_step` per pass |
| `accept_trusted`, a column of uniforms at a time | `accept_step` |
| correction, bonus and `_host_results` | `terminal` |
| the greedy lane of invariant mode | `match_greedy` |

*Abstractions.* Exponentials of scaled logits are small natural weights, whose fractions
are exact; rounding, underflow and ties between floats are not modelled, and equal weights
are sorted by token. The context of a model is the token fed last, which is enough to
tell the laws of different positions and proposals apart. The race is a draw in proportion
to the weights. A uniform draw is one of `Unit` equidistant values including 0.

### EngineSessions

A thread is a *stack* of calls, because the collector runs the finalizer of a
dropped stream on top of whatever a thread is doing. A call has its session and the
place it is at; every `with` block on `_session_lock` is entered by `LockSession`
and left by the action named after the method, and the reentrant execution lock
counts its depth.

| Code | Actions |
|---|---|
| `generate`, `stream`, `next`, `close`, `step`, `add_request` | `generate`, `stream`, `UseStream`, `step`, `add_request` |
| `_acquire_session`, `_assert_public_step_access`, `_release_session` | `LockSession`, then the same names |
| `_admit_batch` | same name (with its own rollback) |
| `_step`, by `generate`, a stream or a manual call | `EnterStep`, `LeaveStep`, `NothingLeft` |
| `_next_locked`, `_close_locked` | `Iterate`, `Deliver`, `Close` |
| `_cancel_requests` | `EnterCancel`, `LeaveCancel` |
| last reference dropped; `weakref.finalize` callback | `Drop`; `Collect`, then cancel and release |

Of the scheduler only the owners of queued requests are left. The README of the
engine asks applications to "serialize public engine access in one application
thread"; the model keeps to that for `step` and `add_request` (`Start`), which have
no owner, and lets sessions start, iterate and close on any thread at any time, which
the code has locks for.

### EngineLifecycle

One action per block under a lock and per call that may raise: `__init__`, `Build`,
`Register`, `Acquire`, `Finish`; `exit`, `Claim`, then `Await` for all but one caller
and `Teardown`, `_restore_python_gc`, `Release`, `Unregister` for that one. A
constructor that fails after it has a runner goes through the same `exit`. `wanted`
is the collector state the application last chose; it changes only without a lease,
as the engine's README demands.

### TensorParallel

Rank 0 writes header and payload and sets the events one at a time (`WriteHeader`,
`WritePayload`, `SetEvent`), then makes the call itself; a worker waits, reads header
and payload, clears its event and makes the call (`ReadHeader`, `ReadPayload`,
`ClearEvent`, `WorkerRun`). A call is its number, and all collectives of one `run`
are one entry of `launched`: rank 0 waits in `tokens.tolist()` until every rank has
launched as much (`Synced`), a worker goes on at once. Barriers are launches that
everybody waits for. Only `run` and `exit` go through the frame: speculation and
invariant mode are refused for more than one rank. A collective whose missing ranks
will never come is released by the process group's timeout (`Hopeless`, `Timeout`):
the timeouts, 30 s and 5 s, are taken to be longer than a step of a live rank. That
NCCL reports them as an exception of the waiting call is an assumption about the
library. `StopWorker` is terminate and, if needed, kill; a process that survives
both is not modelled.

## 3. Runs

| Run | Checks | Bounds and why they are enough |
|---|---|---|
| `block_manager` | type, pool, reference counts, index, hash chain, privacy of writes, cache contents | 3 blocks of 2 tokens, 2 symmetric sequences with equal prompt, at most 4 tokens over 2 values: sharing, divergence, duplicate publication, eviction of a free hashed block and group rollback all happen |
| `scheduler` | the scheduler's invariants, FIFO admission, refinement of `RequestService`, and that the composed system implements `BlockManager!Spec` | 3 requests, 4 blocks, 3 tokens per step: the pool cannot hold all of them, one prompt needs two chunks, prompts share their first block, one forward pass may raise, after which the caller cleans up or, if only a chunk inside a prompt was lost (`RetryAfterFailure = "chunk"`), steps again |
| `speculation` | pool, both caches, prefix index, live reservation, token budget, burst cuts, retry after undo, nothing delivered by failed steps | verified and shadow cycles, k up to 2, 2 requests whose prompts share a block, 6 blocks of 2 tokens: bursts end inside, at and past a block boundary, borrowed blocks are recycled ones the prefix cache knows; any one step fails and is retried or cancelled |
| `speculation_liveness` | `EveryRequestEnds`, `AllBlocksReturn`, in engines of all three modes, with callers that cancel or retry after a failure | 2 requests of either of two kinds, k = 1: two long prompts exceed the budget of a step, so one is chunked and reclaimed; the pool of 6 blocks does not hold both to their ends; two short ones run cycles of two rows, one of which ends |
| `speculative_routes` | `OwnChecksPass`, `LongestProposalThatFits`, `CatchupWasWarmed` | all combinations of a few budgets, lengths, batch limits and K, graph and eager: the batch cap is on and off the buckets, K and batch are cut by each limit in turn; every batch of up to the maximal rows |
| `speculative_sampling` | `EmitsTheTargetLaw`, `FallbackIsUnreachable` | vocabulary of 3, k up to 2, `Unit` = 12, batches of up to two rows with different laws and filters, fast and invariant: the parallel, sequential and greedy verifier lanes, disjoint and equal laws, one row greedy and the other not |
| `engine_sessions` | one owner of queue and steps, no cancellation inside a step, leases released by their holders and always returned | 2 threads, 2 sessions, steps of up to 2 events, one manual request: starts race, one thread reads while the other closes, the collector interrupts either |
| `engine_lifecycle` | exact, restored and effective collector lease; one teardown; no `exit` returns early or never | 3 engines, 2 of them with the lease, 3 threads, one change of the collector by the application |
| `tensor_parallel` | matching calls on all ranks, whole frames, no lost wake-up, attach before unlink, shutdown ends | 2 workers, 2 calls and exit, so that rank 0 could be two frames ahead; two failures of any rank at any point |
| `scheduler_retry` | **violated**, see below | 2 requests, 3 blocks, a caller that steps again after any failure (`"any"`) |
| `engine_sessions_gc` | **violated**, see below | as `engine_sessions` |
| `speculative_policy` | **violated**, see below | four adaptive engines (budgets 5 and 9, fast and invariant) with up to 2 rows, only k = 2 calibrated |

*Fairness.* `FairSpeculation` assumes weak fairness of the engine's own steps only:
whoever drives the engine (`generate`, a stream, a loop around `step`) keeps calling it
while work is queued, which is what `while not self.is_finished()` does. Planning a
cycle and bypassing it are both fair, no route is ever guaranteed. Nothing is assumed of
users, who may stop submitting, never cancel, or never retry; failures are bounded
by `MaxFailures`.

`EngineSessions` assumes strong fairness of each thread's next step, because a
waiting thread competes for a lock that is free only again and again, and that the
collector gets to every dropped stream; nobody has to read, close or drop anything.
`EngineLifecycle` and `TensorParallel` assume weak fairness of threads and ranks
that are alive.

*Findings.* `scheduler_retry` shows that after a failed ordinary step a caller of
`step()` that tries again gets decode rows for which `num_cached == len - 1` does
not hold: nothing undoes `may_append` or the promotion of a completed prefill.
The comments at `model_runner.py:1421` and `scheduler.py:1069` rely on it. The
speculative path has the missing rollback (`rollback_failed_decode_schedule`);
`generate` and streams are not affected, because they cancel their requests.

`engine_sessions_gc` lets the collector run while a thread is inside a
`_session_lock` block, as CPython does when the block allocates (creating the
`RuntimeError` of a refused start is enough). If it finds an abandoned stream there,
the finalizer's `_release_session` waits for the non-reentrant lock of its own
thread. `docs/ROBUSTNESS_FIXES.md:151` promises that it "releases the engine lease".
With `disable_python_gc`, or when the last reference is simply dropped, the case does
not arise; that is what `engine_sessions` checks (`GcInLocks = FALSE`).

`speculative_policy` shows that an adaptive engine runs proposal lengths it did not
select. `choose` checks K against `(max_num_batched_tokens - catchup) // rows - 1`, the
verifier's share of the budget; the planner also counts the proposals,
`speculative_k_budget`. Where the second is smaller the cycle runs with the smaller K,
whose cell may predict a loss or not exist, and `observe` files its acceptance under the
K that was selected. `docs/NUMERICAL_AND_SPECULATIVE_OPTIMIZATIONS.md:140-145` says that
keys bind K, and that losing and unknown cells and insufficient token budgets use ordinary
decoding. The output is not affected.

A run that fails on rank 0 alone, after the call was published (`root_failed`),
leaves the workers one collective ahead, and the next call meets the wrong one.
The repository leaves recovery from tensor-parallel failures out of scope, so this is
recorded as a hazard and `CallsArrive` excepts it; `ExitEnds` shows that the engine
can still exit.

## 4. Proofs

The theorems hold for every value of the constants that satisfies the `ASSUME` of the
component's module: pools, block sizes of at least 2, budgets and limits of any size,
finite sets of sequences and engines, and any sets of threads, sessions and workers.
`PROJECT.json` lists them under `theorems`, with the property of a run that each
one states. All of them are safety: invariants, three action properties and two
refinements. Each component has one inductive invariant (`IInv`; `QInv` for the queues,
`SInv` for speculation), one lemma per action that preserves it, and the theorems as consequences.

### Allocator (`BlockManagerProofs`)

`IInv` is the conjunction of the properties the `block_manager` run checks; none of the
interesting ones is inductive alone:

- exact reference counts need that tables are injective and the pool is
  partitioned, or releasing a table could free a block twice;
- `WritesArePrivate` needs exact counts (a fresh block has one owner);
- `IndexIsSound` needs `IndexMatchesBlocks` (an evicted entry really goes) and
  `WritesArePrivate` (a forward pass never overwrites an indexed block);
- `CachedIsComputed` needs `IndexIsSound` when cached blocks are pinned, and
  `HashChain` when a block is published.

The operations that take blocks share `GrowKeepsPool` and `GrowKeepsContents`; those that
give blocks back share `ShrinkKeepsContents`; `CommitEffect` turns the recursion of
`hash_blocks` into a statement about prefixes. `Keep`, the order-preserving filter of a
list, is defined by rank so that its range, order and injectivity can be proved
(`KeepSpec`) without induction over sequences.

### Scheduler queues (`SchedulerProofs`, first part)

`QInv` is about the two deques, the batch and the token counts only. It holds whatever
the allocator hands out, whichever steps fail and whoever retries them. What makes it
inductive is `active`: while the decode loop runs, the rows it has popped are in a local
list, so the sequences that count as running are `scheduled_seqs \o running`. The other
points are that a cut chunk has used up the budget (so no row follows it), that it is the
waiting head, and that a live request is below its token limit. From it follow
`StatusesNameQueues` and `SchedulerImplementsService`: every action maps to a step of
`RequestService` or to a stutter; only `add_request`, `EmitToken` and `CancelRow` are not
stutters.

### Scheduler and allocator together (`SchedulerProofs`, second part)

`IInv` is `QInv`, the allocator's `IInv` and `StepInv`, which says for each sequence how its
table and counts stand in each phase: blocks exactly if it runs or is the partial prefill;
outside the batch all tokens but the last cached and no block too many (`Ready`); inside it
the scheduled tokens exist and fit the table (`Fits`); after the forward pass they are stored
(`Stored`). With it every action satisfies the guard of the allocator action it calls, so that
`AllocatorIsUsedWell` (`Scheduler` implements `BlockManager!Spec`) and all allocator theorems
carry over. `NeverStuck` is an argument about memory: an empty batch at the end of `schedule` means
that nothing runs and there is no partial prefill, so every block is free (`IdlePool`) and the
head, which `_admit_request` has checked to fit the whole pool, can start. `AdmissionIsFifo`
is an action property: no step lets a waiting request overtake one before it, unless the one
overtaken loses its blocks in that step; only the partial prefill may wait behind a younger
running request.

These theorems assume `RetryAfterFailure = "chunk"`, callers that step again only after
a failed chunk inside a prompt. That is the configuration of the run `scheduler`, and it
includes callers that never retry, such as `generate` and the streams. Without it
they are false: that is the finding of `scheduler_retry`. The theorems about the
queues and about the service do not need it.

### Reservations (`TemporaryAppendProofs`)

A cycle borrows blocks and may have to give back every one of them, so the invariant
of a live reservation is about two states at once. `Before(H)` is the state of the
allocator that the reservation of `H` remembers; `Lease(H, m)` says that this state
satisfies the allocator's invariant over the cache `m`, and that the current one is
`Grown` from it: each borrowed block was free, belongs to one row, at the end of its
table, with count 1 and no hash. For this the allocator's invariant is restated as `AllocOK`
of a record, so that the same lemmas speak of the state that is and of the one that may be
restored. `GrowOK` then gives the invariant of the current state from that of the other.

`ReserveKeeps` shows that a reservation is a lease, whose tables reach all positions that
will be written; `PrepareKeeps` that the hashes of borrowed blocks are dropped from what will be
restored; `RollbackKeeps` and `FinalizeKeeps` that either end leaves the invariant of the
allocator and the tables it should; `LeaseIsLive` that the checks both make before they
change anything never fail. `LeaseWrites` is the key fact about failing: a pass that stores positions
past the committed ones changes neither what is cached now nor what is cached in the state to
go back to, once target writes are prepared. How many blocks a batch takes (`taken`) is defined by
counting pairs of a row and an index, not by a sum over rows, so that `Slices` can
be proved without induction.

### Speculation (`SpeculationCycleProofs`, `SpeculationProofs`)

`SInv` has a part for each kind of phase:

- `PlainInv`: outside a cycle, the scheduler's own `IInv` and no reservation, so the
  lemmas of `SchedulerProofs` for its actions apply unchanged;
- `CycleInv`: from plan to acceptance, a `Lease` for the rows of the batch; tables that
  reach k positions further; for each phase, which of those positions the draft and the
  verifier have stored, with which tokens;
- `CommitInv`: while bursts are appended row by row, a cut burst for the rows still to come
  and the finished state of those before. `undo` is the saved host state, and `CycleFacts` holds of
  it all the time, which is what makes it safe to restore;
- `UndoInv`: after an error, the batch as it was scheduled, possibly still with a lease;
- `CommonInv` in every phase: the allocator's invariant, and the draft cache of every sequence;
- `StopInv`: what users were given ends at its end-of-sequence token or token limit.

The four invariants about memory are read off `SInv`, as are the token budget, the cut of
bursts, the layout of a decode batch, and the return of all blocks.
`FailuresDeliverNothing` is an action property; it needs `SInv` because what users
have been given is, in a commit, the token list of `undo`.

The theorems assume `RetriesAreSafe`: in an engine without a draft model, callers retry a
failed step as in the theorems about the scheduler; with a draft model a failed decode step
was undone, and may always be retried. That is the configuration of the run `speculation`
(all callers, modes *shadow* and *verified*). The run `speculation_liveness` goes
further for `AllBlocksReturn`: there the mode *ordinary* has callers that retry anything.

### Engine (`EngineLifecycleProofs`, `EngineSessionsProofs`)

- *Lifecycle.* The invariant ties the place of a thread to the state of its engine
  (`ThreadInv`, `EngineInv`): at most one thread is past the claim of an `exit` that is not
  complete, and a constructor has its engine to itself. Then the lease count is the number
  of engines that hold it or are about to give it back. `ExitIsOver` is an action property.
- *Sessions.* `FrameInv` says of every call on every stack, at every depth, what its
  place means: which session owns the engine, whose iteration lock is held, whether its
  requests are already gone. `PairsInv` excludes two calls that would both own a session;
  `LeaseInv` gives every stream that is open or waits for its finalizer the lease. The theorems
  do not depend on `GcInLocks`: the self-deadlock of `engine_sessions_gc` is a failure of
  liveness, and no safety property is lost with it.

### Tensor parallelism (`TensorParallelProofs`)

`Aligned` says for each place of rank 0 where a live worker can be: the call is not announced
to it yet (`Idle`), announced and not made (`Called`), or made (`Done`). The frame without an
acknowledgement is safe because rank 0 does not write the next call before `Synced`, and a worker
that has launched its collective has read the frame and cleared its event. `FreeInv` adds what is
true while nothing has failed. `CallsArrive` holds with any number of dead ranks, unless
rank 0 itself has failed inside a call.

### What stays with TLC

- Liveness (`EveryRequestEnds`, `LeaseIsReturned`, `ExitsReturn`, `ExitEnds`): the prover has
  no rules for fairness or `ENABLED`.
- `SpeculativeSampling`: `EmitsTheTargetLaw` and `FallbackIsUnreachable` are about sums of weights over
  outcomes spread by folds, which need induction over data.
- `SpeculativeRoutes`: `OwnChecksPass`, `LongestProposalThatFits` and `CatchupWasWarmed` compare
  maxima over finite sets of numbers, with non-linear byte formulas.

## 5. Plan

1. Of `SpeculativeRoutes`, what needs no maximum of a set: the arithmetic of the K budget and
   of the buckets.
2. Abstract specifications: an engine with one owner at a time for `EngineSessions`,
   a broadcast of calls for `TensorParallel`.

## 6. Not modelled

- *CUDA-graph replay buffers* (`run_model`, `_fill_varlen`, `_run_draft_decode_model`,
  the varlen capture boundaries). What a stale row or table column of a padded batch
  does depends on which elements the attention kernel reads, and the kernels are a
  library; which graph is replayed is in `SpeculativeRoutes`.
- *Sizing of the KV caches* (`allocate_kv_cache`, `_allocate_speculative_kv_cache`, the
  memory audit). It divides bytes that a running GPU reports; a model would choose
  those numbers freely and could only restate the divisions. A pool of any size is a
  constant of the other modules.
- *Numerical layers*: attention, linear, invariant kernels, floating-point rounding in
  the sampler, the FlashInfer backend.
- *Weight loading, tokenizer identity, configuration files*: I/O and validation.
- *Streaming detokenizer*: its correctness is a statement about the tokenizer's decoding
  of character fragments, which is not under `src/`.
- *Metrics and timestamps, benchmarks, deployment scripts.*
