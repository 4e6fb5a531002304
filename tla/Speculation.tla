------------------------------ MODULE Speculation ------------------------------
(***************************************************************************)
(* Speculative decoding: the engine step of Scheduler when a draft model   *)
(* is configured (plan_speculative_step ... commit_speculative in          *)
(* scheduler.py, _execute_speculative_* in llm_engine.py, the draft and    *)
(* verifier passes of model_runner.py and speculative_execution.py).       *)
(*                                                                         *)
(* A pure decode batch is promoted to a cycle: blocks are reserved, the    *)
(* draft model proposes k tokens per row, and then either the target model *)
(* verifies them in one pass and each row commits the accepted prefix and  *)
(* one more token (the verified cycle), or the proposals are thrown away   *)
(* and an ordinary decode follows, after which the draft cache covers what *)
(* it wrote (the shadow cycle).  Every step of a cycle can fail, and is    *)
(* then undone before the caller sees the error.  An engine without a      *)
(* draft model is the Scheduler itself.                                    *)
(***************************************************************************)
EXTENDS Scheduler, FiniteSetsExt

CONSTANTS
  ConfiguredK,    \* config.configured_k
  Modes           \* the engines to check, see mode

ASSUME SpeculationAssumption ==
  /\ ConfiguredK \in Nat \ {0}
  /\ Modes \subseteq {"ordinary", "shadow", "verified"}

VARIABLES
  mode,          \* what the runner was built with: no draft model, a draft model
                 \* (speculation_enabled), also a verifier (speculative_verifier_ready)
  num_draft_cached_tokens, draft_kv, reservation,
  effective_k,   \* of the active transaction's plan, 0 without one
  proposals,     \* per row of the plan, the k tokens of the draft model
  burst,         \* per row of the plan, the tokens to commit
  coverage,      \* _pending_draft_coverage: per row, or empty
  undo           \* the host state commit_speculative saved before it began

TA == INSTANCE TemporaryAppend
        WITH Prompts <- {r.prompt : r \in Requests}, MaxLen <- MaxModelLen + 1

cycleVars == <<effective_k, proposals, burst, coverage, undo>>
draftVars == <<num_draft_cached_tokens, draft_kv, reservation>>
allVars == <<vars, mode, draftVars, cycleVars>>

Nothing == <<>>          \* no proposals, burst, coverage or undo record

Rows == Range(scheduled_seqs)

-----------------------------------------------------------------------------
(* How many tokens to propose: speculative_plan.py *)

\* The positions of the rows that the target cache covers and the draft cache does not.
draft_catchup_tokens ==
  Cardinality(UNION {{s} \X (num_draft_cached_tokens[s] .. num_cached_tokens[s] - 1) : s \in Rows})

AtLeastZero(n) == IF n < 0 THEN 0 ELSE n

\* Mutant: the row's own target position is forgotten.
speculative_k_budget_loose ==
  AtLeastZero((MaxNumBatchedTokens - draft_catchup_tokens) \div (2 * Len(scheduled_seqs)))

speculative_k_budget ==
  LET batch_size == Len(scheduled_seqs)
  IN  AtLeastZero((MaxNumBatchedTokens - draft_catchup_tokens - batch_size) \div (2 * batch_size))

RemainingTokens(s) == AtLeastZero(request[s].max_tokens - Len(Completion(s)))

derive_speculative_effective_k(workspace_route_cap) ==
  Min({ConfiguredK, workspace_route_cap, speculative_k_budget,
       AtLeastZero(MaxNumBatchedTokens \div Len(scheduled_seqs) - 1)}
      \cup {AtLeastZero(RemainingTokens(s) - 1) : s \in Rows}
      \cup {AtLeastZero(MaxModelLen - BM!num_tokens(s)) : s \in Rows})

highest_target_write_position(k) == [s \in Rows |-> BM!num_tokens(s) + k - 1]

\* Promote the scheduled decode batch to a cycle.  With no route, no headroom or
\* no blocks the plan is a bypass: nothing changes and the ordinary Run follows.
plan_speculative_step(workspace_route_cap) ==
  LET k == derive_speculative_effective_k(workspace_route_cap)
  IN  /\ phase = "run"
      /\ ~ragged
      /\ effective_k = 0
      /\ k > 0
      /\ TA!reserve_temporary_append(scheduled_seqs, highest_target_write_position(k))
      /\ effective_k' = k
      /\ phase' = IF mode = "verified" THEN "prepare" ELSE "propose"
      /\ UNCHANGED <<reqVars, rowVars, queueVars, stepVars, targets, failures,
                     proposals, burst, coverage, undo>>

prepare_speculative_target_writes ==
  /\ phase = "prepare"
  /\ TA!prepare_temporary_target_writes
  /\ phase' = "propose"
  /\ UNCHANGED <<reqVars, rowVars, queueVars, stepVars, targets, failures, cycleVars>>

-----------------------------------------------------------------------------
(* The draft and the verifier pass *)

Drafted(s, d) == token_ids[s] \o d[s]

\* The position that draft step i computes: step 0 feeds the last committed token.
DraftPosition(s, i) == BM!num_tokens(s) - 1 + i

missing(s) == BM!num_tokens(s) - 1 - num_draft_cached_tokens[s]

\* Positions before the last committed token that the draft cache lacks.  A lag of
\* one goes through the decode route as step -1, without the rows that have none.
CatchupPositions(s) ==
  IF \A r \in Rows : missing(r) <= 1
  THEN {p \in {DraftPosition(s, 0 - 1)} : missing(s) = 1}
  ELSE num_draft_cached_tokens[s] .. BM!num_tokens(s) - 2

\* The positions the draft passes of a cycle compute: catch up, then feed the last
\* committed token and all proposals but the last.
DraftPositions(s) ==
  CatchupPositions(s) \cup {DraftPosition(s, i) : i \in 0 .. effective_k - 1}

Proposals == [Rows -> [1 .. effective_k -> Token]]

\* The draft cache after those passes proposed d.
DraftStored(d) ==
  TA!Stored(draft_kv, [s \in Rows |-> DraftPositions(s)], [s \in Rows |-> Drafted(s, d)])

execute_draft_proposals(d) ==
  /\ phase = "propose"
  /\ draft_kv' = DraftStored(d)
  /\ proposals' = d
  /\ phase' = IF mode = "verified" THEN "verify" ELSE "handoff"
  /\ UNCHANGED <<bmVars, reqVars, rowVars, queueVars, stepVars, targets, failures,
                 num_draft_cached_tokens, reservation, effective_k, burst, coverage, undo>>

\* Mutant: the last committed token is taken to be cached already.
VerifierPositionsShort(s) == BM!num_tokens(s) .. BM!num_tokens(s) + effective_k - 1

VerifierPositions(s) == BM!num_tokens(s) - 1 .. BM!num_tokens(s) + effective_k - 1

\* The target cache after one pass over the last committed token and all proposals.
VerifierStored ==
  TA!Stored(kv, [s \in Rows |-> VerifierPositions(s)], [s \in Rows |-> Drafted(s, proposals)])

\* Each row accepts a prefix of its proposals and adds a correction or bonus token.
execute_verifier(accepted, terminal) ==
  /\ phase = "verify"
  /\ kv' = VerifierStored
  /\ burst' = [s \in Rows |-> Append(SubSeq(proposals[s], 1, accepted[s]), terminal[s])]
  /\ proposals' = Nothing
  /\ phase' = "accept"
  /\ UNCHANGED <<free_block_ids, used_block_ids, ref_count, block_hash, hash_to_block_id,
                 token_ids, block_table, num_cached_tokens, reqVars, rowVars, queueVars,
                 stepVars, targets, failures, draftVars, effective_k, coverage, undo>>

-----------------------------------------------------------------------------
(* commit_speculative *)

\* Mutant: the burst is committed past an end-of-sequence token.
CommittedWhole(s) == SubSeq(burst[s], 1, Smaller(Len(burst[s]), RemainingTokens(s)))

\* The burst of s up to its token limit and its first end-of-sequence token.
Committed(s) ==
  LET ends == {i \in 1 .. Len(burst[s]) : ~request[s].ignore_eos /\ burst[s][i] = EOS}
  IN  SubSeq(burst[s], 1, Min(ends \cup {Len(burst[s]), RemainingTokens(s)}))

\* The last token of a burst is not fed to the model in this cycle.
CachedAfter(s, tokens) == BM!num_tokens(s) + Len(tokens) - 1

HostState ==
  [free |-> free_block_ids, used |-> used_block_ids, index |-> hash_to_block_id,
   refs |-> ref_count, hashes |-> block_hash, reservation |-> reservation,
   tokens |-> token_ids, tables |-> block_table, cached |-> num_cached_tokens,
   draft |-> num_draft_cached_tokens, scheduled |-> num_scheduled_tokens,
   status |-> status, running |-> running, waiting |-> waiting]

\* Give back the reserved blocks that no committed position needs.
FinalizeReservation ==
  /\ phase = "accept"
  /\ TA!finalize_temporary_append(
       [s \in Rows |-> BM!BlocksFor(CachedAfter(s, Committed(s)))
                        - Len(reservation.table_before[s])])
  /\ burst' = [s \in Rows |-> Committed(s)]
  /\ undo' = HostState
  /\ row' = 1
  /\ phase' = "append"
  /\ UNCHANGED <<reqVars, rowVars, queueVars, scheduled_seqs, num_decodes,
                 num_batched_tokens, targets, failures, effective_k, proposals, coverage>>

AppendBurst ==
  LET s == scheduled_seqs[row]
  IN  /\ phase = "append"
      /\ token_ids' = [token_ids EXCEPT ![s] = @ \o burst[s]]
      /\ num_scheduled_tokens' =
           [num_scheduled_tokens EXCEPT ![s] = CachedAfter(s, burst[s]) - num_cached_tokens[s]]
      /\ phase' = "publish"
      /\ UNCHANGED <<free_block_ids, used_block_ids, ref_count, block_hash,
                     hash_to_block_id, block_table, num_cached_tokens, kv, reqVars,
                     is_prefill, queueVars, stepVars, targets, failures, draftVars, cycleVars>>

\* The next row, or the end of the transaction.
NextBurst ==
  IF row < Len(scheduled_seqs)
  THEN /\ phase' = "append"
       /\ row' = row + 1
       /\ UNCHANGED <<scheduled_seqs, cycleVars>>
  ELSE /\ phase' = "idle"
       /\ row' = 0
       /\ scheduled_seqs' = <<>>
       /\ effective_k' = 0
       /\ burst' = Nothing
       /\ undo' = Nothing
       /\ UNCHANGED <<proposals, coverage>>

\* Mutant: all that the target cache covers counts as drafted.
DraftCachedAfterAll(s, n) == num_cached_tokens[s] + n

\* Draft coverage once n tokens of s are committed: the draft model was never fed
\* its last proposal, nor a bonus token.
DraftCachedAfter(s, n) ==
  Smaller(num_cached_tokens[s] + n, num_cached_tokens[s] + effective_k)

EndsRequest(s) ==
  \/ ~request[s].ignore_eos /\ LastOf(token_ids[s]) = EOS
  \/ Len(Completion(s)) >= request[s].max_tokens

PublishBurst ==
  LET s == scheduled_seqs[row]
      n == num_scheduled_tokens[s]
  IN  /\ phase = "publish"
      /\ BM!commit(s, n)
      /\ num_draft_cached_tokens' =
           [num_draft_cached_tokens EXCEPT ![s] = DraftCachedAfter(s, n)]
      /\ num_scheduled_tokens' = [num_scheduled_tokens EXCEPT ![s] = 0]
      /\ \/ /\ EndsRequest(s)
            /\ status' = [status EXCEPT ![s] = "FINISHED"]
            /\ phase' = "release"
            /\ UNCHANGED <<row, scheduled_seqs, cycleVars>>
         \/ /\ ~EndsRequest(s)
            /\ NextBurst
            /\ UNCHANGED status
      /\ UNCHANGED <<request, is_prefill, queueVars, num_decodes, num_batched_tokens,
                     targets, failures, draft_kv, reservation>>

ReleaseBurst ==
  LET s == scheduled_seqs[row]
  IN  /\ phase = "release"
      /\ BM!deallocate(s)
      /\ num_draft_cached_tokens' = [num_draft_cached_tokens EXCEPT ![s] = 0]
      /\ running' = Without(running, s)
      /\ NextBurst
      /\ UNCHANGED <<reqVars, rowVars, waiting, mid_chunk_seq, num_decodes,
                     num_batched_tokens, targets, failures, draft_kv, reservation>>

-----------------------------------------------------------------------------
(* The shadow cycle: discard the proposals, then decode as usual *)

\* handoff_draft_discard and stage_draft_coverage.  Step zero of the draft fed the
\* last committed token, so all committed tokens are covered.
handoff_draft_discard ==
  /\ phase = "handoff"
  /\ TA!rollback_temporary_append
  /\ coverage' = [s \in Rows |-> BM!num_tokens(s)]
  /\ proposals' = Nothing
  /\ phase' = "run"
  /\ UNCHANGED <<reqVars, rowVars, queueVars, stepVars, targets, failures,
                 effective_k, burst, undo>>

StagedCoverage(s) == coverage[s]

\* Every release of a block table drops the draft coverage with it.
DraftCoverageKept ==
  [s \in Seqs |-> IF block_table'[s] = <<>> THEN 0 ELSE num_draft_cached_tokens[s]]

\* The last row of postprocess also takes over the staged coverage of the rows
\* that go on, and ends the transaction.
SpeculativePostprocess ==
  /\ Postprocess
  /\ IF phase' = "idle"
     THEN /\ num_draft_cached_tokens' =
               [s \in Seqs |-> IF s \in DOMAIN coverage /\ status'[s] = "RUNNING"
                               THEN StagedCoverage(s) ELSE DraftCoverageKept[s]]
          /\ effective_k' = 0
          /\ coverage' = Nothing
          /\ UNCHANGED <<proposals, burst, undo>>
     ELSE /\ num_draft_cached_tokens' = DraftCoverageKept
          /\ UNCHANGED cycleVars
  /\ UNCHANGED <<draft_kv, reservation>>

-----------------------------------------------------------------------------
(* Failures.  "abort" gives back the reservation and the staged coverage, "undo"  *)
(* the blocks schedule() appended; then the caller sees the error.                *)

Raise ==
  /\ failures < MaxFailures
  /\ failures' = failures + 1
  /\ phase' = "abort"
  /\ UNCHANGED <<free_block_ids, used_block_ids, ref_count, block_hash, hash_to_block_id,
                 token_ids, block_table, num_cached_tokens, reqVars, rowVars, queueVars,
                 stepVars, targets, num_draft_cached_tokens, reservation, cycleVars>>

\* The runner rejects the plan, or its draft or verifier pass raises, before or after
\* it stored its rows.
RunnerFails ==
  /\ Raise
  /\ \/ phase \in {"prepare", "propose", "verify"} /\ UNCHANGED <<kv, draft_kv>>
     \/ phase = "propose" /\ UNCHANGED kv /\ \E d \in Proposals : draft_kv' = DraftStored(d)
     \/ phase = "verify" /\ UNCHANGED draft_kv /\ kv' = VerifierStored

\* The host rejects what the runner returned, before it changes anything.
ResultRejected == phase \in {"accept", "handoff"} /\ Raise /\ UNCHANGED <<kv, draft_kv>>

\* Mutant: the tokens already appended to rows stay.
RestoredTokensKept == token_ids

RestoredTokens == undo.tokens

\* Mutant: rows already taken off the running queue stay off it.
RestoredRunningKept == running

RestoredRunning == undo.running

\* The except clause of commit_speculative.
CommitFails ==
  /\ phase \in {"append", "publish", "release"}
  /\ failures < MaxFailures
  /\ failures' = failures + 1
  /\ free_block_ids' = undo.free
  /\ used_block_ids' = undo.used
  /\ hash_to_block_id' = undo.index
  /\ ref_count' = undo.refs
  /\ block_hash' = undo.hashes
  /\ reservation' = undo.reservation
  /\ token_ids' = RestoredTokens
  /\ block_table' = undo.tables
  /\ num_cached_tokens' = undo.cached
  /\ num_draft_cached_tokens' = undo.draft
  /\ num_scheduled_tokens' = undo.scheduled
  /\ status' = undo.status
  /\ running' = RestoredRunning
  /\ waiting' = undo.waiting
  /\ undo' = Nothing
  /\ phase' = "abort"
  /\ UNCHANGED <<kv, draft_kv, request, is_prefill, mid_chunk_seq, stepVars, targets,
                 effective_k, proposals, burst, coverage>>

\* The ordinary pass of a bypassed or shadow cycle, or of a step with prefill
\* work, raises.  Only a pure decode step is undone.
SpeculativeRunFails ==
  /\ phase = "run"
  /\ failures < MaxFailures
  /\ BM!store_kvcache(slot_mapping) \/ UNCHANGED bmVars
  /\ failures' = failures + 1
  /\ phase' = IF ragged THEN "failed" ELSE "abort"
  /\ UNCHANGED <<reqVars, rowVars, queueVars, stepVars, targets, draftVars, cycleVars>>

abort_speculative_step ==
  /\ phase = "abort"
  /\ \/ TA!Live /\ TA!rollback_temporary_append
     \/ ~TA!Live /\ UNCHANGED <<bmVars, draftVars>>
  /\ coverage' = Nothing
  /\ proposals' = Nothing
  /\ burst' = Nothing
  /\ effective_k' = 0
  /\ phase' = "undo"
  /\ UNCHANGED <<reqVars, rowVars, queueVars, stepVars, targets, failures, undo>>

\* Mutant: no block is given back.
AppendedNone == <<>>

\* The rows that may_append gave a block which holds no cached token.
Appended ==
  BM!Keep(scheduled_seqs,
          {s \in Seqs : Len(block_table[s]) > BM!BlocksFor(num_cached_tokens[s])})

rollback_failed_decode_schedule ==
  /\ phase = "undo"
  /\ BM!rollback_uncommitted_appends(Appended)
  /\ num_scheduled_tokens' =
       [s \in Seqs |-> IF s \in Rows THEN 0 ELSE num_scheduled_tokens[s]]
  /\ phase' = "failed"
  /\ UNCHANGED <<reqVars, is_prefill, queueVars, stepVars, targets, failures, draftVars,
                 cycleVars>>

\* A manual caller steps again after a decode step whose schedule was undone.
RetryDecode ==
  /\ ~ragged
  /\ Retry

-----------------------------------------------------------------------------
(* Specification *)

SpeculationInit ==
  /\ Init
  /\ mode \in Modes
  /\ num_draft_cached_tokens = [s \in Seqs |-> 0]
  /\ draft_kv = [b \in BM!Blocks |-> [o \in 0 .. BlockSize - 1 |-> <<>>]]
  /\ reservation = TA!NoReservation
  /\ effective_k = 0
  /\ proposals = Nothing
  /\ burst = Nothing
  /\ coverage = Nothing
  /\ undo = Nothing

\* The steps that a draft model does not change.
Ordinary ==
  /\ \/ \E s \in Seqs, r \in Requests : add_request(s, r)
     \/ StartStep
     \/ Schedule
     \/ Run
     \/ \E T \in SUBSET Queued : phase = "idle" /\ Cancel(T)
     \/ CleanUp
     \/ CancelRow
     \/ RetryDecode
  /\ num_draft_cached_tokens' = DraftCoverageKept
  /\ UNCHANGED <<draft_kv, reservation, cycleVars>>

Cycle ==
  \/ \E cap \in 1 .. ConfiguredK : plan_speculative_step(cap)
  \/ prepare_speculative_target_writes
  \/ \E d \in Proposals : execute_draft_proposals(d)
  \/ \E accepted \in [Rows -> 0 .. effective_k], terminal \in [Rows -> Token] :
       execute_verifier(accepted, terminal)
  \/ FinalizeReservation
  \/ AppendBurst
  \/ PublishBurst
  \/ ReleaseBurst
  \/ handoff_draft_discard

Failure ==
  \/ RunnerFails
  \/ ResultRejected
  \/ CommitFails
  \/ SpeculativeRunFails

Undo ==
  \/ abort_speculative_step
  \/ rollback_failed_decode_schedule

\* One step of an engine with a draft model.
SpeculativeStep ==
  \/ Ordinary
  \/ SpeculativePostprocess
  \/ Cycle
  \/ Failure
  \/ Undo
  \/ Rest /\ UNCHANGED <<draftVars, cycleVars>>

SpeculationNext ==
  /\ UNCHANGED mode
  /\ \/ mode = "ordinary" /\ Next /\ UNCHANGED <<draftVars, cycleVars>>
     \/ mode # "ordinary" /\ SpeculativeStep

SpeculationSpec == SpeculationInit /\ [][SpeculationNext]_allVars

\* What a caller that drives the engine to completion makes it do.
SpeculativeEngine ==
  /\ UNCHANGED mode
  /\ \/ mode = "ordinary" /\ Engine /\ UNCHANGED <<draftVars, cycleVars>>
     \/ mode # "ordinary" /\ ((Ordinary /\ Engine) \/ SpeculativePostprocess \/ Cycle \/ Undo)

FairSpeculation == SpeculationSpec /\ WF_allVars(SpeculativeEngine)

-----------------------------------------------------------------------------
(* Properties *)

\* No block is lost, shared by accident or counted wrong, whatever part of a cycle
\* was kept, trimmed, rolled back or restored; and nothing moves under a live
\* reservation, so that rolling it back is always possible (see TemporaryAppend).
PoolIsWhole == BM!PoolPartition /\ BM!RefCountIsOwners /\ TA!ReservationIsLive

\* Blocks that a cycle borrowed and gave back are found by the prefix cache only if
\* they still hold that prefix: target writes into a borrowed block evict it.
PrefixCacheIsSound == BM!IndexMatchesBlocks /\ BM!IndexIsSound

\* The draft cache holds every position that a row counts as drafted, after
\* rejected proposals, shadow cycles, failures and recycling of blocks.
DraftCachedIsComputed == TA!DraftCachedIsComputed

\* A cycle stays within what the step may compute and every row may take: all its
\* draft and target positions fit the token budget, each row's positions fit the
\* model and lie in blocks of its own table, and no burst can exceed a row's
\* completion limit; so the runner's checks of the plan never reject it.
CycleFitsBudget ==
  phase \in {"prepare", "propose", "verify", "handoff"} =>
    /\ draft_catchup_tokens + Len(scheduled_seqs) * (2 * effective_k + 1)
         <= MaxNumBatchedTokens
    /\ running = scheduled_seqs
    /\ \A s \in Rows :
         /\ BM!num_tokens(s) + effective_k <= MaxModelLen
         /\ effective_k < RemainingTokens(s)
         /\ IsInjective(block_table[s])
         /\ highest_target_write_position(effective_k)[s] < Len(block_table[s]) * BlockSize

\* The tokens users have been given: a commit in progress has given none yet.
Delivered(s) == IF undo = Nothing THEN token_ids[s] ELSE undo.tokens[s]

\* What users were given is never taken back or changed, and a step that fails
\* gives them nothing, however many rows of its burst were already written.
FailedStepsDeliverNothing ==
  [][\A s \in Seqs :
       /\ SubSeq(Delivered(s)', 1, Len(Delivered(s))) = Delivered(s)
       /\ phase' \in {"abort", "undo", "failed"} => Delivered(s)' = Delivered(s)]_allVars

\* A burst is cut where one token at a time would have stopped: at the first
\* end-of-sequence token and at the token limit.
CompletionsStopInTime ==
  \A s \in Seqs :
    LET c == SubSeq(Delivered(s), Len(request[s].prompt) + 1, Len(Delivered(s)))
    IN  /\ Len(c) <= request[s].max_tokens
        /\ \A i \in 1 .. Len(c) : c[i] = EOS /\ ~request[s].ignore_eos => i = Len(c)

=============================================================================
