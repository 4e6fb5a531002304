--------------------------- MODULE SpeculativeRoutes ---------------------------
(***************************************************************************)
(* Which speculative cycles an engine can run, and which one it runs.      *)
(*                                                                         *)
(* Construction: plan_speculative_workspace (speculative_memory.py) fixes  *)
(* the largest batch and proposal length and the bytes reserved for them;  *)
(* build_draft_route_registry (speculative_routes.py) lists the routes     *)
(* (batch bucket, K, catch-up or not) under that plan; the draft graphs    *)
(* are captured; _pretouch_draft_routes (model_runner.py) warms every      *)
(* component a route names, and warm_verifier (speculative_execution.py)   *)
(* every verifier shape.                                                   *)
(*                                                                         *)
(* A step: the ready routes of the decode batch are looked up, filtered by *)
(* the verifier's shapes and, with the adaptive policy, cut to the K that  *)
(* speculative_policy.py selects; the scheduler derives the K that fits    *)
(* (speculative_plan.py), and the runner checks the plan once more.        *)
(* Block allocation and the passes themselves are in Speculation.          *)
(***************************************************************************)
EXTENDS Integers, Sequences, FiniteSetsExt

CONSTANTS
  Configs,                     \* the configurations to build an engine with
  VocabSize,
  KVBlocks,                    \* num_kvcache_blocks
  BlockSize,                   \* kvcache_block_size
  Itemsize,                    \* bytes of a logit of either model
  MAX_CUDA_GRAPH_BATCH_SIZE, MAX_DRAFT_ROUTE_EFFECTIVE_K,
  MAX_VERIFY_BATCH, MAX_VERIFY_K, TOP_P_CHUNK_SIZE,
  RaggedWitness,               \* the extra catch-up witness of 257 tokens
  MarginMin, MarginAlignment,  \* ALLOCATOR_MARGIN_MIN_BYTES, _ALIGNMENT_BYTES
  Cells                        \* the calibration of the adaptive policy: a set of keys

\* Some row can hold a proposal, in the model and in the budget.
HasProposalSlot(c) == Min({c.configured_k, c.max_model_len - 2, c.max_num_batched_tokens - 2}) >= 1

\* Config.__post_init__: what a speculative engine can be built with.  enforce_eager is
\* the runner's: as configured, and always in invariant mode.
LegalConfig(c) ==
  /\ c.max_num_seqs \in 1 .. c.max_num_batched_tokens
  /\ c.invariant => c.enforce_eager
  /\ HasProposalSlot(c)

ASSUME RoutesAssumption ==
  /\ \A c \in Configs : LegalConfig(c)
  /\ {VocabSize, BlockSize, Itemsize, MarginMin, MarginAlignment, RaggedWitness} \subseteq Nat \ {0}
  /\ KVBlocks * BlockSize >= 2

VARIABLES
  config,
  phase,       \* "plan", "capture", "pretouch", "warm", "ready", "ran"; or an end:
               \* "error" (a check the code makes of its own results failed) or
               \* "refused" (a warm-up used more GPU memory than reserved)
  plan,        \* runner.speculative_memory_plan
  registry,    \* runner.draft_route_registry.entries: a set of route keys
  warmed,      \* runner.draft_route_registry.warmed_components
  graphs,      \* runner.draft_graphs: the captured batch sizes
  shapes,      \* runner.speculative_verifier_shapes
  rows,        \* the decode batch of the step
  selected_k,  \* the policy's decision, 0 for none
  step         \* the scheduler's plan: its K, 0 for ordinary decode, and batch bucket

vars == <<config, phase, plan, registry, warmed, graphs, shapes, rows, selected_k, step>>

Clamp(n) == Max({n, 0})
CeilDiv(n, d) == (n + d - 1) \div d
Smaller(a, b) == Min({a, b})

-----------------------------------------------------------------------------
(* speculative_memory.py *)

FP32 == 4
FP64 == 8
INT64 == 8
BOOL == 1

top_k_workspace_bytes(n) == n * VocabSize * (2 * Itemsize + INT64) + n * Itemsize

top_p_workspace_bytes(n) ==
  n * VocabSize * Itemsize
    + Smaller(n, TOP_P_CHUNK_SIZE) * VocabSize
        * (4 * FP32 + INT64 + 2 * BOOL + 2 * (FP32 + INT64))

race_workspace_bytes(n) == n * VocabSize * (FP32 + 3 * FP64)

correction_workspace_bytes(n) == n * VocabSize * (3 * FP32 + 7 * FP64)

metadata_bytes(batch, k, verifier_rows) ==
  batch * k * (3 * INT64 + 5 * FP64 + 3 * FP32 + 2 * BOOL)
    + (batch + verifier_rows) * (2 * FP32 + 2 * INT64)
    + batch * (4 * INT64 + 3 * BOOL)

\* One tenth of the peak, at least the minimum, aligned.
allocator_margin(peak) ==
  CeilDiv(Max({MarginMin, CeilDiv(peak, 10)}), MarginAlignment) * MarginAlignment

\* The live bytes of a batch with k proposals per row, phase by phase.
draft_phase_bytes(batch, k) ==
  LET logits == batch * VocabSize * Itemsize
  IN  batch * k * VocabSize * FP32
        + logits
        + Max({logits + top_k_workspace_bytes(batch),
               logits + top_p_workspace_bytes(batch),
               logits + batch * VocabSize * FP32,
               race_workspace_bytes(batch)})
        + metadata_bytes(batch, k, batch * (k + 1))

verifier_phase_bytes(batch, k) ==
  LET n == batch * (k + 1)
  IN  batch * k * VocabSize * FP32
        + 2 * n * VocabSize * Itemsize
        + Max({top_k_workspace_bytes(n), top_p_workspace_bytes(n), 2 * n * VocabSize * FP32})
        + metadata_bytes(batch, k, n)

rejection_phase_bytes(batch, k) ==
  (2 * k + 1) * batch * VocabSize * FP32
    + correction_workspace_bytes(batch)
    + metadata_bytes(batch, k, batch * (k + 1))

bonus_phase_bytes(batch, k) ==
  (2 * k + 1) * batch * VocabSize * FP32
    + race_workspace_bytes(batch)
    + metadata_bytes(batch, k, batch * (k + 1))

NoPlan == [batch_size |-> 0, max_effective_k |-> 0, draft_phase_bytes |-> 0, reservation_bytes |-> 0]

\* K is cut to what one row can run, then the batch to what the budget verifies.
plan_speculative_workspace(configured_k, max_num_seqs, max_num_batched_tokens, max_model_len) ==
  LET k == Min({configured_k, max_num_batched_tokens - 1, max_model_len - 1})
      batch == Smaller(max_num_seqs, max_num_batched_tokens \div (k + 1))
      peak == Max({draft_phase_bytes(batch, k), verifier_phase_bytes(batch, k),
                   rejection_phase_bytes(batch, k), bonus_phase_bytes(batch, k)})
  IN  IF k = 0 THEN NoPlan
      ELSE [batch_size |-> batch, max_effective_k |-> k,
            draft_phase_bytes |-> draft_phase_bytes(batch, k),
            reservation_bytes |-> peak + allocator_margin(peak)]

speculative_route_fits_plan(batch, k) ==
  /\ batch > 0
  /\ k > 0
  /\ batch <= plan.batch_size
  /\ k <= plan.max_effective_k
  /\ batch * k <= plan.batch_size * plan.max_effective_k
  /\ batch * (k + 1) <= plan.batch_size * (plan.max_effective_k + 1)

-----------------------------------------------------------------------------
(* speculative_routes.py *)

\* Mutant: the exact end point is no bucket.
draft_graph_batch_buckets_powers(batch_cap) ==
  {b \in 1 .. batch_cap : b \in {1, 2, 4, 8} \/ b % 16 = 0}

draft_graph_batch_buckets(batch_cap) ==
  {b \in 1 .. batch_cap : b \in {1, 2, 4, 8} \/ b % 16 = 0 \/ b = batch_cap}

\* Mutant: a bucket is priced for its full batch.
minimum_live_batch_full(buckets, bucket) == bucket

\* A bucket serves the batches above the next smaller one.
minimum_live_batch(buckets, bucket) == Max({b \in buckets : b < bucket} \cup {0}) + 1

batch_cap_of(c, p) ==
  IF c.enforce_eager THEN p.batch_size ELSE Smaller(p.batch_size, MAX_CUDA_GRAPH_BATCH_SIZE)

build_draft_route_registry(c, p) ==
  LET cap == batch_cap_of(c, p)
      buckets == IF c.enforce_eager THEN {cap} ELSE draft_graph_batch_buckets(cap)
      minimum_work(key) ==
        minimum_live_batch(buckets, key.bucket) * (key.k + 1) + (IF key.catchup THEN 1 ELSE 0)
      ks == {k \in 1 .. Smaller(p.max_effective_k, MAX_DRAFT_ROUTE_EFFECTIVE_K) :
               k <= Clamp(c.max_model_len - 2)}
  IN  IF p.batch_size = 0 \/ p.max_effective_k = 0 THEN {}
      ELSE {key \in [bucket : buckets, k : ks, catchup : BOOLEAN] :
              minimum_work(key) <= c.max_num_batched_tokens}

\* DraftWarmComponentKey
Component(family, n) == <<family, n>>

required_warm_components(key) ==
  LET cap == batch_cap_of(config, plan)
      decode == IF config.enforce_eager THEN "draft_decode_eager_dynamic" ELSE "draft_decode_graph"
  IN  {Component(decode, key.bucket), Component("exact_sampler_envelope", cap)}
        \cup (IF key.catchup THEN {Component("draft_catchup_paged_dynamic", cap)} ELSE {})

desired_warm_components == UNION {required_warm_components(key) : key \in registry}

workspace_certified_keys ==
  {key \in registry :
     /\ key.bucket * key.k * (VocabSize * FP32 + INT64) <= plan.draft_phase_bytes
     /\ plan.draft_phase_bytes <= plan.reservation_bytes}

ready_keys(components) ==
  {key \in workspace_certified_keys : required_warm_components(key) \subseteq components}

graph_buckets == IF config.enforce_eager THEN {} ELSE {key.bucket : key \in registry}

\* The ready routes of the smallest bucket that holds the batch.
resolve(batch_size, catchup_tokens) ==
  LET candidates == {key \in ready_keys(warmed) :
                       key.catchup = (catchup_tokens > 0) /\ batch_size <= key.bucket}
  IN  {key \in candidates : \A other \in candidates : key.bucket <= other.bucket}

\* "ready draft routes do not cover contiguous K", and the same check of an admission.
Contiguous(keys) == {key.k : key \in keys} = 1 .. Cardinality(keys)

\* Mutant: only the end points are tried.
catchup_candidates_ends(M, L, batch_cap) == {1, batch_cap}

\* The batch sizes at which catch-up work can be largest.
catchup_candidates(M, L, batch_cap) ==
  {1, batch_cap, Smaller(Max({M \div L, 1}), batch_cap), Smaller(Max({CeilDiv(M, L), 1}), batch_cap)}

catchup_at(M, L, batch) == Clamp(Smaller(M - 2 * batch, batch * Clamp(L - 2)))

\* <<tokens, rows>> of the largest catch-up; the smallest such batch.
max_eligible_draft_catchup(M, L, batch_cap) ==
  LET sizes == catchup_candidates(M, L, batch_cap)
      most == Max({catchup_at(M, L, b) : b \in sizes})
  IN  IF most = 0 THEN <<0, 0>>
      ELSE <<most, Min({b \in sizes : catchup_at(M, L, b) = most})>>

-----------------------------------------------------------------------------
(* Construction: model_runner.py, speculative_execution.py *)

Init ==
  /\ config \in Configs
  /\ phase = "plan"
  /\ plan = NoPlan
  /\ registry = {}
  /\ warmed = {}
  /\ graphs = {}
  /\ shapes = {}
  /\ rows = <<>>
  /\ selected_k = 0
  /\ step = [k |-> 0, bucket |-> 0]

Plan ==
  /\ phase = "plan"
  /\ plan' = plan_speculative_workspace(config.configured_k, config.max_num_seqs,
                                        config.max_num_batched_tokens, config.max_model_len)
  /\ registry' = build_draft_route_registry(config, plan')
  /\ phase' = "capture"
  /\ UNCHANGED <<config, warmed, graphs, shapes, rows, selected_k, step>>

capture_draft_cudagraph ==
  /\ phase = "capture"
  /\ graphs' = graph_buckets
  /\ phase' = "pretouch"
  /\ UNCHANGED <<config, plan, registry, warmed, shapes, rows, selected_k, step>>

MaxBucket == Max({key.bucket : key \in registry})

\* The batch sizes that replay each draft graph once, one inside a bucket.
graph_witnesses == graphs \cup (IF MaxBucket >= 3 THEN {3} ELSE {})

\* Every witness has a graph, and that graph has its one-proposal route.
GraphWitnessesAreLegal ==
  /\ graphs = graph_buckets
  /\ \A n \in graph_witnesses :
       /\ \E b \in graphs : b >= n
       /\ [bucket |-> Min({b \in graphs : b >= n}), k |-> 1, catchup |-> FALSE] \in registry

\* <<tokens, rows>>; all but the first end where the model does.
catchup_witnesses ==
  LET M == config.max_num_batched_tokens
      L == config.max_model_len
      most == max_eligible_draft_catchup(M, L, MaxBucket)
  IN  {<<1, 1>>, <<Smaller(M - 2, L - 2), 1>>, most}
        \cup (IF most[1] >= RaggedWitness
              THEN {<<RaggedWitness, Smaller(MaxBucket, RaggedWitness)>>} ELSE {})

\* _pretouch_draft_catchup_witness: at least one token per row, no row past the model.
CatchupWitnessIsLegal(w) ==
  /\ w[2] >= 1
  /\ w[1] >= w[2]
  /\ LET longest == CeilDiv(w[1], w[2])
     IN  Clamp(config.max_model_len - longest - 1) + longest <= config.max_model_len

catchup_component == Component("draft_catchup_paged_dynamic", MaxBucket)

WarmedComponents ==
  (IF config.enforce_eager THEN {Component("draft_decode_eager_dynamic", MaxBucket)}
   ELSE {Component("draft_decode_graph", b) : b \in graphs})
    \cup ({catchup_component} \cap desired_warm_components)
    \cup {Component("exact_sampler_envelope", MaxBucket)}

\* What the constructor asserts on the way to readiness.
PretouchIsLegal ==
  /\ registry # {}
  /\ config.enforce_eager \/ GraphWitnessesAreLegal
  /\ catchup_component \in desired_warm_components =>
       /\ max_eligible_draft_catchup(config.max_num_batched_tokens, config.max_model_len,
                                     MaxBucket)[1] >= 1
       /\ \A w \in catchup_witnesses : CatchupWitnessIsLegal(w)
  /\ WarmedComponents \subseteq desired_warm_components
  /\ ready_keys(WarmedComponents) = registry

pretouch_draft_routes ==
  /\ phase = "pretouch"
  /\ warmed' = IF PretouchIsLegal THEN WarmedComponents ELSE {}
  /\ phase' = IF PretouchIsLegal THEN "warm" ELSE "error"
  /\ UNCHANGED <<config, plan, registry, graphs, shapes, rows, selected_k, step>>

\* (batch, k) whose cycle fits the caches, the budget and the model by itself.
VerifierShapes ==
  {bk \in (1 .. Smaller(MAX_VERIFY_BATCH, plan.batch_size))
            \X (1 .. Smaller(MAX_VERIFY_K, plan.max_effective_k)) :
     /\ bk[1] * CeilDiv(bk[2] + 1, BlockSize) <= KVBlocks
     /\ bk[1] * (2 * bk[2] + 1) <= config.max_num_batched_tokens
     /\ bk[2] + 1 <= config.max_model_len}

warm_verifier ==
  /\ phase = "warm"
  /\ shapes' = VerifierShapes
  /\ phase' = IF VerifierShapes # {} THEN "ready" ELSE "error"
  /\ UNCHANGED <<config, plan, registry, warmed, graphs, rows, selected_k, step>>

\* Either warm-up used more memory than the plan reserved for it.
EnvelopeExceeded ==
  /\ phase \in {"pretouch", "warm"}
  /\ phase' = "refused"
  /\ UNCHANGED <<config, plan, registry, warmed, graphs, shapes, rows, selected_k, step>>

-----------------------------------------------------------------------------
(* The decode batch of a step *)

\* Decoding rows within what admission lets a request ask for (prompt + max_tokens - 1
\* positions); the sampling family matters to the adaptive policy only.
DecodeRows ==
  {r \in [committed : 2 .. config.max_model_len, draft_cached : 0 .. config.max_model_len - 1,
          remaining : 1 .. config.max_model_len - 1,
          family : IF config.adaptive THEN {"greedy", "temperature", "top_p"} ELSE {"temperature"}] :
     /\ r.draft_cached < r.committed
     /\ r.committed + r.remaining <= config.max_model_len + 1}

Batches == UNION {[1 .. n -> DecodeRows] : n \in 1 .. config.max_num_seqs}

Least(batch, F(_)) == Min({F(batch[i]) : i \in DOMAIN batch})

draft_catchup_tokens(batch) ==
  SumFunctionOnSet([i \in DOMAIN batch |-> batch[i].committed - 1 - batch[i].draft_cached],
                   DOMAIN batch)

completion_cap(batch) == Least(batch, LAMBDA r : Clamp(r.remaining - 1))
model_position_cap(batch) == Least(batch, LAMBDA r : Clamp(config.max_model_len - r.committed))

-----------------------------------------------------------------------------
(* Admission: the ready routes of the batch *)

draft_route_runtime_resources_ready ==
  /\ ready_keys(warmed) = registry
  /\ config.enforce_eager \/ graphs = graph_buckets

resolve_draft_route_admission(batch) ==
  IF draft_route_runtime_resources_ready
  THEN resolve(Len(batch), draft_catchup_tokens(batch)) ELSE {}

\* The admission that _execute_speculative_verified goes on with.
VerifiedAdmission(batch) ==
  {key \in resolve_draft_route_admission(batch) : <<Len(batch), key.k>> \in shapes}

-----------------------------------------------------------------------------
(* AdaptiveSpeculativePolicy *)

power_of_two_bucket(n) == IF n <= 0 THEN 0 ELSE Min({2 ^ i : i \in {j \in 0 .. n : 2 ^ j >= n}})

sampling_family(batch) ==
  LET families == {batch[i].family : i \in DOMAIN batch} \ {"greedy"}
  IN  CASE families = {} -> "greedy"
        [] Cardinality(families) = 1 -> CHOOSE f \in families : TRUE
        [] OTHER -> "mixed"

calibration_key(batch, k) ==
  [batch_size |-> Len(batch), family |-> sampling_family(batch),
   context |-> power_of_two_bucket(Max({batch[i].committed : i \in DOMAIN batch})),
   catchup |-> power_of_two_bucket(draft_catchup_tokens(batch)), k |-> k]

budget_cap(batch) ==
  Clamp((config.max_num_batched_tokens - draft_catchup_tokens(batch)) \div Len(batch) - 1)

\* The decisions the policy may take, 0 to decode as usual.  The predicted speedups
\* come from the calibration's times and the observed acceptance: any calibrated K
\* may be the best, and the best may stay below the gate of 10 percent.
choose(batch, ks) ==
  LET legal == {k \in ks : k <= Min({completion_cap(batch), model_position_cap(batch),
                                    budget_cap(batch)})}
  IN  {0} \cup (IF sampling_family(batch) = "greedy" /\ ~config.invariant THEN {}
                ELSE {k \in legal : calibration_key(batch, k) \in Cells})

\* The routes left to the scheduler.
Selected(admission, k) == IF config.adaptive THEN {key \in admission : key.k <= k} ELSE admission

-----------------------------------------------------------------------------
(* speculative_plan.py: the K that fits, and its plan *)

speculative_k_budget(batch) ==
  Clamp((config.max_num_batched_tokens - draft_catchup_tokens(batch) - Len(batch))
          \div (2 * Len(batch)))

derive_speculative_effective_k(batch, workspace_route_cap) ==
  Min({config.configured_k, completion_cap(batch), model_position_cap(batch),
       Clamp(config.max_num_batched_tokens \div Len(batch) - 1),
       speculative_k_budget(batch), workspace_route_cap})

\* The bytes of exactly this bucket and K fit what was reserved.
plan_exact_speculative_workspace(bucket, k) ==
  LET exact == plan_speculative_workspace(k, bucket, bucket * (k + 1), k + 1)
  IN  /\ speculative_route_fits_plan(bucket, k)
      /\ exact.reservation_bytes <= plan.reservation_bytes

\* The checks of certify_speculative_workspace whose failure is an error.
KeyMatchesCycle(batch, key) ==
  LET exact == plan_speculative_workspace(key.k, key.bucket, key.bucket * (key.k + 1), key.k + 1)
  IN  /\ key.bucket >= Len(batch)
      /\ key.catchup = (draft_catchup_tokens(batch) > 0)
      /\ <<exact.batch_size, exact.max_effective_k>> = <<key.bucket, key.k>>

\* The checks of build_speculative_step_plan whose failure is a bypass.
PlanFits(batch, cap, key) ==
  /\ cap <= plan.max_effective_k
  /\ key.k <= Smaller(config.configured_k, cap)
  /\ Len(batch) * (key.k + 1) <= config.max_num_batched_tokens
  /\ draft_catchup_tokens(batch) + Len(batch) * (2 * key.k + 1) <= config.max_num_batched_tokens
  /\ \A i \in DOMAIN batch :
       /\ batch[i].remaining >= key.k + 1
       /\ config.max_model_len - batch[i].committed >= key.k
  /\ plan_exact_speculative_workspace(key.bucket, key.k)

DiscardRowIsValid(row, k) ==
  /\ row.draft_cached <= row.committed - 1
  /\ row.remaining >= k + 1
  /\ config.max_model_len - row.committed >= Max({k, 1})
  /\ row.committed + k - 2 < config.max_model_len

\* The runner's own view of the cycle.
validate_draft_discard_plan(batch, cap, key) ==
  /\ key.k \in 1 .. Min({config.configured_k, cap})
  /\ speculative_route_fits_plan(Len(batch), key.k)
  /\ cap \in 1 .. plan.max_effective_k
  /\ key \in resolve(Len(batch), draft_catchup_tokens(batch))
  /\ draft_catchup_tokens(batch) + Len(batch) * (key.k + 1) <= config.max_num_batched_tokens
  /\ \A i \in DOMAIN batch : DiscardRowIsValid(batch[i], key.k)

\* The plan is built once more, and its writes are within the model.
validate_speculative_step_plan(batch, cap, key) ==
  /\ KeyMatchesCycle(batch, key)
  /\ PlanFits(batch, cap, key)
  /\ \A i \in DOMAIN batch : batch[i].committed + key.k - 1 < config.max_model_len
  /\ validate_draft_discard_plan(batch, cap, key)

Bypass == [k |-> 0, bucket |-> 0]

\* plan_speculative_step up to the reservation of blocks.
plan_speculative_step(batch, admission) ==
  LET cap == Cardinality(admission)
      k == derive_speculative_effective_k(batch, cap)
      fitting == {key \in admission : key.k = k /\ PlanFits(batch, cap, key)}
  IN  IF fitting = {} THEN Bypass ELSE [k |-> k, bucket |-> (CHOOSE key \in fitting : TRUE).bucket]

\* The step of a decode batch: admission, the policy's decision, the plan, and the
\* checks that scheduler and runner make of it.
execute_speculative_verified(batch) ==
  LET admission == VerifiedAdmission(batch)
      decisions == IF config.adaptive THEN choose(batch, {key.k : key \in admission}) ELSE {0}
      bypassed == config.adaptive /\ selected_k' = 0
      admitted == Selected(admission, selected_k')
      rejected ==
        \E key \in admitted :
          /\ key.k = step'.k
          /\ ~validate_speculative_step_plan(batch, Cardinality(admitted), key)
      failed ==
        \/ ~Contiguous(resolve_draft_route_admission(batch))
        \/ ~Contiguous(admission)
        \/ ~bypassed /\ (rejected \/ \E key \in admitted :
                                       /\ key.k = derive_speculative_effective_k(batch, Cardinality(admitted))
                                       /\ ~KeyMatchesCycle(batch, key))
  IN  /\ phase = "ready"
      /\ rows' = batch
      /\ selected_k' \in decisions
      /\ step' = IF bypassed THEN Bypass ELSE plan_speculative_step(batch, admitted)
      /\ phase' = IF failed THEN "error" ELSE "ran"
      /\ UNCHANGED <<config, plan, registry, warmed, graphs, shapes>>

\* The step is over.
Return ==
  /\ phase = "ran"
  /\ phase' = "ready"
  /\ rows' = <<>>
  /\ selected_k' = 0
  /\ step' = Bypass
  /\ UNCHANGED <<config, plan, registry, warmed, graphs, shapes>>

\* No engine was built.
Stopped == phase = "refused" /\ UNCHANGED vars

Next ==
  \/ Plan
  \/ capture_draft_cudagraph
  \/ pretouch_draft_routes
  \/ warm_verifier
  \/ EnvelopeExceeded
  \/ \E batch \in Batches : execute_speculative_verified(batch)
  \/ Return
  \/ Stopped

Spec == Init /\ [][Next]_vars

-----------------------------------------------------------------------------
(* Properties *)

\* No check that the code makes of its own results can fail: every legal configuration
\* has routes, every warm-up witness is one the model can run, the components warmed are
\* those the routes name, the ready routes of every batch are K = 1, 2, ..., and the
\* runner accepts every plan the scheduler makes, whatever the draft cache lacks.
OwnChecksPass == phase # "error"

\* The proposal lengths a batch could run, told from the limits alone: routes, buckets and
\* shapes do not occur.
Runnable(batch) ==
  {k \in 1 .. Min({config.configured_k, MAX_VERIFY_K, MAX_DRAFT_ROUTE_EFFECTIVE_K}) :
     /\ Len(batch) <= Min({MAX_VERIFY_BATCH, plan.batch_size, batch_cap_of(config, plan)})
     /\ Len(batch) * CeilDiv(k + 1, BlockSize) <= KVBlocks
     /\ draft_catchup_tokens(batch) + Len(batch) * (2 * k + 1) <= config.max_num_batched_tokens
     /\ \A i \in DOMAIN batch :
          /\ k < batch[i].remaining
          /\ batch[i].committed + k <= config.max_model_len}

\* The registry's pruning, the bucket chosen, the warm-up's shapes and the planner's
\* formulas together give each batch exactly the longest proposal its limits allow: no
\* route that could run was pruned, none that cannot run is offered.
LongestProposalThatFits ==
  phase = "ran" /\ ~config.adaptive => step.k = Max(Runnable(rows) \cup {0})

\* "Constructor pretouch must execute" the largest paged catch-up: no cycle catches up
\* more tokens, in all or in one row, than a witness did before the engine was ready.
CatchupWasWarmed ==
  phase = "ran" /\ step.k > 0 /\ draft_catchup_tokens(rows) > 0 =>
    /\ \E w \in catchup_witnesses : draft_catchup_tokens(rows) <= w[1]
    /\ \A i \in DOMAIN rows :
         \E w \in catchup_witnesses :
           w[2] = 1 /\ rows[i].committed - 1 - rows[i].draft_cached <= w[1]

\* "It speculates only when the predicted speedup is at least 1.10.  Unknown cells, losing
\* cells, ... and insufficient token budgets use ordinary decoding": with the adaptive
\* policy, a cycle that runs has the K of the calibration cell that was selected.
RunsTheSelectedCell == phase = "ran" /\ config.adaptive /\ step.k > 0 => step.k = selected_k
=============================================================================
