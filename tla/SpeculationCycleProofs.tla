------------------------- MODULE SpeculationCycleProofs -------------------------
(***************************************************************************)
(* Proofs about speculative decoding: the engine step of scheduler.py,     *)
(* llm_engine.py and speculative_plan.py with a draft model, in every      *)
(* mode.  A cycle borrows blocks, computes positions that may never be     *)
(* committed, commits bursts row by row and can fail at every step; the    *)
(* block pool, the prefix cache, what is counted as drafted, the token     *)
(* budget and what users were given stay in order throughout.              *)
(*                                                                         *)
(* Between the phases of a plain engine step the invariant is that of      *)
(* SchedulerProofs.  In a cycle it is a statement about two states: the    *)
(* current one and the one the cycle goes back to when it fails, which is  *)
(* always the state in which the decode batch was scheduled.               *)
(***************************************************************************)
EXTENDS Speculation, SchedulerProofs

\* The proofs about reservations, for the scheduler's own.
TAP == INSTANCE TemporaryAppendProofs
         WITH Prompts <- {r.prompt : r \in Requests}, MaxLen <- MaxModelLen + 1

-----------------------------------------------------------------------------
(* The batch of a cycle *)

\* What a cycle reads beside the host state and never changes.
Env ==
  [request |-> request, prefill |-> is_prefill, mid |-> mid_chunk_seq, rows |-> scheduled_seqs,
   decodes |-> num_decodes, batched |-> num_batched_tokens]

\* Requests that have not ended.
Unended(st) == {s \in Seqs : st[s] \in Pending}

EnvTypes(E) ==
  /\ E.request \in [Seqs -> [prompt : Seq(Token), max_tokens : Nat, ignore_eos : BOOLEAN]]
  /\ E.prefill \in [Seqs -> BOOLEAN]
  /\ E.mid \in Seqs \cup {None}
  /\ E.rows \in Seq(Seqs) /\ E.rows # <<>> /\ IsInjective(E.rows) /\ Len(E.rows) <= MaxNumSeqs
  /\ E.decodes = Len(E.rows)
  /\ E.batched \in 0 .. MaxNumBatchedTokens

HostTypes(H) ==
  /\ H.tokens \in [Seqs -> Seq(Token)]
  /\ H.cached \in [Seqs -> Nat]
  /\ H.status \in [Seqs -> Statuses]
  /\ H.scheduled \in [Seqs -> 0 .. MaxNumBatchedTokens]
  /\ H.waiting \in Seq(Seqs)
  /\ H.running \in Seq(Seqs)

\* The queues, but for who is running.
QueueFacts(H, E) ==
  /\ IsInjective(H.waiting)
  /\ IsInjective(H.running)
  /\ Range(H.waiting) \cap Range(H.running) = {}
  /\ \A s \in Seqs : s \in Range(H.waiting) <=> H.status[s] = "WAITING"
  /\ E.mid # None => H.waiting # <<>> /\ Head(H.waiting) = E.mid
  /\ Cardinality(Unended(H.status)) <= MaxNumSeqs

\* TokensInv, of one sequence.
TokenFacts(H, E, s) ==
  IF H.status[s] = "NONE"
  THEN H.tokens[s] = <<>> /\ E.request[s].prompt = <<>> /\ H.cached[s] = 0
  ELSE /\ E.request[s] \in Requests
       /\ Admissible(E.request[s])
       /\ Len(H.tokens[s]) >= Len(E.request[s].prompt)
       /\ H.status[s] \in Pending =>
            Len(H.tokens[s]) < Len(E.request[s].prompt) + E.request[s].max_tokens
       /\ H.status[s] = "WAITING" => H.cached[s] < Len(H.tokens[s])

\* The partial prefill has a table, and no more blocks than its prompt needs.
WaitingTable(H, E, T, s) ==
  /\ T[s] # <<>> <=> s = E.mid
  /\ s = E.mid => Len(T[s]) <= BM!BlocksFor(Len(H.tokens[s]))

\* A row computes its last token, and has the blocks for it.
BatchRow(H, T, s) ==
  /\ H.scheduled[s] = 1
  /\ H.cached[s] > 0
  /\ H.cached[s] = Len(H.tokens[s]) - 1
  /\ Len(T[s]) = BM!BlocksFor(Len(H.tokens[s]))

\* A pure decode batch is scheduled, with tables T.
RunFacts(H, E, T) ==
  /\ EnvTypes(E) /\ HostTypes(H) /\ QueueFacts(H, E)
  /\ H.running = E.rows
  /\ E.batched = Cardinality({x \in Range(E.rows) \X (1 .. MaxNumBatchedTokens) :
                                x[2] <= H.scheduled[x[1]]})
  /\ \A s \in Seqs :
       /\ s \in Range(E.rows) <=> H.status[s] = "RUNNING"
       /\ TokenFacts(H, E, s)
       /\ IF s \in Range(E.rows) THEN BatchRow(H, T, s) ELSE WaitingTable(H, E, T, s)

\* The table t leads to n positions of `text` in the cache m.
HeldIn(t, m, n, text) ==
  \A p \in 0 .. n - 1 : m[t[p \div BlockSize + 1]][p % BlockSize] = SubSeq(text, 1, p + 1)

\* DraftCachedIsComputed, of any state.
DraftFacts(H, d) ==
  /\ H.draft \in [Seqs -> Nat]
  /\ d \in [BM!Blocks -> [0 .. BlockSize - 1 -> Seq(Token)]]
  /\ \A s \in Seqs : H.draft[s] <= H.cached[s] /\ HeldIn(H.tables[s], d, H.draft[s], H.tokens[s])

\* A cycle that can be undone.
CycleFacts(H, E, m, d) ==
  /\ TAP!Lease(H, m)
  /\ H.reservation.rows = E.rows
  /\ RunFacts(H, E, TAP!Before(H).tables)
  /\ DraftFacts(H, d)

\* The positions that the draft cache lacks, and what a cycle may take.
CatchupOf(H, E) ==
  Cardinality(UNION {{s} \X (H.draft[s] .. H.cached[s] - 1) : s \in Range(E.rows)})

BudgetFacts(H, E, k) ==
  /\ k \in Nat \ {0}
  /\ k < MaxNumBatchedTokens
  /\ CatchupOf(H, E) + Len(E.rows) * (2 * k + 1) <= MaxNumBatchedTokens
  /\ \A s \in Range(E.rows) :
       /\ Len(H.tokens[s]) + k <= MaxModelLen
       /\ Len(H.tokens[s]) + k < Len(E.request[s].prompt) + E.request[s].max_tokens
       /\ Len(H.tokens[s]) + k <= BlockSize * Len(H.tables[s])

\* The draft cache holds the row and all its proposals but the last.
DraftedFacts(H, E, k, d, q) ==
  /\ q \in [Range(E.rows) -> [1 .. k -> Token]]
  /\ \A s \in Range(E.rows) :
       HeldIn(H.tables[s], d, Len(H.tokens[s]) - 1 + k, H.tokens[s] \o q[s])

\* Both caches hold what the burst of s commits: the target cache all but its last token.
BurstHeld(t, m, d, k, n, text, b) ==
  /\ HeldIn(t, m, n + Len(b), text \o b)
  /\ HeldIn(t, d, n + Smaller(Len(b), k), text \o b)

AcceptFacts(H, E, k, m, d, b) ==
  /\ DOMAIN b = Range(E.rows)
  /\ \A s \in Range(E.rows) :
       /\ b[s] \in Seq(Token)
       /\ Len(b[s]) \in 1 .. k + 1
       /\ BurstHeld(H.tables[s], m, d, k, H.cached[s], H.tokens[s], b[s])

-----------------------------------------------------------------------------
(* The commit of the bursts *)

\* EOS, where it counts, is only the last token of a burst.
EndsOnce(r, b) == \A i \in 1 .. Len(b) : ~r.ignore_eos /\ b[i] = EOS => i = Len(b)

\* The burst that s commits to the tokens U saved.
CutFacts(U, E, k, b, s) ==
  /\ b[s] \in Seq(Token)
  /\ Len(b[s]) \in 1 .. k + 1
  /\ Len(U.tokens[s]) + Len(b[s]) <= Len(E.request[s].prompt) + E.request[s].max_tokens
  /\ EndsOnce(E.request[s], b[s])

\* A row whose turn has not come, or whose tokens were just appended.
PendingRow(H, U, k, m, d, b, s) ==
  /\ H.status[s] = "RUNNING"
  /\ H.cached[s] = U.cached[s]
  /\ Len(H.tables[s]) = BM!BlocksFor(U.cached[s] + Len(b[s]))
  /\ BurstHeld(H.tables[s], m, d, k, U.cached[s], U.tokens[s], b[s])

\* The request ends with these tokens.
EndsWith(r, x) ==
  \/ ~r.ignore_eos /\ x[Len(x)] = EOS
  \/ Len(x) >= Len(r.prompt) + r.max_tokens

\* A row whose turn is over.
DoneRow(H, U, E, b, s) ==
  /\ H.tokens[s] = U.tokens[s] \o b[s]
  /\ \/ /\ H.status[s] = "RUNNING"
        /\ ~EndsWith(E.request[s], H.tokens[s])
        /\ H.cached[s] > 0
        /\ H.cached[s] = Len(H.tokens[s]) - 1
        /\ Len(H.tables[s]) = BM!BlocksFor(H.cached[s])
     \/ H.status[s] = "FINISHED" /\ H.tables[s] = <<>>

\* A sequence outside the batch is as it was.
Bystander(H, U, E, s) ==
  /\ H.tokens[s] = U.tokens[s]
  /\ H.status[s] = U.status[s]
  /\ H.cached[s] = U.cached[s]
  /\ WaitingTable(H, E, H.tables, s)

\* The commit at row r: rows before it are done, rows after it wait, all others are as they were.
CommitFacts(H, U, E, k, m, d, b, r) ==
  /\ HostTypes(H) /\ QueueFacts(H, E)
  /\ H.reservation = TA!NoReservation
  /\ k \in Nat \ {0} /\ k < MaxNumBatchedTokens
  /\ DOMAIN b = Range(E.rows)
  /\ \A s \in Range(E.rows) : CutFacts(U, E, k, b, s)
  /\ r \in 1 .. Len(E.rows)
  /\ \A i \in 1 .. r - 1 : DoneRow(H, U, E, b, E.rows[i])
  /\ \A i \in r + 1 .. Len(E.rows) :
       /\ PendingRow(H, U, k, m, d, b, E.rows[i])
       /\ H.tokens[E.rows[i]] = U.tokens[E.rows[i]]
  /\ \A s \in Seqs \ Range(E.rows) : Bystander(H, U, E, s)

\* Who is running, given the row that is leaving, if any.
RunningFacts(H, L) == \A s \in Seqs : s \in Range(H.running) <=> H.status[s] = "RUNNING" \/ s \in L

\* The row of the commit, in each of its phases.
AppendRow(H, U, k, m, d, b, s) ==
  PendingRow(H, U, k, m, d, b, s) /\ H.tokens[s] = U.tokens[s]

PublishRow(H, U, k, m, d, b, s) ==
  /\ PendingRow(H, U, k, m, d, b, s)
  /\ H.tokens[s] = U.tokens[s] \o b[s]
  /\ H.scheduled[s] = Len(b[s])

ReleaseRow(H, U, b, s) ==
  /\ H.status[s] = "FINISHED"
  /\ H.tokens[s] = U.tokens[s] \o b[s]
  /\ H.tables[s] # <<>>

-----------------------------------------------------------------------------
(* The inductive invariant *)

Cycling == {"prepare", "propose", "verify", "accept", "handoff"}
Committing == {"append", "publish", "release"}
Undoing == {"abort", "undo"}

\* What a plain step adds to the invariant of the scheduler: never more requests than
\* max_num_seqs, so that a batch without prefill rows has every running row; a failed
\* decode step was undone.
PlainFacts ==
  /\ Cardinality(Unended(status)) <= MaxNumSeqs
  /\ phase \in {"prefill", "run"} /\ Len(scheduled_seqs) = num_decodes => running = scheduled_seqs
  /\ phase = "failed" /\ ~ragged /\ mode # "ordinary" =>
       \A s \in Range(scheduled_seqs) : s \in Range(running) => Ready(s)

\* The staged coverage of a shadow cycle, until postprocess takes it over.
CoverFacts ==
  /\ phase \in {"run", "commit", "emit", "finish"}
  /\ ~ragged
  /\ DOMAIN coverage = Rows
  /\ \A s \in Rows :
       /\ coverage[s] \in Nat
       /\ status[s] = "RUNNING" =>
            /\ coverage[s] <= num_cached_tokens[s] + (IF s \in Open THEN 1 ELSE 0)
            /\ HeldIn(block_table[s], draft_kv, coverage[s], token_ids[s])

PlainInv ==
  phase \in Phases =>
    /\ IInv
    /\ PlainFacts
    /\ reservation = TA!NoReservation
    /\ undo = Nothing
    /\ effective_k = 0 <=> coverage = Nothing
    /\ coverage # Nothing => CoverFacts

CycleInv ==
  phase \in Cycling =>
    /\ CycleFacts(HostState, Env, kv, draft_kv)
    /\ BudgetFacts(HostState, Env, effective_k)
    /\ coverage = Nothing
    /\ undo = Nothing
    /\ phase \in {"propose", "verify", "accept"} /\ mode = "verified" => TAP!Unhashed(HostState)
    /\ phase \in {"prepare", "verify", "accept"} => mode = "verified"
    /\ phase \in {"verify", "handoff"} =>
         DraftedFacts(HostState, Env, effective_k, draft_kv, proposals)
    /\ phase = "accept" => AcceptFacts(HostState, Env, effective_k, kv, draft_kv, burst)

CommitInv ==
  phase \in Committing =>
    LET s == scheduled_seqs[row]
    IN  /\ CycleFacts(undo, Env, kv, draft_kv)
        /\ CommitFacts(HostState, undo, Env, effective_k, kv, draft_kv, burst, row)
        /\ RunningFacts(HostState, IF phase = "release" THEN {s} ELSE {})
        /\ coverage = Nothing
        /\ undo # Nothing
        /\ phase = "append" => AppendRow(HostState, undo, effective_k, kv, draft_kv, burst, s)
        /\ phase = "publish" => PublishRow(HostState, undo, effective_k, kv, draft_kv, burst, s)
        /\ phase = "release" => ReleaseRow(HostState, undo, burst, s)

UndoInv ==
  phase \in Undoing =>
    /\ undo = Nothing
    /\ phase = "undo" => effective_k = 0 /\ coverage = Nothing /\ reservation = TA!NoReservation
    /\ IF reservation = TA!NoReservation
       THEN RunFacts(HostState, Env, block_table)
       ELSE CycleFacts(HostState, Env, kv, draft_kv)

\* Tokens given to users end where they should.
Stops(x, r, pending) ==
  /\ Len(x) <= Len(r.prompt) + r.max_tokens
  /\ \A i \in Len(r.prompt) + 1 .. Len(x) : x[i] = EOS /\ ~r.ignore_eos => i = Len(x) /\ ~pending

\* What users have been given, and of whom they know that it has ended.
GivenStatus(s) == IF undo = Nothing THEN status[s] ELSE undo.status[s]

StopInv == \A s \in Seqs : Stops(Delivered(s), request[s], GivenStatus(s) \in Pending)

CommonInv ==
  /\ mode \in Modes
  /\ phase \in Phases \cup Cycling \cup Committing \cup Undoing
  /\ effective_k \in Nat
  /\ targets \in SUBSET Seqs
  /\ failures \in 0 .. MaxFailures
  /\ row \in 0 .. MaxNumSeqs
  /\ phase \in Cycling => row = 0
  /\ mode = "ordinary" =>
       /\ phase \in Phases
       /\ effective_k = 0
       /\ coverage = Nothing
       /\ num_draft_cached_tokens = [s \in Seqs |-> 0]
  /\ BMP!IInv
  /\ DraftFacts(HostState, draft_kv)

SInv == CommonInv /\ PlainInv /\ CycleInv /\ CommitInv /\ UndoInv /\ StopInv

-----------------------------------------------------------------------------
(* The allocator and the reservation, as a cycle uses them *)

\* The assumption on the allocator, for the reservations' copy of it.
LEMMA ReservationAssumption == TAP!BlockManagerAssumption
  BY AllocatorAssumption DEF BMP!BlockManagerAssumption, TAP!BlockManagerAssumption,
                             BMP!IsFiniteSet, TAP!IsFiniteSet

\* The snapshot of commit_speculative has the fields the proofs about reservations speak of.
LEMMA HostIs ==
  /\ HostState.free = free_block_ids /\ HostState.used = used_block_ids
  /\ HostState.index = hash_to_block_id /\ HostState.refs = ref_count
  /\ HostState.hashes = block_hash /\ HostState.reservation = reservation
  /\ HostState.tokens = token_ids /\ HostState.tables = block_table
  /\ HostState.cached = num_cached_tokens /\ HostState.draft = num_draft_cached_tokens
  /\ HostState.scheduled = num_scheduled_tokens /\ HostState.status = status
  /\ HostState.running = running /\ HostState.waiting = waiting
  /\ HostState # Nothing
<1>1. DOMAIN Nothing = {} /\ "free" \in DOMAIN HostState
  BY DEF Nothing, HostState
<1> QED BY <1>1 DEF HostState

\* The fields of Env.
LEMMA EnvIs ==
  /\ Env.request = request /\ Env.prefill = is_prefill /\ Env.mid = mid_chunk_seq
  /\ Env.rows = scheduled_seqs /\ Env.decodes = num_decodes /\ Env.batched = num_batched_tokens
  BY DEF Env

\* HostState is the current state.
LEMMA HostNow == TAP!IsNow(HostState)
  BY HostIs DEF TAP!IsNow

\* The same of the next state.
LEMMA HostNext ==
  ASSUME TRUE
  PROVE  /\ HostState'.free = free_block_ids' /\ HostState'.used = used_block_ids'
         /\ HostState'.index = hash_to_block_id' /\ HostState'.refs = ref_count'
         /\ HostState'.hashes = block_hash' /\ HostState'.reservation = reservation'
         /\ HostState'.tokens = token_ids' /\ HostState'.tables = block_table'
         /\ HostState'.cached = num_cached_tokens' /\ HostState'.draft = num_draft_cached_tokens'
         /\ HostState'.scheduled = num_scheduled_tokens' /\ HostState'.status = status'
         /\ HostState'.running = running' /\ HostState'.waiting = waiting'
         /\ TAP!IsNext(HostState')
  BY DEF HostState, TAP!IsNext

\* The allocator's invariant, of the snapshot.
LEMMA AllocIs == BMP!IInv <=> TAP!AllocOK(HostState, kv)
<1>1. BMP!IInv <=> TAP!IInv
  BY DEF BMP!IInv, TAP!IInv, BMP!PoolInv, TAP!PoolInv, BMP!TypeOK, TAP!TypeOK, BMP!Blocks, TAP!Blocks,
         BMP!PoolPartition, TAP!PoolPartition, BMP!IsInjective, TAP!IsInjective, BMP!Range, TAP!Range,
         BMP!RefCountIsOwners, TAP!RefCountIsOwners, BMP!Cardinality, TAP!Cardinality,
         BMP!Owners, TAP!Owners, BMP!TablesInjective, TAP!TablesInjective,
         BMP!IndexMatchesBlocks, TAP!IndexMatchesBlocks, BMP!NoHash, TAP!NoHash,
         BMP!WritesArePrivate, TAP!WritesArePrivate, BMP!HashChain, TAP!HashChain,
         BMP!num_tokens, TAP!num_tokens, BMP!PrefixHash, TAP!PrefixHash,
         BMP!CachedIsComputed, TAP!CachedIsComputed, BMP!Computed, TAP!Computed, BMP!Holds, TAP!Holds,
         BMP!SlotOf, TAP!SlotOf, BMP!IndexIsSound, TAP!IndexIsSound
<1>2. TAP!IInv <=> TAP!AllocOK(HostState, kv)
  BY HostIs, ReservationAssumption, TAP!CurrentOK DEF TAP!BlockManagerAssumption
<1> QED BY <1>1, <1>2

\* The same of the next state.
LEMMA AllocNext ==
  ASSUME TRUE
  PROVE  BMP!IInv' <=> TAP!AllocOK(HostState', kv')
<1>1. (BMP!IInv <=> TAP!AllocOK(HostState, kv))'
  BY AllocIs, PTL
<1> QED BY <1>1

\* The operations on reservations are those the proofs are about.
LEMMA SameReservation ==
  /\ TA!NoReservation = TAP!NoReservation
  /\ TA!Live <=> TAP!Live
  /\ TA!ReservationIsLive <=> TAP!ReservationIsLive
  /\ \A rows, highest :
       TA!reserve_temporary_append(rows, highest) <=> TAP!reserve_temporary_append(rows, highest)
  /\ TA!prepare_temporary_target_writes <=> TAP!prepare_temporary_target_writes
  /\ TA!rollback_temporary_append <=> TAP!rollback_temporary_append
  /\ \A keep : TA!finalize_temporary_append(keep) <=> TAP!finalize_temporary_append(keep)
  /\ \A cache, at, text : TA!Stored(cache, at, text) = TAP!Stored(cache, at, text)
<1> USE DEF TA!NoReservation, TAP!NoReservation, TA!Live, TAP!Live, TA!Range, TAP!Range,
            TA!Blocks, TAP!Blocks, TA!NoHash, TAP!NoHash, TA!Restrict, TAP!Restrict
<1>1. TA!ReservationIsLive <=> TAP!ReservationIsLive
  BY DEF TA!ReservationIsLive, TAP!ReservationIsLive, TA!IsInjective, TAP!IsInjective
<1>4. ASSUME NEW rows, NEW highest
      PROVE  TA!reserve_temporary_append(rows, highest) <=> TAP!reserve_temporary_append(rows, highest)
  BY DEF TA!reserve_temporary_append, TAP!reserve_temporary_append, TA!can_reserve, TAP!can_reserve,
         TA!taken, TAP!taken, TA!new_blocks, TAP!new_blocks, TA!missing_blocks, TAP!missing_blocks,
         TA!BlocksFor, TAP!BlocksFor, TA!Cardinality, TAP!Cardinality, TA!ResetHashes, TAP!ResetHashes,
         TA!StaleEntries, TAP!StaleEntries
<1>5. /\ TA!prepare_temporary_target_writes <=> TAP!prepare_temporary_target_writes
      /\ TA!rollback_temporary_append <=> TAP!rollback_temporary_append
  BY DEF TA!prepare_temporary_target_writes, TAP!prepare_temporary_target_writes,
         TA!rollback_temporary_append, TAP!rollback_temporary_append, TA!EvictBlocks, TAP!EvictBlocks,
         TA!Overlay, TAP!Overlay, TA!HashesBefore, TAP!HashesBefore,
         TA!bmVars, TAP!bmVars, TA!poolVars, TAP!poolVars, TA!indexVars, TAP!indexVars,
         TA!seqVars, TAP!seqVars
<1>6. ASSUME NEW keep
      PROVE  TA!finalize_temporary_append(keep) <=> TAP!finalize_temporary_append(keep)
  BY DEF TA!finalize_temporary_append, TAP!finalize_temporary_append, TA!EvictBlocks, TAP!EvictBlocks,
         TA!Overlay, TAP!Overlay, TA!FreeWithReleased, TAP!FreeWithReleased, TA!Keep, TAP!Keep,
         TA!NthKept, TAP!NthKept, TA!KeptAt, TAP!KeptAt, TA!KeptUpTo, TAP!KeptUpTo,
         TA!Cardinality, TAP!Cardinality
<1>7. ASSUME NEW cache, NEW at, NEW text
      PROVE  TA!Stored(cache, at, text) = TAP!Stored(cache, at, text)
  BY DEF TA!Stored, TAP!Stored, TA!SlotOf, TAP!SlotOf
<1> QED BY <1>1, <1>4, <1>5, <1>6, <1>7

\* What TemporaryAppend says of the draft cache.
LEMMA DraftIs ==
  DraftFacts(HostState, draft_kv) => DraftCachedIsComputed
  BY HostIs DEF DraftFacts, HeldIn, DraftCachedIsComputed, TA!DraftCachedIsComputed, TA!SlotOf
-----------------------------------------------------------------------------
(* From a plain step to a cycle and back *)

\* A pure decode batch satisfies the first invariant of a cycle.
LEMMA RunIsBatch ==
  ASSUME phase = "run", ~ragged, IInv, PlainFacts
  PROVE  RunFacts(HostState, Env, block_table)
<1>1. /\ QueueTypes /\ QueuesInv /\ BatchInv /\ TokensInv /\ BMP!IInv /\ StepInv
  BY DEF IInv, QInv
<1>2. active = running /\ (\A s : ~Leaving(s)) /\ Open = Range(scheduled_seqs)
  BY Members DEF active, Leaving, Open, IInv
<1>3. num_decodes = Len(scheduled_seqs) /\ Len(scheduled_seqs) \in Nat
  <2>1. num_decodes <= Len(scheduled_seqs) /\ num_decodes \in Int /\ Len(scheduled_seqs) \in Nat
    BY <1>1, Members DEF IInv, QueueTypes, StepInv, DecodesInv
  <2>2. ~(Len(scheduled_seqs) > num_decodes)
    BY DEF ragged
  <2> QED BY <2>1, <2>2
<1>4. running = scheduled_seqs
  BY <1>3 DEF PlainFacts
<1>5. EnvTypes(Env)
  BY <1>1, <1>3, EnvIs DEF EnvTypes, QueueTypes, BatchInv, Batching
<1>6. HostTypes(HostState)
  BY <1>1, HostIs DEF HostTypes, QueueTypes
<1>7. QueueFacts(HostState, Env)
  BY <1>1, <1>2, HostIs, EnvIs DEF QueueFacts, QueuesInv, PlainFacts
<1>8. Env.batched = Cardinality({x \in Range(Env.rows) \X (1 .. MaxNumBatchedTokens) :
                                   x[2] <= HostState.scheduled[x[1]]})
  BY <1>1, HostIs, EnvIs DEF StepInv, ChargeInv, RowTokens
<1>9. ASSUME NEW s \in Seqs
      PROVE  /\ s \in Range(Env.rows) <=> HostState.status[s] = "RUNNING"
             /\ TokenFacts(HostState, Env, s)
             /\ IF s \in Range(Env.rows) THEN BatchRow(HostState, block_table, s)
                ELSE WaitingTable(HostState, Env, block_table, s)
  <2>1. s \in Range(scheduled_seqs) <=> status[s] = "RUNNING"
    BY <1>1, <1>2, <1>4 DEF QueuesInv
  <2>2. TokenFacts(HostState, Env, s)
    BY <1>1, HostIs, EnvIs DEF TokensInv, TokenFacts, Pending
  <2>3. ASSUME s \in Range(scheduled_seqs) PROVE BatchRow(HostState, block_table, s)
    <3>1. PICK i \in 1 .. num_decodes : s = scheduled_seqs[i]
      BY <1>1, <1>3, <2>3, RangeIs DEF QueueTypes
    <3>2. Decodes(s)
      BY <1>1, <3>1 DEF StepInv, DecodesInv
    <3>3. Fits(s) /\ s # mid_chunk_seq
      BY <1>1, <1>2, <2>3, <3>2, Members DEF StepInv, SeqInv, IInv, Decodes
    <3> QED BY <3>2, <3>3, HostIs DEF BatchRow, Decodes, Fits
  <2>4. ASSUME s \notin Range(scheduled_seqs) PROVE WaitingTable(HostState, Env, block_table, s)
    BY <1>1, <1>2, <1>4, <2>4, HostIs, EnvIs DEF WaitingTable, StepInv, SeqInv
  <2> QED BY <2>1, <2>2, <2>3, <2>4, HostIs, EnvIs
<1> QED BY <1>4, <1>5, <1>6, <1>7, <1>8, <1>9, HostIs, EnvIs DEF RunFacts

\* The counters of a call that a cycle leaves alone.
CallTypes ==
  /\ row = 0
  /\ targets \in SUBSET Seqs
  /\ failures \in 0 .. MaxFailures

\* And back: a batch that can be run is in order.
LEMMA BatchIsRun ==
  phase = "run" /\ RunFacts(HostState, Env, block_table) /\ BMP!IInv /\ CallTypes
    => IInv /\ PlainFacts /\ ~ragged
<1> SUFFICES ASSUME phase = "run", RunFacts(HostState, Env, block_table), BMP!IInv, CallTypes
             PROVE  IInv /\ PlainFacts /\ ~ragged
  OBVIOUS
<1>1. EnvTypes(Env) /\ HostTypes(HostState) /\ QueueFacts(HostState, Env) /\ running = scheduled_seqs
  BY HostIs, EnvIs DEF RunFacts
<1>2. /\ scheduled_seqs \in Seq(Seqs) /\ scheduled_seqs # <<>> /\ IsInjective(scheduled_seqs)
      /\ Len(scheduled_seqs) <= MaxNumSeqs /\ num_decodes = Len(scheduled_seqs)
      /\ Len(scheduled_seqs) \in Nat
  BY <1>1, EnvIs, LenProperties DEF EnvTypes
<1>3. ~ragged
  BY <1>2 DEF ragged
<1>4. active = running /\ (\A s : ~Leaving(s)) /\ RowsFrom(1) = Range(scheduled_seqs)
      /\ Open = Range(scheduled_seqs)
  BY <1>2, LenProperties DEF active, Leaving, Open, RowsFrom, Range
<1>5. QueueTypes
  <2>1. num_decodes \in 0 .. MaxNumSeqs /\ row \in 0 .. MaxNumSeqs
    BY <1>2, Constants DEF CallTypes
  <2>2. phase \in Phases
    BY DEF Phases
  <2>3. /\ request \in [Seqs -> [prompt : Seq(Token), max_tokens : Nat, ignore_eos : BOOLEAN]]
        /\ is_prefill \in [Seqs -> BOOLEAN] /\ mid_chunk_seq \in Seqs \cup {None}
        /\ num_batched_tokens \in 0 .. MaxNumBatchedTokens
    BY <1>1, EnvIs DEF EnvTypes
  <2>4. /\ token_ids \in [Seqs -> Seq(Token)] /\ num_cached_tokens \in [Seqs -> Nat]
        /\ status \in [Seqs -> Statuses] /\ num_scheduled_tokens \in [Seqs -> 0 .. MaxNumBatchedTokens]
        /\ waiting \in Seq(Seqs) /\ running \in Seq(Seqs)
    BY <1>1, HostIs DEF HostTypes
  <2> QED BY <1>2, <2>1, <2>2, <2>3, <2>4 DEF QueueTypes, CallTypes
<1>6. \A s \in Seqs : /\ s \in Range(scheduled_seqs) <=> status[s] = "RUNNING"
                      /\ TokenFacts(HostState, Env, s)
                      /\ s \in Range(scheduled_seqs) => BatchRow(HostState, block_table, s)
                      /\ s \notin Range(scheduled_seqs) => WaitingTable(HostState, Env, block_table, s)
  BY HostIs, EnvIs DEF RunFacts
<1>7. QueuesInv
  BY <1>1, <1>4, <1>6, HostIs, EnvIs DEF QueueFacts, QueuesInv
<1>8. BatchInv
  <2>1. \A i \in 1 .. Len(scheduled_seqs) : RowInv(i)
    BY <1>1, <1>2, RangeIs DEF RowInv
  <2> QED BY <1>2, <2>1 DEF BatchInv, CallTypes
<1>9. TokensInv
  BY <1>6, HostIs, EnvIs DEF TokensInv, TokenFacts, Pending
<1>10. QInv
  BY <1>5, <1>7, <1>8, <1>9 DEF QInv
<1>11. ASSUME NEW s \in Seqs PROVE SeqInv(s)
  <2>1. CASE s \in Range(scheduled_seqs)
    <3>1. BatchRow(HostState, block_table, s)
      BY <1>6, <2>1
    <3>2. PICK l \in Nat, n \in Nat \ {0}, c \in Nat \ {0} :
            l = Len(block_table[s]) /\ n = Len(token_ids[s]) /\ c = num_cached_tokens[s] /\ c = n - 1
      BY <1>10, <3>1, Counts, HostIs DEF BatchRow
    <3>3. l = BM!BlocksFor(n) /\ num_scheduled_tokens[s] = 1 /\ l # 0 /\ n <= BlockSize * l
      <4>1. l = BM!BlocksFor(n) /\ num_scheduled_tokens[s] = 1
        BY <3>1, <3>2, HostIs DEF BatchRow
      <4>2. n <= BlockSize * l
        <5>1. \A k \in Nat : BM!BlocksFor(n) <= k <=> n <= BlockSize * k
          BY n \in Nat, Blocks
        <5>2. l <= l
          BY ONLY l \in Nat
        <5> QED BY ONLY <4>1, <5>1, <5>2, l \in Nat
      <4>3. l = 0 => BlockSize * l = 0
        BY Constants
      <4> QED BY <3>2, <4>1, <4>2, <4>3
    <3>4. block_table[s] # <<>>
      BY <1>10, <3>2, <3>3, Counts
    <3>5. Fits(s)
      BY <3>2, <3>3 DEF Fits
    <3>6. s \in Range(active) /\ s # mid_chunk_seq /\ s \in Open
      BY <1>1, <1>4, <1>10, <2>1, Members
    <3> QED BY <3>4, <3>5, <3>6 DEF SeqInv, Loose, Current, Postprocessing
  <2>2. CASE s \notin Range(scheduled_seqs)
    BY <1>1, <1>4, <1>6, <2>2, HostIs, EnvIs DEF SeqInv, WaitingTable, Current
  <2> QED BY <2>1, <2>2
<1>12. DecodesInv
  <2>1. ASSUME NEW i \in 1 .. num_decodes PROVE Decodes(scheduled_seqs[i])
    <3>1. scheduled_seqs[i] \in Range(scheduled_seqs) /\ scheduled_seqs[i] \in Seqs
      BY <1>2, RangeIs
    <3> QED BY <1>1, <1>4, <1>6, <3>1, HostIs DEF Decodes, BatchRow
  <2> QED BY <1>2, <2>1 DEF DecodesInv
<1>13. ChargeInv
  BY HostIs, EnvIs DEF ChargeInv, RowTokens, RunFacts
<1>14. WorkInv
  BY DEF WorkInv
<1>15. PlainFacts
  BY <1>1, HostIs DEF PlainFacts, QueueFacts
<1> QED BY <1>3, <1>10, <1>11, <1>12, <1>13, <1>14, <1>15 DEF IInv, StepInv

\* Between steps, and after a decode step was undone: every running row has its tokens
\* cached but the last, and no block more than they need.
ReadyRow(H, s) ==
  /\ H.cached[s] > 0
  /\ H.cached[s] = Len(H.tokens[s]) - 1
  /\ Len(H.tables[s]) = BM!BlocksFor(H.cached[s])

RestFacts(H, E) ==
  /\ E.request \in [Seqs -> [prompt : Seq(Token), max_tokens : Nat, ignore_eos : BOOLEAN]]
  /\ E.prefill \in [Seqs -> BOOLEAN]
  /\ E.mid \in Seqs \cup {None}
  /\ HostTypes(H) /\ QueueFacts(H, E)
  /\ \A s \in Seqs :
       /\ s \in Range(H.running) <=> H.status[s] = "RUNNING"
       /\ TokenFacts(H, E, s)
       /\ IF s \in Range(H.running) THEN ReadyRow(H, s) ELSE WaitingTable(H, E, H.tables, s)

\* The locals of a step that has ended or failed.
RestTypes ==
  /\ phase = "idle" \/ (phase = "failed" /\ scheduled_seqs # <<>>)
  /\ scheduled_seqs \in Seq(Seqs) /\ Len(scheduled_seqs) <= MaxNumSeqs
  /\ num_decodes \in 0 .. MaxNumSeqs
  /\ num_batched_tokens \in 0 .. MaxNumBatchedTokens
  /\ row \in 0 .. MaxNumSeqs
  /\ targets \in SUBSET Seqs
  /\ failures \in 0 .. MaxFailures

\* An engine at rest satisfies the scheduler's invariant.
LEMMA RestIs ==
  RestTypes /\ RestFacts(HostState, Env) /\ BMP!IInv => IInv /\ PlainFacts
<1> SUFFICES ASSUME RestTypes, RestFacts(HostState, Env), BMP!IInv PROVE IInv /\ PlainFacts
  OBVIOUS
<1>1. HostTypes(HostState) /\ QueueFacts(HostState, Env)
  BY DEF RestFacts
<1>2. active = running /\ (\A s : ~Leaving(s)) /\ (\A s : ~Current(s)) /\ phase \in {"idle", "failed"}
  BY DEF active, Leaving, Current, RestTypes
<1>3. QueueTypes
  <2>1. phase \in Phases
    BY <1>2 DEF Phases
  <2>2. /\ request \in [Seqs -> [prompt : Seq(Token), max_tokens : Nat, ignore_eos : BOOLEAN]]
        /\ is_prefill \in [Seqs -> BOOLEAN] /\ mid_chunk_seq \in Seqs \cup {None}
    BY EnvIs DEF RestFacts
  <2>3. /\ token_ids \in [Seqs -> Seq(Token)] /\ num_cached_tokens \in [Seqs -> Nat]
        /\ status \in [Seqs -> Statuses] /\ num_scheduled_tokens \in [Seqs -> 0 .. MaxNumBatchedTokens]
        /\ waiting \in Seq(Seqs) /\ running \in Seq(Seqs)
    BY <1>1, HostIs DEF HostTypes
  <2> QED BY <2>1, <2>2, <2>3 DEF QueueTypes, RestTypes
<1>4. \A s \in Seqs : /\ s \in Range(running) <=> status[s] = "RUNNING"
                      /\ TokenFacts(HostState, Env, s)
                      /\ s \in Range(running) => ReadyRow(HostState, s)
                      /\ s \notin Range(running) => WaitingTable(HostState, Env, block_table, s)
  BY HostIs DEF RestFacts
<1>5. QueuesInv
  BY <1>1, <1>2, <1>4, HostIs, EnvIs DEF QueueFacts, QueuesInv
<1>6. BatchInv
  BY <1>2 DEF BatchInv, Batching
<1>7. TokensInv
  BY <1>4, HostIs, EnvIs DEF TokensInv, TokenFacts, Pending
<1>8. QInv
  BY <1>3, <1>5, <1>6, <1>7 DEF QInv
<1>9. ASSUME NEW s \in Range(running), s \in Seqs PROVE Ready(s) /\ block_table[s] # <<>>
  <2>1. Ready(s)
    BY <1>4, <1>9, HostIs DEF Ready, ReadyRow
  <2>2. PICK l \in Nat, c \in Nat \ {0} :
          l = Len(block_table[s]) /\ c = num_cached_tokens[s] /\ l = BM!BlocksFor(c)
    BY <1>8, <1>9, <2>1, Counts DEF Ready
  <2>3. c <= BlockSize * l
    BY <2>2, Blocks
  <2>4. l = 0 => BlockSize * l = 0
    BY Constants
  <2>5. l # 0
    BY <2>2, <2>3, <2>4
  <2> QED BY <1>8, <1>9, <2>1, <2>2, <2>5, Counts
<1>10. ASSUME NEW s \in Seqs PROVE SeqInv(s)
  <2>1. CASE s \in Range(running)
    <3>1. Ready(s) /\ block_table[s] # <<>> /\ s # mid_chunk_seq
      BY <1>2, <1>8, <1>9, <2>1, Members
    <3>2. s \in Open => phase = "failed"
      BY <1>2 DEF Open
    <3> QED BY <1>2, <2>1, <3>1, <3>2 DEF SeqInv, Postprocessing
  <2>2. CASE s \notin Range(running)
    <3>1. s \in Open => phase = "failed"
      BY <1>2 DEF Open
    <3> QED BY <1>2, <1>4, <2>2, <3>1, HostIs, EnvIs DEF SeqInv, WaitingTable, Postprocessing
  <2> QED BY <2>1, <2>2
<1>11. DecodesInv /\ ChargeInv /\ WorkInv
  BY <1>2 DEF DecodesInv, ChargeInv, WorkInv, RestTypes
<1>12. PlainFacts
  <2>1. \A s \in Range(running) : s \in Seqs
    BY <1>8, Members, <1>2
  <2> QED BY <1>1, <1>2, <1>9, <2>1, HostIs DEF PlainFacts, QueueFacts
<1> QED BY <1>8, <1>10, <1>11, <1>12 DEF IInv, StepInv

-----------------------------------------------------------------------------
(* What the facts of a cycle read *)

\* The same rows, queues and counts.
SameRows(H, J) ==
  /\ H.tokens = J.tokens /\ H.cached = J.cached /\ H.status = J.status
  /\ H.scheduled = J.scheduled /\ H.waiting = J.waiting /\ H.running = J.running

\* The same tables and draft coverage, too.
SameCover(H, J) == SameRows(H, J) /\ H.tables = J.tables /\ H.draft = J.draft

\* A batch is one also of a state that differs only in blocks and draft counts.
LEMMA RunSame ==
  ASSUME NEW H, NEW J, NEW E, NEW T, SameRows(H, J), RunFacts(H, E, T)
  PROVE  RunFacts(J, E, T)
<1>1. EnvTypes(E) /\ HostTypes(J) /\ QueueFacts(J, E) /\ J.running = E.rows
  BY DEF SameRows, RunFacts, HostTypes, QueueFacts
<1>2. E.batched = Cardinality({x \in Range(E.rows) \X (1 .. MaxNumBatchedTokens) :
                                 x[2] <= J.scheduled[x[1]]})
  BY DEF SameRows, RunFacts
<1>3. \A s \in Seqs :
       /\ s \in Range(E.rows) <=> J.status[s] = "RUNNING"
       /\ TokenFacts(J, E, s)
       /\ IF s \in Range(E.rows) THEN BatchRow(J, T, s) ELSE WaitingTable(J, E, T, s)
  BY DEF SameRows, RunFacts, TokenFacts, BatchRow, WaitingTable
<1> QED BY <1>1, <1>2, <1>3 DEF RunFacts

\* Draft coverage and budget depend on tokens, tables and counts only.
LEMMA CoverSame ==
  ASSUME NEW H, NEW J, SameCover(H, J)
  PROVE  /\ \A d : DraftFacts(H, d) => DraftFacts(J, d)
         /\ \A E, k : BudgetFacts(H, E, k) => BudgetFacts(J, E, k)
<1>1. \A d : DraftFacts(H, d) => DraftFacts(J, d)
  BY DEF SameCover, SameRows, DraftFacts
<1>2. ASSUME NEW E, NEW k, BudgetFacts(H, E, k) PROVE BudgetFacts(J, E, k)
  <2>1. CatchupOf(J, E) = CatchupOf(H, E)
    BY DEF SameCover, SameRows, CatchupOf
  <2> QED BY <1>2, <2>1 DEF SameCover, SameRows, BudgetFacts
<1> QED BY <1>1, <1>2

\* The environment of a cycle does not change with it.
LEMMA EnvStays ==
  ASSUME UNCHANGED <<request, is_prefill, mid_chunk_seq, scheduled_seqs, num_decodes, num_batched_tokens>>
  PROVE  Env' = Env
  BY DEF Env

\* Nor does the host state, where nothing of it changes.
LEMMA HostStays ==
  ASSUME UNCHANGED <<free_block_ids, used_block_ids, hash_to_block_id, ref_count, block_hash,
                     reservation, token_ids, block_table, num_cached_tokens,
                     num_draft_cached_tokens, num_scheduled_tokens, status, running, waiting>>
  PROVE  HostState' = HostState
  BY DEF HostState

\* A position below n lies in one of the blocks for n tokens.
LEMMA BlockAt ==
  ASSUME NEW l \in Nat, NEW n \in Nat, n <= BlockSize * l, NEW p \in 0 .. n - 1
  PROVE  /\ p \div BlockSize + 1 \in 1 .. l
         /\ p % BlockSize \in 0 .. BlockSize - 1
<1>1. p \in Nat /\ p < BlockSize * l
  <2>1. BlockSize * l \in Nat
    BY Constants
  <2> QED BY <2>1
<1> QED BY <1>1, ReservationAssumption, TAP!SlotBlock DEF TAP!BlockManagerAssumption

\* What a table leads to depends on the blocks in use and the text only.
LEMMA HeldStays ==
  ASSUME NEW t, NEW u, NEW m, NEW n \in Nat, NEW l \in Nat, NEW x, NEW y,
         n <= BlockSize * l, \A i \in 1 .. l : u[i] = t[i],
         \A k \in 1 .. n : SubSeq(y, 1, k) = SubSeq(x, 1, k),
         HeldIn(t, m, n, x)
  PROVE  HeldIn(u, m, n, y)
<1> SUFFICES ASSUME NEW p \in 0 .. n - 1
             PROVE  m[u[p \div BlockSize + 1]][p % BlockSize] = SubSeq(y, 1, p + 1)
  BY DEF HeldIn
<1>1. u[p \div BlockSize + 1] = t[p \div BlockSize + 1]
  BY BlockAt
<1>2. p + 1 \in 1 .. n
  OBVIOUS
<1>3. SubSeq(y, 1, p + 1) = SubSeq(x, 1, p + 1)
  BY <1>2
<1> QED BY <1>1, <1>3 DEF HeldIn

\* Fewer positions are held, too.
LEMMA HeldFewer ==
  ASSUME NEW t, NEW m, NEW n \in Int, NEW k \in Int, k <= n, NEW x, HeldIn(t, m, n, x)
  PROVE  HeldIn(t, m, k, x)
<1>1. \A p \in 0 .. k - 1 : p \in 0 .. n - 1
  OBVIOUS
<1> QED BY <1>1 DEF HeldIn

\* Facts of a state with an allocator in order.
LEMMA AllocFacts ==
  ASSUME NEW H, NEW m, TAP!AllocOK(H, m)
  PROVE  /\ H.tokens \in [Seqs -> Seq(Token)] /\ H.tables \in [Seqs -> Seq(BM!Blocks)]
         /\ H.cached \in [Seqs -> Nat]
         /\ m \in [BM!Blocks -> [0 .. BlockSize - 1 -> Seq(Token)]]
         /\ \A s \in Seqs : /\ H.cached[s] <= Len(H.tokens[s])
                            /\ H.cached[s] <= BlockSize * Len(H.tables[s])
                            /\ Len(H.tables[s]) \in Nat /\ Len(H.tokens[s]) \in Nat
                            /\ IsInjective(H.tables[s])
                            /\ HeldIn(H.tables[s], m, H.cached[s], H.tokens[s])
<1>1. /\ H.tokens \in [Seqs -> Seq(Token)] /\ H.tables \in [Seqs -> Seq(BM!Blocks)]
      /\ H.cached \in [Seqs -> Nat] /\ m \in [BM!Blocks -> [0 .. BlockSize - 1 -> Seq(Token)]]
  BY DEF TAP!AllocOK, TAP!AllocTypes, TAP!Blocks, BM!Blocks
<1>2. ASSUME NEW s \in Seqs
      PROVE  /\ H.cached[s] <= Len(H.tokens[s]) /\ H.cached[s] <= BlockSize * Len(H.tables[s])
             /\ IsInjective(H.tables[s])
  BY DEF TAP!AllocOK, TAP!AllocTable, TAP!IsInjective, IsInjective
<1>3. ASSUME NEW s \in Seqs PROVE Len(H.tables[s]) \in Nat /\ Len(H.tokens[s]) \in Nat
  BY <1>1, LenProperties
<1>4. ASSUME NEW s \in Seqs PROVE HeldIn(H.tables[s], m, H.cached[s], H.tokens[s])
  BY DEF TAP!AllocOK, TAP!HoldsIn, TAP!SlotIn, HeldIn
<1> QED BY <1>1, <1>2, <1>3, <1>4

\* A lease has the allocator in order.
LEMMA LeaseAlloc ==
  ASSUME NEW H, NEW m, TAP!Lease(H, m)
  PROVE  TAP!AllocOK(H, m)
  BY ReservationAssumption, TAP!LeaseOK DEF TAP!BlockManagerAssumption

\* What the draft cache holds stays, when tables keep the blocks of the cached tokens.
LEMMA DraftKept ==
  ASSUME NEW H, NEW J, NEW d, NEW m, DraftFacts(H, d), TAP!AllocOK(H, m), TAP!AllocOK(J, m),
         J.tokens = H.tokens, J.cached = H.cached, J.draft = H.draft,
         \A s \in Seqs : \A i \in 1 .. Len(H.tables[s]) :
           i <= Len(J.tables[s]) => J.tables[s][i] = H.tables[s][i]
  PROVE  DraftFacts(J, d)
<1> SUFFICES ASSUME NEW s \in Seqs PROVE HeldIn(J.tables[s], d, J.draft[s], J.tokens[s])
  BY DEF DraftFacts
<1>1. PICK a \in Nat, b \in Nat, c \in Nat, n \in Nat :
        /\ a = Len(H.tables[s]) /\ b = Len(J.tables[s]) /\ c = H.cached[s] /\ n = H.draft[s] /\ n <= c
        /\ c <= BlockSize * a /\ c <= BlockSize * b
  <2>1. Len(H.tables[s]) \in Nat /\ Len(J.tables[s]) \in Nat /\ H.cached[s] \in Nat
    BY AllocFacts
  <2>2. H.cached[s] <= BlockSize * Len(H.tables[s]) /\ H.cached[s] <= BlockSize * Len(J.tables[s])
    BY AllocFacts
  <2>3. H.draft[s] \in Nat /\ H.draft[s] <= H.cached[s]
    BY DEF DraftFacts
  <2> QED BY <2>1, <2>2, <2>3
<1>2. PICK l \in Nat : l = (IF a < b THEN a ELSE b)
  OBVIOUS
<1>3. n <= BlockSize * l
  <2>1. c <= BlockSize * l
    BY <1>1, <1>2
  <2>2. BlockSize * l \in Nat
    BY Constants
  <2> QED BY <1>1, <2>1, <2>2
<1>4. \A i \in 1 .. l : J.tables[s][i] = H.tables[s][i]
  BY <1>1, <1>2
<1>5. HeldIn(H.tables[s], d, n, H.tokens[s])
  BY <1>1 DEF DraftFacts
<1> QED BY <1>1, <1>3, <1>4, <1>5, HeldStays

-----------------------------------------------------------------------------
(* Planning a cycle *)

\* The counts of a row of the batch.
LEMMA RowFacts ==
  ASSUME NEW H, NEW E, NEW T, RunFacts(H, E, T), NEW s \in Range(E.rows)
  PROVE  /\ s \in Seqs /\ H.status[s] = "RUNNING" /\ E.request[s] \in Requests
         /\ H.tokens[s] \in Seq(Token)
         /\ Len(H.tokens[s]) \in 1 .. MaxModelLen
         /\ H.cached[s] \in Nat \ {0}
         /\ H.cached[s] = Len(H.tokens[s]) - 1
         /\ Len(E.request[s].prompt) \in Nat \ {0} /\ E.request[s].max_tokens \in Nat \ {0}
         /\ Len(E.request[s].prompt) <= Len(H.tokens[s])
         /\ Len(H.tokens[s]) < Len(E.request[s].prompt) + E.request[s].max_tokens
         /\ Len(E.request[s].prompt) + E.request[s].max_tokens - 1 <= MaxModelLen
         /\ H.scheduled[s] = 1
         /\ Len(T[s]) = BM!BlocksFor(Len(H.tokens[s]))
<1>1. E.rows \in Seq(Seqs) /\ HostTypes(H)
  BY DEF RunFacts, EnvTypes
<1>2. s \in Seqs
  BY <1>1, RangeIs
<1>3. H.status[s] = "RUNNING" /\ TokenFacts(H, E, s) /\ BatchRow(H, T, s)
  BY <1>2 DEF RunFacts
<1>4. /\ E.request[s] \in Requests /\ Admissible(E.request[s])
      /\ Len(H.tokens[s]) >= Len(E.request[s].prompt)
      /\ Len(H.tokens[s]) < Len(E.request[s].prompt) + E.request[s].max_tokens
  BY <1>3 DEF TokenFacts, Pending
<1>5. E.request[s].prompt \in Seq(Token) \ {<<>>} /\ E.request[s].max_tokens \in Nat \ {0}
  BY <1>4, Constants
<1>6. Len(E.request[s].prompt) \in Nat \ {0}
  BY <1>5, EmptySeq, LenProperties
<1>7. H.tokens[s] \in Seq(Token) /\ Len(H.tokens[s]) \in Nat /\ H.cached[s] \in Nat
  BY <1>1, <1>2, LenProperties DEF HostTypes
<1>8. Len(E.request[s].prompt) + E.request[s].max_tokens - 1 <= MaxModelLen /\ MaxModelLen \in Nat
  BY <1>4, SchedulerAssumption DEF Admissible, SchedulerAssumption
<1>9. /\ H.cached[s] > 0 /\ H.cached[s] = Len(H.tokens[s]) - 1 /\ H.scheduled[s] = 1
      /\ Len(T[s]) = BM!BlocksFor(Len(H.tokens[s]))
  BY <1>3 DEF BatchRow
<1>10. PICK n \in Nat, m \in Nat \ {0}, x \in Nat \ {0}, L \in Nat :
         /\ n = Len(H.tokens[s]) /\ m = Len(E.request[s].prompt) /\ x = E.request[s].max_tokens
         /\ L = MaxModelLen
  BY <1>5, <1>6, <1>7, <1>8
<1>11. n >= m /\ n < m + x /\ m + x - 1 <= L
  BY <1>4, <1>8, <1>10
<1>12. n \in 1 .. L /\ m <= n
  BY <1>11
<1>13. /\ H.cached[s] \in Nat \ {0} /\ H.cached[s] = n - 1
  <2>1. PICK c \in Nat : c = H.cached[s]
    BY <1>7
  <2>2. c > 0 /\ c = n - 1
    BY <1>9, <1>10, <2>1
  <2> QED BY <2>1, <2>2
<1> QED BY <1>2, <1>3, <1>4, <1>5, <1>6, <1>7, <1>8, <1>9, <1>10, <1>11, <1>12, <1>13

\* The positions to catch up with can be counted.
LEMMA CatchupIsCount ==
  ASSUME NEW H, NEW E, NEW T, RunFacts(H, E, T), H.draft \in [Seqs -> Nat]
  PROVE  CatchupOf(H, E) \in Nat
<1> DEFINE C == UNION {{s} \X (H.draft[s] .. H.cached[s] - 1) : s \in Range(E.rows)}
           B == Range(E.rows) \X (0 .. MaxModelLen)
<1>1. Range(E.rows) \subseteq Seqs
  BY RangeIs DEF RunFacts, EnvTypes
<1>2. IsFiniteSet(Range(E.rows))
  BY <1>1, SchedulerAssumption, FS_Subset DEF SchedulerAssumption
<1>3. MaxModelLen \in Nat
  BY SchedulerAssumption DEF SchedulerAssumption
<1>4. IsFiniteSet(0 .. MaxModelLen)
  <2>1. 0 \in Int /\ MaxModelLen \in Int
    BY <1>3
  <2> QED BY <2>1, FS_Interval
<1>5. IsFiniteSet(B)
  BY <1>2, <1>4, FS_Product
<1>6. C \subseteq B
  <2> SUFFICES ASSUME NEW x \in C PROVE x \in B
    OBVIOUS
  <2>1. PICK s \in Range(E.rows) : x \in {s} \X (H.draft[s] .. H.cached[s] - 1)
    OBVIOUS
  <2>2. H.draft[s] .. H.cached[s] - 1 \subseteq 0 .. MaxModelLen
    <3>1. PICK a \in Nat, c \in Nat, n \in 1 .. MaxModelLen :
            a = H.draft[s] /\ c = H.cached[s] /\ c = n - 1
      <4>1. s \in Seqs /\ H.cached[s] \in Nat /\ H.cached[s] = Len(H.tokens[s]) - 1
            /\ Len(H.tokens[s]) \in 1 .. MaxModelLen
        BY RowFacts
      <4> QED BY <4>1
    <3>2. a .. c - 1 \subseteq 0 .. MaxModelLen
      BY <1>3, <3>1
    <3> QED BY <3>1, <3>2
  <2> QED BY <2>1, <2>2
<1>7. Cardinality(C) \in Nat
  BY <1>5, <1>6, FS_Subset, FS_CardinalityType
<1> QED BY <1>7 DEF CatchupOf

\* The least element of a set of naturals is in it and bounds it.
LEMMA MinIs ==
  ASSUME NEW S, S \subseteq Nat, S # {}
  PROVE  Min(S) \in S /\ \A y \in S : Min(S) <= y
<1>1. \E x \in S : \A y \in S : x <= y
  BY ReservationAssumption, TAP!LeastNat DEF TAP!BlockManagerAssumption
<1> QED BY <1>1 DEF Min

\* What the division of the budget leaves for proposals fits it.
LEMMA BudgetIs ==
  ASSUME NEW M \in Nat, NEW c \in Nat, NEW b \in Nat \ {0}, NEW k \in Nat \ {0},
         k <= AtLeastZero((M - c - b) \div (2 * b))
  PROVE  c + b * (2 * k + 1) <= M /\ k < M
<1>1. PICK x \in Int : x = M - c - b
  OBVIOUS
<1>2. PICK y \in Nat \ {0} : y = 2 * b
  OBVIOUS
<1>3. x \div y \in Int /\ x % y \in 0 .. y - 1 /\ x = y * (x \div y) + (x % y)
  OBVIOUS
<1>4. PICK q \in Int : q = x \div y
  BY <1>3
<1>5. q >= k
  <2>1. k <= AtLeastZero(q)
    BY <1>1, <1>2, <1>4
  <2> QED BY <2>1 DEF AtLeastZero
<1>6. PICK z \in Nat : z = y * k
  OBVIOUS
<1>7. PICK w \in Int : w = y * q
  OBVIOUS
<1>8. w >= z
  <2>1. PICK e \in Nat : q = k + e
    BY <1>5
  <2>2. y * (k + e) = y * k + y * e /\ y * e \in Nat
    BY <1>2
  <2> QED BY <1>6, <1>7, <2>1, <2>2
<1>9. x >= z
  <2>1. x = w + (x % y) /\ (x % y) \in Nat
    BY <1>3, <1>4, <1>7
  <2> QED BY <1>8, <2>1
<1>10. PICK v \in Nat : v = b * k
  OBVIOUS
<1>11. z = 2 * v
  BY <1>2, <1>6, <1>10
<1>12. b * (2 * k + 1) = 2 * v + b
  BY <1>10
<1>13. v >= k
  <2>1. PICK e \in Nat : b = e + 1
    OBVIOUS
  <2>2. (e + 1) * k = e * k + k /\ e * k \in Nat
    OBVIOUS
  <2> QED BY <1>10, <2>1, <2>2
<1> QED BY <1>1, <1>9, <1>11, <1>12, <1>13

\* The plan of a cycle fits the budget and every row.
LEMMA PlanFits ==
  ASSUME IInv, RunFacts(HostState, Env, block_table), DraftFacts(HostState, draft_kv),
         NEW cap \in 1 .. ConfiguredK, NEW k, k = derive_speculative_effective_k(cap), k > 0
  PROVE  /\ k \in Nat \ {0} /\ k < MaxNumBatchedTokens
         /\ CatchupOf(HostState, Env) + Len(Env.rows) * (2 * k + 1) <= MaxNumBatchedTokens
         /\ \A s \in Range(Env.rows) :
              /\ Len(token_ids[s]) + k <= MaxModelLen
              /\ Len(token_ids[s]) + k < Len(request[s].prompt) + request[s].max_tokens
<1>1. Rows = Range(Env.rows) /\ scheduled_seqs = Env.rows /\ CatchupOf(HostState, Env) = draft_catchup_tokens
  BY HostIs, EnvIs DEF Rows, CatchupOf, draft_catchup_tokens
<1>2. CatchupOf(HostState, Env) \in Nat
  BY CatchupIsCount DEF DraftFacts
<1>3. Len(scheduled_seqs) \in Nat \ {0}
  BY <1>1, EmptySeq, LenProperties DEF RunFacts, EnvTypes
<1>4. PICK b \in Nat \ {0}, c \in Nat, M \in Nat :
        b = Len(scheduled_seqs) /\ c = draft_catchup_tokens /\ M = MaxNumBatchedTokens
  BY <1>1, <1>2, <1>3, Constants
<1>5. ConfiguredK \in Nat \ {0} /\ cap \in Nat
  BY SpeculationAssumption DEF SpeculationAssumption
<1>6. speculative_k_budget = AtLeastZero((M - c - b) \div (2 * b)) /\ speculative_k_budget \in Nat
  <2>1. speculative_k_budget = AtLeastZero((M - c - b) \div (2 * b))
    BY <1>4 DEF speculative_k_budget
  <2>2. (M - c - b) \div (2 * b) \in Int
    OBVIOUS
  <2> QED BY <2>1, <2>2 DEF AtLeastZero
<1>7. AtLeastZero(MaxNumBatchedTokens \div Len(scheduled_seqs) - 1) \in Nat
  <2>1. M \div b \in Int
    OBVIOUS
  <2> QED BY <1>4, <2>1 DEF AtLeastZero
<1>8. ASSUME NEW s \in Rows
      PROVE  /\ AtLeastZero(RemainingTokens(s) - 1) \in Nat
             /\ AtLeastZero(MaxModelLen - BM!num_tokens(s)) \in Nat
             /\ \A j \in Nat \ {0} : j <= AtLeastZero(RemainingTokens(s) - 1) =>
                  Len(token_ids[s]) + j < Len(request[s].prompt) + request[s].max_tokens
             /\ \A j \in Nat \ {0} : j <= AtLeastZero(MaxModelLen - BM!num_tokens(s)) =>
                  Len(token_ids[s]) + j <= MaxModelLen
  <2>1. /\ s \in Seqs /\ status[s] = "RUNNING" /\ Len(token_ids[s]) \in 1 .. MaxModelLen
        /\ MaxModelLen \in Nat
    BY <1>1, <1>8, RowFacts, HostIs, SchedulerAssumption DEF SchedulerAssumption
  <2>2. PICK n \in Nat, m \in Nat, x \in Nat :
          n = Len(token_ids[s]) /\ m = Len(request[s].prompt) /\ x = request[s].max_tokens /\ n >= m
          /\ Len(Completion(s)) = n - m
    BY <2>1, CompletionLen DEF IInv
  <2>3. RemainingTokens(s) = AtLeastZero(x - (n - m)) /\ BM!num_tokens(s) = n
    BY <2>2 DEF RemainingTokens, BM!num_tokens
  <2>4. PICK L \in Nat : L = MaxModelLen
    BY <2>1
  <2>5. /\ AtLeastZero(AtLeastZero(x - (n - m)) - 1) \in Nat
        /\ \A j \in Nat \ {0} : j <= AtLeastZero(AtLeastZero(x - (n - m)) - 1) => n + j < m + x
        /\ AtLeastZero(L - n) \in Nat
        /\ \A j \in Nat \ {0} : j <= AtLeastZero(L - n) => n + j <= L
    <3>1. n \in Nat /\ m \in Nat /\ x \in Nat /\ L \in Nat /\ n >= m
      BY <2>2
    <3>2. PICK y \in Nat : y = AtLeastZero(x - (n - m)) /\ (y > 0 => y = x - (n - m))
      BY <3>1 DEF AtLeastZero
    <3>3. PICK z \in Nat : z = AtLeastZero(y - 1) /\ (z > 0 => z = y - 1)
      BY <3>1 DEF AtLeastZero
    <3>4. PICK w \in Nat : w = AtLeastZero(L - n) /\ (w > 0 => w = L - n)
      BY <3>1 DEF AtLeastZero
    <3>5. \A j \in Nat \ {0} : (j <= z => n + j < m + x) /\ (j <= w => n + j <= L)
      BY <3>1, <3>2, <3>3, <3>4
    <3> QED BY <3>2, <3>3, <3>4, <3>5
  <2> QED BY <2>2, <2>3, <2>4, <2>5
<1> DEFINE S == {ConfiguredK, cap, speculative_k_budget,
                 AtLeastZero(MaxNumBatchedTokens \div Len(scheduled_seqs) - 1)}
                \cup {AtLeastZero(RemainingTokens(s) - 1) : s \in Rows}
                \cup {AtLeastZero(MaxModelLen - BM!num_tokens(s)) : s \in Rows}
<1>9. S \subseteq Nat /\ S # {}
  BY <1>5, <1>6, <1>7, <1>8
<1>10. k = Min(S)
  BY DEF derive_speculative_effective_k
<1>11. /\ speculative_k_budget \in S
       /\ \A s \in Rows : AtLeastZero(RemainingTokens(s) - 1) \in S
       /\ \A s \in Rows : AtLeastZero(MaxModelLen - BM!num_tokens(s)) \in S
  OBVIOUS
<1> HIDE DEF S
<1>12. k \in S /\ \A y \in S : k <= y
  BY <1>9, <1>10, MinIs
<1>13. k \in Nat \ {0}
  BY <1>9, <1>12
<1>14. k <= AtLeastZero((M - c - b) \div (2 * b))
  BY <1>6, <1>11, <1>12
<1>15. c + b * (2 * k + 1) <= M /\ k < M
  BY <1>13, <1>14, BudgetIs
<1>16. ASSUME NEW s \in Rows
       PROVE  /\ Len(token_ids[s]) + k <= MaxModelLen
              /\ Len(token_ids[s]) + k < Len(request[s].prompt) + request[s].max_tokens
  BY <1>8, <1>11, <1>12, <1>13
<1> QED BY <1>1, <1>4, <1>13, <1>15, <1>16

-----------------------------------------------------------------------------
(* The steps of a cycle *)

\* The phases are told apart.
LEMMA PhasesApart ==
  /\ \A x \in Cycling : x \notin Phases /\ x \notin Committing /\ x \notin Undoing
  /\ \A x \in Committing : x \notin Phases /\ x \notin Cycling /\ x \notin Undoing
  /\ \A x \in Undoing : x \notin Phases /\ x \notin Cycling /\ x \notin Committing
  BY DEF Cycling, Phases, Committing, Undoing

\* What users were given stays, when no token, request or status changes.
LEMMA StopStays ==
  ASSUME StopInv, UNCHANGED <<token_ids, request, status>>, undo = Nothing, undo' = Nothing
  PROVE  StopInv'
  BY DEF StopInv, Stops, Delivered, GivenStatus

\* A step within a cycle.
LEMMA CycleMade ==
  ASSUME mode' = mode, mode # "ordinary", CommonInv, phase' \in Cycling, row' = 0,
         targets' = targets, failures' \in 0 .. MaxFailures, effective_k' \in Nat, CycleInv', StopInv'
  PROVE  SInv'
<1>1. CycleFacts(HostState', Env', kv', draft_kv')
  BY DEF CycleInv
<1>2. TAP!AllocOK(HostState', kv')
  BY <1>1, LeaseAlloc DEF CycleFacts
<1>3. BMP!IInv'
  BY <1>2, AllocNext
<1>4. DraftFacts(HostState', draft_kv')
  BY <1>1 DEF CycleFacts
<1>5. row' \in 0 .. MaxNumSeqs
  BY Constants
<1>6. CommonInv'
  BY <1>3, <1>4, <1>5 DEF CommonInv
<1>7. PlainInv' /\ CommitInv' /\ UndoInv'
  BY PhasesApart DEF PlainInv, CommitInv, UndoInv
<1> QED BY <1>6, <1>7 DEF SInv

\* A pure decode batch, as a plain step leaves it.
LEMMA PlainBatch ==
  ASSUME SInv, phase = "run", ~ragged
  PROVE  /\ RunFacts(HostState, Env, block_table) /\ IInv /\ row = 0
         /\ reservation = TA!NoReservation /\ undo = Nothing
         /\ (effective_k = 0 <=> coverage = Nothing)
<1>1. phase \in Phases
  BY DEF Phases
<1>2. IInv /\ PlainFacts
  BY <1>1 DEF SInv, PlainInv
<1>3. row = 0
  BY <1>2 DEF IInv, QInv, BatchInv
<1> QED BY <1>1, <1>2, <1>3, RunIsBatch DEF SInv, PlainInv

\* plan_speculative_step reserves the blocks of a plan that fits.
LEMMA PlanKeeps ==
  ASSUME SInv, mode' = mode, mode # "ordinary", NEW cap \in 1 .. ConfiguredK, plan_speculative_step(cap)
  PROVE  SInv'
<1>1. PICK k : k = derive_speculative_effective_k(cap) /\ k > 0 /\ effective_k' = k
  BY DEF plan_speculative_step
<1>2. /\ phase = "run" /\ ~ragged /\ effective_k = 0
      /\ TA!reserve_temporary_append(scheduled_seqs, highest_target_write_position(k))
      /\ phase' \in {"prepare", "propose"} /\ (phase' = "prepare" <=> mode = "verified")
  BY <1>1 DEF plan_speculative_step
<1>3. /\ request' = request /\ status' = status /\ num_scheduled_tokens' = num_scheduled_tokens
      /\ is_prefill' = is_prefill /\ waiting' = waiting /\ running' = running
      /\ mid_chunk_seq' = mid_chunk_seq /\ scheduled_seqs' = scheduled_seqs
      /\ num_decodes' = num_decodes /\ num_batched_tokens' = num_batched_tokens /\ row' = row
      /\ targets' = targets /\ failures' = failures /\ coverage' = coverage /\ undo' = undo
  BY DEF plan_speculative_step, reqVars, rowVars, queueVars, stepVars
<1>4. /\ RunFacts(HostState, Env, block_table) /\ IInv /\ row = 0 /\ undo = Nothing
      /\ coverage = Nothing
  BY <1>2, PlainBatch
<1>5. DraftFacts(HostState, draft_kv) /\ BMP!IInv /\ CommonInv /\ StopInv
  BY DEF SInv, CommonInv
<1>6. /\ k \in Nat \ {0} /\ k < MaxNumBatchedTokens
      /\ CatchupOf(HostState, Env) + Len(Env.rows) * (2 * k + 1) <= MaxNumBatchedTokens
      /\ \A s \in Range(Env.rows) :
           /\ Len(token_ids[s]) + k <= MaxModelLen
           /\ Len(token_ids[s]) + k < Len(request[s].prompt) + request[s].max_tokens
  BY <1>1, <1>4, <1>5, PlanFits
<1>7. TAP!reserve_temporary_append(scheduled_seqs, highest_target_write_position(k))
  BY <1>2, SameReservation
<1>8. /\ token_ids' = token_ids /\ num_cached_tokens' = num_cached_tokens /\ kv' = kv
      /\ num_draft_cached_tokens' = num_draft_cached_tokens /\ draft_kv' = draft_kv
  BY <1>7 DEF TAP!reserve_temporary_append
<1>9. /\ scheduled_seqs \in Seq(Seqs) /\ scheduled_seqs # <<>> /\ IsInjective(scheduled_seqs)
      /\ scheduled_seqs = Env.rows
  BY <1>4, EnvIs DEF RunFacts, EnvTypes
<1>10. PICK h : h = highest_target_write_position(k) /\ \A s \in Range(scheduled_seqs) :
                  h[s] \in Nat /\ h[s] = Len(token_ids[s]) + k - 1 /\ Len(token_ids[s]) \in Nat
  <2>1. ASSUME NEW s \in Range(scheduled_seqs)
        PROVE  /\ highest_target_write_position(k)[s] = Len(token_ids[s]) + k - 1
               /\ Len(token_ids[s]) \in Nat /\ Len(token_ids[s]) + k - 1 \in Nat
    <3>1. Len(token_ids[s]) \in 1 .. MaxModelLen
      BY <1>4, <1>9, RowFacts, HostIs
    <3> QED BY <1>6, <3>1 DEF highest_target_write_position, Rows, BM!num_tokens
  <2> QED BY <2>1
<1>11. TAP!IInv /\ TAP!IsInjective(scheduled_seqs) /\ TAP!Range(scheduled_seqs) = Range(scheduled_seqs)
  BY <1>5, <1>9, AllocIs, HostIs, ReservationAssumption, TAP!CurrentOK
     DEF TAP!BlockManagerAssumption, TAP!IsInjective, IsInjective, TAP!Range, Range
<1>12. PICK J : J = HostState'
  OBVIOUS
<1>13. TAP!IsNext(J)
  BY <1>12, HostNext
<1>14. /\ TAP!Lease(J, kv')
       /\ J.reservation.rows = scheduled_seqs
       /\ TAP!Before(J).tables = block_table
       /\ \A s \in Range(scheduled_seqs) : h[s] < BlockSize * Len(J.tables[s])
  BY <1>7, <1>9, <1>10, <1>11, <1>13, ReservationAssumption, TAP!ReserveKeeps
     DEF TAP!BlockManagerAssumption
<1>15. SameRows(HostState, J) /\ J.draft = HostState.draft /\ J.tokens = token_ids
  BY <1>3, <1>8, <1>12, HostIs, HostNext DEF SameRows
<1>16. RunFacts(J, Env, block_table)
  BY <1>4, <1>15, RunSame
<1>17. Env' = Env
  BY <1>3, EnvStays
<1>18. TAP!AllocOK(HostState, kv) /\ TAP!AllocOK(J, kv)
  BY <1>5, <1>8, <1>14, AllocIs, LeaseAlloc
<1>19. \A s \in Seqs : \A i \in 1 .. Len(HostState.tables[s]) :
         i <= Len(J.tables[s]) => J.tables[s][i] = HostState.tables[s][i]
  <2> SUFFICES ASSUME NEW s \in Seqs, NEW i \in 1 .. Len(block_table[s])
               PROVE  J.tables[s][i] = block_table[s][i]
    BY HostIs
  <2>1. PICK a \in Seq(BM!Blocks) : J.tables[s] = block_table[s] \o a
    <3>1. TAP!Grown(TAP!Before(J), J, TAP!Borrowed(J), TAP!BorrowedBy(J))
      BY <1>14 DEF TAP!Lease
    <3>2. /\ J.tables[s] = TAP!Before(J).tables[s] \o TAP!BorrowedBy(J)[s]
          /\ TAP!BorrowedBy(J)[s] \in Seq(TAP!Blocks)
      BY <3>1 DEF TAP!Grown
    <3> QED BY <1>14, <3>2 DEF TAP!Blocks, BM!Blocks
  <2>2. block_table[s] \in Seq(BM!Blocks)
    BY <1>18, AllocFacts, HostIs
  <2> QED BY <2>1, <2>2
<1>20. DraftFacts(J, draft_kv)
  BY <1>5, <1>15, <1>18, <1>19, DraftKept DEF SameRows
<1>21. CycleFacts(J, Env, kv', draft_kv')
  BY <1>8, <1>9, <1>14, <1>16, <1>20 DEF CycleFacts
<1>22. BudgetFacts(J, Env, k)
  <2>1. CatchupOf(J, Env) = CatchupOf(HostState, Env)
    BY <1>15 DEF SameRows, CatchupOf
  <2>2. ASSUME NEW s \in Range(Env.rows)
        PROVE  /\ Len(J.tokens[s]) + k <= MaxModelLen
               /\ Len(J.tokens[s]) + k < Len(Env.request[s].prompt) + Env.request[s].max_tokens
               /\ Len(J.tokens[s]) + k <= BlockSize * Len(J.tables[s])
    <3>1. h[s] < BlockSize * Len(J.tables[s]) /\ h[s] = Len(token_ids[s]) + k - 1 /\ Len(token_ids[s]) \in Nat
      BY <1>9, <1>10, <1>14
    <3>2. Len(J.tables[s]) \in Nat
      <4>1. s \in Seqs
        BY <1>4, <2>2, RowFacts
      <4> QED BY <1>18, <4>1, AllocFacts
    <3>3. PICK x \in Nat : x = BlockSize * Len(J.tables[s])
      BY <3>2, Constants
    <3>4. Len(token_ids[s]) + k <= x
      BY <1>6, <3>1, <3>3
    <3> QED BY <1>6, <1>15, <3>3, <3>4, EnvIs
  <2> QED BY <1>6, <2>1, <2>2 DEF BudgetFacts
<1>23. CycleInv'
  <2>1. CycleFacts(HostState', Env', kv', draft_kv') /\ BudgetFacts(HostState', Env', effective_k')
    BY <1>1, <1>12, <1>17, <1>21, <1>22
  <2>2. coverage' = Nothing /\ undo' = Nothing
    BY <1>3, <1>4
  <2>3. /\ ~(phase' \in {"propose", "verify", "accept"} /\ mode' = "verified")
        /\ phase' \in {"prepare", "verify", "accept"} => mode' = "verified"
        /\ phase' \notin {"verify", "handoff"} /\ phase' # "accept"
    BY <1>2
  <2> QED BY <2>1, <2>2, <2>3 DEF CycleInv
<1>24. StopInv'
  BY <1>3, <1>4, <1>5, <1>8, StopStays
<1>25. phase' \in Cycling /\ effective_k' \in Nat /\ failures' \in 0 .. MaxFailures
  BY <1>1, <1>2, <1>3, <1>5, <1>6 DEF Cycling, CommonInv
<1> QED BY <1>3, <1>4, <1>5, <1>23, <1>24, <1>25, CycleMade

\* prepare_speculative_target_writes forgets the hashes of the borrowed blocks.
LEMMA PrepareStays ==
  ASSUME SInv, mode' = mode, mode # "ordinary", prepare_speculative_target_writes
  PROVE  SInv'
<1>1. /\ phase = "prepare" /\ TA!prepare_temporary_target_writes /\ phase' = "propose"
  BY DEF prepare_speculative_target_writes
<1>2. /\ request' = request /\ status' = status /\ num_scheduled_tokens' = num_scheduled_tokens
      /\ is_prefill' = is_prefill /\ waiting' = waiting /\ running' = running
      /\ mid_chunk_seq' = mid_chunk_seq /\ scheduled_seqs' = scheduled_seqs
      /\ num_decodes' = num_decodes /\ num_batched_tokens' = num_batched_tokens /\ row' = row
      /\ targets' = targets /\ failures' = failures /\ coverage' = coverage /\ undo' = undo
      /\ effective_k' = effective_k
  BY DEF prepare_speculative_target_writes, reqVars, rowVars, queueVars, stepVars, cycleVars
<1>3. phase \in Cycling /\ CommonInv /\ StopInv
  BY <1>1 DEF Cycling, SInv
<1>4. /\ CycleFacts(HostState, Env, kv, draft_kv) /\ BudgetFacts(HostState, Env, effective_k)
      /\ coverage = Nothing /\ undo = Nothing
  BY <1>3 DEF SInv, CycleInv
<1>5. TAP!prepare_temporary_target_writes
  BY <1>1, SameReservation
<1>6. /\ token_ids' = token_ids /\ block_table' = block_table /\ num_cached_tokens' = num_cached_tokens
      /\ kv' = kv /\ num_draft_cached_tokens' = num_draft_cached_tokens /\ draft_kv' = draft_kv
  BY <1>5 DEF TAP!prepare_temporary_target_writes, TAP!bmVars, TAP!seqVars
<1>7. PICK J : J = HostState'
  OBVIOUS
<1>8. TAP!IsNext(J) /\ TAP!IsNow(HostState) /\ TAP!Lease(HostState, kv)
  BY <1>4, <1>7, HostNext, HostNow DEF CycleFacts
<1>9. /\ TAP!Lease(J, kv') /\ TAP!Unhashed(J)
      /\ J.reservation.rows = HostState.reservation.rows
      /\ TAP!Before(J).tables = TAP!Before(HostState).tables
  BY <1>5, <1>8, ReservationAssumption, TAP!PrepareKeeps DEF TAP!BlockManagerAssumption
<1>10. SameCover(HostState, J) /\ Env' = Env
  BY <1>2, <1>6, <1>7, HostIs, HostNext, EnvStays DEF SameCover, SameRows
<1>11. RunFacts(J, Env, TAP!Before(J).tables)
  BY <1>4, <1>9, <1>10, RunSame DEF CycleFacts, SameCover
<1>12. DraftFacts(J, draft_kv') /\ BudgetFacts(J, Env, effective_k)
  BY <1>4, <1>6, <1>10, CoverSame DEF CycleFacts
<1>13. CycleFacts(J, Env, kv', draft_kv')
  BY <1>4, <1>9, <1>11, <1>12 DEF CycleFacts
<1>14. CycleInv'
  BY <1>1, <1>2, <1>4, <1>7, <1>9, <1>10, <1>12, <1>13 DEF CycleInv
<1>15. StopInv'
  BY <1>2, <1>3, <1>4, <1>6, StopStays
<1>16. /\ phase' \in Cycling /\ effective_k' \in Nat /\ failures' \in 0 .. MaxFailures /\ row' = 0
  BY <1>1, <1>2, <1>3 DEF Cycling, CommonInv
<1> QED BY <1>2, <1>3, <1>14, <1>15, <1>16, CycleMade

-----------------------------------------------------------------------------
(* The draft and the verifier pass *)

\* Catching up and proposing compute a whole range of positions.
LEMMA DraftPositionsAre ==
  ASSUME RunFacts(HostState, Env, TAP!Before(HostState).tables), DraftFacts(HostState, draft_kv),
         effective_k \in Nat, NEW s \in Rows
  PROVE  DraftPositions(s) = num_draft_cached_tokens[s] .. Len(token_ids[s]) - 2 + effective_k
<1>1. PICK n \in Nat \ {0}, a \in Nat, k \in Nat :
        n = Len(token_ids[s]) /\ a = num_draft_cached_tokens[s] /\ k = effective_k /\ a <= n - 1
  <2>1. /\ s \in Seqs /\ Len(token_ids[s]) \in Nat \ {0}
        /\ num_cached_tokens[s] = Len(token_ids[s]) - 1
    <3>1. s \in Range(Env.rows)
      BY EnvIs DEF Rows
    <3>2. /\ s \in Seqs /\ Len(HostState.tokens[s]) \in 1 .. MaxModelLen
          /\ HostState.cached[s] = Len(HostState.tokens[s]) - 1
      BY <3>1, RowFacts
    <3>3. \A x : x \in 1 .. MaxModelLen => x \in Nat \ {0}
      OBVIOUS
    <3> QED BY <3>2, <3>3, HostIs
  <2>2. num_draft_cached_tokens[s] \in Nat /\ num_draft_cached_tokens[s] <= num_cached_tokens[s]
    BY <2>1, HostIs DEF DraftFacts
  <2> QED BY <2>1, <2>2
<1>2. missing(s) = n - 1 - a /\ \A i \in Int : DraftPosition(s, i) = n - 1 + i
  BY <1>1 DEF missing, DraftPosition, BM!num_tokens
<1>3. {DraftPosition(s, i) : i \in 0 .. effective_k - 1} = n - 1 .. n - 2 + k
  <2>1. \A i \in 0 .. k - 1 : DraftPosition(s, i) = n - 1 + i
    BY <1>2
  <2>2. ASSUME NEW p \in n - 1 .. n - 2 + k
        PROVE  p \in {DraftPosition(s, i) : i \in 0 .. k - 1}
    <3>1. PICK i \in 0 .. k - 1 : i = p - (n - 1)
      OBVIOUS
    <3>2. DraftPosition(s, i) = p
      BY <2>1, <3>1
    <3> QED BY <3>2
  <2>3. ASSUME NEW i \in 0 .. k - 1 PROVE n - 1 + i \in n - 1 .. n - 2 + k
    OBVIOUS
  <2> QED BY <1>1, <2>1, <2>2, <2>3
<1>4. CatchupPositions(s) = a .. n - 2
  <2>1. CASE \A r \in Rows : missing(r) <= 1
    <3>1. n - 1 - a <= 1
      BY <1>2, <2>1
    <3>2. CatchupPositions(s) = {p \in {DraftPosition(s, 0 - 1)} : missing(s) = 1}
      BY <2>1 DEF CatchupPositions
    <3>3. CatchupPositions(s) = {p \in {n - 2} : n - 1 - a = 1}
      BY <1>2, <3>2
    <3>4. CASE a = n - 1
      BY <3>3, <3>4
    <3>5. CASE a = n - 2
      BY <3>3, <3>5
    <3> QED BY <1>1, <3>1, <3>4, <3>5
  <2>2. CASE ~(\A r \in Rows : missing(r) <= 1)
    BY <1>1, <2>2 DEF CatchupPositions, BM!num_tokens
  <2> QED BY <2>1, <2>2
<1>5. (a .. n - 2) \cup (n - 1 .. n - 2 + k) = a .. n - 2 + k
  BY <1>1
<1> QED BY <1>1, <1>3, <1>4, <1>5 DEF DraftPositions

\* The slots of a row reach every position it computes.
LEMMA PassIsOver ==
  ASSUME NEW H, RunFacts(H, Env, TAP!Before(H).tables), TAP!AllocOK(H, kv),
         BudgetFacts(H, Env, effective_k), NEW q \in [Range(Env.rows) -> Seq(Token)],
         \A s \in Range(Env.rows) : Len(q[s]) = effective_k,
         NEW at, DOMAIN at = Range(Env.rows),
         \A s \in Range(Env.rows) : at[s] \subseteq 0 .. Len(H.tokens[s]) + effective_k - 1,
         NEW text, \A s \in Range(Env.rows) : text[s] = H.tokens[s] \o q[s]
  PROVE  TAP!PassOver(H, at, text)
<1>1. Range(Env.rows) \subseteq Seqs
  BY RangeIs DEF RunFacts, EnvTypes
<1>2. ASSUME NEW s \in Range(Env.rows)
      PROVE  /\ text[s] \in Seq(Token)
             /\ \A k \in 0 .. Len(H.tokens[s]) : SubSeq(text[s], 1, k) = SubSeq(H.tokens[s], 1, k)
             /\ at[s] \subseteq Nat
             /\ \A p \in at[s] : p < Len(text[s]) /\ p < BlockSize * Len(H.tables[s])
  <2>1. H.tokens[s] \in Seq(Token) /\ Len(H.tokens[s]) \in Nat /\ q[s] \in Seq(Token)
    <3>1. H.tokens[s] \in Seq(Token)
      BY RowFacts
    <3> QED BY <3>1, LenProperties
  <2>2. text[s] \in Seq(Token) /\ Len(text[s]) = Len(H.tokens[s]) + effective_k
    <3>1. text[s] = H.tokens[s] \o q[s] /\ Len(q[s]) = effective_k
      BY <1>2
    <3>2. \A x \in Seq(Token), y \in Seq(Token) : x \o y \in Seq(Token) /\ Len(x \o y) = Len(x) + Len(y)
      OBVIOUS
    <3> QED BY ONLY <2>1, <3>1, <3>2
  <2>3. \A k \in 0 .. Len(H.tokens[s]) : SubSeq(text[s], 1, k) = SubSeq(H.tokens[s], 1, k)
    BY <2>1, ReservationAssumption, TAP!PrefixOfText DEF TAP!BlockManagerAssumption
  <2>4. effective_k \in Nat /\ Len(H.tokens[s]) + effective_k <= BlockSize * Len(H.tables[s])
    BY DEF BudgetFacts
  <2>5. PICK n \in Nat, k \in Nat : n = Len(H.tokens[s]) /\ k = effective_k /\ Len(text[s]) = n + k
    BY <2>1, <2>2, <2>4
  <2>6. ASSUME NEW p \in at[s] PROVE p \in Nat /\ p < Len(text[s]) /\ p < BlockSize * Len(H.tables[s])
    <3>1. p \in 0 .. n + k - 1
      BY <2>5, <2>6
    <3>2. BlockSize * Len(H.tables[s]) \in Int
      BY <1>1, AllocFacts, Constants
    <3>3. PICK z \in Int : z = BlockSize * Len(H.tables[s]) /\ n + k <= z
      BY ONLY <2>4, <2>5, <3>2
    <3>4. p \in Nat /\ p < n + k /\ p < z
      BY ONLY <3>1, <3>3, n \in Nat, k \in Nat
    <3> QED BY ONLY <2>5, <3>3, <3>4
  <2> QED BY <2>2, <2>3, <2>6
<1> QED BY <1>1, <1>2 DEF TAP!PassOver

\* What a cache holds.
Caches == [BM!Blocks -> [0 .. BlockSize - 1 -> Seq(Token)]]

\* What a pass leaves where a table leads.
LEMMA PassLeaves ==
  ASSUME TAP!AllocOK(HostState, kv), NEW at, NEW text, TAP!PassOver(HostState, at, text),
         NEW c \in Caches, NEW m, m = TA!Stored(c, at, text)
  PROVE  m \in Caches /\ TAP!PassLeft(HostState, at, text, c, m)
<1>1. m = TAP!Stored(c, at, text) /\ HostState.tables = block_table
  BY SameReservation, HostIs
<1>2. c \in [TAP!Blocks -> [0 .. BlockSize - 1 -> Seq(Token)]]
  BY DEF TAP!Blocks, BM!Blocks, Caches
<1>3. m \in Caches
  <2>1. m \in [TAP!Blocks -> [0 .. BlockSize - 1 -> Seq(Token)]]
    BY <1>1, <1>2, ReservationAssumption, TAP!StoredSlot DEF TAP!BlockManagerAssumption
  <2> QED BY <2>1 DEF TAP!Blocks, BM!Blocks, Caches
<1>4. PICK H : H = HostState
  OBVIOUS
<1>5. TAP!AllocOK(H, kv) /\ TAP!PassOver(H, at, text) /\ H.tables = block_table
  BY <1>1, <1>4
<1>7. TAP!PassLeft(H, at, text, c, m)
  BY <1>1, <1>2, <1>5, ReservationAssumption, TAP!PassLeaves DEF TAP!BlockManagerAssumption
<1> QED BY <1>3, <1>4, <1>7

\* A run of proposals is a sequence of tokens.
LEMMA ProposalSeqs ==
  ASSUME NEW k \in Nat, NEW f \in [1 .. k -> Token]
  PROVE  f \in Seq(Token) /\ Len(f) = k
  BY IsASeq, LenProperties

\* Positions below the cached tokens, and those of a row up to its last proposal, have slots.
LEMMA SlotsReach ==
  ASSUME TAP!AllocOK(HostState, kv), NEW t \in Seqs
  PROVE  /\ \A p \in 0 .. num_cached_tokens[t] - 1 : p \in Nat /\ p < BlockSize * Len(block_table[t])
         /\ \A n \in Nat : n <= BlockSize * Len(block_table[t]) =>
              \A p \in 0 .. n - 1 : p \in Nat /\ p < BlockSize * Len(block_table[t])
<1>1. PICK x \in Nat, c \in Nat : x = BlockSize * Len(block_table[t]) /\ c = num_cached_tokens[t] /\ c <= x
  <2>1. /\ Len(block_table[t]) \in Nat /\ num_cached_tokens[t] \in Nat
        /\ num_cached_tokens[t] <= BlockSize * Len(block_table[t])
    BY AllocFacts, HostIs
  <2>2. BlockSize * Len(block_table[t]) \in Nat
    BY <2>1, Constants
  <2> QED BY <2>1, <2>2
<1> QED BY <1>1

\* The draft passes leave the draft cache with the row and all proposals but the last.
LEMMA DraftPass ==
  ASSUME CycleFacts(HostState, Env, kv, draft_kv), BudgetFacts(HostState, Env, effective_k),
         NEW d \in Proposals, NEW m, m = DraftStored(d)
  PROVE  DraftFacts(HostState, m) /\ DraftedFacts(HostState, Env, effective_k, m, d)
<1>1. /\ RunFacts(HostState, Env, TAP!Before(HostState).tables) /\ DraftFacts(HostState, draft_kv)
      /\ TAP!AllocOK(HostState, kv)
  BY LeaseAlloc DEF CycleFacts
<1>2. PICK k \in Nat \ {0} : k = effective_k
  BY DEF BudgetFacts
<1>3. Rows = Range(Env.rows) /\ Rows \subseteq Seqs
  BY <1>1, EnvIs, RangeIs DEF Rows, RunFacts, EnvTypes
<1>4. d \in [Rows -> [1 .. k -> Token]]
  BY <1>2 DEF Proposals
<1>5. d \in [Rows -> Seq(Token)] /\ \A s \in Rows : Len(d[s]) = k
  <2>1. \A s \in Rows : d[s] \in Seq(Token) /\ Len(d[s]) = k
    BY <1>4, ProposalSeqs
  <2> QED BY <1>4, <2>1
<1>6. PICK at : at = [s \in Rows |-> DraftPositions(s)]
  OBVIOUS
<1>7. PICK text : text = [s \in Rows |-> Drafted(s, d)]
  OBVIOUS
<1>8. ASSUME NEW s \in Rows
      PROVE  /\ s \in Seqs /\ text[s] = token_ids[s] \o d[s]
             /\ at[s] = num_draft_cached_tokens[s] .. Len(token_ids[s]) - 2 + k
             /\ Len(token_ids[s]) \in Nat \ {0} /\ num_draft_cached_tokens[s] \in Nat
             /\ num_draft_cached_tokens[s] <= Len(token_ids[s]) - 1
             /\ Len(token_ids[s]) - 1 + k <= BlockSize * Len(block_table[s])
             /\ token_ids[s] \in Seq(Token)
  <2>1. /\ s \in Seqs /\ token_ids[s] \in Seq(Token) /\ Len(token_ids[s]) \in 1 .. MaxModelLen
        /\ num_cached_tokens[s] = Len(token_ids[s]) - 1
    BY <1>1, <1>3, RowFacts, HostIs
  <2>2. num_draft_cached_tokens[s] \in Nat /\ num_draft_cached_tokens[s] <= num_cached_tokens[s]
    BY <1>1, <2>1, HostIs DEF DraftFacts
  <2>3. Len(token_ids[s]) + k <= BlockSize * Len(block_table[s])
    BY <1>2, <1>3, HostIs DEF BudgetFacts
  <2>4. Len(block_table[s]) \in Nat
    BY <1>1, <2>1, AllocFacts, HostIs
  <2>5. PICK x \in Nat, n \in Nat \ {0} : x = BlockSize * Len(block_table[s]) /\ n = Len(token_ids[s])
    BY <2>1, <2>4, Constants
  <2>6. n - 1 + k <= x
    BY <2>3, <2>5
  <2>7. at[s] = num_draft_cached_tokens[s] .. Len(token_ids[s]) - 2 + k
    BY <1>1, <1>2, <1>6, DraftPositionsAre
  <2>8. text[s] = token_ids[s] \o d[s]
    BY <1>7 DEF Drafted
  <2> QED BY <2>1, <2>2, <2>5, <2>6, <2>7, <2>8
<1>9. TAP!PassOver(HostState, at, text)
  <2>1. DOMAIN at = Range(Env.rows)
    BY <1>3, <1>6
  <2>2. \A s \in Range(Env.rows) : text[s] = HostState.tokens[s] \o d[s]
    BY <1>3, <1>8, HostIs
  <2>3. ASSUME NEW s \in Range(Env.rows)
        PROVE  at[s] \subseteq 0 .. Len(HostState.tokens[s]) + effective_k - 1
    <3>1. PICK n \in Nat \ {0}, a \in Nat :
            n = Len(token_ids[s]) /\ a = num_draft_cached_tokens[s] /\ at[s] = a .. n - 2 + k
      BY <1>3, <1>8
    <3>2. a .. n - 2 + k \subseteq 0 .. n + k - 1
      BY <3>1
    <3> QED BY <1>2, <3>1, <3>2, HostIs
  <2> QED BY <1>1, <1>2, <1>3, <1>5, <2>1, <2>2, <2>3, PassIsOver
<1>10. m = TA!Stored(draft_kv, at, text) /\ draft_kv \in [BM!Blocks -> [0 .. BlockSize - 1 -> Seq(Token)]]
  BY <1>1, <1>6, <1>7 DEF DraftStored, DraftFacts
<1>11. m \in Caches /\ TAP!PassLeft(HostState, at, text, draft_kv, m)
  <2>1. draft_kv \in Caches
    BY <1>10 DEF Caches
  <2> QED BY <1>1, <1>9, <1>10, <2>1, PassLeaves
<1>16. ASSUME NEW t \in Seqs, NEW p \in Nat, p < BlockSize * Len(block_table[t])
       PROVE  TAP!SlotLeft(at, text, draft_kv, m, token_ids[t], num_cached_tokens[t], t,
                       block_table[t][p \div BlockSize + 1], p % BlockSize, p)
  BY <1>11, <1>16, HostIs DEF TAP!PassLeft
<1>12. ASSUME NEW t \in Seqs, NEW p \in 0 .. num_draft_cached_tokens[t] - 1
       PROVE  m[block_table[t][p \div BlockSize + 1]][p % BlockSize] = SubSeq(token_ids[t], 1, p + 1)
  <2>1. draft_kv[block_table[t][p \div BlockSize + 1]][p % BlockSize] = SubSeq(token_ids[t], 1, p + 1)
    BY <1>1, <1>12, HostIs DEF DraftFacts, HeldIn
  <2>2. p \in Nat /\ p < BlockSize * Len(block_table[t]) /\ p < num_draft_cached_tokens[t]
    <3>1. PICK a \in Nat, c \in Nat : a = num_draft_cached_tokens[t] /\ c = num_cached_tokens[t] /\ a <= c
      BY <1>1, HostIs, AllocFacts DEF DraftFacts
    <3>2. p \in 0 .. c - 1 /\ p < a
      BY <1>12, <3>1
    <3> QED BY <1>1, <3>1, <3>2, SlotsReach
  <2>3. ~(t \in DOMAIN at /\ p \in at[t])
    <3> SUFFICES ASSUME t \in Rows, p \in at[t] PROVE FALSE
      BY <1>6
    <3>1. at[t] = num_draft_cached_tokens[t] .. Len(token_ids[t]) - 2 + k
      BY <1>8
    <3>2. PICK a \in Nat, n \in Nat : a = num_draft_cached_tokens[t] /\ n = Len(token_ids[t])
      BY <1>8
    <3>3. p \in a .. n - 2 + k /\ p < a
      BY <2>2, <3>1, <3>2
    <3> QED BY <3>2, <3>3
  <2>4. TAP!SlotLeft(at, text, draft_kv, m, token_ids[t], num_cached_tokens[t], t,
                 block_table[t][p \div BlockSize + 1], p % BlockSize, p)
    BY <1>16, <2>2
  <2> QED BY <2>1, <2>3, <2>4 DEF TAP!SlotLeft
<1>13. DraftFacts(HostState, m)
  BY <1>1, <1>11, <1>12, HostIs DEF DraftFacts, HeldIn, Caches
<1>14. ASSUME NEW s \in Rows, NEW p \in 0 .. Len(token_ids[s]) - 1 + k - 1
       PROVE  m[block_table[s][p \div BlockSize + 1]][p % BlockSize] = SubSeq(token_ids[s] \o d[s], 1, p + 1)
  <2>1. PICK n \in Nat \ {0}, a \in Nat :
          /\ n = Len(token_ids[s]) /\ a = num_draft_cached_tokens[s] /\ a <= n - 1
          /\ at[s] = a .. n - 2 + k /\ n - 1 + k <= BlockSize * Len(block_table[s])
    BY <1>8
  <2>2. CASE p < a
    <3>1. p \in 0 .. num_draft_cached_tokens[s] - 1 /\ p + 1 \in 0 .. n
      BY <1>14, <2>1, <2>2
    <3>2. SubSeq(token_ids[s] \o d[s], 1, p + 1) = SubSeq(token_ids[s], 1, p + 1)
      BY <1>5, <1>8, <2>1, <3>1, ReservationAssumption, TAP!PrefixOfText DEF TAP!BlockManagerAssumption
    <3> QED BY <1>8, <1>12, <3>1, <3>2
  <2>3. CASE p >= a
    <3>1. p \in a .. n - 2 + k /\ p \in 0 .. (n - 1 + k) - 1
      BY <1>14, <2>1, <2>3
    <3>2. p \in Nat /\ p < BlockSize * Len(block_table[s])
      <4>1. n - 1 + k \in Nat
        OBVIOUS
      <4> QED BY <1>1, <1>8, <2>1, <3>1, <4>1, SlotsReach
    <3>3. s \in DOMAIN at /\ p \in at[s]
      BY <1>6, <2>1, <3>1
    <3>4. TAP!SlotLeft(at, text, draft_kv, m, token_ids[s], num_cached_tokens[s], s,
                   block_table[s][p \div BlockSize + 1], p % BlockSize, p)
      BY <1>8, <1>16, <3>2
    <3> QED BY <1>8, <3>3, <3>4 DEF TAP!SlotLeft
  <2>4. p \in 0 .. n - 1 + k - 1
    BY <1>14, <2>1
  <2>5. p \in Int
    BY <2>4
  <2>6. p < a \/ p >= a
    BY <2>1, <2>5
  <2> QED BY <2>2, <2>3, <2>6
<1>15. DraftedFacts(HostState, Env, effective_k, m, d)
  <2>1. ASSUME NEW s \in Rows PROVE HeldIn(block_table[s], m, Len(token_ids[s]) - 1 + k, token_ids[s] \o d[s])
    <3>1. PICK n \in Nat : n = Len(token_ids[s])
      BY <1>8
    <3>5. n - 1 + k \in Int
      BY <1>2, <3>1
    <3>2. PICK N \in Int : N = Len(token_ids[s]) - 1 + k
      BY <3>1, <3>5
    <3>3. ASSUME NEW p \in 0 .. N - 1
          PROVE  m[block_table[s][p \div BlockSize + 1]][p % BlockSize] = SubSeq(token_ids[s] \o d[s], 1, p + 1)
      <4>1. p \in 0 .. Len(token_ids[s]) - 1 + k - 1
        BY <3>2
      <4> QED BY <1>14, <4>1
    <3>4. HeldIn(block_table[s], m, N, token_ids[s] \o d[s])
      BY ONLY <3>3 DEF HeldIn
    <3> QED BY ONLY <3>2, <3>4
  <2>2. \A s \in Range(Env.rows) :
          HeldIn(HostState.tables[s], m, Len(HostState.tokens[s]) - 1 + effective_k, HostState.tokens[s] \o d[s])
    BY <1>2, <1>3, <2>1, HostIs
  <2>3. d \in [Range(Env.rows) -> [1 .. effective_k -> Token]]
    BY <1>2, <1>3, <1>4
  <2> QED BY <2>2, <2>3 DEF DraftedFacts
<1> QED BY <1>13, <1>15

-----------------------------------------------------------------------------
(* The steps that compute *)

\* A step that changes nothing that a cycle keeps but the caches.
LEMMA PassStays ==
  ASSUME UNCHANGED <<free_block_ids, used_block_ids, ref_count, block_hash, hash_to_block_id,
                     token_ids, block_table, num_cached_tokens, reqVars, rowVars, queueVars, stepVars,
                     num_draft_cached_tokens, reservation>>
  PROVE  /\ HostState' = HostState /\ Env' = Env /\ row' = row
         /\ token_ids' = token_ids /\ request' = request /\ status' = status
<1>1. /\ free_block_ids' = free_block_ids /\ used_block_ids' = used_block_ids
      /\ ref_count' = ref_count /\ block_hash' = block_hash /\ hash_to_block_id' = hash_to_block_id
      /\ token_ids' = token_ids /\ block_table' = block_table /\ num_cached_tokens' = num_cached_tokens
      /\ num_draft_cached_tokens' = num_draft_cached_tokens /\ reservation' = reservation
  OBVIOUS
<1>2. /\ request' = request /\ status' = status /\ num_scheduled_tokens' = num_scheduled_tokens
      /\ is_prefill' = is_prefill /\ waiting' = waiting /\ running' = running
      /\ mid_chunk_seq' = mid_chunk_seq /\ scheduled_seqs' = scheduled_seqs
      /\ num_decodes' = num_decodes /\ num_batched_tokens' = num_batched_tokens /\ row' = row
  BY DEF reqVars, rowVars, queueVars, stepVars
<1>3. HostState' = HostState
  BY <1>1, <1>2, HostStays
<1>4. Env' = Env
  BY <1>2, EnvStays
<1> QED BY <1>1, <1>2, <1>3, <1>4

\* The draft model proposes.
LEMMA ProposeKeeps ==
  ASSUME SInv, mode' = mode, mode # "ordinary", NEW d \in Proposals, execute_draft_proposals(d)
  PROVE  SInv'
<1>1. /\ phase = "propose" /\ draft_kv' = DraftStored(d) /\ proposals' = d /\ kv' = kv
      /\ phase' \in {"verify", "handoff"} /\ (phase' = "verify" <=> mode = "verified")
      /\ targets' = targets /\ failures' = failures /\ coverage' = coverage /\ undo' = undo
      /\ effective_k' = effective_k
  BY DEF execute_draft_proposals, bmVars, BM!bmVars, BM!seqVars, cycleVars
<1>2. /\ HostState' = HostState /\ Env' = Env /\ row' = row
      /\ token_ids' = token_ids /\ request' = request /\ status' = status
  <2>1. UNCHANGED <<free_block_ids, used_block_ids, ref_count, block_hash, hash_to_block_id,
                    token_ids, block_table, num_cached_tokens, reqVars, rowVars, queueVars, stepVars,
                    num_draft_cached_tokens, reservation>>
    BY DEF execute_draft_proposals, bmVars
  <2> QED BY <2>1, PassStays
<1>3. phase \in Cycling /\ CommonInv /\ StopInv
  BY <1>1 DEF Cycling, SInv
<1>4. /\ CycleFacts(HostState, Env, kv, draft_kv) /\ BudgetFacts(HostState, Env, effective_k)
      /\ coverage = Nothing /\ undo = Nothing
      /\ (mode = "verified" => TAP!Unhashed(HostState))
  BY <1>1, <1>3 DEF SInv, CycleInv
<1>5. DraftFacts(HostState, draft_kv') /\ DraftedFacts(HostState, Env, effective_k, draft_kv', d)
  BY <1>1, <1>4, DraftPass
<1>6. CycleFacts(HostState, Env, kv', draft_kv')
  BY <1>1, <1>4, <1>5 DEF CycleFacts
<1>7. CycleInv'
  <2>1. /\ CycleFacts(HostState', Env', kv', draft_kv') /\ BudgetFacts(HostState', Env', effective_k')
        /\ coverage' = Nothing /\ undo' = Nothing
        /\ (mode' = "verified" => TAP!Unhashed(HostState'))
        /\ DraftedFacts(HostState', Env', effective_k', draft_kv', proposals')
    BY <1>1, <1>2, <1>4, <1>5, <1>6
  <2>2. phase' # "accept" /\ (phase' \in {"prepare", "verify", "accept"} => mode' = "verified")
    BY <1>1
  <2> QED BY <2>1, <2>2 DEF CycleInv
<1>8. StopInv'
  BY <1>1, <1>2, <1>3, <1>4, StopStays
<1>9. phase' \in Cycling /\ effective_k' \in Nat /\ failures' \in 0 .. MaxFailures /\ row' = 0
  BY <1>1, <1>2, <1>3 DEF Cycling, CommonInv
<1> QED BY <1>1, <1>3, <1>7, <1>8, <1>9, CycleMade

\* Sequences that agree on their first j elements.
LEMMA SamePrefix ==
  ASSUME NEW T, NEW x \in Seq(T), NEW y \in Seq(T), NEW j \in Nat, j <= Len(x), j <= Len(y),
         \A i \in 1 .. j : x[i] = y[i]
  PROVE  SubSeq(x, 1, j) = SubSeq(y, 1, j)
<1>1. PICK u, v : u = SubSeq(x, 1, j) /\ v = SubSeq(y, 1, j)
  OBVIOUS
<1>2. Len(x) \in Nat /\ Len(y) \in Nat
  BY LenProperties
<1>3. j \in 0 .. Len(x) /\ j \in 0 .. Len(y)
  BY <1>2
<1>4. u \in Seq(T) /\ Len(u) = j /\ \A i \in 1 .. j : u[i] = x[i]
  BY <1>1, <1>3
<1>5. v \in Seq(T) /\ Len(v) = j /\ \A i \in 1 .. j : v[i] = y[i]
  BY <1>1, <1>3
<1>6. \A i \in 1 .. j : u[i] = v[i]
  BY <1>4, <1>5
<1> QED BY <1>1, <1>4, <1>5, <1>6, SeqEqual

\* The accepted proposals are those that were computed.
LEMMA AcceptedText ==
  ASSUME NEW x \in Seq(Token), NEW q \in Seq(Token), NEW a \in 0 .. Len(q), NEW t \in Token,
         NEW b, b = Append(SubSeq(q, 1, a), t)
  PROVE  /\ b \in Seq(Token) /\ Len(b) = a + 1
         /\ \A j \in 1 .. Len(x) + a : SubSeq(x \o b, 1, j) = SubSeq(x \o q, 1, j)
<1>1. PICK n \in Nat, l \in Nat : n = Len(x) /\ l = Len(q)
  BY LenProperties
<1>2. a \in Nat /\ a <= l
  BY <1>1
<1>3. PICK c : c = SubSeq(q, 1, a)
  OBVIOUS
<1>4. c \in Seq(Token) /\ Len(c) = a /\ \A i \in 1 .. a : c[i] = q[i]
  BY <1>2, <1>3
<1>5. b \in Seq(Token) /\ Len(b) = a + 1 /\ \A i \in 1 .. a : b[i] = c[i]
  BY <1>2, <1>3, <1>4
<1>6. /\ x \o b \in Seq(Token) /\ Len(x \o b) = n + (a + 1)
      /\ \A i \in 1 .. n : (x \o b)[i] = x[i]
      /\ \A i \in n + 1 .. n + a + 1 : (x \o b)[i] = b[i - n]
  <2>1. PICK m \in Nat : m = a + 1 /\ b \in Seq(Token) /\ Len(b) = m
    BY ONLY <1>2, <1>5
  <2>2. x \o b \in Seq(Token) /\ Len(x \o b) = n + m
    BY ONLY <1>1, <2>1, x \in Seq(Token)
  <2>3. \A i \in 1 .. n + m : (x \o b)[i] = IF i <= n THEN x[i] ELSE b[i - n]
    BY ONLY <1>1, <2>1, x \in Seq(Token)
  <2>4. \A i \in 1 .. n : i \in 1 .. n + m /\ i <= n
    BY ONLY n \in Nat, m \in Nat
  <2>5. \A i \in n + 1 .. n + a + 1 : i \in 1 .. n + m /\ ~(i <= n)
    BY ONLY <1>2, <2>1, n \in Nat, m \in Nat
  <2> QED BY ONLY <2>1, <2>2, <2>3, <2>4, <2>5
<1>7. /\ x \o q \in Seq(Token) /\ Len(x \o q) = n + l
      /\ \A i \in 1 .. n : (x \o q)[i] = x[i]
      /\ \A i \in n + 1 .. n + l : (x \o q)[i] = q[i - n]
  BY <1>1
<1>8. ASSUME NEW i \in 1 .. n + a PROVE (x \o b)[i] = (x \o q)[i]
  <2>1. CASE i \in 1 .. n
    BY <1>6, <1>7, <2>1
  <2>2. CASE i \in n + 1 .. n + a
    <3>0. \A A, N \in Nat : \A I \in N + 1 .. N + A : I - N \in 1 .. A
      OBVIOUS
    <3>1. i - n \in 1 .. a
      BY <1>1, <1>2, <2>2, <3>0
    <3>2. i \in n + 1 .. n + a + 1 /\ i \in n + 1 .. n + l
      BY <1>1, <1>2, <2>2
    <3> QED BY <1>4, <1>5, <1>6, <1>7, <3>1, <3>2
  <2> QED BY <1>1, <1>2, <1>8, <2>1, <2>2
<1>9. ASSUME NEW j \in 1 .. n + a PROVE SubSeq(x \o b, 1, j) = SubSeq(x \o q, 1, j)
  <2>1. j \in Nat /\ j <= n + (a + 1) /\ j <= n + l /\ \A i \in 1 .. j : i \in 1 .. n + a
    BY <1>1, <1>2, <1>9
  <2>2. \A i \in 1 .. j : (x \o b)[i] = (x \o q)[i]
    BY <1>8, <2>1
  <2> QED BY <1>6, <1>7, <2>1, <2>2, SamePrefix
<1> QED BY <1>1, <1>5, <1>9

\* The verifier computes every proposal, past what is committed.
LEMMA VerifierPass ==
  ASSUME CycleFacts(HostState, Env, kv, draft_kv), BudgetFacts(HostState, Env, effective_k),
         TAP!Unhashed(HostState), DraftedFacts(HostState, Env, effective_k, draft_kv, proposals),
         NEW m, m = VerifierStored
  PROVE  /\ TAP!Lease(HostState, m)
         /\ \A s \in Rows : HeldIn(block_table[s], m, Len(token_ids[s]) + effective_k,
                                   token_ids[s] \o proposals[s])
<1>1. /\ RunFacts(HostState, Env, TAP!Before(HostState).tables) /\ TAP!Lease(HostState, kv)
      /\ TAP!AllocOK(HostState, kv)
  BY LeaseAlloc DEF CycleFacts
<1>2. PICK k \in Nat \ {0} : k = effective_k
  BY DEF BudgetFacts
<1>3. Rows = Range(Env.rows) /\ Rows \subseteq Seqs
  BY <1>1, EnvIs, RangeIs DEF Rows, RunFacts, EnvTypes
<1>4. PICK q : q = proposals
  OBVIOUS
<1>5. q \in [Rows -> Seq(Token)] /\ \A s \in Rows : Len(q[s]) = k
  <2>1. q \in [Rows -> [1 .. k -> Token]]
    BY <1>2, <1>3, <1>4 DEF DraftedFacts
  <2>2. \A s \in Rows : q[s] \in Seq(Token) /\ Len(q[s]) = k
    BY <1>2, <2>1, ProposalSeqs
  <2> QED BY <2>1, <2>2
<1>6. PICK at : at = [s \in Rows |-> VerifierPositions(s)]
  OBVIOUS
<1>7. PICK text : text = [s \in Rows |-> Drafted(s, q)]
  OBVIOUS
<1>8. ASSUME NEW s \in Rows
      PROVE  /\ s \in Seqs /\ text[s] = token_ids[s] \o q[s]
             /\ at[s] = Len(token_ids[s]) - 1 .. Len(token_ids[s]) + k - 1
             /\ Len(token_ids[s]) \in Nat \ {0} /\ num_cached_tokens[s] = Len(token_ids[s]) - 1
             /\ Len(token_ids[s]) + k <= BlockSize * Len(block_table[s])
             /\ token_ids[s] \in Seq(Token)
  <2>1. /\ s \in Seqs /\ token_ids[s] \in Seq(Token) /\ Len(token_ids[s]) \in 1 .. MaxModelLen
        /\ num_cached_tokens[s] = Len(token_ids[s]) - 1
    BY <1>1, <1>3, RowFacts, HostIs
  <2>3. Len(token_ids[s]) + k <= BlockSize * Len(block_table[s])
    BY <1>2, <1>3, HostIs DEF BudgetFacts
  <2>5. Len(token_ids[s]) \in Nat \ {0}
    BY <2>1, LenProperties
  <2>7. at[s] = Len(token_ids[s]) - 1 .. Len(token_ids[s]) + k - 1
    BY <1>2, <1>6 DEF VerifierPositions, BM!num_tokens
  <2>8. text[s] = token_ids[s] \o q[s]
    BY <1>7 DEF Drafted
  <2> QED BY <2>1, <2>3, <2>5, <2>7, <2>8
<1>9. TAP!PassOver(HostState, at, text)
  <2>1. DOMAIN at = Range(Env.rows)
    BY <1>3, <1>6
  <2>2. \A s \in Range(Env.rows) : text[s] = HostState.tokens[s] \o q[s]
    BY <1>3, <1>8, HostIs
  <2>3. ASSUME NEW s \in Range(Env.rows)
        PROVE  at[s] \subseteq 0 .. Len(HostState.tokens[s]) + effective_k - 1
    <3>1. PICK n \in Nat \ {0} : n = Len(token_ids[s]) /\ at[s] = n - 1 .. n + k - 1
      BY <1>3, <1>8
    <3>2. n - 1 .. n + k - 1 \subseteq 0 .. n + k - 1
      BY <3>1
    <3> QED BY <1>2, <3>1, <3>2, HostIs
  <2> QED BY <1>1, <1>2, <1>3, <1>5, <2>1, <2>2, <2>3, PassIsOver
<1>10. m = TA!Stored(kv, at, text) /\ kv \in Caches
  BY <1>1, <1>4, <1>6, <1>7, AllocFacts DEF VerifierStored, Caches
<1>11. TAP!PassLeft(HostState, at, text, kv, m)
  BY <1>1, <1>9, <1>10, PassLeaves
<1>12. TAP!WrittenPast(HostState, kv, m)
  <2>1. \A s \in DOMAIN at : \A p \in at[s] : HostState.cached[s] <= p
    <3> SUFFICES ASSUME NEW s \in Rows, NEW p \in at[s] PROVE num_cached_tokens[s] <= p
      BY <1>6, HostIs
    <3>1. PICK n \in Nat \ {0} : n = Len(token_ids[s]) /\ at[s] = n - 1 .. n + k - 1 /\ num_cached_tokens[s] = n - 1
      BY <1>8
    <3> QED BY <3>1
  <2>2. m = TAP!Stored(kv, at, text) /\ HostState.tables = block_table
        /\ kv \in [TAP!Blocks -> [0 .. BlockSize - 1 -> Seq(Token)]]
    BY <1>10, SameReservation, HostIs DEF TAP!Blocks, BM!Blocks, Caches
  <2> QED BY <1>9, <2>1, <2>2, ReservationAssumption, TAP!StoredPast DEF TAP!BlockManagerAssumption
<1>13. TAP!Lease(HostState, m)
  BY <1>1, <1>12, ReservationAssumption, TAP!LeaseWrites DEF TAP!BlockManagerAssumption
<1>14. TAP!AllocOK(HostState, m)
  BY <1>13, LeaseAlloc
<1>15. ASSUME NEW s \in Rows PROVE HeldIn(block_table[s], m, Len(token_ids[s]) + k, token_ids[s] \o q[s])
  <2>1. PICK n \in Nat \ {0} :
          /\ n = Len(token_ids[s]) /\ num_cached_tokens[s] = n - 1
          /\ at[s] = n - 1 .. n + k - 1 /\ n + k <= BlockSize * Len(block_table[s])
    BY <1>8
  <2>2. HeldIn(block_table[s], m, n - 1, token_ids[s])
    <3>1. HeldIn(HostState.tables[s], m, HostState.cached[s], HostState.tokens[s])
      BY <1>8, <1>14, AllocFacts
    <3> QED BY <2>1, <3>1, HostIs
  <2>3. ASSUME NEW p \in 0 .. n + k - 1
        PROVE  m[block_table[s][p \div BlockSize + 1]][p % BlockSize] = SubSeq(token_ids[s] \o q[s], 1, p + 1)
    <3>1. CASE p < n - 1
      <4>1. p \in 0 .. n - 1 - 1 /\ p + 1 \in 0 .. Len(token_ids[s])
        BY <2>1, <2>3, <3>1
      <4>2. SubSeq(token_ids[s] \o q[s], 1, p + 1) = SubSeq(token_ids[s], 1, p + 1)
        BY <1>5, <1>8, <4>1, ReservationAssumption, TAP!PrefixOfText DEF TAP!BlockManagerAssumption
      <4> QED BY <2>2, <4>1, <4>2 DEF HeldIn
    <3>2. CASE p >= n - 1
      <4>1. p \in n - 1 .. n + k - 1 /\ p \in 0 .. (n + k) - 1
        BY <1>2, <2>1, <2>3, <3>2
      <4>2. p \in Nat /\ p < BlockSize * Len(block_table[s])
        <5>1. n + k \in Nat
          BY <1>2, <2>1
        <5> QED BY <1>1, <1>8, <2>1, <4>1, <5>1, SlotsReach
      <4>3. s \in DOMAIN at /\ p \in at[s]
        BY <1>6, <2>1, <4>1
      <4>4. TAP!SlotLeft(at, text, kv, m, token_ids[s], num_cached_tokens[s], s,
                         block_table[s][p \div BlockSize + 1], p % BlockSize, p)
        BY <1>8, <1>11, <4>2, HostIs DEF TAP!PassLeft
      <4> QED BY <1>8, <4>3, <4>4 DEF TAP!SlotLeft
    <3>3. p < n - 1 \/ p >= n - 1
      BY <2>1, <2>3
    <3> QED BY <3>1, <3>2, <3>3
  <2>4. n + k \in Int
    BY <1>2, <2>1
  <2>5. PICK N \in Int : N = n + k
    BY <2>4
  <2>6. HeldIn(block_table[s], m, N, token_ids[s] \o q[s])
    <3>1. ASSUME NEW p \in 0 .. N - 1
          PROVE  m[block_table[s][p \div BlockSize + 1]][p % BlockSize] = SubSeq(token_ids[s] \o q[s], 1, p + 1)
      <4>1. p \in 0 .. n + k - 1
        BY <2>5
      <4> QED BY <2>3, <4>1
    <3> QED BY <3>1 DEF HeldIn
  <2> QED BY ONLY <2>1, <2>5, <2>6
<1> QED BY <1>2, <1>4, <1>13, <1>15

\* A row holds what it accepted, in both caches.
LEMMA RowAccepts ==
  ASSUME NEW t, NEW m, NEW d, NEW k \in Nat \ {0}, NEW c \in Nat, NEW x \in Seq(Token), Len(x) = c + 1,
         NEW q \in Seq(Token), Len(q) = k, NEW a \in 0 .. k, NEW z \in Token,
         NEW b, b = Append(SubSeq(q, 1, a), z), NEW l \in Nat, Len(x) + k <= BlockSize * l,
         HeldIn(t, m, Len(x) + k, x \o q), HeldIn(t, d, Len(x) - 1 + k, x \o q)
  PROVE  b \in Seq(Token) /\ Len(b) \in 1 .. k + 1 /\ BurstHeld(t, m, d, k, c, x, b)
<1>1. a \in 0 .. Len(q) /\ a \in Nat /\ a <= k
  OBVIOUS
<1>2. /\ b \in Seq(Token) /\ Len(b) = a + 1
      /\ \A j \in 1 .. Len(x) + a : SubSeq(x \o b, 1, j) = SubSeq(x \o q, 1, j)
  BY <1>1, AcceptedText
<1>3. Len(b) \in 1 .. k + 1
  BY <1>1, <1>2
<1>4. PICK B \in Nat : B = BlockSize * l
  BY Constants
<1>5. \A i \in 1 .. l : t[i] = t[i]
  OBVIOUS
<1>6. ASSUME NEW e, NEW w \in Nat, NEW N \in Nat, N <= w, w <= c + 1 + k, N <= c + 1 + a, HeldIn(t, e, w, x \o q)
      PROVE  HeldIn(t, e, N, x \o b)
  <2>1. HeldIn(t, e, N, x \o q)
    BY <1>6, HeldFewer
  <2>2. N <= BlockSize * l
    <3>1. c + 1 + k <= B
      BY <1>4
    <3>2. N <= B
      BY <1>4, <1>6, <3>1
    <3> QED BY <1>4, <3>2
  <2>3. \A j \in 1 .. N : j \in 1 .. Len(x) + a
    BY <1>1, <1>6
  <2>4. \A j \in 1 .. N : SubSeq(x \o b, 1, j) = SubSeq(x \o q, 1, j)
    BY <1>2, <2>3
  <2> QED BY <1>5, <2>1, <2>2, <2>4, HeldStays
<1>7. HeldIn(t, m, c + Len(b), x \o b)
  <2>1. c + Len(b) = c + 1 + a /\ c + 1 + a \in Nat /\ c + 1 + a <= c + 1 + k /\ c + 1 + k \in Nat
    BY <1>1, <1>2
  <2>2. HeldIn(t, m, c + 1 + k, x \o q)
    OBVIOUS
  <2>3. HeldIn(t, m, c + 1 + a, x \o b)
    BY <1>6, <2>1, <2>2
  <2> QED BY <2>1, <2>3
<1>8. HeldIn(t, d, c + Smaller(Len(b), k), x \o b)
  <2>1. PICK S \in Nat : S = Smaller(Len(b), k) /\ S <= a + 1 /\ S <= k
    BY <1>1, <1>2 DEF Smaller
  <2>2. c + S \in Nat /\ c + S <= c + k /\ c + k \in Nat /\ c + k <= c + 1 + k /\ c + S <= c + 1 + a
    BY <1>1, <2>1
  <2>3. Len(x) - 1 + k = c + k
    OBVIOUS
  <2>4. HeldIn(t, d, c + k, x \o q)
    BY <2>3
  <2>5. HeldIn(t, d, c + S, x \o b)
    BY <1>6, <2>2, <2>4
  <2> QED BY <2>1, <2>5
<1> QED BY <1>2, <1>3, <1>7, <1>8 DEF BurstHeld

\* The verifier accepts.
LEMMA VerifyKeeps ==
  ASSUME SInv, mode' = mode, mode # "ordinary",
         NEW accepted \in [Rows -> 0 .. effective_k], NEW terminal \in [Rows -> Token],
         execute_verifier(accepted, terminal)
  PROVE  SInv'
<1>1. /\ phase = "verify" /\ kv' = VerifierStored /\ draft_kv' = draft_kv
      /\ burst' = [s \in Rows |-> Append(SubSeq(proposals[s], 1, accepted[s]), terminal[s])]
      /\ phase' = "accept"
      /\ targets' = targets /\ failures' = failures /\ coverage' = coverage /\ undo' = undo
      /\ effective_k' = effective_k
  BY DEF execute_verifier, draftVars
<1>2. /\ HostState' = HostState /\ Env' = Env /\ row' = row
      /\ token_ids' = token_ids /\ request' = request /\ status' = status
  <2>1. UNCHANGED <<free_block_ids, used_block_ids, ref_count, block_hash, hash_to_block_id,
                    token_ids, block_table, num_cached_tokens, reqVars, rowVars, queueVars, stepVars,
                    num_draft_cached_tokens, reservation>>
    BY DEF execute_verifier, draftVars
  <2> QED BY <2>1, PassStays
<1>3. phase \in Cycling /\ CommonInv /\ StopInv
  BY <1>1 DEF Cycling, SInv
<1>4. /\ CycleFacts(HostState, Env, kv, draft_kv) /\ BudgetFacts(HostState, Env, effective_k)
      /\ coverage = Nothing /\ undo = Nothing /\ mode = "verified"
      /\ TAP!Unhashed(HostState)
      /\ DraftedFacts(HostState, Env, effective_k, draft_kv, proposals)
  BY <1>1, <1>3 DEF SInv, CycleInv
<1>5. /\ TAP!Lease(HostState, kv')
      /\ \A s \in Rows : HeldIn(block_table[s], kv', Len(token_ids[s]) + effective_k,
                                token_ids[s] \o proposals[s])
  BY <1>1, <1>4, VerifierPass
<1>6. CycleFacts(HostState, Env, kv', draft_kv')
  BY <1>1, <1>4, <1>5 DEF CycleFacts
<1>7. Rows = Range(Env.rows) /\ RunFacts(HostState, Env, TAP!Before(HostState).tables)
      /\ TAP!AllocOK(HostState, kv)
  BY <1>4, EnvIs, LeaseAlloc DEF Rows, CycleFacts
<1>8. PICK k \in Nat \ {0} : k = effective_k
  BY <1>4 DEF BudgetFacts
<1>9. ASSUME NEW s \in Rows
      PROVE  /\ burst'[s] \in Seq(Token) /\ Len(burst'[s]) \in 1 .. k + 1
             /\ BurstHeld(block_table[s], kv', draft_kv', k, num_cached_tokens[s], token_ids[s], burst'[s])
  <2>1. PICK t, x, q, a, z, b, c :
          /\ t = block_table[s] /\ x = token_ids[s] /\ q = proposals[s] /\ a = accepted[s]
          /\ z = terminal[s] /\ b = burst'[s] /\ c = num_cached_tokens[s]
    OBVIOUS
  <2>2. b = Append(SubSeq(q, 1, a), z) /\ a \in 0 .. k /\ z \in Token
    BY <1>1, <1>8, <2>1
  <2>3. q \in Seq(Token) /\ Len(q) = k
    <3>1. q \in [1 .. k -> Token]
      BY <1>4, <1>7, <1>8, <2>1 DEF DraftedFacts
    <3> QED BY <1>8, <3>1, ProposalSeqs
  <2>4. /\ s \in Seqs /\ x \in Seq(Token) /\ c \in Nat /\ c = Len(x) - 1
    BY <1>7, <2>1, RowFacts, HostIs
  <2>5. Len(x) = c + 1
    <3>1. Len(x) \in Nat
      BY <2>4, LenProperties
    <3> QED BY <2>4, <3>1
  <2>6. PICK l \in Nat : l = Len(block_table[s])
    BY <1>7, <2>4, AllocFacts, HostIs
  <2>7. Len(x) + k <= BlockSize * l
    BY <1>4, <1>7, <1>8, <2>1, <2>6, HostIs DEF BudgetFacts
  <2>8. HeldIn(t, kv', Len(x) + k, x \o q)
    BY <1>5, <1>8, <2>1
  <2>9. HeldIn(t, draft_kv', Len(x) - 1 + k, x \o q)
    BY <1>1, <1>4, <1>7, <1>8, <2>1, HostIs DEF DraftedFacts
  <2>10. b \in Seq(Token) /\ Len(b) \in 1 .. k + 1 /\ BurstHeld(t, kv', draft_kv', k, c, x, b)
    BY <1>8, <2>2, <2>3, <2>4, <2>5, <2>6, <2>7, <2>8, <2>9, RowAccepts
  <2> QED BY <2>1, <2>10
<1>10. AcceptFacts(HostState, Env, effective_k, kv', draft_kv', burst')
  <2>1. DOMAIN burst' = Range(Env.rows)
    BY <1>1, <1>7
  <2> QED BY <1>7, <1>8, <1>9, <2>1, HostIs DEF AcceptFacts
<1>11. CycleInv'
  <2>1. /\ CycleFacts(HostState', Env', kv', draft_kv') /\ BudgetFacts(HostState', Env', effective_k')
        /\ coverage' = Nothing /\ undo' = Nothing /\ mode' = "verified"
        /\ TAP!Unhashed(HostState')
        /\ AcceptFacts(HostState', Env', effective_k', kv', draft_kv', burst')
    BY <1>1, <1>2, <1>4, <1>6, <1>10
  <2>2. phase' \notin {"verify", "handoff"}
    BY <1>1
  <2> QED BY <2>1, <2>2 DEF CycleInv
<1>12. StopInv'
  BY <1>1, <1>2, <1>3, <1>4, StopStays
<1>13. phase' \in Cycling /\ effective_k' \in Nat /\ failures' \in 0 .. MaxFailures /\ row' = 0
  BY <1>1, <1>2, <1>3 DEF Cycling, CommonInv
<1> QED BY <1>1, <1>3, <1>11, <1>12, <1>13, CycleMade
-----------------------------------------------------------------------------
(* Failures within a cycle, and the way back *)

\* A cycle holds a live reservation.
LEMMA LeaseLive ==
  ASSUME CycleFacts(HostState, Env, kv, draft_kv)
  PROVE  TA!Live /\ TA!ReservationIsLive /\ reservation # TA!NoReservation
<1>1. TAP!Lease(HostState, kv) /\ TAP!IsNow(HostState)
  BY HostNow DEF CycleFacts
<1>2. TAP!ReservationIsLive /\ TAP!Live
  BY <1>1, ReservationAssumption, TAP!LeaseIsLive DEF TAP!BlockManagerAssumption
<1>3. TA!Live /\ TA!ReservationIsLive
  BY <1>2, SameReservation
<1> QED BY <1>3 DEF TA!Live, TA!NoReservation

\* The same of the next state: a cycle has a reservation.
LEMMA LeaseLiveNext ==
  ASSUME CycleFacts(HostState', Env', kv', draft_kv')
  PROVE  reservation' # TA!NoReservation
<1>1. PICK J : J = HostState'
  OBVIOUS
<1>2. TAP!LeaseTypes(J.reservation) /\ J.reservation = reservation'
  BY <1>1, HostNext DEF CycleFacts, TAP!Lease
<1>3. reservation'.rows # <<>>
  BY <1>2 DEF TAP!LeaseTypes
<1> QED BY <1>3 DEF TA!NoReservation

\* A step that is being undone.
LEMMA UndoMade ==
  ASSUME mode' = mode, mode # "ordinary", CommonInv, phase' \in Undoing, row' \in 0 .. MaxNumSeqs,
         targets' = targets, failures' \in 0 .. MaxFailures, effective_k' \in Nat, UndoInv', StopInv',
         BMP!IInv', DraftFacts(HostState', draft_kv')
  PROVE  SInv'
<1>1. phase' \notin Cycling /\ phase' \notin Phases /\ phase' \notin Committing
  BY PhasesApart
<1>2. CommonInv'
  BY <1>1 DEF CommonInv
<1>3. PlainInv' /\ CommitInv' /\ CycleInv'
  BY <1>1 DEF PlainInv, CommitInv, CycleInv
<1> QED BY <1>2, <1>3 DEF SInv

\* A cycle that fails still holds its reservation.
LEMMA AbortMade ==
  ASSUME mode' = mode, mode # "ordinary", CommonInv, phase' = "abort", row' \in 0 .. MaxNumSeqs,
         targets' = targets, failures' \in 0 .. MaxFailures, effective_k' \in Nat, StopInv',
         undo' = Nothing, CycleFacts(HostState', Env', kv', draft_kv')
  PROVE  SInv'
<1>1. reservation' # TA!NoReservation
  BY LeaseLiveNext
<1>2. UndoInv'
  BY <1>1 DEF UndoInv
<1>3. TAP!AllocOK(HostState', kv')
  BY LeaseAlloc DEF CycleFacts
<1>4. BMP!IInv' /\ DraftFacts(HostState', draft_kv') /\ phase' \in Undoing
  BY <1>3, AllocNext DEF CycleFacts, Undoing
<1> QED BY <1>2, <1>4, UndoMade

\* What Raise leaves alone.
LEMMA RaiseStays ==
  ASSUME SInv, phase \in Cycling, Raise
  PROVE  /\ HostState' = HostState /\ Env' = Env /\ row' = row /\ undo' = Nothing
         /\ targets' = targets /\ effective_k' = effective_k /\ phase' = "abort"
         /\ failures' \in 0 .. MaxFailures /\ row' \in 0 .. MaxNumSeqs /\ effective_k' \in Nat
         /\ StopInv' /\ CommonInv
         /\ CycleFacts(HostState, Env, kv, draft_kv) /\ BudgetFacts(HostState, Env, effective_k)
<1>1. /\ HostState' = HostState /\ Env' = Env /\ row' = row
      /\ token_ids' = token_ids /\ request' = request /\ status' = status
  <2>1. UNCHANGED <<free_block_ids, used_block_ids, ref_count, block_hash, hash_to_block_id,
                    token_ids, block_table, num_cached_tokens, reqVars, rowVars, queueVars, stepVars,
                    num_draft_cached_tokens, reservation>>
    BY DEF Raise
  <2> QED BY <2>1, PassStays
<1>2. /\ targets' = targets /\ effective_k' = effective_k /\ undo' = undo /\ phase' = "abort"
      /\ failures < MaxFailures /\ failures' = failures + 1
  BY DEF Raise, cycleVars
<1>3. /\ CycleFacts(HostState, Env, kv, draft_kv) /\ BudgetFacts(HostState, Env, effective_k)
      /\ undo = Nothing /\ CommonInv /\ StopInv
  BY DEF SInv, CycleInv
<1>4. failures' \in 0 .. MaxFailures /\ row' \in 0 .. MaxNumSeqs /\ effective_k' \in Nat
  <2>1. failures \in 0 .. MaxFailures /\ row \in 0 .. MaxNumSeqs /\ effective_k \in Nat /\ MaxFailures \in Nat
    BY <1>3, SchedulerAssumption DEF CommonInv, SchedulerAssumption
  <2> QED BY <1>1, <1>2, <2>1
<1>5. StopInv'
  BY <1>1, <1>2, <1>3, StopStays
<1> QED BY <1>1, <1>2, <1>3, <1>4, <1>5

\* The runner's or the host's checks, or a pass of the runner, fail.
LEMMA RaiseKeeps ==
  ASSUME SInv, mode' = mode, mode # "ordinary", RunnerFails \/ ResultRejected
  PROVE  SInv'
<1>1. Raise /\ phase \in Cycling
  BY DEF RunnerFails, ResultRejected, Cycling
<1>2. /\ HostState' = HostState /\ Env' = Env /\ row' = row /\ undo' = Nothing
      /\ targets' = targets /\ effective_k' = effective_k /\ phase' = "abort"
      /\ failures' \in 0 .. MaxFailures /\ row' \in 0 .. MaxNumSeqs /\ effective_k' \in Nat
      /\ StopInv' /\ CommonInv
      /\ CycleFacts(HostState, Env, kv, draft_kv) /\ BudgetFacts(HostState, Env, effective_k)
  BY <1>1, RaiseStays
<1>3. CycleFacts(HostState, Env, kv', draft_kv')
  <2>1. CASE UNCHANGED <<kv, draft_kv>>
    <3>1. kv' = kv /\ draft_kv' = draft_kv
      BY <2>1
    <3> QED BY <1>2, <3>1
  <2>2. CASE phase = "propose" /\ UNCHANGED kv /\ \E d \in Proposals : draft_kv' = DraftStored(d)
    <3>1. PICK d \in Proposals : draft_kv' = DraftStored(d)
      BY <2>2
    <3>2. DraftFacts(HostState, draft_kv') /\ kv' = kv
      BY <1>2, <2>2, <3>1, DraftPass
    <3> QED BY <1>2, <3>2 DEF CycleFacts
  <2>3. CASE phase = "verify" /\ UNCHANGED draft_kv /\ kv' = VerifierStored
    <3>1. TAP!Unhashed(HostState) /\ DraftedFacts(HostState, Env, effective_k, draft_kv, proposals)
      BY <1>1, <2>3 DEF SInv, CycleInv
    <3>2. TAP!Lease(HostState, kv') /\ draft_kv' = draft_kv
      BY <1>2, <2>3, <3>1, VerifierPass
    <3> QED BY <1>2, <3>2 DEF CycleFacts
  <2> QED BY <2>1, <2>2, <2>3 DEF RunnerFails, ResultRejected
<1>4. CycleFacts(HostState', Env', kv', draft_kv')
  BY <1>2, <1>3
<1> QED BY <1>2, <1>4, AbortMade

\* rollback_temporary_append leads back to the scheduled batch.
LEMMA RollbackFacts ==
  ASSUME CycleFacts(HostState, Env, kv, draft_kv), TA!rollback_temporary_append,
         UNCHANGED <<reqVars, rowVars, queueVars, stepVars>>
  PROVE  /\ BMP!IInv' /\ reservation' = TA!NoReservation /\ kv' = kv /\ draft_kv' = draft_kv
         /\ Env' = Env /\ row' = row /\ token_ids' = token_ids /\ request' = request /\ status' = status
         /\ RunFacts(HostState', Env', block_table') /\ DraftFacts(HostState', draft_kv')
         /\ \A s \in Seqs : \A i \in 1 .. Len(block_table'[s]) : block_table'[s][i] = block_table[s][i]
<1>1. /\ request' = request /\ status' = status /\ num_scheduled_tokens' = num_scheduled_tokens
      /\ is_prefill' = is_prefill /\ waiting' = waiting /\ running' = running
      /\ mid_chunk_seq' = mid_chunk_seq /\ scheduled_seqs' = scheduled_seqs
      /\ num_decodes' = num_decodes /\ num_batched_tokens' = num_batched_tokens /\ row' = row
  BY DEF reqVars, rowVars, queueVars, stepVars
<1>2. TAP!rollback_temporary_append
  BY SameReservation
<1>3. reservation' = TA!NoReservation /\ kv' = kv /\ draft_kv' = draft_kv /\ token_ids' = token_ids
  BY <1>2, SameReservation DEF TAP!rollback_temporary_append
<1>4. TAP!Lease(HostState, kv) /\ TAP!IsNow(HostState) /\ RunFacts(HostState, Env, TAP!Before(HostState).tables)
      /\ DraftFacts(HostState, draft_kv)
  BY HostNow DEF CycleFacts
<1>5. /\ TAP!IInv' /\ block_table' = TAP!Before(HostState).tables
      /\ num_cached_tokens' = num_cached_tokens
      /\ DOMAIN num_draft_cached_tokens = Seqs =>
           num_draft_cached_tokens' = [s \in Seqs |-> num_draft_cached_tokens[s]]
  BY <1>2, <1>4, ReservationAssumption, TAP!RollbackKeeps DEF TAP!BlockManagerAssumption
<1>6. num_draft_cached_tokens' = num_draft_cached_tokens
  <2>1. num_draft_cached_tokens \in [Seqs -> Nat]
    BY <1>4, HostIs DEF DraftFacts
  <2> QED BY <1>5, <2>1
<1>7. PICK J : J = HostState'
  OBVIOUS
<1>8. TAP!AllocOK(J, kv')
  BY <1>5, <1>7, HostNext, ReservationAssumption, TAP!NextOK DEF TAP!BlockManagerAssumption
<1>9. BMP!IInv'
  BY <1>7, <1>8, AllocNext
<1>10. SameRows(HostState, J) /\ J.draft = HostState.draft /\ J.tables = block_table'
  BY <1>1, <1>3, <1>5, <1>6, <1>7, HostIs, HostNext DEF SameRows
<1>11. Env' = Env
  BY <1>1, EnvStays
<1>12. RunFacts(J, Env, block_table')
  BY <1>4, <1>5, <1>10, RunSame
<1>13. TAP!AllocOK(HostState, kv)
  BY <1>4, LeaseAlloc
<1>14. ASSUME NEW s \in Seqs, NEW i \in 1 .. Len(J.tables[s])
       PROVE  J.tables[s][i] = block_table[s][i]
  <2>1. TAP!Grown(TAP!Before(HostState), HostState, TAP!Borrowed(HostState), TAP!BorrowedBy(HostState))
    BY <1>4 DEF TAP!Lease
  <2>2. PICK a \in Seq(BM!Blocks) : block_table[s] = J.tables[s] \o a
    <3>2. /\ HostState.tables[s] = TAP!Before(HostState).tables[s] \o TAP!BorrowedBy(HostState)[s]
          /\ TAP!BorrowedBy(HostState)[s] \in Seq(TAP!Blocks)
      BY <2>1 DEF TAP!Grown
    <3> QED BY <1>5, <1>10, <3>2, HostIs DEF TAP!Blocks, BM!Blocks
  <2>3. J.tables[s] \in Seq(BM!Blocks)
    BY <1>8, AllocFacts
  <2> QED BY <2>2, <2>3
<1>15. DraftFacts(J, draft_kv)
  <2>1. \A s \in Seqs : \A i \in 1 .. Len(HostState.tables[s]) :
          i <= Len(J.tables[s]) => J.tables[s][i] = HostState.tables[s][i]
    <3> SUFFICES ASSUME NEW s \in Seqs, NEW i \in 1 .. Len(HostState.tables[s]), i <= Len(J.tables[s])
                 PROVE  J.tables[s][i] = HostState.tables[s][i]
      OBVIOUS
    <3>1. Len(J.tables[s]) \in Nat /\ Len(HostState.tables[s]) \in Nat
      BY <1>8, <1>13, AllocFacts
    <3>2. i \in 1 .. Len(J.tables[s])
      BY <3>1
    <3> QED BY <1>14, <3>2, HostIs
  <2> QED BY <1>3, <1>4, <1>8, <1>10, <1>13, <2>1, DraftKept DEF SameRows
<1> QED BY <1>1, <1>3, <1>7, <1>9, <1>10, <1>11, <1>12, <1>14, <1>15

\* The proposals are thrown away and the ordinary pass follows.
LEMMA HandoffKeeps ==
  ASSUME SInv, mode' = mode, mode # "ordinary", handoff_draft_discard
  PROVE  SInv'
<1>1. /\ phase = "handoff" /\ TA!rollback_temporary_append /\ phase' = "run"
      /\ coverage' = [s \in Rows |-> BM!num_tokens(s)]
      /\ UNCHANGED <<reqVars, rowVars, queueVars, stepVars>>
      /\ targets' = targets /\ failures' = failures /\ effective_k' = effective_k /\ undo' = undo
  BY DEF handoff_draft_discard
<1>2. phase \in Cycling /\ CommonInv /\ StopInv
  BY <1>1 DEF Cycling, SInv
<1>3. /\ CycleFacts(HostState, Env, kv, draft_kv) /\ BudgetFacts(HostState, Env, effective_k)
      /\ undo = Nothing /\ DraftedFacts(HostState, Env, effective_k, draft_kv, proposals)
      /\ row = 0
  BY <1>1, <1>2 DEF SInv, CycleInv, CommonInv
<1>4. /\ BMP!IInv' /\ reservation' = TA!NoReservation /\ kv' = kv /\ draft_kv' = draft_kv
      /\ Env' = Env /\ row' = row /\ token_ids' = token_ids /\ request' = request /\ status' = status
      /\ RunFacts(HostState', Env', block_table') /\ DraftFacts(HostState', draft_kv')
      /\ \A s \in Seqs : \A i \in 1 .. Len(block_table'[s]) : block_table'[s][i] = block_table[s][i]
  BY <1>1, <1>3, RollbackFacts
<1>5. IInv' /\ PlainFacts' /\ ~ragged'
  <2>1. (phase = "run" /\ RunFacts(HostState, Env, block_table) /\ BMP!IInv /\ CallTypes
           => IInv /\ PlainFacts /\ ~ragged)'
    BY BatchIsRun, PTL
  <2>2. CallTypes'
    BY <1>1, <1>2, <1>3, <1>4 DEF CallTypes, CommonInv
  <2> QED BY <1>1, <1>4, <2>1, <2>2
<1>6. Rows = Range(Env.rows) /\ Rows \subseteq Seqs /\ Rows # {}
  <2>1. Env.rows \in Seq(Seqs) /\ Env.rows # <<>> /\ Env.rows = scheduled_seqs
    BY <1>3, EnvIs DEF CycleFacts, RunFacts, EnvTypes
  <2> QED BY <2>1, RangeIs DEF Rows
<1>7. PICK k \in Nat \ {0} : k = effective_k
  BY <1>3 DEF BudgetFacts
<1>8. Rows' = Rows
  BY <1>4, <1>6, EnvIs DEF Env, Rows
<1>9. coverage' # Nothing
  BY <1>1, <1>6 DEF Nothing
<1>10. ASSUME NEW s \in Rows
       PROVE  /\ coverage'[s] \in Nat /\ coverage'[s] <= num_cached_tokens'[s] + 1
              /\ HeldIn(block_table'[s], draft_kv', coverage'[s], token_ids'[s])
  <2>1. PICK J : J = HostState'
    OBVIOUS
  <2>2. /\ s \in Seqs /\ J.tokens[s] \in Seq(Token) /\ J.cached[s] \in Nat
        /\ J.cached[s] = Len(J.tokens[s]) - 1
        /\ Len(block_table'[s]) = BM!BlocksFor(Len(J.tokens[s]))
    BY <1>4, <1>6, <2>1, RowFacts
  <2>3. PICK n \in Nat : n = Len(token_ids[s])
    BY <1>4, <2>1, <2>2, HostNext, LenProperties
  <2>4. PICK l \in Nat : l = Len(block_table'[s]) /\ n <= BlockSize * l
    BY <1>4, <2>1, <2>2, <2>3, Blocks, HostNext
  <2>5. coverage'[s] = n /\ num_cached_tokens'[s] = n - 1 /\ token_ids'[s] = token_ids[s]
        /\ token_ids[s] \in Seq(Token)
    BY <1>1, <1>4, <2>1, <2>2, <2>3, HostNext DEF BM!num_tokens
  <2>6. PICK q : q = proposals[s] /\ q \in Seq(Token) /\ HeldIn(block_table[s], draft_kv, n - 1 + k, token_ids[s] \o q)
    <3>1. proposals[s] \in [1 .. k -> Token]
      BY <1>3, <1>6, <1>7 DEF DraftedFacts
    <3>2. proposals[s] \in Seq(Token)
      BY <1>7, <3>1, ProposalSeqs
    <3>3. HeldIn(block_table[s], draft_kv, n - 1 + k, token_ids[s] \o proposals[s])
      BY <1>3, <1>6, <1>7, <2>3, HostIs DEF DraftedFacts
    <3> QED BY <3>2, <3>3
  <2>7. HeldIn(block_table[s], draft_kv, n, token_ids[s] \o q)
    <3>1. n - 1 + k \in Int /\ n <= n - 1 + k
      BY <1>7, <2>3
    <3> QED BY <2>3, <2>6, <3>1, HeldFewer
  <2>8. \A j \in 1 .. n : SubSeq(token_ids[s], 1, j) = SubSeq(token_ids[s] \o q, 1, j)
    <3> SUFFICES ASSUME NEW j \in 1 .. n PROVE SubSeq(token_ids[s], 1, j) = SubSeq(token_ids[s] \o q, 1, j)
      OBVIOUS
    <3>1. j \in 0 .. Len(token_ids[s])
      BY <2>3
    <3>2. \A x \in Seq(Token), y \in Seq(Token) : \A i \in 0 .. Len(x) : SubSeq(x \o y, 1, i) = SubSeq(x, 1, i)
      BY ReservationAssumption, TAP!PrefixOfText DEF TAP!BlockManagerAssumption
    <3> QED BY ONLY <2>5, <2>6, <3>1, <3>2
  <2>9. \A i \in 1 .. l : block_table'[s][i] = block_table[s][i]
    BY <1>4, <2>2, <2>4
  <2>10. HeldIn(block_table'[s], draft_kv, n, token_ids[s])
    <3>1. PICK u, t, x, y : u = block_table'[s] /\ t = block_table[s] /\ x = token_ids[s] \o q /\ y = token_ids[s]
      OBVIOUS
    <3>2. HeldIn(t, draft_kv, n, x) /\ (\A i \in 1 .. l : u[i] = t[i])
          /\ \A j \in 1 .. n : SubSeq(y, 1, j) = SubSeq(x, 1, j)
      BY <2>7, <2>8, <2>9, <3>1
    <3>3. HeldIn(u, draft_kv, n, y)
      BY <2>3, <2>4, <3>2, HeldStays
    <3> QED BY <3>1, <3>3
  <2> QED BY <1>4, <2>3, <2>5, <2>10
<1>11. CoverFacts'
  <2>1. Open' = Rows'
    <3>1. RowsFrom(1)' = Rows'
      <4>1. scheduled_seqs' = scheduled_seqs
        BY <1>1 DEF stepVars
      <4>2. scheduled_seqs \in Seq(Seqs)
        BY <1>3, EnvIs DEF CycleFacts, RunFacts, EnvTypes
      <4> QED BY <4>1, <4>2, LenProperties DEF RowsFrom, Rows, Range
    <3> QED BY <1>1, <3>1 DEF Open
  <2>2. DOMAIN coverage' = Rows' /\ phase' \in {"run", "commit", "emit", "finish"}
    BY <1>1, <1>8
  <2>3. \A s \in Rows' : /\ coverage'[s] \in Nat
                         /\ status'[s] = "RUNNING" =>
                              /\ coverage'[s] <= num_cached_tokens'[s] + (IF s \in Open' THEN 1 ELSE 0)
                              /\ HeldIn(block_table'[s], draft_kv', coverage'[s], token_ids'[s])
    BY <1>8, <1>10, <2>1
  <2> QED BY <1>5, <2>2, <2>3 DEF CoverFacts
<1>12. PlainInv'
  <2>1. (effective_k' = 0 <=> coverage' = Nothing) /\ undo' = Nothing
    BY <1>1, <1>3, <1>7, <1>9
  <2> QED BY <1>4, <1>5, <1>11, <2>1 DEF PlainInv
<1>13. StopInv'
  BY <1>1, <1>2, <1>3, <1>4, StopStays
<1>14. phase' \in Phases /\ phase' \notin Cycling /\ phase' \notin Committing /\ phase' \notin Undoing
  BY <1>1 DEF Phases, Cycling, Committing, Undoing
<1>15. CommonInv'
  BY <1>1, <1>2, <1>3, <1>4, <1>14 DEF CommonInv
<1>16. CycleInv' /\ CommitInv' /\ UndoInv'
  BY <1>14 DEF CycleInv, CommitInv, UndoInv
<1> QED BY <1>12, <1>13, <1>15, <1>16 DEF SInv
-----------------------------------------------------------------------------
(* The way back from a failure *)

\* The staged work is given back: the reservation if there still is one.
LEMMA AbortKeeps ==
  ASSUME SInv, mode' = mode, mode # "ordinary", abort_speculative_step
  PROVE  SInv'
<1>1. /\ phase = "abort" /\ phase' = "undo" /\ coverage' = Nothing /\ effective_k' = 0
      /\ UNCHANGED <<reqVars, rowVars, queueVars, stepVars>>
      /\ targets' = targets /\ failures' = failures /\ undo' = undo
  BY DEF abort_speculative_step
<1>2. /\ request' = request /\ status' = status /\ num_scheduled_tokens' = num_scheduled_tokens
      /\ is_prefill' = is_prefill /\ waiting' = waiting /\ running' = running
      /\ mid_chunk_seq' = mid_chunk_seq /\ scheduled_seqs' = scheduled_seqs
      /\ num_decodes' = num_decodes /\ num_batched_tokens' = num_batched_tokens /\ row' = row
  BY <1>1 DEF reqVars, rowVars, queueVars, stepVars
<1>3. phase \in Undoing /\ CommonInv /\ StopInv
  BY <1>1 DEF Undoing, SInv
<1>4. /\ undo = Nothing
      /\ IF reservation = TA!NoReservation
         THEN RunFacts(HostState, Env, block_table)
         ELSE CycleFacts(HostState, Env, kv, draft_kv)
  BY <1>3 DEF SInv, UndoInv
<1>5. /\ BMP!IInv' /\ reservation' = TA!NoReservation /\ token_ids' = token_ids
      /\ RunFacts(HostState', Env', block_table') /\ DraftFacts(HostState', draft_kv')
  <2>1. CASE reservation = TA!NoReservation
    <3>1. UNCHANGED <<bmVars, draftVars>>
      BY <2>1 DEF abort_speculative_step, TA!Live, TA!NoReservation
    <3>2. /\ token_ids' = token_ids /\ block_table' = block_table /\ kv' = kv /\ draft_kv' = draft_kv
          /\ reservation' = reservation
      BY <3>1 DEF bmVars, draftVars
    <3>3. HostState' = HostState
      <4>1. UNCHANGED <<free_block_ids, used_block_ids, hash_to_block_id, ref_count, block_hash,
                        reservation, token_ids, block_table, num_cached_tokens,
                        num_draft_cached_tokens, num_scheduled_tokens, status, running, waiting>>
        BY <1>2, <3>1 DEF bmVars, draftVars
      <4> QED BY <4>1, HostStays
    <3>4. Env' = Env
      BY <1>2, EnvStays
    <3>5. BMP!IInv /\ DraftFacts(HostState, draft_kv)
      BY <1>3 DEF CommonInv
    <3>6. BMP!IInv'
      BY <3>2, <3>3, <3>5, AllocIs, AllocNext
    <3>7. RunFacts(HostState', Env', block_table') /\ DraftFacts(HostState', draft_kv')
      BY <1>4, <2>1, <3>2, <3>3, <3>4, <3>5
    <3> QED BY <2>1, <3>2, <3>6, <3>7
  <2>2. CASE reservation # TA!NoReservation
    <3>1. CycleFacts(HostState, Env, kv, draft_kv)
      BY <1>4, <2>2
    <3>2. TA!rollback_temporary_append
      BY <3>1, LeaseLive DEF abort_speculative_step
    <3> QED BY <1>1, <3>1, <3>2, RollbackFacts
  <2> QED BY <2>1, <2>2
<1>6. UndoInv'
  BY <1>1, <1>4, <1>5 DEF UndoInv
<1>7. StopInv'
  BY <1>1, <1>2, <1>3, <1>4, <1>5, StopStays
<1>8. phase' \in Undoing /\ row' \in 0 .. MaxNumSeqs /\ failures' \in 0 .. MaxFailures /\ effective_k' \in Nat
  BY <1>1, <1>2, <1>3 DEF Undoing, CommonInv
<1> QED BY <1>1, <1>3, <1>5, <1>6, <1>7, <1>8, UndoMade

-----------------------------------------------------------------------------
(* The rows that a failed decode step goes back to *)

\* A step that ends in a phase of a plain step.
LEMMA PlainMade ==
  ASSUME mode' = mode, mode # "ordinary", CommonInv, phase' \in Phases, effective_k' \in Nat,
         IInv', PlainFacts', reservation' = TA!NoReservation, undo' = Nothing,
         effective_k' = 0 <=> coverage' = Nothing, coverage' # Nothing => CoverFacts',
         DraftFacts(HostState', draft_kv'), StopInv'
  PROVE  SInv'
<1>1. phase' \notin Cycling /\ phase' \notin Undoing /\ phase' \notin Committing
  BY PhasesApart
<1>2. BMP!IInv' /\ QueueTypes'
  BY DEF IInv, QInv
<1>3. targets' \in SUBSET Seqs /\ failures' \in 0 .. MaxFailures /\ row' \in 0 .. MaxNumSeqs
  BY <1>2 DEF QueueTypes
<1>4. CommonInv'
  BY <1>1, <1>2, <1>3 DEF CommonInv
<1>5. PlainInv'
  BY DEF PlainInv
<1>6. UndoInv' /\ CommitInv' /\ CycleInv'
  BY <1>1 DEF UndoInv, CommitInv, CycleInv
<1> QED BY <1>4, <1>5, <1>6 DEF SInv

\* The blocks of a decode row: one more than its cached tokens need, or as many.
LEMMA RowBlocks ==
  ASSUME NEW n \in Nat, NEW c \in Nat \ {0}, c = n - 1, NEW l \in Nat, l = BM!BlocksFor(n)
  PROVE  /\ BM!BlocksFor(c) \in Nat
         /\ l > BM!BlocksFor(c) => l - 1 = BM!BlocksFor(c) /\ l # 0 /\ c <= BlockSize * (l - 1)
         /\ ~(l > BM!BlocksFor(c)) => l = BM!BlocksFor(c)
<1>1. n \in Nat \ {0, 1} /\ n - 1 = c
  OBVIOUS
<1>2. PICK b \in Nat : b = BM!BlocksFor(c) /\ (\A k \in Nat : b <= k <=> c <= BlockSize * k)
  BY Blocks
<1>3. l = b + (IF n % BlockSize = 1 THEN 1 ELSE 0)
  BY <1>1, <1>2, NextBlock
<1>4. l = b \/ l = b + 1
  BY <1>3
<1>5. l > b => l - 1 = b
  BY <1>2, <1>4
<1>6. c <= BlockSize * b
  BY <1>2
<1> QED BY <1>2, <1>4, <1>5, <1>6

\* rollback_failed_decode_schedule takes back exactly the blocks that may_append gave.
LEMMA UndoneRows ==
  ASSUME RunFacts(HostState, Env, block_table), BMP!IInv
  PROVE  /\ Appended \in Seq(Seqs) /\ IsInjective(Appended)
         /\ \A s \in Range(Appended) :
              /\ s \in Rows /\ s \in Seqs
              /\ Len(block_table[s]) \in Nat \ {0}
              /\ Len(block_table[s]) - 1 = BM!BlocksFor(num_cached_tokens[s])
              /\ num_cached_tokens[s] <= BlockSize * (Len(block_table[s]) - 1)
         /\ \A s \in Rows \ Range(Appended) : Len(block_table[s]) = BM!BlocksFor(num_cached_tokens[s])
<1>1. scheduled_seqs \in Seq(Seqs) /\ IsInjective(scheduled_seqs) /\ Range(Env.rows) = Rows /\ Rows \subseteq Seqs
  <2>1. scheduled_seqs \in Seq(Seqs) /\ IsInjective(scheduled_seqs) /\ Range(Env.rows) = Rows
    BY EnvIs DEF RunFacts, EnvTypes, Rows
  <2> QED BY <2>1, RangeIs DEF Rows
<1>2. PICK S : S = {s \in Seqs : Len(block_table[s]) > BM!BlocksFor(num_cached_tokens[s])}
  OBVIOUS
<1>3. Appended \in Seq(Seqs) /\ IsInjective(Appended) /\ Range(Appended) = Rows \cap S
  BY <1>1, <1>2, KeepSpec DEF Appended, Rows
<1>4. ASSUME NEW s \in Rows
      PROVE  /\ s \in S => /\ Len(block_table[s]) \in Nat \ {0}
                           /\ Len(block_table[s]) - 1 = BM!BlocksFor(num_cached_tokens[s])
                           /\ num_cached_tokens[s] <= BlockSize * (Len(block_table[s]) - 1)
             /\ s \notin S => Len(block_table[s]) = BM!BlocksFor(num_cached_tokens[s])
  <2>1. s \in Seqs /\ s \in Range(Env.rows)
    BY <1>1
  <2>2. BatchRow(HostState, block_table, s)
    BY <2>1 DEF RunFacts
  <2>3. token_ids[s] \in Seq(Token) /\ num_cached_tokens[s] \in Nat
    BY <2>1, HostIs DEF RunFacts, HostTypes
  <2>4. PICK n \in Nat : n = Len(token_ids[s])
    BY <2>3, LenProperties
  <2>5. PICK c \in Nat \ {0} : c = num_cached_tokens[s] /\ c = n - 1
    BY <2>2, <2>3, <2>4, HostIs DEF BatchRow
  <2>6. PICK l \in Nat : l = Len(block_table[s]) /\ l = BM!BlocksFor(n)
    BY <2>2, <2>4, Blocks, HostIs DEF BatchRow
  <2>7. /\ l > BM!BlocksFor(c) => l - 1 = BM!BlocksFor(c) /\ l # 0 /\ c <= BlockSize * (l - 1)
        /\ ~(l > BM!BlocksFor(c)) => l = BM!BlocksFor(c)
    BY <2>4, <2>5, <2>6, RowBlocks
  <2>8. s \in S <=> l > BM!BlocksFor(c)
    BY <1>2, <2>1, <2>5, <2>6
  <2> QED BY <2>5, <2>6, <2>7, <2>8
<1> QED BY <1>1, <1>3, <1>4

\* Nothing is taken back from nobody.
LEMMA RollbackNone ==
  ASSUME BM!TypeOK, BM!rollback_uncommitted_appends(<<>>)
  PROVE  UNCHANGED bmVars
<1>1. /\ free_block_ids \in Seq(BM!Blocks) /\ used_block_ids \in SUBSET BM!Blocks
      /\ ref_count \in [BM!Blocks -> Nat] /\ block_table \in [Seqs -> Seq(BM!Blocks)]
  BY DEF BM!TypeOK
<1>2. Len(<<>>) = 0 /\ 1 .. 0 = {} /\ Range(<<>>) = {}
  BY DEF Range
<1>3. PICK suffix : suffix = [i \in 1 .. Len(<<>>) |-> block_table[<<>>[i]][Len(block_table[<<>>[i]])]]
  OBVIOUS
<1>4. suffix = <<>>
  BY <1>2, <1>3
<1>5. /\ free_block_ids' = suffix \o free_block_ids
      /\ used_block_ids' = used_block_ids \ BM!Range(suffix)
      /\ ref_count' = [b \in BM!Blocks |-> IF b \in BM!Range(suffix) THEN 0 ELSE ref_count[b]]
      /\ block_table' = [s \in Seqs |->
           IF s \in BM!Range(<<>>)
           THEN SubSeq(block_table[s], 1, Len(block_table[s]) - 1)
           ELSE block_table[s]]
      /\ UNCHANGED <<block_hash, hash_to_block_id, token_ids, num_cached_tokens, kv>>
  BY <1>3 DEF BM!rollback_uncommitted_appends, BM!indexVars
<1>6. BM!Range(<<>>) = {}
  BY DEF BM!Range
<1>7. free_block_ids' = free_block_ids /\ used_block_ids' = used_block_ids
  BY <1>1, <1>4, <1>5, <1>6
<1>8. ref_count' = ref_count /\ block_table' = block_table
  BY <1>1, <1>4, <1>5, <1>6
<1> QED BY <1>5, <1>7, <1>8 DEF bmVars

\* Taking them back respects the allocator's contract.
LEMMA UndoAllowed ==
  ASSUME RunFacts(HostState, Env, block_table), BMP!IInv, BM!rollback_uncommitted_appends(Appended)
  PROVE  BM!Next \/ UNCHANGED bmVars
<1>1. PICK q : q = Appended
  OBVIOUS
<1>2. /\ q \in Seq(Seqs) /\ IsInjective(q)
      /\ \A s \in Range(q) : /\ s \in Seqs /\ Len(block_table[s]) \in Nat \ {0}
                             /\ num_cached_tokens[s] <= BlockSize * (Len(block_table[s]) - 1)
  BY <1>1, UndoneRows
<1>3. CASE q = <<>>
  BY <1>1, <1>3, AllocatorFacts, RollbackNone
<1>4. CASE q # <<>>
  <2>1. ASSUME NEW s \in Range(q) PROVE block_table[s] # <<>>
    BY <1>2, <2>1
  <2>2. BM!RollbackAppends(q)
    BY <1>1, <1>2, <2>1 DEF BM!RollbackAppends, BM!Range, Range
  <2>3. PICK n \in Nat : n = Len(q)
    BY <1>2, LenProperties
  <2>4. n # 0 /\ q \in [1 .. n -> Seqs]
    BY <1>2, <1>4, <2>3, LenProperties
  <2>5. n <= Cardinality(Seqs) /\ Cardinality(Seqs) \in Nat
    <3>1. IsFiniteSet(Seqs) /\ Range(q) \subseteq Seqs
      BY <1>2, SchedulerAssumption, RangeIs DEF SchedulerAssumption
    <3>2. Cardinality(Range(q)) = n
      BY <1>2, <2>3, RowCount
    <3> QED BY <3>1, <3>2, FS_Subset, FS_CardinalityType
  <2>6. q \in BM!RowGroups
    <3>1. n \in 1 .. Cardinality(Seqs)
      BY <2>3, <2>4, <2>5
    <3>2. BM!IsInjective(q) /\ BM!Cardinality(Seqs) = Cardinality(Seqs)
      BY <1>2 DEF BM!IsInjective, IsInjective, BM!Cardinality, Cardinality
    <3> QED BY <2>4, <3>1, <3>2 DEF BM!RowGroups
  <2> QED BY <2>2, <2>6 DEF BM!Next
<1> QED BY <1>3, <1>4

-----------------------------------------------------------------------------
(* The end of a failed decode step *)

\* rollback_failed_decode_schedule puts every row back to where it was scheduled from.
LEMMA UndoKeeps ==
  ASSUME SInv, mode' = mode, mode # "ordinary", rollback_failed_decode_schedule
  PROVE  SInv'
<1>1. /\ phase = "undo" /\ phase' = "failed" /\ BM!rollback_uncommitted_appends(Appended)
      /\ num_scheduled_tokens' = [s \in Seqs |-> IF s \in Rows THEN 0 ELSE num_scheduled_tokens[s]]
      /\ UNCHANGED <<reqVars, is_prefill, queueVars, stepVars, draftVars, cycleVars>>
      /\ targets' = targets /\ failures' = failures
  BY DEF rollback_failed_decode_schedule
<1>2. /\ request' = request /\ status' = status
      /\ is_prefill' = is_prefill /\ waiting' = waiting /\ running' = running
      /\ mid_chunk_seq' = mid_chunk_seq /\ scheduled_seqs' = scheduled_seqs
      /\ num_decodes' = num_decodes /\ num_batched_tokens' = num_batched_tokens /\ row' = row
      /\ num_draft_cached_tokens' = num_draft_cached_tokens /\ draft_kv' = draft_kv
      /\ reservation' = reservation
      /\ effective_k' = effective_k /\ coverage' = coverage /\ undo' = undo
  BY <1>1 DEF reqVars, queueVars, stepVars, draftVars, cycleVars
<1>3. phase \in Undoing /\ CommonInv /\ StopInv
  BY <1>1 DEF Undoing, SInv
<1>4. /\ undo = Nothing /\ effective_k = 0 /\ coverage = Nothing /\ reservation = TA!NoReservation
      /\ RunFacts(HostState, Env, block_table)
  BY <1>1, <1>3 DEF SInv, UndoInv
<1>5. BMP!IInv /\ DraftFacts(HostState, draft_kv)
  BY <1>3 DEF CommonInv
<1>6. BMP!IInv'
  BY <1>1, <1>4, <1>5, UndoAllowed, AllocatorKeeps
<1>7. /\ token_ids' = token_ids /\ num_cached_tokens' = num_cached_tokens /\ kv' = kv
      /\ block_table' = [s \in Seqs |-> IF s \in Range(Appended)
                                        THEN SubSeq(block_table[s], 1, Len(block_table[s]) - 1)
                                        ELSE block_table[s]]
  BY <1>1 DEF BM!rollback_uncommitted_appends, BM!Range, Range
<1>8. PICK J : J = HostState'
  OBVIOUS
<1>9. /\ J.tokens = token_ids /\ J.cached = num_cached_tokens /\ J.status = status
      /\ J.waiting = waiting /\ J.running = running /\ J.draft = num_draft_cached_tokens
      /\ J.tables = block_table' /\ J.scheduled = num_scheduled_tokens'
  BY <1>2, <1>7, <1>8, HostNext
<1>10. Env' = Env
  BY <1>2, EnvStays
<1>11. /\ Rows = Range(Env.rows) /\ running = scheduled_seqs /\ Rows \subseteq Seqs
       /\ HostTypes(HostState) /\ QueueFacts(HostState, Env) /\ EnvTypes(Env)
  <2>1. /\ Rows = Range(Env.rows) /\ running = scheduled_seqs /\ scheduled_seqs \in Seq(Seqs)
        /\ HostTypes(HostState) /\ QueueFacts(HostState, Env) /\ EnvTypes(Env)
    BY <1>4, HostIs, EnvIs DEF RunFacts, EnvTypes, Rows
  <2> QED BY <2>1, RangeIs DEF Rows
<1>12. block_table \in [Seqs -> Seq(BM!Blocks)]
  BY <1>5, AllocatorFacts DEF BM!TypeOK
<1>13. ASSUME NEW s \in Seqs
       PROVE  /\ s \in Rows => Len(block_table'[s]) = BM!BlocksFor(num_cached_tokens[s])
              /\ s \notin Rows => block_table'[s] = block_table[s]
              /\ \A i \in 1 .. Len(block_table'[s]) : block_table'[s][i] = block_table[s][i]
              /\ Len(block_table'[s]) \in Nat
  <2>1. PICK t \in Seq(BM!Blocks) : t = block_table[s]
    BY <1>12
  <2>2. CASE s \in Range(Appended)
    <3>1. /\ s \in Rows /\ Len(t) \in Nat \ {0} /\ Len(t) - 1 = BM!BlocksFor(num_cached_tokens[s])
      BY <1>4, <1>5, <2>1, <2>2, UndoneRows
    <3>2. block_table'[s] = SubSeq(t, 1, Len(t) - 1)
      BY <1>7, <2>1, <2>2
    <3>3. /\ Len(SubSeq(t, 1, Len(t) - 1)) = Len(t) - 1
          /\ \A i \in 1 .. Len(t) - 1 : SubSeq(t, 1, Len(t) - 1)[i] = t[i]
      BY <2>1, <3>1
    <3>4. Len(t) - 1 \in Nat
      BY <3>1
    <3> QED BY <2>1, <3>1, <3>2, <3>3, <3>4
  <2>3. CASE s \notin Range(Appended)
    <3>1. block_table'[s] = t /\ Len(t) \in Nat
      BY <1>7, <2>1, <2>3, LenProperties
    <3>2. s \in Rows => Len(t) = BM!BlocksFor(num_cached_tokens[s])
      BY <1>4, <1>5, <2>1, <2>3, UndoneRows
    <3> QED BY <2>1, <3>1, <3>2
  <2> QED BY <2>2, <2>3
<1>14. HostTypes(J) /\ QueueFacts(J, Env)
  <2>1. num_scheduled_tokens' \in [Seqs -> 0 .. MaxNumBatchedTokens]
    BY <1>1, <1>11, Constants, HostIs DEF HostTypes
  <2> QED BY <1>9, <1>11, <2>1, HostIs DEF HostTypes, QueueFacts
<1>15. ASSUME NEW s \in Seqs
       PROVE  /\ s \in Range(J.running) <=> J.status[s] = "RUNNING"
              /\ TokenFacts(J, Env, s)
              /\ IF s \in Range(J.running) THEN ReadyRow(J, s) ELSE WaitingTable(J, Env, J.tables, s)
  <2>1. /\ s \in Rows <=> status[s] = "RUNNING"
        /\ TokenFacts(HostState, Env, s)
        /\ s \in Rows => BatchRow(HostState, block_table, s)
        /\ s \notin Rows => WaitingTable(HostState, Env, block_table, s)
    BY <1>4, <1>11, HostIs DEF RunFacts
  <2>2. TokenFacts(J, Env, s)
    BY <1>9, <2>1, HostIs DEF TokenFacts
  <2>3. ASSUME s \in Rows PROVE ReadyRow(J, s)
    BY <1>9, <1>13, <2>1, <2>3, HostIs DEF ReadyRow, BatchRow
  <2>4. ASSUME s \notin Rows PROVE WaitingTable(J, Env, J.tables, s)
    BY <1>9, <1>13, <2>1, <2>4, HostIs DEF WaitingTable
  <2> QED BY <1>9, <1>11, <2>1, <2>2, <2>3, <2>4 DEF Rows
<1>16. RestFacts(J, Env)
  BY <1>11, <1>14, <1>15 DEF RestFacts, EnvTypes
<1>17. RestTypes'
  BY <1>1, <1>2, <1>3, <1>11, Constants, EnvIs DEF RestTypes, EnvTypes, CommonInv
<1>18. IInv' /\ PlainFacts'
  <2>1. (RestTypes /\ RestFacts(HostState, Env) /\ BMP!IInv => IInv /\ PlainFacts)'
    BY RestIs, PTL
  <2> QED BY <1>6, <1>8, <1>10, <1>16, <1>17, <2>1
<1>19. DraftFacts(J, draft_kv')
  <2>1. TAP!AllocOK(HostState, kv) /\ TAP!AllocOK(J, kv)
    BY <1>5, <1>6, <1>7, <1>8, AllocIs, AllocNext
  <2>2. \A s \in Seqs : \A i \in 1 .. Len(HostState.tables[s]) :
          i <= Len(J.tables[s]) => J.tables[s][i] = HostState.tables[s][i]
    <3> SUFFICES ASSUME NEW s \in Seqs, NEW i \in 1 .. Len(HostState.tables[s]), i <= Len(J.tables[s])
                 PROVE  J.tables[s][i] = HostState.tables[s][i]
      OBVIOUS
    <3>1. PICK a \in Nat, b \in Nat : a = Len(J.tables[s]) /\ b = Len(HostState.tables[s])
      BY <1>9, <1>12, <1>13, HostIs, LenProperties
    <3>2. i \in 1 .. Len(J.tables[s])
      BY <3>1
    <3> QED BY <1>9, <1>13, <3>2, HostIs
  <2>3. J.tokens = HostState.tokens /\ J.cached = HostState.cached /\ J.draft = HostState.draft
    BY <1>9, HostIs
  <2> QED BY <1>2, <1>5, <2>1, <2>2, <2>3, DraftKept
<1>20. StopInv'
  BY <1>2, <1>3, <1>4, <1>7, StopStays
<1>21. phase' \in Phases /\ effective_k' \in Nat /\ (effective_k' = 0 <=> coverage' = Nothing)
  BY <1>1, <1>2, <1>4 DEF Phases
<1> QED BY <1>1, <1>2, <1>3, <1>4, <1>8, <1>18, <1>19, <1>20, <1>21, PlainMade

-----------------------------------------------------------------------------
(* The ordinary pass raises *)

\* The rows of a batch may be stored.
LEMMA StoreAllowed ==
  ASSUME IInv, phase = "run", BM!store_kvcache(slot_mapping) \/ UNCHANGED bmVars
  PROVE  BM!Next \/ UNCHANGED bmVars
<1>1. ASSUME BM!store_kvcache(slot_mapping) PROVE BM!Next
  <2>1. PICK n \in [Seqs -> 0 .. MaxModelLen + 1] :
          /\ slot_mapping = BM!PagedSlots(n)
          /\ \A s \in Seqs : n[s] > 0 => BM!Covered(s, n[s])
    BY BatchIsPaged
  <2>2. BM!Forward(n)
    BY <1>1, <2>1 DEF BM!Forward
  <2> QED BY <2>1, <2>2 DEF BM!Next
<1> QED BY <1>1

\* A pure decode step will be undone, any other has failed for good.
LEMMA RunFailsKeeps ==
  ASSUME SInv, mode' = mode, mode # "ordinary", SpeculativeRunFails
  PROVE  SInv'
<1>1. /\ phase = "run" /\ failures < MaxFailures /\ failures' = failures + 1
      /\ BM!store_kvcache(slot_mapping) \/ UNCHANGED bmVars
      /\ phase' = IF ragged THEN "failed" ELSE "abort"
      /\ UNCHANGED <<reqVars, rowVars, queueVars, stepVars, draftVars, cycleVars>>
      /\ targets' = targets
  BY DEF SpeculativeRunFails
<1>2. /\ request' = request /\ status' = status /\ num_scheduled_tokens' = num_scheduled_tokens
      /\ is_prefill' = is_prefill /\ waiting' = waiting /\ running' = running
      /\ mid_chunk_seq' = mid_chunk_seq /\ scheduled_seqs' = scheduled_seqs
      /\ num_decodes' = num_decodes /\ num_batched_tokens' = num_batched_tokens /\ row' = row
      /\ num_draft_cached_tokens' = num_draft_cached_tokens /\ draft_kv' = draft_kv
      /\ reservation' = reservation
      /\ effective_k' = effective_k /\ coverage' = coverage /\ undo' = undo
  BY <1>1 DEF reqVars, rowVars, queueVars, stepVars, draftVars, cycleVars
<1>3. phase \in Phases /\ CommonInv /\ StopInv
  BY <1>1 DEF Phases, SInv
<1>4. /\ IInv /\ PlainFacts /\ reservation = TA!NoReservation /\ undo = Nothing
      /\ (effective_k = 0 <=> coverage = Nothing)
      /\ coverage # Nothing => CoverFacts
  BY <1>3 DEF SInv, PlainInv
<1>5. /\ free_block_ids' = free_block_ids /\ used_block_ids' = used_block_ids /\ ref_count' = ref_count
      /\ block_hash' = block_hash /\ hash_to_block_id' = hash_to_block_id
      /\ token_ids' = token_ids /\ block_table' = block_table /\ num_cached_tokens' = num_cached_tokens
  BY <1>1 DEF BM!store_kvcache, BM!poolVars, BM!indexVars, BM!seqVars, bmVars
<1>6. HostState' = HostState /\ Env' = Env
  BY <1>2, <1>5, HostStays, EnvStays
<1>7. BMP!IInv'
  <2>1. BMP!IInv
    BY <1>4 DEF IInv
  <2> QED BY <1>1, <1>4, <2>1, StoreAllowed, AllocatorKeeps
<1>8. DraftFacts(HostState', draft_kv') /\ effective_k' \in Nat /\ row' \in 0 .. MaxNumSeqs
      /\ failures' \in 0 .. MaxFailures
  <2>1. failures \in 0 .. MaxFailures /\ MaxFailures \in Nat /\ row \in 0 .. MaxNumSeqs /\ effective_k \in Nat
        /\ DraftFacts(HostState, draft_kv)
    BY <1>3, SchedulerAssumption DEF CommonInv, SchedulerAssumption
  <2>2. failures' \in 0 .. MaxFailures
    BY <1>1, <2>1
  <2> QED BY <1>2, <1>6, <2>1, <2>2
<1>9. StopInv'
  BY <1>2, <1>3, <1>4, <1>5, StopStays
<1>10. CASE ~ragged
  <2>1. RunFacts(HostState, Env, block_table)
    BY <1>1, <1>10, PlainBatch
  <2>2. phase' = "abort" /\ phase' \in Undoing
    BY <1>1, <1>10 DEF Undoing
  <2>3. RunFacts(HostState', Env', block_table')
    BY <1>5, <1>6, <2>1
  <2>4. UndoInv'
    BY <1>2, <1>4, <2>2, <2>3 DEF UndoInv
  <2> QED BY <1>1, <1>3, <1>7, <1>8, <1>9, <2>2, <2>4, UndoMade
<1>11. CASE ragged
  <2>1. RunFails
    BY <1>1, <1>11 DEF RunFails
  <2>2. IInv'
    <3>1. Next /\ ~Retry
      BY <1>1, <2>1 DEF Next, Retry
    <3> QED BY <1>4, <3>1, NextInv
  <2>3. ragged' /\ phase' = "failed" /\ phase' \in Phases
    BY <1>1, <1>2, <1>11 DEF ragged, Phases
  <2>4. PlainFacts'
    <3>1. Cardinality(Unended(status)) <= MaxNumSeqs
      BY <1>4 DEF PlainFacts
    <3>2. Cardinality(Unended(status'))  <= MaxNumSeqs
      BY <1>2, <3>1
    <3> QED BY <2>3, <3>2 DEF PlainFacts
  <2>5. coverage' = Nothing
    BY <1>2, <1>4, <1>11 DEF CoverFacts
  <2>6. (effective_k' = 0 <=> coverage' = Nothing) /\ undo' = Nothing /\ reservation' = TA!NoReservation
    BY <1>2, <1>4
  <2> QED BY <1>3, <1>8, <1>9, <2>2, <2>3, <2>4, <2>5, <2>6, PlainMade
<1> QED BY <1>10, <1>11

-----------------------------------------------------------------------------
(* The commit raises *)

\* What the facts of a cycle read of a host state.
SameHost(H, J) ==
  /\ H.free = J.free /\ H.used = J.used /\ H.index = J.index /\ H.refs = J.refs /\ H.hashes = J.hashes
  /\ H.reservation = J.reservation /\ H.draft = J.draft /\ H.tables = J.tables /\ SameRows(H, J)

\* A cycle is one also of the record that commit_speculative saved of its state.
LEMMA CycleSame ==
  ASSUME NEW H, NEW J, NEW E, NEW m, NEW d, SameHost(H, J), CycleFacts(H, E, m, d)
  PROVE  CycleFacts(J, E, m, d)
<1>1. TAP!Before(J) = TAP!Before(H)
  BY DEF SameHost, SameRows, TAP!Before, TAP!Overlay
<1>2. TAP!Lease(J, m)
  <2>1. TAP!Borrowed(J) = TAP!Borrowed(H) /\ TAP!BorrowedBy(J) = TAP!BorrowedBy(H)
    BY DEF SameHost, TAP!Borrowed, TAP!BorrowedBy
  <2>2. PICK A, K, g : A = TAP!Before(H) /\ K = TAP!Borrowed(H) /\ g = TAP!BorrowedBy(H)
    OBVIOUS
  <2>3. TAP!Lease(H, m)
    BY DEF CycleFacts
  <2>4. TAP!Grown(A, H, K, g)
    BY <2>2, <2>3 DEF TAP!Lease
  <2>5. TAP!Grown(A, J, K, g)
    <3>1. /\ J.free = H.free /\ J.used = H.used /\ J.refs = H.refs /\ J.hashes = H.hashes /\ J.index = H.index
          /\ J.tokens = H.tokens /\ J.cached = H.cached /\ J.tables = H.tables
      BY DEF SameHost, SameRows
    <3> QED BY ONLY <2>4, <3>1 DEF TAP!Grown
  <2>6. TAP!Grown(TAP!Before(J), J, TAP!Borrowed(J), TAP!BorrowedBy(J))
    BY <1>1, <2>1, <2>2, <2>5
  <2> QED BY <1>1, <2>1, <2>3, <2>6 DEF SameHost, SameRows, TAP!Lease
<1>3. RunFacts(J, E, TAP!Before(J).tables)
  BY <1>1, RunSame DEF SameHost, CycleFacts
<1>4. DraftFacts(J, d)
  BY CoverSame DEF SameHost, SameCover, CycleFacts
<1> QED BY <1>2, <1>3, <1>4 DEF CycleFacts, SameHost

\* The except clause of commit_speculative restores what it saved, and so the whole cycle.
LEMMA CommitFailsKeeps ==
  ASSUME SInv, mode' = mode, mode # "ordinary", CommitFails
  PROVE  SInv'
<1>1. /\ phase \in Committing /\ failures < MaxFailures /\ failures' = failures + 1
      /\ undo' = Nothing /\ phase' = "abort"
  BY DEF CommitFails, Committing
<1>2. /\ free_block_ids' = undo.free /\ used_block_ids' = undo.used /\ hash_to_block_id' = undo.index
      /\ ref_count' = undo.refs /\ block_hash' = undo.hashes /\ reservation' = undo.reservation
      /\ token_ids' = undo.tokens /\ block_table' = undo.tables /\ num_cached_tokens' = undo.cached
      /\ num_draft_cached_tokens' = undo.draft /\ num_scheduled_tokens' = undo.scheduled
      /\ status' = undo.status /\ running' = undo.running /\ waiting' = undo.waiting
  BY DEF CommitFails, RestoredTokens, RestoredRunning
<1>3. /\ kv' = kv /\ draft_kv' = draft_kv /\ request' = request /\ is_prefill' = is_prefill
      /\ mid_chunk_seq' = mid_chunk_seq /\ scheduled_seqs' = scheduled_seqs
      /\ num_decodes' = num_decodes /\ num_batched_tokens' = num_batched_tokens /\ row' = row
      /\ targets' = targets /\ effective_k' = effective_k
  BY DEF CommitFails, stepVars
<1>4. CommonInv /\ StopInv /\ CycleFacts(undo, Env, kv, draft_kv) /\ undo # Nothing
  BY <1>1 DEF SInv, CommitInv
<1>5. PICK J : J = HostState'
  OBVIOUS
<1>6. SameHost(undo, J)
  BY <1>2, <1>5, HostNext DEF SameHost, SameRows
<1>7. CycleFacts(J, Env, kv, draft_kv)
  BY <1>4, <1>6, CycleSame
<1>8. Env' = Env
  BY <1>3, EnvStays
<1>9. CycleFacts(HostState', Env', kv', draft_kv')
  BY <1>3, <1>5, <1>7, <1>8
<1>10. StopInv'
  BY <1>1, <1>2, <1>3, <1>4 DEF StopInv, Stops, Delivered, GivenStatus
<1>11. failures' \in 0 .. MaxFailures /\ row' \in 0 .. MaxNumSeqs /\ effective_k' \in Nat
  <2>1. failures \in 0 .. MaxFailures /\ MaxFailures \in Nat /\ row \in 0 .. MaxNumSeqs /\ effective_k \in Nat
    BY <1>4, SchedulerAssumption DEF CommonInv, SchedulerAssumption
  <2> QED BY <1>1, <1>3, <2>1
<1> QED BY <1>1, <1>3, <1>4, <1>9, <1>10, <1>11, AbortMade

-----------------------------------------------------------------------------
(* The bursts that commit_speculative cuts *)

\* A burst that is cut short.
LEMMA CutText ==
  ASSUME NEW x \in Seq(Token), NEW b \in Seq(Token), NEW j \in 1 .. Len(b), NEW c, c = SubSeq(b, 1, j)
  PROVE  /\ c \in Seq(Token) /\ Len(c) = j
         /\ \A i \in 1 .. j : c[i] = b[i]
         /\ \A i \in 1 .. Len(x) + j : SubSeq(x \o c, 1, i) = SubSeq(x \o b, 1, i)
<1>1. PICK n \in Nat, l \in Nat : n = Len(x) /\ l = Len(b)
  BY LenProperties
<1>2. j \in Nat /\ j <= l /\ j >= 1
  BY <1>1
<1>4. c \in Seq(Token) /\ Len(c) = j /\ \A i \in 1 .. j : c[i] = b[i]
  BY <1>1, <1>2
<1>6. /\ x \o c \in Seq(Token) /\ Len(x \o c) = n + j
      /\ \A i \in 1 .. n : (x \o c)[i] = x[i]
      /\ \A i \in n + 1 .. n + j : (x \o c)[i] = c[i - n]
  BY <1>1, <1>2, <1>4
<1>7. /\ x \o b \in Seq(Token) /\ Len(x \o b) = n + l
      /\ \A i \in 1 .. n : (x \o b)[i] = x[i]
      /\ \A i \in n + 1 .. n + l : (x \o b)[i] = b[i - n]
  BY <1>1
<1>8. ASSUME NEW i \in 1 .. n + j PROVE (x \o c)[i] = (x \o b)[i]
  <2>1. CASE i \in 1 .. n
    BY <1>6, <1>7, <2>1
  <2>2. CASE i \in n + 1 .. n + j
    <3>0. \A A, N \in Nat : \A I \in N + 1 .. N + A : I - N \in 1 .. A
      OBVIOUS
    <3>1. i - n \in 1 .. j
      BY <1>1, <1>2, <2>2, <3>0
    <3>2. i \in n + 1 .. n + l
      BY <1>1, <1>2, <2>2
    <3> QED BY <1>4, <1>6, <1>7, <2>2, <3>1, <3>2
  <2> QED BY <1>1, <1>2, <1>8, <2>1, <2>2
<1>9. ASSUME NEW i \in 1 .. n + j PROVE SubSeq(x \o c, 1, i) = SubSeq(x \o b, 1, i)
  <2>1. i \in Nat /\ i <= n + j /\ i <= n + l /\ \A h \in 1 .. i : h \in 1 .. n + j
    BY <1>1, <1>2, <1>9
  <2>2. \A h \in 1 .. i : (x \o c)[h] = (x \o b)[h]
    BY <1>8, <2>1
  <2> QED BY <1>6, <1>7, <2>1, <2>2, SamePrefix
<1> QED BY <1>1, <1>4, <1>9

\* What is left of it is held, too.
LEMMA HeldCut ==
  ASSUME NEW t, NEW m, NEW d, NEW k \in Nat \ {0}, NEW n \in Nat, NEW x \in Seq(Token), n <= Len(x),
         NEW b \in Seq(Token), NEW j \in 1 .. Len(b), NEW c, c = SubSeq(b, 1, j),
         NEW l \in Nat, n + Len(b) <= BlockSize * l, BurstHeld(t, m, d, k, n, x, b)
  PROVE  BurstHeld(t, m, d, k, n, x, c)
<1>1. PICK L \in Nat, B \in Nat, X \in Nat : L = Len(b) /\ B = BlockSize * l /\ X = Len(x)
  <2>1. Len(b) \in Nat /\ Len(x) \in Nat
    BY LenProperties
  <2>2. BlockSize * l \in Nat
    BY Constants
  <2> QED BY <2>1, <2>2
<1>2. j \in Nat /\ j <= L /\ n + L <= B /\ n <= X
  BY <1>1
<1>3. Len(c) = j /\ \A i \in 1 .. X + j : SubSeq(x \o c, 1, i) = SubSeq(x \o b, 1, i)
  BY <1>1, CutText
<1>4. \A i \in 1 .. l : t[i] = t[i]
  OBVIOUS
<1>5. ASSUME NEW e, NEW w \in Nat, NEW N \in Nat, N <= w, N <= n + j, HeldIn(t, e, w, x \o b)
      PROVE  HeldIn(t, e, N, x \o c)
  <2>1. HeldIn(t, e, N, x \o b)
    BY <1>5, HeldFewer
  <2>2. N <= BlockSize * l
    BY <1>1, <1>2, <1>5
  <2>3. \A i \in 1 .. N : i \in 1 .. X + j
    BY <1>1, <1>2, <1>5
  <2>4. \A i \in 1 .. N : SubSeq(x \o c, 1, i) = SubSeq(x \o b, 1, i)
    BY <1>3, <2>3
  <2> QED BY <1>4, <2>1, <2>2, <2>4, HeldStays
<1>6. HeldIn(t, m, n + Len(c), x \o c)
  <2>1. n + L \in Nat /\ n + j \in Nat /\ n + j <= n + L
    BY <1>1, <1>2
  <2>2. HeldIn(t, m, n + L, x \o b)
    BY <1>1 DEF BurstHeld
  <2>3. HeldIn(t, m, n + j, x \o c)
    BY <1>5, <2>1, <2>2
  <2> QED BY <1>3, <2>3
<1>7. HeldIn(t, d, n + Smaller(Len(c), k), x \o c)
  <2>1. PICK S \in Nat, R \in Nat : S = Smaller(j, k) /\ R = Smaller(L, k) /\ S <= R /\ S <= j
    <3>1. \A A, N, K \in Nat : A <= N => /\ Smaller(A, K) \in Nat /\ Smaller(N, K) \in Nat
                                         /\ Smaller(A, K) <= Smaller(N, K) /\ Smaller(A, K) <= A
      BY DEF Smaller
    <3>2. j \in Nat /\ L \in Nat /\ k \in Nat /\ j <= L
      BY <1>1, <1>2
    <3>3. /\ Smaller(j, k) \in Nat /\ Smaller(L, k) \in Nat
          /\ Smaller(j, k) <= Smaller(L, k) /\ Smaller(j, k) <= j
      BY <3>1, <3>2
    <3> QED BY <3>3
  <2>2. n + S \in Nat /\ n + R \in Nat /\ n + S <= n + R /\ n + S <= n + j
    BY <1>2, <2>1
  <2>3. HeldIn(t, d, n + R, x \o b)
    BY <1>1, <2>1 DEF BurstHeld
  <2>4. HeldIn(t, d, n + S, x \o c)
    BY <1>5, <2>2, <2>3
  <2> QED BY <1>3, <2>1, <2>4
<1> QED BY <1>6, <1>7 DEF BurstHeld

\* What follows the first m tokens.
LEMMA RestLen ==
  ASSUME NEW q \in Seq(Token), NEW m \in Nat, m <= Len(q)
  PROVE  Len(SubSeq(q, m + 1, Len(q))) = Len(q) - m
<1>1. PICK n \in Nat : n = Len(q)
  BY LenProperties
<1>2. \A i \in m + 1 .. n : q[i] \in Token
  BY <1>1
<1>3. m + 1 \in Int /\ n \in Int
  BY <1>1
<1>4. Len(SubSeq(q, m + 1, n)) = IF m + 1 <= n THEN n - (m + 1) + 1 ELSE 0
  BY <1>2, <1>3, SubSeqProperties
<1> QED BY <1>1, <1>4

\* The tokens a request may still get.
LEMMA RemainingIs ==
  ASSUME NEW s, token_ids[s] \in Seq(Token), NEW n \in Nat, NEW m \in Nat, NEW x \in Nat,
         n = Len(token_ids[s]), m = Len(request[s].prompt), x = request[s].max_tokens,
         m <= n, n <= m + x
  PROVE  RemainingTokens(s) = m + x - n
<1>1. Len(Completion(s)) = n - m
  BY RestLen DEF Completion
<1>2. RemainingTokens(s) = AtLeastZero(x - (n - m))
  BY <1>1 DEF RemainingTokens
<1>3. ~(x - (n - m) < 0) /\ x - (n - m) = m + x - n
  BY ONLY n \in Nat, m \in Nat, x \in Nat, m <= n, n <= m + x
<1> QED BY <1>2, <1>3 DEF AtLeastZero

\* A burst is cut at the token limit and at the first end-of-sequence token.
LEMMA CommittedIs ==
  ASSUME NEW s, token_ids[s] \in Seq(Token), Len(request[s].prompt) \in Nat, request[s].max_tokens \in Nat,
         Len(request[s].prompt) <= Len(token_ids[s]),
         Len(token_ids[s]) < Len(request[s].prompt) + request[s].max_tokens,
         NEW b \in Seq(Token), b = burst[s], Len(b) >= 1
  PROVE  \E j \in 1 .. Len(b) :
           /\ Committed(s) = SubSeq(b, 1, j)
           /\ Len(token_ids[s]) + j <= Len(request[s].prompt) + request[s].max_tokens
           /\ EndsOnce(request[s], Committed(s))
<1>1. PICK n \in Nat, m \in Nat, x \in Nat, L \in Nat :
        /\ n = Len(token_ids[s]) /\ m = Len(request[s].prompt) /\ x = request[s].max_tokens /\ L = Len(b)
        /\ m <= n /\ n < m + x /\ L >= 1
  <2>1. Len(token_ids[s]) \in Nat /\ Len(b) \in Nat
    BY LenProperties
  <2> QED BY <2>1
<1>2. PICK r \in Nat : r = RemainingTokens(s) /\ r = m + x - n /\ r >= 1
  <2>1. RemainingTokens(s) = m + x - n
    BY <1>1, RemainingIs
  <2>2. m + x - n \in Nat /\ m + x - n >= 1
    <3>1. n < m + x /\ m \in Nat /\ n \in Nat /\ x \in Nat
      BY <1>1
    <3> QED BY ONLY <3>1
  <2> QED BY <2>1, <2>2
<1>3. PICK ends : ends = {i \in 1 .. Len(b) : ~request[s].ignore_eos /\ b[i] = EOS}
  OBVIOUS
<1>4. PICK S : S = ends \cup {L, r}
  OBVIOUS
<1>5. S \subseteq Nat /\ S # {} /\ L \in S /\ r \in S /\ ends \subseteq S /\ \A y \in S : y >= 1
  <2>1. \A y \in ends : y \in Nat /\ y >= 1
    BY <1>1, <1>3
  <2>2. L \in Nat /\ r \in Nat /\ L >= 1 /\ r >= 1
    BY <1>1, <1>2
  <2> QED BY <1>4, <2>1, <2>2
<1>6. PICK j : j = Min(S) /\ j \in S /\ \A y \in S : j <= y
  BY <1>5, MinIs
<1>7. j \in Nat /\ j >= 1 /\ j <= L /\ j <= r
  BY <1>5, <1>6
<1>8. j \in 1 .. Len(b)
  BY <1>1, <1>7
<1>9. Committed(s) = SubSeq(b, 1, j)
  BY <1>1, <1>2, <1>3, <1>4, <1>6 DEF Committed
<1>10. n + j <= m + x
  <2>1. j \in Nat /\ j <= r /\ r = m + x - n
    BY <1>2, <1>7
  <2> QED BY ONLY <2>1, m \in Nat, n \in Nat, x \in Nat, r \in Nat
<1>11. EndsOnce(request[s], Committed(s))
  <2>1. PICK c : c = Committed(s)
    OBVIOUS
  <2>2. Len(c) = j /\ \A i \in 1 .. j : c[i] = b[i]
    BY <1>8, <1>9, <2>1, CutText
  <2>3. ASSUME NEW i \in 1 .. Len(c), ~request[s].ignore_eos, c[i] = EOS PROVE i = Len(c)
    <3>1. i \in 1 .. j /\ i \in 1 .. Len(b) /\ b[i] = EOS
      BY <1>1, <1>7, <2>2, <2>3
    <3>2. i \in ends
      BY <1>3, <2>3, <3>1
    <3>3. j <= i
      BY <1>5, <1>6, <3>2
    <3> QED BY <1>7, <2>2, <3>1, <3>3
  <2> QED BY <2>1, <2>3 DEF EndsOnce
<1> QED BY <1>1, <1>8, <1>9, <1>10, <1>11

-----------------------------------------------------------------------------
(* The commit begins *)

\* A step within a commit.
LEMMA CommitMade ==
  ASSUME mode' = mode, mode # "ordinary", CommonInv, phase' \in Committing, row' \in 0 .. MaxNumSeqs,
         targets' = targets, failures' = failures, effective_k' \in Nat, CommitInv', StopInv',
         BMP!IInv', DraftFacts(HostState', draft_kv')
  PROVE  SInv'
<1>1. phase' \notin Cycling /\ phase' \notin Phases /\ phase' \notin Undoing
  BY PhasesApart
<1>2. CommonInv'
  BY <1>1 DEF CommonInv
<1>3. PlainInv' /\ UndoInv' /\ CycleInv'
  BY <1>1 DEF PlainInv, UndoInv, CycleInv
<1> QED BY <1>2, <1>3 DEF SInv

\* A burst stays held in a table with the same first blocks.
LEMMA BurstStays ==
  ASSUME NEW t, NEW u, NEW m, NEW d, NEW k \in Nat \ {0}, NEW n \in Nat, NEW x, NEW b, Len(b) \in Nat,
         NEW l \in Nat, n + Len(b) <= BlockSize * l, \A i \in 1 .. l : u[i] = t[i],
         BurstHeld(t, m, d, k, n, x, b)
  PROVE  BurstHeld(u, m, d, k, n, x, b)
<1>1. PICK L \in Nat : L = Len(b)
  OBVIOUS
<1>0. PICK y : y = x \o b
  OBVIOUS
<1>2. PICK S \in Nat : S = Smaller(L, k) /\ S <= L
  <2>1. Smaller(L, k) \in Nat /\ Smaller(L, k) <= L
    BY DEF Smaller
  <2> QED BY <2>1
<1>3. \A j : SubSeq(y, 1, j) = SubSeq(y, 1, j)
  OBVIOUS
<1>4. HeldIn(t, m, n + L, y) /\ HeldIn(t, d, n + S, y)
  BY <1>0, <1>1, <1>2 DEF BurstHeld
<1>5. n + L \in Nat /\ n + S \in Nat /\ n + L <= BlockSize * l
  BY <1>0, <1>1, <1>2
<1>6. n + S <= BlockSize * l
  <2>1. PICK B \in Nat : B = BlockSize * l
    BY Constants
  <2>2. n + L <= B
    BY <1>5, <2>1
  <2>3. n + S <= B
    BY <1>2, <2>1, <2>2
  <2> QED BY <2>1, <2>3
<1>7. HeldIn(u, m, n + L, y)
  BY <1>3, <1>4, <1>5, HeldStays
<1>8. HeldIn(u, d, n + S, y)
  BY <1>3, <1>4, <1>5, <1>6, HeldStays
<1> QED BY <1>0, <1>1, <1>2, <1>7, <1>8 DEF BurstHeld

\* What finalize_temporary_append leaves of the rows.
LEMMA FinalizeRows ==
  ASSUME CycleFacts(HostState, Env, kv, draft_kv), NEW c,
         TA!finalize_temporary_append([s \in Rows |-> BM!BlocksFor(c[s]) - Len(reservation.table_before[s])]),
         UNCHANGED <<num_scheduled_tokens, status, running, waiting>>,
         \A s \in Rows : c[s] \in Nat
  PROVE  /\ BMP!IInv' /\ reservation' = TA!NoReservation /\ kv' = kv /\ draft_kv' = draft_kv
         /\ SameRows(HostState, HostState') /\ num_draft_cached_tokens' = num_draft_cached_tokens
         /\ DraftFacts(HostState', draft_kv')
         /\ \A s \in Rows : Len(block_table'[s]) = BM!BlocksFor(c[s])
         /\ \A s \in Seqs : \A i \in 1 .. Len(block_table'[s]) : block_table'[s][i] = block_table[s][i]
         /\ \A s \in Seqs \ Rows : block_table'[s] = TAP!Before(HostState).tables[s]
<1>1. PICK keep : keep = [s \in Rows |-> BM!BlocksFor(c[s]) - Len(reservation.table_before[s])]
  OBVIOUS
<1>2. TAP!finalize_temporary_append(keep)
  BY <1>1, SameReservation
<1>3. /\ reservation' = TA!NoReservation /\ kv' = kv /\ draft_kv' = draft_kv /\ token_ids' = token_ids
      /\ num_cached_tokens' = num_cached_tokens /\ num_draft_cached_tokens' = num_draft_cached_tokens
  BY <1>2, SameReservation DEF TAP!finalize_temporary_append
<1>4. /\ TAP!Lease(HostState, kv) /\ TAP!IsNow(HostState) /\ DraftFacts(HostState, draft_kv)
      /\ reservation.rows = scheduled_seqs /\ TAP!LeaseTypes(reservation)
  BY HostNow, HostIs, EnvIs DEF CycleFacts, TAP!Lease
<1>5. TAP!Range(reservation.rows) = Rows /\ Rows \subseteq Seqs
  <2>1. scheduled_seqs \in Seq(Seqs)
    BY EnvIs DEF CycleFacts, RunFacts, EnvTypes
  <2> QED BY <1>4, <2>1, RangeIs DEF TAP!Range, Rows, Range
<1>6. /\ TAP!IInv'
      /\ \A s \in Seqs \ Rows : block_table'[s] = block_table[s]
      /\ \A s \in Rows :
           /\ keep[s] \in Nat
           /\ Len(block_table'[s]) = Len(TAP!Before(HostState).tables[s]) + keep[s]
           /\ Len(block_table'[s]) <= Len(block_table[s])
           /\ \A i \in 1 .. Len(block_table'[s]) : block_table'[s][i] = block_table[s][i]
  BY <1>2, <1>4, <1>5, ReservationAssumption, TAP!FinalizeKeeps DEF TAP!BlockManagerAssumption
<1>7. TAP!AllocOK(HostState, kv)
  BY <1>4, LeaseAlloc
<1>8. block_table \in [Seqs -> Seq(BM!Blocks)]
  BY <1>7, AllocFacts, HostIs
<1>9. ASSUME NEW s \in Seqs
      PROVE  TAP!Before(HostState).tables[s] = IF s \in Rows THEN reservation.table_before[s] ELSE block_table[s]
  BY <1>4, <1>5, <1>8, HostIs DEF TAP!Before, TAP!Overlay, TAP!LeaseTypes
<1>10. ASSUME NEW s \in Rows PROVE Len(block_table'[s]) = BM!BlocksFor(c[s])
  <2>1. PICK t : t = reservation.table_before[s]
    OBVIOUS
  <2>2. t \in Seq(BM!Blocks)
    BY <1>4, <1>5, <1>10, <2>1 DEF TAP!LeaseTypes, TAP!Blocks, BM!Blocks
  <2>3. PICK l \in Nat, b \in Nat : l = Len(t) /\ b = BM!BlocksFor(c[s])
    BY <1>10, <2>2, LenProperties, Blocks
  <2>4. Len(block_table'[s]) = l + (b - l)
    <3>1. keep[s] = b - l
      BY <1>1, <1>10, <2>1, <2>3
    <3>2. Len(TAP!Before(HostState).tables[s]) = l
      BY <1>5, <1>9, <1>10, <2>1, <2>3
    <3> QED BY <1>6, <1>10, <3>1, <3>2
  <2> QED BY <2>3, <2>4
<1>11. PICK J : J = HostState'
  OBVIOUS
<1>12. SameRows(HostState, J) /\ J.draft = HostState.draft /\ J.tables = block_table'
  BY <1>3, <1>11, HostIs, HostNext DEF SameRows
<1>13. TAP!AllocOK(J, kv')
  BY <1>6, <1>11, HostNext, ReservationAssumption, TAP!NextOK DEF TAP!BlockManagerAssumption
<1>14. BMP!IInv'
  BY <1>11, <1>13, AllocNext
<1>15. \A s \in Seqs : \A i \in 1 .. Len(block_table'[s]) : block_table'[s][i] = block_table[s][i]
  BY <1>6
<1>16. DraftFacts(J, draft_kv)
  <2>1. \A s \in Seqs : \A i \in 1 .. Len(HostState.tables[s]) :
          i <= Len(J.tables[s]) => J.tables[s][i] = HostState.tables[s][i]
    <3> SUFFICES ASSUME NEW s \in Seqs, NEW i \in 1 .. Len(HostState.tables[s]), i <= Len(J.tables[s])
                 PROVE  J.tables[s][i] = HostState.tables[s][i]
      OBVIOUS
    <3>1. PICK a \in Nat, b \in Nat : a = Len(J.tables[s]) /\ b = Len(HostState.tables[s])
      BY <1>7, <1>13, AllocFacts
    <3>2. i \in 1 .. Len(J.tables[s])
      BY <3>1
    <3> QED BY <1>12, <1>15, <3>2, HostIs
  <2> QED BY <1>3, <1>4, <1>7, <1>12, <1>13, <2>1, DraftKept DEF SameRows
<1>17. \A s \in Seqs \ Rows : block_table'[s] = TAP!Before(HostState).tables[s]
  BY <1>6, <1>9
<1> QED BY <1>3, <1>10, <1>11, <1>12, <1>14, <1>15, <1>16, <1>17

\* The burst of a row, once cut: it stays in bounds, and its table leads to it.
LEMMA CutRow ==
  ASSUME CycleFacts(HostState, Env, kv, draft_kv), BudgetFacts(HostState, Env, effective_k),
         AcceptFacts(HostState, Env, effective_k, kv, draft_kv, burst), NEW s \in Rows
  PROVE  /\ Committed(s) \in Seq(Token)
         /\ Len(Committed(s)) \in 1 .. effective_k + 1
         /\ Len(token_ids[s]) + Len(Committed(s)) <= Len(request[s].prompt) + request[s].max_tokens
         /\ EndsOnce(request[s], Committed(s))
         /\ BurstHeld(block_table[s], kv, draft_kv, effective_k, num_cached_tokens[s], token_ids[s], Committed(s))
         /\ num_cached_tokens[s] \in Nat
         /\ CachedAfter(s, Committed(s)) = num_cached_tokens[s] + Len(Committed(s))
<1>1. PICK H, E : H = HostState /\ E = Env
  OBVIOUS
<1>2. RunFacts(H, E, TAP!Before(H).tables)
  BY <1>1 DEF CycleFacts
<1>3. s \in Range(E.rows) /\ E.rows \in Seq(Seqs) /\ HostTypes(H)
  BY <1>1, <1>2, EnvIs DEF RunFacts, EnvTypes, Rows
<1>4. s \in Seqs
  BY <1>3, RangeIs
<1>5. /\ TokenFacts(H, E, s) /\ BatchRow(H, TAP!Before(H).tables, s) /\ H.status[s] = "RUNNING"
  BY <1>2, <1>3, <1>4 DEF RunFacts
<1>6. /\ H.tokens[s] \in Seq(Token) /\ H.cached[s] \in Nat
      /\ H.cached[s] = Len(H.tokens[s]) - 1
  BY <1>3, <1>4, <1>5 DEF HostTypes, BatchRow
<1>7. /\ E.request[s] \in Requests
      /\ Len(H.tokens[s]) >= Len(E.request[s].prompt)
      /\ Len(H.tokens[s]) < Len(E.request[s].prompt) + E.request[s].max_tokens
  BY <1>5 DEF TokenFacts, Pending
<1>8. /\ token_ids[s] \in Seq(Token) /\ num_cached_tokens[s] \in Nat
      /\ num_cached_tokens[s] = Len(token_ids[s]) - 1
      /\ Len(token_ids[s]) >= Len(request[s].prompt)
      /\ Len(token_ids[s]) < Len(request[s].prompt) + request[s].max_tokens
      /\ Len(request[s].prompt) \in Nat /\ request[s].max_tokens \in Nat
  <2>1. Len(E.request[s].prompt) \in Nat /\ E.request[s].max_tokens \in Nat
    BY <1>7, Constants
  <2> QED BY <1>1, <1>6, <1>7, <2>1, HostIs, EnvIs
<1>9. PICK b : b = burst[s]
  OBVIOUS
<1>10. /\ b \in Seq(Token) /\ Len(b) \in 1 .. effective_k + 1
       /\ BurstHeld(block_table[s], kv, draft_kv, effective_k, num_cached_tokens[s], token_ids[s], b)
  BY <1>1, <1>3, <1>9, HostIs DEF AcceptFacts
<1>11. PICK k \in Nat \ {0}, L \in Nat, n \in Nat, N \in Nat, l \in Nat, M \in Nat :
         /\ k = effective_k /\ L = Len(b) /\ n = num_cached_tokens[s] /\ N = Len(token_ids[s])
         /\ l = Len(block_table[s]) /\ M = BlockSize * l
  <2>1. effective_k \in Nat \ {0}
    BY DEF BudgetFacts
  <2>2. Len(b) \in Nat /\ num_cached_tokens[s] \in Nat /\ Len(token_ids[s]) \in Nat
    BY <1>8, <1>10
  <2>3. Len(block_table[s]) \in Nat
    <3>1. TAP!AllocOK(HostState, kv)
      BY LeaseAlloc DEF CycleFacts
    <3> QED BY <1>4, <3>1, AllocFacts, HostIs
  <2>4. BlockSize * Len(block_table[s]) \in Nat
    BY <2>3, Constants
  <2> QED BY <2>1, <2>2, <2>3, <2>4
<1>12. n + L <= M
  <2>1. N + k <= M
    BY <1>1, <1>3, <1>11, HostIs DEF BudgetFacts
  <2>2. n = N - 1 /\ L <= k + 1
    BY <1>8, <1>10, <1>11
  <2> QED BY <2>1, <2>2
<1>13. PICK j \in 1 .. Len(b) :
         /\ Committed(s) = SubSeq(b, 1, j)
         /\ Len(token_ids[s]) + j <= Len(request[s].prompt) + request[s].max_tokens
         /\ EndsOnce(request[s], Committed(s))
  BY <1>8, <1>9, <1>10, CommittedIs
<1>14. PICK c : c = SubSeq(b, 1, j)
  OBVIOUS
<1>15. c \in Seq(Token) /\ Len(c) = j
  BY <1>8, <1>10, <1>14, CutText
<1>16. BurstHeld(block_table[s], kv, draft_kv, effective_k, num_cached_tokens[s], token_ids[s], c)
  <2>1. num_cached_tokens[s] + Len(b) <= BlockSize * l
    BY <1>11, <1>12
  <2>2. effective_k \in Nat \ {0} /\ num_cached_tokens[s] <= Len(token_ids[s])
    BY <1>8, <1>11
  <2> QED BY <1>8, <1>10, <1>14, <2>1, <2>2, HeldCut
<1>17. j \in 1 .. effective_k + 1
  BY <1>10, <1>11
<1>18. CachedAfter(s, c) = num_cached_tokens[s] + Len(c)
  <2>1. CachedAfter(s, c) = N + j - 1
    BY <1>11, <1>15 DEF CachedAfter, BM!num_tokens
  <2>2. n = N - 1
    BY <1>8, <1>11
  <2> QED BY <1>11, <1>15, <2>1, <2>2
<1> QED BY <1>8, <1>13, <1>14, <1>15, <1>16, <1>17, <1>18

\* The state from which the rows are committed one by one.
LEMMA CommitStarts ==
  ASSUME CycleFacts(HostState, Env, kv, draft_kv), BudgetFacts(HostState, Env, effective_k),
         AcceptFacts(HostState, Env, effective_k, kv, draft_kv, burst),
         NEW J, NEW b, SameRows(HostState, J), J.reservation = TA!NoReservation,
         b = [s \in Rows |-> Committed(s)],
         \A s \in Rows : Len(J.tables[s]) = BM!BlocksFor(CachedAfter(s, b[s])),
         \A s \in Seqs : \A i \in 1 .. Len(J.tables[s]) : J.tables[s][i] = block_table[s][i],
         \A s \in Seqs \ Rows : J.tables[s] = TAP!Before(HostState).tables[s]
  PROVE  /\ CommitFacts(J, HostState, Env, effective_k, kv, draft_kv, b, 1)
         /\ RunningFacts(J, {})
         /\ AppendRow(J, HostState, effective_k, kv, draft_kv, b, scheduled_seqs[1])
<1>1. PICK H, E : H = HostState /\ E = Env
  OBVIOUS
<1>2. RunFacts(H, E, TAP!Before(H).tables) /\ E.rows = scheduled_seqs /\ Range(E.rows) = Rows
  BY <1>1, EnvIs DEF CycleFacts, Rows
<1>3. RunFacts(J, E, TAP!Before(H).tables)
  BY <1>1, <1>2, RunSame
<1>4. HostTypes(J) /\ QueueFacts(J, E) /\ EnvTypes(E) /\ J.running = E.rows
  BY <1>3 DEF RunFacts
<1>5. Rows \subseteq Seqs /\ \A i \in 1 .. Len(E.rows) : E.rows[i] \in Rows
  BY <1>2, <1>4, RangeIs DEF EnvTypes
<1>6. ASSUME NEW s \in Rows
      PROVE  /\ CutFacts(H, E, effective_k, b, s)
             /\ AppendRow(J, H, effective_k, kv, draft_kv, b, s)
  <2>1. b[s] = Committed(s)
    BY <1>6
  <2>2. /\ b[s] \in Seq(Token)
        /\ Len(b[s]) \in 1 .. effective_k + 1
        /\ Len(token_ids[s]) + Len(b[s]) <= Len(request[s].prompt) + request[s].max_tokens
        /\ EndsOnce(request[s], b[s])
        /\ BurstHeld(block_table[s], kv, draft_kv, effective_k, num_cached_tokens[s], token_ids[s], b[s])
        /\ num_cached_tokens[s] \in Nat
        /\ CachedAfter(s, b[s]) = num_cached_tokens[s] + Len(b[s])
    BY <1>6, <2>1, CutRow
  <2>3. CutFacts(H, E, effective_k, b, s)
    BY <1>1, <2>2, HostIs, EnvIs DEF CutFacts
  <2>4. effective_k \in Nat \ {0}
    BY DEF BudgetFacts
  <2>5. num_cached_tokens[s] + Len(b[s]) \in Nat /\ Len(b[s]) \in Nat
    BY <2>2
  <2>6. Len(J.tables[s]) = BM!BlocksFor(num_cached_tokens[s] + Len(b[s]))
    BY <1>6, <2>2
  <2>7. /\ Len(J.tables[s]) \in Nat
        /\ num_cached_tokens[s] + Len(b[s]) <= BlockSize * Len(J.tables[s])
    <3>1. PICK N \in Nat : N = num_cached_tokens[s] + Len(b[s])
      BY <2>5
    <3>2. PICK l \in Nat : l = BM!BlocksFor(N) /\ \A k \in Nat : BM!BlocksFor(N) <= k <=> N <= BlockSize * k
      BY <3>1, Blocks
    <3>3. l <= l
      BY ONLY l \in Nat
    <3>4. N <= BlockSize * l
      BY ONLY <3>2, <3>3, l \in Nat
    <3> QED BY ONLY <2>6, <3>1, <3>2, <3>4
  <2>8. BurstHeld(J.tables[s], kv, draft_kv, effective_k, num_cached_tokens[s], token_ids[s], b[s])
    <3>1. \A i \in 1 .. Len(J.tables[s]) : J.tables[s][i] = block_table[s][i]
      BY <1>5, <1>6
    <3>2. PICK t, u, n, x, q, l :
            /\ t = block_table[s] /\ u = J.tables[s] /\ n = num_cached_tokens[s] /\ x = token_ids[s]
            /\ q = b[s] /\ l = Len(J.tables[s])
      OBVIOUS
    <3>3. n \in Nat /\ l \in Nat /\ Len(q) \in Nat /\ n + Len(q) <= BlockSize * l /\ \A i \in 1 .. l : u[i] = t[i]
      BY <2>2, <2>5, <2>7, <3>1, <3>2
    <3>4. BurstHeld(t, kv, draft_kv, effective_k, n, x, q)
      BY <2>2, <3>2
    <3>5. BurstHeld(u, kv, draft_kv, effective_k, n, x, q)
      BY <2>4, <3>3, <3>4, BurstStays
    <3> QED BY <3>2, <3>5
  <2>9. J.status[s] = "RUNNING"
    BY <1>2, <1>3, <1>5, <1>6 DEF RunFacts
  <2>10. PendingRow(J, H, effective_k, kv, draft_kv, b, s) /\ J.tokens[s] = H.tokens[s]
    BY <1>1, <2>6, <2>8, <2>9, HostIs DEF PendingRow, SameRows
  <2> QED BY <2>3, <2>10 DEF AppendRow
<1>7. ASSUME NEW s \in Seqs \ Rows PROVE Bystander(J, H, E, s)
  <2>1. WaitingTable(J, E, TAP!Before(H).tables, s)
    BY <1>2, <1>3, <1>7 DEF RunFacts
  <2>2. WaitingTable(J, E, J.tables, s)
    BY <1>1, <1>7, <2>1 DEF WaitingTable
  <2> QED BY <1>1, <2>2 DEF Bystander, SameRows
<1>8. DOMAIN b = Rows
  OBVIOUS
<1>9. effective_k \in Nat \ {0} /\ effective_k < MaxNumBatchedTokens
  BY DEF BudgetFacts
<1>10. Len(E.rows) \in Nat \ {0}
  BY <1>4, EmptySeq, LenProperties DEF EnvTypes
<1>11. \A i \in 1 + 1 .. Len(E.rows) :
         /\ PendingRow(J, H, effective_k, kv, draft_kv, b, E.rows[i])
         /\ J.tokens[E.rows[i]] = H.tokens[E.rows[i]]
  <2> SUFFICES ASSUME NEW i \in 1 + 1 .. Len(E.rows)
               PROVE  AppendRow(J, H, effective_k, kv, draft_kv, b, E.rows[i])
    BY DEF AppendRow
  <2>1. E.rows[i] \in Rows
    BY <1>5, <1>10
  <2> QED BY <1>6, <2>1
<1>12. CommitFacts(J, H, E, effective_k, kv, draft_kv, b, 1)
  <2>1. 1 \in 1 .. Len(E.rows) /\ \A i \in 1 .. 1 - 1 : DoneRow(J, H, E, b, E.rows[i])
    BY <1>10
  <2> QED BY <1>2, <1>4, <1>6, <1>7, <1>8, <1>9, <1>11, <2>1 DEF CommitFacts
<1>13. RunningFacts(J, {})
  BY <1>3, <1>4 DEF RunFacts, RunningFacts
<1>14. AppendRow(J, H, effective_k, kv, draft_kv, b, scheduled_seqs[1])
  BY <1>2, <1>5, <1>6, <1>10
<1> QED BY <1>1, <1>12, <1>13, <1>14

\* finalize_temporary_append gives back the blocks no committed position needs.
LEMMA FinalizeKeeps ==
  ASSUME SInv, mode' = mode, mode # "ordinary", FinalizeReservation
  PROVE  SInv'
<1>1. /\ phase = "accept" /\ phase' = "append" /\ row' = 1 /\ undo' = HostState
      /\ burst' = [s \in Rows |-> Committed(s)]
      /\ TA!finalize_temporary_append(
           [s \in Rows |-> BM!BlocksFor(CachedAfter(s, Committed(s))) - Len(reservation.table_before[s])])
  BY DEF FinalizeReservation
<1>2. /\ request' = request /\ status' = status /\ num_scheduled_tokens' = num_scheduled_tokens
      /\ is_prefill' = is_prefill /\ waiting' = waiting /\ running' = running
      /\ mid_chunk_seq' = mid_chunk_seq /\ scheduled_seqs' = scheduled_seqs
      /\ num_decodes' = num_decodes /\ num_batched_tokens' = num_batched_tokens
      /\ targets' = targets /\ failures' = failures /\ effective_k' = effective_k /\ coverage' = coverage
  BY DEF FinalizeReservation, reqVars, rowVars, queueVars
<1>3. phase \in Cycling /\ phase' \in Committing
  BY <1>1 DEF Cycling, Committing
<1>4. /\ CommonInv /\ StopInv /\ undo = Nothing /\ coverage = Nothing
      /\ CycleFacts(HostState, Env, kv, draft_kv) /\ BudgetFacts(HostState, Env, effective_k)
      /\ AcceptFacts(HostState, Env, effective_k, kv, draft_kv, burst)
  BY <1>1, <1>3 DEF SInv, CycleInv
<1>5. PICK c : c = [s \in Rows |-> CachedAfter(s, Committed(s))]
  OBVIOUS
<1>6. \A s \in Rows : c[s] \in Nat
  <2> SUFFICES ASSUME NEW s \in Rows PROVE c[s] \in Nat
    OBVIOUS
  <2>1. /\ Len(Committed(s)) \in 1 .. effective_k + 1 /\ num_cached_tokens[s] \in Nat
        /\ CachedAfter(s, Committed(s)) = num_cached_tokens[s] + Len(Committed(s))
    BY <1>4, CutRow
  <2> QED BY <1>5, <2>1
<1>7. [s \in Rows |-> BM!BlocksFor(CachedAfter(s, Committed(s))) - Len(reservation.table_before[s])]
        = [s \in Rows |-> BM!BlocksFor(c[s]) - Len(reservation.table_before[s])]
  BY <1>5
<1>8. TA!finalize_temporary_append([s \in Rows |-> BM!BlocksFor(c[s]) - Len(reservation.table_before[s])])
  BY <1>1, <1>7
<1>9. UNCHANGED <<num_scheduled_tokens, status, running, waiting>>
  BY <1>2
<1>10. /\ BMP!IInv' /\ reservation' = TA!NoReservation /\ kv' = kv /\ draft_kv' = draft_kv
       /\ SameRows(HostState, HostState') /\ num_draft_cached_tokens' = num_draft_cached_tokens
       /\ DraftFacts(HostState', draft_kv')
       /\ \A s \in Rows : Len(block_table'[s]) = BM!BlocksFor(c[s])
       /\ \A s \in Seqs : \A i \in 1 .. Len(block_table'[s]) : block_table'[s][i] = block_table[s][i]
       /\ \A s \in Seqs \ Rows : block_table'[s] = TAP!Before(HostState).tables[s]
  BY <1>4, <1>6, <1>8, <1>9, FinalizeRows
<1>11. PICK J, b : J = HostState' /\ b = burst'
  OBVIOUS
<1>12. J.tables = block_table' /\ J.reservation = TA!NoReservation
  BY <1>10, <1>11, HostNext
<1>13. /\ CommitFacts(J, HostState, Env, effective_k, kv, draft_kv, b, 1)
       /\ RunningFacts(J, {})
       /\ AppendRow(J, HostState, effective_k, kv, draft_kv, b, scheduled_seqs[1])
  <2>1. SameRows(HostState, J) /\ b = [s \in Rows |-> Committed(s)]
    BY <1>1, <1>10, <1>11
  <2>2. \A s \in Rows : Len(J.tables[s]) = BM!BlocksFor(CachedAfter(s, b[s]))
    <3> SUFFICES ASSUME NEW s \in Rows PROVE Len(J.tables[s]) = BM!BlocksFor(CachedAfter(s, b[s]))
      OBVIOUS
    <3>1. b[s] = Committed(s) /\ c[s] = CachedAfter(s, Committed(s))
      BY <1>5, <2>1
    <3> QED BY <1>10, <1>12, <3>1
  <2>3. \A s \in Seqs : \A i \in 1 .. Len(J.tables[s]) : J.tables[s][i] = block_table[s][i]
    BY <1>10, <1>12
  <2>4. \A s \in Seqs \ Rows : J.tables[s] = TAP!Before(HostState).tables[s]
    BY <1>10, <1>12
  <2> QED BY <1>4, <1>12, <2>1, <2>2, <2>3, <2>4, CommitStarts
<1>14. Env' = Env
  BY <1>2, EnvStays
<1>15. undo' # Nothing
  BY <1>1, HostIs
<1>16. CommitInv'
  <2>1. CycleFacts(undo', Env', kv', draft_kv')
    BY <1>1, <1>4, <1>10, <1>14
  <2>2. CommitFacts(HostState', undo', Env', effective_k', kv', draft_kv', burst', row')
    BY <1>1, <1>2, <1>10, <1>11, <1>13, <1>14
  <2>3. RunningFacts(HostState', {})
    BY <1>11, <1>13
  <2>4. AppendRow(HostState', undo', effective_k', kv', draft_kv', burst', scheduled_seqs'[row'])
    BY <1>1, <1>2, <1>10, <1>11, <1>13
  <2>5. phase' = "append" /\ coverage' = Nothing
    BY <1>1, <1>2, <1>4
  <2> QED BY <1>15, <2>1, <2>2, <2>3, <2>4, <2>5 DEF CommitInv
<1>17. StopInv'
  <2>1. ASSUME NEW s \in Seqs PROVE Delivered(s)' = Delivered(s) /\ GivenStatus(s)' = GivenStatus(s)
    BY <1>1, <1>4, <1>15, HostIs DEF Delivered, GivenStatus
  <2> QED BY <1>2, <1>4, <2>1 DEF StopInv, Stops
<1>18. row' \in 0 .. MaxNumSeqs /\ effective_k' \in Nat
  BY <1>1, <1>2, <1>4, Constants DEF CommonInv
<1> QED BY <1>2, <1>3, <1>4, <1>10, <1>16, <1>17, <1>18, CommitMade

=============================================================================
