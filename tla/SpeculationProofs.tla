---------------------------- MODULE SpeculationProofs ----------------------------
(***************************************************************************)
(* The commit of a cycle, row by row, the steps of an engine between       *)
(* cycles, and the theorems about speculative decoding, which follow from  *)
(* SInv of SpeculationCycleProofs: the pool stays whole, the prefix cache  *)
(* sound, both caches hold what they are said to hold, cycles fit their    *)
(* budget, and users are given what one token at a time would have given   *)
(* them.                                                                   *)
(***************************************************************************)
EXTENDS SpeculationCycleProofs

-----------------------------------------------------------------------------
(* The commit, row by row *)

\* The rest of the batch, when only row r changes.
SameBut(H, J, s) ==
  \A x \in Seqs \ {s} :
    /\ J.tokens[x] = H.tokens[x] /\ J.status[x] = H.status[x]
    /\ J.cached[x] = H.cached[x] /\ J.tables[x] = H.tables[x]

\* A step of one row of a commit leaves the facts about the other rows.
LEMMA CommitOthers ==
  ASSUME NEW H, NEW J, NEW U, NEW E, NEW k, NEW m, NEW d, NEW b, NEW r, EnvTypes(E),
         CommitFacts(H, U, E, k, m, d, b, r), SameBut(H, J, E.rows[r]),
         HostTypes(J), QueueFacts(J, E), J.reservation = H.reservation
  PROVE  CommitFacts(J, U, E, k, m, d, b, r)
<1>1. /\ E.rows \in Seq(Seqs) /\ IsInjective(E.rows) /\ r \in 1 .. Len(E.rows) /\ Len(E.rows) \in Nat
      /\ E.rows[r] \in Range(E.rows)
  <2>1. E.rows \in Seq(Seqs) /\ IsInjective(E.rows) /\ r \in 1 .. Len(E.rows)
    BY DEF EnvTypes, CommitFacts
  <2> QED BY <2>1, RangeIs
<1>2. ASSUME NEW i \in 1 .. Len(E.rows), i # r PROVE E.rows[i] \in Seqs \ {E.rows[r]}
  <2>1. DOMAIN E.rows = 1 .. Len(E.rows) /\ E.rows[i] \in Seqs
    BY <1>1, <1>2, RangeIs
  <2> QED BY <1>1, <1>2, <2>1 DEF IsInjective
<1>3. ASSUME NEW i \in 1 .. r - 1 PROVE DoneRow(J, U, E, b, E.rows[i])
  <2>1. i \in 1 .. Len(E.rows) /\ i # r
    BY <1>1, <1>3
  <2>2. PICK x \in Seqs \ {E.rows[r]} : x = E.rows[i]
    BY <1>2, <2>1
  <2>3. DoneRow(H, U, E, b, x)
    BY <1>3, <2>2 DEF CommitFacts
  <2> QED BY <2>2, <2>3 DEF DoneRow, SameBut
<1>4. ASSUME NEW i \in r + 1 .. Len(E.rows)
      PROVE  PendingRow(J, U, k, m, d, b, E.rows[i]) /\ J.tokens[E.rows[i]] = U.tokens[E.rows[i]]
  <2>1. i \in 1 .. Len(E.rows) /\ i # r
    BY <1>1, <1>4
  <2>2. PICK x \in Seqs \ {E.rows[r]} : x = E.rows[i]
    BY <1>2, <2>1
  <2>3. PendingRow(H, U, k, m, d, b, x) /\ H.tokens[x] = U.tokens[x]
    BY <1>4, <2>2 DEF CommitFacts
  <2> QED BY <2>2, <2>3 DEF PendingRow, SameBut
<1>5. ASSUME NEW x \in Seqs \ Range(E.rows) PROVE Bystander(J, U, E, x)
  <2>1. x \in Seqs \ {E.rows[r]} /\ Bystander(H, U, E, x)
    BY <1>1, <1>5 DEF CommitFacts
  <2> QED BY <2>1 DEF Bystander, WaitingTable, SameBut
<1> QED BY <1>3, <1>4, <1>5 DEF CommitFacts

\* On to the next row.
LEMMA CommitGoesOn ==
  ASSUME NEW J, NEW U, NEW E, NEW k, NEW m, NEW d, NEW b, NEW r,
         CommitFacts(J, U, E, k, m, d, b, r), DoneRow(J, U, E, b, E.rows[r]),
         Len(E.rows) \in Nat, r < Len(E.rows)
  PROVE  CommitFacts(J, U, E, k, m, d, b, r + 1) /\ AppendRow(J, U, k, m, d, b, E.rows[r + 1])
<1>1. r \in 1 .. Len(E.rows) /\ r + 1 \in 1 .. Len(E.rows)
  BY DEF CommitFacts
<1>2. PICK R \in Nat : R = r + 1
  BY <1>1
<1>3. ASSUME NEW i \in 1 .. R - 1 PROVE DoneRow(J, U, E, b, E.rows[i])
  <2>1. i \in 1 .. r - 1 \/ i = r
    BY <1>1, <1>2, <1>3
  <2> QED BY <2>1 DEF CommitFacts
<1>4. ASSUME NEW i \in R + 1 .. Len(E.rows)
      PROVE  PendingRow(J, U, k, m, d, b, E.rows[i]) /\ J.tokens[E.rows[i]] = U.tokens[E.rows[i]]
  <2>1. i \in r + 1 .. Len(E.rows)
    BY <1>1, <1>2, <1>4
  <2> QED BY <2>1 DEF CommitFacts
<1>5. AppendRow(J, U, k, m, d, b, E.rows[R])
  <2>1. R \in r + 1 .. Len(E.rows)
    BY <1>1, <1>2
  <2> QED BY <2>1 DEF CommitFacts, AppendRow
<1>6. CommitFacts(J, U, E, k, m, d, b, R)
  BY <1>1, <1>2, <1>3, <1>4 DEF CommitFacts
<1> QED BY <1>2, <1>5, <1>6

\* After the last row the engine is between steps.
LEMMA CommitEnds ==
  ASSUME NEW J, NEW U, NEW E, NEW F, NEW T, NEW k, NEW m, NEW d, NEW b, NEW r,
         CommitFacts(J, U, E, k, m, d, b, r), DoneRow(J, U, E, b, E.rows[r]), r = Len(E.rows),
         RunningFacts(J, {}), RunFacts(U, E, T),
         F.request = E.request, F.prefill = E.prefill, F.mid = E.mid
  PROVE  RestFacts(J, F)
<1>1. /\ EnvTypes(E) /\ HostTypes(J) /\ QueueFacts(J, E) /\ HostTypes(U) /\ QueueFacts(U, E)
      /\ E.rows \in Seq(Seqs) /\ Len(E.rows) \in Nat
  <2>1. EnvTypes(E) /\ HostTypes(J) /\ QueueFacts(J, E) /\ HostTypes(U) /\ QueueFacts(U, E)
    BY DEF RunFacts, CommitFacts
  <2>2. E.rows \in Seq(Seqs)
    BY <2>1 DEF EnvTypes
  <2> QED BY <2>1, <2>2, LenProperties
<1>2. QueueFacts(J, F)
  BY <1>1 DEF QueueFacts
<1>3. ASSUME NEW x \in Range(E.rows) PROVE DoneRow(J, U, E, b, x)
  <2>1. PICK i \in 1 .. Len(E.rows) : x = E.rows[i]
    BY <1>1, <1>3, RangeIs
  <2>2. i \in 1 .. r - 1 \/ i = r
    BY <1>1, <2>1
  <2> QED BY <2>1, <2>2 DEF CommitFacts
<1>4. ASSUME NEW x \in Seqs, x \in Range(E.rows)
      PROVE  /\ TokenFacts(J, F, x)
             /\ J.status[x] = "RUNNING" => ReadyRow(J, x)
             /\ J.status[x] # "RUNNING" => WaitingTable(J, F, J.tables, x)
  <2>1. DoneRow(J, U, E, b, x) /\ CutFacts(U, E, k, b, x) /\ TokenFacts(U, E, x) /\ U.status[x] = "RUNNING"
    BY <1>3, <1>4 DEF CommitFacts, RunFacts
  <2>2. /\ E.request[x] \in Requests /\ Admissible(E.request[x])
        /\ Len(U.tokens[x]) >= Len(E.request[x].prompt)
    BY <2>1 DEF TokenFacts, Pending
  <2>3. /\ J.tokens[x] = U.tokens[x] \o b[x] /\ b[x] \in Seq(Token) /\ U.tokens[x] \in Seq(Token)
    BY <1>1, <1>4, <2>1 DEF DoneRow, CutFacts, HostTypes
  <2>4. PICK n \in Nat, l \in Nat, p \in Nat, M \in Nat :
          /\ n = Len(U.tokens[x]) /\ l = Len(b[x]) /\ p = Len(E.request[x].prompt)
          /\ M = E.request[x].max_tokens
    <3>1. Len(U.tokens[x]) \in Nat /\ Len(b[x]) \in Nat
      BY <2>3
    <3>2. Len(E.request[x].prompt) \in Nat /\ E.request[x].max_tokens \in Nat
      BY <2>2, Constants
    <3> QED BY <3>1, <3>2
  <2>5. Len(J.tokens[x]) = n + l
    BY <2>3, <2>4
  <2>6. n >= p /\ n + l >= p
    <3>1. n >= p
      BY <2>2, <2>4
    <3> QED BY ONLY <3>1, n \in Nat, p \in Nat, l \in Nat
  <2>7. CASE J.status[x] = "RUNNING"
    <3>1. ~EndsWith(E.request[x], J.tokens[x]) /\ ReadyRow(J, x)
      BY <2>1, <2>7 DEF DoneRow, ReadyRow
    <3>2. n + l < p + M
      <4>1. ~(n + l >= p + M)
        BY <2>4, <2>5, <3>1 DEF EndsWith
      <4> QED BY ONLY <4>1, n \in Nat, p \in Nat, l \in Nat, M \in Nat
    <3>3. TokenFacts(J, F, x)
      BY <2>2, <2>4, <2>5, <2>6, <2>7, <3>2 DEF TokenFacts
    <3> QED BY <2>7, <3>1, <3>3
  <2>8. CASE J.status[x] = "FINISHED" /\ J.tables[x] = <<>>
    <3>1. TokenFacts(J, F, x)
      BY <2>2, <2>4, <2>5, <2>6, <2>8 DEF TokenFacts, Pending
    <3>2. x # E.mid
      <4>1. ASSUME x = E.mid PROVE FALSE
        <5>1. E.mid # None
          BY <1>4, <4>1, Constants
        <5>2. U.waiting # <<>> /\ Head(U.waiting) = x /\ U.waiting \in Seq(Seqs)
          BY <1>1, <4>1, <5>1 DEF QueueFacts, HostTypes
        <5>3. x \in Range(U.waiting)
          BY <5>2, PopSpec
        <5> QED BY <1>1, <1>4, <2>1, <5>3 DEF QueueFacts
      <4> QED BY <4>1
    <3>3. WaitingTable(J, F, J.tables, x)
      BY <2>8, <3>2 DEF WaitingTable
    <3> QED BY <2>8, <3>1, <3>3
  <2> QED BY <2>1, <2>7, <2>8 DEF DoneRow
<1>5. ASSUME NEW x \in Seqs, x \notin Range(E.rows)
      PROVE  TokenFacts(J, F, x) /\ J.status[x] # "RUNNING" /\ WaitingTable(J, F, J.tables, x)
  <2>1. Bystander(J, U, E, x) /\ TokenFacts(U, E, x) /\ U.status[x] # "RUNNING"
    BY <1>5 DEF CommitFacts, RunFacts
  <2> QED BY <2>1 DEF Bystander, TokenFacts, WaitingTable
<1>6. ASSUME NEW x \in Seqs
      PROVE  /\ x \in Range(J.running) <=> J.status[x] = "RUNNING"
             /\ TokenFacts(J, F, x)
             /\ IF x \in Range(J.running) THEN ReadyRow(J, x) ELSE WaitingTable(J, F, J.tables, x)
  <2>1. x \in Range(J.running) <=> J.status[x] = "RUNNING"
    BY <1>6 DEF RunningFacts
  <2>2. CASE x \in Range(E.rows)
    BY <1>4, <1>6, <2>1, <2>2
  <2>3. CASE x \notin Range(E.rows)
    BY <1>5, <1>6, <2>1, <2>3
  <2> QED BY <2>2, <2>3
<1>7. /\ F.request \in [Seqs -> [prompt : Seq(Token), max_tokens : Nat, ignore_eos : BOOLEAN]]
      /\ F.prefill \in [Seqs -> BOOLEAN]
      /\ F.mid \in Seqs \cup {None}
  BY <1>1 DEF EnvTypes
<1> QED BY <1>1, <1>2, <1>6, <1>7 DEF RestFacts

\* The row that the commit is at.
LEMMA BurstRow ==
  ASSUME SInv, phase \in Committing, NEW s, s = scheduled_seqs[row]
  PROVE  /\ CycleFacts(undo, Env, kv, draft_kv) /\ RunFacts(undo, Env, TAP!Before(undo).tables) /\ EnvTypes(Env)
         /\ CommitFacts(HostState, undo, Env, effective_k, kv, draft_kv, burst, row)
         /\ RunningFacts(HostState, IF phase = "release" THEN {s} ELSE {})
         /\ coverage = Nothing /\ undo # Nothing /\ CommonInv /\ StopInv
         /\ s \in Seqs /\ s \in Rows /\ s = Env.rows[row] /\ Rows \subseteq Seqs
         /\ row \in 1 .. Len(scheduled_seqs) /\ Len(scheduled_seqs) \in 0 .. MaxNumSeqs
         /\ effective_k \in Nat \ {0} /\ effective_k < MaxNumBatchedTokens
         /\ CutFacts(undo, Env, effective_k, burst, s)
         /\ undo.tokens[s] \in Seq(Token) /\ undo.cached[s] \in Nat
         /\ undo.cached[s] = Len(undo.tokens[s]) - 1
<1>1. /\ CycleFacts(undo, Env, kv, draft_kv)
      /\ CommitFacts(HostState, undo, Env, effective_k, kv, draft_kv, burst, row)
      /\ RunningFacts(HostState, IF phase = "release" THEN {s} ELSE {})
      /\ coverage = Nothing /\ undo # Nothing /\ CommonInv /\ StopInv
  BY DEF SInv, CommitInv
<1>2. PICK T : T = TAP!Before(undo).tables
  OBVIOUS
<1>3. RunFacts(undo, Env, T)
  BY <1>1, <1>2 DEF CycleFacts
<1>4. EnvTypes(Env) /\ HostTypes(undo)
  BY <1>3 DEF RunFacts
<1>5. /\ scheduled_seqs \in Seq(Seqs) /\ row \in 1 .. Len(scheduled_seqs)
      /\ Len(scheduled_seqs) <= MaxNumSeqs
  BY <1>1, <1>4, EnvIs DEF EnvTypes, CommitFacts
<1>6. Len(scheduled_seqs) \in 0 .. MaxNumSeqs
  BY <1>5, LenProperties, Constants
<1>7. s \in Rows /\ Rows \subseteq Seqs
  BY <1>5, RangeIs DEF Rows
<1>8. s \in Range(Env.rows) /\ s = Env.rows[row]
  BY <1>7, EnvIs DEF Rows
<1>9. BatchRow(undo, T, s)
  BY <1>3, <1>7, <1>8 DEF RunFacts
<1>10. CutFacts(undo, Env, effective_k, burst, s) /\ effective_k \in Nat \ {0}
       /\ effective_k < MaxNumBatchedTokens
  BY <1>1, <1>8 DEF CommitFacts
<1>11. /\ undo.tokens[s] \in Seq(Token) /\ undo.cached[s] \in Nat
       /\ undo.cached[s] = Len(undo.tokens[s]) - 1
  BY <1>4, <1>7, <1>9 DEF HostTypes, BatchRow
<1> QED BY <1>1, <1>2, <1>3, <1>4, <1>5, <1>6, <1>7, <1>8, <1>10, <1>11

\* Tokens appended change nothing before them.
LEMMA AppendedText ==
  ASSUME NEW x \in Seq(Token), NEW y \in Seq(Token)
  PROVE  /\ x \o y \in Seq(Token) /\ Len(x \o y) = Len(x) + Len(y)
         /\ \A k \in 0 .. Len(x) : SubSeq(x \o y, 1, k) = SubSeq(x, 1, k)
<1>1. x \o y \in Seq(Token) /\ Len(x \o y) = Len(x) + Len(y)
  OBVIOUS
<1>2. \A i \in 1 .. Len(x) : (x \o y)[i] = x[i]
  OBVIOUS
<1>3. PICK z : z = x \o y
  OBVIOUS
<1>4. PICK n \in Nat, l \in Nat : n = Len(x) /\ l = Len(z) /\ n <= l
  BY <1>1, <1>3
<1>5. ASSUME NEW k \in 0 .. n PROVE SubSeq(z, 1, k) = SubSeq(x, 1, k)
  <2>1. z \in Seq(Token) /\ \A i \in 1 .. k : z[i] = x[i]
    BY <1>1, <1>2, <1>3, <1>4, <1>5
  <2> QED BY <1>4, <1>5, <2>1
<1> QED BY <1>1, <1>3, <1>4, <1>5

\* The tokens of a burst are appended to its row.
LEMMA AppendKeeps ==
  ASSUME SInv, mode' = mode, mode # "ordinary", AppendBurst
  PROVE  SInv'
<1>1. PICK s : s = scheduled_seqs[row]
  OBVIOUS
<1>2. /\ phase = "append" /\ phase' = "publish"
      /\ token_ids' = [token_ids EXCEPT ![s] = @ \o burst[s]]
      /\ num_scheduled_tokens' =
           [num_scheduled_tokens EXCEPT ![s] = CachedAfter(s, burst[s]) - num_cached_tokens[s]]
  BY <1>1 DEF AppendBurst
<1>3. /\ UNCHANGED <<free_block_ids, used_block_ids, ref_count, block_hash, hash_to_block_id, block_table>>
      /\ num_cached_tokens' = num_cached_tokens /\ kv' = kv /\ block_table' = block_table
      /\ request' = request /\ status' = status /\ is_prefill' = is_prefill
      /\ waiting' = waiting /\ running' = running /\ mid_chunk_seq' = mid_chunk_seq
      /\ scheduled_seqs' = scheduled_seqs /\ num_decodes' = num_decodes
      /\ num_batched_tokens' = num_batched_tokens /\ row' = row
      /\ targets' = targets /\ failures' = failures
      /\ num_draft_cached_tokens' = num_draft_cached_tokens /\ draft_kv' = draft_kv
      /\ reservation' = reservation /\ effective_k' = effective_k
      /\ burst' = burst /\ coverage' = coverage /\ undo' = undo
  BY DEF AppendBurst, reqVars, queueVars, stepVars, draftVars, cycleVars
<1>4. phase \in Committing /\ phase' \in Committing
  BY <1>2 DEF Committing
<1>5. PICK H, E, U, k, b, J : H = HostState /\ E = Env /\ U = undo /\ k = effective_k /\ b = burst /\ J = HostState'
  OBVIOUS
<1>6. /\ CycleFacts(U, E, kv, draft_kv) /\ EnvTypes(E) /\ CommitFacts(H, U, E, k, kv, draft_kv, b, row)
      /\ RunningFacts(H, {}) /\ coverage = Nothing /\ undo # Nothing /\ CommonInv /\ StopInv
      /\ s \in Seqs /\ s \in Rows /\ s = E.rows[row] /\ row \in 1 .. Len(scheduled_seqs)
      /\ Len(scheduled_seqs) \in 0 .. MaxNumSeqs
      /\ k \in Nat \ {0} /\ k < MaxNumBatchedTokens
      /\ CutFacts(U, E, k, b, s) /\ U.tokens[s] \in Seq(Token) /\ U.cached[s] \in Nat
      /\ U.cached[s] = Len(U.tokens[s]) - 1
  BY <1>1, <1>2, <1>4, <1>5, BurstRow
<1>7. AppendRow(H, U, k, kv, draft_kv, b, s)
  BY <1>1, <1>2, <1>4, <1>5 DEF SInv, CommitInv
<1>8. /\ H.tokens = token_ids /\ H.tables = block_table /\ H.cached = num_cached_tokens /\ H.status = status
      /\ H.scheduled = num_scheduled_tokens /\ H.running = running /\ H.waiting = waiting
      /\ H.draft = num_draft_cached_tokens /\ H.reservation = reservation
      /\ J.tokens = token_ids' /\ J.tables = block_table /\ J.cached = num_cached_tokens /\ J.status = status
      /\ J.scheduled = num_scheduled_tokens' /\ J.running = running /\ J.waiting = waiting
      /\ J.draft = num_draft_cached_tokens /\ J.reservation = reservation
  BY <1>3, <1>5, HostIs, HostNext
<1>9. HostTypes(H) /\ QueueFacts(H, E) /\ BMP!IInv /\ DraftFacts(H, draft_kv)
  BY <1>5, <1>6 DEF CommitFacts, CommonInv
<1>10. /\ token_ids[s] = U.tokens[s] /\ num_cached_tokens[s] = U.cached[s]
       /\ b[s] \in Seq(Token) /\ token_ids[s] \in Seq(Token)
       /\ PendingRow(H, U, k, kv, draft_kv, b, s)
  BY <1>6, <1>7, <1>8 DEF AppendRow, PendingRow, CutFacts
<1>11. PICK L \in Nat, n \in Nat, c \in Nat :
         /\ L = Len(b[s]) /\ n = Len(token_ids[s]) /\ c = num_cached_tokens[s]
         /\ L \in 1 .. k + 1 /\ c = n - 1
  <2>1. Len(b[s]) \in Nat /\ Len(token_ids[s]) \in Nat /\ num_cached_tokens[s] \in Nat
    BY <1>6, <1>10
  <2>2. Len(b[s]) \in 1 .. k + 1
    BY <1>6 DEF CutFacts
  <2> QED BY <1>6, <1>10, <2>1, <2>2
<1>12. /\ token_ids \in [Seqs -> Seq(Token)] /\ num_scheduled_tokens \in [Seqs -> 0 .. MaxNumBatchedTokens]
       /\ num_cached_tokens \in [Seqs -> Nat]
  BY <1>8, <1>9 DEF HostTypes
<1>13. /\ token_ids'[s] = U.tokens[s] \o b[s]
       /\ \A x \in Seqs \ {s} : token_ids'[x] = token_ids[x]
       /\ token_ids' \in [Seqs -> Seq(Token)]
  <2>1. token_ids[s] \o b[s] \in Seq(Token)
    BY <1>10, AppendedText
  <2> QED BY <1>2, <1>5, <1>6, <1>10, <1>12, <2>1
<1>14. /\ num_scheduled_tokens'[s] = L
       /\ num_scheduled_tokens' \in [Seqs -> 0 .. MaxNumBatchedTokens]
  <2>1. CachedAfter(s, b[s]) - num_cached_tokens[s] = n + L - 1 - c
    BY <1>11 DEF CachedAfter, BM!num_tokens
  <2>2. n + L - 1 - c = L
    BY <1>11
  <2>3. num_scheduled_tokens' = [num_scheduled_tokens EXCEPT ![s] = L]
    BY <1>2, <1>5, <2>1, <2>2
  <2>4. L \in 0 .. MaxNumBatchedTokens
    <3>1. L \in 1 .. k + 1 /\ k \in Nat /\ k < MaxNumBatchedTokens /\ MaxNumBatchedTokens \in Nat
      BY <1>6, <1>11, Constants
    <3> QED BY ONLY <3>1, L \in Nat
  <2> QED BY <1>6, <1>12, <2>3, <2>4
<1>15. \A x \in Seqs :
         /\ num_cached_tokens[x] <= Len(token_ids'[x])
         /\ \A i \in 0 .. num_cached_tokens[x] :
              SubSeq(token_ids'[x], 1, i) = SubSeq(token_ids[x], 1, i)
  <2> SUFFICES ASSUME NEW x \in Seqs
               PROVE  /\ num_cached_tokens[x] <= Len(token_ids'[x])
                      /\ \A i \in 0 .. num_cached_tokens[x] :
                           SubSeq(token_ids'[x], 1, i) = SubSeq(token_ids[x], 1, i)
    OBVIOUS
  <2>1. CASE x # s
    BY <1>9, <1>13, <2>1, AllocatorFacts
  <2>2. CASE x = s
    <3>1. /\ Len(token_ids'[s]) = n + L
          /\ \A i \in 0 .. n : SubSeq(token_ids'[s], 1, i) = SubSeq(token_ids[s], 1, i)
      <4>1. PICK y \in Seq(Token), z \in Seq(Token) : y = token_ids[s] /\ z = b[s]
        BY <1>10
      <4>2. token_ids'[s] = y \o z
        BY <1>10, <1>13, <4>1
      <4>3. Len(y \o z) = Len(y) + Len(z) /\ \A i \in 0 .. Len(y) : SubSeq(y \o z, 1, i) = SubSeq(y, 1, i)
        BY AppendedText
      <4> QED BY <1>11, <4>1, <4>2, <4>3
    <3>2. c <= n + L /\ \A i \in 0 .. c : i \in 0 .. n
      <4>1. c = n - 1
        BY <1>11
      <4> QED BY ONLY <4>1, c \in Nat, n \in Nat, L \in Nat
    <3> QED BY <1>11, <2>2, <3>1, <3>2
  <2> QED BY <2>1, <2>2
<1>16. BMP!IInv'
  <2>1. UNCHANGED <<BMP!poolVars, BMP!indexVars, block_table, num_cached_tokens, kv>>
    BY <1>3 DEF BMP!poolVars, BMP!indexVars
  <2> QED BY <1>9, <1>13, <1>15, <2>1, AllocatorAssumption, BMP!TokensKeepInv DEF BMP!BlockManagerAssumption
<1>17. DraftFacts(J, draft_kv)
  <2>1. ASSUME NEW x \in Seqs PROVE HeldIn(block_table[x], draft_kv, num_draft_cached_tokens[x], token_ids'[x])
    <3>0. PICK t, y, z : t = block_table[x] /\ y = token_ids[x] /\ z = token_ids'[x]
      OBVIOUS
    <3>1. PICK D \in Nat, C \in Nat, l \in Nat :
            D = num_draft_cached_tokens[x] /\ C = num_cached_tokens[x] /\ l = Len(block_table[x])
      <4>1. num_draft_cached_tokens[x] \in Nat
        BY <1>8, <1>9, <2>1 DEF DraftFacts
      <4>2. num_cached_tokens[x] \in Nat
        BY <1>12, <2>1
      <4>3. Len(block_table[x]) \in Nat
        BY <1>9, <2>1, AllocatorFacts DEF BM!TypeOK
      <4> QED BY <4>1, <4>2, <4>3
    <3>2. D <= C /\ HeldIn(t, draft_kv, D, y)
      BY <1>8, <1>9, <2>1, <3>0, <3>1 DEF DraftFacts
    <3>3. C <= BlockSize * l
      BY <1>9, <2>1, <3>1, AllocatorFacts
    <3>4. D <= BlockSize * l
      <4>1. PICK B \in Nat : B = BlockSize * l
        BY <3>1, Constants
      <4> QED BY <3>2, <3>3, <4>1
    <3>5. \A i \in 1 .. D : SubSeq(z, 1, i) = SubSeq(y, 1, i)
      <4>1. \A i \in 1 .. D : i \in 0 .. C
        BY <3>2
      <4> QED BY <1>15, <2>1, <3>0, <3>1, <4>1
    <3>6. HeldIn(t, draft_kv, D, z)
      BY <3>2, <3>4, <3>5, HeldStays
    <3> QED BY <3>0, <3>1, <3>6
  <2> QED BY <1>8, <1>9, <2>1 DEF DraftFacts
<1>18. HostTypes(J) /\ QueueFacts(J, E) /\ SameBut(H, J, s) /\ RunningFacts(J, {})
  <2>1. HostTypes(J)
    BY <1>8, <1>9, <1>13, <1>14 DEF HostTypes
  <2> QED BY <1>6, <1>8, <1>9, <1>13, <2>1 DEF QueueFacts, SameBut, RunningFacts
<1>19. CommitFacts(J, U, E, k, kv, draft_kv, b, row)
  BY <1>6, <1>8, <1>18, CommitOthers
<1>20. PublishRow(J, U, k, kv, draft_kv, b, s)
  <2>1. PendingRow(J, U, k, kv, draft_kv, b, s)
    BY <1>8, <1>10 DEF PendingRow
  <2> QED BY <1>8, <1>11, <1>13, <1>14, <2>1 DEF PublishRow
<1>21. Env' = Env
  BY <1>3, EnvStays
<1>22. CommitInv'
  <2>1. CycleFacts(undo', Env', kv', draft_kv')
    BY <1>3, <1>5, <1>6, <1>21
  <2>2. CommitFacts(HostState', undo', Env', effective_k', kv', draft_kv', burst', row')
    BY <1>3, <1>5, <1>19, <1>21
  <2>3. RunningFacts(HostState', {})
    BY <1>5, <1>18
  <2>4. PublishRow(HostState', undo', effective_k', kv', draft_kv', burst', scheduled_seqs'[row'])
    BY <1>1, <1>3, <1>5, <1>20
  <2>5. phase' = "publish" /\ coverage' = Nothing /\ undo' # Nothing
    BY <1>2, <1>3, <1>6
  <2> QED BY <2>1, <2>2, <2>3, <2>4, <2>5 DEF CommitInv
<1>23. StopInv'
  BY <1>3, <1>6 DEF StopInv, Stops, Delivered, GivenStatus
<1>24. row' \in 0 .. MaxNumSeqs /\ effective_k' \in Nat /\ DraftFacts(HostState', draft_kv')
  BY <1>3, <1>5, <1>6, <1>17, Constants
<1> QED BY <1>3, <1>4, <1>6, <1>16, <1>22, <1>23, <1>24, CommitMade

\* A committed burst stops where one token at a time would have.
LEMMA BurstStops ==
  ASSUME NEW x \in Seq(Token), NEW b \in Seq(Token), NEW r, Len(r.prompt) \in Nat, r.max_tokens \in Nat,
         Stops(x, r, TRUE), EndsOnce(r, b), Len(x) + Len(b) <= Len(r.prompt) + r.max_tokens,
         NEW pending \in BOOLEAN, pending => ~EndsWith(r, x \o b)
  PROVE  Stops(x \o b, r, pending)
<1>1. PICK n \in Nat, l \in Nat, p \in Nat, M \in Nat :
        n = Len(x) /\ l = Len(b) /\ p = Len(r.prompt) /\ M = r.max_tokens
  <2>1. Len(x) \in Nat /\ Len(b) \in Nat
    OBVIOUS
  <2> QED BY <2>1
<1>2. PICK y : y = x \o b
  OBVIOUS
<1>3. Len(y) = n + l /\ (\A i \in 1 .. n : y[i] = x[i]) /\ (\A i \in 1 .. l : y[n + i] = b[i])
  BY <1>1, <1>2
<1>4. ASSUME NEW i \in p + 1 .. n + l, y[i] = EOS, ~r.ignore_eos
      PROVE  i = n + l /\ ~pending
  <2>1. CASE i <= n
    <3>1. i \in 1 .. n /\ i \in p + 1 .. n
      BY <1>4, <2>1
    <3>2. x[i] = EOS
      BY <1>3, <1>4, <3>1
    <3> QED BY <1>1, <1>4, <3>1, <3>2 DEF Stops
  <2>2. CASE ~(i <= n)
    <3>1. PICK j \in 1 .. l : i = n + j
      <4>1. i - n \in 1 .. l /\ i = n + (i - n)
        <5>1. i \in Int /\ i > n /\ i <= n + l
          BY <1>4, <2>2
        <5> QED BY ONLY <5>1, n \in Nat, l \in Nat
      <4> QED BY <4>1
    <3>2. b[j] = EOS
      BY <1>3, <1>4, <3>1
    <3>3. j = l
      BY <1>1, <1>4, <3>1, <3>2 DEF EndsOnce
    <3>4. EndsWith(r, y)
      BY <1>3, <1>4, <3>1, <3>3 DEF EndsWith
    <3> QED BY <1>2, <3>1, <3>3, <3>4
  <2> QED BY <2>1, <2>2
<1>5. n + l <= p + M
  BY <1>1
<1> QED BY <1>1, <1>2, <1>3, <1>4, <1>5 DEF Stops

\* When the last row is done, users get all bursts at once.
LEMMA CommitStops ==
  ASSUME NEW J, NEW U, NEW E, NEW T, NEW k, NEW m, NEW d, NEW b, NEW r,
         CommitFacts(J, U, E, k, m, d, b, r), DoneRow(J, U, E, b, E.rows[r]), r = Len(E.rows),
         RunFacts(U, E, T), NEW x \in Seqs,
         Stops(U.tokens[x], E.request[x], U.status[x] \in Pending)
  PROVE  Stops(J.tokens[x], E.request[x], J.status[x] \in Pending)
<1>1. E.rows \in Seq(Seqs) /\ HostTypes(U) /\ Len(E.rows) \in Nat
  <2>1. E.rows \in Seq(Seqs) /\ HostTypes(U)
    BY DEF RunFacts, EnvTypes
  <2> QED BY <2>1, LenProperties
<1>2. CASE x \notin Range(E.rows)
  <2>1. Bystander(J, U, E, x)
    BY <1>2 DEF CommitFacts
  <2> QED BY <2>1 DEF Bystander
<1>3. CASE x \in Range(E.rows)
  <2>1. PICK i \in 1 .. Len(E.rows) : x = E.rows[i]
    BY <1>1, <1>3, RangeIs
  <2>2. i \in 1 .. r - 1 \/ i = r
    BY <1>1, <2>1
  <2>3. DoneRow(J, U, E, b, x) /\ CutFacts(U, E, k, b, x)
    BY <1>3, <2>1, <2>2 DEF CommitFacts
  <2>4. TokenFacts(U, E, x) /\ U.status[x] = "RUNNING"
    BY <1>3 DEF RunFacts
  <2>5. PICK y, q, R : y = U.tokens[x] /\ q = b[x] /\ R = E.request[x]
    OBVIOUS
  <2>6. /\ y \in Seq(Token) /\ q \in Seq(Token) /\ EndsOnce(R, q)
        /\ Len(y) + Len(q) <= Len(R.prompt) + R.max_tokens
    BY <1>1, <2>3, <2>5 DEF CutFacts, HostTypes
  <2>7. Len(R.prompt) \in Nat /\ R.max_tokens \in Nat
    <3>1. R \in Requests
      BY <2>4, <2>5 DEF TokenFacts
    <3> QED BY <3>1, Constants
  <2>8. Stops(y, R, TRUE)
    <3>1. U.status[x] \in Pending
      BY <2>4 DEF Pending
    <3>2. (U.status[x] \in Pending) = TRUE
      BY <3>1
    <3>3. Stops(y, R, U.status[x] \in Pending)
      BY <2>5
    <3> QED BY <3>1, <3>3 DEF Stops
  <2>9. J.tokens[x] = y \o q
    BY <2>3, <2>5 DEF DoneRow
  <2>10. CASE J.status[x] \in Pending
    <3>1. ~EndsWith(R, y \o q)
      BY <2>3, <2>5, <2>9, <2>10 DEF DoneRow, Pending
    <3>2. Stops(y \o q, R, TRUE)
      BY <2>6, <2>7, <2>8, <3>1, BurstStops
    <3> QED BY <2>5, <2>9, <2>10, <3>2 DEF Stops
  <2>11. CASE J.status[x] \notin Pending
    <3>1. Stops(y \o q, R, FALSE)
      BY <2>6, <2>7, <2>8, BurstStops
    <3> QED BY <2>5, <2>9, <2>11, <3>1 DEF Stops
  <2> QED BY <2>10, <2>11
<1> QED BY <1>2, <1>3

\* A row of the commit is done: the next one follows, or the transaction is over.
LEMMA BurstNext ==
  ASSUME SInv, mode' = mode, mode # "ordinary", phase \in Committing, NEW s, s = scheduled_seqs[row],
         NextBurst, BMP!IInv', DraftFacts(HostState', draft_kv'), HostTypes(HostState'),
         QueueFacts(HostState', Env), SameBut(HostState, HostState', s),
         DoneRow(HostState', undo, Env, burst, s), RunningFacts(HostState', {}),
         UNCHANGED <<reservation, kv, draft_kv, request, is_prefill, mid_chunk_seq, num_decodes,
                     num_batched_tokens, targets, failures>>
  PROVE  SInv'
<1>1. PICK H, E, U, k, b, J, r, q :
        /\ H = HostState /\ E = Env /\ U = undo /\ k = effective_k /\ b = burst /\ J = HostState'
        /\ r = row /\ q = scheduled_seqs
  OBVIOUS
<1>2. /\ CycleFacts(U, E, kv, draft_kv) /\ RunFacts(U, E, TAP!Before(U).tables) /\ EnvTypes(E)
      /\ CommitFacts(H, U, E, k, kv, draft_kv, b, r)
      /\ coverage = Nothing /\ undo # Nothing /\ CommonInv /\ StopInv
      /\ s \in Seqs /\ s = E.rows[r] /\ r \in 1 .. Len(q) /\ Len(q) \in 0 .. MaxNumSeqs
      /\ k \in Nat
  BY <1>1, BurstRow
<1>3. /\ H.reservation = TA!NoReservation /\ J.reservation = H.reservation /\ E.rows = q
  BY <1>1, <1>2, HostIs, HostNext, EnvIs DEF CommitFacts
<1>4. CommitFacts(J, U, E, k, kv, draft_kv, b, r)
  BY <1>1, <1>2, <1>3, CommitOthers
<1>5. DoneRow(J, U, E, b, E.rows[r]) /\ RunningFacts(J, {})
  BY <1>1, <1>2
<1>6. CASE r < Len(q)
  <2>1. /\ phase' = "append" /\ row' = r + 1 /\ scheduled_seqs' = scheduled_seqs
        /\ effective_k' = effective_k /\ burst' = burst /\ coverage' = coverage /\ undo' = undo
    BY <1>1, <1>6 DEF NextBurst, cycleVars
  <2>2. CommitFacts(J, U, E, k, kv, draft_kv, b, r + 1) /\ AppendRow(J, U, k, kv, draft_kv, b, E.rows[r + 1])
    <3>1. Len(E.rows) \in Nat /\ r < Len(E.rows)
      BY <1>2, <1>3, <1>6
    <3> QED BY <1>4, <1>5, <3>1, CommitGoesOn
  <2>3. Env' = Env
    BY <2>1, EnvStays
  <2>4. phase' \in Committing
    BY <2>1 DEF Committing
  <2>5. CommitInv'
    <3>1. CycleFacts(undo', Env', kv', draft_kv')
      BY <1>1, <1>2, <2>1, <2>3
    <3>2. CommitFacts(HostState', undo', Env', effective_k', kv', draft_kv', burst', row')
      BY <1>1, <2>1, <2>2, <2>3
    <3>3. RunningFacts(HostState', {})
      BY <1>1, <1>5
    <3>4. AppendRow(HostState', undo', effective_k', kv', draft_kv', burst', scheduled_seqs'[row'])
      BY <1>1, <1>3, <2>1, <2>2
    <3>5. phase' = "append" /\ coverage' = Nothing /\ undo' # Nothing
      BY <1>2, <2>1
    <3> QED BY <3>1, <3>2, <3>3, <3>4, <3>5 DEF CommitInv
  <2>6. StopInv'
    BY <1>2, <2>1 DEF StopInv, Stops, Delivered, GivenStatus
  <2>7. row' \in 0 .. MaxNumSeqs /\ effective_k' \in Nat
    <3>1. r \in Nat /\ r < Len(q) /\ Len(q) \in 0 .. MaxNumSeqs /\ MaxNumSeqs \in Nat
      BY <1>2, <1>6, Constants
    <3>2. r + 1 \in 0 .. MaxNumSeqs
      BY ONLY <3>1
    <3> QED BY <1>1, <1>2, <2>1, <3>2
  <2> QED BY <1>2, <2>1, <2>4, <2>5, <2>6, <2>7, CommitMade
<1>7. CASE ~(r < Len(q))
  <2>1. /\ phase' = "idle" /\ row' = 0 /\ scheduled_seqs' = <<>> /\ effective_k' = 0
        /\ undo' = Nothing /\ coverage' = coverage
    BY <1>1, <1>7 DEF NextBurst
  <2>2. r = Len(E.rows)
    BY <1>2, <1>3, <1>7
  <2>3. PICK F : F = Env'
    OBVIOUS
  <2>4. F.request = E.request /\ F.prefill = E.prefill /\ F.mid = E.mid
    BY <1>1, <2>3, EnvIs DEF Env
  <2>5. PICK T : T = TAP!Before(U).tables
    OBVIOUS
  <2>6. RestFacts(J, F)
    BY <1>2, <1>4, <1>5, <2>2, <2>4, <2>5, CommitEnds
  <2>7. RestTypes'
    <3>1. /\ scheduled_seqs' \in Seq(Seqs) /\ Len(scheduled_seqs') = 0
      BY <2>1
    <3>2. /\ num_decodes \in 0 .. MaxNumSeqs /\ num_batched_tokens \in 0 .. MaxNumBatchedTokens
      BY <1>1, <1>2, EnvIs DEF EnvTypes
    <3>3. targets \in SUBSET Seqs /\ failures \in 0 .. MaxFailures
      BY <1>2 DEF CommonInv
    <3> QED BY <2>1, <3>1, <3>2, <3>3, Constants DEF RestTypes
  <2>8. RestFacts(HostState, Env)'
    BY <1>1, <2>3, <2>6
  <2>9. (RestTypes /\ RestFacts(HostState, Env) /\ BMP!IInv => IInv /\ PlainFacts)'
    BY RestIs, PTL
  <2>10. IInv' /\ PlainFacts'
    BY <2>7, <2>8, <2>9
  <2>11. StopInv'
    <3>1. ASSUME NEW x \in Seqs PROVE Stops(J.tokens[x], E.request[x], J.status[x] \in Pending)
      <4>1. Delivered(x) = U.tokens[x] /\ GivenStatus(x) = U.status[x] /\ request[x] = E.request[x]
        BY <1>1, <1>2, EnvIs DEF Delivered, GivenStatus
      <4>2. Stops(U.tokens[x], E.request[x], U.status[x] \in Pending)
        BY <1>2, <3>1, <4>1 DEF StopInv
      <4> QED BY <1>2, <1>4, <1>5, <2>2, <2>5, <3>1, <4>2, CommitStops
    <3>2. ASSUME NEW x \in Seqs
          PROVE  /\ Delivered(x)' = J.tokens[x] /\ GivenStatus(x)' = J.status[x]
                 /\ request'[x] = E.request[x]
      BY <1>1, <2>1, HostNext, EnvIs DEF Delivered, GivenStatus
    <3> QED BY <3>1, <3>2 DEF StopInv, Stops
  <2>12. /\ phase' \in Phases /\ effective_k' \in Nat /\ reservation' = TA!NoReservation
         /\ (effective_k' = 0 <=> coverage' = Nothing) /\ coverage' = Nothing
    BY <1>1, <1>2, <1>3, <2>1, HostIs DEF Phases
  <2> QED BY <1>2, <2>1, <2>10, <2>11, <2>12, PlainMade
<1> QED BY <1>6, <1>7

\* Fewer requests are pending, when some have ended.
LEMMA FewerUnended ==
  ASSUME NEW f, NEW g, Unended(g) \subseteq Unended(f), Cardinality(Unended(f)) <= MaxNumSeqs
  PROVE  Cardinality(Unended(g)) <= MaxNumSeqs
<1>1. IsFiniteSet(Unended(f)) /\ IsFiniteSet(Unended(g))
  BY SchedulerAssumption, FS_Subset DEF SchedulerAssumption, Unended
<1>2. PICK m \in Nat, n \in Nat : m = Cardinality(Unended(f)) /\ n = Cardinality(Unended(g))
  BY <1>1, FS_CardinalityType
<1>3. n <= m
  BY <1>1, <1>2, FS_Subset
<1> QED BY <1>2, <1>3, Constants

\* The test that ends a request.
LEMMA EndsIs ==
  ASSUME NEW s \in Seqs, token_ids[s] \in Seq(Token), Len(request[s].prompt) \in Nat,
         request[s].max_tokens \in Nat, Len(request[s].prompt) <= Len(token_ids[s])
  PROVE  EndsRequest(s) <=> EndsWith(request[s], token_ids[s])
<1>1. PICK n \in Nat, p \in Nat, M \in Nat :
        n = Len(token_ids[s]) /\ p = Len(request[s].prompt) /\ M = request[s].max_tokens /\ p <= n
  <2>1. Len(token_ids[s]) \in Nat
    OBVIOUS
  <2> QED BY <2>1
<1>2. Len(Completion(s)) = n - p
  BY <1>1, RestLen DEF Completion
<1>3. n - p >= M <=> n >= p + M
  BY ONLY n \in Nat, p \in Nat, M \in Nat
<1> QED BY <1>1, <1>2, <1>3 DEF EndsRequest, EndsWith, LastOf

\* The row whose burst is published.
LEMMA PublishFacts ==
  ASSUME SInv, phase = "publish", NEW s, s = scheduled_seqs[row]
  PROVE  /\ BM!Computed(s, num_cached_tokens[s], num_cached_tokens[s] + Len(burst[s]) - 1)
         /\ BM!Covered(s, Len(burst[s])) /\ Len(burst[s]) \in 1 .. MaxModelLen + 1
         /\ num_scheduled_tokens[s] = Len(burst[s])
         /\ num_cached_tokens[s] \in Nat /\ num_cached_tokens[s] = undo.cached[s]
         /\ num_cached_tokens[s] + Len(burst[s]) = Len(token_ids[s]) - 1
         /\ Len(block_table[s]) = BM!BlocksFor(num_cached_tokens[s] + Len(burst[s]))
         /\ block_table[s] # <<>>
         /\ HeldIn(block_table[s], draft_kv, num_cached_tokens[s] + Smaller(Len(burst[s]), effective_k),
                   token_ids[s])
         /\ token_ids[s] = undo.tokens[s] \o burst[s] /\ status[s] = "RUNNING"
         /\ EndsRequest(s) <=> EndsWith(request[s], token_ids[s])
<1>1. phase \in Committing
  BY DEF Committing
<1>2. PICK H, E, U, k, b : H = HostState /\ E = Env /\ U = undo /\ k = effective_k /\ b = burst
  OBVIOUS
<1>3. /\ RunFacts(U, E, TAP!Before(U).tables) /\ s \in Seqs /\ s \in Rows
      /\ k \in Nat \ {0} /\ CutFacts(U, E, k, b, s) /\ U.tokens[s] \in Seq(Token) /\ U.cached[s] \in Nat
      /\ U.cached[s] = Len(U.tokens[s]) - 1
  BY <1>1, <1>2, BurstRow
<1>4. PublishRow(H, U, k, kv, draft_kv, b, s)
  BY <1>1, <1>2 DEF SInv, CommitInv
<1>5. /\ token_ids[s] = U.tokens[s] \o b[s] /\ num_scheduled_tokens[s] = Len(b[s])
      /\ status[s] = "RUNNING" /\ num_cached_tokens[s] = U.cached[s]
      /\ Len(block_table[s]) = BM!BlocksFor(U.cached[s] + Len(b[s]))
      /\ BurstHeld(block_table[s], kv, draft_kv, k, U.cached[s], U.tokens[s], b[s])
  BY <1>2, <1>4, HostIs DEF PublishRow, PendingRow
<1>6. b[s] \in Seq(Token) /\ Len(b[s]) \in 1 .. k + 1
  BY <1>3 DEF CutFacts
<1>7. TokenFacts(U, E, s) /\ U.status[s] = "RUNNING"
  BY <1>2, <1>3, EnvIs DEF RunFacts, Rows
<1>8. request[s] \in Requests /\ Admissible(request[s]) /\ Len(U.tokens[s]) >= Len(request[s].prompt)
  BY <1>2, <1>7, EnvIs DEF TokenFacts
<1>9. PICK n \in Nat, L \in Nat, c \in Nat, p \in Nat, M \in Nat, l \in Nat :
        /\ n = Len(U.tokens[s]) /\ L = Len(b[s]) /\ c = U.cached[s] /\ p = Len(request[s].prompt)
        /\ M = request[s].max_tokens /\ l = BM!BlocksFor(c + L)
  <2>1. Len(U.tokens[s]) \in Nat /\ Len(b[s]) \in Nat /\ U.cached[s] \in Nat
    BY <1>3, <1>6
  <2>2. Len(request[s].prompt) \in Nat /\ request[s].max_tokens \in Nat
    BY <1>8, Constants
  <2>3. U.cached[s] + Len(b[s]) \in Nat
    BY <2>1
  <2>4. BM!BlocksFor(U.cached[s] + Len(b[s])) \in Nat
    BY <2>3, Blocks
  <2> QED BY <2>1, <2>2, <2>4
<1>10. c = n - 1 /\ L >= 1 /\ n >= p /\ n + L <= p + M /\ p + M - 1 <= MaxModelLen /\ MaxModelLen \in Nat
  <2>1. c = n - 1
    BY <1>3, <1>9
  <2>2. L >= 1
    BY <1>3, <1>6, <1>9
  <2>3. n >= p
    BY <1>8, <1>9
  <2>4. Len(U.tokens[s]) + Len(b[s]) <= Len(request[s].prompt) + request[s].max_tokens
    BY <1>2, <1>3, EnvIs DEF CutFacts
  <2>5. p + M - 1 <= MaxModelLen /\ MaxModelLen \in Nat
    BY <1>8, <1>9, SchedulerAssumption DEF Admissible, SchedulerAssumption
  <2> QED BY <1>9, <2>1, <2>2, <2>3, <2>4, <2>5
<1>11. Len(token_ids[s]) = n + L /\ token_ids[s] \in Seq(Token)
  BY <1>3, <1>5, <1>6, <1>9, AppendedText
<1>12. L \in 1 .. MaxModelLen + 1 /\ c + L = n + L - 1 /\ c + L <= n + L
  <2>1. n >= 1
    BY <1>9, <1>10
  <2> QED BY ONLY <1>10, <2>1, c \in Nat, n \in Nat, L \in Nat, p \in Nat, M \in Nat
<1>13. PICK N \in Nat, D \in Nat : N = c + L /\ D = c + Smaller(L, k)
  <2>1. c + L \in Nat
    OBVIOUS
  <2>2. c + Smaller(L, k) \in Nat
    BY <1>3 DEF Smaller
  <2> QED BY <2>1, <2>2
<1>14. N <= BlockSize * l /\ l # 0
  <2>1. N <= BlockSize * l
    BY <1>9, <1>13, Blocks
  <2>2. ASSUME l = 0 PROVE FALSE
    <3>1. BlockSize * l = 0
      BY <2>2, Constants
    <3>2. N <= 0
      BY <2>1, <3>1
    <3> QED BY <1>10, <1>13, <3>2
  <2> QED BY <2>1, <2>2
<1>15. HeldIn(block_table[s], kv, N, token_ids[s]) /\ HeldIn(block_table[s], draft_kv, D, token_ids[s])
  BY <1>5, <1>9, <1>13 DEF BurstHeld
<1>16. BM!Computed(s, c, N - 1)
  <2> SUFFICES ASSUME NEW q \in c .. N - 1
               PROVE  BM!Holds(BM!SlotOf(s, q), SubSeq(token_ids[s], 1, q + 1))
    BY DEF BM!Computed
  <2>1. q \in 0 .. N - 1
    OBVIOUS
  <2> QED BY <1>15, <2>1 DEF HeldIn, BM!Holds, BM!SlotOf
<1>17. BM!Covered(s, L)
  <2>1. num_cached_tokens[s] + L = N /\ Len(block_table[s]) = l
    BY <1>5, <1>9, <1>13
  <2>2. N <= Len(token_ids[s])
    BY <1>11, <1>12, <1>13
  <2> QED BY <1>14, <2>1, <2>2 DEF BM!Covered, BM!num_tokens
<1>18. EndsRequest(s) <=> EndsWith(request[s], token_ids[s])
  <2>1. p <= n + L
    BY ONLY <1>10, n \in Nat, L \in Nat, p \in Nat, M \in Nat
  <2> QED BY <1>3, <1>9, <1>11, <2>1, EndsIs
<1>19. block_table[s] # <<>>
  BY <1>5, <1>9, <1>14
<1>20. num_cached_tokens[s] = c /\ Len(burst[s]) = L /\ effective_k = k /\ num_cached_tokens[s] = undo.cached[s]
  BY <1>2, <1>5, <1>9
<1>21. BM!Computed(s, num_cached_tokens[s], num_cached_tokens[s] + Len(burst[s]) - 1)
  BY <1>13, <1>16, <1>20
<1>22. /\ BM!Covered(s, Len(burst[s])) /\ Len(burst[s]) \in 1 .. MaxModelLen + 1
       /\ num_scheduled_tokens[s] = Len(burst[s]) /\ num_cached_tokens[s] \in Nat
       /\ num_cached_tokens[s] + Len(burst[s]) = Len(token_ids[s]) - 1
  BY <1>2, <1>5, <1>11, <1>12, <1>17, <1>20
<1>23. Len(block_table[s]) = BM!BlocksFor(num_cached_tokens[s] + Len(burst[s]))
  BY <1>5, <1>9, <1>20
<1>24. HeldIn(block_table[s], draft_kv, num_cached_tokens[s] + Smaller(Len(burst[s]), effective_k), token_ids[s])
  BY <1>13, <1>15, <1>20
<1>25. token_ids[s] = undo.tokens[s] \o burst[s] /\ status[s] = "RUNNING"
  BY <1>2, <1>5
<1> QED BY <1>18, <1>19, <1>20, <1>21, <1>22, <1>23, <1>24, <1>25

\* The burst of a row is published and counted; a request that ends is released next.
LEMMA PublishKeeps ==
  ASSUME SInv, mode' = mode, mode # "ordinary", PublishBurst
  PROVE  SInv'
<1>1. PICK s : s = scheduled_seqs[row]
  OBVIOUS
<1>2. PICK n : n = num_scheduled_tokens[s]
  OBVIOUS
<1>3. /\ phase = "publish" /\ BM!commit(s, n)
      /\ num_draft_cached_tokens' = [num_draft_cached_tokens EXCEPT ![s] = DraftCachedAfter(s, n)]
      /\ num_scheduled_tokens' = [num_scheduled_tokens EXCEPT ![s] = 0]
      /\ \/ /\ EndsRequest(s)
            /\ status' = [status EXCEPT ![s] = "FINISHED"]
            /\ phase' = "release"
            /\ UNCHANGED <<row, scheduled_seqs, cycleVars>>
         \/ /\ ~EndsRequest(s)
            /\ NextBurst
            /\ UNCHANGED status
      /\ UNCHANGED <<request, is_prefill, queueVars, num_decodes, num_batched_tokens,
                     targets, failures, draft_kv, reservation>>
  BY <1>1, <1>2 DEF PublishBurst
<1>4. /\ waiting' = waiting /\ running' = running /\ mid_chunk_seq' = mid_chunk_seq
      /\ draft_kv' = draft_kv /\ reservation' = reservation /\ request' = request
      /\ num_cached_tokens' = [num_cached_tokens EXCEPT ![s] = @ + n]
      /\ free_block_ids' = free_block_ids /\ used_block_ids' = used_block_ids /\ ref_count' = ref_count
      /\ token_ids' = token_ids /\ block_table' = block_table /\ kv' = kv
  BY <1>3 DEF queueVars, BM!commit, BM!poolVars
<1>5. phase \in Committing
  BY <1>3 DEF Committing
<1>6. PICK H, E, U, k, b, J : H = HostState /\ E = Env /\ U = undo /\ k = effective_k /\ b = burst /\ J = HostState'
  OBVIOUS
<1>7. /\ CycleFacts(U, E, kv, draft_kv) /\ RunFacts(U, E, TAP!Before(U).tables) /\ EnvTypes(E)
      /\ CommitFacts(H, U, E, k, kv, draft_kv, b, row)
      /\ RunningFacts(H, {}) /\ coverage = Nothing /\ undo # Nothing /\ CommonInv /\ StopInv
      /\ s \in Seqs /\ s = E.rows[row] /\ row \in 1 .. Len(scheduled_seqs)
      /\ Len(scheduled_seqs) \in 0 .. MaxNumSeqs /\ k \in Nat \ {0}
  BY <1>1, <1>3, <1>5, <1>6, BurstRow
<1>8. /\ BM!Computed(s, num_cached_tokens[s], num_cached_tokens[s] + Len(burst[s]) - 1)
      /\ BM!Covered(s, Len(burst[s])) /\ Len(burst[s]) \in 1 .. MaxModelLen + 1
      /\ n = Len(burst[s]) /\ num_cached_tokens[s] \in Nat
      /\ num_cached_tokens[s] + Len(burst[s]) = Len(token_ids[s]) - 1
      /\ Len(block_table[s]) = BM!BlocksFor(num_cached_tokens[s] + Len(burst[s]))
      /\ block_table[s] # <<>>
      /\ HeldIn(block_table[s], draft_kv, num_cached_tokens[s] + Smaller(Len(burst[s]), effective_k),
                token_ids[s])
      /\ token_ids[s] = undo.tokens[s] \o burst[s] /\ status[s] = "RUNNING"
      /\ EndsRequest(s) <=> EndsWith(request[s], token_ids[s])
  BY <1>1, <1>2, <1>3, PublishFacts
<1>9. HostTypes(H) /\ QueueFacts(H, E) /\ BMP!IInv /\ DraftFacts(H, draft_kv)
  BY <1>6, <1>7 DEF CommitFacts, CommonInv
<1>10. /\ H.tokens = token_ids /\ H.tables = block_table /\ H.cached = num_cached_tokens /\ H.status = status
       /\ H.scheduled = num_scheduled_tokens /\ H.running = running /\ H.waiting = waiting
       /\ H.draft = num_draft_cached_tokens /\ H.reservation = reservation
       /\ J.tokens = token_ids /\ J.tables = block_table /\ J.cached = num_cached_tokens' /\ J.status = status'
       /\ J.scheduled = num_scheduled_tokens' /\ J.running = running /\ J.waiting = waiting
       /\ J.draft = num_draft_cached_tokens' /\ J.reservation = reservation
  BY <1>4, <1>6, HostIs, HostNext
<1>11. PICK c \in Nat, L \in Nat, D \in Nat :
         /\ c = num_cached_tokens[s] /\ L = n /\ D = DraftCachedAfter(s, n)
         /\ D <= c + L /\ D = c + Smaller(L, k) /\ L >= 1
  <2>1. PICK c \in Nat, L \in Nat : c = num_cached_tokens[s] /\ L = n /\ L >= 1
    <3>1. Len(burst[s]) \in Nat /\ Len(burst[s]) >= 1
      BY <1>8
    <3> QED BY <1>8, <3>1
  <2>2. DraftCachedAfter(s, n) = Smaller(c + L, c + k)
    BY <1>6, <2>1 DEF DraftCachedAfter
  <2>3. Smaller(c + L, c + k) \in Nat /\ Smaller(c + L, c + k) <= c + L /\ Smaller(c + L, c + k) = c + Smaller(L, k)
    BY <1>7 DEF Smaller
  <2> QED BY <2>1, <2>2, <2>3
<1>12. BM!Next
  <2>1. BM!Commit(s, n)
    BY <1>3, <1>8 DEF BM!Commit
  <2> QED BY <1>7, <1>8, <2>1 DEF BM!Next
<1>13. BMP!IInv'
  BY <1>9, <1>12, AllocatorKeeps
<1>14. /\ num_cached_tokens \in [Seqs -> Nat] /\ num_scheduled_tokens \in [Seqs -> 0 .. MaxNumBatchedTokens]
       /\ num_draft_cached_tokens \in [Seqs -> Nat] /\ status \in [Seqs -> Statuses]
  BY <1>9, <1>10 DEF HostTypes, DraftFacts
<1>15. /\ num_cached_tokens' \in [Seqs -> Nat] /\ num_cached_tokens'[s] = c + L
       /\ num_draft_cached_tokens' \in [Seqs -> Nat] /\ num_draft_cached_tokens'[s] = D
       /\ num_scheduled_tokens' \in [Seqs -> 0 .. MaxNumBatchedTokens]
       /\ \A x \in Seqs \ {s} : /\ num_cached_tokens'[x] = num_cached_tokens[x]
                                /\ num_draft_cached_tokens'[x] = num_draft_cached_tokens[x]
  <2>1. c + L \in Nat /\ 0 \in 0 .. MaxNumBatchedTokens
    BY <1>11, Constants
  <2> QED BY <1>3, <1>4, <1>7, <1>11, <1>14, <2>1
<1>16. DraftFacts(J, draft_kv)
  <2>1. ASSUME NEW x \in Seqs
        PROVE  /\ num_draft_cached_tokens'[x] <= num_cached_tokens'[x]
               /\ HeldIn(block_table[x], draft_kv, num_draft_cached_tokens'[x], token_ids[x])
    <3>1. CASE x = s
      <4>1. HeldIn(block_table[s], draft_kv, D, token_ids[s])
        BY <1>6, <1>8, <1>11
      <4> QED BY <1>11, <1>15, <3>1, <4>1
    <3>2. CASE x # s
      BY <1>9, <1>10, <1>15, <2>1, <3>2 DEF DraftFacts
    <3> QED BY <3>1, <3>2
  <2> QED BY <1>9, <1>10, <1>15, <2>1 DEF DraftFacts
<1>17. \A x \in Seqs \ {s} : status'[x] = status[x]
  BY <1>3, <1>14
<1>18. SameBut(H, J, s)
  BY <1>10, <1>15, <1>17 DEF SameBut
<1>19. s \notin Range(waiting) /\ s \in Range(running)
  BY <1>7, <1>8, <1>9, <1>10 DEF QueueFacts, RunningFacts
<1>20. /\ num_cached_tokens'[s] = Len(token_ids[s]) - 1 /\ num_cached_tokens'[s] > 0
       /\ Len(block_table[s]) = BM!BlocksFor(num_cached_tokens'[s])
  <2>1. num_cached_tokens[s] + Len(burst[s]) = num_cached_tokens'[s]
    BY <1>8, <1>11, <1>15
  <2>2. c + L > 0
    BY <1>11
  <2> QED BY <1>8, <1>15, <2>1, <2>2
<1>21. CASE EndsRequest(s)
  <2>1. /\ status' = [status EXCEPT ![s] = "FINISHED"] /\ phase' = "release" /\ row' = row
        /\ scheduled_seqs' = scheduled_seqs /\ effective_k' = effective_k /\ burst' = burst
        /\ coverage' = coverage /\ undo' = undo
        /\ is_prefill' = is_prefill /\ num_decodes' = num_decodes
        /\ num_batched_tokens' = num_batched_tokens /\ targets' = targets /\ failures' = failures
    BY <1>3, <1>21 DEF cycleVars
  <2>2. status' \in [Seqs -> Statuses] /\ status'[s] = "FINISHED"
    BY <1>7, <1>14, <2>1 DEF Statuses
  <2>3. HostTypes(J)
    BY <1>9, <1>10, <1>15, <2>2 DEF HostTypes
  <2>4. QueueFacts(J, E)
    <3>1. Unended(status') \subseteq Unended(status)
      BY <1>17, <2>2 DEF Unended, Pending
    <3>2. Cardinality(Unended(status)) <= MaxNumSeqs
      BY <1>9, <1>10 DEF QueueFacts
    <3>3. Cardinality(Unended(status')) <= MaxNumSeqs
      BY <3>1, <3>2, FewerUnended
    <3>4. \A x \in Seqs : x \in Range(J.waiting) <=> J.status[x] = "WAITING"
      BY <1>9, <1>10, <1>17, <1>19, <2>2 DEF QueueFacts
    <3> QED BY <1>9, <1>10, <3>3, <3>4 DEF QueueFacts
  <2>5. RunningFacts(J, {s})
    BY <1>7, <1>10, <1>17, <1>19, <2>2 DEF RunningFacts
  <2>6. CommitFacts(J, U, E, k, kv, draft_kv, b, row)
    BY <1>7, <1>10, <1>18, <2>3, <2>4, CommitOthers
  <2>7. ReleaseRow(J, U, b, s)
    BY <1>6, <1>8, <1>10, <2>2 DEF ReleaseRow
  <2>8. Env' = Env
    BY <1>3, <1>4, <2>1, EnvStays
  <2>9. CommitInv'
    <3>1. CycleFacts(undo', Env', kv', draft_kv')
      BY <1>4, <1>6, <1>7, <2>1, <2>8
    <3>2. CommitFacts(HostState', undo', Env', effective_k', kv', draft_kv', burst', row')
      BY <1>4, <1>6, <2>1, <2>6, <2>8
    <3>3. RunningFacts(HostState', {scheduled_seqs'[row']})
      BY <1>1, <1>6, <2>1, <2>5
    <3>4. ReleaseRow(HostState', undo', burst', scheduled_seqs'[row'])
      BY <1>1, <1>6, <2>1, <2>7
    <3>5. phase' = "release" /\ coverage' = Nothing /\ undo' # Nothing
      BY <1>7, <2>1
    <3> QED BY <3>1, <3>2, <3>3, <3>4, <3>5 DEF CommitInv
  <2>10. StopInv'
    BY <1>4, <1>7, <2>1 DEF StopInv, Stops, Delivered, GivenStatus
  <2>11. row' \in 0 .. MaxNumSeqs /\ effective_k' \in Nat /\ phase' \in Committing
    BY <1>6, <1>7, <2>1, Constants DEF Committing
  <2>12. DraftFacts(HostState', draft_kv')
    BY <1>4, <1>6, <1>16
  <2> QED BY <1>7, <1>13, <2>1, <2>9, <2>10, <2>11, <2>12, CommitMade
<1>22. CASE ~EndsRequest(s)
  <2>1. NextBurst /\ status' = status
    BY <1>3, <1>22
  <2>2. HostTypes(J) /\ QueueFacts(J, E) /\ RunningFacts(J, {})
    <3>1. HostTypes(J)
      BY <1>9, <1>10, <1>15, <2>1 DEF HostTypes
    <3> QED BY <1>7, <1>9, <1>10, <2>1, <3>1 DEF QueueFacts, RunningFacts
  <2>3. DoneRow(J, U, E, b, s)
    <3>1. ~EndsWith(E.request[s], token_ids[s])
      BY <1>6, <1>8, <1>22, EnvIs
    <3> QED BY <1>6, <1>8, <1>10, <1>20, <2>1, <3>1 DEF DoneRow
  <2>4. UNCHANGED <<reservation, kv, draft_kv, request, is_prefill, mid_chunk_seq, num_decodes,
                    num_batched_tokens, targets, failures>>
    BY <1>3, <1>4
  <2>5. /\ DraftFacts(HostState', draft_kv') /\ HostTypes(HostState') /\ QueueFacts(HostState', Env)
        /\ SameBut(HostState, HostState', s) /\ DoneRow(HostState', undo, Env, burst, s)
        /\ RunningFacts(HostState', {})
    BY <1>4, <1>6, <1>16, <1>18, <2>2, <2>3
  <2> QED BY <1>1, <1>5, <1>13, <2>1, <2>4, <2>5, BurstNext
<1> QED BY <1>21, <1>22

\* A request that ended gives its blocks back and leaves the running queue.
LEMMA ReleaseKeeps ==
  ASSUME SInv, mode' = mode, mode # "ordinary", ReleaseBurst
  PROVE  SInv'
<1>1. PICK s : s = scheduled_seqs[row]
  OBVIOUS
<1>2. /\ phase = "release" /\ BM!deallocate(s) /\ NextBurst
      /\ num_draft_cached_tokens' = [num_draft_cached_tokens EXCEPT ![s] = 0]
      /\ running' = Without(running, s)
  BY <1>1 DEF ReleaseBurst
<1>3. /\ request' = request /\ status' = status /\ num_scheduled_tokens' = num_scheduled_tokens
      /\ is_prefill' = is_prefill /\ waiting' = waiting /\ mid_chunk_seq' = mid_chunk_seq
      /\ num_decodes' = num_decodes /\ num_batched_tokens' = num_batched_tokens
      /\ targets' = targets /\ failures' = failures /\ draft_kv' = draft_kv /\ reservation' = reservation
  BY DEF ReleaseBurst, reqVars, rowVars
<1>4. /\ block_table' = [block_table EXCEPT ![s] = <<>>]
      /\ num_cached_tokens' = [num_cached_tokens EXCEPT ![s] = 0]
      /\ token_ids' = token_ids /\ kv' = kv
  BY <1>2 DEF BM!deallocate
<1>5. phase \in Committing
  BY <1>2 DEF Committing
<1>6. PICK H, E, U, k, b, J : H = HostState /\ E = Env /\ U = undo /\ k = effective_k /\ b = burst /\ J = HostState'
  OBVIOUS
<1>7. /\ CommitFacts(H, U, E, k, kv, draft_kv, b, row) /\ RunningFacts(H, {s}) /\ CommonInv
      /\ s \in Seqs /\ s = E.rows[row]
  BY <1>1, <1>2, <1>5, <1>6, BurstRow
<1>8. ReleaseRow(H, U, b, s)
  BY <1>1, <1>2, <1>5, <1>6 DEF SInv, CommitInv
<1>9. HostTypes(H) /\ QueueFacts(H, E) /\ BMP!IInv /\ DraftFacts(H, draft_kv)
  BY <1>6, <1>7 DEF CommitFacts, CommonInv
<1>10. /\ H.tokens = token_ids /\ H.tables = block_table /\ H.cached = num_cached_tokens /\ H.status = status
       /\ H.scheduled = num_scheduled_tokens /\ H.running = running /\ H.waiting = waiting
       /\ H.draft = num_draft_cached_tokens
       /\ J.tokens = token_ids /\ J.tables = block_table' /\ J.cached = num_cached_tokens' /\ J.status = status
       /\ J.scheduled = num_scheduled_tokens /\ J.running = running' /\ J.waiting = waiting
       /\ J.draft = num_draft_cached_tokens'
  BY <1>3, <1>4, <1>6, HostIs, HostNext
<1>11. status[s] = "FINISHED" /\ token_ids[s] = U.tokens[s] \o b[s] /\ block_table[s] # <<>>
  BY <1>8, <1>10 DEF ReleaseRow
<1>12. BMP!IInv'
  <2>1. BM!Next
    BY <1>2, <1>7, <1>11 DEF BM!Deallocate, BM!Next
  <2> QED BY <1>9, <2>1, AllocatorKeeps
<1>13. /\ num_cached_tokens \in [Seqs -> Nat] /\ num_draft_cached_tokens \in [Seqs -> Nat]
       /\ running \in Seq(Seqs) /\ IsInjective(running) /\ block_table \in [Seqs -> Seq(BM!Blocks)]
  BY <1>9, <1>10, AllocatorFacts DEF HostTypes, DraftFacts, QueueFacts, BM!TypeOK
<1>14. /\ running' \in Seq(Seqs) /\ IsInjective(running') /\ Range(running') = Range(running) \ {s}
  BY <1>2, <1>13, WithoutSpec
<1>15. /\ num_cached_tokens' \in [Seqs -> Nat] /\ num_draft_cached_tokens' \in [Seqs -> Nat]
       /\ num_cached_tokens'[s] = 0 /\ num_draft_cached_tokens'[s] = 0 /\ block_table'[s] = <<>>
       /\ \A x \in Seqs \ {s} : /\ num_cached_tokens'[x] = num_cached_tokens[x]
                                /\ num_draft_cached_tokens'[x] = num_draft_cached_tokens[x]
                                /\ block_table'[x] = block_table[x]
  BY <1>2, <1>4, <1>7, <1>13
<1>16. DraftFacts(J, draft_kv)
  <2>1. ASSUME NEW x \in Seqs
        PROVE  /\ num_draft_cached_tokens'[x] <= num_cached_tokens'[x]
               /\ HeldIn(block_table'[x], draft_kv, num_draft_cached_tokens'[x], token_ids[x])
    <3>1. CASE x = s
      BY <1>15, <3>1 DEF HeldIn
    <3>2. CASE x # s
      BY <1>9, <1>10, <1>15, <2>1, <3>2 DEF DraftFacts
    <3> QED BY <3>1, <3>2
  <2> QED BY <1>9, <1>10, <1>15, <2>1 DEF DraftFacts
<1>17. HostTypes(J) /\ SameBut(H, J, s)
  BY <1>9, <1>10, <1>14, <1>15 DEF HostTypes, SameBut
<1>18. QueueFacts(J, E)
  <2>1. Range(J.waiting) \cap Range(J.running) = {}
    BY <1>9, <1>10, <1>14 DEF QueueFacts
  <2> QED BY <1>9, <1>10, <1>14, <2>1 DEF QueueFacts
<1>19. RunningFacts(J, {})
  BY <1>7, <1>10, <1>11, <1>14 DEF RunningFacts
<1>20. DoneRow(J, U, E, b, s)
  BY <1>10, <1>11, <1>15 DEF DoneRow
<1>21. UNCHANGED <<reservation, kv, draft_kv, request, is_prefill, mid_chunk_seq, num_decodes,
                   num_batched_tokens, targets, failures>>
  BY <1>3, <1>4
<1>22. /\ DraftFacts(HostState', draft_kv') /\ HostTypes(HostState') /\ QueueFacts(HostState', Env)
       /\ SameBut(HostState, HostState', s) /\ DoneRow(HostState', undo, Env, burst, s)
       /\ RunningFacts(HostState', {})
  BY <1>3, <1>6, <1>16, <1>17, <1>18, <1>19, <1>20
<1> QED BY <1>1, <1>2, <1>5, <1>12, <1>21, <1>22, BurstNext

-----------------------------------------------------------------------------
(* The steps that speculation leaves as they are *)

\* A request is pending exactly if its user sees that it is.
LEMMA PendingIsSeen ==
  QueueTypes => \A s \in Seqs : status[s] \in Pending <=> SeenState[s] = "pending"
<1> SUFFICES ASSUME QueueTypes, NEW s \in Seqs PROVE status[s] \in Pending <=> SeenState[s] = "pending"
  OBVIOUS
<1>1. status[s] \in Statuses
  BY DEF QueueTypes
<1> QED BY <1>1 DEF SeenState, Seen, Statuses, Pending

\* What is not seen ends no request and starts none.
LEMMA UnseenPending ==
  ASSUME QInv, QInv', SeenState' = SeenState \/ \E s \in Seqs : Service!Withdraw(s) \/ \E t \in Token : Service!Emit(s, t)
  PROVE  Unended(status') \subseteq Unended(status)
<1>1. (QueueTypes => \A s \in Seqs : status[s] \in Pending <=> SeenState[s] = "pending")'
  BY PendingIsSeen, PTL
<1>2. QueueTypes /\ QueueTypes'
  BY DEF QInv
<1>3. \A s \in Seqs : status[s] \in Pending <=> SeenState[s] = "pending"
  BY <1>2, PendingIsSeen
<1>4. \A s \in Seqs : status'[s] \in Pending <=> SeenState'[s] = "pending"
  BY <1>1, <1>2
<1>5. \A s \in Seqs : SeenState'[s] = "pending" => SeenState[s] = "pending"
  <2>1. CASE SeenState' = SeenState
    BY <2>1
  <2>2. ASSUME NEW x \in Seqs, Service!Withdraw(x) \/ \E t \in Token : Service!Emit(x, t)
        PROVE  \A s \in Seqs : SeenState'[s] = "pending" => SeenState[s] = "pending"
    <3>1. SeenState[x] = "pending" /\ \E v : SeenState' = [SeenState EXCEPT ![x] = v]
      BY <2>2, ServiceIs
    <3>2. DOMAIN SeenState = Seqs
      BY DEF SeenState
    <3> QED BY <3>1, <3>2
  <2> QED BY <2>1, <2>2
<1> QED BY <1>3, <1>4, <1>5 DEF Unended

\* Only a submission and the emission of a token change what users were given.
LEMMA WhoGives ==
  ASSUME QInv, [Next]_vars
  PROVE  \/ \E s \in Seqs, r \in Requests : add_request(s, r)
         \/ \E t \in Token : EmitToken(t)
         \/ UNCHANGED <<token_ids, request>> /\ Unended(status') \subseteq Unended(status)
<1>1. QInv'
  BY NextQueues
<1>2. ASSUME StartStep \/ Run \/ RunFails \/ CommitRow \/ FinishRow
               \/ (\E T \in SUBSET Queued : Cancel(T)) \/ Retry \/ UNCHANGED vars
      PROVE  UNCHANGED <<token_ids, request, status>>
  BY <1>2, StoreEffect, CommitEffect, ReleaseEffect
     DEF StartStep, Run, RunFails, CommitRow, FinishRow, Cancel, Retry, vars, bmVars, reqVars
<1>3. ASSUME Schedule PROVE UNCHANGED <<token_ids, request>> /\ SeenState' = SeenState
  <2>1. SeenState' = SeenState
    BY <1>3, ScheduleUnseen, ServiceIs
  <2>2. CASE DecodeRow
    BY <2>1, <2>2, GrowthEffect DEF DecodeRow, reqVars
  <2>3. ASSUME NEW s, NEW q, preempt(s, q) PROVE UNCHANGED <<token_ids, request>>
    BY <2>3, ReleaseEffect DEF preempt
  <2>4. CASE ReclaimMidChunk \/ PreemptTail \/ PreemptSelf
    BY <2>1, <2>3, <2>4 DEF ReclaimMidChunk, PreemptTail, PreemptSelf
  <2>5. CASE EndDecode \/ EndPrefill
    BY <2>1, <2>5 DEF EndDecode, EndPrefill, bmVars, reqVars
  <2>6. CASE AdmitPrefill
    BY <2>1, <2>6, AllocateEffect DEF AdmitPrefill, ScheduleChunk
  <2>7. CASE ContinuePrefill
    BY <2>1, <2>7, GrowthEffect DEF ContinuePrefill, ScheduleChunk
  <2>8. CASE RequeuePrefill
    BY <2>1, <2>3, <2>8 DEF RequeuePrefill
  <2> QED BY <1>3, <2>2, <2>4, <2>5, <2>6, <2>7, <2>8 DEF Schedule
<1>4. ASSUME CancelRow PROVE UNCHANGED <<token_ids, request>> /\ \E s \in Seqs : Service!Withdraw(s)
  <2>1. UNCHANGED <<token_ids, request>>
    BY <1>4, ReleaseEffect DEF CancelRow, release, bmVars
  <2> QED BY <1>4, <2>1, CancelIsWithdraw
<1>5. CASE Schedule
  BY <1>1, <1>3, <1>5, UnseenPending
<1>6. CASE CancelRow
  BY <1>1, <1>4, <1>6, UnseenPending
<1>7. CASE StartStep \/ Run \/ RunFails \/ CommitRow \/ FinishRow
             \/ (\E T \in SUBSET Queued : Cancel(T)) \/ Retry \/ UNCHANGED vars
  BY <1>2, <1>7
<1> QED BY <1>5, <1>6, <1>7 DEF Next, Postprocess, CleanUp, Rest

\* Between steps the pending requests are the queued ones.
LEMMA UnendedCount ==
  ASSUME QInv, phase \in {"idle", "decode"}
  PROVE  /\ IsFiniteSet(Unended(status))
         /\ Cardinality(Unended(status)) = Len(waiting) + Len(active)
<1>1. waiting \in Seq(Seqs) /\ active \in Seq(Seqs)
  BY Members
<1>2. IsInjective(waiting) /\ IsInjective(active) /\ Range(waiting) \cap Range(active) = {}
  BY DEF QInv, QueuesInv
<1>3. /\ IsFiniteSet(Range(waiting)) /\ Cardinality(Range(waiting)) = Len(waiting)
      /\ IsFiniteSet(Range(active)) /\ Cardinality(Range(active)) = Len(active)
  BY <1>1, <1>2, RowCount
<1>4. Unended(status) = Range(waiting) \cup Range(active)
  <2>1. Range(waiting) \subseteq Seqs /\ Range(active) \subseteq Seqs
    BY Members
  <2>2. \A s \in Seqs : s \in Range(active) <=> status[s] = "RUNNING"
    BY DEF QInv, QueuesInv, Leaving
  <2>3. \A s \in Seqs : s \in Range(waiting) <=> status[s] = "WAITING"
    BY DEF QInv, QueuesInv
  <2> QED BY <2>1, <2>2, <2>3 DEF Unended, Pending
<1>5. PICK m \in Nat, n \in Nat : m = Len(waiting) /\ n = Len(active)
  BY <1>1, LenProperties
<1>6. IsFiniteSet(Range(waiting) \cup Range(active))
  BY <1>3, FS_Union
<1>7. Cardinality(Range(waiting) \cup Range(active)) = m + n - Cardinality(Range(waiting) \cap Range(active))
  BY <1>3, <1>5, FS_Union
<1>8. Cardinality({}) = 0
  BY FS_EmptySet
<1>9. m + n - 0 = m + n
  OBVIOUS
<1> QED BY <1>2, <1>4, <1>5, <1>6, <1>7, <1>8, <1>9

\* There are never more pending requests than max_num_seqs.
LEMMA CapStays ==
  ASSUME QInv, [Next]_vars, Cardinality(Unended(status)) <= MaxNumSeqs
  PROVE  Cardinality(Unended(status')) <= MaxNumSeqs
<1>1. ASSUME NEW s \in Seqs, NEW r \in Requests, add_request(s, r)
      PROVE  Cardinality(Unended(status')) <= MaxNumSeqs
  <2>1. /\ phase = "idle" /\ Len(waiting) + Len(running) < MaxNumSeqs
        /\ status' = [status EXCEPT ![s] = "WAITING"]
    BY <1>1 DEF add_request
  <2>2. active = running
    BY <2>1 DEF active
  <2>3. IsFiniteSet(Unended(status)) /\ Cardinality(Unended(status)) < MaxNumSeqs
    BY <2>1, <2>2, UnendedCount
  <2>4. Unended(status') \subseteq Unended(status) \cup {s}
    BY <2>1 DEF Unended, QInv, QueueTypes
  <2>5. PICK n \in Nat : n = Cardinality(Unended(status))
    BY <2>3, FS_CardinalityType
  <2>6. IsFiniteSet(Unended(status) \cup {s}) /\ Cardinality(Unended(status) \cup {s}) \in {n, n + 1}
    BY <2>3, <2>5, FS_AddElement
  <2>7. IsFiniteSet(Unended(status'))
    BY <2>4, <2>6, FS_Subset
  <2>8. PICK a \in Nat, c \in Nat : a = Cardinality(Unended(status')) /\ c = Cardinality(Unended(status) \cup {s})
    BY <2>6, <2>7, FS_CardinalityType
  <2>9. a <= c
    BY <2>4, <2>6, <2>8, FS_Subset
  <2>10. c <= n + 1 /\ n < MaxNumSeqs /\ MaxNumSeqs \in Nat
    BY <2>3, <2>5, <2>6, <2>8, Constants
  <2>11. a <= MaxNumSeqs
    BY ONLY <2>9, <2>10, a \in Nat, c \in Nat, n \in Nat
  <2> QED BY <2>8, <2>11
<1>2. ASSUME NEW t \in Token, EmitToken(t) PROVE Cardinality(Unended(status')) <= MaxNumSeqs
  <2>1. Unended(status') \subseteq Unended(status)
    <3>1. \/ status' = [status EXCEPT ![scheduled_seqs[row]] = "FINISHED"]
          \/ status' = status
      BY <1>2 DEF EmitToken
    <3> QED BY <3>1 DEF Unended, Pending, QInv, QueueTypes
  <2> QED BY <2>1, FewerUnended
<1>3. CASE Unended(status') \subseteq Unended(status)
  BY <1>3, FewerUnended
<1> QED BY <1>1, <1>2, <1>3, WhoGives

\* A batch without prefill rows has every running sequence in it, in order.
LEMMA PureStays ==
  ASSUME IInv, [Next]_vars, PlainFacts
  PROVE  phase' \in {"prefill", "run"} /\ Len(scheduled_seqs') = num_decodes' => running' = scheduled_seqs'
<1> SUFFICES ASSUME phase' \in {"prefill", "run"}, Len(scheduled_seqs') = num_decodes'
             PROVE  running' = scheduled_seqs'
  OBVIOUS
<1>1. QInv /\ scheduled_seqs \in Seq(Seqs) /\ running \in Seq(Seqs)
  BY Members DEF IInv
<1>2. CASE EndDecode
  <2>1. phase = "decode" /\ ~Decoding /\ running' = scheduled_seqs \o running /\ scheduled_seqs' = scheduled_seqs
    BY <1>2 DEF EndDecode
  <2>2. CASE running = <<>>
    BY <1>1, <2>1, <2>2
  <2>3. CASE running # <<>>
    <3>1. ~(Len(scheduled_seqs) < MaxNumSeqs)
      BY <2>1, <2>3 DEF Decoding
    <3>2. PICK m \in Nat, n \in Nat, w \in Nat :
            m = Len(scheduled_seqs) /\ n = Len(running) /\ w = Len(waiting) /\ n # 0
      BY <1>1, <2>3, EmptySeq, LenProperties, Members
    <3>3. Len(active) = m + n
      BY <1>1, <2>1, <3>2 DEF active
    <3>4. Cardinality(Unended(status)) = w + (m + n)
      BY <1>1, <2>1, <3>2, <3>3, UnendedCount
    <3>5. w + (m + n) <= MaxNumSeqs /\ ~(m < MaxNumSeqs) /\ MaxNumSeqs \in Nat
      BY <3>1, <3>2, <3>4, Constants DEF PlainFacts
    <3> QED BY ONLY <3>2, <3>5, m \in Nat, n \in Nat, w \in Nat
  <2> QED BY <2>2, <2>3
<1>3. CASE AdmitPrefill \/ ContinuePrefill
  <2>1. phase = "prefill" /\ num_decodes' = num_decodes /\ \E s : scheduled_seqs' = Append(scheduled_seqs, s)
    BY <1>3 DEF AdmitPrefill, ContinuePrefill, Prefilling, ScheduleChunk
  <2>2. num_decodes <= Len(scheduled_seqs)
    BY <2>1 DEF IInv, StepInv, DecodesInv
  <2>3. PICK s : scheduled_seqs' = Append(scheduled_seqs, s)
    BY <2>1
  <2>4. Len(scheduled_seqs') = Len(scheduled_seqs) + 1
    <3>1. \A q \in Seq(Seqs) : \A x : Len(Append(q, x)) = Len(q) + 1
      OBVIOUS
    <3> QED BY <1>1, <2>3, <3>1
  <2>5. PICK m \in Nat, d \in Nat : m = Len(scheduled_seqs) /\ d = num_decodes
    BY <1>1, LenProperties DEF QInv, QueueTypes
  <2>6. d <= m /\ m + 1 = d
    BY <2>1, <2>2, <2>4, <2>5
  <2> QED BY ONLY <2>6, m \in Nat, d \in Nat
<1>4. CASE RequeuePrefill \/ EndPrefill
  <2>1. phase = "prefill" /\ UNCHANGED <<running, scheduled_seqs, num_decodes>>
    BY <1>4 DEF RequeuePrefill, EndPrefill, Prefilling, preempt, stepVars, queueVars
  <2> QED BY <2>1 DEF PlainFacts
<1>5. CASE UNCHANGED vars
  <2>1. UNCHANGED <<phase, running, scheduled_seqs, num_decodes>>
    BY <1>5 DEF vars, stepVars, queueVars
  <2> QED BY <2>1 DEF PlainFacts
<1>6. ASSUME DecodeRow \/ ReclaimMidChunk \/ PreemptTail \/ PreemptSelf
      PROVE  FALSE
  BY <1>6 DEF DecodeRow, ReclaimMidChunk, PreemptTail, PreemptSelf, Decoding
<1>7. ASSUME NEW s \in Seqs, NEW r \in Requests, add_request(s, r) PROVE FALSE
  BY <1>7 DEF add_request
<1>8. ASSUME StartStep \/ Run \/ RunFails \/ (\E T \in SUBSET Queued : Cancel(T)) \/ CancelRow \/ Retry
      PROVE  FALSE
  BY <1>8 DEF StartStep, Run, RunFails, Cancel, CancelRow, Retry
<1>9. ASSUME CommitRow \/ (\E t \in Token : EmitToken(t)) \/ FinishRow PROVE FALSE
  BY <1>9 DEF CommitRow, EmitToken, FinishRow, NextRow
<1> QED BY <1>2, <1>3, <1>4, <1>5, <1>6, <1>7, <1>8, <1>9 DEF Next, Schedule, Postprocess, CleanUp, Rest

\* A plain step keeps what it adds to the scheduler's invariant.
LEMMA PlainStays ==
  ASSUME IInv, [Next]_vars, PlainFacts, mode' = mode, mode # "ordinary" /\ phase = "run" => phase' # "failed"
  PROVE  PlainFacts'
<1>1. QInv /\ Cardinality(Unended(status)) <= MaxNumSeqs
  BY DEF IInv, PlainFacts
<1>2. Cardinality(Unended(status')) <= MaxNumSeqs
  BY <1>1, CapStays
<1>3. phase' \in {"prefill", "run"} /\ Len(scheduled_seqs') = num_decodes' => running' = scheduled_seqs'
  BY PureStays
<1>4. ASSUME phase' = "failed", ~ragged', mode' # "ordinary"
      PROVE  \A s \in Range(scheduled_seqs') : s \in Range(running') => Ready(s)'
  <2>1. CASE UNCHANGED vars
    <3>1. /\ UNCHANGED <<phase, running, scheduled_seqs, num_decodes, num_cached_tokens, token_ids, block_table>>
      BY <2>1 DEF vars, stepVars, queueVars, bmVars
    <3>2. ragged' <=> ragged
      BY <3>1 DEF ragged
    <3>3. \A s : Ready(s)' <=> Ready(s)
      BY <3>1 DEF Ready, BM!BlocksFor
    <3> QED BY <1>4, <3>1, <3>2, <3>3 DEF PlainFacts
  <2>2. CASE EndPrefill
    <3>1. scheduled_seqs' = <<>>
      BY <1>4, <2>2 DEF EndPrefill, stepVars
    <3> QED BY <3>1 DEF Range
  <2>3. ASSUME DecodeRow \/ ReclaimMidChunk \/ PreemptTail \/ PreemptSelf \/ EndDecode
                 \/ AdmitPrefill \/ ContinuePrefill \/ RequeuePrefill
        PROVE  FALSE
    BY <1>4, <2>3 DEF DecodeRow, ReclaimMidChunk, PreemptTail, PreemptSelf, EndDecode, Decoding, AdmitPrefill,
       ContinuePrefill, RequeuePrefill, Prefilling, ScheduleChunk
  <2>4. ASSUME NEW s \in Seqs, NEW r \in Requests, add_request(s, r) PROVE FALSE
    BY <1>4, <2>4 DEF add_request
  <2>5. ASSUME StartStep \/ Run \/ (\E T \in SUBSET Queued : Cancel(T)) \/ CancelRow \/ Retry
        PROVE  FALSE
    BY <1>4, <2>5 DEF StartStep, Run, Cancel, CancelRow, Retry
  <2>6. ASSUME CommitRow \/ (\E t \in Token : EmitToken(t)) \/ FinishRow PROVE FALSE
    BY <1>4, <2>6 DEF CommitRow, EmitToken, FinishRow, NextRow
  <2>7. ~RunFails
    BY <1>4 DEF RunFails
  <2> QED BY <2>1, <2>2, <2>3, <2>4, <2>5, <2>6, <2>7 DEF Next, Schedule, Postprocess, CleanUp, Rest
<1> QED BY <1>2, <1>3, <1>4 DEF PlainFacts

\* What s has cached stays where it is, or its table is given up.
Carries(s) ==
  \/ block_table'[s] = <<>>
  \/ /\ num_cached_tokens[s] <= num_cached_tokens'[s]
     /\ \E l \in Nat : /\ num_cached_tokens[s] <= BlockSize * l
                       /\ \A i \in 1 .. l : block_table'[s][i] = block_table[s][i]
     /\ \A k \in 1 .. num_cached_tokens[s] : SubSeq(token_ids'[s], 1, k) = SubSeq(token_ids[s], 1, k)

\* So it is, when tables only grow.
LEMMA CarriesTable ==
  ASSUME BMP!IInv, NEW s \in Seqs, token_ids'[s] = token_ids[s],
         num_cached_tokens[s] <= num_cached_tokens'[s],
         \A i \in 1 .. Len(block_table[s]) : block_table'[s][i] = block_table[s][i]
  PROVE  Carries(s)
<1>1. num_cached_tokens[s] <= BlockSize * Len(block_table[s])
  BY AllocatorFacts
<1>2. Len(block_table[s]) \in Nat
  BY AllocatorFacts, LenProperties DEF BM!TypeOK
<1>3. \A k \in 1 .. num_cached_tokens[s] : SubSeq(token_ids'[s], 1, k) = SubSeq(token_ids[s], 1, k)
  OBVIOUS
<1> QED BY <1>1, <1>2, <1>3 DEF Carries

\* Nothing is cached of a sequence without tokens or without blocks.
LEMMA CarriesNothing ==
  ASSUME BMP!IInv, NEW s \in Seqs, token_ids[s] = <<>> \/ block_table[s] = <<>>,
         num_cached_tokens'[s] \in Nat
  PROVE  Carries(s)
<1>1. num_cached_tokens[s] \in Nat /\ num_cached_tokens[s] <= Len(token_ids[s])
      /\ num_cached_tokens[s] <= BlockSize * Len(block_table[s])
  BY AllocatorFacts DEF BM!TypeOK
<1>2. num_cached_tokens[s] = 0
  <2>1. CASE token_ids[s] = <<>>
    BY <1>1, <2>1, EmptySeq
  <2>2. CASE block_table[s] = <<>>
    <3>1. Len(block_table[s]) = 0
      BY <2>2, EmptySeq
    <3>2. BlockSize * 0 = 0
      BY Constants
    <3> QED BY <1>1, <3>1, <3>2
  <2> QED BY <2>1, <2>2
<1>3. 0 \in Nat /\ 0 <= BlockSize * 0 /\ \A i \in 1 .. 0 : block_table'[s][i] = block_table[s][i]
  BY Constants
<1>4. \A k \in 1 .. 0 : SubSeq(token_ids'[s], 1, k) = SubSeq(token_ids[s], 1, k)
  OBVIOUS
<1> QED BY <1>2, <1>3, <1>4 DEF Carries

\* Every call on the allocator carries what is cached, or gives it up.
LEMMA AllCarry ==
  ASSUME BMP!IInv, BM!Next \/ UNCHANGED bmVars, NEW x \in Seqs
  PROVE  Carries(x)
<1>1. /\ token_ids \in [Seqs -> Seq(Token)] /\ block_table \in [Seqs -> Seq(BM!Blocks)]
      /\ num_cached_tokens \in [Seqs -> Nat] /\ BM!TypeOK
  BY AllocatorFacts DEF BM!TypeOK
<1>2. num_cached_tokens'[x] \in Nat
  <2>1. BMP!IInv'
    BY AllocatorKeeps
  <2>2. (BMP!IInv => num_cached_tokens \in [Seqs -> Nat])'
    BY DEF BMP!IInv, BMP!PoolInv, BMP!TypeOK
  <2> QED BY <2>1, <2>2
<1>3. ASSUME token_ids'[x] = token_ids[x], block_table'[x] = block_table[x],
             num_cached_tokens'[x] = num_cached_tokens[x]
      PROVE  Carries(x)
  <2>1. num_cached_tokens[x] <= num_cached_tokens'[x]
    BY <1>2, <1>3
  <2>2. \A i \in 1 .. Len(block_table[x]) : block_table'[x][i] = block_table[x][i]
    BY <1>3
  <2> QED BY <1>3, <2>1, <2>2, CarriesTable
<1>4. CASE UNCHANGED bmVars
  BY <1>3, <1>4 DEF bmVars
<1>5. ASSUME NEW s \in Seqs, NEW p, BM!Create(s, p) PROVE Carries(x)
  <2>1. token_ids[s] = <<>> /\ token_ids' = [token_ids EXCEPT ![s] = p] /\ UNCHANGED <<block_table, num_cached_tokens>>
    BY <1>5 DEF BM!Create, BM!new_sequence
  <2>2. CASE x = s
    BY <1>2, <2>1, <2>2, CarriesNothing
  <2>3. CASE x # s
    BY <1>1, <1>3, <2>1, <2>3
  <2> QED BY <2>2, <2>3
<1>6. ASSUME NEW s \in Seqs, NEW c, NEW n, BM!AllocateIncremental(s, c, n) PROVE Carries(x)
  <2>1. /\ block_table[s] = <<>> /\ token_ids' = token_ids
        /\ \E v : block_table' = [block_table EXCEPT ![s] = v]
        /\ \E v : num_cached_tokens' = [num_cached_tokens EXCEPT ![s] = v]
    BY <1>6 DEF BM!AllocateIncremental, BM!allocate_incremental
  <2>2. CASE x = s
    BY <1>2, <2>1, <2>2, CarriesNothing
  <2>3. CASE x # s
    BY <1>1, <1>3, <2>1, <2>3
  <2> QED BY <2>2, <2>3
<1>7. ASSUME NEW s \in Seqs, NEW n \in Nat, BM!take_blocks(s, n) PROVE Carries(x)
  <2>1. /\ block_table' = [block_table EXCEPT ![s] = @ \o SubSeq(free_block_ids, 1, n)]
        /\ UNCHANGED <<token_ids, num_cached_tokens>> /\ Len(free_block_ids) >= n
    BY <1>7 DEF BM!take_blocks
  <2>2. CASE x # s
    BY <1>1, <1>3, <2>1, <2>2
  <2>3. CASE x = s
    <3>1. PICK f : f = SubSeq(free_block_ids, 1, n)
      OBVIOUS
    <3>2. block_table'[x] = block_table[x] \o f
      BY <1>1, <2>1, <2>3, <3>1
    <3>3. \A i \in 1 .. Len(block_table[x]) : (block_table[x] \o f)[i] = block_table[x][i]
      <4>1. f \in Seq(BM!Blocks)
        <5>1. free_block_ids \in Seq(BM!Blocks) /\ Len(free_block_ids) \in Nat
          BY <1>1, LenProperties DEF BM!TypeOK
        <5>2. \A i \in 1 .. n : free_block_ids[i] \in BM!Blocks
          BY <2>1, <5>1
        <5> QED BY <3>1, <5>2, SubSeqProperties
      <4>2. block_table[x] \in Seq(BM!Blocks)
        BY <1>1
      <4>3. Len(f) \in Nat /\ Len(block_table[x]) \in Nat
        BY <4>1, <4>2, LenProperties
      <4> QED BY <4>1, <4>2, <4>3, ConcatProperties
    <3>4. token_ids'[x] = token_ids[x] /\ num_cached_tokens[x] <= num_cached_tokens'[x]
      BY <1>1, <2>1
    <3>5. \A i \in 1 .. Len(block_table[x]) : block_table'[x][i] = block_table[x][i]
      BY <3>2, <3>3
    <3> QED BY <3>4, <3>5, CarriesTable
  <2> QED BY <2>2, <2>3
<1>8. ASSUME NEW s \in Seqs, NEW n \in 1 .. MaxModelLen + 1, BM!Extend(s, n) PROVE Carries(x)
  <2>1. BM!take_blocks(s, BM!missing_blocks(s, n))
    BY <1>8 DEF BM!Extend, BM!extend
  <2>2. Len(block_table[s]) \in Nat /\ BM!BlocksFor(n) \in Nat
    BY <1>1, LenProperties, Blocks
  <2>3. BM!missing_blocks(s, n) \in Nat
    BY <2>2 DEF BM!missing_blocks
  <2> QED BY <1>7, <2>1, <2>3
<1>9. ASSUME NEW s \in Seqs, BM!MayAppend(s) PROVE Carries(x)
  <2>1. BM!take_blocks(s, 1) \/ BM!take_blocks(s, 0)
    BY <1>9 DEF BM!MayAppend, BM!may_append
  <2> QED BY <1>7, <2>1
<1>10. ASSUME NEW s \in Seqs, BM!Deallocate(s) PROVE Carries(x)
  <2>1. /\ token_ids' = token_ids /\ block_table' = [block_table EXCEPT ![s] = <<>>]
        /\ num_cached_tokens' = [num_cached_tokens EXCEPT ![s] = 0]
    BY <1>10 DEF BM!Deallocate, BM!deallocate
  <2>2. CASE x = s
    BY <1>1, <2>1, <2>2 DEF Carries
  <2>3. CASE x # s
    BY <1>1, <1>3, <2>1, <2>3
  <2> QED BY <2>2, <2>3
<1>11. ASSUME NEW s \in Seqs, NEW n \in 1 .. MaxModelLen + 1, BM!Commit(s, n) PROVE Carries(x)
  <2>1. /\ token_ids' = token_ids /\ block_table' = block_table
        /\ num_cached_tokens' = [num_cached_tokens EXCEPT ![s] = @ + n]
    BY <1>11 DEF BM!Commit, BM!commit
  <2>2. num_cached_tokens[x] <= num_cached_tokens'[x]
    BY <1>1, <2>1
  <2> QED BY <2>1, <2>2, CarriesTable
<1>12. ASSUME NEW s \in Seqs, NEW t \in Token, BM!AppendToken(s, t) PROVE Carries(x)
  <2>1. token_ids' = [token_ids EXCEPT ![s] = Append(@, t)] /\ UNCHANGED <<block_table, num_cached_tokens>>
    BY <1>12 DEF BM!AppendToken, BM!append_token
  <2>2. CASE x # s
    BY <1>1, <1>3, <2>1, <2>2
  <2>3. CASE x = s
    <3>1. PICK n \in Nat, c \in Nat : n = Len(token_ids[x]) /\ c = num_cached_tokens[x] /\ c <= n
      <4>1. Len(token_ids[x]) \in Nat /\ num_cached_tokens[x] \in Nat /\ num_cached_tokens[x] <= Len(token_ids[x])
        BY <1>1, LenProperties, AllocatorFacts
      <4> QED BY <4>1
    <3>2. token_ids'[x] = token_ids[x] \o <<t>>
      <4>1. token_ids'[x] = Append(token_ids[x], t)
        BY <1>1, <2>1, <2>3
      <4>2. \A q \in Seq(Token) : Append(q, t) = q \o <<t>>
        OBVIOUS
      <4> QED BY <1>1, <4>1, <4>2
    <3>3. \A k \in 0 .. n : SubSeq(token_ids'[x], 1, k) = SubSeq(token_ids[x], 1, k)
      <4>1. <<t>> \in Seq(Token) /\ token_ids[x] \in Seq(Token)
        BY <1>1
      <4> QED BY <3>1, <3>2, <4>1, AppendedText
    <3>4. \A k \in 1 .. c : k \in 0 .. n
      BY <3>1
    <3>5. num_cached_tokens[x] <= BlockSize * Len(block_table[x]) /\ Len(block_table[x]) \in Nat
      BY <1>1, AllocatorFacts, LenProperties
    <3>6. num_cached_tokens[x] <= num_cached_tokens'[x]
      BY <1>1, <2>1
    <3>7. \A i \in 1 .. Len(block_table[x]) : block_table'[x][i] = block_table[x][i]
      BY <2>1
    <3> QED BY <3>1, <3>3, <3>4, <3>5, <3>6, <3>7 DEF Carries
  <2> QED BY <2>2, <2>3
<1>13. ASSUME NEW rows, BM!RollbackAppends(rows) PROVE Carries(x)
  <2>1. /\ UNCHANGED <<token_ids, num_cached_tokens>>
        /\ block_table'[x] = IF x \in Range(rows) THEN SubSeq(block_table[x], 1, Len(block_table[x]) - 1)
                             ELSE block_table[x]
    BY <1>13 DEF BM!RollbackAppends, BM!rollback_uncommitted_appends, BM!Range, Range
  <2>2. CASE x \notin Range(rows)
    BY <1>3, <2>1, <2>2
  <2>3. CASE x \in Range(rows)
    <3>1. block_table[x] # <<>> /\ num_cached_tokens[x] <= BlockSize * (Len(block_table[x]) - 1)
      BY <1>13, <2>3 DEF BM!RollbackAppends, BM!Range, Range
    <3>2. PICK l \in Nat : l = Len(block_table[x]) - 1
      <4>1. Len(block_table[x]) \in Nat /\ Len(block_table[x]) # 0
        BY <1>1, <3>1, EmptySeq, LenProperties
      <4> QED BY <4>1
    <3>3. \A i \in 1 .. l : block_table'[x][i] = block_table[x][i]
      <4>1. block_table'[x] = SubSeq(block_table[x], 1, l)
        BY <2>1, <2>3, <3>2
      <4>2. \A i \in 1 .. l : SubSeq(block_table[x], 1, l)[i] = block_table[x][i]
        BY <1>1, <3>2
      <4> QED BY <4>1, <4>2
    <3>4. \A k \in 1 .. num_cached_tokens[x] : SubSeq(token_ids'[x], 1, k) = SubSeq(token_ids[x], 1, k)
      BY <2>1
    <3>5. num_cached_tokens[x] <= num_cached_tokens'[x]
      BY <1>1, <2>1
    <3> QED BY <3>1, <3>2, <3>3, <3>4, <3>5 DEF Carries
  <2> QED BY <2>2, <2>3
<1>14. ASSUME NEW n, BM!Forward(n) PROVE Carries(x)
  BY <1>3, <1>14 DEF BM!Forward, BM!store_kvcache, BM!seqVars
<1>15. CASE BM!Next
  BY <1>5, <1>6, <1>8, <1>9, <1>10, <1>11, <1>12, <1>13, <1>14, <1>15 DEF BM!Next
<1> QED BY <1>4, <1>15

\* What the draft cache holds of a sequence that keeps its cached tokens.
LEMMA CarriesHeld ==
  ASSUME NEW s, Carries(s), block_table'[s] # <<>>, NEW d, NEW n \in Nat,
         num_cached_tokens[s] \in Nat, num_cached_tokens'[s] \in Nat,
         n <= num_cached_tokens[s], HeldIn(block_table[s], d, n, token_ids[s])
  PROVE  n <= num_cached_tokens'[s] /\ HeldIn(block_table'[s], d, n, token_ids'[s])
<1>1. PICK l \in Nat : /\ num_cached_tokens[s] <= BlockSize * l
                       /\ \A i \in 1 .. l : block_table'[s][i] = block_table[s][i]
  BY DEF Carries
<1>2. PICK c \in Nat, e \in Nat : c = num_cached_tokens[s] /\ e = num_cached_tokens'[s] /\ c <= e
  BY DEF Carries
<1>3. n <= BlockSize * l
  <2>1. BlockSize * l \in Nat
    BY Constants
  <2> QED BY <1>1, <1>2, <2>1
<1>4. \A k \in 1 .. n : SubSeq(token_ids'[s], 1, k) = SubSeq(token_ids[s], 1, k)
  <2>1. \A k \in 1 .. n : k \in 1 .. num_cached_tokens[s]
    BY <1>2
  <2> QED BY <2>1 DEF Carries
<1>5. PICK u, t, x, y : u = block_table'[s] /\ t = block_table[s] /\ x = token_ids[s] /\ y = token_ids'[s]
  OBVIOUS
<1>6. HeldIn(u, d, n, y)
  BY <1>1, <1>3, <1>4, <1>5, HeldStays
<1> QED BY <1>2, <1>5, <1>6

\* Draft coverage that was kept with the table, or that postprocess took over.
Covers(s) ==
  \/ num_draft_cached_tokens'[s] = IF block_table'[s] = <<>> THEN 0 ELSE num_draft_cached_tokens[s]
  \/ /\ num_draft_cached_tokens'[s] \in Nat
     /\ num_draft_cached_tokens'[s] <= num_cached_tokens'[s]
     /\ HeldIn(block_table'[s], draft_kv, num_draft_cached_tokens'[s], token_ids'[s])

\* No call on the allocator makes the draft coverage wrong.
LEMMA DraftCarries ==
  ASSUME BMP!IInv, BM!Next \/ UNCHANGED bmVars, DraftFacts(HostState, draft_kv), draft_kv' = draft_kv,
         num_draft_cached_tokens' = [s \in Seqs |-> num_draft_cached_tokens'[s]],
         \A s \in Seqs : Covers(s)
  PROVE  DraftFacts(HostState', draft_kv')
<1>1. BMP!IInv'
  BY AllocatorKeeps
<1>2. num_cached_tokens \in [Seqs -> Nat] /\ num_cached_tokens' \in [Seqs -> Nat]
  BY <1>1 DEF BMP!IInv, BMP!PoolInv, BMP!TypeOK
<1>3. /\ num_draft_cached_tokens \in [Seqs -> Nat]
      /\ draft_kv \in [BM!Blocks -> [0 .. BlockSize - 1 -> Seq(Token)]]
      /\ \A s \in Seqs : /\ num_draft_cached_tokens[s] <= num_cached_tokens[s]
                         /\ HeldIn(block_table[s], draft_kv, num_draft_cached_tokens[s], token_ids[s])
  BY HostIs DEF DraftFacts
<1>4. ASSUME NEW s \in Seqs
      PROVE  /\ num_draft_cached_tokens'[s] \in Nat
             /\ num_draft_cached_tokens'[s] <= num_cached_tokens'[s]
             /\ HeldIn(block_table'[s], draft_kv, num_draft_cached_tokens'[s], token_ids'[s])
  <2>1. CASE num_draft_cached_tokens'[s] = 0
    <3>1. HeldIn(block_table'[s], draft_kv, 0, token_ids'[s])
      BY DEF HeldIn
    <3> QED BY <1>2, <2>1, <3>1
  <2>2. CASE block_table'[s] # <<>> /\ num_draft_cached_tokens'[s] = num_draft_cached_tokens[s]
    <3>1. PICK n \in Nat : n = num_draft_cached_tokens[s]
      BY <1>3
    <3>2. /\ n <= num_cached_tokens[s] /\ HeldIn(block_table[s], draft_kv, n, token_ids[s])
          /\ num_cached_tokens[s] \in Nat /\ num_cached_tokens'[s] \in Nat /\ Carries(s)
      BY <1>2, <1>3, <3>1, AllCarry
    <3>3. n <= num_cached_tokens'[s] /\ HeldIn(block_table'[s], draft_kv, n, token_ids'[s])
      BY <2>2, <3>2, CarriesHeld
    <3> QED BY <2>2, <3>1, <3>3
  <2>3. CASE /\ num_draft_cached_tokens'[s] \in Nat
             /\ num_draft_cached_tokens'[s] <= num_cached_tokens'[s]
             /\ HeldIn(block_table'[s], draft_kv, num_draft_cached_tokens'[s], token_ids'[s])
    BY <2>3
  <2>4. Covers(s)
    OBVIOUS
  <2> QED BY <2>1, <2>2, <2>3, <2>4 DEF Covers
<1>5. num_draft_cached_tokens' \in [Seqs -> Nat]
  BY <1>4
<1>6. PICK J : J = HostState'
  OBVIOUS
<1>7. /\ J.draft = num_draft_cached_tokens' /\ J.cached = num_cached_tokens'
      /\ J.tables = block_table' /\ J.tokens = token_ids'
  BY <1>6, HostNext
<1>8. DraftFacts(J, draft_kv)
  BY <1>3, <1>4, <1>5, <1>7 DEF DraftFacts
<1> QED BY <1>6, <1>8

\* A turn of the postprocess loop closes the current row only.
LEMMA OpenNext ==
  ASSUME QInv, phase \in Postprocessing, NEW x, x = scheduled_seqs[row],
         \/ NextRow
         \/ phase' \in {"emit", "finish"} /\ UNCHANGED <<row, scheduled_seqs>>
  PROVE  \A s : s \in Open /\ s # x => s \in Open'
<1>1. Open \subseteq RowsFrom(row + 1) \cup {x}
  <2>1. RowsFrom(row) = RowsFrom(row + 1) \cup {x}
    BY RowsSplit
  <2>2. Open = RowsFrom(row) \/ Open = RowsFrom(row + 1)
    BY DEF Open, Postprocessing
  <2> QED BY <2>1, <2>2
<1>2. PICK n \in Nat, r \in Nat : n = Len(scheduled_seqs) /\ r = row /\ r <= n
  <2>1. Len(scheduled_seqs) \in Nat /\ row \in 1 .. Len(scheduled_seqs)
    BY Members, CurrentRow DEF Postprocessing
  <2> QED BY <2>1
<1>3. RowsFrom(row + 1) = {scheduled_seqs[i] : i \in r + 1 .. n}
  BY <1>2 DEF RowsFrom
<1>4. CASE phase' \in {"emit", "finish"} /\ UNCHANGED <<row, scheduled_seqs>>
  <2>1. Open' = {scheduled_seqs[i] : i \in r + 1 .. n}
    BY <1>2, <1>4 DEF Open, RowsFrom
  <2> QED BY <1>1, <1>3, <2>1
<1>5. CASE NextRow /\ row < Len(scheduled_seqs)
  <2>1. phase' = "commit" /\ row' = r + 1 /\ scheduled_seqs' = scheduled_seqs
    BY <1>2, <1>5 DEF NextRow
  <2>2. Open' = {scheduled_seqs[i] : i \in r + 1 .. n}
    BY <1>2, <2>1 DEF Open, RowsFrom
  <2> QED BY <1>1, <1>3, <2>2
<1>6. CASE NextRow /\ ~(row < Len(scheduled_seqs))
  <2>1. r + 1 .. n = {}
    BY <1>2, <1>6
  <2>2. RowsFrom(row + 1) = {}
    BY <1>3, <2>1
  <2> QED BY <1>1, <2>2
<1> QED BY <1>4, <1>5, <1>6

\* The staged coverage of one row.
RowCovered(s) ==
  status[s] = "RUNNING" =>
    /\ coverage[s] <= num_cached_tokens[s] + (IF s \in Open THEN 1 ELSE 0)
    /\ HeldIn(block_table[s], draft_kv, coverage[s], token_ids[s])

\* The same after a step that leaves the staged coverage and the draft cache alone.
RowCoveredNext(s) ==
  status'[s] = "RUNNING" =>
    /\ coverage[s] <= num_cached_tokens'[s] + (IF s \in Open' THEN 1 ELSE 0)
    /\ HeldIn(block_table'[s], draft_kv, coverage[s], token_ids'[s])

\* A row that the step leaves alone stays covered.
LEMMA CoverKept ==
  ASSUME NEW s, RowCovered(s), coverage[s] \in Nat, num_cached_tokens[s] \in Nat,
         status'[s] = "RUNNING" => status[s] = "RUNNING", block_table'[s] = block_table[s],
         token_ids'[s] = token_ids[s], num_cached_tokens'[s] = num_cached_tokens[s],
         s \in Open => s \in Open'
  PROVE  RowCoveredNext(s)
  BY DEF RowCovered, RowCoveredNext

\* The pass of a shadow cycle and its postprocess keep the staged coverage right.
LEMMA CoverStays ==
  ASSUME IInv, CoverFacts, Run \/ Postprocess, NEW s \in Rows
  PROVE  RowCoveredNext(s)
<1>1. QInv /\ Rows \subseteq Seqs /\ s \in Seqs
  BY Members DEF IInv, Rows
<1>2. RowCovered(s) /\ coverage[s] \in Nat
  BY DEF CoverFacts, RowCovered
<1>3. /\ token_ids \in [Seqs -> Seq(Token)] /\ num_cached_tokens \in [Seqs -> Nat]
      /\ status \in [Seqs -> Statuses] /\ block_table \in [Seqs -> Seq(BM!Blocks)]
      /\ num_scheduled_tokens[s] \in Nat
  <2>1. BM!TypeOK
    BY AllocatorFacts DEF IInv
  <2>2. num_scheduled_tokens[s] \in Nat
    BY <1>1, Counts DEF IInv
  <2> QED BY <1>1, <2>1, <2>2 DEF QInv, QueueTypes, BM!TypeOK
<1>4. CASE Run
  <2>1. /\ UNCHANGED <<token_ids, num_cached_tokens, block_table, status, scheduled_seqs>>
        /\ phase = "run" /\ phase' = "commit" /\ row' = 1
    BY <1>4 DEF Run, BM!store_kvcache, BM!seqVars, reqVars
  <2>2. s \in Open => s \in Open'
    BY <2>1 DEF Open, RowsFrom
  <2> QED BY <1>2, <1>3, <1>1, <2>1, <2>2, CoverKept
<1>5. CASE Postprocess
  <2>1. PICK x : x = scheduled_seqs[row]
    OBVIOUS
  <2>2. phase \in Postprocessing
    BY <1>5 DEF Postprocess, CommitRow, EmitToken, FinishRow, Postprocessing
  <2>3. \/ NextRow
        \/ phase' \in {"emit", "finish"} /\ UNCHANGED <<row, scheduled_seqs>>
    BY <1>5 DEF Postprocess, CommitRow, EmitToken, FinishRow
  <2>4. s \in Open /\ s # x => s \in Open'
    BY <1>1, <2>1, <2>2, <2>3, OpenNext
  <2>5. x \in Seqs
    BY <1>1, <2>1, <2>2, CurrentRow DEF Postprocessing
  <2>6. CASE CommitRow
    <3>1. /\ UNCHANGED <<token_ids, block_table, status>> /\ phase = "commit"
          /\ num_cached_tokens' = [num_cached_tokens EXCEPT ![x] = @ + num_scheduled_tokens[x]]
      BY <2>1, <2>6, CommitEffect DEF CommitRow, BM!commit, reqVars
    <3>2. CASE s # x
      <4>1. num_cached_tokens'[s] = num_cached_tokens[s]
        BY <1>1, <1>3, <3>1, <3>2
      <4> QED BY <1>1, <1>2, <1>3, <2>4, <3>1, <3>2, <4>1, CoverKept
    <3>3. CASE s = x
      <4>1. Fits(s)
        BY <2>1, <3>1, <3>3, RowIs
      <4>2. PICK c \in Nat, n \in Nat : c = num_cached_tokens[s] /\ n = num_scheduled_tokens[s] /\ n > 0
        <5>1. num_cached_tokens[s] \in Nat
          BY <1>1, <1>3
        <5> QED BY <1>3, <4>1, <5>1 DEF Fits
      <4>3. num_cached_tokens'[s] = c + n
        BY <1>1, <1>3, <3>1, <3>3, <4>2
      <4>4. ASSUME status'[s] = "RUNNING"
            PROVE  /\ coverage[s] <= num_cached_tokens'[s] + (IF s \in Open' THEN 1 ELSE 0)
                   /\ HeldIn(block_table'[s], draft_kv, coverage[s], token_ids'[s])
        <5>1. coverage[s] <= c + (IF s \in Open THEN 1 ELSE 0) /\ HeldIn(block_table[s], draft_kv, coverage[s], token_ids[s])
          BY <1>2, <3>1, <4>2, <4>4 DEF RowCovered
        <5>2. coverage[s] <= c + n
          BY <1>2, <4>2, <5>1
        <5> QED BY <1>2, <3>1, <4>3, <5>1, <5>2
      <4> QED BY <4>4 DEF RowCoveredNext
    <3> QED BY <3>2, <3>3
  <2>7. ASSUME NEW t \in Token, EmitToken(t) PROVE RowCoveredNext(s)
    <3>1. /\ token_ids' = [token_ids EXCEPT ![x] = Append(@, t)] /\ phase = "emit"
          /\ UNCHANGED <<block_table, num_cached_tokens>>
          /\ status' = status \/ status' = [status EXCEPT ![x] = "FINISHED"]
      BY <2>1, <2>7 DEF EmitToken, BM!append_token
    <3>2. status'[s] = "RUNNING" => status[s] = "RUNNING"
      BY <1>1, <1>3, <3>1
    <3>3. CASE s # x
      BY <1>1, <1>2, <1>3, <2>4, <3>1, <3>2, <3>3, CoverKept
    <3>4. CASE s = x
      <4>1. num_cached_tokens[s] = Len(token_ids[s])
        <5>1. SeqInv(s) /\ Current(s)
          BY <1>1, <2>1, <3>1, <3>4 DEF IInv, StepInv, Current
        <5> QED BY <3>1, <5>1 DEF SeqInv
      <4>2. s \notin Open
        <5>1. Open = RowsFrom(row + 1) /\ x \notin RowsFrom(row + 1)
          BY <1>1, <2>1, <2>2, <3>1, RowsSplit DEF Open
        <5> QED BY <3>4, <5>1
      <4>3. PICK n \in Nat, v \in Nat : n = Len(token_ids[s]) /\ v = coverage[s]
        BY <1>1, <1>2, <1>3, LenProperties
      <4>4. ASSUME status'[s] = "RUNNING"
            PROVE  /\ v <= n + (IF s \in Open' THEN 1 ELSE 0)
                   /\ HeldIn(block_table'[s], draft_kv, v, token_ids'[s])
        <5>1. v <= n /\ HeldIn(block_table[s], draft_kv, v, token_ids[s])
          BY <1>2, <3>2, <4>1, <4>2, <4>3, <4>4 DEF RowCovered
        <5>2. PICK X : X = token_ids[s] /\ X \in Seq(Token)
          BY <1>1, <1>3
        <5>3. token_ids'[s] = X \o <<t>>
          <6>1. token_ids'[s] = Append(X, t)
            BY <1>1, <1>3, <3>1, <3>4, <5>2
          <6>2. Append(X, t) = X \o <<t>>
            BY <5>2
          <6> QED BY <6>1, <6>2
        <5>4. \A k \in 1 .. v : SubSeq(X \o <<t>>, 1, k) = SubSeq(X, 1, k)
          <6>1. <<t>> \in Seq(Token)
            OBVIOUS
          <6>2. \A k \in 0 .. Len(X) : SubSeq(X \o <<t>>, 1, k) = SubSeq(X, 1, k)
            BY <5>2, <6>1, AppendedText
          <6>3. \A k \in 1 .. v : k \in 0 .. Len(X)
            BY <4>3, <5>1, <5>2
          <6> QED BY <6>2, <6>3
        <5>5. PICK l \in Nat : l = Len(block_table[s]) /\ v <= BlockSize * l
          <6>1. num_cached_tokens[s] <= BlockSize * Len(block_table[s]) /\ Len(block_table[s]) \in Nat
            BY <1>1, Counts DEF IInv
          <6>2. BlockSize * Len(block_table[s]) \in Nat
            BY <6>1, Constants
          <6> QED BY <4>1, <4>3, <5>1, <6>1, <6>2
        <5>6. PICK u, y : u = block_table[s] /\ y = X \o <<t>>
          OBVIOUS
        <5>7. HeldIn(u, draft_kv, v, y)
          BY <5>1, <5>2, <5>4, <5>5, <5>6, HeldStays
        <5>8. HeldIn(block_table'[s], draft_kv, v, token_ids'[s])
          BY <3>1, <5>3, <5>6, <5>7
        <5>9. v <= n + (IF s \in Open' THEN 1 ELSE 0)
          BY <5>1
        <5> QED BY <5>8, <5>9
      <4> QED BY <3>1, <4>1, <4>3, <4>4 DEF RowCoveredNext
    <3> QED BY <3>3, <3>4
  <2>8. CASE FinishRow
    <3>1. /\ UNCHANGED <<token_ids, status>> /\ phase = "finish"
          /\ block_table' = [block_table EXCEPT ![x] = <<>>]
          /\ num_cached_tokens' = [num_cached_tokens EXCEPT ![x] = 0]
      BY <2>1, <2>8 DEF FinishRow, BM!deallocate, reqVars
    <3>2. CASE s # x
      <4>1. num_cached_tokens'[s] = num_cached_tokens[s] /\ block_table'[s] = block_table[s]
        BY <1>1, <1>3, <3>1, <3>2
      <4> QED BY <1>1, <1>2, <1>3, <2>4, <3>1, <3>2, <4>1, CoverKept
    <3>3. CASE s = x
      <4>1. status[s] = "FINISHED"
        BY <1>1, <2>1, <3>1, <3>3 DEF QInv, QueuesInv, Leaving
      <4> QED BY <3>1, <4>1 DEF RowCoveredNext
    <3> QED BY <3>2, <3>3
  <2> QED BY <1>5, <2>6, <2>7, <2>8 DEF Postprocess
<1> QED BY <1>4, <1>5

\* A request that is no longer pending may have ended in time.
LEMMA StopsEnded ==
  ASSUME NEW x, NEW r, NEW p, NEW q, Stops(x, r, p), q => p
  PROVE  Stops(x, r, q)
  BY DEF Stops

\* A plain step gives users nothing past the end of a request.
LEMMA StopsOn ==
  ASSUME QInv, [Next]_vars, StopInv, undo = Nothing, undo' = Nothing
  PROVE  StopInv'
<1>1. /\ token_ids \in [Seqs -> Seq(Token)] /\ status \in [Seqs -> Statuses]
      /\ request \in [Seqs -> [prompt : Seq(Token), max_tokens : Nat, ignore_eos : BOOLEAN]]
  BY DEF QInv, QueueTypes
<1>2. \A x \in Seqs : Stops(token_ids[x], request[x], status[x] \in Pending)
  BY DEF StopInv, Delivered, GivenStatus
<1>3. SUFFICES \A x \in Seqs : Stops(token_ids'[x], request'[x], status'[x] \in Pending)
  BY DEF StopInv, Delivered, GivenStatus
<1>4. ASSUME NEW s \in Seqs, NEW r \in Requests, add_request(s, r), NEW x \in Seqs
      PROVE  Stops(token_ids'[x], request'[x], status'[x] \in Pending)
  <2>1. /\ token_ids' = [token_ids EXCEPT ![s] = r.prompt] /\ request' = [request EXCEPT ![s] = r]
        /\ status' = [status EXCEPT ![s] = "WAITING"]
    BY <1>4 DEF add_request, BM!new_sequence
  <2>2. CASE x # s
    BY <1>1, <1>2, <2>1, <2>2
  <2>3. CASE x = s
    <3>1. token_ids'[x] = r.prompt /\ request'[x] = r
      BY <1>1, <2>1, <2>3
    <3>2. Len(r.prompt) \in Nat /\ r.max_tokens \in Nat
      BY Constants, LenProperties
    <3>3. PICK n \in Nat, m \in Nat : n = Len(r.prompt) /\ m = r.max_tokens
      BY <3>2
    <3>4. n <= n + m /\ n + 1 .. n = {}
      OBVIOUS
    <3>5. \A p : Stops(r.prompt, r, p)
      BY <3>3, <3>4 DEF Stops
    <3> QED BY <3>1, <3>5
  <2> QED BY <2>2, <2>3
<1>5. ASSUME NEW t \in Token, EmitToken(t), NEW x \in Seqs
      PROVE  Stops(token_ids'[x], request'[x], status'[x] \in Pending)
  <2>1. PICK s : s = scheduled_seqs[row]
    OBVIOUS
  <2>2. /\ phase = "emit" /\ token_ids' = [token_ids EXCEPT ![s] = Append(@, t)] /\ request' = request
        /\ \/ Finished(s, t) /\ status' = [status EXCEPT ![s] = "FINISHED"]
           \/ ~Finished(s, t) /\ status' = status
    BY <1>5, <2>1 DEF EmitToken, BM!append_token
  <2>3. s \in Seqs /\ s \in Range(running) /\ active = running
    BY <2>1, <2>2, CurrentRow
  <2>4. CASE x # s
    BY <1>1, <1>2, <2>2, <2>4
  <2>5. CASE x = s
    <3>1. status[s] = "RUNNING"
      BY <2>2, <2>3 DEF QInv, QueuesInv, Leaving
    <3>2. PICK X, r : X = token_ids[s] /\ r = request[s]
      OBVIOUS
    <3>3. /\ X \in Seq(Token) /\ Len(r.prompt) \in Nat /\ r.max_tokens \in Nat
          /\ Len(X) < Len(r.prompt) + r.max_tokens /\ Len(X) \in Nat /\ Len(r.prompt) <= Len(X)
      <4>1. X \in Seq(Token) /\ r \in [prompt : Seq(Token), max_tokens : Nat, ignore_eos : BOOLEAN]
        BY <1>1, <2>3, <3>2
      <4>2. Len(X) < Len(r.prompt) + r.max_tokens /\ Len(X) >= Len(r.prompt)
        BY <2>3, <3>1, <3>2 DEF QInv, TokensInv
      <4> QED BY <4>1, <4>2, LenProperties
    <3>4. PICK n \in Nat, a \in Nat, m \in Nat :
            n = Len(X) /\ a = Len(r.prompt) /\ m = r.max_tokens /\ n < a + m /\ a <= n
      BY <3>3
    <3>5. Stops(X, r, TRUE)
      <4>1. Stops(X, r, status[s] \in Pending)
        BY <1>2, <2>3, <3>2
      <4>2. status[s] \in Pending
        BY <3>1 DEF Pending
      <4> QED BY <4>1, <4>2, StopsEnded
    <3>6. <<t>> \in Seq(Token) /\ Len(<<t>>) = 1
      OBVIOUS
    <3>7. EndsOnce(r, <<t>>)
      BY <3>6 DEF EndsOnce
    <3>8. X \o <<t>> \in Seq(Token) /\ Len(X \o <<t>>) = n + 1 /\ (X \o <<t>>)[n + 1] = t
      BY <3>3, <3>4, <3>6
    <3>9. status'[s] \in Pending => ~EndsWith(r, X \o <<t>>)
      <4> SUFFICES ASSUME status'[s] \in Pending PROVE ~EndsWith(r, X \o <<t>>)
        OBVIOUS
      <4>1. ~Finished(s, t)
        BY <1>1, <2>2, <2>3 DEF Pending
      <4>2. Len(Completion(s)) = n - a
        BY <3>2, <3>3, <3>4, RestLen DEF Completion
      <4>3. ~(~r.ignore_eos /\ t = EOS) /\ ~(n - a + 1 >= m)
        BY <3>2, <3>4, <4>1, <4>2 DEF Finished
      <4>4. ~(n + 1 >= a + m)
        BY <4>3
      <4> QED BY <3>4, <3>8, <4>3, <4>4 DEF EndsWith
    <3>10. Len(X) + Len(<<t>>) <= Len(r.prompt) + r.max_tokens
      BY <3>4, <3>6
    <3>11. (status'[s] \in Pending) \in BOOLEAN
      OBVIOUS
    <3>12. Stops(X \o <<t>>, r, status'[s] \in Pending)
      <4>1. CASE status'[s] \in Pending
        <5>1. TRUE => ~EndsWith(r, X \o <<t>>)
          BY <3>9, <4>1
        <5>2. Stops(X \o <<t>>, r, TRUE)
          BY <3>3, <3>5, <3>6, <3>7, <3>10, <5>1, BurstStops
        <5> QED BY <5>2, StopsEnded
      <4>2. CASE status'[s] \notin Pending
        <5>1. FALSE => ~EndsWith(r, X \o <<t>>)
          OBVIOUS
        <5>2. Stops(X \o <<t>>, r, FALSE)
          BY <3>3, <3>5, <3>6, <3>7, <3>10, <5>1, BurstStops
        <5> QED BY <4>2, <5>2, StopsEnded
      <4> QED BY <4>1, <4>2
    <3>13. token_ids'[s] = X \o <<t>> /\ request'[s] = r
      <4>1. token_ids'[s] = Append(X, t) /\ request'[s] = r
        BY <1>1, <2>2, <2>3, <3>2
      <4>2. Append(X, t) = X \o <<t>>
        BY <3>3
      <4> QED BY <4>1, <4>2
    <3> QED BY <2>5, <3>12, <3>13
  <2> QED BY <2>4, <2>5
<1>6. ASSUME UNCHANGED <<token_ids, request>>, Unended(status') \subseteq Unended(status), NEW x \in Seqs
      PROVE  Stops(token_ids'[x], request'[x], status'[x] \in Pending)
  <2>1. status'[x] \in Pending => status[x] \in Pending
    BY <1>6 DEF Unended
  <2>2. Stops(token_ids[x], request[x], status[x] \in Pending)
    BY <1>2
  <2>3. Stops(token_ids[x], request[x], status'[x] \in Pending)
    BY <2>1, <2>2, StopsEnded
  <2> QED BY <1>6, <2>3
<1> QED BY <1>4, <1>5, <1>6, WhoGives

\* A plain step keeps the invariant of the scheduler, also with a draft model: a decode step
\* that failed is stepped over only after it was undone.
LEMMA PlainStep ==
  ASSUME SInv, mode' = mode, mode # "ordinary", phase \in Phases, [Next]_vars, Retry => ~ragged,
         phase = "run" => phase' # "failed"
  PROVE  /\ IInv /\ IInv' /\ PlainFacts' /\ phase' \in Phases
         /\ BMP!IInv /\ (BM!Next \/ UNCHANGED bmVars)
         /\ QInv /\ PlainFacts /\ CommonInv /\ StopInv
         /\ reservation = TA!NoReservation /\ undo = Nothing /\ effective_k \in Nat
         /\ effective_k = 0 <=> coverage = Nothing
         /\ coverage # Nothing => CoverFacts
         /\ DraftFacts(HostState, draft_kv)
<1>1. /\ IInv /\ PlainFacts /\ reservation = TA!NoReservation /\ undo = Nothing
      /\ effective_k = 0 <=> coverage = Nothing
      /\ coverage # Nothing => CoverFacts
  BY DEF SInv, PlainInv
<1>2. CommonInv /\ StopInv /\ effective_k \in Nat /\ DraftFacts(HostState, draft_kv)
  BY DEF SInv, CommonInv
<1>3. QInv /\ BMP!IInv
  BY <1>1 DEF IInv
<1>4. Retry => Retriable
  <2> SUFFICES ASSUME Retry PROVE Retriable
    OBVIOUS
  <2>1. phase = "failed" /\ ~ragged
    BY DEF Retry
  <2>2. \A s \in Range(scheduled_seqs) : s \in Range(running) => Ready(s)
    BY <1>1, <2>1 DEF PlainFacts
  <2>3. active = running
    BY <2>1 DEF active
  <2> QED BY <2>2, <2>3 DEF Retriable
<1>5. IInv'
  BY <1>1, <1>4, NextInv
<1>6. BM!Next \/ UNCHANGED bmVars
  BY <1>1, <1>4, NextStep
<1>7. PlainFacts'
  BY <1>1, PlainStays
<1>8. phase' \in Phases
  BY <1>5 DEF IInv, QInv, QueueTypes
<1> QED BY <1>1, <1>2, <1>3, <1>5, <1>6, <1>7, <1>8

\* Requests, schedules, passes and cancellations keep the invariant.
LEMMA OrdinaryKeeps ==
  ASSUME SInv, mode' = mode, mode # "ordinary", Ordinary
  PROVE  SInv'
<1>2. /\ num_draft_cached_tokens' = DraftCoverageKept
      /\ UNCHANGED <<draft_kv, reservation, effective_k, coverage, undo>>
  BY DEF Ordinary, cycleVars
<1>3. \/ \E s \in Seqs, r \in Requests : add_request(s, r)
      \/ StartStep \/ Schedule \/ Run
      \/ \E T \in SUBSET Queued : phase = "idle" /\ Cancel(T)
      \/ CleanUp \/ CancelRow \/ RetryDecode
  BY DEF Ordinary
<1>4. [Next]_vars
  BY <1>3 DEF Next, RetryDecode
<1>5. Run \/ phase \in {"idle", "decode", "prefill", "failed", "cancel"}
  BY <1>3 DEF add_request, StartStep, Schedule, DecodeRow, ReclaimMidChunk, PreemptTail, PreemptSelf, EndDecode,
     Decoding, AdmitPrefill, ContinuePrefill, RequeuePrefill, EndPrefill, Prefilling, CleanUp, CancelRow,
     RetryDecode, Retry
<1>6. Run => phase = "run" /\ phase' = "commit"
  BY DEF Run
<1>7. phase \in Phases /\ (phase = "run" => phase' # "failed")
  BY <1>5, <1>6 DEF Phases
<1>8. Retry => ~ragged
  <2> SUFFICES ASSUME Retry PROVE ~ragged
    OBVIOUS
  <2>1. phase = "failed" /\ phase' = "idle"
    BY DEF Retry
  <2>2. RetryDecode
    BY <1>3, <2>1 DEF add_request, StartStep, Schedule, DecodeRow, ReclaimMidChunk, PreemptTail, PreemptSelf,
       EndDecode, Decoding, AdmitPrefill, ContinuePrefill, RequeuePrefill, EndPrefill, Prefilling, CleanUp,
       CancelRow, Cancel, Run
  <2> QED BY <2>2 DEF RetryDecode
<1>9. /\ IInv /\ IInv' /\ PlainFacts' /\ phase' \in Phases
      /\ BMP!IInv /\ (BM!Next \/ UNCHANGED bmVars)
      /\ QInv /\ PlainFacts /\ CommonInv /\ StopInv
      /\ reservation = TA!NoReservation /\ undo = Nothing /\ effective_k \in Nat
      /\ effective_k = 0 <=> coverage = Nothing
      /\ coverage # Nothing => CoverFacts
      /\ DraftFacts(HostState, draft_kv)
  BY <1>4, <1>7, <1>8, PlainStep
<1>10. StopInv'
  BY <1>2, <1>4, <1>9, StopsOn
<1>11. DraftFacts(HostState', draft_kv')
  <2>1. num_draft_cached_tokens' = [s \in Seqs |-> num_draft_cached_tokens'[s]]
    BY <1>2 DEF DraftCoverageKept
  <2>2. \A s \in Seqs : Covers(s)
    BY <1>2 DEF DraftCoverageKept, Covers
  <2> QED BY <1>2, <1>9, <2>1, <2>2, DraftCarries
<1>12. coverage' # Nothing => CoverFacts'
  <2> SUFFICES ASSUME coverage' # Nothing PROVE CoverFacts'
    OBVIOUS
  <2>1. coverage' = coverage /\ CoverFacts
    BY <1>2, <1>9
  <2>2. Run
    BY <1>5, <2>1 DEF CoverFacts
  <2>3. phase' = "commit" /\ UNCHANGED <<scheduled_seqs, num_decodes>>
    BY <2>2 DEF Run
  <2>4. Rows' = Rows /\ (ragged' <=> ragged)
    BY <2>3 DEF Rows, ragged
  <2>5. \A s \in Rows : RowCoveredNext(s)
    BY <1>9, <2>1, <2>2, CoverStays
  <2> QED BY <1>2, <2>1, <2>3, <2>4, <2>5 DEF CoverFacts, RowCoveredNext
<1>13. /\ reservation' = TA!NoReservation /\ undo' = Nothing /\ effective_k' \in Nat
       /\ effective_k' = 0 <=> coverage' = Nothing
  BY <1>2, <1>9
<1> QED BY <1>9, <1>10, <1>11, <1>12, <1>13, PlainMade

\* postprocess keeps the invariant, and takes over the coverage that a shadow cycle staged.
LEMMA PostprocessKeeps ==
  ASSUME SInv, mode' = mode, mode # "ordinary", SpeculativePostprocess
  PROVE  SInv'
<1>1. Postprocess /\ UNCHANGED <<draft_kv, reservation, undo>>
  BY DEF SpeculativePostprocess, cycleVars
<1>2. /\ phase \in {"commit", "emit", "finish"}
      /\ phase' \in {"commit", "emit", "finish", "idle"}
      /\ phase' # "idle" => UNCHANGED scheduled_seqs
      /\ UNCHANGED num_decodes
  BY <1>1 DEF Postprocess, CommitRow, EmitToken, FinishRow, NextRow
<1>3. [Next]_vars /\ phase \in Phases /\ (phase = "run" => phase' # "failed") /\ ~Retry
  BY <1>1, <1>2 DEF Next, Phases, Retry
<1>4. /\ IInv /\ IInv' /\ PlainFacts' /\ phase' \in Phases
      /\ BMP!IInv /\ (BM!Next \/ UNCHANGED bmVars)
      /\ QInv /\ PlainFacts /\ CommonInv /\ StopInv
      /\ reservation = TA!NoReservation /\ undo = Nothing /\ effective_k \in Nat
      /\ effective_k = 0 <=> coverage = Nothing
      /\ coverage # Nothing => CoverFacts
      /\ DraftFacts(HostState, draft_kv)
  BY <1>3, PlainStep
<1>5. StopInv'
  BY <1>1, <1>3, <1>4, StopsOn
<1>6. ASSUME coverage # Nothing, NEW s \in Rows PROVE RowCoveredNext(s) /\ coverage[s] \in Nat
  <2>1. CoverFacts
    BY <1>4, <1>6
  <2> QED BY <1>1, <1>4, <2>1, CoverStays DEF CoverFacts
<1>7. CASE phase' = "idle"
  <2>1. /\ num_draft_cached_tokens' =
             [s \in Seqs |-> IF s \in DOMAIN coverage /\ status'[s] = "RUNNING"
                             THEN coverage[s] ELSE DraftCoverageKept[s]]
        /\ effective_k' = 0 /\ coverage' = Nothing
    BY <1>7 DEF SpeculativePostprocess, StagedCoverage
  <2>2. num_draft_cached_tokens' = [s \in Seqs |-> num_draft_cached_tokens'[s]]
    BY <2>1
  <2>3. ASSUME NEW s \in Seqs PROVE Covers(s)
    <3>1. CASE s \in DOMAIN coverage /\ status'[s] = "RUNNING"
      <4>1. coverage # Nothing
        <5>1. DOMAIN Nothing = {}
          BY DEF Nothing
        <5> QED BY <3>1, <5>1
      <4>2. s \in Rows
        BY <1>4, <3>1, <4>1 DEF CoverFacts
      <4>3. RowCoveredNext(s) /\ coverage[s] \in Nat
        BY <1>6, <4>1, <4>2
      <4>4. Open' = {}
        BY <1>7 DEF Open
      <4>5. num_cached_tokens'[s] \in Nat
        BY <1>4 DEF IInv, QInv, QueueTypes
      <4>6. coverage[s] <= num_cached_tokens'[s] /\ HeldIn(block_table'[s], draft_kv, coverage[s], token_ids'[s])
        BY <3>1, <4>3, <4>4, <4>5 DEF RowCoveredNext
      <4>7. num_draft_cached_tokens'[s] = coverage[s]
        BY <2>1, <3>1
      <4> QED BY <4>3, <4>6, <4>7 DEF Covers
    <3>2. CASE ~(s \in DOMAIN coverage /\ status'[s] = "RUNNING")
      BY <2>1, <3>2 DEF Covers, DraftCoverageKept
    <3> QED BY <3>1, <3>2
  <2>4. DraftFacts(HostState', draft_kv')
    BY <1>1, <1>4, <2>2, <2>3, DraftCarries
  <2>5. /\ reservation' = TA!NoReservation /\ undo' = Nothing /\ effective_k' \in Nat
        /\ effective_k' = 0 <=> coverage' = Nothing
        /\ coverage' # Nothing => CoverFacts'
    BY <1>1, <1>4, <2>1
  <2> QED BY <1>4, <1>5, <2>4, <2>5, PlainMade
<1>8. CASE phase' # "idle"
  <2>1. num_draft_cached_tokens' = DraftCoverageKept /\ UNCHANGED <<effective_k, coverage>>
    BY <1>8 DEF SpeculativePostprocess, cycleVars
  <2>2. num_draft_cached_tokens' = [s \in Seqs |-> num_draft_cached_tokens'[s]]
    BY <2>1 DEF DraftCoverageKept
  <2>3. \A s \in Seqs : Covers(s)
    BY <2>1 DEF DraftCoverageKept, Covers
  <2>4. DraftFacts(HostState', draft_kv')
    BY <1>1, <1>4, <2>2, <2>3, DraftCarries
  <2>5. coverage' # Nothing => CoverFacts'
    <3> SUFFICES ASSUME coverage' # Nothing PROVE CoverFacts'
      OBVIOUS
    <3>1. coverage' = coverage /\ coverage # Nothing /\ CoverFacts
      BY <1>4, <2>1
    <3>2. Rows' = Rows /\ (ragged' <=> ragged)
      BY <1>2, <1>8 DEF Rows, ragged
    <3>3. phase' \in {"run", "commit", "emit", "finish"}
      BY <1>2, <1>8
    <3>4. \A s \in Rows : RowCoveredNext(s)
      BY <1>6, <3>1
    <3> QED BY <1>1, <3>1, <3>2, <3>3, <3>4 DEF CoverFacts, RowCoveredNext
  <2>6. /\ reservation' = TA!NoReservation /\ undo' = Nothing /\ effective_k' \in Nat
        /\ effective_k' = 0 <=> coverage' = Nothing
    BY <1>1, <1>4, <2>1
  <2> QED BY <1>4, <1>5, <2>4, <2>5, <2>6, PlainMade
<1> QED BY <1>7, <1>8

\* Nothing changes when nothing does.
LEMMA IdleKeeps ==
  ASSUME SInv, UNCHANGED allVars
  PROVE  SInv'
<1>1. /\ UNCHANGED <<free_block_ids, used_block_ids, ref_count, block_hash, hash_to_block_id, token_ids,
                     block_table, num_cached_tokens, kv>>
      /\ UNCHANGED <<request, status, num_scheduled_tokens, is_prefill, waiting, running, mid_chunk_seq>>
      /\ UNCHANGED <<phase, scheduled_seqs, num_decodes, num_batched_tokens, row, targets, failures>>
      /\ UNCHANGED <<mode, num_draft_cached_tokens, draft_kv, reservation>>
      /\ UNCHANGED <<effective_k, proposals, burst, coverage, undo>>
  BY DEF allVars, vars, bmVars, reqVars, rowVars, queueVars, stepVars, draftVars, cycleVars
<1>2. HostState' = HostState /\ Env' = Env
  BY <1>1 DEF HostState, Env
<1>3. BMP!IInv <=> BMP!IInv'
  <2>1. ASSUME BMP!IInv PROVE BMP!IInv'
    <3>1. UNCHANGED bmVars
      BY <1>1 DEF bmVars
    <3> QED BY <2>1, <3>1, AllocatorKeeps
  <2> QED BY <2>1 DEF SInv, CommonInv
<1>4. CommonInv'
  BY <1>1, <1>2, <1>3 DEF SInv, CommonInv
<1>5. StopInv'
  BY <1>1 DEF SInv, StopInv, Stops, Delivered, GivenStatus
<1>6. PlainInv'
  <2> SUFFICES ASSUME phase \in Phases PROVE PlainInv'
    BY <1>1 DEF PlainInv
  <2>1. /\ IInv /\ PlainFacts /\ reservation = TA!NoReservation /\ undo = Nothing
        /\ effective_k = 0 <=> coverage = Nothing
        /\ coverage # Nothing => CoverFacts
    BY DEF SInv, PlainInv
  <2>2. UNCHANGED vars
    BY <1>1 DEF vars, bmVars, reqVars, rowVars, queueVars, stepVars
  <2>3. Retry => Retriable
    <3>1. ~Retry
      BY <1>1 DEF Retry
    <3> QED BY <3>1
  <2>4. IInv'
    BY <2>1, <2>2, <2>3, NextInv
  <2>5. PlainFacts'
    BY <1>1, <2>1, <2>2, PlainStays
  <2>6. coverage' # Nothing => CoverFacts'
    <3>1. Open' = Open /\ Rows' = Rows /\ (ragged' <=> ragged)
      BY <1>1 DEF Open, RowsFrom, Rows, ragged
    <3> QED BY <1>1, <2>1, <3>1 DEF CoverFacts
  <2> QED BY <1>1, <2>1, <2>4, <2>5, <2>6 DEF PlainInv
<1>7. CycleInv'
  BY <1>1, <1>2 DEF SInv, CycleInv
<1>8. CommitInv'
  BY <1>1, <1>2 DEF SInv, CommitInv
<1>9. UndoInv'
  BY <1>1, <1>2 DEF SInv, UndoInv
<1> QED BY <1>4, <1>5, <1>6, <1>7, <1>8, <1>9 DEF SInv

-----------------------------------------------------------------------------
(* Every step *)

\* An engine without a draft model: the steps of the scheduler, and nothing is drafted.
LEMMA OrdinaryModeKeeps ==
  ASSUME SInv, mode' = mode, mode = "ordinary", RetryAfterFailure = "chunk", Next,
         UNCHANGED <<draftVars, cycleVars>>
  PROVE  SInv'
<1>1. /\ CommonInv /\ StopInv /\ phase \in Phases /\ effective_k = 0 /\ coverage = Nothing
      /\ num_draft_cached_tokens = [s \in Seqs |-> 0] /\ DraftFacts(HostState, draft_kv) /\ BMP!IInv
  BY DEF SInv, CommonInv
<1>2. IInv /\ PlainFacts /\ reservation = TA!NoReservation /\ undo = Nothing /\ QInv
  BY <1>1 DEF SInv, PlainInv, IInv
<1>3. UNCHANGED <<num_draft_cached_tokens, draft_kv, reservation, effective_k, coverage, undo>>
  BY DEF draftVars, cycleVars
<1>4. IInv' /\ (BM!Next \/ UNCHANGED bmVars)
  BY <1>2, NextInv, NextStep DEF Retriable
<1>5. PlainFacts'
  BY <1>2, PlainStays
<1>6. StopInv'
  BY <1>1, <1>2, <1>3, StopsOn
<1>7. DraftFacts(HostState', draft_kv')
  <2>1. num_draft_cached_tokens' = [s \in Seqs |-> num_draft_cached_tokens'[s]]
    BY <1>1, <1>3
  <2>2. \A s \in Seqs : Covers(s)
    BY <1>1, <1>3 DEF Covers
  <2> QED BY <1>1, <1>3, <1>4, <2>1, <2>2, DraftCarries
<1>8. phase' \in Phases /\ targets' \in SUBSET Seqs /\ failures' \in 0 .. MaxFailures /\ row' \in 0 .. MaxNumSeqs
      /\ BMP!IInv'
  BY <1>4 DEF IInv, QInv, QueueTypes
<1>9. phase' \notin Cycling /\ phase' \notin Undoing /\ phase' \notin Committing
  BY <1>8, PhasesApart
<1>10. CommonInv'
  BY <1>1, <1>3, <1>7, <1>8, <1>9 DEF CommonInv
<1>11. PlainInv'
  BY <1>1, <1>2, <1>3, <1>4, <1>5 DEF PlainInv
<1>12. UndoInv' /\ CommitInv' /\ CycleInv'
  BY <1>9 DEF UndoInv, CommitInv, CycleInv
<1> QED BY <1>6, <1>10, <1>11, <1>12 DEF SInv

\* Every step of every mode keeps the invariant.
LEMMA SpeculationKeeps ==
  ASSUME SInv, [SpeculationNext]_allVars, RetryAfterFailure = "chunk" \/ "ordinary" \notin Modes
  PROVE  SInv'
<1>1. CASE UNCHANGED allVars
  BY <1>1, IdleKeeps
<1>2. CASE mode' = mode /\ mode = "ordinary" /\ Next /\ UNCHANGED <<draftVars, cycleVars>>
  <2>1. mode \in Modes
    BY DEF SInv, CommonInv
  <2> QED BY <1>2, <2>1, OrdinaryModeKeeps
<1>3. CASE mode' = mode /\ mode # "ordinary" /\ SpeculativeStep
  <2>1. CASE Ordinary
    BY <1>3, <2>1, OrdinaryKeeps
  <2>2. CASE SpeculativePostprocess
    BY <1>3, <2>2, PostprocessKeeps
  <2>3. CASE Cycle
    BY <1>3, <2>3, PlanKeeps, PrepareStays, ProposeKeeps, VerifyKeeps, FinalizeKeeps, AppendKeeps,
       PublishKeeps, ReleaseKeeps, HandoffKeeps DEF Cycle
  <2>4. CASE Failure
    BY <1>3, <2>4, RaiseKeeps, CommitFailsKeeps, RunFailsKeeps DEF Failure
  <2>5. CASE Undo
    BY <1>3, <2>5, AbortKeeps, UndoKeeps DEF Undo
  <2>6. CASE Rest /\ UNCHANGED <<draftVars, cycleVars>>
    <3>1. UNCHANGED allVars
      BY <1>3, <2>6 DEF Rest, allVars
    <3> QED BY <3>1, IdleKeeps
  <2> QED BY <1>3, <2>1, <2>2, <2>3, <2>4, <2>5, <2>6 DEF SpeculativeStep
<1> QED BY <1>1, <1>2, <1>3 DEF SpeculationNext

\* An engine without requests satisfies the invariant.
LEMMA SpeculationStarts ==
  SpeculationInit => SInv
<1> SUFFICES ASSUME SpeculationInit PROVE SInv
  OBVIOUS
<1>1. /\ Init /\ mode \in Modes /\ num_draft_cached_tokens = [s \in Seqs |-> 0]
      /\ draft_kv = [b \in BM!Blocks |-> [o \in 0 .. BlockSize - 1 |-> <<>>]]
      /\ reservation = TA!NoReservation /\ effective_k = 0 /\ coverage = Nothing /\ undo = Nothing
  BY DEF SpeculationInit
<1>2. /\ phase = "idle" /\ status = [s \in Seqs |-> "NONE"] /\ token_ids = [s \in Seqs |-> <<>>]
      /\ num_cached_tokens = [s \in Seqs |-> 0]
      /\ request = [s \in Seqs |-> [prompt |-> <<>>, max_tokens |-> 0, ignore_eos |-> FALSE]]
  BY <1>1 DEF Init, BM!Init
<1>3. IInv
  BY <1>1, InitInv
<1>4. QueueTypes /\ BMP!IInv /\ phase \in Phases
  BY <1>3 DEF IInv, QInv, QueueTypes
<1>5. phase \notin Cycling /\ phase \notin Undoing /\ phase \notin Committing
  BY <1>4, PhasesApart
<1>6. DraftFacts(HostState, draft_kv)
  <2>1. <<>> \in Seq(Token)
    OBVIOUS
  <2>2. draft_kv \in [BM!Blocks -> [0 .. BlockSize - 1 -> Seq(Token)]]
    BY <1>1, <2>1
  <2>3. \A s \in Seqs : HeldIn(block_table[s], draft_kv, 0, token_ids[s])
    BY DEF HeldIn
  <2>4. \A s \in Seqs : num_draft_cached_tokens[s] = 0 /\ num_cached_tokens[s] = 0
    BY <1>1, <1>2
  <2>5. num_draft_cached_tokens \in [Seqs -> Nat]
    BY <1>1
  <2>6. PICK H : H = HostState
    OBVIOUS
  <2>7. /\ H.draft = num_draft_cached_tokens /\ H.cached = num_cached_tokens
        /\ H.tables = block_table /\ H.tokens = token_ids
    BY <2>6, HostIs
  <2>8. DraftFacts(H, draft_kv)
    BY <2>2, <2>3, <2>4, <2>5, <2>7 DEF DraftFacts
  <2> QED BY <2>6, <2>8
<1>7. CommonInv
  BY <1>1, <1>4, <1>5, <1>6 DEF CommonInv, QueueTypes
<1>8. PlainFacts
  <2>1. Unended(status) = {}
    BY <1>2 DEF Unended, Pending
  <2>2. Cardinality({}) <= MaxNumSeqs
    BY FS_EmptySet, Constants
  <2> QED BY <1>2, <2>1, <2>2 DEF PlainFacts
<1>9. PlainInv
  BY <1>1, <1>3, <1>8 DEF PlainInv
<1>10. StopInv
  <2> SUFFICES ASSUME NEW s \in Seqs PROVE Stops(token_ids[s], request[s], status[s] \in Pending)
    BY <1>1 DEF StopInv, Delivered, GivenStatus
  <2>1. token_ids[s] = <<>> /\ request[s].prompt = <<>> /\ request[s].max_tokens = 0
    BY <1>2
  <2>2. Len(<<>>) = 0
    BY EmptySeq
  <2>3. 0 <= 0 + 0 /\ 0 + 1 .. 0 = {}
    OBVIOUS
  <2> QED BY <2>1, <2>2, <2>3 DEF Stops
<1>11. UndoInv /\ CommitInv /\ CycleInv
  BY <1>5 DEF UndoInv, CommitInv, CycleInv
<1> QED BY <1>7, <1>9, <1>10, <1>11 DEF SInv

-----------------------------------------------------------------------------
(* The theorems *)

\* A step that failed is retried, in an engine without a draft model, only if it ran nothing
\* but a chunk inside a prompt; with one, also after any decode step, which was undone.
RetriesAreSafe == RetryAfterFailure = "chunk" \/ "ordinary" \notin Modes

\* In every mode the queues, the batch, the pool, both caches and what a failed cycle goes
\* back to stay consistent.
THEOREM SpeculationInvariance ==
  ASSUME RetriesAreSafe
  PROVE  SpeculationSpec => []SInv
<1>1. SInv /\ [SpeculationNext]_allVars => SInv'
  BY SpeculationKeeps DEF RetriesAreSafe
<1> QED BY <1>1, SpeculationStarts, PTL DEF SpeculationSpec

\* The pool, the prefix cache and the target cache, as the allocator's properties state them.
LEMMA AllocatorIsRight ==
  ASSUME BMP!IInv
  PROVE  /\ BM!PoolPartition /\ BM!RefCountIsOwners
         /\ BM!IndexMatchesBlocks /\ BM!IndexIsSound
         /\ BM!CachedIsComputed
<1>1. BM!PoolPartition /\ BM!RefCountIsOwners
  <2>1. BMP!PoolPartition /\ BMP!RefCountIsOwners
    BY DEF BMP!IInv, BMP!PoolInv
  <2>2. BM!PoolPartition
    BY <2>1 DEF BMP!PoolPartition, BM!PoolPartition, BMP!Blocks, BM!Blocks, BMP!IsInjective, BM!IsInjective,
       BMP!Range, BM!Range
  <2>3. \A b : BM!Owners(b) = BMP!Owners(b)
    BY DEF BMP!Owners, BM!Owners, BMP!Range, BM!Range
  <2>4. BM!RefCountIsOwners
    BY <2>1, <2>3 DEF BMP!RefCountIsOwners, BM!RefCountIsOwners, BMP!Blocks, BM!Blocks, BM!Cardinality, BMP!Cardinality
  <2> QED BY <2>2, <2>4
<1>2. BM!IndexMatchesBlocks /\ BM!IndexIsSound
  BY DEF BMP!IInv, BMP!PoolInv, BMP!IndexMatchesBlocks, BM!IndexMatchesBlocks, BMP!IndexIsSound, BM!IndexIsSound,
     BMP!NoHash, BM!NoHash, BMP!Holds, BM!Holds
<1> QED BY <1>1, <1>2, AllocatorFacts

\* A live reservation can always be given back.
LEMMA LeaseIsSafe ==
  ASSUME SInv
  PROVE  TA!ReservationIsLive
<1>1. ASSUME reservation = TA!NoReservation PROVE TA!ReservationIsLive
  BY <1>1 DEF TA!ReservationIsLive, TA!Live, TA!NoReservation
<1>2. CASE phase \in Phases
  BY <1>1, <1>2 DEF SInv, PlainInv
<1>3. CASE phase \in Cycling
  BY <1>3, LeaseLive DEF SInv, CycleInv
<1>4. CASE phase \in Committing
  <2>1. HostState.reservation = TA!NoReservation
    BY <1>4 DEF SInv, CommitInv, CommitFacts
  <2> QED BY <1>1, <2>1, HostIs
<1>5. CASE phase \in Undoing
  <2>1. reservation = TA!NoReservation \/ CycleFacts(HostState, Env, kv, draft_kv)
    BY <1>5 DEF SInv, UndoInv
  <2> QED BY <1>1, <2>1, LeaseLive
<1> QED BY <1>2, <1>3, <1>4, <1>5 DEF SInv, CommonInv

\* No block is lost, shared by accident or counted wrong, whatever part of a cycle was kept,
\* trimmed, rolled back or restored, and a reservation can be given back while it is live.
THEOREM PoolStaysWhole ==
  ASSUME RetriesAreSafe
  PROVE  SpeculationSpec => []PoolIsWhole
<1>1. SInv => PoolIsWhole
  BY AllocatorIsRight, LeaseIsSafe DEF SInv, CommonInv, PoolIsWhole
<1> QED BY <1>1, SpeculationInvariance, PTL

\* What the prefix cache finds holds that prefix, although cycles borrow blocks it knows,
\* write into them and give them back.
THEOREM PrefixCacheStaysSound ==
  ASSUME RetriesAreSafe
  PROVE  SpeculationSpec => []PrefixCacheIsSound
<1>1. SInv => PrefixCacheIsSound
  BY AllocatorIsRight DEF SInv, CommonInv, PrefixCacheIsSound
<1> QED BY <1>1, SpeculationInvariance, PTL

\* Attention reads only computed positions, after any accepted, rejected, shadow or failed
\* cycle.
THEOREM TargetCacheIsComputed ==
  ASSUME RetriesAreSafe
  PROVE  SpeculationSpec => []CachedIsComputed
<1>1. SInv => CachedIsComputed
  BY AllocatorIsRight DEF SInv, CommonInv, CachedIsComputed
<1> QED BY <1>1, SpeculationInvariance, PTL

\* The draft cache holds every position that a row counts as drafted, after rejected
\* proposals, shadow cycles, failures and recycling of blocks.
THEOREM DraftCacheIsComputed ==
  ASSUME RetriesAreSafe
  PROVE  SpeculationSpec => []DraftCachedIsComputed
<1>1. SInv => DraftCachedIsComputed
  BY DraftIs DEF SInv, CommonInv
<1> QED BY <1>1, SpeculationInvariance, PTL

\* In a cycle, the rows and the environment are those of the scheduled batch.
LEMMA CycleRows ==
  ASSUME SInv, phase \in Cycling
  PROVE  /\ CycleFacts(HostState, Env, kv, draft_kv) /\ BudgetFacts(HostState, Env, effective_k)
         /\ RunFacts(HostState, Env, TAP!Before(HostState).tables)
         /\ Range(Env.rows) = Rows /\ Rows \subseteq Seqs /\ running = scheduled_seqs
<1>1. CycleFacts(HostState, Env, kv, draft_kv) /\ BudgetFacts(HostState, Env, effective_k)
  BY DEF SInv, CycleInv
<1>2. RunFacts(HostState, Env, TAP!Before(HostState).tables)
  BY <1>1 DEF CycleFacts
<1>3. scheduled_seqs \in Seq(Seqs) /\ running = scheduled_seqs /\ Range(Env.rows) = Rows
  BY <1>2, EnvIs, HostIs DEF RunFacts, EnvTypes, Rows
<1>4. Rows \subseteq Seqs
  BY <1>3, RangeIs DEF Rows
<1> QED BY <1>1, <1>2, <1>3, <1>4

\* A cycle stays within what the step may compute and every row may take, so that the
\* runner's checks of the plan never reject it.
THEOREM CyclesFitTheBudget ==
  ASSUME RetriesAreSafe
  PROVE  SpeculationSpec => []CycleFitsBudget
<1>1. SInv => CycleFitsBudget
  <2> SUFFICES ASSUME SInv, phase \in {"prepare", "propose", "verify", "handoff"}
               PROVE  /\ draft_catchup_tokens + Len(scheduled_seqs) * (2 * effective_k + 1)
                           <= MaxNumBatchedTokens
                      /\ running = scheduled_seqs
                      /\ \A s \in Rows :
                           /\ BM!num_tokens(s) + effective_k <= MaxModelLen
                           /\ effective_k < RemainingTokens(s)
                           /\ IsInjective(block_table[s])
                           /\ highest_target_write_position(effective_k)[s] < Len(block_table[s]) * BlockSize
    BY DEF CycleFitsBudget
  <2>1. phase \in Cycling
    BY DEF Cycling
  <2>2. /\ CycleFacts(HostState, Env, kv, draft_kv) /\ BudgetFacts(HostState, Env, effective_k)
        /\ RunFacts(HostState, Env, TAP!Before(HostState).tables)
        /\ Range(Env.rows) = Rows /\ Rows \subseteq Seqs /\ running = scheduled_seqs
    BY <2>1, CycleRows
  <2>3. CatchupOf(HostState, Env) = draft_catchup_tokens
    BY <2>2, HostIs DEF CatchupOf, draft_catchup_tokens
  <2>4. draft_catchup_tokens + Len(scheduled_seqs) * (2 * effective_k + 1) <= MaxNumBatchedTokens
    BY <2>2, <2>3, EnvIs DEF BudgetFacts
  <2>5. ASSUME NEW s \in Rows
        PROVE  /\ BM!num_tokens(s) + effective_k <= MaxModelLen
               /\ effective_k < RemainingTokens(s)
               /\ IsInjective(block_table[s])
               /\ highest_target_write_position(effective_k)[s] < Len(block_table[s]) * BlockSize
    <3>1. s \in Range(Env.rows) /\ s \in Seqs
      BY <2>2
    <3>2. PICK T : T = TAP!Before(HostState).tables
      OBVIOUS
    <3>3. RunFacts(HostState, Env, T)
      BY <2>2, <3>2
    <3>4. /\ token_ids[s] \in Seq(Token) /\ Len(token_ids[s]) \in 1 .. MaxModelLen
          /\ Len(request[s].prompt) \in Nat /\ request[s].max_tokens \in Nat
          /\ Len(request[s].prompt) <= Len(token_ids[s])
          /\ Len(token_ids[s]) < Len(request[s].prompt) + request[s].max_tokens
      <4>1. /\ HostState.tokens[s] \in Seq(Token) /\ Len(HostState.tokens[s]) \in 1 .. MaxModelLen
            /\ Len(Env.request[s].prompt) \in Nat \ {0} /\ Env.request[s].max_tokens \in Nat \ {0}
            /\ Len(Env.request[s].prompt) <= Len(HostState.tokens[s])
            /\ Len(HostState.tokens[s]) < Len(Env.request[s].prompt) + Env.request[s].max_tokens
        BY <3>1, <3>3, RowFacts
      <4> QED BY <4>1, HostIs, EnvIs
    <3>5. /\ effective_k \in Nat \ {0}
          /\ Len(token_ids[s]) + effective_k <= MaxModelLen
          /\ Len(token_ids[s]) + effective_k < Len(request[s].prompt) + request[s].max_tokens
          /\ Len(token_ids[s]) + effective_k <= BlockSize * Len(block_table[s])
      BY <2>2, <3>1, HostIs, EnvIs DEF BudgetFacts
    <3>6. /\ Len(block_table[s]) \in Nat /\ IsInjective(block_table[s])
      <4>1. TAP!AllocOK(HostState, kv)
        BY <2>2, LeaseAlloc DEF CycleFacts
      <4> QED BY <3>1, <4>1, AllocFacts, HostIs
    <3>7. PICK n \in Nat, a \in Nat, m \in Nat, l \in Nat, k \in Nat, B \in Nat :
            /\ n = Len(token_ids[s]) /\ a = Len(request[s].prompt) /\ m = request[s].max_tokens
            /\ l = Len(block_table[s]) /\ k = effective_k /\ B = BlockSize * l
      <4>1. BlockSize * Len(block_table[s]) \in Nat
        BY <3>6, Constants
      <4>2. Len(token_ids[s]) \in Nat
        BY <3>4, LenProperties
      <4> QED BY <3>4, <3>5, <3>6, <4>1, <4>2
    <3>8. a <= n /\ n < a + m /\ n + k < a + m /\ n + k <= B
      BY <3>4, <3>5, <3>7
    <3>9. RemainingTokens(s) = a + m - n
      <4>1. n <= a + m
        BY <3>8
      <4> QED BY <3>4, <3>7, <3>8, <4>1, RemainingIs
    <3>10. k < a + m - n /\ n + k - 1 < B
      BY <3>8
    <3>11. highest_target_write_position(effective_k)[s] = n + k - 1
      BY <3>7 DEF highest_target_write_position, BM!num_tokens
    <3>12. Len(block_table[s]) * BlockSize = B
      BY <3>7, Constants
    <3>13. BM!num_tokens(s) + effective_k <= MaxModelLen
      BY <3>5 DEF BM!num_tokens
    <3>14. effective_k < RemainingTokens(s)
      BY <3>7, <3>9, <3>10
    <3> QED BY <3>6, <3>10, <3>11, <3>12, <3>13, <3>14
  <2> QED BY <2>2, <2>4, <2>5
<1> QED BY <1>1, SpeculationInvariance, PTL

\* What users submitted and were given is well typed.
LEMMA GivenTypes ==
  ASSUME SInv
  PROVE  /\ request \in [Seqs -> [prompt : Seq(Token), max_tokens : Nat, ignore_eos : BOOLEAN]]
         /\ \A s \in Seqs : Delivered(s) \in Seq(Token)
         /\ undo # Nothing => phase \in Committing
<1>1. token_ids \in [Seqs -> Seq(Token)]
  BY AllocatorFacts DEF SInv, CommonInv, BM!TypeOK
<1>2. CASE phase \in Phases
  <2>1. QueueTypes /\ undo = Nothing
    BY <1>2 DEF SInv, PlainInv, IInv, QInv
  <2> QED BY <1>1, <2>1 DEF QueueTypes, Delivered
<1>3. ASSUME NEW H, NEW T, RunFacts(H, Env, T)
      PROVE  /\ request \in [Seqs -> [prompt : Seq(Token), max_tokens : Nat, ignore_eos : BOOLEAN]]
             /\ H.tokens \in [Seqs -> Seq(Token)]
  BY <1>3, EnvIs DEF RunFacts, EnvTypes, HostTypes
<1>4. CASE phase \in Cycling
  <2>1. undo = Nothing
    BY <1>4 DEF SInv, CycleInv
  <2>2. PICK T : T = TAP!Before(HostState).tables
    OBVIOUS
  <2>3. RunFacts(HostState, Env, T)
    BY <1>4, <2>2, CycleRows
  <2> QED BY <1>1, <1>3, <2>1, <2>3 DEF Delivered
<1>5. CASE phase \in Committing
  <2>1. CycleFacts(undo, Env, kv, draft_kv)
    BY <1>5 DEF SInv, CommitInv
  <2>2. PICK T : T = TAP!Before(undo).tables
    OBVIOUS
  <2>3. RunFacts(undo, Env, T)
    BY <2>1, <2>2 DEF CycleFacts
  <2> QED BY <1>1, <1>3, <1>5, <2>3 DEF Delivered
<1>6. CASE phase \in Undoing
  <2>1. undo = Nothing
    BY <1>6 DEF SInv, UndoInv
  <2>2. CASE RunFacts(HostState, Env, block_table)
    BY <1>1, <1>3, <2>1, <2>2 DEF Delivered
  <2>3. CASE CycleFacts(HostState, Env, kv, draft_kv)
    <3>1. PICK T : T = TAP!Before(HostState).tables
      OBVIOUS
    <3>2. RunFacts(HostState, Env, T)
      BY <2>3, <3>1 DEF CycleFacts
    <3> QED BY <1>1, <1>3, <2>1, <3>2 DEF Delivered
  <2> QED BY <1>6, <2>2, <2>3 DEF SInv, UndoInv
<1> QED BY <1>2, <1>4, <1>5, <1>6 DEF SInv, CommonInv

\* A burst is cut where one token at a time would have stopped: at the first end-of-sequence
\* token and at the token limit.
THEOREM CompletionsEndInTime ==
  ASSUME RetriesAreSafe
  PROVE  SpeculationSpec => []CompletionsStopInTime
<1>1. SInv => CompletionsStopInTime
  <2> SUFFICES ASSUME SInv, NEW s \in Seqs, NEW c,
                      c = SubSeq(Delivered(s), Len(request[s].prompt) + 1, Len(Delivered(s)))
               PROVE  /\ Len(c) <= request[s].max_tokens
                      /\ \A i \in 1 .. Len(c) : c[i] = EOS /\ ~request[s].ignore_eos => i = Len(c)
    BY DEF CompletionsStopInTime
  <2>1. PICK x : x = Delivered(s) /\ x \in Seq(Token)
    BY GivenTypes
  <2>2. request[s].prompt \in Seq(Token) /\ request[s].max_tokens \in Nat
    BY GivenTypes
  <2>3. PICK n \in Nat, a \in Nat, m \in Nat :
          n = Len(x) /\ a = Len(request[s].prompt) /\ m = request[s].max_tokens
    BY <2>1, <2>2, LenProperties
  <2>4. Stops(x, request[s], GivenStatus(s) \in Pending)
    BY <2>1 DEF SInv, StopInv
  <2>5. n <= a + m
    BY <2>3, <2>4 DEF Stops
  <2>6. \A i \in a + 1 .. n : x[i] = EOS /\ ~request[s].ignore_eos => i = n
    BY <2>3, <2>4 DEF Stops
  <2>7. \A i \in a + 1 .. n : x[i] \in Token
    BY <2>1, <2>3
  <2>8. /\ Len(c) = IF a + 1 <= n THEN n - (a + 1) + 1 ELSE 0
        /\ \A i \in 1 .. n - (a + 1) + 1 : c[i] = x[a + 1 + i - 1]
    <3>1. PICK p \in Int : p = a + 1
      OBVIOUS
    <3>2. c = SubSeq(x, p, n) /\ n \in Int /\ \A i \in p .. n : x[i] \in Token
      BY <2>1, <2>3, <2>7, <3>1
    <3>3. /\ Len(SubSeq(x, p, n)) = IF p <= n THEN n - p + 1 ELSE 0
          /\ \A i \in 1 .. n - p + 1 : SubSeq(x, p, n)[i] = x[p + i - 1]
      BY <3>2, SubSeqProperties
    <3> QED BY <3>1, <3>2, <3>3
  <2>9. PICK l \in Nat : l = Len(c) /\ (l = n - a \/ l = 0)
    <3>1. CASE a + 1 <= n
      <4>1. Len(c) = n - a /\ n - a \in Nat
        BY <2>8, <3>1
      <4> QED BY <4>1
    <3>2. CASE ~(a + 1 <= n)
      <4>1. Len(c) = 0
        BY <2>8, <3>2
      <4> QED BY <4>1
    <3> QED BY <3>1, <3>2
  <2>10. l <= m
    BY <2>5, <2>9
  <2>11. ASSUME NEW i \in 1 .. l, c[i] = EOS, ~request[s].ignore_eos PROVE i = l
    <3>1. l = n - a /\ a + i \in a + 1 .. n /\ i \in 1 .. n - (a + 1) + 1
      BY <2>9, <2>11
    <3>2. c[i] = x[a + i]
      <4>1. a + 1 + i - 1 = a + i
        OBVIOUS
      <4> QED BY <2>8, <3>1, <4>1
    <3>3. a + i = n
      BY <2>6, <2>11, <3>1, <3>2
    <3> QED BY <3>1, <3>3
  <2> QED BY <2>3, <2>9, <2>10, <2>11
<1> QED BY <1>1, SpeculationInvariance, PTL

-----------------------------------------------------------------------------
(* What users are given *)

\* A step adds to what s was given, and nothing at all if it fails.
Gives(s) ==
  /\ SubSeq(Delivered(s)', 1, Len(Delivered(s))) = Delivered(s)
  /\ phase' \in {"abort", "undo", "failed"} => Delivered(s)' = Delivered(s)

\* Tokens that follow those given before.
LEMMA GivesMore ==
  ASSUME NEW s, Delivered(s) \in Seq(Token), NEW y \in Seq(Token),
         \/ Delivered(s)' = Delivered(s)
         \/ Delivered(s)' = Delivered(s) \o y /\ phase' \notin {"abort", "undo", "failed"}
  PROVE  Gives(s)
<1>1. PICK x : x = Delivered(s)
  OBVIOUS
<1>2. x \in Seq(Token) /\ Len(x) \in Nat
  BY <1>1, LenProperties
<1>3. SubSeq(x, 1, Len(x)) = x
  BY <1>2
<1>4. SubSeq(x \o y, 1, Len(x)) = x
  <2>1. Len(x) \in 0 .. Len(x)
    BY <1>2
  <2>2. SubSeq(x \o y, 1, Len(x)) = SubSeq(x, 1, Len(x))
    BY <1>2, <2>1, AppendedText
  <2> QED BY <1>3, <2>2
<1> QED BY <1>1, <1>3, <1>4 DEF Gives

\* A step that touches neither the tokens nor the record of a commit gives nothing.
LEMMA GivesNothing ==
  ASSUME SInv, UNCHANGED <<token_ids, undo>>, NEW s \in Seqs
  PROVE  Gives(s)
<1>1. Delivered(s)' = Delivered(s)
  BY DEF Delivered
<1>2. Delivered(s) \in Seq(Token) /\ <<>> \in Seq(Token)
  BY GivenTypes
<1> QED BY <1>1, <1>2, GivesMore

\* Outside a cycle a step gives one row its token.
LEMMA PlainGives ==
  ASSUME SInv, phase \in Phases, [Next]_vars, undo' = undo, NEW x \in Seqs
  PROVE  Gives(x)
<1>1. QInv /\ undo = Nothing /\ undo' = Nothing
  BY DEF SInv, PlainInv, IInv
<1>2. /\ token_ids \in [Seqs -> Seq(Token)] /\ TokensInv
  BY <1>1 DEF QInv, QueueTypes
<1>3. Delivered(x) = token_ids[x] /\ Delivered(x)' = token_ids'[x] /\ Delivered(x) \in Seq(Token)
  BY <1>1, <1>2 DEF Delivered
<1>4. ASSUME NEW s \in Seqs, NEW r \in Requests, add_request(s, r)
      PROVE  Gives(x)
  <2>1. /\ token_ids' = [token_ids EXCEPT ![s] = r.prompt] /\ phase = "idle" /\ phase' = phase
        /\ status[s] = "NONE"
    BY <1>4 DEF add_request, BM!new_sequence
  <2>2. token_ids[s] = <<>> /\ r.prompt \in Seq(Token)
    BY <1>2, <2>1, Constants DEF TokensInv
  <2>3. CASE x # s
    BY <1>2, <1>3, <2>1, <2>2, <2>3, GivesMore
  <2>4. CASE x = s
    <3>1. token_ids'[x] = <<>> \o r.prompt
      BY <1>2, <2>1, <2>2, <2>4
    <3> QED BY <1>3, <2>1, <2>2, <2>4, <3>1, GivesMore
  <2> QED BY <2>3, <2>4
<1>5. ASSUME NEW t \in Token, EmitToken(t)
      PROVE  Gives(x)
  <2>1. PICK s : s = scheduled_seqs[row]
    OBVIOUS
  <2>2. phase = "emit" /\ token_ids' = [token_ids EXCEPT ![s] = Append(@, t)]
    BY <1>5, <2>1 DEF EmitToken, BM!append_token
  <2>3. phase' \notin {"abort", "undo", "failed"}
    BY <1>5 DEF EmitToken, NextRow
  <2>4. s \in Seqs
    BY <1>1, <2>1, <2>2, CurrentRow
  <2>5. <<t>> \in Seq(Token) /\ \A X \in Seq(Token) : Append(X, t) = X \o <<t>>
    OBVIOUS
  <2>6. token_ids'[x] = token_ids[x] \/ token_ids'[x] = token_ids[x] \o <<t>>
    BY <1>2, <2>2, <2>4, <2>5
  <2> QED BY <1>3, <2>3, <2>5, <2>6, GivesMore
<1>6. CASE token_ids' = token_ids
  BY <1>6, GivesNothing
<1> QED BY <1>1, <1>4, <1>5, <1>6, WhoGives

\* The end of a commit gives every row its burst at once; before it users have nothing of it.
LEMMA BurstGives ==
  ASSUME SInv, phase \in {"publish", "release"}, token_ids' = token_ids, NEW x \in Seqs,
         NextBurst
  PROVE  Gives(x)
<1>1. CASE row < Len(scheduled_seqs)
  <2>1. undo' = undo
    BY <1>1 DEF NextBurst, cycleVars
  <2> QED BY <2>1, GivesNothing
<1>2. CASE ~(row < Len(scheduled_seqs))
  <2>1. PICK s : s = scheduled_seqs[row]
    OBVIOUS
  <2>2. PICK H, E, U, k, b, r : /\ H = HostState /\ E = Env /\ U = undo /\ k = effective_k /\ b = burst
                                /\ r = row
    OBVIOUS
  <2>3. phase \in Committing
    BY DEF Committing
  <2>4. /\ CommitFacts(H, U, E, k, kv, draft_kv, b, r) /\ EnvTypes(E) /\ undo # Nothing
        /\ s = E.rows[r] /\ r \in 1 .. Len(scheduled_seqs) /\ Len(scheduled_seqs) \in 0 .. MaxNumSeqs
    BY <2>1, <2>2, <2>3, BurstRow
  <2>5. E.rows = scheduled_seqs /\ H.tokens = token_ids
    BY <2>2, EnvIs, HostIs
  <2>6. r = Len(E.rows) /\ Len(E.rows) \in Nat /\ E.rows \in Seq(Seqs)
    <3>1. Len(scheduled_seqs) \in Nat /\ r \in Nat
      BY <2>4
    <3> QED BY <1>2, <2>2, <2>4, <2>5, <3>1 DEF EnvTypes
  <2>7. H.tokens[s] = U.tokens[s] \o b[s]
    BY <2>1, <2>2, <2>3 DEF SInv, CommitInv, PublishRow, ReleaseRow
  <2>8. undo' = Nothing /\ phase' = "idle"
    BY <1>2 DEF NextBurst
  <2>9. Delivered(x) = U.tokens[x] /\ Delivered(x)' = token_ids[x] /\ Delivered(x) \in Seq(Token)
    BY <2>2, <2>4, <2>8, GivenTypes DEF Delivered
  <2>10. CASE x \notin Range(E.rows)
    <3>1. H.tokens[x] = U.tokens[x]
      BY <2>4, <2>10 DEF CommitFacts, Bystander
    <3>2. <<>> \in Seq(Token)
      OBVIOUS
    <3> QED BY <2>5, <2>9, <3>1, <3>2, GivesMore
  <2>11. CASE x \in Range(E.rows)
    <3>1. PICK i \in 1 .. Len(E.rows) : x = E.rows[i]
      BY <2>6, <2>11, RangeIs
    <3>2. i \in 1 .. r - 1 \/ i = r
      BY <2>6, <3>1
    <3>3. H.tokens[x] = U.tokens[x] \o b[x]
      BY <2>4, <2>7, <3>1, <3>2 DEF CommitFacts, DoneRow
    <3>4. b[x] \in Seq(Token)
      BY <2>4, <2>11 DEF CommitFacts, CutFacts
    <3> QED BY <2>5, <2>8, <2>9, <3>3, <3>4, GivesMore
  <2> QED BY <2>10, <2>11
<1> QED BY <1>1, <1>2

\* No step takes back what users were given, and none that fails gives them anything.
LEMMA StepGives ==
  ASSUME SInv, SpeculationNext, NEW x \in Seqs
  PROVE  Gives(x)
<1>1. CASE mode = "ordinary" /\ Next /\ UNCHANGED <<draftVars, cycleVars>>
  <2>1. phase \in Phases /\ undo' = undo
    BY <1>1 DEF SInv, CommonInv, cycleVars
  <2> QED BY <1>1, <2>1, PlainGives
<1>2. CASE Ordinary
  <2>1. \/ \E s \in Seqs, r \in Requests : add_request(s, r)
        \/ StartStep \/ Schedule \/ Run
        \/ \E T \in SUBSET Queued : phase = "idle" /\ Cancel(T)
        \/ CleanUp \/ CancelRow \/ RetryDecode
    BY <1>2 DEF Ordinary
  <2>2. [Next]_vars
    BY <2>1 DEF Next, RetryDecode
  <2>3. phase \in {"idle", "decode", "prefill", "run", "failed", "cancel"}
    BY <2>1 DEF add_request, StartStep, Schedule, DecodeRow, ReclaimMidChunk, PreemptTail, PreemptSelf, EndDecode,
       Decoding, AdmitPrefill, ContinuePrefill, RequeuePrefill, EndPrefill, Prefilling, Run, CleanUp, CancelRow,
       RetryDecode, Retry
  <2>4. phase \in Phases /\ undo' = undo
    BY <1>2, <2>3 DEF Phases, Ordinary, cycleVars
  <2> QED BY <2>2, <2>4, PlainGives
<1>3. CASE SpeculativePostprocess
  <2>1. Postprocess /\ undo' = undo
    BY <1>3 DEF SpeculativePostprocess, cycleVars
  <2>2. phase \in Phases
    BY <2>1 DEF Postprocess, CommitRow, EmitToken, FinishRow, Phases
  <2>3. [Next]_vars
    BY <2>1 DEF Next
  <2> QED BY <2>1, <2>2, <2>3, PlainGives
<1>4. CASE Cycle
  <2>1. ASSUME NEW cap \in 1 .. ConfiguredK, plan_speculative_step(cap) PROVE UNCHANGED <<token_ids, undo>>
    BY <2>1 DEF plan_speculative_step, TA!reserve_temporary_append
  <2>2. CASE prepare_speculative_target_writes
    <3>1. UNCHANGED <<token_ids, undo>>
      BY <2>2 DEF prepare_speculative_target_writes, TA!prepare_temporary_target_writes, TA!bmVars, TA!seqVars,
         cycleVars
    <3> QED BY <3>1, GivesNothing
  <2>3. ASSUME NEW d \in Proposals, execute_draft_proposals(d) PROVE UNCHANGED <<token_ids, undo>>
    BY <2>3 DEF execute_draft_proposals, bmVars
  <2>4. ASSUME NEW accepted \in [Rows -> 0 .. effective_k], NEW terminal \in [Rows -> Token],
               execute_verifier(accepted, terminal)
        PROVE  UNCHANGED <<token_ids, undo>>
    BY <2>4 DEF execute_verifier
  <2>5. CASE FinalizeReservation
    <3>1. phase \in Cycling /\ token_ids' = token_ids /\ undo' = HostState
      BY <2>5 DEF FinalizeReservation, TA!finalize_temporary_append, Cycling
    <3>2. undo = Nothing
      BY <3>1 DEF SInv, CycleInv
    <3>3. Delivered(x)' = Delivered(x)
      <4>1. CASE undo' = Nothing
        BY <3>1, <3>2, <4>1 DEF Delivered
      <4>2. CASE undo' # Nothing
        BY <3>1, <3>2, <4>2, HostIs DEF Delivered
      <4> QED BY <4>1, <4>2
    <3>4. Delivered(x) \in Seq(Token) /\ <<>> \in Seq(Token)
      BY GivenTypes
    <3> QED BY <3>3, <3>4, GivesMore
  <2>6. CASE AppendBurst
    <3>1. phase \in Committing /\ undo' = undo
      BY <2>6 DEF AppendBurst, Committing, cycleVars
    <3>2. undo # Nothing
      BY <3>1 DEF SInv, CommitInv
    <3>3. Delivered(x)' = Delivered(x)
      BY <3>1, <3>2 DEF Delivered
    <3>4. Delivered(x) \in Seq(Token) /\ <<>> \in Seq(Token)
      BY GivenTypes
    <3> QED BY <3>3, <3>4, GivesMore
  <2>7. CASE PublishBurst
    <3>1. phase = "publish" /\ token_ids' = token_ids /\ (undo' = undo \/ NextBurst)
      BY <2>7 DEF PublishBurst, BM!commit, cycleVars
    <3> QED BY <3>1, GivesNothing, BurstGives
  <2>8. CASE ReleaseBurst
    <3>1. phase = "release" /\ token_ids' = token_ids /\ NextBurst
      BY <2>8 DEF ReleaseBurst, BM!deallocate
    <3> QED BY <3>1, BurstGives
  <2>9. CASE handoff_draft_discard
    <3>1. UNCHANGED <<token_ids, undo>>
      BY <2>9 DEF handoff_draft_discard, TA!rollback_temporary_append
    <3> QED BY <3>1, GivesNothing
  <2> QED BY <1>4, <2>1, <2>2, <2>3, <2>4, <2>5, <2>6, <2>7, <2>8, <2>9, GivesNothing DEF Cycle
<1>5. CASE Failure
  <2>1. CASE RunnerFails \/ ResultRejected
    <3>1. UNCHANGED <<token_ids, undo>>
      BY <2>1 DEF RunnerFails, ResultRejected, Raise, cycleVars
    <3> QED BY <3>1, GivesNothing
  <2>2. CASE CommitFails
    <3>1. phase \in Committing /\ undo' = Nothing /\ token_ids' = undo.tokens
      BY <2>2 DEF CommitFails, Committing, RestoredTokens
    <3>2. undo # Nothing
      BY <3>1 DEF SInv, CommitInv
    <3>3. Delivered(x)' = Delivered(x)
      BY <3>1, <3>2 DEF Delivered
    <3>4. Delivered(x) \in Seq(Token) /\ <<>> \in Seq(Token)
      BY GivenTypes
    <3> QED BY <3>3, <3>4, GivesMore
  <2>3. CASE SpeculativeRunFails
    <3>1. UNCHANGED <<token_ids, undo>>
      BY <2>3 DEF SpeculativeRunFails, BM!store_kvcache, BM!seqVars, bmVars, cycleVars
    <3> QED BY <3>1, GivesNothing
  <2> QED BY <1>5, <2>1, <2>2, <2>3 DEF Failure
<1>6. CASE Undo
  <2>1. UNCHANGED <<token_ids, undo>>
    <3>1. CASE abort_speculative_step
      BY <3>1 DEF abort_speculative_step, TA!rollback_temporary_append, bmVars
    <3>2. CASE rollback_failed_decode_schedule
      BY <3>2 DEF rollback_failed_decode_schedule, BM!rollback_uncommitted_appends, cycleVars
    <3> QED BY <1>6, <3>1, <3>2 DEF Undo
  <2> QED BY <2>1, GivesNothing
<1>7. CASE Rest /\ UNCHANGED <<draftVars, cycleVars>>
  <2>1. UNCHANGED <<token_ids, undo>>
    BY <1>7 DEF Rest, vars, bmVars, cycleVars
  <2> QED BY <2>1, GivesNothing
<1> QED BY <1>1, <1>2, <1>3, <1>4, <1>5, <1>6, <1>7 DEF SpeculationNext, SpeculativeStep

\* What users were given is never taken back or changed, and a step that fails gives them
\* nothing, however many rows of its burst were already written.
THEOREM FailuresDeliverNothing ==
  ASSUME RetriesAreSafe
  PROVE  SpeculationSpec => FailedStepsDeliverNothing
<1>1. SInv /\ [SpeculationNext]_allVars => [\A s \in Seqs : Gives(s)]_allVars
  BY StepGives
<1>2. [][\A s \in Seqs : Gives(s)]_allVars => FailedStepsDeliverNothing
  BY DEF FailedStepsDeliverNothing, Gives
<1> QED BY <1>1, <1>2, SpeculationInvariance, PTL DEF SpeculationSpec

\* The batch that a decode pass runs has the layout it expects, also after shadow cycles and
\* after failed cycles that were undone.
THEOREM DecodesStayAligned ==
  ASSUME RetriesAreSafe
  PROVE  SpeculationSpec => []DecodeRowsAreAligned
<1>1. SInv => DecodeRowsAreAligned
  <2>1. phase # "run" => DecodeRowsAreAligned
    BY DEF DecodeRowsAreAligned
  <2>2. SInv /\ phase = "run" => IInv
    BY DEF SInv, PlainInv, Phases
  <2> QED BY <2>1, <2>2, DecodesAreAligned
<1> QED BY <1>1, SpeculationInvariance, PTL

\* Nothing leaks: when no request is left every block is free again, whatever cycles reserved,
\* committed, rolled back or restored.
THEOREM CyclesReturnBlocks ==
  ASSUME RetriesAreSafe
  PROVE  SpeculationSpec => []AllBlocksReturn
<1>1. SInv => AllBlocksReturn
  <2>1. phase # "idle" => AllBlocksReturn
    BY DEF AllBlocksReturn
  <2>2. SInv /\ phase = "idle" => IInv
    BY DEF SInv, PlainInv, Phases
  <2> QED BY <2>1, <2>2, RestHoldsNothing
<1> QED BY <1>1, SpeculationInvariance, PTL

=============================================================================
