------------------------- MODULE SpeculativeSampling -------------------------
(***************************************************************************)
(* The random choices of a verified cycle: speculative_execution.py        *)
(* (execute), the draft loop of model_runner.py and layers/sampler.py.     *)
(*                                                                         *)
(* A cycle draws k proposals per row from the draft law q, computes the    *)
(* k + 1 target laws p, accepts a prefix of the proposals, and ends with a *)
(* token of the residual law, or of the bonus law when all are accepted.   *)
(* Laws are rows of reused storage, written in one layout and read in      *)
(* another.                                                                *)
(*                                                                         *)
(* A state holds, per row, every outcome that the draws so far can have    *)
(* had, each with its number of equally likely cases (a bag): each draw    *)
(* splits a case into Unit cases.  Weights are natural numbers in place of *)
(* the exponentials of scaled logits; fractions are exact.                 *)
(***************************************************************************)
EXTENDS Integers, Sequences, FiniteSetsExt

CONSTANTS
  VocabSize,
  Batches,       \* the decode batches: sequences of requests
  Ks,            \* the proposal lengths
  Unit           \* cases per draw

Vocab == 1 .. VocabSize

\* The context of a model is the token fed last, at first LastCommitted.
LastCommitted == 0
Contexts == {LastCommitted} \cup Vocab

\* Per request and context the weights of target and draft, and its sampling
\* parameters (top_k = -1 and top_p = Unit are off).
Request == [target : [Contexts -> [Vocab -> Nat]], draft : [Contexts -> [Vocab -> Nat]],
            greedy : BOOLEAN, top_k : Nat \cup {-1}, top_p : 1 .. Unit]

ASSUME SamplingAssumption ==
  /\ VocabSize \in Nat \ {0}
  /\ Unit \in Nat \ {0}
  /\ Ks \subseteq Nat \ {0}
  /\ \A batch \in Batches : batch \in Seq(Request) /\ batch # <<>>

VARIABLES
  rows,       \* the batch
  k,          \* effective_k
  invariant,  \* numerical_mode = "invariant"
  phase,      \* "draft", "verify", "accept", "terminal", "done"
  step,       \* the loop's position in the phase
  q_rows,     \* _spec_q_rows: who wrote each row, and with which metadata
  p_rows,     \* _spec_target_probability_rows
  worlds      \* per row, the outcomes so far and their cases

vars == <<rows, k, invariant, phase, step, q_rows, p_rows, worlds>>

Mass(w) == MapThenSumSet(LAMBDA x : w[x], Vocab)

-----------------------------------------------------------------------------
(* Sampler *)

argmax(w) == Min({x \in Vocab : \A y \in Vocab : w[y] <= w[x]})

\* Everything below the top_k-th largest goes; what ties with it stays.
filter_top_k(w, top_k) ==
  LET threshold == Max({w[x] : x \in {y \in Vocab :
                          Cardinality({z \in Vocab : w[z] >= w[y]}) >= top_k}})
  IN  [x \in Vocab |-> IF w[x] < threshold THEN 0 ELSE w[x]]

\* From the least likely up, tokens go while their sum is within the cutoff; the most
\* likely one stays.  Equal weights are sorted by token.
filter_top_p(w, cutoff) ==
  LET upto(x) == {y \in Vocab : w[y] < w[x] \/ (w[y] = w[x] /\ y <= x)}
      removed(x) == /\ upto(x) # Vocab
                    /\ MapThenSumSet(LAMBDA y : w[y], upto(x)) * Unit <= cutoff * Mass(w)
  IN  [x \in Vocab |-> IF removed(x) THEN 0 ELSE w[x]]

\* _prepare_sample_metadata, per row of the list it is given.
sample_metadata(seqs) ==
  [i \in DOMAIN seqs |->
     [greedy |-> seqs[i].greedy,
      top_k |-> IF seqs[i].greedy \/ seqs[i].top_k = -1 THEN VocabSize
                ELSE Min({seqs[i].top_k, VocabSize}),
      cutoff |-> IF seqs[i].greedy THEN 0 ELSE Unit - seqs[i].top_p]]

\* prepare_exact_probabilities
exact_probabilities(w, metadata) ==
  IF metadata.greedy THEN [x \in Vocab |-> IF x = argmax(w) THEN 1 ELSE 0]
  ELSE filter_top_p(filter_top_k(w, metadata.top_k), metadata.cutoff)

\* The exponential race: a token is drawn in proportion to its weight.
race(w) == [x \in {y \in Vocab : w[y] > 0} |-> (w[x] * Unit) \div Mass(w)]

\* Every world of the bag splits into the worlds of Split(world).
Spread(bag, Split(_)) ==
  LET outcomes == UNION {DOMAIN Split(w) : w \in DOMAIN bag}
      cases(o) == MapThenSumSet(LAMBDA w : IF o \in DOMAIN Split(w) THEN bag[w] * Split(w)[o] ELSE 0,
                                DOMAIN bag)
  IN  [o \in outcomes |-> cases(o)]

\* A world after a draw from w: its successor for each token.
Draw(w, Successor(_)) ==
  LET drawn == race(w)
  IN  [o \in {Successor(x) : x \in DOMAIN drawn} |-> drawn[CHOOSE x \in DOMAIN drawn : Successor(x) = o]]

-----------------------------------------------------------------------------
(* The storage of laws *)

Batch == Len(rows)

\* Rows of the K-major and of the row-major views.
KMajor(i, s) == s * Batch + (i - 1)
RowMajor(i, s) == (i - 1) * (k + 1) + s

\* The token that is fed at step s.
Fed(proposals, s) == IF s = 0 THEN LastCommitted ELSE proposals[s]

\* What row i of the batch writes at step s.
Entry(i, s, metadata) == [row |-> i, step |-> s, metadata |-> metadata]

\* What an earlier cycle left, or another row wrote: nothing is known of it.
Unknown == [x \in Vocab |-> 1]

LawIn(entry, i, weights, proposals) ==
  IF entry.row = i THEN exact_probabilities(weights[Fed(proposals, entry.step)], entry.metadata)
  ELSE Unknown

-----------------------------------------------------------------------------
(* The cycle *)

NewWorld == [proposals |-> <<>>, accepted |-> 0, emitted |-> <<>>, fallback |-> FALSE]

Stale == Entry(0, 0, <<>>)

Init ==
  /\ rows \in Batches
  /\ k \in Ks
  /\ invariant \in BOOLEAN
  /\ phase = "draft"
  /\ step = 0
  /\ q_rows = [n \in 0 .. Len(rows) * k - 1 |-> Stale]
  /\ p_rows = [n \in 0 .. Len(rows) * (k + 1) - 1 |-> Stale]
  /\ worlds = [i \in DOMAIN rows |-> [w \in {NewWorld} |-> 1]]

all_greedy == \A i \in DOMAIN rows : rows[i].greedy
some_greedy == \E i \in DOMAIN rows : rows[i].greedy

\* The loop of _execute_draft_proposals_validated: a row of q, a proposal from it.
draft_proposal_step ==
  LET metadata == sample_metadata(rows)
      q(i) == q_rows'[KMajor(i, step)]
      proposed(i, w) == Draw(LawIn(q(i), i, rows[i].draft, w.proposals),
                             LAMBDA x : [w EXCEPT !.proposals = Append(@, x)])
  IN  /\ phase = "draft"
      /\ q_rows' = [n \in DOMAIN q_rows |->
                      IF n \in KMajor(1, step) .. KMajor(Batch, step)
                      THEN LET i == n - KMajor(1, step) + 1 IN Entry(i, step, metadata[i])
                      ELSE q_rows[n]]
      /\ worlds' = [i \in DOMAIN rows |-> Spread(worlds[i], LAMBDA w : proposed(i, w))]
      /\ step' = IF step + 1 = k THEN 0 ELSE step + 1
      /\ phase' = IF step + 1 = k THEN "verify" ELSE "draft"
      /\ UNCHANGED <<rows, k, invariant, p_rows>>

\* Mutant: the rows are repeated as blocks, K-major.
repeated_rows_blocks(batch, positions) ==
  [n \in 1 .. Len(batch) * positions |-> batch[((n - 1) % Len(batch)) + 1]]

\* Each row once per position, row by row.
repeated_rows(batch, positions) ==
  [n \in 1 .. Len(batch) * positions |-> batch[((n - 1) \div positions) + 1]]

\* target_probabilities: all positions in one pass.
target_probabilities ==
  LET metadata == sample_metadata(repeated_rows(rows, k + 1))
  IN  /\ phase = "verify"
      /\ ~(some_greedy /\ ~invariant)
      /\ ~(all_greedy /\ invariant)
      /\ p_rows' = [n \in DOMAIN p_rows |->
                      Entry((n \div (k + 1)) + 1, n % (k + 1), metadata[n + 1])]
      /\ phase' = "accept"
      /\ UNCHANGED <<rows, k, invariant, step, q_rows, worlds>>

\* One pass of sequential_target_probabilities, the lane of fast batches with greedy rows.
sequential_target_step ==
  LET metadata == sample_metadata(rows)
  IN  /\ phase = "verify"
      /\ some_greedy /\ ~invariant
      /\ p_rows' = [n \in DOMAIN p_rows |->
                      IF n \in KMajor(1, step) .. KMajor(Batch, step)
                      THEN LET i == n - KMajor(1, step) + 1 IN Entry(i, step, metadata[i])
                      ELSE p_rows[n]]
      /\ step' = IF step = k THEN 0 ELSE step + 1
      /\ phase' = IF step = k THEN "accept" ELSE "verify"
      /\ UNCHANGED <<rows, k, invariant, q_rows, worlds>>

\* p[i, s] and q[i, s] of a world.
p_law(i, w, s) ==
  LET n == IF some_greedy /\ ~invariant THEN KMajor(i, s) ELSE RowMajor(i, s)
  IN  LawIn(p_rows[n], i, rows[i].target, w.proposals)

q_law(i, w, s) == LawIn(q_rows[KMajor(i, s)], i, rows[i].draft, w.proposals)

\* Mutant: the draw is taken from the other end of the interval.
accepts_reversed(u, p, q, token) ==
  (Unit - u) * Mass(p) * q[token] < Unit * p[token] * Mass(q)

\* u / Unit < p(token) / q(token)
accepts(u, p, q, token) ==
  u * Mass(p) * q[token] < Unit * p[token] * Mass(q)

\* One column of the uniforms of accept_trusted, with its running product.
accept_step ==
  LET cases(i, w) ==
        Cardinality({u \in 0 .. Unit - 1 :
                       accepts(u, p_law(i, w, step), q_law(i, w, step), w.proposals[step + 1])})
      split(i, w) ==
        IF w.accepted < step THEN [o \in {w} |-> Unit]
        ELSE LET n == cases(i, w)
                 kept == [w EXCEPT !.accepted = step + 1]
             IN  [o \in (IF n > 0 THEN {kept} ELSE {}) \cup (IF n < Unit THEN {w} ELSE {}) |->
                    IF o = kept THEN n ELSE Unit - n]
  IN  /\ phase = "accept"
      /\ worlds' = [i \in DOMAIN rows |-> Spread(worlds[i], LAMBDA w : split(i, w))]
      /\ step' = IF step + 1 = k THEN 0 ELSE step + 1
      /\ phase' = IF step + 1 = k THEN "terminal" ELSE "accept"
      /\ UNCHANGED <<rows, k, invariant, q_rows, p_rows>>

\* max(p - q, 0), unnormalised.
residual(p, q) ==
  [x \in Vocab |-> Max({p[x] * Mass(q) - q[x] * Mass(p), 0})]

\* _host_results
Emit(w, x, fallback) ==
  [w EXCEPT !.emitted = Append(SubSeq(w.proposals, 1, w.accepted), x), !.fallback = fallback]

\* The bonus token where all was accepted, else the corrective one.
terminal ==
  LET correction(i, w) ==
        LET p == p_law(i, w, w.accepted)
            law == residual(p, q_law(i, w, w.accepted))
        IN  IF Mass(law) = 0 THEN Draw(p, LAMBDA x : Emit(w, x, TRUE))
            ELSE Draw(law, LAMBDA x : Emit(w, x, FALSE))
      ended(i, w) ==
        IF w.accepted = k THEN Draw(p_law(i, w, k), LAMBDA x : Emit(w, x, FALSE))
        ELSE correction(i, w)
  IN  /\ phase = "terminal"
      /\ worlds' = [i \in DOMAIN rows |-> Spread(worlds[i], LAMBDA w : ended(i, w))]
      /\ phase' = "done"
      /\ UNCHANGED <<rows, k, invariant, step, q_rows, p_rows>>

\* The lane of greedy batches in invariant mode: proposals are compared with the
\* target's tokens.
match_greedy ==
  LET target_token(i, w, s) == argmax(rows[i].target[Fed(w.proposals, s)])
      count(i, w) ==
        Max({n \in 0 .. k : \A s \in 0 .. n - 1 : w.proposals[s + 1] = target_token(i, w, s)})
      matched(i, w) ==
        Emit([w EXCEPT !.accepted = count(i, w)], target_token(i, w, count(i, w)), FALSE)
  IN  /\ phase = "verify"
      /\ all_greedy /\ invariant
      /\ worlds' = [i \in DOMAIN rows |->
                      Spread(worlds[i], LAMBDA w : [o \in {matched(i, w)} |-> 1])]
      /\ phase' = "done"
      /\ UNCHANGED <<rows, k, invariant, step, q_rows, p_rows>>

Done == phase = "done" /\ UNCHANGED vars

Next ==
  \/ draft_proposal_step
  \/ target_probabilities
  \/ sequential_target_step
  \/ accept_step
  \/ terminal
  \/ match_greedy
  \/ Done

Spec == Init /\ [][Next]_vars

-----------------------------------------------------------------------------
(* Ordinary decoding, to compare with *)

\* Cases of Unit in which an ordinary decode step (run, then forward or greedy) emits x
\* in the row, after the token fed last.
ordinary_cases(i, context, x) ==
  LET drawn == race(exact_probabilities(rows[i].target[context], sample_metadata(rows)[i]))
  IN  IF x \in DOMAIN drawn THEN drawn[x] ELSE 0

\* Cases of Unit ^ (Len(text) - from + 1) in which it goes on as the text does.
OrdinaryCases(i, text, from) ==
  LET at(n) == ordinary_cases(i, IF n = 1 THEN LastCommitted ELSE text[n - 1], text[n])
      cases[n \in from .. Len(text) + 1] == IF n = Len(text) + 1 THEN 1 ELSE at(n) * cases[n + 1]
  IN  cases[from]

-----------------------------------------------------------------------------
(* Properties *)

\* Speculation does not change what is sampled: for every row and every text of k + 1
\* tokens, a cycle that ordinary decoding completes gives the text with the probability
\* that ordinary decoding alone gives it, whatever the draft model proposes, the lane
\* the verifier takes, and the parameters of the row's neighbours.
EmitsTheTargetLaw ==
  phase = "done" =>
    \A i \in DOMAIN rows :
      LET mass == MapThenSumSet(LAMBDA w : worlds[i][w], DOMAIN worlds[i])
          fits(w, text) == w.emitted = SubSeq(text, 1, Len(w.emitted))
          continued(w, text) ==
            worlds[i][w] * OrdinaryCases(i, text, Len(w.emitted) + 1) * Unit ^ Len(w.emitted)
      IN  \A text \in [1 .. k + 1 -> Vocab] :
            MapThenSumSet(LAMBDA w : continued(w, text),
                          {w \in DOMAIN worlds[i] : fits(w, text)})
              = mass * OrdinaryCases(i, text, 1)

\* "A numerical rejection with robust p == q is analytically unreachable": a proposal is
\* rejected only where the residual law has mass, so no world falls back on the target law.
FallbackIsUnreachable ==
  \A i \in DOMAIN rows : \A w \in DOMAIN worlds[i] : ~w.fallback
=============================================================================
