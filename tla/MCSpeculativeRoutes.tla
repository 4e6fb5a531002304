------------------------- MODULE MCSpeculativeRoutes -------------------------
(* Configurations for model checking the speculative routes: budgets from the  *)
(* smallest legal one up, batches that meet a bucket exactly, inside and above *)
(* the largest, and K above, at and below what the limits allow.               *)
EXTENDS SpeculativeRoutes

Config(N, M, L, K, eager, adaptive, invariant) ==
  [max_num_seqs |-> N, max_num_batched_tokens |-> M, max_model_len |-> L, configured_k |-> K,
   enforce_eager |-> eager, adaptive |-> adaptive, invariant |-> invariant]

\* Few rows of many states.
Long == {Config(N, M, 5, K, eager, FALSE, FALSE) :
           N \in {1, 2}, M \in {3, 4, 7, 11, 16}, K \in {1, 3, 6}, eager \in BOOLEAN}

\* Many rows of few states, more than the verifier takes.
Wide == {Config(3, M, 3, K, eager, FALSE, FALSE) :
           M \in {4, 7, 9, 16}, K \in {1, 2}, eager \in BOOLEAN}
        \cup {Config(4, M, 3, 1, FALSE, FALSE, FALSE) : M \in {9, 12}}

MCAdaptive == {Config(2, M, 4, 2, invariant, TRUE, invariant) : M \in {5, 9}, invariant \in BOOLEAN}

MCConfigs == {c \in Long \cup Wide \cup MCAdaptive : LegalConfig(c)}

\* Only the longest proposal is calibrated.
MCCells == [batch_size : {1, 2}, family : {"greedy", "temperature", "mixed"},
            context : {2, 4, 8}, catchup : {0, 1, 2, 4, 8}, k : {2}]
=============================================================================
