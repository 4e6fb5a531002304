------------------------ MODULE MCSpeculativeSampling ------------------------
(* Requests for model checking the sampling of a cycle: pairs of laws that agree, *)
(* overlap and exclude each other, under every family of sampling parameters.    *)
EXTENDS SpeculativeSampling

Weights == {<<1, 1, 2>>, <<2, 1, 1>>, <<1, 2, 1>>, <<4, 0, 0>>, <<0, 2, 2>>, <<1, 0, 3>>}

\* The laws after a token: the weights turned by it.
Turned(w) == [c \in Contexts |-> [x \in Vocab |-> w[((x + c - 1) % VocabSize) + 1]]]

Families == {[greedy |-> FALSE, top_k |-> -1, top_p |-> Unit],
             [greedy |-> FALSE, top_k |-> 2, top_p |-> Unit],
             [greedy |-> FALSE, top_k |-> -1, top_p |-> 9],
             [greedy |-> TRUE, top_k |-> 1, top_p |-> 6]}

NewRequest(t, d, f) ==
  [target |-> Turned(t), draft |-> Turned(d), greedy |-> f.greedy, top_k |-> f.top_k,
   top_p |-> f.top_p]

Divides(n, m) == m % n = 0

\* Every draw of the request has a whole number of cases.
Whole(r) ==
  LET law(weights) == exact_probabilities(weights, sample_metadata(<<r>>)[1])
  IN  \A a, b \in Contexts :
        LET p == law(r.target[a])
            q == law(r.draft[b])
        IN  /\ Divides(Mass(p), Unit) /\ Divides(Mass(q), Unit)
            /\ a = b => /\ Mass(residual(p, q)) # 0 =>
                             \A x \in Vocab : Divides(Mass(residual(p, q)), residual(p, q)[x] * Unit)
                        /\ \A x \in {y \in Vocab : q[y] * Mass(p) > p[y] * Mass(q)} :
                             Divides(Mass(p) * q[x], Unit * p[x] * Mass(q))

MCRequests == {r \in {NewRequest(t, d, f) : t, d \in Weights, f \in Families} : Whole(r)}

\* Rows whose neighbour has other parameters.
MCMixed == {r \in MCRequests : r.target[LastCommitted] = <<1, 1, 2>> /\ r.draft[LastCommitted] = <<2, 1, 1>>}
MCOther == {r \in MCRequests : r.target[LastCommitted] = <<1, 2, 1>> /\ r.draft[LastCommitted] \in {<<4, 0, 0>>, <<0, 2, 2>>}}

MCBatches == {<<r>> : r \in MCRequests} \cup {<<r, s>> : r \in MCMixed, s \in MCOther}
               \cup {<<s, r>> : r \in MCMixed, s \in MCOther}
=============================================================================
