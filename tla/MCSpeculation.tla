----------------------------- MODULE MCSpeculation -----------------------------
(* Requests for model checking speculation: two prompts that share their first *)
(* block, and room for cycles that end inside, at and past a block boundary.   *)
EXTENDS Speculation

Req(p, n) == [prompt |-> p, max_tokens |-> n, ignore_eos |-> FALSE]

MCRequests == {Req(<<1, 1, 1>>, 5), Req(<<1, 1>>, 3)}

\* For liveness: one step has no budget for both prompts, so that one is chunked; the
\* pool holds a cycle of both, but not both to their ends, so that one is preempted.
MCMixedRequests == {Req(<<2, 2, 1, 1, 1, 1>>, 2), Req(<<1, 1>>, 4)}
=============================================================================
