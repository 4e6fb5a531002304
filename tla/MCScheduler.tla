------------------------------ MODULE MCScheduler ------------------------------
(* Requests for model checking the scheduler: prompts that share their first   *)
(* block, one that is longer than the token budget of a step.                  *)
EXTENDS Scheduler

Req(p, n) == [prompt |-> p, max_tokens |-> n, ignore_eos |-> FALSE]

MCRequests == {Req(<<1, 1, 1>>, 3), Req(<<1, 1, 1, 1, 1>>, 2), Req(<<2, 1>>, 4)}
=============================================================================
