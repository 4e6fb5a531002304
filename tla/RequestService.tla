---------------------------- MODULE RequestService ----------------------------
(***************************************************************************)
(* What the engine promises a user, without queues, batches or memory: a   *)
(* submitted request yields tokens one at a time, never takes one back,    *)
(* and ends by finishing (end-of-sequence token or token limit) or by      *)
(* being cancelled; nothing is added to it afterwards.                     *)
(***************************************************************************)
EXTENDS Integers, Sequences

CONSTANTS Seqs, Token, EOS, Requests

VARIABLES
  request,   \* what was submitted
  state,     \* "absent", "pending", "finished" or "cancelled"
  output     \* the tokens generated so far

serviceVars == <<request, state, output>>

Init ==
  /\ request = [s \in Seqs |-> [prompt |-> <<>>, max_tokens |-> 0, ignore_eos |-> FALSE]]
  /\ state = [s \in Seqs |-> "absent"]
  /\ output = [s \in Seqs |-> <<>>]

Submit(s, r) ==
  /\ state[s] = "absent"
  /\ request' = [request EXCEPT ![s] = r]
  /\ state' = [state EXCEPT ![s] = "pending"]
  /\ UNCHANGED output

Ends(s, t) ==
  \/ t = EOS /\ ~request[s].ignore_eos
  \/ Len(output[s]) + 1 = request[s].max_tokens

Emit(s, t) ==
  /\ state[s] = "pending"
  /\ output' = [output EXCEPT ![s] = Append(@, t)]
  /\ state' = [state EXCEPT ![s] = IF Ends(s, t) THEN "finished" ELSE "pending"]
  /\ UNCHANGED request

Withdraw(s) ==
  /\ state[s] = "pending"
  /\ state' = [state EXCEPT ![s] = "cancelled"]
  /\ UNCHANGED <<request, output>>

Next ==
  \E s \in Seqs :
    \/ \E r \in Requests : Submit(s, r)
    \/ \E t \in Token : Emit(s, t)
    \/ Withdraw(s)

Spec == Init /\ [][Next]_serviceVars
=============================================================================
