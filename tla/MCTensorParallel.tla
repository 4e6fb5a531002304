--------------------------- MODULE MCTensorParallel ---------------------------
(* Two workers for model checking. *)
EXTENDS TensorParallel

CONSTANTS w1, w2
MCWorkers == {w1, w2}
=============================================================================
