------------------------------ MODULE MCClient ------------------------------
(* What the model checker runs: Client, with the inductive invariants of   *)
(* its proofs at hand, so that a run can check them on a small instance.   *)
EXTENDS ClientProofs

=============================================================================
