----------------------------- MODULE MCSession -----------------------------
(* The versions a run supports: all of them (Versions, in Protocol), or    *)
(* the first in which the client enters the play state without answering   *)
(* FinishConfiguration.                                                    *)
EXTENDS Session

EarlyFinish == {V1_21_3}

=============================================================================
