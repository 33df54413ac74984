----------------------------- MODULE MCMutexDev -----------------------------
(* MutexDev on three channels of one mutex. *)
EXTENDS MutexDev

(* Values for the configurations: without CW the modes are totally ordered, *)
(* CW and PR exclude each other.                                            *)
OrderModes == {"NL", "PR", "PW", "EX"}
CrossModes == {"CW", "PR"}
Both       == {TRUE, FALSE}
=============================================================================
