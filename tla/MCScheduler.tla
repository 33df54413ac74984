---------------------------- MODULE MCScheduler -----------------------------
(* Scheduler on two cpus: a thread that waits and gets asts, one that only *)
(* computes, and an idle thread.                                           *)
EXTENDS Scheduler

CONSTANTS a, b, d

Prios == a :> 2 @@ b :> 1 @@ d :> 0
Ones == [t \in Threads |-> 1]

Symmetry == Permutations(Cpus)
=============================================================================
