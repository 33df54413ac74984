---------------------------- MODULE MCEventFlag -----------------------------
(* EventFlag on one flag.  Cpus, callbacks and users are interchangeable. *)
EXTENDS EventFlag, TLC

(* Values for the configurations: clear and set; one up and one down *)
ClearSet == {0, 1}
UpDown   == {1, -1}
NoIncs   == {}

Symmetry == Permutations(Users) \cup Permutations(Cpus) \cup Permutations(Cbs)
=============================================================================
