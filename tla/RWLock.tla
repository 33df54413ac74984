------------------------------- MODULE RWLock -------------------------------
(***************************************************************************)
(* What a thread lock promises to the code that uses it: a thread holds it *)
(* in exclusive mode (EX) or protected-read mode (PR) or not at all (NL);  *)
(* exclusive is exclusive, readers share, and the conversion from EX to PR *)
(* happens in one step, so that no writer can get in between.  Threadlock  *)
(* is shown to implement this module.                                      *)
(***************************************************************************)
CONSTANT Threads      \* the threads that use the lock

VARIABLE holds        \* the mode each thread holds the lock in

Holding(m) == {t \in Threads : holds[t] = m}

Init == holds = [t \in Threads |-> "NL"]

(* oz_knl_threadlock_ex, from its caller's point of view *)
LockEx(t) ==
  /\ Holding("NL") = Threads
  /\ holds' = [holds EXCEPT ![t] = "EX"]

(* oz_knl_threadlock_pr *)
LockPr(t) ==
  /\ holds[t] = "NL"
  /\ Holding("EX") = {}
  /\ holds' = [holds EXCEPT ![t] = "PR"]

(* oz_knl_threadlock_ex_pr *)
ExToPr(t) ==
  /\ holds[t] = "EX"
  /\ holds' = [holds EXCEPT ![t] = "PR"]

(* oz_knl_threadunlk_ex and oz_knl_threadunlk_pr *)
Unlock(t) ==
  /\ holds[t] # "NL"
  /\ holds' = [holds EXCEPT ![t] = "NL"]

Next == \E t \in Threads : LockEx(t) \/ LockPr(t) \/ ExToPr(t) \/ Unlock(t)

Spec == Init /\ [][Next]_holds
=============================================================================
