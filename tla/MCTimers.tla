------------------------------ MODULE MCTimers ------------------------------
(* Work that is put off: the timer queue, the interval timer of an event     *)
(* flag, and low-ipl calls, one after the other.  "part" says which of them  *)
(* runs.                                                                    *)
EXTENDS TimerQueue, EventTimer, TLC

NowOrAhead == {0, 1}

VARIABLES part, lowipls, next, entry, caller, lowiplint, handling, called

callVars == <<lowipls, next, entry, caller, lowiplint, handling, called>>

LowCalls == INSTANCE Lowipl WITH
  Structs <- {"l", "m"}, LowiplCpus <- {"cpu"}, NULL <- None, MaxCalls <- 2

MCInit == /\ part \in {"queue", "interval", "calls"}
          /\ Init /\ IntervalInit /\ LowCalls!CallInit

MCNext ==
  /\ UNCHANGED part
  /\ \/ part = "queue" /\ Next /\ UNCHANGED <<intervalVars, callVars>>
     \/ part = "interval" /\ IntervalNext /\ UNCHANGED <<vars, callVars>>
     \/ part = "calls" /\ LowCalls!CallNext /\ UNCHANGED <<vars, intervalVars>>

(* The fairness of each component, that of Fairness in its module. *)
In(p, step) == part = p /\ step

MCFairness ==
  /\ WF_vars(In("queue", Interrupt))
  /\ WF_vars(In("queue", \E c \in Callers : Enter(c)))
  /\ \A c \in Callers : /\ WF_vars(In("queue", Call(c) \/ Leave(c)))
                        /\ WF_vars(In("queue", Return(c)))
  /\ \A u \in Users : WF_intervalVars(In("interval", Releasing(u)))
  /\ \A c \in Expirers : WF_intervalVars(In("interval", Expired(c)))
  /\ WF_intervalVars(In("interval", \E c \in Expirers : Expire(c)))
  /\ \A l \in {"l", "m"} : WF_callVars(In("calls", LowCalls!Push(l)))
  /\ WF_callVars(In("calls", LowCalls!HandleInt("cpu")))

MCSpec == MCInit /\ [][MCNext]_<<part, vars, intervalVars, callVars>> /\ MCFairness

-----------------------------------------------------------------------------
(* A low-ipl call that is asked for is made.                               *)
CalledInTheEnd == LowCalls!CalledInTheEnd
=============================================================================
