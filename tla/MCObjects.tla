----------------------------- MODULE MCObjects ------------------------------
(* What threads hold and share, one system after the other: an event flag,  *)
(* handle tables and low-ipl calls.  "part" says which of them runs.  The    *)
(* parts of handle tables and of low-ipl calls have the constants that the   *)
(* configuration gives, or less.                                            *)
EXTENDS MCEventFlag, Handles, Lowipl

VARIABLE part

MCObjType == [o |-> 1, p |-> 2]

(* A table that has enough entries, and is listed and copied. *)
Copied == INSTANCE Handles WITH InitialCount <- 4, MaxAssigns <- 2

(* One cpu; two of them, and no struct is used twice. *)
OneCpu  == INSTANCE Lowipl WITH LowiplCpus <- {"cpu"}, Structs <- {"l", "m"}
TwoCpus == INSTANCE Lowipl WITH MaxCalls <- 1

MCInit ==
  /\ part \in {"flag", "table", "copied", "onecpu", "twocpus"}
  /\ Init /\ CallInit
  /\ \/ part # "copied" /\ TableInit
     \/ part = "copied" /\ Copied!TableInit

(* Threads that assign, take out and release handles of one object *)
OnlyShare ==
  /\ copies' = 0
  /\ \A t \in Threads : obj'[t] # "p" /\ place'[t] # "copy"

MCNext ==
  /\ UNCHANGED part
  /\ \/ part = "flag" /\ Next /\ UNCHANGED <<tableVars, callVars>>
     \/ part = "table" /\ TableNext /\ OnlyShare /\ UNCHANGED <<vars, callVars>>
     \/ /\ part = "copied" /\ Copied!TableNext
        /\ place'["u"] \in {"exit", "gone"}
        /\ UNCHANGED <<vars, callVars>>
     \/ part = "onecpu" /\ OneCpu!CallNext /\ UNCHANGED <<vars, tableVars>>
     \/ part = "twocpus" /\ TwoCpus!CallNext /\ UNCHANGED <<vars, tableVars>>

MCSpec == MCInit /\ [][MCNext]_<<part, vars, tableVars, callVars>>
=============================================================================
