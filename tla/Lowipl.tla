------------------------------- MODULE Lowipl -------------------------------
(***************************************************************************)
(* Low-ipl calls (oz_knl_lowipl.c).  Interrupt routines push structs on a  *)
(* list without a lock, and cpus pop and call them at softint level.  A    *)
(* struct may be pushed again as soon as its routine is called.            *)
(***************************************************************************)
EXTENDS Naturals, FiniteSets

CONSTANTS Structs,   \* OZ_Lowipl structs, each used by a driver of its own
          LowiplCpus,\* the cpus that take low-ipl interrupts
          NULL,      \* no struct
          MaxCalls   \* bound on the calls of oz_knl_lowipl_call per struct

ASSUME CallsAssumption == NULL \notin Structs /\ MaxCalls \in Nat

VARIABLES
  lowipls,      \* oz_knl_lowipl_lowipls
  next,         \* the next pointer of each struct
  entry,        \* which of its driver's calls a struct is to make
  caller,       \* struct: where its driver is in oz_knl_lowipl_call
  lowiplint,    \* cpus with a low-ipl interrupt pending
  handling,     \* cpu: place in oz_knl_lowipl_handleint, locals lowipl and its next
  called        \* struct: how often each of its calls has been made

callVars == <<lowipls, next, entry, caller, lowiplint, handling, called>>

-----------------------------------------------------------------------------
CallInit ==
  /\ lowipls = NULL
  /\ next = [l \in Structs |-> NULL] /\ entry = [l \in Structs |-> 0]
  /\ caller = [l \in Structs |-> "out"]
  /\ lowiplint = {}
  /\ handling = [c \in LowiplCpus |-> [pc |-> "out", lowipl |-> NULL, next |-> NULL]]
  /\ called = [l \in Structs |-> [n \in 1..MaxCalls |-> 0]]

(* Its driver does not use a struct again before its routine was called.   *)
Unused(l) == \A n \in 1..entry[l] : called[l][n] > 0

(* oz_knl_lowipl_call *)
LowiplCall(l) ==
  /\ caller[l] = "out" /\ Unused(l) /\ entry[l] < MaxCalls
  /\ entry' = [entry EXCEPT ![l] = @ + 1]
  /\ next' = [next EXCEPT ![l] = lowipls]
  /\ caller' = [caller EXCEPT ![l] = "link"]
  /\ UNCHANGED <<lowipls, lowiplint, handling, called>>

(* The atomic exchange, and softint_some_cpu: any cpu will do.             *)
Push(l) ==
  /\ caller[l] = "link"
  /\ IF lowipls = next[l]
     THEN /\ lowipls' = l /\ next' = next
          /\ caller' = [caller EXCEPT ![l] = "out"]
          /\ \E c \in LowiplCpus : lowiplint' = lowiplint \cup {c}
     ELSE next' = [next EXCEPT ![l] = lowipls] /\ UNCHANGED <<lowipls, caller, lowiplint>>
  /\ UNCHANGED <<entry, handling, called>>

-----------------------------------------------------------------------------
(* oz_knl_lowipl_handleint on cpu c *)

Interrupt(c) ==
  /\ handling[c].pc = "out" /\ c \in lowiplint
  /\ lowiplint' = lowiplint \ {c}
  /\ handling' = [handling EXCEPT ![c].pc = "head"]
  /\ UNCHANGED <<lowipls, next, entry, caller, called>>

ReadHead(c) ==
  /\ handling[c].pc = "head"
  /\ handling' = [handling EXCEPT ![c] = [pc |-> IF lowipls = NULL THEN "out" ELSE "next",
                                          lowipl |-> lowipls, next |-> NULL]]
  /\ UNCHANGED <<lowipls, next, entry, caller, lowiplint, called>>

ReadNext(c) ==
  /\ handling[c].pc = "next"
  /\ handling' = [handling EXCEPT ![c].pc = "pop", ![c].next = next[handling[c].lowipl]]
  /\ UNCHANGED <<lowipls, next, entry, caller, lowiplint, called>>

(* Mutant of Pop: no atomic exchange. *)
PopBlind(c) ==
  /\ handling[c].pc = "pop"
  /\ lowipls' = handling[c].next /\ handling' = [handling EXCEPT ![c].pc = "poke"]
  /\ UNCHANGED <<next, entry, caller, lowiplint, called>>

Pop(c) ==
  /\ handling[c].pc = "pop"
  /\ IF lowipls = handling[c].lowipl
     THEN lowipls' = handling[c].next /\ handling' = [handling EXCEPT ![c].pc = "poke"]
     ELSE handling' = [handling EXCEPT ![c].pc = "head"] /\ UNCHANGED lowipls
  /\ UNCHANGED <<next, entry, caller, lowiplint, called>>

(* If there is more to do, some other cpu may do it. *)
Poke(c) ==
  /\ handling[c].pc = "poke"
  /\ IF lowipls # NULL /\ LowiplCpus # {c}
     THEN \E d \in LowiplCpus \ {c} : lowiplint' = lowiplint \cup {d}
     ELSE UNCHANGED lowiplint
  /\ handling' = [handling EXCEPT ![c].pc = "call"]
  /\ UNCHANGED <<lowipls, next, entry, caller, called>>

(* Mutant of Run: it does not look for more. *)
RunOne(c) ==
  /\ handling[c].pc = "call"
  /\ LET l == handling[c].lowipl IN called' = [called EXCEPT ![l][entry[l]] = @ + 1]
  /\ handling' = [handling EXCEPT ![c].pc = "out"]
  /\ UNCHANGED <<lowipls, next, entry, caller, lowiplint>>

(* The routine is called: the struct is its driver's again. *)
Run(c) ==
  /\ handling[c].pc = "call"
  /\ LET l == handling[c].lowipl IN called' = [called EXCEPT ![l][entry[l]] = @ + 1]
  /\ handling' = [handling EXCEPT ![c].pc = "head"]
  /\ UNCHANGED <<lowipls, next, entry, caller, lowiplint>>

-----------------------------------------------------------------------------
HandleInt(c) == Interrupt(c) \/ ReadHead(c) \/ ReadNext(c) \/ Pop(c) \/ Poke(c) \/ Run(c)

CallNext ==
  \/ \E l \in Structs : LowiplCall(l) \/ Push(l)
  \/ \E c \in LowiplCpus : HandleInt(c)

CallSpec == CallInit /\ [][CallNext]_callVars

(* A driver finishes its push, and cpus take their interrupts.             *)
CallFairness ==
  /\ \A l \in Structs : WF_callVars(Push(l))
  /\ \A c \in LowiplCpus : WF_callVars(HandleInt(c))

-----------------------------------------------------------------------------
(* Every call is made once and no more, however the pushes and pops of the *)
(* list come in between.  So it is on one cpu, and when no struct is used   *)
(* twice; else a cpu that has read the head and its next can be overtaken   *)
(* by others that pop both and push the first one again.                   *)
CalledOnce == \A l \in Structs : \A n \in 1..MaxCalls :
                called[l][n] <= IF n <= entry[l] THEN 1 ELSE 0

(* "all routines on lowipls list called": a call that is asked for is made. *)
CalledInTheEnd == \A l \in Structs, n \in 1..MaxCalls : entry[l] = n ~> called[l][n] > 0
=============================================================================
