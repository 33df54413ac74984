----------------------------- MODULE EventTimer -----------------------------
(***************************************************************************)
(* The interval timer of one event flag (oz_knl_event.c): setimint called  *)
(* by threads that hold a reference, event_timer called when the timer     *)
(* expires, and oz_knl_event_increfc when the last reference is dropped.   *)
(* They share interval, timerstate and the timer without a lock, so every  *)
(* access is a step.  The timer queue is used as TimerRequests promises;   *)
(* times are left out, so an inserted timer may expire at any moment.      *)
(***************************************************************************)
EXTENDS Naturals, FiniteSets

CONSTANTS Users,      \* threads that have a reference to the flag
          Expirers,   \* where event_timer can run at a time
          Intervals,  \* the intervals asked for, numbers: 0 is off
          MaxSets     \* bound on the calls of setimint

ASSUME UsersAssumption == IsFiniteSet(Users)
ASSUME SetsAssumption == Intervals \subseteq Nat /\ MaxSets \in Nat

VARIABLES
  timer,       \* event -> timer # NULL
  interval,    \* event -> interval
  timerstate,  \* event -> timerstate
  queued,      \* the timer is in the timer queue
  refcount,    \* event -> refcount
  freed,       \* how often event and timer were freed
  sets,        \* calls of setimint so far
  user,        \* where each thread is in setimint or increfc
  wanted,      \* setimint's parameter interval
  expirer,     \* where each call of event_timer is
  crashed      \* none, or what crashed the system

intervalVars == <<timer, interval, timerstate, queued, refcount, freed, sets, user, wanted,
                  expirer, crashed>>

-----------------------------------------------------------------------------
IntervalTypeOK ==
  /\ timer \in BOOLEAN
  /\ interval \in Intervals \cup {0}
  /\ timerstate \in {"dead", "idle", "qued", "kill"}
  /\ queued \in BOOLEAN
  /\ refcount \in 0 .. Cardinality(Users)
  /\ freed \in 0 .. 1
  /\ sets \in 0 .. MaxSets
  /\ user \in [Users -> {"free", "save", "state", "insert", "clear", "look", "kill", "gone"}]
  /\ wanted \in [Users -> Intervals \cup {0}]
  /\ expirer \in [Expirers -> {"out", "look", "test", "divide", "insert", "stop"}]
  /\ crashed \in {"no", "state", "divide"}

IntervalInit ==
  /\ timer = FALSE
  /\ interval = 0
  /\ timerstate = "dead"
  /\ queued = FALSE
  /\ refcount = Cardinality(Users)
  /\ freed = 0
  /\ sets = 0
  /\ user = [u \in Users |-> "free"]
  /\ wanted = [u \in Users |-> 0]
  /\ expirer = [c \in Expirers |-> "out"]
  /\ crashed = "no"

User(u, from, to) ==
  crashed = "no" /\ user[u] = from /\ user' = [user EXCEPT ![u] = to]

Expirer(c, from, to) ==
  crashed = "no" /\ expirer[c] = from /\ expirer' = [expirer EXCEPT ![c] = to]

-----------------------------------------------------------------------------
(* oz_knl_event_setimint *)

(* A timer is allocated the first time an interval is set. *)
Set(u) ==
  /\ sets < MaxSets
  /\ sets' = sets + 1
  /\ \E new \in Intervals :
       /\ wanted' = [wanted EXCEPT ![u] = new]
       /\ timer' = (timer \/ new # 0)
       /\ User(u, "free", IF timer' THEN "save" ELSE "free")
  /\ UNCHANGED <<interval, timerstate, queued, refcount, freed, expirer, crashed>>

SaveInterval(u) ==
  /\ User(u, "save", IF wanted[u] = 0 THEN "free" ELSE "state")
  /\ interval' = wanted[u]
  /\ UNCHANGED <<timer, timerstate, queued, refcount, freed, sets, wanted, expirer, crashed>>

(* "Set state indicating timer is queued" *)
SetState(u) ==
  /\ User(u, "state", "insert")
  /\ timerstate' = "qued"
  /\ crashed' = IF timerstate = "kill" THEN "state" ELSE crashed
  /\ UNCHANGED <<timer, interval, queued, refcount, freed, sets, wanted, expirer>>

InsertTimer(u) ==
  /\ User(u, "insert", "free")
  /\ queued' = TRUE
  /\ UNCHANGED <<timer, interval, timerstate, refcount, freed, sets, wanted, expirer, crashed>>

-----------------------------------------------------------------------------
(* oz_knl_event_increfc (event, -1) *)

Release(u) ==
  /\ User(u, "free", IF refcount = 1 THEN "clear" ELSE "gone")
  /\ refcount' = refcount - 1
  /\ UNCHANGED <<timer, interval, timerstate, queued, freed, sets, wanted, expirer, crashed>>

(* "in case timer ast is about to run" *)
ClearInterval(u) ==
  /\ User(u, "clear", "look")
  /\ interval' = 0
  /\ UNCHANGED <<timer, timerstate, queued, refcount, freed, sets, wanted, expirer, crashed>>

(* The switch at timer_again: free the timer, if there is one and it can   *)
(* be taken out of the queue, and the event flag.                          *)
FreeOrKill(u) ==
  /\ \/ /\ timerstate \in {"dead", "idle"} \/ (timerstate = "qued" /\ queued)
        /\ User(u, "look", "gone")
        /\ freed' = freed + 1
        /\ queued' = FALSE
        /\ UNCHANGED crashed
     \/ /\ timerstate = "qued" /\ ~queued
        /\ User(u, "look", "kill")
        /\ UNCHANGED <<freed, queued, crashed>>
     \/ /\ timerstate = "kill"
        /\ User(u, "look", "look")
        /\ crashed' = "state"
        /\ UNCHANGED <<freed, queued>>
  /\ UNCHANGED <<timer, interval, timerstate, refcount, sets, wanted, expirer>>

(* "otherwise, tell timer ast to do it", unless it has just gone idle *)
Kill(u) ==
  /\ User(u, "kill", IF timerstate = "qued" THEN "gone" ELSE "look")
  /\ timerstate' = IF timerstate = "qued" THEN "kill" ELSE timerstate
  /\ UNCHANGED <<timer, interval, queued, refcount, freed, sets, wanted, expirer, crashed>>

-----------------------------------------------------------------------------
(* event_timer *)

Expire(c) ==
  /\ queued /\ Expirer(c, "out", "look")
  /\ queued' = FALSE
  /\ UNCHANGED <<timer, interval, timerstate, refcount, freed, sets, user, wanted, crashed>>

(* Mutant of Look: a killed flag is not freed. *)
LookNotFree(c) ==
  /\ Expirer(c, "look", IF timerstate = "qued" THEN "test" ELSE "out")
  /\ crashed' = IF timerstate \in {"qued", "kill"} THEN crashed ELSE "state"
  /\ UNCHANGED <<timer, interval, timerstate, queued, refcount, freed, sets, user, wanted>>

(* The switch on the timer state, which must be QUED or KILL *)
Look(c) ==
  /\ Expirer(c, "look", IF timerstate = "qued" THEN "test" ELSE "out")
  /\ freed' = IF timerstate = "kill" THEN freed + 1 ELSE freed
  /\ crashed' = IF timerstate \in {"qued", "kill"} THEN crashed ELSE "state"
  /\ UNCHANGED <<timer, interval, timerstate, queued, refcount, sets, user, wanted>>

TestInterval(c) ==
  /\ Expirer(c, "test", IF interval # 0 THEN "divide" ELSE "stop")
  /\ UNCHANGED <<timer, interval, timerstate, queued, refcount, freed, sets, user, wanted,
                 crashed>>

(* The flag is incremented by the intervals that have elapsed. *)
Divide(c) ==
  /\ Expirer(c, "divide", "insert")
  /\ crashed' = IF interval = 0 THEN "divide" ELSE crashed
  /\ UNCHANGED <<timer, interval, timerstate, queued, refcount, freed, sets, user, wanted>>

InsertAgain(c) ==
  /\ Expirer(c, "insert", "out")
  /\ queued' = TRUE
  /\ UNCHANGED <<timer, interval, timerstate, refcount, freed, sets, user, wanted, crashed>>

(* Mutant of Stop: the timer state is left alone. *)
StopQuietly(c) ==
  /\ Expirer(c, "stop", "out")
  /\ UNCHANGED <<timer, interval, timerstate, queued, refcount, freed, sets, user, wanted,
                 crashed>>

(* The interval is off: go idle, unless the flag has just been killed. *)
Stop(c) ==
  /\ Expirer(c, "stop", IF timerstate = "qued" THEN "out" ELSE "look")
  /\ timerstate' = IF timerstate = "qued" THEN "idle" ELSE timerstate
  /\ UNCHANGED <<timer, interval, queued, refcount, freed, sets, user, wanted, crashed>>

-----------------------------------------------------------------------------
Setting(u) == Set(u) \/ SaveInterval(u) \/ SetState(u) \/ InsertTimer(u)

Releasing(u) == ClearInterval(u) \/ FreeOrKill(u) \/ Kill(u)

Expired(c) == Look(c) \/ TestInterval(c) \/ Divide(c) \/ InsertAgain(c) \/ Stop(c)

IntervalNext ==
  \/ \E u \in Users : Setting(u) \/ Release(u) \/ Releasing(u)
  \/ \E c \in Expirers : Expire(c) \/ Expired(c)

IntervalSpec == IntervalInit /\ [][IntervalNext]_intervalVars

(* A thread that is dropping the last reference goes on, as does           *)
(* event_timer, and a timer expires in the end.                            *)
IntervalFairness ==
  /\ \A u \in Users : WF_intervalVars(Releasing(u))
  /\ \A c \in Expirers : WF_intervalVars(Expired(c))
  /\ WF_intervalVars(\E c \in Expirers : Expire(c))

IntervalFairSpec == IntervalSpec /\ IntervalFairness

-----------------------------------------------------------------------------
(* Properties *)

(* Neither event_timer nor the timer queue uses the flag or its timer once *)
(* they are freed.                                                         *)
FreedUnused == freed > 0 => ~queued /\ \A c \in Expirers : expirer[c] = "out"

(* While the state says that the timer is queued or that event_timer must  *)
(* free the flag, there is somebody to do it.                              *)
TimerHasOwner ==
  timerstate \in {"qued", "kill"} /\ freed = 0 =>
    queued \/ (\E c \in Expirers : expirer[c] # "out") \/ (\E u \in Users : user[u] = "insert")

(* The timer and its flag have one owner until they are freed, which is     *)
(* once, and nobody meets a timer state that he does not know.             *)
TimerOwned == FreedUnused /\ TimerHasOwner /\ freed <= 1 /\ crashed # "state"

(* A flag that nobody refers to is freed, and its timer too. *)
FreedInTheEnd == refcount = 0 ~> freed > 0 \/ crashed # "no"
=============================================================================
