--------------------------- MODULE TimerRequests ----------------------------
(* What timer requests promise those that make them: a request that is     *)
(* pending is either taken back or leads to one call of its routine, not   *)
(* before its time and not before an earlier one.  TimerQueue implements   *)
(* this.                                                                   *)
EXTENDS Naturals

CONSTANT Timers      \* the timer structs

VARIABLES
  now,               \* the date and time
  pending,           \* the timers that were inserted and are not due yet
  datebin,           \* when each is to expire
  running            \* how many calls of its routine have not returned yet

Init ==
  /\ now = 0
  /\ pending = {}
  /\ datebin = [t \in Timers |-> 0]
  /\ running = [t \in Timers |-> 0]

(* With any date and time, whether it is pending or not. *)
Insert(t) ==
  /\ pending' = pending \cup {t}
  /\ datebin'[t] \in Nat
  /\ datebin' = [datebin EXCEPT ![t] = datebin'[t]]
  /\ UNCHANGED running

Remove(ts) ==
  /\ ts \subseteq pending
  /\ pending' = pending \ ts
  /\ UNCHANGED <<datebin, running>>

Expire(t) ==
  /\ t \in pending /\ datebin[t] <= now'
  /\ \A u \in pending : datebin[t] <= datebin[u]
  /\ pending' = pending \ {t}
  /\ running' = [running EXCEPT ![t] = @ + 1]
  /\ UNCHANGED datebin

Return(t) ==
  /\ running[t] > 0
  /\ running' = [running EXCEPT ![t] = @ - 1]
  /\ UNCHANGED <<pending, datebin>>

TimePasses == UNCHANGED <<pending, datebin, running>>

Next ==
  /\ now' \in Nat /\ now' >= now
  /\ \/ \E t \in Timers : Insert(t) \/ Expire(t) \/ Return(t)
     \/ \E ts \in SUBSET Timers : Remove(ts)
     \/ TimePasses

Spec == Init /\ [][Next]_<<now, pending, datebin, running>>
=============================================================================
