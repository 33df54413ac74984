----------------------------- MODULE TimerQueue -----------------------------
(***************************************************************************)
(* The timer queue and the timer device (oz_dev_timer.c) on the hardware   *)
(* timer of a PC (oz_hw_timer_486.s): requests sorted by time, one         *)
(* hardware timer set for the first of them, and one lowipl struct with    *)
(* which the interrupt routine calls timer_call at softint level.          *)
(*                                                                         *)
(* Everything done between getting and releasing smplock_tm is one step.   *)
(* Insert and remove are called from anywhere, by the timers' own routines *)
(* too; that a timer's struct may be freed is not modelled.                *)
(***************************************************************************)
EXTENDS Integers, SequencesExt

CONSTANTS Timers,     \* the timer structs
          IoTimers,   \* those in i/o requests, all on one channel
          Callers,    \* where timer_call can run at a time: cpus, and threads whose
                      \* completion routine waits
          Delays,     \* how far ahead of now requests are made
          MaxTime,    \* bound on the clock
          None        \* no timer

ASSUME TimersAssumption ==
  /\ IsFiniteSet(Timers) /\ IoTimers \subseteq Timers /\ None \notin Timers
  /\ Timers \cap {"out", "loop"} = {}
ASSUME CallersAssumption == IsFiniteSet(Callers)
ASSUME TimesAssumption == Delays \subseteq Nat /\ MaxTime \in Nat

VARIABLES
  now,       \* oz_hw_tod_getnow
  datebin,   \* timer -> datebin
  queue,     \* alltimers; timer -> next = timer for a timer that is not in it
  spare,     \* timer_lowipl # NULL
  calls,     \* how often the lowipl struct is on oz_knl_lowipl_lowipls
  armed,     \* timer_event while the PIT is counting, else Never
  calling,   \* where each timer_call is: not running, in its loop, or in the
             \* completion routine of a timer
  holding,   \* whether its lowipl # NULL
  ioqueue    \* the timers whose Iopex is on chnex -> queue

vars == <<now, datebin, queue, spare, calls, armed, calling, holding, ioqueue>>

-----------------------------------------------------------------------------
Times == 0 .. MaxTime

Never == MaxTime + 1

TypeOK ==
  /\ now \in Times
  /\ datebin \in [Timers -> Times]
  /\ queue \in Seq(Timers) /\ IsInjective(queue)
  /\ spare \in BOOLEAN
  /\ calls \in 0 .. 1
  /\ armed \in Times \cup {Never}
  /\ calling \in [Callers -> Timers \cup {"out", "loop"}]
  /\ holding \in [Callers -> BOOLEAN]
  /\ ioqueue \in SUBSET IoTimers

Init ==
  /\ now = 0
  /\ datebin = [t \in Timers |-> 0]
  /\ queue = <<>>
  /\ spare = TRUE
  /\ calls = 0
  /\ armed = Never
  /\ calling = [c \in Callers |-> "out"]
  /\ holding = [c \in Callers |-> FALSE]
  /\ ioqueue = {}

Queued(t) == \E i \in 1 .. Len(queue) : queue[i] = t

Called(t) == \E c \in Callers : calling[c] = t

-----------------------------------------------------------------------------
(* The hardware timer.  The clock may go on between two reads of it. *)

Later == {t \in Times : t = now \/ t = now + 1}

(* oz_knl_timer_timeisup, for a given value of timer_lowipl # NULL *)
TimeIsUp(free) ==
  /\ spare' = FALSE
  /\ calls' = calls + (IF free THEN 1 ELSE 0)

(* oz_hw_timer_setevent: a time that has come is dealt with at once, and   *)
(* leaves the PIT as it is.                                                *)
SetEvent(when, free) ==
  \E later \in Later :
    /\ now' = later
    /\ \/ /\ when > later
          /\ armed' = when
          /\ spare' = free
          /\ UNCHANGED calls
       \/ /\ when <= later
          /\ armed' = IF armed = Never THEN Never ELSE when
          /\ TimeIsUp(free)

(* timer_interrupt, when timer_event has come *)
Interrupt ==
  /\ armed <= now
  /\ armed' = Never
  /\ TimeIsUp(spare)
  /\ UNCHANGED <<now, datebin, queue, calling, holding, ioqueue>>

Tick ==
  /\ now < MaxTime
  /\ now' = now + 1
  /\ UNCHANGED <<datebin, queue, spare, calls, armed, calling, holding, ioqueue>>

-----------------------------------------------------------------------------
(* oz_knl_timer_insert, oz_knl_timer_remove *)

(* Mutant of GoesAt: at the end, whatever the time. *)
GoesLast(q, i, when) == i = Len(q) + 1

(* A request of time when goes to place i of q: before the first that is   *)
(* after it.                                                               *)
GoesAt(q, i, when) ==
  /\ \A j \in 1 .. i - 1 : datebin[q[j]] <= when
  /\ i <= Len(q) => datebin[q[i]] > when

Insert(t) ==
  LET rest == RemoveFirst(queue, t) IN
  \E when \in {now + d : d \in Delays} \cap Times, i \in 1 .. Len(rest) + 1 :
    /\ GoesAt(rest, i, when)
    /\ datebin' = [datebin EXCEPT ![t] = when]
    /\ queue' = InsertAt(rest, i, t)
    /\ IF i = 1 THEN SetEvent(when, spare) ELSE UNCHANGED <<now, spare, calls, armed>>
    /\ UNCHANGED <<calling, holding>>

KnlInsert(t) ==
  /\ t \notin IoTimers
  /\ Insert(t)
  /\ UNCHANGED ioqueue

KnlRemove(t) ==
  /\ t \notin IoTimers /\ Queued(t)
  /\ queue' = RemoveFirst(queue, t)
  /\ UNCHANGED <<now, datebin, spare, calls, armed, calling, holding, ioqueue>>

-----------------------------------------------------------------------------
(* timer_call *)

(* oz_knl_lowipl_handleint calls it. *)
Enter(c) ==
  /\ calls > 0 /\ calling[c] = "out"
  /\ calls' = calls - 1
  /\ calling' = [calling EXCEPT ![c] = "loop"]
  /\ holding' = [holding EXCEPT ![c] = TRUE]
  /\ UNCHANGED <<now, datebin, queue, spare, armed, ioqueue>>

Due == queue # <<>> /\ datebin[Head(queue)] <= now

(* Mutants of Dispose: the struct is not given back while the next is      *)
(* awaited, or not before the hardware timer is set.                       *)
DisposeForgets(rest) ==
  IF rest # <<>> /\ datebin[Head(rest)] > now
    THEN /\ SetEvent(datebin[Head(rest)], FALSE)
    ELSE /\ spare' = TRUE
         /\ UNCHANGED <<now, calls, armed>>

DisposeSwapped(rest) ==
  \/ /\ rest = <<>>
     /\ spare' = TRUE
     /\ UNCHANGED <<now, calls, armed>>
  \/ /\ rest # <<>> /\ datebin[Head(rest)] <= now
     /\ calls' = calls + 1
     /\ UNCHANGED <<now, spare, armed>>
  \/ /\ rest # <<>> /\ datebin[Head(rest)] > now
     /\ \E later \in Later : now' = later /\ armed' = IF datebin[Head(rest)] > later
                                                      THEN datebin[Head(rest)] ELSE armed
     /\ spare' = TRUE
     /\ UNCHANGED calls

(* What becomes of the lowipl struct once the first request is unlinked:   *)
(* nobody waits for the time, or the next has come too, or it is awaited.  *)
Dispose(rest) ==
  \/ /\ rest = <<>>
     /\ spare' = TRUE
     /\ UNCHANGED <<now, calls, armed>>
  \/ /\ rest # <<>> /\ datebin[Head(rest)] <= now
     /\ calls' = calls + 1
     /\ UNCHANGED <<now, spare, armed>>
  \/ /\ rest # <<>> /\ datebin[Head(rest)] > now
     /\ SetEvent(datebin[Head(rest)], TRUE)

(* The first request has come: unlink it and call its routine. *)
Call(c) ==
  /\ calling[c] = "loop" /\ Due
  /\ queue' = Tail(queue)
  /\ calling' = [calling EXCEPT ![c] = Head(queue)]
  /\ holding' = [holding EXCEPT ![c] = FALSE]
  /\ IF holding[c] THEN Dispose(Tail(queue)) ELSE UNCHANGED <<now, spare, calls, armed>>
  /\ UNCHANGED <<datebin, ioqueue>>

(* Mutant of Leave: the hardware timer is not set for the next request. *)
LeaveUnset(c) ==
  /\ calling[c] = "loop" /\ ~Due
  /\ calling' = [calling EXCEPT ![c] = "out"]
  /\ holding' = [holding EXCEPT ![c] = FALSE]
  /\ spare' = (spare \/ holding[c])
  /\ UNCHANGED <<now, calls, armed, datebin, queue, ioqueue>>

(* None has: give the lowipl struct back and set the hardware timer. *)
Leave(c) ==
  /\ calling[c] = "loop" /\ ~Due
  /\ calling' = [calling EXCEPT ![c] = "out"]
  /\ holding' = [holding EXCEPT ![c] = FALSE]
  /\ \/ /\ holding[c] /\ queue # <<>>
        /\ SetEvent(datebin[Head(queue)], TRUE)
     \/ /\ holding[c] /\ queue = <<>>
        /\ spare' = TRUE
        /\ UNCHANGED <<now, calls, armed>>
     \/ /\ ~holding[c]
        /\ UNCHANGED <<now, spare, calls, armed>>
  /\ UNCHANGED <<datebin, queue, ioqueue>>

(* A completion routine returns; iotimerisup unlinks the i/o request from  *)
(* its channel and completes it.                                           *)
Return(c) ==
  /\ calling[c] \in Timers
  /\ calling' = [calling EXCEPT ![c] = "loop"]
  /\ ioqueue' = ioqueue \ {calling[c]}
  /\ UNCHANGED <<now, datebin, queue, spare, calls, armed, holding>>

-----------------------------------------------------------------------------
(* The timer device *)

(* OZ_IO_TIMER_WAITUNTIL, in an i/o request that is not in use *)
IoStart(t) ==
  /\ t \in IoTimers \ ioqueue
  /\ Insert(t)
  /\ ioqueue' = ioqueue \cup {t}

(* The queue without ts: a set with one element, in which the others are   *)
(* as they were before and after each other.                               *)
Without(ts) ==
  LET left == {i \in 1 .. Len(queue) : queue[i] \notin ts}
      Ordered(f) == \A i, j \in DOMAIN f : i < j => f[i] < f[j]
  IN  {[i \in DOMAIN f |-> queue[f[i]]] :
         f \in {g \in Bijection(1 .. Cardinality(left), left) : Ordered(g)}}

(* Mutant of IoAbort: what oz_knl_timer_remove says is ignored. *)
IoAbortAll ==
  \E ts \in SUBSET ioqueue :
    /\ ts # {}
    /\ queue' \in Without(ts)
    /\ ioqueue' = ioqueue \ ts
    /\ UNCHANGED <<now, datebin, spare, calls, armed, calling, holding>>

(* oz_dev_timer_abort: of the requests that oz_knl_ioabortok selects,      *)
(* those whose timer could be removed are unlinked and completed.          *)
IoAbort ==
  \E ts \in SUBSET {t \in ioqueue : Queued(t)} :
    /\ ts # {}
    /\ queue' \in Without(ts)
    /\ ioqueue' = ioqueue \ ts
    /\ UNCHANGED <<now, datebin, spare, calls, armed, calling, holding>>

-----------------------------------------------------------------------------
Next ==
  \/ Interrupt \/ Tick \/ IoAbort
  \/ \E t \in Timers : KnlInsert(t) \/ KnlRemove(t) \/ IoStart(t)
  \/ \E c \in Callers : Enter(c) \/ Call(c) \/ Leave(c) \/ Return(c)

Spec == Init /\ [][Next]_vars

(* The hardware interrupts, some cpu answers the software interrupt of     *)
(* lowipl_call, timer_call goes on and completion routines return.         *)
Fairness ==
  /\ WF_vars(Interrupt)
  /\ WF_vars(\E c \in Callers : Enter(c))
  /\ \A c \in Callers : WF_vars(Call(c) \/ Leave(c)) /\ WF_vars(Return(c))

FairSpec == Spec /\ Fairness

-----------------------------------------------------------------------------
(* Properties *)

(* The one lowipl struct is in one place: in timer_lowipl, on the list of  *)
(* calls, or with one timer_call.  Were it put on the list while it is     *)
(* there, the list would be broken; were it lost, no timer would expire.   *)
LowiplOnce ==
  (IF spare THEN 1 ELSE 0) + calls + Cardinality({c \in Callers : holding[c]}) = 1

(* A queue of requests is never left alone: the hardware timer is set for  *)
(* the first or an earlier time, or a timer_call that will look is on its  *)
(* way.                                                                    *)
AlarmSet ==
  queue # <<>> /\ spare => armed <= datebin[Head(queue)]

(* An i/o request of the device is completed once, by oz_dev_timer_abort   *)
(* or by iotimerisup: as long as it is on its channel's queue its timer is *)
(* queued or its routine is being called, and not both, and once it is off *)
(* neither is.                                                             *)
IoCompletedOnce ==
  \A t \in IoTimers :
    /\ Queued(t) => t \in ioqueue /\ ~Called(t)
    /\ t \in ioqueue => Queued(t) \/ Called(t)
    /\ Called(t) => t \in ioqueue /\ \A c, d \in Callers : calling[c] = t /\ calling[d] = t => c = d

(* "callback will happen at or just after given datebin", unless the       *)
(* request is aborted: stated for the i/o requests, as others may be       *)
(* inserted again and again behind those of the same time.                 *)
DueServed ==
  \A t \in IoTimers : (Queued(t) /\ datebin[t] <= now) ~> ~Queued(t)

Abstract == INSTANCE TimerRequests WITH
  pending <- Range(queue),
  running <- [t \in Timers |-> Cardinality({c \in Callers : calling[c] = t})]

(* Requests are called in the order of their times and none too early,     *)
(* none twice and none after it was removed.                               *)
ImplementsTimerRequests == Abstract!Spec
=============================================================================
