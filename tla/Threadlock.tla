----------------------------- MODULE Threadlock -----------------------------
(***************************************************************************)
(* The kernel's thread locks (oz_knl_threadlock.c): a lock word changed    *)
(* only by compare-and-swap, and an event flag that is touched only when   *)
(* there is contention.  The lock word packs a reader count (READC), an    *)
(* exclusive bit (EXBIT) and a count of the threads that wait (WAITC).     *)
(*                                                                         *)
(* A step is one access to shared memory: the sample of the lock word, one *)
(* event set, one compare-and-swap, one critical section of the event      *)
(* flag's smplock.  The do ... while loops of the release routines retry   *)
(* until their compare-and-swap succeeds; each is the step in which it     *)
(* does.                                                                   *)
(*                                                                         *)
(* The event flag is oz_knl_event.c cut down to what a thread lock does    *)
(* with it (values 0 and 1, no callbacks, no high-ipl setter); EventFlag   *)
(* models all of it.                                                       *)
(***************************************************************************)
EXTENDS Naturals, FiniteSets

CONSTANTS Threads,    \* the threads that use the lock
          MaxReadc,   \* FLAG_M_READC, the most readers the word can count
          MaxWaitc    \* FLAG_M_WAITC / FLAG_V_WAITC, the most waiters it can count

ASSUME ThreadsAssumption == IsFiniteSet(Threads)
ASSUME MaxReadcAssumption == MaxReadc \in Nat \ {0}
ASSUME MaxWaitcAssumption == MaxWaitc \in Nat /\ Cardinality(Threads) <= MaxWaitc

VARIABLES
  flag,      \* the lock word
  evvalue,   \* threadlock -> event -> value
  evlist,    \* threadlock -> event -> eventlists: the threads linked to be woken
  state,     \* thread -> state, "RUN" or "WEV"
  pc,        \* where each thread is in the lock routines
  want,      \* the mode the routine a thread is in locks for
  oldflag,   \* the routine's local sample of the lock word
  waitinc,   \* the routine's local waitinc, in units of FLAG_V_WAITC
  holds      \* the mode each thread holds the lock in

vars == <<flag, evvalue, evlist, state, pc, want, oldflag, waitinc, holds>>

-----------------------------------------------------------------------------
Flags == [readc : 0 .. MaxReadc, exbit : BOOLEAN, waitc : Nat]

FreeFlag == [readc |-> 0, exbit |-> FALSE, waitc |-> 0]

Pcs == {"out", "sample", "clear", "saywait", "check", "link", "waiting",
        "take", "setev", "wake"}

TypeOK ==
  /\ flag \in Flags
  /\ evvalue \in {0, 1}
  /\ evlist \in SUBSET Threads
  /\ state \in [Threads -> {"RUN", "WEV"}]
  /\ pc \in [Threads -> Pcs]
  /\ want \in [Threads -> {"PR", "EX"}]
  /\ oldflag \in [Threads -> Flags]
  /\ waitinc \in [Threads -> {0, 1}]
  /\ holds \in [Threads -> {"NL", "PR", "EX"}]

(* oz_knl_threadlock_create *)
Init ==
  /\ flag = FreeFlag
  /\ evvalue = 0
  /\ evlist = {}
  /\ state = [t \in Threads |-> "RUN"]
  /\ pc = [t \in Threads |-> "out"]
  /\ want = [t \in Threads |-> "EX"]
  /\ oldflag = [t \in Threads |-> FreeFlag]
  /\ waitinc = [t \in Threads |-> 0]
  /\ holds = [t \in Threads |-> "NL"]

(* Mutant of InUse: a reader that does not look at EXBIT. *)
InUseReaderBlind(mode, f) ==
  IF mode = "EX" THEN f.exbit \/ f.readc # 0 ELSE f.readc = MaxReadc

(* The test for contention, which differs between the two routines. *)
InUse(mode, f) ==
  \/ f.exbit
  \/ mode = "EX" /\ f.readc # 0
  \/ mode = "PR" /\ f.readc = MaxReadc

(* The lock word with a reader added or the exclusive bit set, and this    *)
(* thread no longer counted as waiting.                                    *)
Taken(mode, f, w) ==
  [readc |-> IF mode = "PR" THEN f.readc + 1 ELSE f.readc,
   exbit |-> mode = "EX",
   waitc |-> f.waitc - w]

GoTo(t, label) == pc' = [pc EXCEPT ![t] = label]

(* The sample is not used again after the compare-and-swap. *)
Forget(t) == oldflag' = [oldflag EXCEPT ![t] = FreeFlag]

-----------------------------------------------------------------------------
(* oz_knl_threadlock_ex / oz_knl_threadlock_pr *)

Call(t, mode) ==
  /\ pc[t] = "out" /\ holds[t] = "NL"
  /\ want' = [want EXCEPT ![t] = mode]
  /\ waitinc' = [waitinc EXCEPT ![t] = 0]
  /\ GoTo(t, "sample")
  /\ UNCHANGED <<flag, evvalue, evlist, state, oldflag, holds>>

(* top: sample the lock word and see if it is in use *)
Sample(t) ==
  /\ pc[t] = "sample"
  /\ oldflag' = [oldflag EXCEPT ![t] = flag]
  /\ GoTo(t, IF InUse(want[t], flag) THEN "clear" ELSE "take")
  /\ UNCHANGED <<flag, evvalue, evlist, state, want, waitinc, holds>>

(* in use: clear the event flag ... *)
ClearEvent(t) ==
  /\ pc[t] = "clear"
  /\ evvalue' = 0
  /\ GoTo(t, "saywait")
  /\ UNCHANGED <<flag, evlist, state, want, oldflag, waitinc, holds>>

(* Mutants of SayWaiting: a thread that comes by again counts itself again;*)
(* the compare-and-swap is a plain store.                                  *)
SayWaitingTwice(t) ==
  /\ pc[t] = "saywait"
  /\ IF flag = oldflag[t]
       THEN /\ flag' = [flag EXCEPT !.waitc = @ + 1]
            /\ waitinc' = [waitinc EXCEPT ![t] = 1]
            /\ GoTo(t, "check")
       ELSE GoTo(t, "sample") /\ UNCHANGED <<flag, waitinc>>
  /\ Forget(t)
  /\ UNCHANGED <<evvalue, evlist, state, want, holds>>

SayWaitingAnyway(t) ==
  /\ pc[t] = "saywait"
  /\ flag' = [flag EXCEPT !.waitc = @ - waitinc[t] + 1]
  /\ waitinc' = [waitinc EXCEPT ![t] = 1]
  /\ GoTo(t, "check")
  /\ Forget(t)
  /\ UNCHANGED <<evvalue, evlist, state, want, holds>>

(* ... and say this thread is waiting, unless the lock word has changed *)
SayWaiting(t) ==
  /\ pc[t] = "saywait"
  /\ IF flag = oldflag[t]
       THEN /\ flag' = [flag EXCEPT !.waitc = @ - waitinc[t] + 1]
            /\ waitinc' = [waitinc EXCEPT ![t] = 1]
            /\ GoTo(t, "check")
       ELSE /\ GoTo(t, "sample")
            /\ UNCHANGED <<flag, waitinc>>
  /\ Forget(t)
  /\ UNCHANGED <<evvalue, evlist, state, want, holds>>

(* not in use: take it, unless the lock word has changed *)
Take(t) ==
  /\ pc[t] = "take"
  /\ IF flag = oldflag[t]
       THEN /\ flag' = Taken(want[t], flag, waitinc[t])
            /\ holds' = [holds EXCEPT ![t] = want[t]]
            /\ waitinc' = [waitinc EXCEPT ![t] = 0]
            /\ GoTo(t, "out")
       ELSE /\ GoTo(t, "sample")
            /\ UNCHANGED <<flag, holds, waitinc>>
  /\ Forget(t)
  /\ UNCHANGED <<evvalue, evlist, state, want>>

-----------------------------------------------------------------------------
(* oz_knl_event_waitone on the lock's event flag *)

(* Enter WEV state, lock smplock_ev and test the value ... *)
CheckEvent(t) ==
  /\ pc[t] = "check"
  /\ \A u \in Threads : pc[u] # "link"
  /\ IF evvalue > 0
       THEN GoTo(t, "sample") /\ UNCHANGED state
       ELSE GoTo(t, "link") /\ state' = [state EXCEPT ![t] = "WEV"]
  /\ UNCHANGED <<flag, evvalue, evlist, want, oldflag, waitinc, holds>>

(* ... and link to be woken, still holding smplock_ev. *)
LinkEvent(t) ==
  /\ pc[t] = "link"
  /\ evlist' = evlist \cup {t}
  /\ GoTo(t, "waiting")
  /\ UNCHANGED <<flag, evvalue, state, want, oldflag, waitinc, holds>>

(* oz_knl_thread_wait returns once the state is RUN; unlink, back to top *)
Woken(t) ==
  /\ pc[t] = "waiting" /\ state[t] = "RUN"
  /\ \A u \in Threads : pc[u] # "link"
  /\ evlist' = evlist \ {t}
  /\ GoTo(t, "sample")
  /\ UNCHANGED <<flag, evvalue, state, want, oldflag, waitinc, holds>>

(* An ast queued to a waiting thread wakes it too (oz_knl_thread_queueast).*)
AstWake(t) ==
  /\ state[t] = "WEV"
  /\ state' = [state EXCEPT ![t] = "RUN"]
  /\ UNCHANGED <<flag, evvalue, evlist, pc, want, oldflag, waitinc, holds>>

-----------------------------------------------------------------------------
(* The release routines.  oldflag<WAITC> says whether to set the event.    *)

(* Mutant of AfterRelease: the last waiter is overlooked. *)
AfterReleaseLate(t) == GoTo(t, IF flag.waitc > 1 THEN "setev" ELSE "out")

AfterRelease(t) == GoTo(t, IF flag.waitc # 0 THEN "setev" ELSE "out")

(* oz_knl_threadunlk_ex *)
UnlockEx(t) ==
  /\ pc[t] = "out" /\ holds[t] = "EX"
  /\ flag' = [flag EXCEPT !.exbit = FALSE]
  /\ holds' = [holds EXCEPT ![t] = "NL"]
  /\ AfterRelease(t)
  /\ UNCHANGED <<evvalue, evlist, state, want, oldflag, waitinc>>

(* oz_knl_threadunlk_pr *)
UnlockPr(t) ==
  /\ pc[t] = "out" /\ holds[t] = "PR"
  /\ flag' = [flag EXCEPT !.readc = @ - 1]
  /\ holds' = [holds EXCEPT ![t] = "NL"]
  /\ AfterRelease(t)
  /\ UNCHANGED <<evvalue, evlist, state, want, oldflag, waitinc>>

(* oz_knl_threadlock_ex_pr *)
ExToPr(t) ==
  /\ pc[t] = "out" /\ holds[t] = "EX"
  /\ flag' = [flag EXCEPT !.exbit = FALSE, !.readc = @ + 1]
  /\ holds' = [holds EXCEPT ![t] = "PR"]
  /\ AfterRelease(t)
  /\ UNCHANGED <<evvalue, evlist, state, want, oldflag, waitinc>>

(* oz_knl_event_set (event, 1): only a change from clear to set wakes *)
SetEvent(t) ==
  /\ pc[t] = "setev"
  /\ evvalue' = 1
  /\ GoTo(t, IF evvalue <= 0 THEN "wake" ELSE "out")
  /\ UNCHANGED <<flag, evlist, state, want, oldflag, waitinc, holds>>

(* The list is looked at without its lock: nothing linked, nothing to do.  *)
(* Otherwise wakethreads waits for smplock_ev and wakes all that are there.*)
WakeThreads(t) ==
  /\ pc[t] = "wake"
  /\ evlist = {} \/ \A u \in Threads : pc[u] # "link"
  /\ state' = [u \in Threads |-> IF u \in evlist THEN "RUN" ELSE state[u]]
  /\ GoTo(t, "out")
  /\ UNCHANGED <<flag, evvalue, evlist, want, oldflag, waitinc, holds>>

-----------------------------------------------------------------------------
Start(t) == \E mode \in {"PR", "EX"} : Call(t, mode)

Release(t) == UnlockEx(t) \/ UnlockPr(t) \/ ExToPr(t)

Run(t) ==
  \/ Sample(t) \/ ClearEvent(t) \/ SayWaiting(t) \/ Take(t)
  \/ CheckEvent(t) \/ LinkEvent(t) \/ Woken(t)
  \/ SetEvent(t) \/ WakeThreads(t)

Next == \E t \in Threads : Start(t) \/ Release(t) \/ Run(t) \/ AstWake(t)

Spec == Init /\ [][Next]_vars

(* A thread that is inside one of the routines is eventually given a cpu.  *)
(* Nothing is assumed about when the lock is asked for or released, nor    *)
(* about asts.                                                             *)
FairSpec == Spec /\ \A t \in Threads : WF_vars(Run(t))

-----------------------------------------------------------------------------
(* Properties *)

Holding(m) == {t \in Threads : holds[t] = m}

Free(f) == ~f.exbit /\ f.readc = 0

(* A thread that holds the lock in exclusive mode is alone with it, and    *)
(* the lock word never says less than what is held: "flag<EXBIT> making    *)
(* sure it and flag<READC> were both clear".                               *)
MutualExclusion ==
  \A t, u \in Threads : t # u /\ holds[t] = "EX" => holds[u] = "NL"

(* The lock word's three fields are what the threads hold and wait for:    *)
(* every reader is counted once and every waiter once, whatever compare-   *)
(* and-swaps failed in between.  A count left over would make every later  *)
(* release set the event flag, or block writers for good.                  *)
WordIsExact ==
  /\ flag.exbit <=> Holding("EX") # {}
  /\ flag.readc = Cardinality(Holding("PR"))
  /\ flag.waitc = Cardinality({t \in Threads : waitinc[t] = 1})

(* A thread that is certain to look at the lock word again by itself *)
InLoop(t) == pc[t] \in {"sample", "clear", "saywait", "take"}

(* No waiter is forgotten by the lock word: if the lock is free while      *)
(* threads are counted as waiting, the event flag is set, or a releasing   *)
(* thread is about to set it, or some thread is on its way to take the     *)
(* lock (and will find WAITC when it releases it).  The clearing of the    *)
(* event flag by a late comer is what could break this.                    *)
WakeOwed ==
  Free(flag) /\ flag.waitc # 0 =>
    \/ evvalue = 1
    \/ \E t \in Threads : pc[t] = "setev" \/ InLoop(t)

(* Every free lock that threads wait for gets its event flag set, or is    *)
(* taken again.                                                            *)
WakeDelivered == (Free(flag) /\ flag.waitc # 0) ~> (evvalue = 1 \/ ~Free(flag))

(* The abstract lock *)
Abstract == INSTANCE RWLock

(* Whoever uses a thread lock sees the abstract lock. *)
ImplementsRWLock == Abstract!Spec
=============================================================================
