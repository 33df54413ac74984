----------------------------- MODULE Scheduler ------------------------------
(***************************************************************************)
(* The scheduler of oz_knl_thread.c: threads change hands between cpus, the *)
(* com queue and event waits, run their quantum, and are interrupted by     *)
(* asts (normal kernel ones).                                              *)
(*                                                                         *)
(* A step is what is done under the smplock_tp of a thread, with what is    *)
(* done under smplock_tc inside.  Two routines span more than a step: a cpu *)
(* that leaves a thread holds its lock until it has the stack of the next   *)
(* one (Take, Unload, Load), and setcurprio changes the priority before it  *)
(* locks the queue, and locks it twice (SetCurPrio, Unqueue, Requeue).      *)
(* What is done under the smplock_ev of an event flag is two steps where    *)
(* the other side looks without that lock: the test of the flag and the     *)
(* linking of the thread are, and so are a setter's look and its walk.      *)
(***************************************************************************)
EXTENDS Integers, SequencesExt

CONSTANTS
  Threads, Cpus,
  None,       \* no cpu, no thread
  Base,       \* basepri of each thread; 0 only for idle threads
  MaxAsts,    \* bound on the asts that wait for a thread
  Sleepers,   \* threads that wait for their event flag
  Targets,    \* threads asts are queued to
  Inhibitors, \* threads that inhibit and enable asts
  Reniced,    \* threads whose priority is set by others,
  NewPrios,   \* and the priorities they are given
  Mortals     \* threads that exit

ASSUME ParamAssumption ==
  /\ None \notin Threads \cup Cpus
  /\ IsFiniteSet(Threads) /\ IsFiniteSet(Cpus)
  /\ Base \in [Threads -> Nat] /\ MaxAsts \in Nat /\ NewPrios \subseteq Nat
  /\ UNION {Sleepers, Targets, Inhibitors, Reniced, Mortals} \subseteq Threads

VARIABLES
  state, cpuidx, curprio,      \* of each thread
  threadqcom,                  \* the com queue
  curthreads, curprios,        \* of each cpu
  resched,      \* cpus with a reschedule interrupt pending
  quantum,      \* cpus whose quantum timer runs
  expired,      \* threads that have used up their quantum
  nthread,      \* cpu: thread it took from the com queue, not loaded yet
  handlingint,  \* of each thread
  pos,          \* thread: where its own code is
  flag,         \* thread: the event flag it waits for
  setter,       \* thread: who sets that flag (one at a time), in oz_knl_event_set
  asts,         \* thread: number of asts in its queue
  astmode,      \* thread: ENABLE or INHIBIT
  byhw,         \* threads whose asts the hardware layer is delivering
  renicing,     \* cpu: thread it sets the priority of, to be taken off the queue
  moving,       \* cpu: thread it sets the priority of, to be put on the queue again
  crashed       \* oz_crash was called

cpuVars == <<curthreads, nthread, cpuidx>>
astVars == <<asts, astmode, byhw>>
flagVars == <<flag, setter>>
timeVars == <<quantum, expired>>
setVars == <<renicing, moving, crashed>>
vars == <<state, curprio, threadqcom, cpuVars, curprios, resched, timeVars, handlingint,
          pos, flagVars, astVars, setVars>>

-----------------------------------------------------------------------------
(* Where the code of a thread is.  "run": softints enabled; "wev", "link",   *)
(* "chk": in oz_knl_event_waitlist before it waits, holding smplock_ev in    *)
(* "link"; "loop": in oz_knl_thread_wait; "ret": back from there, softints   *)
(* inhibited; "ast", "end": in checkknlastq.                                *)
Places == {"run", "wev", "link", "chk", "loop", "ret", "ast", "end"}

(* Where the setter of a flag is: about to look at its list, about to walk   *)
(* it; or out, and "late" if it looked when the thread had tested the flag   *)
(* and was not linked yet.                                                  *)
Setting == {"out", "look", "wake", "late"}

TypeOK ==
  /\ state \in [Threads -> {"RUN", "COM", "WEV", "ZOM"}]
  /\ cpuidx \in [Threads -> Cpus \cup {None}]
  /\ curprio \in [Threads -> Nat]
  /\ threadqcom \in Seq(Threads)
  /\ curthreads \in [Cpus -> Threads]
  /\ curprios \in [Cpus -> Nat]
  /\ resched \in SUBSET Cpus /\ quantum \in SUBSET Cpus
  /\ expired \in SUBSET Threads
  /\ nthread \in [Cpus -> Threads \cup {None}]
  /\ handlingint \in [Threads -> 0..2]
  /\ pos \in [Threads -> Places]
  /\ flag \in [Threads -> BOOLEAN]
  /\ setter \in [Threads -> Setting]
  /\ asts \in [Threads -> 0..MaxAsts]
  /\ astmode \in [Threads -> {"ENABLE", "INHIBIT"}]
  /\ byhw \in SUBSET Threads
  /\ renicing \in [Cpus -> Threads \cup {None}]
  /\ moving \in [Cpus -> Threads \cup {None}]
  /\ crashed \in BOOLEAN

(* The queue q is in the order of priorities, the highest first. *)
Sorted(q, prio) == \A i, j \in 1..Len(q) : i < j => prio[q[i]] >= prio[q[j]]

(* The set S in a queue *)
Queues(S) == Bijection(1..Cardinality(S), S)

(* Every cpu runs a thread; the others were interrupted and want a cpu. *)
Init ==
  \E on \in Injection(Cpus, Threads) :
    /\ curthreads = on
    /\ threadqcom \in {q \in Queues(Threads \ Range(on)) : Sorted(q, Base)}
    /\ state = [t \in Threads |-> IF t \in Range(on) THEN "RUN" ELSE "COM"]
    /\ cpuidx = [t \in Threads |-> IF t \in Range(on) THEN Inverse(on, Cpus, Threads)[t]
                                                      ELSE None]
    /\ handlingint = [t \in Threads |-> IF t \in Range(on) THEN 0 ELSE 1]
    /\ curprio = Base /\ curprios = [c \in Cpus |-> Base[on[c]]]
    /\ resched = {} /\ quantum = {c \in Cpus : Base[on[c]] > 0} /\ expired = {}
    /\ nthread = [c \in Cpus |-> None]
    /\ pos = [t \in Threads |-> "run"]
    /\ flag = [t \in Threads |-> FALSE]
    /\ setter = [t \in Threads |-> "out"]
    /\ asts = [t \in Threads |-> 0]
    /\ astmode = [t \in Threads |-> "ENABLE"]
    /\ byhw = {} /\ crashed = FALSE
    /\ renicing = [c \in Cpus |-> None] /\ moving = [c \in Cpus |-> None]

-----------------------------------------------------------------------------
(* A cpu holds the lock of the thread it leaves until the next stack is in. *)
Leaving(c) == nthread[c] # None /\ cpuidx[curthreads[c]] = c

Locked(t) == \E c \in Cpus : t \in {renicing[c], moving[c]} \/ (curthreads[c] = t /\ Leaving(c))

Deliverable(t) == asts[t] > 0 /\ astmode[t] = "ENABLE"

(* The thread of cpu c, when the cpu has no lock. *)
Executes(c, t) == curthreads[c] = t /\ {nthread[c], renicing[c], moving[c]} = {None} /\ ~crashed

(* The cpu is in the wait loop of oz_knl_thread_wait. *)
Waits(c, t) == Executes(c, t) /\ (handlingint[t] > 0 \/ pos[t] = "loop")

(* The cpu executes the thread's own code, which is at p. *)
At(c, t, p) == Executes(c, t) /\ handlingint[t] = 0 /\ pos[t] = p

(* Softints are delivered. *)
Softints(c, t) == Executes(c, t) /\ (handlingint[t] > 0 \/ pos[t] \in {"run", "ast", "end", "loop"})

(* changestate to s, with priority p *)
ChangeState(t, s, p) ==
  /\ state' = [state EXCEPT ![t] = s]
  /\ curprio' = [curprio EXCEPT ![t] = p]
  /\ curprios' = IF s = state[t] \/ cpuidx[t] = None THEN curprios
                 ELSE [curprios EXCEPT ![cpuidx[t]] = IF s = "RUN" THEN p ELSE 0]

Raised(t, p) == IF p < Base[t] THEN p + (Base[t] - p) \div 3 + 1 ELSE p

(* The priority after a wait of up to two quanta. *)
Boosted(t) ==
  IF state[t] = "WEV" THEN LET q == Raised(t, curprio[t]) IN {curprio[t], q, Raised(t, q)}
                      ELSE {curprio[t]}

(* Mutant of Insert: at the end. *)
InsertLast(q, t, prio) == Append(q, t)

(* Before the first of lower priority. *)
Insert(q, t, prio) ==
  LET lower == {i \in 1..Len(q) : prio[q[i]] < prio[t]}
  IN  InsertAt(q, Min(lower \cup {Len(q) + 1}), t)

(* The cpus makecom may choose to interrupt for t, in round robin. *)
Victims(t) ==
  IF cpuidx[t] # None THEN {cpuidx[t]}
  ELSE {c \in Cpus : /\ curprios'[c] < curprio'[t]
                     /\ \A d \in Cpus : curprios'[c] <= curprios'[d]}

(* makecom on queue q.  Of the pending interrupts r, the cpu quiet is not   *)
(* interrupted again.                                                      *)
MakeCom(t, p, q, r, quiet) ==
  /\ ChangeState(t, "COM", p)
  /\ threadqcom' = Insert(q, t, curprio')
  /\ IF Head(threadqcom') = t /\ Victims(t) # {}
     THEN \E c \in Victims(t) : resched' = r \cup ({c} \ {quiet})
     ELSE resched' = r

(* Mutant of WakeWev: no look at the state. *)
WakeWevAgain(t) ==
  \E p \in Boosted(t) :
    IF cpuidx[t] # None THEN ChangeState(t, "RUN", p) /\ UNCHANGED <<threadqcom, resched>>
                        ELSE MakeCom(t, p, threadqcom, resched, None)

(* oz_knl_thread_wakewev *)
WakeWev(t) ==
  IF state[t] # "WEV" THEN UNCHANGED <<state, curprio, curprios, threadqcom, resched>>
  ELSE \E p \in Boosted(t) :
         IF cpuidx[t] # None THEN ChangeState(t, "RUN", p) /\ UNCHANGED <<threadqcom, resched>>
                             ELSE MakeCom(t, p, threadqcom, resched, None)

(* start_quantum, with the interrupts r pending *)
StartQuantum(c, t, r) ==
  /\ quantum' = IF Base[t] = 0 \/ t \in expired THEN quantum ELSE quantum \cup {c}
  /\ resched' = IF Base[t] > 0 /\ t \in expired THEN r \cup {c} ELSE r

(* Back in its own code, a thread executes the asts that are deliverable.  *)
Enter(t) ==
  IF Deliverable(t)
  THEN /\ pos' = [pos EXCEPT ![t] = "ast"] /\ byhw' = byhw \cup {t}
       /\ astmode' = [astmode EXCEPT ![t] = "INHIBIT"]
  ELSE /\ pos' = [pos EXCEPT ![t] = "run"] /\ UNCHANGED <<byhw, astmode>>

-----------------------------------------------------------------------------
(* oz_knl_event_waitlist on one event flag, with softints inhibited by a    *)
(* caller that enables them again (si = 1)                                 *)

WaitEvent(c, t) ==
  /\ t \in Sleepers /\ At(c, t, "run") /\ ~Locked(t)
  /\ ChangeState(t, "WEV", curprio[t])
  /\ pos' = [pos EXCEPT ![t] = "wev"]
  /\ UNCHANGED <<threadqcom, cpuVars, resched, timeVars, handlingint, flagVars, astVars, setVars>>

(* The thread is taken off the list: a look that came too early for it is    *)
(* of no consequence any more.                                              *)
Unlink(t) == setter' = [setter EXCEPT ![t] = IF @ = "late" THEN "out" ELSE @]

StayAwake(t) ==
  /\ \E p \in Boosted(t) : ChangeState(t, "RUN", p)
  /\ pos' = [pos EXCEPT ![t] = "ret"]
  /\ Unlink(t)

(* smplock_ev is taken, and released unless the thread is to be linked. *)
TestEvent(c, t) ==
  /\ At(c, t, "wev") /\ ~Locked(t)
  /\ IF flag[t] THEN StayAwake(t)
     ELSE pos' = [pos EXCEPT ![t] = "link"] /\ UNCHANGED <<state, curprio, curprios, setter>>
  /\ UNCHANGED <<threadqcom, cpuVars, resched, timeVars, handlingint, flag, astVars, setVars>>

LinkEvent(c, t) ==
  /\ At(c, t, "link")
  /\ pos' = [pos EXCEPT ![t] = "chk"]
  /\ UNCHANGED <<state, curprio, curprios, threadqcom, cpuVars, resched, timeVars, handlingint,
                 flagVars, astVars, setVars>>

(* Mutant of CheckAsts: no look at the asts. *)
CheckNothing(c, t) ==
  /\ At(c, t, "chk") /\ ~Locked(t)
  /\ pos' = [pos EXCEPT ![t] = "loop"] /\ UNCHANGED <<state, curprio, curprios, setter>>
  /\ UNCHANGED <<threadqcom, cpuVars, resched, timeVars, handlingint, flag, astVars, setVars>>

CheckAsts(c, t) ==
  /\ At(c, t, "chk") /\ ~Locked(t)
  /\ IF Deliverable(t) THEN StayAwake(t)
     ELSE pos' = [pos EXCEPT ![t] = "loop"] /\ UNCHANGED <<state, curprio, curprios, setter>>
  /\ UNCHANGED <<threadqcom, cpuVars, resched, timeVars, handlingint, flag, astVars, setVars>>

(* oz_knl_thread_wait comes to its end, and the event flag is unlinked.    *)
EndWait(c, t) ==
  /\ At(c, t, "loop") /\ state[t] = "RUN" /\ ~Locked(t)
  /\ StartQuantum(c, t, resched)
  /\ pos' = [pos EXCEPT ![t] = "ret"]
  /\ Unlink(t)
  /\ UNCHANGED <<state, curprio, curprios, threadqcom, cpuVars, expired, handlingint, flag,
                 astVars, setVars>>

(* oz_hw_cpu_setsoftint (1) *)
EnableSoftint(c, t) ==
  /\ At(c, t, "ret") /\ Enter(t)
  /\ UNCHANGED <<state, curprio, curprios, threadqcom, cpuVars, resched, timeVars, handlingint,
                 flagVars, asts, setVars>>

Linked(t) == pos[t] \in {"chk", "loop"} /\ state[t] # "ZOM"

(* oz_knl_event_set, by anyone: the value, then a look at the list, which is *)
(* not locked, ...                                                          *)
SetEvent(t) ==
  /\ t \in Sleepers /\ ~crashed /\ ~flag[t] /\ setter[t] = "out"
  /\ flag' = [flag EXCEPT ![t] = TRUE]
  /\ setter' = [setter EXCEPT ![t] = "look"]
  /\ UNCHANGED <<state, curprio, curprios, threadqcom, cpuVars, resched, timeVars, handlingint,
                 pos, astVars, setVars>>

(* Mutant of LookList: nobody is woken.                                     *)
LookAway(t) ==
  /\ ~crashed /\ setter[t] = "look"
  /\ setter' = [setter EXCEPT ![t] = IF pos[t] = "link" THEN "late" ELSE "out"]
  /\ UNCHANGED <<state, curprio, curprios, threadqcom, cpuVars, resched, timeVars, handlingint,
                 pos, flag, astVars, setVars>>

LookList(t) ==
  /\ ~crashed /\ setter[t] = "look"
  /\ setter' = [setter EXCEPT ![t] = IF Linked(t) THEN "wake"
                                     ELSE IF pos[t] = "link" THEN "late" ELSE "out"]
  /\ UNCHANGED <<state, curprio, curprios, threadqcom, cpuVars, resched, timeVars, handlingint,
                 pos, flag, astVars, setVars>>

(* ... and the walk in wakethreads, with smplock_ev locked: whoever is in    *)
(* the list by now is woken.                                                *)
WakeThread(t) ==
  /\ ~crashed /\ setter[t] = "wake" /\ pos[t] # "link"
  /\ setter' = [setter EXCEPT ![t] = "out"]
  /\ IF Linked(t) THEN ~Locked(t) /\ WakeWev(t)
     ELSE UNCHANGED <<state, curprio, curprios, threadqcom, resched>>
  /\ UNCHANGED <<cpuVars, timeVars, handlingint, pos, flag, astVars, setVars>>

ClearEvent(c, t) ==
  /\ At(c, t, "run") /\ flag[t]
  /\ flag' = [flag EXCEPT ![t] = FALSE]
  /\ UNCHANGED <<state, curprio, curprios, threadqcom, cpuVars, resched, timeVars, handlingint,
                 pos, setter, astVars, setVars>>

-----------------------------------------------------------------------------
(* oz_knl_thread_wait: the way to the next thread *)

(* Mutant of Top: it may have its context in some other cpu. *)
AnyTop(c) == threadqcom # <<>>

(* The first thread of the queue can be loaded into c. *)
Top(c) == threadqcom # <<>> /\ cpuidx[Head(threadqcom)] \in {None, c}

Take(c, t) ==
  /\ Waits(c, t) /\ ~Locked(t) /\ state[t] # "RUN" /\ Top(c)
  /\ threadqcom' = Tail(threadqcom)
  /\ IF Head(threadqcom) = t
     THEN ChangeState(t, "RUN", curprio[t]) /\ UNCHANGED nthread
     ELSE /\ nthread' = [nthread EXCEPT ![c] = Head(threadqcom)]
          /\ UNCHANGED <<state, curprio, curprios>>
  /\ UNCHANGED <<cpuidx, curthreads, resched, timeVars, handlingint, pos, flagVars, astVars,
                 setVars>>

(* woken_part1 as far as the lock of the old thread *)
Unload(c) ==
  /\ Leaving(c) /\ ~crashed
  /\ cpuidx' = [cpuidx EXCEPT ![curthreads[c]] = None]
  /\ UNCHANGED <<state, curprio, curprios, threadqcom, curthreads, nthread, resched, timeVars,
                 handlingint, pos, flagVars, astVars, setVars>>

(* The rest of it.  changestate comes before cpuidx is set, and so leaves   *)
(* the cpu's curprios as it is.                                            *)
Load(c) ==
  LET n == nthread[c]
  IN  /\ n # None /\ ~Leaving(c) /\ ~Locked(n) /\ ~crashed
      /\ IF state[n] # "COM" \/ cpuidx[n] # None
         THEN crashed' = TRUE /\ UNCHANGED <<state, cpuVars, curprio, curprios>>
         ELSE /\ ChangeState(n, "RUN", curprio[n])
              /\ cpuidx' = [cpuidx EXCEPT ![n] = c]
              /\ curthreads' = [curthreads EXCEPT ![c] = n]
              /\ nthread' = [nthread EXCEPT ![c] = None]
              /\ UNCHANGED crashed
      /\ UNCHANGED <<threadqcom, resched, timeVars, handlingint, pos, flagVars, astVars, renicing,
                     moving>>

-----------------------------------------------------------------------------
(* oz_knl_thread_handleint.  When it is done and was called from the       *)
(* thread's own code, the hardware layer looks for asts.                   *)

Return(t) == IF pos[t] = "run" THEN Enter(t) ELSE UNCHANGED <<pos, byhw, astmode>>

(* Mutant of Better: only a higher priority. *)
BetterOnly(t, p, out) == threadqcom # <<>> /\ curprio[Head(threadqcom)] > p

(* Someone else should have the cpu of t, whose priority is p. *)
Better(t, p, out) ==
  /\ threadqcom # <<>>
  /\ LET top == curprio[Head(threadqcom)] IN top > p \/ (top = p /\ out)

HandleInt(c, t) ==
  LET out == state[t] = "RUN" /\ t \in expired
      p == IF out /\ curprio[t] > 1 THEN curprio[t] - 1 ELSE curprio[t]
      go == Better(t, p, out)
  IN  /\ Softints(c, t) /\ ~Locked(t) /\ c \in resched
      /\ expired' = IF out THEN expired \ {t} ELSE expired
      /\ handlingint' = IF go THEN [handlingint EXCEPT ![t] = IF @ = 0 THEN 1 ELSE 2]
                        ELSE handlingint
      /\ IF go /\ handlingint[t] = 0 /\ state[t] = "RUN"
         THEN MakeCom(t, p, threadqcom, resched \ {c}, c)
         ELSE /\ threadqcom' = threadqcom /\ resched' = resched \ {c}
              /\ CASE state[t] = "RUN" ->
                        /\ state' = state /\ curprio' = [curprio EXCEPT ![t] = p]
                        /\ curprios' = [curprios EXCEPT ![c] = p]
                   [] state[t] = "WEV" /\ ~go /\ Deliverable(t) ->
                        \E q \in Boosted(t) : ChangeState(t, "RUN", q)
                   [] OTHER -> UNCHANGED <<state, curprio, curprios>>
      /\ IF go \/ handlingint[t] > 0 THEN UNCHANGED <<pos, byhw, astmode>> ELSE Return(t)
      /\ UNCHANGED <<cpuVars, quantum, flagVars, asts, setVars>>

(* Back from oz_knl_thread_wait; once more if interrupted meanwhile. *)
Resume(c, t) ==
  /\ Executes(c, t) /\ handlingint[t] > 0 /\ state[t] = "RUN" /\ ~Locked(t)
  /\ handlingint' = [handlingint EXCEPT ![t] = @ - 1]
  /\ UNCHANGED <<cpuVars, expired, flagVars, asts, setVars>>
  /\ IF handlingint[t] = 2
     THEN /\ MakeCom(t, curprio[t], threadqcom, resched, c)
          /\ UNCHANGED <<quantum, pos, byhw, astmode>>
     ELSE /\ StartQuantum(c, t, resched) /\ Return(t)
          /\ UNCHANGED <<state, curprio, curprios, threadqcom>>

(* The queue q once those of up, whose priority was raised, are merged with  *)
(* the others: from behind the last one put back, each goes past those that *)
(* are not lower.  from says where each was before.                        *)
Merged(q, up, prio) ==
  {[i \in DOMAIN q |-> q[from[i]]] : from \in {f \in Bijection(DOMAIN q, DOMAIN q) :
     LET Up(i) == q[f[i]] \in up
         p(i) == prio[q[f[i]]]
     IN  \A i, j \in DOMAIN q : i < j =>
           IF Up(i) <=> Up(j) THEN f[i] < f[j]
           ELSE (\A k \in i+1 .. j-1 : Up(k) <=> Up(i)) =>
                  IF Up(i) THEN p(i) > p(j) ELSE p(i) >= p(j)}}

(* oz_knl_thread_quantimex: the threads of up have been in COM too long    *)
Quantimex(c, t) ==
  /\ Softints(c, t) /\ c \in quantum
  /\ quantum' = quantum \ {c} /\ resched' = resched \cup {c}
  /\ expired' = IF state[t] = "RUN" THEN expired \cup {t} ELSE expired
  /\ \E up \in SUBSET {u \in Range(threadqcom) : curprio[u] < Base[u]} :
       /\ curprio' = [u \in Threads |-> IF u \in up THEN curprio[u] + 1 ELSE curprio[u]]
       /\ threadqcom' \in Merged(threadqcom, up, curprio')
  /\ UNCHANGED <<state, curprios, cpuVars, handlingint, pos, flagVars, astVars, setVars>>

-----------------------------------------------------------------------------
(* Asts *)

(* Mutant of QueueAst: a running thread is not interrupted. *)
QueueAstQuiet(t) ==
  /\ t \in Targets /\ ~crashed /\ ~Locked(t) /\ state[t] # "ZOM" /\ asts[t] < MaxAsts
  /\ asts' = [asts EXCEPT ![t] = @ + 1]
  /\ IF asts[t] = 0 /\ astmode[t] = "ENABLE" THEN WakeWev(t)
     ELSE UNCHANGED <<state, curprio, curprios, threadqcom, resched>>
  /\ UNCHANGED <<cpuVars, timeVars, handlingint, pos, flagVars, astmode, byhw, setVars>>

(* oz_knl_thread_queueast, by anyone *)
QueueAst(t) ==
  /\ t \in Targets /\ ~crashed /\ ~Locked(t) /\ state[t] # "ZOM" /\ asts[t] < MaxAsts
  /\ asts' = [asts EXCEPT ![t] = @ + 1]
  /\ IF asts[t] = 0 /\ astmode[t] = "ENABLE"
     THEN IF state[t] = "RUN"
          THEN resched' = resched \cup {cpuidx[t]}
               /\ UNCHANGED <<state, curprio, curprios, threadqcom>>
          ELSE WakeWev(t)
     ELSE UNCHANGED <<state, curprio, curprios, threadqcom, resched>>
  /\ UNCHANGED <<cpuVars, timeVars, handlingint, pos, flagVars, astmode, byhw, setVars>>

(* checkknlastq: call the asts one by one. *)
DeqAst(c, t) ==
  /\ At(c, t, "ast") /\ ~Locked(t)
  /\ IF asts[t] > 0 THEN asts' = [asts EXCEPT ![t] = @ - 1] /\ UNCHANGED pos
                    ELSE pos' = [pos EXCEPT ![t] = "end"] /\ UNCHANGED asts
  /\ UNCHANGED <<state, curprio, curprios, threadqcom, cpuVars, resched, timeVars, handlingint,
                 flagVars, astmode, byhw, setVars>>

(* None was left when it looked.  It looks again only if the caller had     *)
(* hardware interrupts inhibited.                                          *)
EndAsts(c, t) ==
  /\ At(c, t, "end")
  /\ IF t \in byhw /\ asts[t] > 0
     THEN pos' = [pos EXCEPT ![t] = "ast"] /\ UNCHANGED <<byhw, astmode>>
     ELSE /\ pos' = [pos EXCEPT ![t] = "run"]
          /\ byhw' = byhw \ {t} /\ astmode' = [astmode EXCEPT ![t] = "ENABLE"]
  /\ UNCHANGED <<state, curprio, curprios, threadqcom, cpuVars, resched, timeVars, handlingint,
                 flagVars, asts, setVars>>

(* oz_knl_thread_setast *)
SetAst(c, t) ==
  /\ t \in Inhibitors /\ At(c, t, "run")
  /\ IF astmode[t] = "INHIBIT" /\ asts[t] > 0
     THEN pos' = [pos EXCEPT ![t] = "ast"] /\ UNCHANGED astmode
     ELSE /\ astmode' = [astmode EXCEPT ![t] = IF @ = "ENABLE" THEN "INHIBIT" ELSE "ENABLE"]
          /\ UNCHANGED pos
  /\ UNCHANGED <<state, curprio, curprios, threadqcom, cpuVars, resched, timeVars, handlingint,
                 flagVars, asts, byhw, setVars>>

-----------------------------------------------------------------------------
(* oz_knl_thread_setcurprio of thread u, by thread t *)
SetCurPrio(c, t) ==
  /\ At(c, t, "run")
  /\ \E u \in Reniced, p \in NewPrios :
       /\ ~Locked(u)
       /\ curprio' = [curprio EXCEPT ![u] = p]
       /\ IF state[u] # "RUN" THEN UNCHANGED <<curprios, resched>>
          ELSE /\ curprios' = [curprios EXCEPT ![cpuidx[u]] = p]
               /\ resched' =
                    IF p < curprio[u] /\ threadqcom # <<>> /\ curprio[Head(threadqcom)] >= p
                    THEN resched \cup {cpuidx[u]} ELSE resched
       /\ renicing' = IF state[u] = "COM" THEN [renicing EXCEPT ![c] = u] ELSE renicing
  /\ UNCHANGED <<state, threadqcom, cpuVars, timeVars, handlingint, pos, flagVars, astVars, moving,
                 crashed>>

(* It is removed from the queue, where it is taken to be, ... *)
Unqueue(c) ==
  LET u == renicing[c]
  IN  /\ u # None /\ ~crashed
      /\ IF u \in Range(threadqcom)
         THEN /\ threadqcom' = RemoveFirst(threadqcom, u) /\ UNCHANGED crashed
              /\ renicing' = [renicing EXCEPT ![c] = None]
              /\ moving' = [moving EXCEPT ![c] = u]
         ELSE crashed' = TRUE /\ UNCHANGED <<threadqcom, renicing, moving>>
      /\ UNCHANGED <<state, curprio, curprios, cpuVars, resched, timeVars, handlingint, pos, flagVars,
                     astVars>>

(* ... and inserted again. *)
Requeue(c) ==
  LET u == moving[c]
  IN  /\ u # None /\ ~crashed
      /\ MakeCom(u, curprio[u], threadqcom, resched, None)
      /\ moving' = [moving EXCEPT ![c] = None]
      /\ UNCHANGED <<cpuVars, timeVars, handlingint, pos, flagVars, astVars, renicing, crashed>>

(* oz_knl_thread_exit, its end *)
Exit(c, t) ==
  /\ t \in Mortals /\ At(c, t, "run") /\ ~Locked(t)
  /\ asts' = [asts EXCEPT ![t] = 0]
  /\ ChangeState(t, "ZOM", curprio[t])
  /\ pos' = [pos EXCEPT ![t] = "loop"]
  /\ UNCHANGED <<threadqcom, cpuVars, resched, timeVars, handlingint, flagVars, astmode, byhw,
                 setVars>>

-----------------------------------------------------------------------------
(* What a cpu does by itself. *)
CpuStep(c) ==
  \/ \E t \in Threads : \/ TestEvent(c, t) \/ LinkEvent(c, t) \/ CheckAsts(c, t)
                        \/ EndWait(c, t) \/ EnableSoftint(c, t) \/ Take(c, t) \/ Resume(c, t)
                        \/ DeqAst(c, t) \/ EndAsts(c, t)
  \/ Unload(c) \/ Load(c) \/ Unqueue(c) \/ Requeue(c)

Interrupt(c) == \E t \in Threads : HandleInt(c, t)

Expire(c) == \E t \in Threads : Quantimex(c, t)

(* What the code of the threads decides to do. *)
Program(c, t) == WaitEvent(c, t) \/ ClearEvent(c, t) \/ SetAst(c, t)
                 \/ SetCurPrio(c, t) \/ Exit(c, t)

(* What a setter has begun. *)
Wakes(t) == LookList(t) \/ WakeThread(t)

Outside(t) == SetEvent(t) \/ Wakes(t) \/ QueueAst(t)

Next == \/ \E c \in Cpus : CpuStep(c) \/ Interrupt(c) \/ Expire(c)
        \/ \E c \in Cpus, t \in Threads : Program(c, t)
        \/ \E t \in Threads : Outside(t)

Spec == Init /\ [][Next]_vars

(* A cpu goes on, and so does a setter; an interrupt that stays pending is taken at some point   *)
(* when softints are delivered, and so is that of a quantum timer.         *)
Fairness == /\ \A c \in Cpus : /\ WF_vars(CpuStep(c))
                               /\ SF_vars(Interrupt(c)) /\ SF_vars(Expire(c))
            /\ \A t \in Threads : WF_vars(Wakes(t))

FairSpec == Spec /\ Fairness

-----------------------------------------------------------------------------
(* A thread is in one place.  The cpus and the threads agree on who is     *)
(* loaded where; whoever wants a cpu is in the com queue once, or with the  *)
(* one cpu that took it from there to run it or to put it elsewhere in the  *)
(* queue, and nobody else is.  Kept across the locks of two threads and     *)
(* that of the queue, none of which is held all the way.                   *)
OnePlace ==
  /\ \A t \in Threads : cpuidx[t] # None => curthreads[cpuidx[t]] = t
  /\ \A c \in Cpus : nthread[c] = None => cpuidx[curthreads[c]] = c
  /\ \A t \in Threads : state[t] = "RUN" => cpuidx[t] # None
  /\ IsInjective(threadqcom)
  /\ \A c, d \in Cpus : c # d => {nthread[c], moving[c]} \cap {nthread[d], moving[d]} \subseteq {None}
  /\ \A c \in Cpus : None \in {nthread[c], moving[c]}
  /\ \A t \in Threads :
       /\ state[t] = "COM" <=> t \in Range(threadqcom) \cup Range(nthread) \cup Range(moving)
       /\ t \in Range(threadqcom) => t \notin Range(nthread) \cup Range(moving)

(* The com queue is in the order of priorities, so that its first thread is *)
(* the one a cpu should go to.  Not so where priorities are set: setcurprio *)
(* changes that of a thread in the queue before it moves it, and if another *)
(* one is inserted in between, it may come to stand before one that is      *)
(* higher.                                                                 *)
QueueSorted == Reniced = {} => Sorted(threadqcom, curprio)

(* Nobody sleeps through what wakes him, whichever of the thread, the one   *)
(* who sets or queues, and an interrupt comes first: while a thread sleeps,  *)
(* no ast can be delivered to it; and if its event flag is set, the setter   *)
(* is on the way to wake it, or has looked at the list between the thread's  *)
(* test and its linking, which the code does not notice.                    *)
NobodySleepsOn == \A t \in Threads : state[t] = "WEV" /\ pos[t] = "loop" =>
                                       /\ ~Deliverable(t)
                                       /\ flag[t] => setter[t] # "out"

(* "thread interrupted to execute ast": while a thread executes its own    *)
(* code, an ast that can be delivered to it has an interrupt on the way.    *)
(* Not so for a thread that enables asts itself (oz_knl_thread_setast): an  *)
(* ast that is queued when checkknlastq has looked for the last time, and   *)
(* has not enabled asts yet, waits for the next interrupt.                 *)
AstInterrupts == \A t \in Threads \ Inhibitors :
                   pos[t] = "run" /\ handlingint[t] = 0 /\ Deliverable(t) => cpuidx[t] \in resched

(* None of the oz_crash of woken_part1 and setcurprio is reached.  Not so    *)
(* where priorities are set and there are several cpus: one of them may    *)
(* have taken the thread from the queue before setcurprio looks for it.    *)
NeverCrashes == ~crashed

(* "This will cause threads of equal priority to share the cpu": who wants  *)
(* a cpu gets one.  True of threads of one priority that only compute; not  *)
(* when one of them waits, as the quantum timer is started when a thread is *)
(* loaded, and expires once: if nobody else is in the com queue then,      *)
(* nothing interrupts the thread for those of its priority that come later. *)
NobodyStarves == \A t \in Threads : state[t] = "COM" ~> state[t] = "RUN"
=============================================================================
