-------------------------- MODULE SchedulerProofs ---------------------------
(***************************************************************************)
(* Proofs about the scheduler, for any threads, cpus, priorities and asts:  *)
(* no thread sleeps through its event flag or an ast; every thread is in    *)
(* one place, and the com queue in order; an ast interrupts.               *)
(*                                                                         *)
(* The first needs nothing of the others: the com queue, and what is loaded *)
(* where, are of no importance to it, as a step that has to do with them   *)
(* alone never puts a thread in an event wait.  The last builds on the     *)
(* second.                                                                 *)
(***************************************************************************)
EXTENDS Scheduler, QueueLemmas, WellFoundedInduction, FiniteSetTheorems

-----------------------------------------------------------------------------
(* I.  Nobody sleeps on.                                                   *)

(* What of the state the argument is about has its type. *)
Typed ==
  /\ state \in [Threads -> {"RUN", "COM", "WEV", "ZOM"}]
  /\ pos \in [Threads -> Places]
  /\ flag \in [Threads -> BOOLEAN]
  /\ setter \in [Threads -> Setting]
  /\ asts \in [Threads -> Nat]
  /\ astmode \in [Threads -> {"ENABLE", "INHIBIT"}]

(* From the test of the event flag on, it is not set while the thread is in *)
(* its wait, but by a setter that has still to look or to wake, or that has  *)
(* looked before the thread was linked.                                    *)
FlagSeen(t) ==
  state[t] = "WEV" /\ pos[t] \in {"link", "chk", "loop"} => (flag[t] => setter[t] # "out")

(* And from the look at the asts on, there is none to deliver. *)
AstsSeen(t) == state[t] = "WEV" /\ pos[t] = "loop" => ~Deliverable(t)

(* The inductive invariant. *)
IInv == Typed /\ \A t \in Threads : FlagSeen(t) /\ AstsSeen(t)

-----------------------------------------------------------------------------
(* No thread enters an event wait. *)
NobodyDozes == \A t \in Threads : state'[t] = "WEV" => state[t] = "WEV"

LEMMA ChangeStateWakes ==
  ASSUME Typed, NEW t, NEW s \in {"RUN", "COM", "ZOM"}, NEW p, ChangeState(t, s, p)
  PROVE  /\ state' \in [Threads -> {"RUN", "COM", "WEV", "ZOM"}]
         /\ NobodyDozes
         /\ t \in Threads => state'[t] = s
  BY DEF ChangeState, Typed, NobodyDozes

LEMMA WakeWevWakes ==
  ASSUME Typed, NEW t \in Threads, WakeWev(t)
  PROVE  /\ state' \in [Threads -> {"RUN", "COM", "WEV", "ZOM"}]
         /\ NobodyDozes
         /\ state'[t] # "WEV"
<1>1. CASE state[t] # "WEV"
  BY <1>1 DEF WakeWev, Typed, NobodyDozes
<1>2. CASE state[t] = "WEV"
  <2>1. PICK p \in Boosted(t) : ChangeState(t, "RUN", p) \/ ChangeState(t, "COM", p)
    BY <1>2 DEF WakeWev, MakeCom
  <2> QED
    BY <2>1, ChangeStateWakes
<1> QED
  BY <1>1, <1>2

(* A step that only moves threads between cpus and the com queue. *)
LEMMA MovesKeep ==
  ASSUME IInv, UNCHANGED <<pos, flagVars, asts, astmode>>, NobodyDozes,
         state' \in [Threads -> {"RUN", "COM", "WEV", "ZOM"}]
  PROVE  IInv'
<1>1. Typed'
  BY DEF IInv, Typed, flagVars
<1>2. \A t \in Threads : (FlagSeen(t) /\ AstsSeen(t))'
  BY DEF IInv, flagVars, FlagSeen, AstsSeen, Deliverable, NobodyDozes
<1> QED
  BY <1>1, <1>2 DEF IInv

(* The same of one thread t, which is not in its wait afterwards. *)
LEMMA OneMoves ==
  ASSUME IInv, Typed', NobodyDozes, NEW t \in Threads,
         \A u \in Threads \ {t} : /\ pos'[u] = pos[u]
                                  /\ flag'[u] = flag[u] /\ setter'[u] = setter[u]
                                  /\ asts'[u] = asts[u] /\ astmode'[u] = astmode[u],
         state'[t] # "WEV" \/ pos'[t] \notin {"link", "chk", "loop"}
  PROVE  IInv'
<1>1. \A u \in Threads \ {t} : (FlagSeen(u) /\ AstsSeen(u))'
  BY DEF IInv, FlagSeen, AstsSeen, Deliverable, NobodyDozes
<1>2. (FlagSeen(t) /\ AstsSeen(t))'
  BY DEF FlagSeen, AstsSeen
<1> QED
  BY <1>1, <1>2 DEF IInv

(* Back in its own code, a thread does not wait. *)
LEMMA EnterKeeps ==
  ASSUME IInv, NEW t \in Threads, Enter(t), UNCHANGED <<flagVars, asts>>, NobodyDozes,
         state' \in [Threads -> {"RUN", "COM", "WEV", "ZOM"}]
  PROVE  IInv'
<1>1. Typed'
  BY DEF IInv, Typed, Enter, Places, flagVars
<1>2. pos'[t] \in {"run", "ast"}
  BY DEF IInv, Typed, Enter
<1>3. \A u \in Threads \ {t} : pos'[u] = pos[u] /\ astmode'[u] = astmode[u]
  BY DEF IInv, Typed, Enter
<1> QED
  BY <1>1, <1>2, <1>3, OneMoves DEF flagVars

LEMMA ReturnKeeps ==
  ASSUME IInv, NEW t \in Threads, Return(t), UNCHANGED <<flagVars, asts>>, NobodyDozes,
         state' \in [Threads -> {"RUN", "COM", "WEV", "ZOM"}]
  PROVE  IInv'
<1>1. CASE pos[t] = "run"
  BY <1>1, EnterKeeps DEF Return
<1>2. CASE pos[t] # "run"
  BY <1>2, MovesKeep DEF Return
<1> QED
  BY <1>1, <1>2

LEMMA Still ==
  ASSUME Typed, UNCHANGED state
  PROVE  NobodyDozes /\ state' \in [Threads -> {"RUN", "COM", "WEV", "ZOM"}]
  BY DEF Typed, NobodyDozes

-----------------------------------------------------------------------------
(* The steps a thread takes on its way into a wait and out of it. *)

LEMMA UnlinkIs ==
  ASSUME Typed, NEW t \in Threads, Unlink(t)
  PROVE  /\ setter' \in [Threads -> Setting]
         /\ \A u \in Threads \ {t} : setter'[u] = setter[u]
  BY DEF Unlink, Typed, Setting

LEMMA StayAwakeKeeps ==
  ASSUME IInv, NEW t \in Threads, StayAwake(t), UNCHANGED <<flag, asts, astmode>>
  PROVE  IInv'
<1>1. PICK p : ChangeState(t, "RUN", p)
  BY DEF StayAwake
<1>2. /\ state' \in [Threads -> {"RUN", "COM", "WEV", "ZOM"}]
      /\ NobodyDozes
      /\ state'[t] # "WEV"
  BY <1>1, ChangeStateWakes DEF IInv
<1>3. /\ setter' \in [Threads -> Setting]
      /\ \A u \in Threads \ {t} : setter'[u] = setter[u]
  BY UnlinkIs DEF StayAwake, IInv
<1>4. Typed'
  BY <1>2, <1>3 DEF StayAwake, IInv, Typed, Places
<1> QED
  BY <1>2, <1>3, <1>4, OneMoves DEF StayAwake, IInv, Typed

LEMMA WaitEventKeeps ==
  ASSUME IInv, NEW c, NEW t \in Threads, WaitEvent(c, t)
  PROVE  IInv'
<1>1. Typed'
  BY DEF WaitEvent, ChangeState, astVars, flagVars, IInv, Typed, Places
<1>2. pos'[t] = "wev"
  BY DEF WaitEvent, IInv, Typed
<1>3. \A u \in Threads : (FlagSeen(u) /\ AstsSeen(u))'
  BY <1>2 DEF WaitEvent, ChangeState, astVars, flagVars, IInv, Typed, FlagSeen, AstsSeen,
              Deliverable
<1> QED
  BY <1>1, <1>3 DEF IInv

LEMMA TestEventKeeps ==
  ASSUME IInv, NEW c, NEW t \in Threads, TestEvent(c, t)
  PROVE  IInv'
<1>1. CASE flag[t]
  BY <1>1, StayAwakeKeeps DEF TestEvent, astVars
<1>2. CASE ~flag[t]
  <2>1. Typed'
    BY <1>2 DEF TestEvent, astVars, IInv, Typed, Places
  <2>2. pos'[t] = "link"
    BY <1>2 DEF TestEvent, IInv, Typed
  <2>3. \A u \in Threads : (FlagSeen(u) /\ AstsSeen(u))'
    BY <1>2, <2>2 DEF TestEvent, astVars, IInv, Typed, FlagSeen, AstsSeen, Deliverable
  <2> QED
    BY <2>1, <2>3 DEF IInv
<1> QED
  BY <1>1, <1>2

LEMMA LinkEventKeeps ==
  ASSUME IInv, NEW c, NEW t \in Threads, LinkEvent(c, t)
  PROVE  IInv'
<1>1. Typed'
  BY DEF LinkEvent, astVars, flagVars, IInv, Typed, Places
<1>2. pos[t] = "link" /\ pos'[t] = "chk"
  BY DEF LinkEvent, At, IInv, Typed
<1>3. \A u \in Threads : (FlagSeen(u) /\ AstsSeen(u))'
  BY <1>2 DEF LinkEvent, astVars, flagVars, IInv, Typed, FlagSeen, AstsSeen, Deliverable
<1> QED
  BY <1>1, <1>3 DEF IInv

LEMMA CheckAstsKeeps ==
  ASSUME IInv, NEW c, NEW t \in Threads, CheckAsts(c, t)
  PROVE  IInv'
<1>1. CASE Deliverable(t)
  BY <1>1, StayAwakeKeeps DEF CheckAsts, astVars
<1>2. CASE ~Deliverable(t)
  <2>1. Typed'
    BY <1>2 DEF CheckAsts, astVars, IInv, Typed, Places
  <2>2. FlagSeen(t)'
    BY <1>2 DEF CheckAsts, At, IInv, Typed, FlagSeen
  <2>3. AstsSeen(t)'
    BY <1>2 DEF CheckAsts, astVars, AstsSeen, Deliverable
  <2>4. \A u \in Threads \ {t} : (FlagSeen(u) /\ AstsSeen(u))'
    BY <1>2 DEF CheckAsts, astVars, IInv, Typed, FlagSeen, AstsSeen, Deliverable
  <2> QED
    BY <2>1, <2>2, <2>3, <2>4 DEF IInv
<1> QED
  BY <1>1, <1>2

LEMMA EndWaitKeeps ==
  ASSUME IInv, NEW c, NEW t \in Threads, EndWait(c, t)
  PROVE  IInv'
<1>1. /\ setter' \in [Threads -> Setting]
      /\ \A u \in Threads \ {t} : setter'[u] = setter[u]
  BY UnlinkIs DEF EndWait, IInv
<1>2. Typed'
  BY <1>1 DEF EndWait, astVars, IInv, Typed, Places
<1>3. state'[t] # "WEV" /\ NobodyDozes
  BY Still DEF EndWait, IInv
<1> QED
  BY <1>1, <1>2, <1>3, OneMoves DEF EndWait, astVars, IInv, Typed

(* The steps of a setter: it sets the flag and has to look; if the thread is *)
(* linked when it looks it has to wake it, and if it is still linked then it *)
(* does.                                                                   *)
LEMMA SetEventKeeps ==
  ASSUME IInv, NEW t \in Threads, SetEvent(t)
  PROVE  IInv'
<1>1. Typed'
  BY DEF SetEvent, astVars, IInv, Typed, Setting
<1>2. setter'[t] = "look" /\ \A u \in Threads \ {t} : flag'[u] = flag[u] /\ setter'[u] = setter[u]
  BY DEF SetEvent, IInv, Typed
<1>3. \A u \in Threads : (FlagSeen(u) /\ AstsSeen(u))'
  BY <1>2 DEF SetEvent, astVars, IInv, FlagSeen, AstsSeen, Deliverable
<1> QED
  BY <1>1, <1>3 DEF IInv

LEMMA LookListKeeps ==
  ASSUME IInv, NEW t \in Threads, LookList(t)
  PROVE  IInv'
<1>1. Typed'
  BY DEF LookList, astVars, IInv, Typed, Setting
<1>2. /\ state[t] = "WEV" /\ pos[t] \in {"link", "chk", "loop"} => setter'[t] # "out"
      /\ \A u \in Threads \ {t} : setter'[u] = setter[u]
  BY DEF LookList, Linked, IInv, Typed
<1>3. \A u \in Threads : (FlagSeen(u) /\ AstsSeen(u))'
  BY <1>2 DEF LookList, astVars, IInv, FlagSeen, AstsSeen, Deliverable
<1> QED
  BY <1>1, <1>3 DEF IInv

LEMMA WakeThreadKeeps ==
  ASSUME IInv, NEW t \in Threads, WakeThread(t)
  PROVE  IInv'
<1>1. setter' = [setter EXCEPT ![t] = "out"] /\ setter' \in [Threads -> Setting]
  BY DEF WakeThread, IInv, Typed, Setting
<1>2. CASE Linked(t)
  <2>1. WakeWev(t)
    BY <1>2 DEF WakeThread
  <2>2. /\ state' \in [Threads -> {"RUN", "COM", "WEV", "ZOM"}]
        /\ NobodyDozes
        /\ state'[t] # "WEV"
    BY <2>1, WakeWevWakes DEF IInv
  <2>3. Typed'
    BY <1>1, <2>2 DEF WakeThread, astVars, IInv, Typed
  <2> QED
    BY <1>1, <2>2, <2>3, OneMoves DEF WakeThread, astVars, IInv, Typed
<1>3. CASE ~Linked(t)
  <2>1. NobodyDozes /\ state' = state
    BY <1>3, Still DEF WakeThread, IInv
  <2>2. Typed'
    BY <1>1, <2>1 DEF WakeThread, astVars, IInv, Typed
  <2>3. state'[t] # "WEV" \/ pos'[t] \notin {"link", "chk", "loop"}
    BY <1>3, <2>1 DEF WakeThread, Linked
  <2> QED
    BY <1>1, <2>1, <2>2, <2>3, OneMoves DEF WakeThread, astVars, IInv, Typed
<1> QED
  BY <1>2, <1>3

LEMMA ClearEventKeeps ==
  ASSUME IInv, NEW c, NEW t \in Threads, ClearEvent(c, t)
  PROVE  IInv'
<1>1. Typed' /\ NobodyDozes
  BY Still DEF ClearEvent, astVars, IInv, Typed
<1>2. pos'[t] = "run"
  BY DEF ClearEvent, At
<1> QED
  BY <1>1, <1>2, OneMoves DEF ClearEvent, astVars, IInv, Typed

-----------------------------------------------------------------------------
(* Asts.  When one is there already, and can be delivered, the thread does   *)
(* not wait: that is how oz_knl_thread_queueast gets by with waking it for   *)
(* the first one only.                                                     *)
LEMMA QueueAstKeeps ==
  ASSUME IInv, NEW t \in Threads, QueueAst(t)
  PROVE  IInv'
<1> DEFINE First == asts[t] = 0 /\ astmode[t] = "ENABLE" /\ state[t] # "RUN"
<1>1. CASE First
  <2>1. WakeWev(t)
    BY <1>1 DEF QueueAst
  <2>2. /\ state' \in [Threads -> {"RUN", "COM", "WEV", "ZOM"}]
        /\ NobodyDozes
        /\ state'[t] # "WEV"
    BY <2>1, WakeWevWakes DEF IInv
  <2>3. /\ asts' = [asts EXCEPT ![t] = @ + 1] /\ asts' \in [Threads -> Nat]
        /\ UNCHANGED <<pos, flag, setter, astmode>>
    BY DEF QueueAst, flagVars, IInv, Typed
  <2>4. Typed'
    BY <2>2, <2>3 DEF IInv, Typed
  <2> QED
    BY <2>2, <2>3, <2>4, OneMoves DEF IInv, Typed
<1>2. CASE ~First
  <2>1. state' = state
    BY <1>2 DEF QueueAst
  <2>2. Typed'
    BY <2>1 DEF QueueAst, flagVars, IInv, Typed
  <2>3. \A u \in Threads : FlagSeen(u)'
    BY <2>1 DEF QueueAst, flagVars, IInv, FlagSeen
  <2>4. AstsSeen(t)'
    BY <1>2, <2>1 DEF QueueAst, IInv, Typed, AstsSeen, Deliverable
  <2>5. \A u \in Threads \ {t} : AstsSeen(u)'
    BY <2>1 DEF QueueAst, IInv, Typed, AstsSeen, Deliverable
  <2> QED
    BY <2>2, <2>3, <2>4, <2>5 DEF IInv
<1> QED
  BY <1>1, <1>2

LEMMA DeqAstKeeps ==
  ASSUME IInv, NEW c, NEW t \in Threads, DeqAst(c, t)
  PROVE  IInv'
<1>1. Typed' /\ NobodyDozes
  BY Still DEF DeqAst, flagVars, IInv, Typed, Places
<1>2. pos'[t] \in {"ast", "end"}
  BY DEF DeqAst, At, IInv, Typed
<1> QED
  BY <1>1, <1>2, OneMoves DEF DeqAst, flagVars, IInv, Typed

LEMMA EndAstsKeeps ==
  ASSUME IInv, NEW c, NEW t \in Threads, EndAsts(c, t)
  PROVE  IInv'
<1>1. Typed' /\ NobodyDozes
  BY Still DEF EndAsts, flagVars, IInv, Typed, Places
<1>2. pos'[t] \in {"ast", "run"}
  BY DEF EndAsts, IInv, Typed
<1> QED
  BY <1>1, <1>2, OneMoves DEF EndAsts, flagVars, IInv, Typed

LEMMA SetAstKeeps ==
  ASSUME IInv, NEW c, NEW t \in Threads, SetAst(c, t)
  PROVE  IInv'
<1>1. Typed' /\ NobodyDozes
  BY Still DEF SetAst, flagVars, IInv, Typed, Places
<1>2. pos'[t] \in {"ast", "run"}
  BY DEF SetAst, At, IInv, Typed
<1> QED
  BY <1>1, <1>2, OneMoves DEF SetAst, flagVars, IInv, Typed

-----------------------------------------------------------------------------
(* The steps of a cpu between threads, and its interrupts.                  *)

LEMMA TakeKeeps ==
  ASSUME IInv, NEW c, NEW t \in Threads, Take(c, t)
  PROVE  IInv'
<1>1. state' = state \/ ChangeState(t, "RUN", curprio[t])
  BY DEF Take
<1> QED
  BY <1>1, Still, ChangeStateWakes, MovesKeep DEF Take, astVars, IInv

LEMMA LoadKeeps ==
  ASSUME IInv, NEW c, Load(c)
  PROVE  IInv'
<1>1. state' = state \/ ChangeState(nthread[c], "RUN", curprio[nthread[c]])
  BY DEF Load
<1> QED
  BY <1>1, Still, ChangeStateWakes, MovesKeep DEF Load, astVars, IInv

LEMMA RequeueKeeps ==
  ASSUME IInv, NEW c, Requeue(c)
  PROVE  IInv'
<1>1. ChangeState(moving[c], "COM", curprio[moving[c]])
  BY DEF Requeue, MakeCom
<1> QED
  BY <1>1, ChangeStateWakes, MovesKeep DEF Requeue, astVars, IInv

LEMMA ResumeKeeps ==
  ASSUME IInv, NEW c, NEW t \in Threads, Resume(c, t)
  PROVE  IInv'
<1>1. CASE handlingint[t] = 2
  <2>1. ChangeState(t, "COM", curprio[t])
    BY <1>1 DEF Resume, MakeCom
  <2> QED
    BY <1>1, <2>1, ChangeStateWakes, MovesKeep DEF Resume, IInv
<1>2. CASE handlingint[t] # 2
  BY <1>2, Still, ReturnKeeps DEF Resume, IInv
<1> QED
  BY <1>1, <1>2

LEMMA HandleIntKeeps ==
  ASSUME IInv, NEW c, NEW t \in Threads, HandleInt(c, t)
  PROVE  IInv'
<1>1. state' = state \/ \E s \in {"RUN", "COM"} : \E p : ChangeState(t, s, p)
  BY DEF HandleInt, MakeCom
<1>2. NobodyDozes /\ state' \in [Threads -> {"RUN", "COM", "WEV", "ZOM"}]
  BY <1>1, Still, ChangeStateWakes DEF IInv
<1>3. UNCHANGED <<pos, byhw, astmode>> \/ Return(t)
  BY DEF HandleInt
<1> QED
  BY <1>2, <1>3, MovesKeep, ReturnKeeps DEF HandleInt

LEMMA OtherKeeps ==
  ASSUME IInv, NEW c, NEW t,
         Unload(c) \/ Unqueue(c) \/ Quantimex(c, t) \/ SetCurPrio(c, t)
  PROVE  IInv'
<1>1. UNCHANGED <<state, pos, flagVars, asts, astmode>>
  BY DEF Unload, Unqueue, Quantimex, SetCurPrio, astVars
<1> QED
  BY <1>1, Still, MovesKeep DEF IInv

LEMMA EnableSoftintKeeps ==
  ASSUME IInv, NEW c, NEW t \in Threads, EnableSoftint(c, t)
  PROVE  IInv'
  BY Still, EnterKeeps DEF EnableSoftint, IInv

LEMMA ExitKeeps ==
  ASSUME IInv, NEW c, NEW t \in Threads, Exit(c, t)
  PROVE  IInv'
<1>1. ChangeState(t, "ZOM", curprio[t])
  BY DEF Exit
<1>2. /\ state' \in [Threads -> {"RUN", "COM", "WEV", "ZOM"}]
      /\ NobodyDozes
      /\ state'[t] = "ZOM"
  BY <1>1, ChangeStateWakes DEF IInv
<1>3. Typed'
  BY <1>2 DEF Exit, flagVars, IInv, Typed, Places
<1> QED
  BY <1>2, <1>3, OneMoves DEF Exit, flagVars, IInv, Typed

-----------------------------------------------------------------------------
LEMMA InitHolds == Init => IInv
<1> SUFFICES ASSUME Init PROVE IInv
  OBVIOUS
<1>1. PICK on : state = [t \in Threads |-> IF t \in Range(on) THEN "RUN" ELSE "COM"]
  BY DEF Init
<1>2. /\ pos = [t \in Threads |-> "run"] /\ flag = [t \in Threads |-> FALSE]
      /\ setter = [t \in Threads |-> "out"]
      /\ asts = [t \in Threads |-> 0] /\ astmode = [t \in Threads |-> "ENABLE"]
  BY DEF Init
<1>3. Typed
  BY <1>1, <1>2 DEF Typed, Places, Setting
<1> QED
  BY <1>2, <1>3 DEF IInv, FlagSeen, AstsSeen, Deliverable

LEMMA NextKeeps == IInv /\ [Next]_vars => IInv'
<1> SUFFICES ASSUME IInv, [Next]_vars PROVE IInv'
  OBVIOUS
<1>1. ASSUME NEW c \in Cpus, CpuStep(c) PROVE IInv'
  <2>1. ASSUME NEW t \in Threads,
               \/ TestEvent(c, t) \/ LinkEvent(c, t) \/ CheckAsts(c, t) \/ EndWait(c, t)
               \/ EnableSoftint(c, t) \/ Take(c, t) \/ Resume(c, t) \/ DeqAst(c, t) \/ EndAsts(c, t)
        PROVE  IInv'
    BY <2>1, TestEventKeeps, LinkEventKeeps, CheckAstsKeeps, EndWaitKeeps, EnableSoftintKeeps,
       TakeKeeps, ResumeKeeps, DeqAstKeeps, EndAstsKeeps
  <2> QED
    BY <1>1, <2>1, OtherKeeps, LoadKeeps, RequeueKeeps DEF CpuStep
<1>2. ASSUME NEW c \in Cpus, Interrupt(c) \/ Expire(c) PROVE IInv'
  BY <1>2, HandleIntKeeps, OtherKeeps DEF Interrupt, Expire
<1>3. ASSUME NEW c \in Cpus, NEW t \in Threads, Program(c, t) PROVE IInv'
  BY <1>3, WaitEventKeeps, ClearEventKeeps, SetAstKeeps, OtherKeeps, ExitKeeps DEF Program
<1>4. ASSUME NEW t \in Threads, Outside(t) PROVE IInv'
  BY <1>4, SetEventKeeps, LookListKeeps, WakeThreadKeeps, QueueAstKeeps DEF Outside, Wakes
<1>5. CASE UNCHANGED vars
  BY <1>5, Still, MovesKeep DEF vars, astVars, IInv
<1> QED
  BY <1>1, <1>2, <1>3, <1>4, <1>5 DEF Next

LEMMA InvariantHolds == Spec => []IInv
  BY InitHolds, NextKeeps, PTL DEF Spec

(* A thread in its wait (oz_knl_event_waitlist, oz_knl_thread_wait) has no   *)
(* ast that can be delivered, whichever of the thread, the one who queues,  *)
(* and an interrupt comes first.  Nor is its event flag set, except while    *)
(* the setter (oz_knl_event_set) has still to look at the list or to walk it,*)
(* and if the setter looked between the thread's test of the flag and its    *)
(* linking to it.                                                          *)
THEOREM NoneSleepsOn == Spec => []NobodySleepsOn
<1>1. IInv => NobodySleepsOn
  BY DEF IInv, FlagSeen, AstsSeen, NobodySleepsOn
<1> QED
  BY <1>1, InvariantHolds, PTL

-----------------------------------------------------------------------------
(* II.  Every thread in one place.  First, what the operators on the com     *)
(* queue do.                                                               *)

(* The least element of a set of numbers, without an induction: the initial *)
(* segments of the numbers are well-founded.                               *)
LEMMA Least ==
  ASSUME NEW S, S \subseteq Nat, S # {}
  PROVE  \E m \in S : \A k \in S : m <= k
<1> DEFINE Below(k) == 0 .. k
           T == {Below(k) : k \in S}
<1>1. T \subseteq FiniteSubsetsOf(Nat) /\ T # {}
  <2>1. ASSUME NEW k \in S PROVE Below(k) \subseteq Nat /\ IsFiniteSet(Below(k))
    BY FS_Interval
  <2> QED
    BY <2>1 DEF FiniteSubsetsOf
<1>2. PICK x \in T : \A y \in T : <<y, x>> \notin StrictSubsetOrdering(Nat)
  BY <1>1, FS_StrictSubsetOrderingWellFounded, WFMin, Zenon
<1>3. PICK m \in S : x = Below(m)
  BY <1>2
<1>4. ASSUME NEW k \in S, k < m PROVE FALSE
  <2>1. Below(k) \subseteq Below(m) /\ Below(k) # Below(m)
    <3>1. m \in Below(m) /\ m \notin Below(k)
      BY <1>4
    <3>2. Below(k) \subseteq Below(m)
      BY <1>4
    <3> QED
      BY <3>1, <3>2
  <2>2. Below(k) \in SUBSET Nat /\ Below(m) \in SUBSET Nat
    OBVIOUS
  <2>3. <<Below(k), Below(m)>> \in StrictSubsetOrdering(Nat)
    BY <2>1, <2>2 DEF StrictSubsetOrdering
  <2> QED
    BY <1>2, <1>3, <2>3
<1> QED
  <2>1. \A k \in S : m <= k
    BY <1>4
  <2> QED
    BY <2>1

LEMMA MinIs ==
  ASSUME NEW S, S \subseteq Nat, S # {}
  PROVE  Min(S) \in S /\ \A k \in S : Min(S) <= k
  BY Least DEF Min

(* A queue holds everyone at most once. *)
Once(q) == \A j, l \in 1..Len(q) : q[j] = q[l] => j = l

LEMMA OnceIs ==
  ASSUME NEW q \in Seq(Threads)
  PROVE  Once(q) <=> IsInjective(q)
  BY DEF Once, IsInjective

LEMMA ThinsKeeps ==
  ASSUME NEW q \in Seq(Threads), NEW r \in Seq(Threads), Thins(r, q)
  PROVE  /\ Once(q) => Once(r)
         /\ \A prio : Sorted(q, prio) => Sorted(r, prio)
<1>1. \A j, l \in 1 .. Len(r) : j < l => \E a, b \in 1 .. Len(q) : a < b /\ q[a] = r[j] /\ q[b] = r[l]
  BY DEF Thins
<1>2. Len(r) \in Nat /\ Len(q) \in Nat
  OBVIOUS
<1>3. ASSUME Once(q) PROVE Once(r)
  <2>1. ASSUME NEW j \in 1 .. Len(r), NEW l \in 1 .. Len(r), j < l PROVE r[j] # r[l]
    <3>1. PICK a \in 1 .. Len(q), b \in 1 .. Len(q) : a < b /\ q[a] = r[j] /\ q[b] = r[l]
      BY <1>1, <2>1
    <3> QED
      BY <1>2, <1>3, <3>1 DEF Once
  <2>2. ASSUME NEW j \in 1 .. Len(r), NEW l \in 1 .. Len(r), r[j] = r[l] PROVE j = l
    <3>1. ~ (j < l) /\ ~ (l < j)
      BY <2>1, <2>2
    <3> QED
      BY <1>2, <3>1
  <2> QED
    BY <2>2 DEF Once
<1>4. ASSUME NEW prio, Sorted(q, prio) PROVE Sorted(r, prio)
  <2>1. \A a, b \in 1 .. Len(q) : a < b => prio[q[a]] >= prio[q[b]]
    BY <1>4 DEF Sorted
  <2>2. ASSUME NEW j \in 1 .. Len(r), NEW l \in 1 .. Len(r), j < l PROVE prio[r[j]] >= prio[r[l]]
    <3>1. PICK a \in 1 .. Len(q), b \in 1 .. Len(q) : a < b /\ q[a] = r[j] /\ q[b] = r[l]
      BY <1>1, <2>2
    <3>2. prio[q[a]] >= prio[q[b]]
      BY <2>1, <3>1
    <3> QED
      BY <3>1, <3>2, Zenon
  <2> QED
    BY <2>2 DEF Sorted
<1> QED
  BY <1>3, <1>4

LEMMA TailIs ==
  ASSUME NEW q \in Seq(Threads), q # <<>>, Once(q)
  PROVE  /\ Tail(q) \in Seq(Threads) /\ Once(Tail(q)) /\ Range(Tail(q)) = Range(q) \ {Head(q)}
         /\ Head(q) \in Threads /\ Head(q) \in Range(q)
         /\ \A prio : Sorted(q, prio) => Sorted(Tail(q), prio)
<1>1. /\ Tail(q) \in Seq(Threads) /\ Thins(Tail(q), q)
      /\ Range(Tail(q)) = Range(q) \ {Head(q)}
      /\ Head(q) \in Threads /\ Head(q) = q[1] /\ 1 \in 1 .. Len(q)
  BY TailThins DEF Once
<1>2. Head(q) \in Range(q)
  BY <1>1 DEF Range
<1> QED
  BY <1>1, <1>2, ThinsKeeps

LEMMA RemoveIs ==
  ASSUME NEW q \in Seq(Threads), NEW t, Once(q)
  PROVE  /\ RemoveFirst(q, t) \in Seq(Threads) /\ Once(RemoveFirst(q, t))
         /\ Range(RemoveFirst(q, t)) = Range(q) \ {t}
  BY RemoveFirstOnce DEF Once

LEMMA InsertIs ==
  ASSUME NEW q \in Seq(Threads), NEW t \in Threads, NEW prio \in [Threads -> Nat],
         Once(q), t \notin Range(q)
  PROVE  /\ Insert(q, t, prio) \in Seq(Threads) /\ Once(Insert(q, t, prio))
         /\ Range(Insert(q, t, prio)) = Range(q) \cup {t}
         /\ Sorted(q, prio) => Sorted(Insert(q, t, prio), prio)
<1> DEFINE lower == {i \in 1..Len(q) : prio[q[i]] < prio[t]}
           m == Min(lower \cup {Len(q) + 1})
           r == InsertAt(q, m, t)
<1>1. Len(q) \in Nat /\ \A i \in 1..Len(q) : q[i] \in Threads /\ q[i] # t
  BY DEF Range
<1>2. /\ m \in lower \cup {Len(q) + 1}
      /\ \A k \in lower \cup {Len(q) + 1} : m <= k
  <2> DEFINE S == lower \cup {Len(q) + 1}
  <2>1. S \subseteq Nat /\ S # {}
    BY <1>1
  <2> HIDE DEF S
  <2>2. Min(S) \in S /\ \A k \in S : Min(S) <= k
    BY <2>1, MinIs
  <2> QED
    BY <2>2 DEF S
<1>3. m \in 1 .. Len(q) + 1
  BY <1>1, <1>2
<1>4. \A i \in 1..Len(q) : i < m => prio[q[i]] >= prio[t]
  BY <1>1, <1>2, <1>3
<1>5. m <= Len(q) => prio[q[m]] < prio[t]
  BY <1>1, <1>2, <1>3
<1> HIDE DEF m, lower
<1>6. /\ r \in Seq(Threads)
      /\ Len(r) = Len(q) + 1
      /\ \A j \in 1 .. Len(q) + 1 : r[j] = IF j < m THEN q[j] ELSE IF j = m THEN t ELSE q[j - 1]
      /\ Range(r) = Range(q) \cup {t}
  BY <1>3, InsertAtElements
<1>10. /\ \A j \in 1 .. Len(q) + 1 : j < m => r[j] = q[j] /\ j \in 1 .. Len(q)
       /\ r[m] = t /\ m \in Nat
       /\ \A j \in 1 .. Len(q) + 1 : j > m => r[j] = q[j - 1] /\ j - 1 \in 1 .. Len(q)
  BY <1>1, <1>3, <1>6
<1> HIDE DEF r
<1>7. Once(r)
  <2>1. ASSUME NEW j \in 1 .. Len(q) + 1, NEW l \in 1 .. Len(q) + 1, j < l PROVE r[j] # r[l]
    <3> DEFINE a == IF j < m THEN j ELSE j - 1
               b == IF l < m THEN l ELSE l - 1
    <3>1. CASE j = m
      BY <1>1, <1>10, <2>1, <3>1
    <3>2. CASE l = m
      BY <1>1, <1>10, <2>1, <3>2
    <3>3. CASE j # m /\ l # m
      <4>1. r[j] = q[a] /\ r[l] = q[b] /\ a \in 1 .. Len(q) /\ b \in 1 .. Len(q)
        BY <1>10, <2>1, <3>3
      <4>2. a # b
        BY <1>1, <1>10, <2>1, <3>3
      <4> HIDE DEF a, b
      <4> QED
        BY <4>1, <4>2 DEF Once
    <3> QED
      BY <3>1, <3>2, <3>3
  <2>2. ASSUME NEW j \in 1 .. Len(r), NEW l \in 1 .. Len(r), r[j] = r[l] PROVE j = l
    <3>1. j \in 1 .. Len(q) + 1 /\ l \in 1 .. Len(q) + 1
      BY <1>6
    <3>2. ~ (j < l) /\ ~ (l < j)
      BY <2>1, <2>2, <3>1
    <3> QED
      BY <1>1, <3>1, <3>2
  <2> QED
    BY <2>2 DEF Once
<1>8. ASSUME Sorted(q, prio) PROVE Sorted(r, prio)
  <2>1. \A i, j \in 1..Len(q) : i < j => prio[q[i]] >= prio[q[j]]
    BY <1>8 DEF Sorted
  <2>2. \A i \in 1..Len(q) : i >= m => prio[q[i]] < prio[t]
    <3>1. ASSUME NEW i \in 1..Len(q), i >= m PROVE prio[q[i]] < prio[t]
      <4>1. m \in 1 .. Len(q) /\ prio[q[m]] \in Nat /\ prio[q[i]] \in Nat /\ prio[t] \in Nat
        BY <1>1, <1>3, <3>1
      <4>2. prio[q[m]] < prio[t]
        BY <1>1, <1>3, <1>5, <3>1
      <4>3. i = m \/ prio[q[m]] >= prio[q[i]]
        BY <1>3, <2>1, <3>1, <4>1
      <4> QED
        BY <4>1, <4>2, <4>3
    <3> QED
      BY <3>1
  <2>3. ASSUME NEW j \in 1 .. Len(r), NEW l \in 1 .. Len(r), j < l PROVE prio[r[j]] >= prio[r[l]]
    <3>1. /\ j \in 1 .. Len(q) + 1 /\ l \in 1 .. Len(q) + 1 /\ m \in Nat
          /\ prio[t] \in Nat /\ \A i \in 1..Len(q) : prio[q[i]] \in Nat
      <4>1. j \in 1 .. Len(q) + 1 /\ l \in 1 .. Len(q) + 1
        BY <1>6
      <4>2. prio[t] \in Nat /\ \A i \in 1..Len(q) : prio[q[i]] \in Nat
        BY <1>1
      <4> QED
        BY <1>1, <1>3, <4>1, <4>2
    <3>2. CASE l < m
      <4>1. r[j] = q[j] /\ r[l] = q[l] /\ j \in 1..Len(q) /\ l \in 1..Len(q)
        BY <1>10, <2>3, <3>1, <3>2
      <4> QED
        BY <2>1, <2>3, <4>1
    <3>3. CASE l = m
      <4>1. r[j] = q[j] /\ r[l] = t /\ j \in 1..Len(q) /\ j < m
        BY <1>10, <2>3, <3>1, <3>3
      <4> QED
        BY <1>4, <4>1
    <3>4. CASE l > m /\ j < m
      <4>1. r[l] = q[l - 1] /\ l - 1 \in 1..Len(q) /\ l - 1 >= m /\ r[j] = q[j] /\ j \in 1..Len(q)
        BY <1>10, <2>3, <3>1, <3>4
      <4>2. prio[q[j]] >= prio[t] /\ prio[t] > prio[q[l - 1]]
        BY <1>4, <2>2, <3>4, <4>1
      <4>3. prio[q[j]] \in Nat /\ prio[q[l - 1]] \in Nat
        BY <3>1, <4>1
      <4> QED
        BY <3>1, <4>1, <4>2, <4>3
    <3>5. CASE l > m /\ j = m
      <4>1. r[l] = q[l - 1] /\ l - 1 \in 1..Len(q) /\ l - 1 >= m /\ r[j] = t
        BY <1>10, <2>3, <3>1, <3>5
      <4>2. prio[q[l - 1]] < prio[t] /\ prio[q[l - 1]] \in Nat
        BY <2>2, <3>1, <4>1
      <4> QED
        BY <3>1, <4>1, <4>2
    <3>6. CASE l > m /\ j > m
      <4>1. /\ r[l] = q[l - 1] /\ l - 1 \in 1..Len(q)
            /\ r[j] = q[j - 1] /\ j - 1 \in 1..Len(q) /\ j - 1 < l - 1
        BY <1>10, <2>3, <3>1, <3>6
      <4> QED
        BY <2>1, <4>1
    <3> QED
      BY <2>3, <3>1, <3>2, <3>3, <3>4, <3>5, <3>6
  <2> QED
    BY <2>3 DEF Sorted
<1>9. Insert(q, t, prio) = r
  BY DEF Insert, r, m, lower
<1> QED
  BY <1>6, <1>7, <1>8, <1>9

(* The queue is what it was when some of it have been merged with the rest, *)
(* and in order for the priorities that those were raised to.              *)
LEMMA MergedIs ==
  ASSUME NEW q \in Seq(Threads), Once(q), NEW up, NEW prio, NEW r \in Merged(q, up, prio)
  PROVE  r \in Seq(Threads) /\ Once(r) /\ Range(r) = Range(q)
<1>1. PICK f \in Bijection(DOMAIN q, DOMAIN q) : r = [i \in DOMAIN q |-> q[f[i]]]
  BY DEF Merged
<1>2. /\ f \in [DOMAIN q -> DOMAIN q]
      /\ \A i, j \in DOMAIN q : f[i] = f[j] => i = j
      /\ \A j \in DOMAIN q : \E i \in DOMAIN q : f[i] = j
  BY DEF Bijection, Injection, Surjection, IsInjective
<1>3. DOMAIN q = 1 .. Len(q) /\ Len(q) \in Nat /\ \A i \in 1 .. Len(q) : q[i] \in Threads
  OBVIOUS
<1>4. r \in Seq(Threads) /\ Len(r) = Len(q) /\ \A i \in 1 .. Len(q) : r[i] = q[f[i]]
  BY <1>1, <1>2, <1>3
<1>5. Once(r)
  <2>1. ASSUME NEW j \in 1 .. Len(q), NEW l \in 1 .. Len(q), r[j] = r[l] PROVE j = l
    <3>1. q[f[j]] = q[f[l]] /\ f[j] \in 1 .. Len(q) /\ f[l] \in 1 .. Len(q)
      BY <1>2, <1>3, <1>4, <2>1
    <3>2. f[j] = f[l]
      BY <3>1 DEF Once
    <3> QED
      BY <1>2, <1>3, <3>2
  <2> QED
    BY <1>4, <2>1 DEF Once
<1>6. Range(r) = Range(q)
  BY <1>1, <1>2 DEF Range
<1> QED
  BY <1>4, <1>5, <1>6

LEMMA MergedSorted ==
  ASSUME NEW q \in Seq(Threads), NEW prio \in [Threads -> Nat], Sorted(q, prio), NEW up,
         NEW prio2 \in [Threads -> Nat],
         \A t \in Threads : prio2[t] = IF t \in up THEN prio[t] + 1 ELSE prio[t],
         NEW r \in Merged(q, up, prio2)
  PROVE  Sorted(r, prio2)
<1> DEFINE D == 1 .. Len(q)
<1>1. DOMAIN q = D /\ Len(q) \in Nat /\ \A i \in D : q[i] \in Threads
  OBVIOUS
<1>2. PICK f \in Bijection(D, D) :
         /\ r = [i \in D |-> q[f[i]]]
         /\ \A i, j \in D : i < j =>
              IF q[f[i]] \in up <=> q[f[j]] \in up THEN f[i] < f[j]
              ELSE (\A k \in i+1 .. j-1 : q[f[k]] \in up <=> q[f[i]] \in up) =>
                     IF q[f[i]] \in up THEN prio2[q[f[i]]] > prio2[q[f[j]]]
                     ELSE prio2[q[f[i]]] >= prio2[q[f[j]]]
  <2> HIDE DEF D
  <2> QED
    BY <1>1, Zenon DEF Merged
<1> DEFINE Up(i) == q[f[i]] \in up
           p(i) == prio2[q[f[i]]]
<1>3. f \in [D -> D]
  BY DEF Bijection, Injection
<1>4. \A i \in D : q[f[i]] \in Threads /\ p(i) \in Nat
  BY <1>1, <1>3
<1>5. ASSUME NEW i \in D, NEW j \in D, i < j, Up(i) <=> Up(j) PROVE p(i) >= p(j)
  <2>1. f[i] < f[j] /\ f[i] \in D /\ f[j] \in D
    BY <1>2, <1>3, <1>5
  <2>2. prio[q[f[i]]] >= prio[q[f[j]]]
    BY <2>1 DEF Sorted
  <2> QED
    <3> DEFINE x == q[f[i]]  y == q[f[j]]
    <3>1. /\ x \in Threads /\ y \in Threads
          /\ prio2[x] = IF x \in up THEN prio[x] + 1 ELSE prio[x]
          /\ prio2[y] = IF y \in up THEN prio[y] + 1 ELSE prio[y]
          /\ prio[x] \in Nat /\ prio[y] \in Nat
      BY <1>4
    <3>2. x \in up <=> y \in up
      BY <1>5
    <3>3. prio[x] >= prio[y]
      BY <2>2
    <3> HIDE DEF x, y
    <3>4. prio2[x] >= prio2[y]
      <4>1. CASE x \in up
        BY <3>1, <3>2, <3>3, <4>1
      <4>2. CASE x \notin up
        BY <3>1, <3>2, <3>3, <4>2
      <4> QED
        BY <4>1, <4>2
    <3> QED
      BY <3>4 DEF x, y
<1>6. ASSUME NEW i \in D, NEW j \in D, i < j, ~(Up(i) <=> Up(j)),
             \A k \in i+1 .. j-1 : Up(k) <=> Up(i)
      PROVE  p(i) >= p(j)
  <2>1. IF Up(i) THEN p(i) > p(j) ELSE p(i) >= p(j)
    BY <1>2, <1>6
  <2>2. p(i) \in Nat /\ p(j) \in Nat
    BY <1>4
  <2> HIDE DEF p, Up
  <2> QED
    BY <2>1, <2>2
<1> HIDE DEF Up, p
<1>7. ASSUME NEW i \in D, NEW j \in D, i < j, ~(Up(i) <=> Up(j)) PROVE p(i) >= p(j)
  <2>1. CASE \A k \in i+1 .. j-1 : Up(k) <=> Up(i)
    BY <1>6, <1>7, <2>1
  <2>2. CASE \E k \in i+1 .. j-1 : ~(Up(k) <=> Up(i))
    <3> DEFINE K == {k \in i+1 .. j-1 : ~(Up(k) <=> Up(i))}
    <3>1. K \subseteq Nat /\ K # {} /\ \A k \in K : k \in D /\ i < k /\ k < j
      <4>1. i \in Nat /\ j \in Nat /\ i >= 1 /\ j <= Len(q)
        BY <1>1
      <4>2. ASSUME NEW k \in i+1 .. j-1 PROVE k \in Nat /\ k \in D /\ i < k /\ k < j
        BY <1>1, <4>1
      <4>3. K # {}
        BY <2>2
      <4> QED
        BY <4>2, <4>3
    <3>2. PICK m \in K : \A k \in K : m <= k
      BY <3>1, Least
    <3>3. \A k \in i+1 .. m-1 : Up(k) <=> Up(i)
      <4>1. ASSUME NEW k \in i+1 .. m-1 PROVE Up(k) <=> Up(i)
        <5>1. k \notin K /\ k \in i+1 .. j-1
          BY <1>1, <3>1, <3>2
        <5> QED
          BY <5>1
      <4> QED
        BY <4>1
    <3>4. m \in D /\ i < m /\ m < j /\ ~(Up(i) <=> Up(m)) /\ (Up(m) <=> Up(j))
      BY <1>7, <3>1, <3>2
    <3>5. p(i) >= p(m)
      BY <1>6, <3>3, <3>4
    <3>6. p(m) >= p(j)
      BY <1>5, <3>4
    <3>7. p(i) \in Nat /\ p(m) \in Nat /\ p(j) \in Nat
      BY <1>4, <3>4 DEF p
    <3> QED
      BY <3>5, <3>6, <3>7
  <2> QED
    BY <2>1, <2>2
<1>8. \A i, j \in D : i < j => p(i) >= p(j)
  BY <1>5, <1>7
<1>9. r \in [D -> Threads] /\ \A i \in D : prio2[r[i]] = p(i)
  BY <1>2, <1>4 DEF p
<1>10. Len(r) = Len(q)
  BY <1>1, <1>9
<1> QED
  BY <1>8, <1>9, <1>10 DEF Sorted

-----------------------------------------------------------------------------
(* Where the threads are.                                                  *)

(* A thread that is in its own code, or in its wait short of the loop of    *)
(* oz_knl_thread_wait, is loaded in a cpu that does not leave it.          *)
Home(t) ==
  handlingint[t] = 0 /\ pos[t] # "loop"
    => /\ cpuidx[t] # None /\ nthread[cpuidx[t]] = None
       /\ state[t] = "RUN" \/ (pos[t] \in {"wev", "link", "chk"} /\ state[t] = "WEV")

(* A cpu is about one thing at a time: it leaves a thread that does not run, *)
(* for one that is in no cpu, or it sets the priority of one in the queue.  *)
Busy(c) ==
  /\ nthread[c] # None => cpuidx[nthread[c]] = None /\ renicing[c] = None
  /\ moving[c] # None => renicing[c] = None
  /\ renicing[c] # None => state[renicing[c]] = "COM"
  /\ Leaving(c) => state[curthreads[c]] # "RUN"

Placed == OnePlace /\ (\A t \in Threads : Home(t)) /\ (\A c \in Cpus : Busy(c))

(* If nobody sets priorities, *)
Settled ==
  Reniced = {} => /\ \A c \in Cpus : renicing[c] = None /\ moving[c] = None
                  /\ ~crashed /\ Sorted(threadqcom, curprio)

(* The inductive invariant. *)
PlacesInv == TypeOK /\ Placed /\ Settled

-----------------------------------------------------------------------------
(* What is in which of the places of the com queue. *)
LEMMA WantsCpu ==
  ASSUME TypeOK, OnePlace
  PROVE  /\ Once(threadqcom)
         /\ \A t \in Range(threadqcom) :
              t \in Threads /\ state[t] = "COM" /\ \A c \in Cpus : nthread[c] # t /\ moving[c] # t
         /\ \A c \in Cpus : /\ nthread[c] # None => nthread[c] \in Threads /\ state[nthread[c]] = "COM"
                            /\ moving[c] # None => moving[c] \in Threads /\ state[moving[c]] = "COM"
         /\ \A t \in Threads : state[t] = "COM" => \/ t \in Range(threadqcom)
                                                   \/ \E c \in Cpus : nthread[c] = t \/ moving[c] = t
<1>1. Once(threadqcom)
  BY OnceIs DEF TypeOK, OnePlace
<1>2. /\ \A t : t \in Range(nthread) <=> \E c \in Cpus : nthread[c] = t
      /\ \A t : t \in Range(moving) <=> \E c \in Cpus : moving[c] = t
  BY DEF TypeOK, Range
<1>3. \A c \in Cpus : nthread[c] \in Threads \cup {None} /\ moving[c] \in Threads \cup {None}
  BY DEF TypeOK
<1>4. \A t \in Threads :
       /\ state[t] = "COM" <=> t \in Range(threadqcom) \cup Range(nthread) \cup Range(moving)
       /\ t \in Range(threadqcom) => t \notin Range(nthread) \cup Range(moving)
  BY DEF OnePlace
<1>5. \A t \in Range(threadqcom) : t \in Threads
  BY DEF TypeOK, Range
<1> QED
  BY <1>1, <1>2, <1>3, <1>4, <1>5

(* And conversely. *)
LEMMA InOnePlace ==
  ASSUME TypeOK',
         \A t \in Threads : cpuidx'[t] # None => curthreads'[cpuidx'[t]] = t,
         \A c \in Cpus : nthread'[c] = None => cpuidx'[curthreads'[c]] = c,
         \A t \in Threads : state'[t] = "RUN" => cpuidx'[t] # None,
         Once(threadqcom'),
         \A c, d \in Cpus : c # d =>
           {nthread'[c], moving'[c]} \cap {nthread'[d], moving'[d]} \subseteq {None},
         \A c \in Cpus : None \in {nthread'[c], moving'[c]},
         \A t \in Threads : t \in Range(threadqcom') =>
           state'[t] = "COM" /\ \A c \in Cpus : nthread'[c] # t /\ moving'[c] # t,
         \A c \in Cpus : /\ nthread'[c] # None => state'[nthread'[c]] = "COM"
                         /\ moving'[c] # None => state'[moving'[c]] = "COM",
         \A t \in Threads : state'[t] = "COM" =>
           t \in Range(threadqcom') \/ \E c \in Cpus : nthread'[c] = t \/ moving'[c] = t
  PROVE  OnePlace'
<1>1. IsInjective(threadqcom')
  BY OnceIs DEF TypeOK
<1>2. /\ \A t : t \in Range(nthread') <=> \E c \in Cpus : nthread'[c] = t
      /\ \A t : t \in Range(moving') <=> \E c \in Cpus : moving'[c] = t
  BY DEF TypeOK, Range
<1>3. \A t \in Threads : t # None
  BY ParamAssumption
<1>4. \A t \in Threads :
       /\ state'[t] = "COM" <=> t \in Range(threadqcom') \cup Range(nthread') \cup Range(moving')
       /\ t \in Range(threadqcom') => t \notin Range(nthread') \cup Range(moving')
  BY <1>2, <1>3
<1> QED
  BY <1>1, <1>4 DEF OnePlace

LEMMA SortedSame ==
  ASSUME NEW q \in Seq(Threads), NEW prio, NEW prio2, Sorted(q, prio),
         \A t \in Range(q) : prio2[t] = prio[t]
  PROVE  Sorted(q, prio2)
<1>1. \A i \in 1 .. Len(q) : q[i] \in Range(q)
  BY DEF Range
<1> QED
  BY <1>1 DEF Sorted

-----------------------------------------------------------------------------
(* The thread t stays where it is, ... *)
Stays(t) ==
  /\ \A u \in Threads \ {t} : state'[u] = state[u] /\ curprio'[u] = curprio[u]
  /\ state'[t] = "COM" <=> state[t] = "COM"
  /\ state[t] = "COM" => curprio'[t] = curprio[t]
  /\ state'[t] = "RUN" => cpuidx[t] # None /\ (state[t] = "RUN" \/ ~Locked(t))
  /\ threadqcom' = threadqcom

(* ... or it joins the com queue. *)
Joins(t) ==
  /\ state[t] # "COM" /\ state' = [state EXCEPT ![t] = "COM"]
  /\ Once(threadqcom') /\ Range(threadqcom') = Range(threadqcom) \cup {t}
  /\ Sorted(threadqcom, curprio) => Sorted(threadqcom', curprio')

OthersStay(t) == \A u \in Threads \ {t} : pos'[u] = pos[u] /\ handlingint'[u] = handlingint[u]

LEMMA StaysKeeps ==
  ASSUME PlacesInv, TypeOK', NEW t \in Threads, Stays(t), OthersStay(t), Home(t)',
         UNCHANGED <<cpuVars, setVars>>
  PROVE  PlacesInv'
<1>1. /\ UNCHANGED <<curthreads, nthread, cpuidx, renicing, moving, crashed, threadqcom>>
      /\ \A u \in Threads : state'[u] = "COM" <=> state[u] = "COM"
      /\ \A u \in Threads : state'[u] = "RUN" => cpuidx[u] # None /\ (state[u] = "RUN" \/ ~Locked(u))
  BY DEF Stays, cpuVars, setVars, PlacesInv, Placed, OnePlace
<1>2. OnePlace'
  BY <1>1 DEF PlacesInv, Placed, OnePlace
<1>3. ASSUME NEW u \in Threads PROVE Home(u)'
  BY <1>1 DEF Stays, OthersStay, Home, PlacesInv, Placed
<1>4. ASSUME NEW c \in Cpus PROVE Busy(c)'
  BY <1>1 DEF Busy, PlacesInv, Placed, Leaving, Locked, TypeOK
<1>5. Settled'
  <2>1. threadqcom \in Seq(Threads) /\ \A u \in Range(threadqcom) : curprio'[u] = curprio[u]
    <3>1. \A u \in Range(threadqcom) : u \in Threads /\ state[u] = "COM"
      BY WantsCpu DEF PlacesInv, Placed
    <3> QED
      BY <3>1 DEF Stays, PlacesInv, TypeOK
  <2>2. Sorted(threadqcom, curprio) => Sorted(threadqcom, curprio')
    BY <2>1, SortedSame
  <2> QED
    BY <1>1, <2>2 DEF Settled, PlacesInv
<1> QED
  BY <1>2, <1>3, <1>4, <1>5 DEF PlacesInv, Placed

LEMMA JoinsKeeps ==
  ASSUME PlacesInv, TypeOK', NEW t \in Threads, Joins(t), OthersStay(t), Home(t)',
         UNCHANGED <<cpuVars, setVars>>
  PROVE  PlacesInv'
<1>1. /\ UNCHANGED <<curthreads, nthread, cpuidx, renicing, moving, crashed>>
      /\ \A u \in Threads : state'[u] = "COM" <=> u = t \/ state[u] = "COM"
      /\ \A u \in Threads : state'[u] = "RUN" => state[u] = "RUN"
      /\ \A u \in Threads \ {t} : state'[u] = state[u]
      /\ state[t] # "COM"
  BY DEF Joins, cpuVars, setVars, PlacesInv, TypeOK, flagVars
<1>2. OnePlace'
  <2>1. /\ \A u \in Threads : cpuidx'[u] # None => curthreads'[cpuidx'[u]] = u
        /\ \A c \in Cpus : nthread'[c] = None => cpuidx'[curthreads'[c]] = c
        /\ \A u \in Threads : state'[u] = "RUN" => cpuidx'[u] # None
        /\ Once(threadqcom')
        /\ \A c, d \in Cpus : c # d =>
             {nthread'[c], moving'[c]} \cap {nthread'[d], moving'[d]} \subseteq {None}
        /\ \A c \in Cpus : None \in {nthread'[c], moving'[c]}
    BY <1>1 DEF PlacesInv, Placed, OnePlace, Joins
  <2>2. /\ \A u \in Threads : u \in Range(threadqcom') <=> u = t \/ u \in Range(threadqcom)
        /\ TypeOK /\ OnePlace
    BY DEF Joins, PlacesInv, Placed
  <2>3. /\ \A u \in Threads : u \in Range(threadqcom') =>
             state'[u] = "COM" /\ \A c \in Cpus : nthread'[c] # u /\ moving'[c] # u
        /\ \A c \in Cpus : /\ nthread'[c] # None => state'[nthread'[c]] = "COM"
                           /\ moving'[c] # None => state'[moving'[c]] = "COM"
        /\ \A u \in Threads : state'[u] = "COM" =>
             u \in Range(threadqcom') \/ \E c \in Cpus : nthread'[c] = u \/ moving'[c] = u
    <3>1. t # None /\ \A c \in Cpus : nthread[c] # t /\ moving[c] # t
      BY <1>1, <2>2, WantsCpu, ParamAssumption
    <3> QED
      BY <1>1, <2>2, <3>1, WantsCpu
  <2> QED
    BY <2>1, <2>3, InOnePlace
<1>3. ASSUME NEW u \in Threads PROVE Home(u)'
  BY <1>1 DEF OthersStay, Home, PlacesInv, Placed
<1>4. ASSUME NEW c \in Cpus PROVE Busy(c)'
  BY <1>1 DEF Busy, PlacesInv, Placed, Leaving, Locked, TypeOK
<1>5. Settled'
  BY <1>1 DEF Settled, Joins, PlacesInv
<1> QED
  BY <1>2, <1>3, <1>4, <1>5 DEF PlacesInv, Placed

-----------------------------------------------------------------------------
(* The helpers: changestate, makecom, and whoever wakes a thread.          *)

States == {"RUN", "COM", "WEV", "ZOM"}

(* What changestate changes has its type. *)
StateTyped ==
  /\ state' \in [Threads -> States] /\ curprio' \in [Threads -> Nat]
  /\ curprios' \in [Cpus -> Nat]

LEMMA ChangeStateIs ==
  ASSUME TypeOK, NEW t \in Threads, NEW s \in States, NEW p \in Nat, ChangeState(t, s, p)
  PROVE  /\ StateTyped
         /\ state' = [state EXCEPT ![t] = s] /\ curprio' = [curprio EXCEPT ![t] = p]
         /\ state'[t] = s /\ curprio'[t] = p
         /\ \A u \in Threads \ {t} : state'[u] = state[u] /\ curprio'[u] = curprio[u]
<1>1. /\ state \in [Threads -> States] /\ curprio \in [Threads -> Nat]
      /\ curprios \in [Cpus -> Nat] /\ cpuidx[t] \in Cpus \cup {None}
  BY DEF TypeOK, States
<1>2. state' = [state EXCEPT ![t] = s] /\ curprio' = [curprio EXCEPT ![t] = p]
  BY DEF ChangeState
<1>3. curprios' \in [Cpus -> Nat]
  BY <1>1 DEF ChangeState
<1> QED
  BY <1>1, <1>2, <1>3 DEF StateTyped

LEMMA BoostedTyped ==
  ASSUME TypeOK, NEW t \in Threads, NEW p \in Boosted(t)
  PROVE  p \in Nat
<1>1. Base[t] \in Nat /\ curprio[t] \in Nat
  BY ParamAssumption DEF TypeOK
<1>2. \A q \in Nat : Raised(t, q) \in Nat
  <2>1. ASSUME NEW q \in Nat PROVE Raised(t, q) \in Nat
    <3>1. CASE q < Base[t]
      <4>1. Base[t] - q \in Nat
        BY <1>1, <3>1
      <4>2. (Base[t] - q) \div 3 \in Nat
        BY <4>1
      <4> QED
        BY <3>1, <4>2 DEF Raised
    <3>2. CASE ~(q < Base[t])
      BY <3>2 DEF Raised
    <3> QED
      BY <3>1, <3>2
  <2> QED
    BY <2>1
<1> QED
  BY <1>1, <1>2 DEF Boosted

LEMMA MakeComIs ==
  ASSUME TypeOK, OnePlace, NEW t \in Threads, t \notin Range(threadqcom), NEW p \in Nat,
         NEW r \in SUBSET Cpus, NEW quiet, MakeCom(t, p, threadqcom, r, quiet)
  PROVE  /\ StateTyped /\ state' = [state EXCEPT ![t] = "COM"]
         /\ threadqcom' \in Seq(Threads) /\ Once(threadqcom')
         /\ Range(threadqcom') = Range(threadqcom) \cup {t}
         /\ Sorted(threadqcom, curprio) => Sorted(threadqcom', curprio')
         /\ resched' \in SUBSET Cpus /\ r \subseteq resched'
<1>1. ChangeState(t, "COM", p) /\ "COM" \in States
  BY DEF MakeCom, States
<1>2. /\ StateTyped /\ state' = [state EXCEPT ![t] = "COM"]
      /\ \A u \in Threads \ {t} : curprio'[u] = curprio[u]
  BY <1>1, ChangeStateIs
<1>3. /\ threadqcom \in Seq(Threads) /\ Once(threadqcom) /\ curprio' \in [Threads -> Nat]
      /\ threadqcom' = Insert(threadqcom, t, curprio')
      /\ \A u \in Range(threadqcom) : curprio'[u] = curprio[u]
  BY <1>2, WantsCpu, SMTT(20) DEF MakeCom, TypeOK, StateTyped
<1>4. /\ threadqcom' \in Seq(Threads) /\ Once(threadqcom')
      /\ Range(threadqcom') = Range(threadqcom) \cup {t}
      /\ Sorted(threadqcom, curprio') => Sorted(threadqcom', curprio')
  BY <1>3, InsertIs
<1>5. Sorted(threadqcom, curprio) => Sorted(threadqcom, curprio')
  BY <1>3, SortedSame
<1>6. Victims(t) \subseteq Cpus
  BY DEF Victims, TypeOK
<1>7. resched' = r \/ \E c \in Victims(t) : resched' = r \cup ({c} \ {quiet})
  BY DEF MakeCom
<1>8. resched' \in SUBSET Cpus /\ r \subseteq resched'
  BY <1>6, <1>7
<1> QED
  BY <1>2, <1>4, <1>5, <1>8

(* It stays where it is, or it joins the queue, and what it changes has its *)
(* type.                                                                   *)
Woken(t) ==
  /\ StateTyped /\ threadqcom' \in Seq(Threads)
  /\ resched' \in SUBSET Cpus /\ resched \subseteq resched'
  /\ Stays(t) \/ Joins(t)
  /\ \/ state'[t] = state[t]
     \/ state'[t] = "RUN" /\ cpuidx[t] # None
     \/ state'[t] = "COM" /\ cpuidx[t] = None

LEMMA WakeWevIs ==
  ASSUME PlacesInv, NEW t \in Threads, WakeWev(t), ~Locked(t)
  PROVE  Woken(t)
<1>0. TypeOK /\ OnePlace /\ (state[t] = "RUN" => cpuidx[t] # None)
  BY DEF PlacesInv, Placed, OnePlace
<1>1. CASE state[t] # "WEV"
  <2>1. UNCHANGED <<state, curprio, curprios, threadqcom, resched>>
    BY <1>1 DEF WakeWev
  <2>2. Stays(t)
    BY <1>0, <2>1 DEF Stays
  <2> QED
    BY <1>0, <2>1, <2>2 DEF Woken, StateTyped, TypeOK, States
<1>2. CASE state[t] = "WEV" /\ cpuidx[t] # None
  <2>1. PICK p \in Boosted(t) : ChangeState(t, "RUN", p)
    BY <1>2 DEF WakeWev
  <2>2. UNCHANGED <<threadqcom, resched>>
    BY <1>2 DEF WakeWev
  <2>3. /\ StateTyped /\ state'[t] = "RUN"
        /\ \A u \in Threads \ {t} : state'[u] = state[u] /\ curprio'[u] = curprio[u]
    BY <1>0, <2>1, ChangeStateIs, BoostedTyped DEF States
  <2>4. Stays(t)
    BY <1>2, <2>2, <2>3 DEF Stays
  <2> QED
    BY <1>0, <1>2, <2>2, <2>3, <2>4 DEF Woken, TypeOK
<1>3. CASE state[t] = "WEV" /\ cpuidx[t] = None
  <2>1. PICK p \in Boosted(t) : MakeCom(t, p, threadqcom, resched, None)
    BY <1>3 DEF WakeWev
  <2>2. t \notin Range(threadqcom) /\ p \in Nat /\ resched \in SUBSET Cpus
    BY <1>0, <1>3, WantsCpu, BoostedTyped DEF TypeOK
  <2>3. /\ StateTyped /\ state' = [state EXCEPT ![t] = "COM"]
        /\ threadqcom' \in Seq(Threads) /\ Once(threadqcom')
        /\ Range(threadqcom') = Range(threadqcom) \cup {t}
        /\ Sorted(threadqcom, curprio) => Sorted(threadqcom', curprio')
        /\ resched' \in SUBSET Cpus /\ resched \subseteq resched'
    BY <1>0, <2>1, <2>2, MakeComIs
  <2>4. Joins(t)
    BY <1>3, <2>3 DEF Joins
  <2>5. state'[t] = "COM"
    BY <1>0, <2>3 DEF TypeOK
  <2> QED
    BY <1>3, <2>3, <2>4, <2>5 DEF Woken
<1> QED
  BY <1>1, <1>2, <1>3

(* The cpu that executes a thread is the one it is loaded in. *)
LEMMA ExecutesIn ==
  ASSUME PlacesInv, NEW c \in Cpus, NEW t \in Threads, Executes(c, t)
  PROVE  /\ cpuidx[t] = c /\ nthread[c] = None /\ renicing[c] = None /\ moving[c] = None
         /\ \A u \in Threads : cpuidx[u] = c => u = t
<1>1. curthreads[c] = t /\ nthread[c] = None /\ renicing[c] = None /\ moving[c] = None
  BY DEF Executes
<1>2. c # None
  BY ParamAssumption
<1> QED
  BY <1>1, <1>2 DEF PlacesInv, Placed, OnePlace

(* Its own code is executed by a thread that runs or goes into a wait. *)
LEMMA AtHome ==
  ASSUME PlacesInv, NEW c \in Cpus, NEW t \in Threads, NEW p, p # "loop", At(c, t, p)
  PROVE  /\ cpuidx[t] = c /\ nthread[c] = None /\ c # None
         /\ handlingint[t] = 0 /\ pos[t] = p
         /\ state[t] = "RUN" \/ (p \in {"wev", "link", "chk"} /\ state[t] = "WEV")
<1>1. Executes(c, t) /\ handlingint[t] = 0 /\ pos[t] = p
  BY DEF At
<1>2. Home(t)
  BY DEF PlacesInv, Placed
<1> QED
  BY <1>1, <1>2, ExecutesIn, ParamAssumption DEF Home

LEMMA EnterIs ==
  ASSUME TypeOK, NEW t \in Threads, Enter(t)
  PROVE  /\ pos' \in [Threads -> Places] /\ byhw' \in SUBSET Threads
         /\ astmode' \in [Threads -> {"ENABLE", "INHIBIT"}]
         /\ pos'[t] \in {"run", "ast"} /\ \A u \in Threads \ {t} : pos'[u] = pos[u]
<1>1. /\ pos \in [Threads -> Places] /\ byhw \in SUBSET Threads
      /\ astmode \in [Threads -> {"ENABLE", "INHIBIT"}]
      /\ "run" \in Places /\ "ast" \in Places
  BY DEF TypeOK, Places
<1>2. CASE Deliverable(t)
  BY <1>1, <1>2 DEF Enter
<1>3. CASE ~Deliverable(t)
  BY <1>1, <1>3 DEF Enter
<1> QED
  BY <1>2, <1>3

LEMMA ReturnIs ==
  ASSUME TypeOK, NEW t \in Threads, Return(t)
  PROVE  /\ pos' \in [Threads -> Places] /\ byhw' \in SUBSET Threads
         /\ astmode' \in [Threads -> {"ENABLE", "INHIBIT"}]
         /\ \A u \in Threads \ {t} : pos'[u] = pos[u]
         /\ IF pos[t] = "run" THEN pos'[t] \in {"run", "ast"} ELSE pos'[t] = pos[t]
<1>1. CASE pos[t] = "run"
  BY <1>1, EnterIs DEF Return
<1>2. CASE pos[t] # "run"
  BY <1>2 DEF Return, TypeOK
<1> QED
  BY <1>1, <1>2

-----------------------------------------------------------------------------
(* A thread that goes into a wait, and comes out of it. *)

LEMMA WaitEventPlaces ==
  ASSUME PlacesInv, NEW c \in Cpus, NEW t \in Threads, WaitEvent(c, t)
  PROVE  PlacesInv'
<1>1. cpuidx[t] = c /\ c # None /\ nthread[c] = None /\ state[t] = "RUN" /\ pos[t] = "run"
  BY AtHome DEF WaitEvent
<1>2. /\ StateTyped /\ state'[t] = "WEV" /\ curprio' = [curprio EXCEPT ![t] = curprio[t]]
      /\ \A u \in Threads \ {t} : state'[u] = state[u] /\ curprio'[u] = curprio[u]
  <2>1. curprio[t] \in Nat /\ TypeOK
    BY DEF PlacesInv, TypeOK
  <2> QED
    BY <2>1, ChangeStateIs DEF WaitEvent, States
<1>3. pos' = [pos EXCEPT ![t] = "wev"] /\ pos' \in [Threads -> Places] /\ pos'[t] = "wev"
  BY DEF WaitEvent, PlacesInv, TypeOK, Places
<1>4. TypeOK'
  BY <1>2, <1>3 DEF WaitEvent, PlacesInv, TypeOK, StateTyped, States, cpuVars, timeVars,
       astVars, setVars, flagVars
<1>5. Stays(t) /\ OthersStay(t)
  BY <1>1, <1>2, <1>3 DEF WaitEvent, Stays, OthersStay, PlacesInv, TypeOK
<1>6. Home(t)'
  BY <1>1, <1>2, <1>3 DEF WaitEvent, Home, cpuVars
<1> QED
  BY <1>4, <1>5, <1>6, StaysKeeps DEF WaitEvent

LEMMA StayAwakeIs ==
  ASSUME TypeOK, NEW t \in Threads, StayAwake(t)
  PROVE  /\ StateTyped /\ state'[t] = "RUN"
         /\ \A u \in Threads \ {t} : state'[u] = state[u] /\ curprio'[u] = curprio[u]
         /\ pos' \in [Threads -> Places] /\ pos'[t] = "ret"
         /\ \A u \in Threads \ {t} : pos'[u] = pos[u]
         /\ setter' \in [Threads -> Setting]
<1>0. setter' \in [Threads -> Setting]
  BY DEF StayAwake, Unlink, TypeOK, Setting
<1>1. PICK p \in Boosted(t) : ChangeState(t, "RUN", p)
  BY DEF StayAwake
<1>2. /\ StateTyped /\ state'[t] = "RUN"
      /\ \A u \in Threads \ {t} : state'[u] = state[u] /\ curprio'[u] = curprio[u]
  BY <1>1, ChangeStateIs, BoostedTyped DEF States
<1>3. /\ pos' \in [Threads -> Places] /\ pos'[t] = "ret"
      /\ \A u \in Threads \ {t} : pos'[u] = pos[u]
  BY DEF StayAwake, TypeOK, Places
<1> QED
  BY <1>0, <1>2, <1>3

(* It stays awake, or goes on to p. *)
LEMMA GoesOnPlaces ==
  ASSUME PlacesInv, NEW c \in Cpus, NEW t \in Threads, NEW p \in {"link", "chk", "loop"},
         At(c, t, "wev") \/ At(c, t, "link") \/ At(c, t, "chk"),
         \/ StayAwake(t) /\ ~Locked(t)
         \/ pos' = [pos EXCEPT ![t] = p] /\ UNCHANGED <<state, curprio, curprios, setter>>,
         UNCHANGED <<threadqcom, cpuVars, resched, timeVars, handlingint, flag, astVars, setVars>>
  PROVE  PlacesInv'
<1>1. /\ cpuidx[t] = c /\ c # None /\ nthread[c] = None
      /\ state[t] \in {"RUN", "WEV"} /\ pos[t] \in {"wev", "link", "chk"}
  <2>1. PICK w \in {"wev", "link", "chk"} : At(c, t, w)
    OBVIOUS
  <2> QED
    BY <2>1, AtHome
<1>2. CASE StayAwake(t) /\ ~Locked(t)
  <2>1. /\ StateTyped /\ state'[t] = "RUN"
        /\ \A u \in Threads \ {t} : state'[u] = state[u] /\ curprio'[u] = curprio[u]
        /\ pos' \in [Threads -> Places] /\ pos'[t] = "ret"
        /\ \A u \in Threads \ {t} : pos'[u] = pos[u]
        /\ setter' \in [Threads -> Setting]
    BY <1>2, StayAwakeIs DEF PlacesInv
  <2>2. TypeOK'
    <3>1. TypeOK
      BY DEF PlacesInv
    <3>2. UNCHANGED <<cpuidx, threadqcom, curthreads, nthread, resched, quantum, expired,
                      handlingint, flag, asts, astmode, byhw, renicing, moving, crashed>>
      BY DEF cpuVars, timeVars, astVars, setVars
    <3> QED
      BY <2>1, <3>1, <3>2 DEF TypeOK, StateTyped, States
  <2>3. Stays(t) /\ OthersStay(t)
    BY <1>1, <1>2, <2>1 DEF Stays, OthersStay
  <2>4. Home(t)'
    BY <1>1, <2>1 DEF Home, cpuVars
  <2> QED
    BY <2>2, <2>3, <2>4, StaysKeeps
<1>3. CASE pos' = [pos EXCEPT ![t] = p] /\ UNCHANGED <<state, curprio, curprios, setter>>
  <2>1. /\ pos' \in [Threads -> Places] /\ pos'[t] = p
        /\ \A u \in Threads \ {t} : pos'[u] = pos[u]
    BY <1>3 DEF PlacesInv, TypeOK, Places
  <2>2. TypeOK'
    BY <1>3, <2>1 DEF PlacesInv, TypeOK, cpuVars, timeVars, astVars, setVars, flagVars
  <2>3. Stays(t) /\ OthersStay(t)
    BY <1>1, <1>3, <2>1 DEF Stays, OthersStay
  <2>4. Home(t)'
    BY <1>1, <1>3, <2>1 DEF Home, cpuVars
  <2> QED
    BY <2>2, <2>3, <2>4, StaysKeeps
<1> QED
  BY <1>2, <1>3

LEMMA TestEventPlaces ==
  ASSUME PlacesInv, NEW c \in Cpus, NEW t \in Threads, TestEvent(c, t)
  PROVE  PlacesInv'
  BY GoesOnPlaces DEF TestEvent

LEMMA LinkEventPlaces ==
  ASSUME PlacesInv, NEW c \in Cpus, NEW t \in Threads, LinkEvent(c, t)
  PROVE  PlacesInv'
  BY GoesOnPlaces DEF LinkEvent, flagVars

LEMMA CheckAstsPlaces ==
  ASSUME PlacesInv, NEW c \in Cpus, NEW t \in Threads, CheckAsts(c, t)
  PROVE  PlacesInv'
  BY GoesOnPlaces DEF CheckAsts

(* The thread runs on, in its own code, and only the rest of it changes. *)
LEMMA RunsOnPlaces ==
  ASSUME PlacesInv, TypeOK', NEW c \in Cpus, NEW t \in Threads,
         Executes(c, t), state[t] = "RUN", OthersStay(t),
         UNCHANGED <<state, curprio, threadqcom, cpuVars, setVars>>
  PROVE  PlacesInv'
<1>1. cpuidx[t] = c /\ c # None /\ nthread[c] = None
  BY ExecutesIn, ParamAssumption
<1>2. Stays(t)
  BY <1>1 DEF Stays
<1>3. Home(t)'
  BY <1>1 DEF Home, cpuVars
<1> QED
  BY <1>2, <1>3, StaysKeeps

LEMMA EndWaitPlaces ==
  ASSUME PlacesInv, NEW c \in Cpus, NEW t \in Threads, EndWait(c, t)
  PROVE  PlacesInv'
<1>1. Executes(c, t) /\ state[t] = "RUN"
  BY DEF EndWait, At
<1>2. TypeOK' /\ OthersStay(t)
  BY DEF EndWait, Unlink, Setting, StartQuantum, PlacesInv, TypeOK, Places, OthersStay, cpuVars,
         astVars, setVars
<1> QED
  BY <1>1, <1>2, RunsOnPlaces DEF EndWait

(* A thread in its own code runs. *)
LEMMA AtRuns ==
  ASSUME PlacesInv, NEW c \in Cpus, NEW t \in Threads, NEW p \in {"run", "ret", "ast", "end"}, At(c, t, p)
  PROVE  Executes(c, t) /\ state[t] = "RUN" /\ cpuidx[t] = c /\ c # None
  BY AtHome DEF At

LEMMA EnableSoftintPlaces ==
  ASSUME PlacesInv, NEW c \in Cpus, NEW t \in Threads, EnableSoftint(c, t)
  PROVE  PlacesInv'
<1>1. Executes(c, t) /\ state[t] = "RUN"
  BY AtRuns DEF EnableSoftint
<1>2. /\ pos' \in [Threads -> Places] /\ byhw' \in SUBSET Threads
      /\ astmode' \in [Threads -> {"ENABLE", "INHIBIT"}]
      /\ \A u \in Threads \ {t} : pos'[u] = pos[u]
  BY EnterIs DEF EnableSoftint, PlacesInv
<1>3. TypeOK'
  BY <1>2 DEF EnableSoftint, PlacesInv, TypeOK, cpuVars, timeVars, setVars, flagVars
<1>4. OthersStay(t)
  BY <1>2 DEF EnableSoftint, OthersStay
<1> QED
  BY <1>1, <1>3, <1>4, RunsOnPlaces DEF EnableSoftint

LEMMA ClearEventPlaces ==
  ASSUME PlacesInv, NEW c \in Cpus, NEW t \in Threads, ClearEvent(c, t)
  PROVE  PlacesInv'
<1>1. Executes(c, t) /\ state[t] = "RUN"
  BY AtRuns DEF ClearEvent
<1>2. TypeOK' /\ OthersStay(t)
  BY DEF ClearEvent, PlacesInv, TypeOK, OthersStay, cpuVars, timeVars, astVars, setVars, flagVars
<1> QED
  BY <1>1, <1>2, RunsOnPlaces DEF ClearEvent

LEMMA DeqAstPlaces ==
  ASSUME PlacesInv, NEW c \in Cpus, NEW t \in Threads, DeqAst(c, t)
  PROVE  PlacesInv'
<1>1. Executes(c, t) /\ state[t] = "RUN"
  BY AtRuns DEF DeqAst
<1>2. asts' \in [Threads -> 0 .. MaxAsts] /\ pos' \in [Threads -> Places]
  <2>1. asts \in [Threads -> 0 .. MaxAsts] /\ pos \in [Threads -> Places] /\ MaxAsts \in Nat
    BY ParamAssumption DEF PlacesInv, TypeOK
  <2>2. CASE asts[t] > 0
    <3>1. asts[t] - 1 \in 0 .. MaxAsts
      BY <2>1, <2>2
    <3> QED
      BY <2>1, <2>2, <3>1 DEF DeqAst
  <2>3. CASE ~(asts[t] > 0)
    BY <2>1, <2>3 DEF DeqAst, Places
  <2> QED
    BY <2>2, <2>3
<1>3. TypeOK' /\ OthersStay(t)
  BY <1>2 DEF DeqAst, PlacesInv, TypeOK, OthersStay, cpuVars, timeVars, setVars, flagVars
<1> QED
  BY <1>1, <1>3, RunsOnPlaces DEF DeqAst

LEMMA EndAstsPlaces ==
  ASSUME PlacesInv, NEW c \in Cpus, NEW t \in Threads, EndAsts(c, t)
  PROVE  PlacesInv'
<1>1. Executes(c, t) /\ state[t] = "RUN"
  BY AtRuns DEF EndAsts
<1>2. /\ pos' \in [Threads -> Places] /\ byhw' \in SUBSET Threads
      /\ astmode' \in [Threads -> {"ENABLE", "INHIBIT"}]
      /\ \A u \in Threads \ {t} : pos'[u] = pos[u]
  <2>1. /\ pos \in [Threads -> Places] /\ byhw \in SUBSET Threads
        /\ astmode \in [Threads -> {"ENABLE", "INHIBIT"}]
        /\ "ast" \in Places /\ "run" \in Places
    BY DEF PlacesInv, TypeOK, Places
  <2> QED
    BY <2>1 DEF EndAsts
<1>3. TypeOK'
  BY <1>2 DEF EndAsts, PlacesInv, TypeOK, cpuVars, timeVars, setVars, flagVars
<1>4. OthersStay(t)
  BY <1>2 DEF EndAsts, OthersStay
<1> QED
  BY <1>1, <1>3, <1>4, RunsOnPlaces DEF EndAsts

LEMMA SetAstPlaces ==
  ASSUME PlacesInv, NEW c \in Cpus, NEW t \in Threads, SetAst(c, t)
  PROVE  PlacesInv'
<1>1. Executes(c, t) /\ state[t] = "RUN"
  BY AtRuns DEF SetAst
<1>2. TypeOK' /\ OthersStay(t)
  BY DEF SetAst, PlacesInv, TypeOK, Places, OthersStay, cpuVars, timeVars, setVars, flagVars
<1> QED
  BY <1>1, <1>2, RunsOnPlaces DEF SetAst

LEMMA ExitPlaces ==
  ASSUME PlacesInv, NEW c \in Cpus, NEW t \in Threads, Exit(c, t)
  PROVE  PlacesInv'
<1>1. state[t] = "RUN" /\ cpuidx[t] = c /\ c # None
  BY AtRuns DEF Exit
<1>2. /\ StateTyped /\ state'[t] = "ZOM"
      /\ \A u \in Threads \ {t} : state'[u] = state[u] /\ curprio'[u] = curprio[u]
  <2>1. curprio[t] \in Nat /\ TypeOK
    BY DEF PlacesInv, TypeOK
  <2> QED
    BY <2>1, ChangeStateIs DEF Exit, States
<1>3. pos' \in [Threads -> Places] /\ pos'[t] = "loop" /\ \A u \in Threads \ {t} : pos'[u] = pos[u]
  BY DEF Exit, PlacesInv, TypeOK, Places
<1>4. asts' \in [Threads -> 0 .. MaxAsts]
  BY ParamAssumption DEF Exit, PlacesInv, TypeOK
<1>5. TypeOK'
  BY <1>2, <1>3, <1>4 DEF Exit, PlacesInv, TypeOK, StateTyped, States, cpuVars, timeVars,
       setVars, flagVars
<1>6. Stays(t) /\ OthersStay(t)
  BY <1>1, <1>2, <1>3 DEF Exit, Stays, OthersStay
<1>7. Home(t)'
  BY <1>3 DEF Home
<1> QED
  BY <1>5, <1>6, <1>7, StaysKeeps DEF Exit

-----------------------------------------------------------------------------
(* Whoever wakes a thread. *)

(* Everything else that concerns it, and all that concerns the others, is as *)
(* it was.                                                                 *)
LEMMA WokenPlaces ==
  ASSUME PlacesInv, TypeOK', NEW t \in Threads, Woken(t),
         UNCHANGED <<cpuVars, handlingint, pos, setVars>>
  PROVE  PlacesInv'
<1>1. OthersStay(t)
  BY DEF OthersStay
<1>2. Home(t)'
  BY DEF Home, Woken, PlacesInv, Placed, cpuVars
<1>3. Stays(t) \/ Joins(t)
  BY DEF Woken
<1> QED
  BY <1>1, <1>2, <1>3, StaysKeeps, JoinsKeeps

LEMMA SetEventPlaces ==
  ASSUME PlacesInv, NEW t \in Threads, SetEvent(t) \/ LookList(t)
  PROVE  PlacesInv'
<1>1. UNCHANGED <<state, curprio, curprios, threadqcom, cpuVars, resched, timeVars, handlingint,
                  pos, astVars, setVars>>
  BY DEF SetEvent, LookList
<1>2. flag' \in [Threads -> BOOLEAN] /\ setter' \in [Threads -> Setting]
  BY DEF SetEvent, LookList, PlacesInv, TypeOK, Setting
<1>3. TypeOK' /\ OnePlace'
  BY <1>1, <1>2 DEF PlacesInv, TypeOK, Placed, OnePlace, cpuVars, timeVars, astVars, setVars
<1>4. (\A u \in Threads : Home(u)') /\ (\A c \in Cpus : Busy(c)') /\ Settled'
  BY <1>1 DEF PlacesInv, Placed, Home, Busy, Leaving, Settled, cpuVars, setVars
<1> QED
  BY <1>3, <1>4 DEF PlacesInv, Placed

LEMMA WakeThreadIs ==
  ASSUME PlacesInv, NEW t \in Threads, WakeThread(t)
  PROVE  Woken(t)
<1>1. CASE Linked(t)
  BY <1>1, WakeWevIs DEF WakeThread
<1>2. CASE ~Linked(t)
  <2>1. UNCHANGED <<state, curprio, curprios, threadqcom, resched>>
    BY <1>2 DEF WakeThread
  <2> QED
    BY <2>1 DEF Woken, Stays, StateTyped, States, PlacesInv, TypeOK, Placed, OnePlace
<1> QED
  BY <1>1, <1>2

LEMMA WakeThreadPlaces ==
  ASSUME PlacesInv, NEW t \in Threads, WakeThread(t)
  PROVE  PlacesInv'
<1>1. Woken(t)
  BY WakeThreadIs
<1>2. setter' \in [Threads -> Setting]
  BY DEF WakeThread, PlacesInv, TypeOK, Setting
<1>3. TypeOK'
  BY <1>1, <1>2 DEF WakeThread, Woken, StateTyped, States, PlacesInv, TypeOK, cpuVars, timeVars,
                    astVars, setVars
<1> QED
  BY <1>1, <1>3, WokenPlaces DEF WakeThread

LEMMA QueueAstIs ==
  ASSUME PlacesInv, NEW t \in Threads, QueueAst(t)
  PROVE  Woken(t)
<1>1. CASE asts[t] = 0 /\ astmode[t] = "ENABLE" /\ state[t] # "RUN"
  BY <1>1, WakeWevIs DEF QueueAst
<1>2. CASE ~(asts[t] = 0 /\ astmode[t] = "ENABLE" /\ state[t] # "RUN")
  <2>1. /\ UNCHANGED <<state, curprio, curprios, threadqcom>>
        /\ resched' = resched \/ (state[t] = "RUN" /\ resched' = resched \cup {cpuidx[t]})
    BY <1>2 DEF QueueAst
  <2>2. state[t] = "RUN" => cpuidx[t] \in Cpus
    BY DEF PlacesInv, TypeOK, Placed, OnePlace
  <2>3. resched' \in SUBSET Cpus /\ resched \subseteq resched'
    BY <2>1, <2>2 DEF PlacesInv, TypeOK
  <2> QED
    BY <2>1, <2>3 DEF Woken, Stays, StateTyped, States, PlacesInv, TypeOK, Placed, OnePlace
<1> QED
  BY <1>1, <1>2

LEMMA QueueAstPlaces ==
  ASSUME PlacesInv, NEW t \in Threads, QueueAst(t)
  PROVE  PlacesInv'
<1>1. Woken(t)
  BY QueueAstIs
<1>2. asts' \in [Threads -> 0 .. MaxAsts]
  <2>1. asts \in [Threads -> 0 .. MaxAsts] /\ MaxAsts \in Nat
    BY ParamAssumption DEF PlacesInv, TypeOK
  <2>2. asts[t] + 1 \in 0 .. MaxAsts
    BY <2>1 DEF QueueAst
  <2> QED
    BY <2>1, <2>2 DEF QueueAst
<1>3. TypeOK'
  BY <1>1, <1>2 DEF QueueAst, Woken, StateTyped, States, PlacesInv, TypeOK, cpuVars, timeVars,
       setVars, flagVars
<1> QED
  BY <1>1, <1>3, WokenPlaces DEF QueueAst

-----------------------------------------------------------------------------
(* Interrupts. *)

LEMMA HandleIntPlaces ==
  ASSUME PlacesInv, NEW c \in Cpus, NEW t \in Threads, HandleInt(c, t)
  PROVE  PlacesInv'
<1> DEFINE out == state[t] = "RUN" /\ t \in expired
           p == IF out /\ curprio[t] > 1 THEN curprio[t] - 1 ELSE curprio[t]
           go == Better(t, p, out)
<1>1. Executes(c, t) /\ ~Locked(t) /\ (handlingint[t] > 0 \/ pos[t] \in {"run", "ast", "end", "loop"})
  BY DEF HandleInt, Softints
<1>2. cpuidx[t] = c /\ c # None /\ nthread[c] = None
  BY <1>1, ExecutesIn, ParamAssumption
<1>3. p \in Nat /\ TypeOK /\ OnePlace
  BY DEF PlacesInv, TypeOK, Placed
<1>4. /\ expired' \in SUBSET Threads
      /\ handlingint' = IF go THEN [handlingint EXCEPT ![t] = IF @ = 0 THEN 1 ELSE 2] ELSE handlingint
      /\ IF go /\ handlingint[t] = 0 /\ state[t] = "RUN"
         THEN MakeCom(t, p, threadqcom, resched \ {c}, c)
         ELSE /\ threadqcom' = threadqcom /\ resched' = resched \ {c}
              /\ \/ state[t] = "RUN" /\ state' = state /\ curprio' = [curprio EXCEPT ![t] = p]
                    /\ curprios' = [curprios EXCEPT ![c] = p]
                 \/ state[t] = "WEV" /\ \E q \in Boosted(t) : ChangeState(t, "RUN", q)
                 \/ UNCHANGED <<state, curprio, curprios>>
      /\ IF go \/ handlingint[t] > 0 THEN UNCHANGED <<pos, byhw, astmode>> ELSE Return(t)
      /\ UNCHANGED <<cpuVars, quantum, flagVars, asts, setVars>>
  <2> HIDE DEF go
  <2> QED
    BY DEF HandleInt, PlacesInv, TypeOK, go
<1> HIDE DEF p, go, out
<1>5. /\ handlingint' \in [Threads -> 0 .. 2] /\ (go => handlingint'[t] > 0)
      /\ (~go => handlingint' = handlingint)
      /\ \A u \in Threads \ {t} : handlingint'[u] = handlingint[u]
  BY <1>3, <1>4 DEF TypeOK
<1>6. /\ pos' \in [Threads -> Places] /\ byhw' \in SUBSET Threads
      /\ astmode' \in [Threads -> {"ENABLE", "INHIBIT"}]
      /\ \A u \in Threads \ {t} : pos'[u] = pos[u]
      /\ pos[t] # "run" => pos'[t] = pos[t]
  <2>1. CASE Return(t)
    BY <1>3, <2>1, ReturnIs
  <2>2. CASE UNCHANGED <<pos, byhw, astmode>>
    BY <1>3, <2>2 DEF TypeOK
  <2> QED
    BY <1>4, <2>1, <2>2
<1>7. OthersStay(t)
  BY <1>5, <1>6 DEF OthersStay
<1>8. CASE go /\ handlingint[t] = 0 /\ state[t] = "RUN"
  <2>1. t \notin Range(threadqcom) /\ resched \ {c} \in SUBSET Cpus
    BY <1>3, <1>8, WantsCpu DEF TypeOK
  <2>2. /\ StateTyped /\ state' = [state EXCEPT ![t] = "COM"]
        /\ threadqcom' \in Seq(Threads) /\ Once(threadqcom')
        /\ Range(threadqcom') = Range(threadqcom) \cup {t}
        /\ Sorted(threadqcom, curprio) => Sorted(threadqcom', curprio')
        /\ resched' \in SUBSET Cpus
    BY <1>3, <1>4, <1>8, <2>1, MakeComIs
  <2>3. TypeOK'
    BY <1>3, <1>4, <1>5, <1>6, <2>2 DEF TypeOK, StateTyped, States, cpuVars, setVars, flagVars
  <2>4. Joins(t)
    BY <1>8, <2>2 DEF Joins
  <2>5. Home(t)'
    BY <1>5, <1>8 DEF Home
  <2> QED
    BY <1>4, <1>7, <2>3, <2>4, <2>5, JoinsKeeps
<1>9. CASE ~(go /\ handlingint[t] = 0 /\ state[t] = "RUN")
  <2>1. threadqcom' = threadqcom /\ resched' = resched \ {c}
    BY <1>4, <1>9
  <2>2. /\ StateTyped
        /\ \A u \in Threads \ {t} : state'[u] = state[u] /\ curprio'[u] = curprio[u]
        /\ \/ state'[t] = "RUN" /\ state[t] \in {"RUN", "WEV"}
           \/ state' = state /\ curprio' = curprio
    <3>1. CASE state[t] = "RUN" /\ state' = state /\ curprio' = [curprio EXCEPT ![t] = p]
               /\ curprios' = [curprios EXCEPT ![c] = p]
      BY <1>3, <3>1 DEF TypeOK, StateTyped, States
    <3>2. CASE state[t] = "WEV" /\ \E q \in Boosted(t) : ChangeState(t, "RUN", q)
      <4>1. PICK q \in Boosted(t) : ChangeState(t, "RUN", q)
        BY <3>2
      <4> QED
        BY <1>3, <3>2, <4>1, ChangeStateIs, BoostedTyped DEF States
    <3>3. CASE UNCHANGED <<state, curprio, curprios>>
      BY <1>3, <3>3 DEF TypeOK, StateTyped, States
    <3> QED
      BY <1>4, <1>9, <3>1, <3>2, <3>3
  <2>3. TypeOK'
    BY <1>3, <1>4, <1>5, <1>6, <2>1, <2>2 DEF TypeOK, StateTyped, States, cpuVars, setVars, flagVars
  <2>4. Stays(t)
    BY <1>1, <1>2, <2>1, <2>2 DEF Stays
  <2>5. Home(t)'
    <3>1. ASSUME handlingint'[t] = 0, pos'[t] # "loop" PROVE state'[t] = "RUN"
      <4>1. handlingint[t] = 0 /\ pos[t] # "loop"
        BY <1>3, <1>5, <1>6, <3>1 DEF TypeOK
      <4>2. pos[t] \notin {"wev", "link", "chk"}
        BY <1>1, <4>1
      <4>3. state[t] = "RUN"
        BY <4>1, <4>2 DEF PlacesInv, Placed, Home
      <4> QED
        BY <2>2, <4>3
    <3> QED
      BY <1>2, <1>4, <3>1 DEF Home, cpuVars
  <2> QED
    BY <1>4, <1>7, <2>3, <2>4, <2>5, StaysKeeps
<1> QED
  BY <1>8, <1>9

LEMMA ResumePlaces ==
  ASSUME PlacesInv, NEW c \in Cpus, NEW t \in Threads, Resume(c, t)
  PROVE  PlacesInv'
<1>1. /\ Executes(c, t) /\ state[t] = "RUN" /\ handlingint[t] > 0
      /\ TypeOK /\ OnePlace
  BY DEF Resume, PlacesInv, Placed
<1>2. /\ handlingint' \in [Threads -> 0 .. 2] /\ handlingint'[t] = handlingint[t] - 1
      /\ \A u \in Threads \ {t} : handlingint'[u] = handlingint[u]
  <2>1. handlingint \in [Threads -> 0 .. 2] /\ handlingint[t] - 1 \in 0 .. 2
    BY <1>1 DEF TypeOK
  <2> QED
    BY <2>1 DEF Resume
<1>3. CASE handlingint[t] = 2
  <2>1. /\ MakeCom(t, curprio[t], threadqcom, resched, c)
        /\ UNCHANGED <<quantum, pos, byhw, astmode>>
        /\ UNCHANGED <<cpuVars, expired, flagVars, asts, setVars>>
    BY <1>3 DEF Resume
  <2>2. t \notin Range(threadqcom) /\ resched \in SUBSET Cpus /\ curprio[t] \in Nat
    <3>1. t \notin Range(threadqcom)
      BY <1>1, WantsCpu
    <3> QED
      BY <1>1, <3>1 DEF TypeOK
  <2>3. /\ StateTyped /\ state' = [state EXCEPT ![t] = "COM"]
        /\ threadqcom' \in Seq(Threads) /\ Once(threadqcom')
        /\ Range(threadqcom') = Range(threadqcom) \cup {t}
        /\ Sorted(threadqcom, curprio) => Sorted(threadqcom', curprio')
        /\ resched' \in SUBSET Cpus
    BY <1>1, <2>1, <2>2, MakeComIs
  <2>4. TypeOK'
    BY <1>1, <1>2, <2>1, <2>3 DEF TypeOK, StateTyped, States, cpuVars, setVars, flagVars
  <2>5. Joins(t)
    BY <1>1, <2>3 DEF Joins
  <2>6. Home(t)' /\ OthersStay(t)
    BY <1>2, <1>3, <2>1 DEF Home, OthersStay
  <2> QED
    BY <2>1, <2>4, <2>5, <2>6, JoinsKeeps
<1>4. CASE handlingint[t] # 2
  <2>1. /\ StartQuantum(c, t, resched) /\ Return(t)
        /\ UNCHANGED <<state, curprio, curprios, threadqcom>>
        /\ UNCHANGED <<cpuVars, expired, flagVars, asts, setVars>>
    BY <1>4 DEF Resume
  <2>2. /\ pos' \in [Threads -> Places] /\ byhw' \in SUBSET Threads
        /\ astmode' \in [Threads -> {"ENABLE", "INHIBIT"}]
        /\ \A u \in Threads \ {t} : pos'[u] = pos[u]
    BY <1>1, <2>1, ReturnIs
  <2>3. quantum' \in SUBSET Cpus /\ resched' \in SUBSET Cpus
    BY <1>1, <2>1 DEF StartQuantum, TypeOK
  <2>4. TypeOK'
    BY <1>1, <1>2, <2>1, <2>2, <2>3 DEF TypeOK, cpuVars, setVars, flagVars
  <2>5. OthersStay(t)
    BY <1>2, <2>2 DEF OthersStay
  <2> QED
    BY <1>1, <2>1, <2>4, <2>5, RunsOnPlaces
<1> QED
  BY <1>3, <1>4

(* The queue is put in another order. *)
LEMMA QuantimexPlaces ==
  ASSUME PlacesInv, NEW c \in Cpus, NEW t \in Threads, Quantimex(c, t)
  PROVE  PlacesInv'
<1>1. PICK up \in SUBSET {u \in Range(threadqcom) : curprio[u] < Base[u]} :
         /\ curprio' = [u \in Threads |-> IF u \in up THEN curprio[u] + 1 ELSE curprio[u]]
         /\ threadqcom' \in Merged(threadqcom, up, curprio')
  BY DEF Quantimex
<1>2. /\ threadqcom \in Seq(Threads) /\ Once(threadqcom) /\ TypeOK /\ OnePlace
      /\ curprio \in [Threads -> Nat]
  BY WantsCpu DEF PlacesInv, Placed, TypeOK
<1>3. curprio' \in [Threads -> Nat]
  BY <1>1, <1>2
<1>4. /\ threadqcom' \in Seq(Threads) /\ Once(threadqcom')
      /\ Range(threadqcom') = Range(threadqcom)
  BY <1>1, <1>2, MergedIs
<1>5. Sorted(threadqcom, curprio) => Sorted(threadqcom', curprio')
  <2>1. \A u \in Threads : curprio'[u] = IF u \in up THEN curprio[u] + 1 ELSE curprio[u]
    BY <1>1
  <2> QED
    BY <1>1, <1>2, <1>3, <2>1, MergedSorted
<1>6. UNCHANGED <<state, cpuidx, curthreads, nthread, renicing, moving, crashed, handlingint, pos,
                  curprios, flagVars, asts, astmode, byhw>>
  BY DEF Quantimex, cpuVars, astVars, setVars
<1>7. TypeOK'
  <2>1. quantum' \in SUBSET Cpus /\ resched' \in SUBSET Cpus /\ expired' \in SUBSET Threads
    BY <1>2 DEF Quantimex, TypeOK
  <2> QED
    BY <1>2, <1>3, <1>4, <1>6, <2>1 DEF TypeOK, flagVars
<1>8. OnePlace'
  <2>1. /\ \A u \in Threads : cpuidx'[u] # None => curthreads'[cpuidx'[u]] = u
        /\ \A d \in Cpus : nthread'[d] = None => cpuidx'[curthreads'[d]] = d
        /\ \A u \in Threads : state'[u] = "RUN" => cpuidx'[u] # None
        /\ \A d, e \in Cpus : d # e =>
             {nthread'[d], moving'[d]} \cap {nthread'[e], moving'[e]} \subseteq {None}
        /\ \A d \in Cpus : None \in {nthread'[d], moving'[d]}
    BY <1>2, <1>6 DEF OnePlace
  <2>2. /\ \A u \in Threads : u \in Range(threadqcom') =>
             state'[u] = "COM" /\ \A d \in Cpus : nthread'[d] # u /\ moving'[d] # u
        /\ \A d \in Cpus : /\ nthread'[d] # None => state'[nthread'[d]] = "COM"
                           /\ moving'[d] # None => state'[moving'[d]] = "COM"
        /\ \A u \in Threads : state'[u] = "COM" =>
             u \in Range(threadqcom') \/ \E d \in Cpus : nthread'[d] = u \/ moving'[d] = u
    BY <1>2, <1>4, <1>6, WantsCpu
  <2> QED
    BY <1>4, <1>7, <2>1, <2>2, InOnePlace
<1>9. Settled'
  BY <1>5, <1>6 DEF Settled, PlacesInv
<1>10. /\ \A u \in Threads : Home(u)'
       /\ \A d \in Cpus : Busy(d)'
  BY <1>6 DEF Home, Busy, Leaving, PlacesInv, Placed
<1> QED
  BY <1>7, <1>8, <1>9, <1>10 DEF PlacesInv, Placed

-----------------------------------------------------------------------------
(* oz_knl_thread_setcurprio *)

LEMMA SetCurPrioPlaces ==
  ASSUME PlacesInv, NEW c \in Cpus, NEW t \in Threads, SetCurPrio(c, t)
  PROVE  PlacesInv'
<1>1. PICK u \in Reniced, p \in NewPrios :
       /\ ~Locked(u)
       /\ curprio' = [curprio EXCEPT ![u] = p]
       /\ IF state[u] # "RUN" THEN UNCHANGED <<curprios, resched>>
          ELSE /\ curprios' = [curprios EXCEPT ![cpuidx[u]] = p]
               /\ resched' =
                    IF p < curprio[u] /\ threadqcom # <<>> /\ curprio[Head(threadqcom)] >= p
                    THEN resched \cup {cpuidx[u]} ELSE resched
       /\ renicing' = IF state[u] = "COM" THEN [renicing EXCEPT ![c] = u] ELSE renicing
  BY DEF SetCurPrio
<1>2. u \in Threads /\ p \in Nat
  BY ParamAssumption
<1>3. nthread[c] = None /\ moving[c] = None
  BY ExecutesIn DEF SetCurPrio, At
<1>4. UNCHANGED <<state, threadqcom, cpuidx, curthreads, nthread, moving, crashed, handlingint, pos>>
  BY DEF SetCurPrio, cpuVars
<1>5. TypeOK'
  <2>1. state[u] = "RUN" => cpuidx[u] \in Cpus
    BY <1>2 DEF PlacesInv, TypeOK, Placed, OnePlace
  <2>2. /\ curprio' \in [Threads -> Nat] /\ curprios' \in [Cpus -> Nat] /\ resched' \in SUBSET Cpus
        /\ renicing' \in [Cpus -> Threads \cup {None}]
    <3>1. /\ curprio \in [Threads -> Nat] /\ curprios \in [Cpus -> Nat] /\ resched \in SUBSET Cpus
          /\ renicing \in [Cpus -> Threads \cup {None}]
      BY DEF PlacesInv, TypeOK
    <3>2. curprio' \in [Threads -> Nat] /\ renicing' \in [Cpus -> Threads \cup {None}]
      BY <1>1, <1>2, <3>1
    <3>3. curprios' \in [Cpus -> Nat] /\ resched' \in SUBSET Cpus
      BY <1>1, <1>2, <2>1, <3>1
    <3> QED
      BY <3>2, <3>3
  <2> QED
    BY <1>4, <2>2 DEF SetCurPrio, PlacesInv, TypeOK, timeVars, astVars, flagVars
<1>6. OnePlace'
  BY <1>4 DEF OnePlace, PlacesInv, Placed
<1>7. \A v \in Threads : Home(v)'
  BY <1>4 DEF Home, PlacesInv, Placed
<1>8. ASSUME NEW d \in Cpus PROVE Busy(d)'
  BY <1>1, <1>2, <1>3, <1>4 DEF Busy, Leaving, PlacesInv, Placed, TypeOK
<1>9. Settled'
  BY <1>2 DEF Settled, PlacesInv
<1> QED
  BY <1>5, <1>6, <1>7, <1>8, <1>9 DEF PlacesInv, Placed

LEMMA UnqueuePlaces ==
  ASSUME PlacesInv, NEW c \in Cpus, Unqueue(c)
  PROVE  PlacesInv'
<1> DEFINE u == renicing[c]
<1>1. /\ u # None /\ u \in Threads /\ nthread[c] = None /\ moving[c] = None
      /\ TypeOK /\ OnePlace /\ Reniced # {}
  BY DEF Unqueue, PlacesInv, TypeOK, Placed, Busy, Settled
<1>2. /\ UNCHANGED <<state, curprio, curprios, cpuVars, resched, timeVars, handlingint, pos, flagVars,
                     astVars>>
      /\ UNCHANGED <<cpuidx, curthreads, nthread>>
  BY DEF Unqueue, cpuVars
<1>3. CASE u \in Range(threadqcom)
  <2>1. /\ threadqcom' = RemoveFirst(threadqcom, u) /\ crashed' = crashed
        /\ renicing' = [renicing EXCEPT ![c] = None] /\ moving' = [moving EXCEPT ![c] = u]
    BY <1>3 DEF Unqueue
  <2>2. /\ threadqcom' \in Seq(Threads) /\ Once(threadqcom')
        /\ Range(threadqcom') = Range(threadqcom) \ {u}
    BY <1>1, <2>1, RemoveIs, WantsCpu DEF TypeOK
  <2>3. /\ renicing' \in [Cpus -> Threads \cup {None}] /\ moving' \in [Cpus -> Threads \cup {None}]
        /\ moving'[c] = u /\ renicing'[c] = None
        /\ \A d \in Cpus \ {c} : moving'[d] = moving[d] /\ renicing'[d] = renicing[d]
    BY <1>1, <2>1 DEF TypeOK
  <2>4. TypeOK'
    BY <1>1, <1>2, <2>1, <2>2, <2>3 DEF TypeOK, timeVars, astVars, flagVars
  <2>5. state[u] = "COM" /\ \A d \in Cpus : nthread[d] # u /\ moving[d] # u
    BY <1>1, <1>3, WantsCpu
  <2> HIDE DEF u
  <2>6. /\ \A v \in Threads : cpuidx'[v] # None => curthreads'[cpuidx'[v]] = v
        /\ \A d \in Cpus : nthread'[d] = None => cpuidx'[curthreads'[d]] = d
        /\ \A v \in Threads : state'[v] = "RUN" => cpuidx'[v] # None
        /\ \A d \in Cpus : None \in {nthread'[d], moving'[d]}
    BY <1>1, <1>2, <2>3 DEF OnePlace
  <2>7. ASSUME NEW d \in Cpus, NEW e \in Cpus, d # e
        PROVE  {nthread'[d], moving'[d]} \cap {nthread'[e], moving'[e]} \subseteq {None}
    BY <1>1, <1>2, <2>3, <2>5, <2>7 DEF OnePlace
  <2>8. /\ \A v \in Threads : v \in Range(threadqcom') =>
             state'[v] = "COM" /\ \A d \in Cpus : nthread'[d] # v /\ moving'[d] # v
        /\ \A d \in Cpus : /\ nthread'[d] # None => state'[nthread'[d]] = "COM"
                           /\ moving'[d] # None => state'[moving'[d]] = "COM"
        /\ \A v \in Threads : state'[v] = "COM" =>
             v \in Range(threadqcom') \/ \E d \in Cpus : nthread'[d] = v \/ moving'[d] = v
    BY <1>1, <1>2, <2>2, <2>3, <2>5, WantsCpu
  <2>9. OnePlace'
    BY <2>2, <2>4, <2>6, <2>7, <2>8, InOnePlace
  <2>10. ASSUME NEW d \in Cpus PROVE Busy(d)'
    BY <1>1, <1>2, <2>3 DEF Busy, Leaving, PlacesInv, Placed
  <2>11. \A v \in Threads : Home(v)'
    BY <1>2 DEF Home, PlacesInv, Placed
  <2> QED
    BY <1>1, <2>4, <2>9, <2>10, <2>11 DEF PlacesInv, Placed, Settled
<1>4. CASE u \notin Range(threadqcom)
  <2>1. crashed' = TRUE /\ UNCHANGED <<threadqcom, renicing, moving>>
    BY <1>4 DEF Unqueue
  <2>2. TypeOK'
    BY <1>1, <1>2, <2>1 DEF TypeOK, timeVars, astVars, flagVars
  <2>3. OnePlace'
    BY <1>1, <1>2, <2>1 DEF OnePlace
  <2>4. (\A v \in Threads : Home(v)') /\ (\A d \in Cpus : Busy(d)')
    BY <1>2, <2>1 DEF Home, Busy, Leaving, PlacesInv, Placed
  <2> QED
    BY <1>1, <2>2, <2>3, <2>4 DEF PlacesInv, Placed, Settled
<1> QED
  BY <1>3, <1>4

LEMMA RequeuePlaces ==
  ASSUME PlacesInv, NEW c \in Cpus, Requeue(c)
  PROVE  PlacesInv'
<1> DEFINE u == moving[c]
<1>1. /\ u # None /\ u \in Threads /\ state[u] = "COM" /\ curprio[u] \in Nat
      /\ TypeOK /\ OnePlace /\ Reniced # {} /\ resched \in SUBSET Cpus
  BY WantsCpu DEF Requeue, PlacesInv, TypeOK, Placed, Settled
<1>2. u \notin Range(threadqcom)
  BY <1>1, WantsCpu
<1>3. /\ StateTyped /\ state' = [state EXCEPT ![u] = "COM"]
      /\ threadqcom' \in Seq(Threads) /\ Once(threadqcom')
      /\ Range(threadqcom') = Range(threadqcom) \cup {u}
      /\ resched' \in SUBSET Cpus
  <2>1. MakeCom(u, curprio[u], threadqcom, resched, None)
    BY DEF Requeue
  <2> HIDE DEF u
  <2> QED
    BY <1>1, <1>2, <2>1, MakeComIs
<1>4. /\ UNCHANGED <<cpuVars, timeVars, handlingint, pos, flagVars, astVars, renicing, crashed>>
      /\ UNCHANGED <<cpuidx, curthreads, nthread>>
      /\ moving' = [moving EXCEPT ![c] = None]
  BY DEF Requeue, cpuVars
<1>5. state' = state
  BY <1>1, <1>3 DEF TypeOK
<1>6. /\ moving' \in [Cpus -> Threads \cup {None}] /\ moving'[c] = None
      /\ \A d \in Cpus \ {c} : moving'[d] = moving[d]
  BY <1>1, <1>4 DEF TypeOK
<1>7. TypeOK'
  BY <1>1, <1>3, <1>4, <1>6 DEF TypeOK, StateTyped, States, timeVars, astVars, flagVars
<1>8. ASSUME NEW d \in Cpus \ {c} PROVE nthread[d] # u /\ moving[d] # u
  <2>1. {nthread[c], moving[c]} \cap {nthread[d], moving[d]} \subseteq {None}
    BY <1>1 DEF OnePlace
  <2> QED
    BY <1>1, <2>1
<1>9. nthread[c] # u
  BY <1>1 DEF OnePlace
<1>10. /\ \A v \in Threads : cpuidx'[v] # None => curthreads'[cpuidx'[v]] = v
       /\ \A d \in Cpus : nthread'[d] = None => cpuidx'[curthreads'[d]] = d
       /\ \A v \in Threads : state'[v] = "RUN" => cpuidx'[v] # None
       /\ \A d \in Cpus : None \in {nthread'[d], moving'[d]}
  BY <1>1, <1>4, <1>5, <1>6 DEF OnePlace
<1>11. ASSUME NEW d \in Cpus, NEW e \in Cpus, d # e
       PROVE  {nthread'[d], moving'[d]} \cap {nthread'[e], moving'[e]} \subseteq {None}
  BY <1>1, <1>4, <1>6, <1>11 DEF OnePlace
<1>12. /\ \A v \in Threads : v \in Range(threadqcom') =>
            state'[v] = "COM" /\ \A d \in Cpus : nthread'[d] # v /\ moving'[d] # v
       /\ \A d \in Cpus : /\ nthread'[d] # None => state'[nthread'[d]] = "COM"
                          /\ moving'[d] # None => state'[moving'[d]] = "COM"
       /\ \A v \in Threads : state'[v] = "COM" =>
            v \in Range(threadqcom') \/ \E d \in Cpus : nthread'[d] = v \/ moving'[d] = v
  <2> HIDE DEF u
  <2>1. \A v \in Threads : v # None
    BY ParamAssumption
  <2> QED
    BY <1>1, <1>3, <1>4, <1>5, <1>6, <1>8, <1>9, <2>1, WantsCpu DEF u
<1>13. OnePlace'
  BY <1>3, <1>7, <1>10, <1>11, <1>12, InOnePlace
<1>14. ASSUME NEW d \in Cpus PROVE Busy(d)'
  BY <1>4, <1>5, <1>6 DEF Busy, Leaving, PlacesInv, Placed
<1>15. \A v \in Threads : Home(v)'
  BY <1>4, <1>5 DEF Home, PlacesInv, Placed
<1> QED
  BY <1>1, <1>7, <1>13, <1>14, <1>15 DEF PlacesInv, Placed, Settled

(* The first of the queue goes to a cpu: to the one that waits there for it  *)
(* and has it loaded, ...                                                  *)
LEMMA TakePlaces ==
  ASSUME PlacesInv, NEW c \in Cpus, NEW t \in Threads, Take(c, t)
  PROVE  PlacesInv'
<1> DEFINE h == Head(threadqcom)
<1>1. /\ TypeOK /\ OnePlace /\ Executes(c, t) /\ ~Locked(t) /\ state[t] # "RUN"
      /\ handlingint[t] > 0 \/ pos[t] = "loop"
      /\ threadqcom # <<>> /\ cpuidx[h] \in {None, c}
  BY DEF Take, Waits, Top, PlacesInv, Placed
<1>2. /\ cpuidx[t] = c /\ c # None /\ curthreads[c] = t
      /\ nthread[c] = None /\ renicing[c] = None /\ moving[c] = None
      /\ \A u \in Threads : cpuidx[u] = c => u = t
  <2>1. c # None
    BY ParamAssumption
  <2>2. curthreads[c] = t
    BY <1>1 DEF Executes
  <2> QED
    BY <1>1, <2>1, <2>2, ExecutesIn
<1>3. /\ threadqcom' \in Seq(Threads) /\ Once(threadqcom')
      /\ Range(threadqcom') = Range(threadqcom) \ {h}
      /\ h \in Threads /\ h \in Range(threadqcom)
      /\ Sorted(threadqcom, curprio) => Sorted(threadqcom', curprio)
  <2>1. threadqcom \in Seq(Threads) /\ Once(threadqcom) /\ threadqcom' = Tail(threadqcom)
    BY <1>1, WantsCpu DEF Take, TypeOK
  <2> QED
    BY <1>1, <2>1, TailIs
<1>4. state[h] = "COM" /\ (\A d \in Cpus : nthread[d] # h /\ moving[d] # h) /\ h # None
  BY <1>1, <1>3, WantsCpu, ParamAssumption
<1> HIDE DEF h
<1>5. /\ UNCHANGED <<resched, timeVars, handlingint, pos, flagVars, astVars, setVars>>
      /\ UNCHANGED <<cpuidx, curthreads, renicing, moving, crashed>>
  BY DEF Take, setVars
<1>6. CASE h = t
  <2>1. ChangeState(t, "RUN", curprio[t]) /\ nthread' = nthread
    BY <1>6 DEF Take, h
  <2>2. /\ StateTyped /\ state'[t] = "RUN" /\ curprio' = [curprio EXCEPT ![t] = curprio[t]]
        /\ \A u \in Threads \ {t} : state'[u] = state[u]
    <3>1. curprio[t] \in Nat
      BY <1>1 DEF TypeOK
    <3> QED
      BY <1>1, <2>1, <3>1, ChangeStateIs DEF States
  <2>3. curprio' = curprio
    BY <1>1, <2>2 DEF TypeOK
  <2>4. TypeOK'
    BY <1>1, <1>3, <1>5, <2>1, <2>2 DEF TypeOK, StateTyped, States, timeVars, astVars, flagVars
  <2>5. /\ \A u \in Threads : cpuidx'[u] # None => curthreads'[cpuidx'[u]] = u
        /\ \A d \in Cpus : nthread'[d] = None => cpuidx'[curthreads'[d]] = d
        /\ \A u \in Threads : state'[u] = "RUN" => cpuidx'[u] # None
        /\ \A d, e \in Cpus : d # e =>
             {nthread'[d], moving'[d]} \cap {nthread'[e], moving'[e]} \subseteq {None}
        /\ \A d \in Cpus : None \in {nthread'[d], moving'[d]}
    BY <1>1, <1>2, <1>5, <2>1, <2>2 DEF OnePlace
  <2>6. /\ \A u \in Threads : u \in Range(threadqcom') =>
             state'[u] = "COM" /\ \A d \in Cpus : nthread'[d] # u /\ moving'[d] # u
        /\ \A d \in Cpus : /\ nthread'[d] # None => state'[nthread'[d]] = "COM"
                           /\ moving'[d] # None => state'[moving'[d]] = "COM"
        /\ \A u \in Threads : state'[u] = "COM" =>
             u \in Range(threadqcom') \/ \E d \in Cpus : nthread'[d] = u \/ moving'[d] = u
    BY <1>1, <1>3, <1>4, <1>5, <1>6, <2>1, <2>2, WantsCpu
  <2>7. OnePlace'
    BY <1>3, <2>4, <2>5, <2>6, InOnePlace
  <2>8. \A u \in Threads : Home(u)'
    BY <1>1, <1>5, <2>1, <2>2 DEF Home, PlacesInv, Placed
  <2>9. ASSUME NEW d \in Cpus PROVE Busy(d)'
    <3>1. t \notin {renicing[d], moving[d]} /\ ~(curthreads[d] = t /\ Leaving(d))
      BY <1>1 DEF Locked
    <3>2. nthread[d] # t
      BY <1>4, <1>6
    <3>3. curthreads[d] \in Threads /\ renicing[d] \in Threads \cup {None}
      BY <1>1 DEF TypeOK
    <3> QED
      BY <1>5, <2>1, <2>2, <3>1, <3>2, <3>3 DEF Busy, Leaving, PlacesInv, Placed
  <2>10. Settled'
    BY <1>3, <1>5, <2>3 DEF Settled, PlacesInv
  <2> QED
    BY <2>4, <2>7, <2>8, <2>9, <2>10 DEF PlacesInv, Placed
(* ... or to the one that leaves its thread for it. *)
<1>7. CASE h # t
  <2>1. nthread' = [nthread EXCEPT ![c] = h] /\ UNCHANGED <<state, curprio, curprios>>
    BY <1>7 DEF Take, h
  <2>2. /\ nthread' \in [Cpus -> Threads \cup {None}] /\ nthread'[c] = h
        /\ \A d \in Cpus \ {c} : nthread'[d] = nthread[d]
    BY <1>1, <1>3, <2>1 DEF TypeOK
  <2>3. cpuidx[h] = None
    BY <1>1, <1>2, <1>3, <1>7
  <2>4. TypeOK'
    BY <1>1, <1>3, <1>5, <2>1, <2>2 DEF TypeOK, timeVars, astVars, flagVars
  <2>5. /\ \A u \in Threads : cpuidx'[u] # None => curthreads'[cpuidx'[u]] = u
        /\ \A d \in Cpus : nthread'[d] = None => cpuidx'[curthreads'[d]] = d
        /\ \A u \in Threads : state'[u] = "RUN" => cpuidx'[u] # None
        /\ \A d \in Cpus : None \in {nthread'[d], moving'[d]}
    BY <1>1, <1>2, <1>4, <1>5, <2>1, <2>2 DEF OnePlace
  <2>6. ASSUME NEW d \in Cpus, NEW e \in Cpus, d # e
        PROVE  {nthread'[d], moving'[d]} \cap {nthread'[e], moving'[e]} \subseteq {None}
    BY <1>1, <1>2, <1>4, <1>5, <2>2, <2>6 DEF OnePlace
  <2>7. /\ \A u \in Threads : u \in Range(threadqcom') =>
             state'[u] = "COM" /\ \A d \in Cpus : nthread'[d] # u /\ moving'[d] # u
        /\ \A d \in Cpus : /\ nthread'[d] # None => state'[nthread'[d]] = "COM"
                           /\ moving'[d] # None => state'[moving'[d]] = "COM"
        /\ \A u \in Threads : state'[u] = "COM" =>
             u \in Range(threadqcom') \/ \E d \in Cpus : nthread'[d] = u \/ moving'[d] = u
    BY <1>1, <1>2, <1>3, <1>4, <1>5, <2>1, <2>2, WantsCpu
  <2>8. OnePlace'
    BY <1>3, <2>4, <2>5, <2>6, <2>7, InOnePlace
  <2>9. ASSUME NEW u \in Threads PROVE Home(u)'
    <3>1. Home(u) /\ cpuidx[u] \in Cpus \cup {None}
      BY <1>1 DEF PlacesInv, Placed, TypeOK
    <3>2. CASE u = t
      BY <1>1, <1>5, <3>2 DEF Home, TypeOK
    <3>3. CASE u # t
      BY <1>2, <1>5, <2>1, <2>2, <3>1, <3>3 DEF Home
    <3> QED
      BY <3>2, <3>3
  <2>10. ASSUME NEW d \in Cpus PROVE Busy(d)'
    BY <1>1, <1>2, <1>4, <1>5, <2>1, <2>2, <2>3 DEF Busy, Leaving, PlacesInv, Placed
  <2>11. Settled'
    BY <1>3, <1>5, <2>1 DEF Settled, PlacesInv
  <2> QED
    BY <2>4, <2>8, <2>9, <2>10, <2>11 DEF PlacesInv, Placed
<1> QED
  BY <1>6, <1>7

LEMMA UnloadPlaces ==
  ASSUME PlacesInv, NEW c \in Cpus, Unload(c)
  PROVE  PlacesInv'
<1> DEFINE o == curthreads[c]
<1>1. TypeOK /\ OnePlace /\ Leaving(c) /\ nthread[c] # None /\ cpuidx[o] = c /\ o \in Threads /\ c # None
  BY ParamAssumption DEF Unload, Leaving, PlacesInv, Placed, TypeOK
<1>2. /\ cpuidx' = [cpuidx EXCEPT ![o] = None]
      /\ UNCHANGED <<state, curprio, curprios, threadqcom, curthreads, nthread, resched, timeVars,
                     handlingint, pos, flagVars, astVars, setVars>>
      /\ UNCHANGED <<renicing, moving, crashed>>
  BY DEF Unload, setVars
<1>3. /\ cpuidx' \in [Threads -> Cpus \cup {None}] /\ cpuidx'[o] = None
      /\ \A u \in Threads \ {o} : cpuidx'[u] = cpuidx[u]
  BY <1>1, <1>2 DEF TypeOK
<1>4. state[o] # "RUN"
  BY <1>1 DEF PlacesInv, Placed, Busy
<1>5. TypeOK'
  BY <1>1, <1>2, <1>3 DEF TypeOK, timeVars, astVars, flagVars
<1> HIDE DEF o
<1>6. \A d \in Cpus : curthreads[d] \in Threads
  BY <1>1 DEF TypeOK
<1>7. OnePlace'
  <2>1. \A u \in Threads : cpuidx'[u] # None => curthreads'[cpuidx'[u]] = u
    BY <1>1, <1>2, <1>3 DEF OnePlace
  <2>2. \A d \in Cpus : nthread'[d] = None => cpuidx'[curthreads'[d]] = d
    BY <1>1, <1>2, <1>3, <1>6 DEF OnePlace
  <2>3. \A u \in Threads : state'[u] = "RUN" => cpuidx'[u] # None
    BY <1>1, <1>2, <1>3, <1>4 DEF OnePlace
  <2> QED
    BY <1>1, <1>2, <2>1, <2>2, <2>3 DEF OnePlace
<1>8. ASSUME NEW u \in Threads PROVE Home(u)'
  BY <1>1, <1>2, <1>3 DEF Home, PlacesInv, Placed
<1>9. ASSUME NEW d \in Cpus PROVE Busy(d)'
  <2>1. nthread[d] \in Threads \cup {None} /\ curthreads[d] \in Threads /\ d # None
    BY <1>1, ParamAssumption DEF TypeOK
  <2>2. Busy(d)
    BY DEF PlacesInv, Placed
  <2> QED
    BY <1>2, <1>3, <2>1, <2>2 DEF Busy, Leaving
<1>10. Settled'
  BY <1>2 DEF Settled, PlacesInv
<1> QED
  BY <1>5, <1>7, <1>8, <1>9, <1>10 DEF PlacesInv, Placed

(* The thread that is loaded wants a cpu and is in none: oz_crash is not    *)
(* reached.                                                                *)
LEMMA LoadPlaces ==
  ASSUME PlacesInv, NEW c \in Cpus, Load(c)
  PROVE  PlacesInv'
<1> DEFINE n == nthread[c]
<1>1. /\ TypeOK /\ OnePlace /\ n # None /\ n \in Threads /\ ~Leaving(c) /\ ~Locked(n) /\ c # None
  BY ParamAssumption DEF Load, PlacesInv, Placed, TypeOK
<1>2. state[n] = "COM" /\ cpuidx[n] = None /\ moving[c] = None /\ renicing[c] = None
  <2>1. state[n] = "COM"
    BY <1>1, WantsCpu
  <2>2. cpuidx[n] = None /\ renicing[c] = None
    BY <1>1 DEF PlacesInv, Placed, Busy
  <2>3. moving[c] = None
    BY <1>1 DEF OnePlace
  <2> QED
    BY <2>1, <2>2, <2>3
<1>3. /\ ChangeState(n, "RUN", curprio[n])
      /\ cpuidx' = [cpuidx EXCEPT ![n] = c]
      /\ curthreads' = [curthreads EXCEPT ![c] = n]
      /\ nthread' = [nthread EXCEPT ![c] = None]
      /\ UNCHANGED <<threadqcom, resched, timeVars, handlingint, pos, flagVars, astVars>>
      /\ UNCHANGED <<crashed, renicing, moving>>
  BY <1>2 DEF Load
<1>4. /\ StateTyped /\ state'[n] = "RUN" /\ curprio' = curprio
      /\ \A u \in Threads \ {n} : state'[u] = state[u]
  <2>1. curprio[n] \in Nat /\ curprio \in [Threads -> Nat]
    BY <1>1 DEF TypeOK
  <2>2. /\ StateTyped /\ state'[n] = "RUN" /\ curprio' = [curprio EXCEPT ![n] = curprio[n]]
        /\ \A u \in Threads \ {n} : state'[u] = state[u]
    <3> HIDE DEF n
    <3> QED
      BY <1>1, <1>3, <2>1, ChangeStateIs DEF States
  <2> QED
    BY <2>1, <2>2
<1>5. /\ cpuidx' \in [Threads -> Cpus \cup {None}] /\ cpuidx'[n] = c
      /\ \A u \in Threads \ {n} : cpuidx'[u] = cpuidx[u]
      /\ curthreads' \in [Cpus -> Threads] /\ curthreads'[c] = n
      /\ \A d \in Cpus \ {c} : curthreads'[d] = curthreads[d]
      /\ nthread' \in [Cpus -> Threads \cup {None}] /\ nthread'[c] = None
      /\ \A d \in Cpus \ {c} : nthread'[d] = nthread[d]
  BY <1>1, <1>3 DEF TypeOK
<1>6. TypeOK'
  BY <1>1, <1>3, <1>4, <1>5 DEF TypeOK, StateTyped, States, timeVars, astVars, flagVars
<1>7. cpuidx[curthreads[c]] # c
  BY <1>1 DEF Leaving
<1>8. ASSUME NEW d \in Cpus \ {c} PROVE nthread[d] # n /\ moving[d] # n
  <2>1. {nthread[c], moving[c]} \cap {nthread[d], moving[d]} \subseteq {None}
    BY <1>1 DEF OnePlace
  <2> QED
    BY <1>1, <2>1
<1>9. \A u \in Threads : cpuidx[u] # c
  BY <1>1, <1>7 DEF OnePlace
<1>10. n \notin Range(threadqcom)
  BY <1>1, WantsCpu
<1>11. \A d \in Cpus : /\ curthreads[d] \in Threads /\ d # None
                       /\ nthread[d] \in Threads \cup {None} /\ moving[d] \in Threads \cup {None}
                       /\ renicing[d] \in Threads \cup {None} /\ renicing[d] # n
  BY <1>1, ParamAssumption DEF TypeOK, Locked
<1> HIDE DEF n
<1>12. /\ \A u \in Threads : cpuidx'[u] # None => curthreads'[cpuidx'[u]] = u
       /\ \A u \in Threads : state'[u] = "RUN" => cpuidx'[u] # None
       /\ \A d \in Cpus : None \in {nthread'[d], moving'[d]}
  <2>1. ASSUME NEW u \in Threads, cpuidx'[u] # None PROVE curthreads'[cpuidx'[u]] = u
    <3>1. CASE u = n
      BY <1>5, <3>1
    <3>2. CASE u # n
      <4>1. cpuidx'[u] = cpuidx[u] /\ cpuidx[u] \in Cpus \ {c}
        BY <1>1, <1>5, <1>9, <2>1, <3>2 DEF TypeOK
      <4>2. curthreads[cpuidx[u]] = u
        BY <1>1, <4>1, <2>1 DEF OnePlace
      <4> QED
        BY <1>5, <4>1, <4>2
    <3> QED
      BY <3>1, <3>2
  <2> QED
    BY <1>1, <1>3, <1>4, <1>5, <2>1 DEF OnePlace
<1>13. ASSUME NEW d \in Cpus, nthread'[d] = None PROVE cpuidx'[curthreads'[d]] = d
  <2>1. CASE d = c
    BY <1>5, <2>1
  <2>2. CASE d # c
    BY <1>1, <1>2, <1>5, <1>11, <1>13, <2>2 DEF OnePlace
  <2> QED
    BY <2>1, <2>2
<1>14. ASSUME NEW d \in Cpus, NEW e \in Cpus, d # e
       PROVE  {nthread'[d], moving'[d]} \cap {nthread'[e], moving'[e]} \subseteq {None}
  BY <1>1, <1>2, <1>3, <1>5, <1>14 DEF OnePlace
<1>15. /\ \A u \in Threads : u \in Range(threadqcom') =>
            state'[u] = "COM" /\ \A d \in Cpus : nthread'[d] # u /\ moving'[d] # u
       /\ \A d \in Cpus : /\ nthread'[d] # None => state'[nthread'[d]] = "COM"
                          /\ moving'[d] # None => state'[moving'[d]] = "COM"
       /\ \A u \in Threads : state'[u] = "COM" =>
            u \in Range(threadqcom') \/ \E d \in Cpus : nthread'[d] = u \/ moving'[d] = u
  <2>1. ASSUME NEW u \in Threads, u \in Range(threadqcom')
        PROVE  state'[u] = "COM" /\ \A d \in Cpus : nthread'[d] # u /\ moving'[d] # u
    <3>1. u # n /\ u \in Range(threadqcom) /\ u # None
      BY <1>3, <1>10, <2>1, ParamAssumption
    <3> QED
      BY <1>1, <1>3, <1>4, <1>5, <3>1, WantsCpu
  <2>2. ASSUME NEW d \in Cpus
        PROVE  /\ nthread'[d] # None => state'[nthread'[d]] = "COM"
               /\ moving'[d] # None => state'[moving'[d]] = "COM"
    BY <1>1, <1>2, <1>3, <1>4, <1>5, <1>8, <1>11, WantsCpu
  <2>3. ASSUME NEW u \in Threads, state'[u] = "COM"
        PROVE  u \in Range(threadqcom') \/ \E d \in Cpus : nthread'[d] = u \/ moving'[d] = u
    <3>1. u # n /\ state[u] = "COM"
      BY <1>4, <2>3
    <3> QED
      BY <1>1, <1>3, <1>5, <3>1, WantsCpu DEF n
  <2> QED
    BY <2>1, <2>2, <2>3
<1>16. OnePlace'
  <2>1. Once(threadqcom')
    BY <1>1, <1>3, WantsCpu
  <2> QED
    BY <1>6, <1>12, <1>13, <1>14, <1>15, <2>1, InOnePlace
<1>17. ASSUME NEW u \in Threads PROVE Home(u)'
  <2>1. Home(u) /\ cpuidx[u] \in Cpus \cup {None}
    BY <1>1 DEF PlacesInv, Placed, TypeOK
  <2>2. CASE u = n
    BY <1>1, <1>4, <1>5, <2>2 DEF Home
  <2>3. CASE u # n
    BY <1>3, <1>4, <1>5, <2>1, <2>3 DEF Home
  <2> QED
    BY <2>2, <2>3
<1>18. ASSUME NEW d \in Cpus PROVE Busy(d)'
  <2>1. Busy(d)
    BY DEF PlacesInv, Placed
  <2>2. CASE d = c
    BY <1>2, <1>3, <1>5, <2>2 DEF Busy, Leaving
  <2>3. CASE d # c
    <3>1. nthread'[d] # None => cpuidx'[nthread'[d]] = None /\ renicing'[d] = None
      BY <1>3, <1>5, <1>8, <1>11, <2>1, <2>3 DEF Busy
    <3>2. /\ moving'[d] # None => renicing'[d] = None
          /\ renicing'[d] # None => state'[renicing'[d]] = "COM"
      BY <1>3, <1>4, <1>11, <2>1 DEF Busy
    <3>3. Leaving(d)' => state'[curthreads'[d]] # "RUN"
      BY <1>4, <1>5, <1>11, <2>1, <2>3 DEF Busy, Leaving
    <3> QED
      BY <3>1, <3>2, <3>3 DEF Busy
  <2> QED
    BY <2>2, <2>3
<1>19. Settled'
  BY <1>3, <1>4 DEF Settled, PlacesInv
<1> QED
  BY <1>6, <1>16, <1>17, <1>18, <1>19 DEF PlacesInv, Placed

LEMMA QueuesIs ==
  ASSUME NEW S \in SUBSET Threads, NEW q \in Queues(S)
  PROVE  q \in Seq(Threads) /\ Once(q) /\ Range(q) = S
<1>1. Cardinality(S) \in Nat
  BY ParamAssumption, FS_Subset, FS_CardinalityType
<1> DEFINE n == Cardinality(S)
<1> HIDE DEF n
<1>2. /\ q \in [1 .. n -> S]
      /\ \A i, j \in 1 .. n : q[i] = q[j] => i = j
      /\ \A t \in S : \E i \in 1 .. n : q[i] = t
  BY DEF Queues, Bijection, Injection, Surjection, IsInjective, n
<1>3. q \in Seq(Threads) /\ Len(q) = n
  BY <1>1, <1>2 DEF n
<1>4. Once(q)
  BY <1>2, <1>3 DEF Once
<1>5. Range(q) = S
  BY <1>2 DEF Range
<1> QED
  BY <1>3, <1>4, <1>5

LEMMA InitPlaces == Init => PlacesInv
<1> SUFFICES ASSUME Init PROVE PlacesInv
  OBVIOUS
<1>1. PICK on \in Injection(Cpus, Threads) :
    /\ curthreads = on
    /\ threadqcom \in {q \in Queues(Threads \ Range(on)) : Sorted(q, Base)}
    /\ state = [t \in Threads |-> IF t \in Range(on) THEN "RUN" ELSE "COM"]
    /\ cpuidx = [t \in Threads |-> IF t \in Range(on) THEN Inverse(on, Cpus, Threads)[t]
                                                      ELSE None]
    /\ handlingint = [t \in Threads |-> IF t \in Range(on) THEN 0 ELSE 1]
    /\ curprio = Base /\ curprios = [c \in Cpus |-> Base[on[c]]]
    /\ resched = {} /\ quantum = {c \in Cpus : Base[on[c]] > 0} /\ expired = {}
    /\ nthread = [c \in Cpus |-> None]
    /\ pos = [t \in Threads |-> "run"]
    /\ flag = [t \in Threads |-> FALSE]
    /\ setter = [t \in Threads |-> "out"]
    /\ asts = [t \in Threads |-> 0]
    /\ astmode = [t \in Threads |-> "ENABLE"]
    /\ byhw = {} /\ crashed = FALSE
    /\ renicing = [c \in Cpus |-> None] /\ moving = [c \in Cpus |-> None]
  BY DEF Init
<1>2. /\ on \in [Cpus -> Threads] /\ \A c, d \in Cpus : on[c] = on[d] => c = d
      /\ Range(on) \in SUBSET Threads
      /\ \A t : t \in Range(on) <=> \E c \in Cpus : on[c] = t
  BY DEF Injection, IsInjective, Range
<1>3. ASSUME NEW t \in Threads, t \in Range(on) PROVE cpuidx[t] \in Cpus /\ on[cpuidx[t]] = t
  <2>1. cpuidx[t] = CHOOSE c \in Cpus : t \in Range(on) => on[c] = t
    BY <1>1, <1>3 DEF Inverse
  <2>2. \E c \in Cpus : t \in Range(on) => on[c] = t
    BY <1>2, <1>3
  <2> QED
    BY <1>3, <2>1, <2>2
<1>4. threadqcom \in Seq(Threads) /\ Once(threadqcom) /\ Range(threadqcom) = Threads \ Range(on)
  <2>1. threadqcom \in Queues(Threads \ Range(on)) /\ Threads \ Range(on) \in SUBSET Threads
    BY <1>1
  <2> QED
    BY <2>1, QueuesIs
<1>5. cpuidx \in [Threads -> Cpus \cup {None}]
  <2>1. \A t \in Threads : cpuidx[t] \in Cpus \cup {None}
    BY <1>1, <1>3
  <2> QED
    BY <1>1, <2>1
<1>6. TypeOK
  <2>1. /\ curprio \in [Threads -> Nat] /\ curprios \in [Cpus -> Nat]
        /\ asts \in [Threads -> 0 .. MaxAsts]
    BY <1>1, <1>2, ParamAssumption
  <2>2. /\ state \in [Threads -> {"RUN", "COM", "WEV", "ZOM"}]
        /\ handlingint \in [Threads -> 0 .. 2] /\ pos \in [Threads -> Places]
        /\ flag \in [Threads -> BOOLEAN] /\ setter \in [Threads -> Setting]
        /\ astmode \in [Threads -> {"ENABLE", "INHIBIT"}]
    BY <1>1 DEF Places, Setting
  <2>3. /\ curthreads \in [Cpus -> Threads] /\ nthread \in [Cpus -> Threads \cup {None}]
        /\ renicing \in [Cpus -> Threads \cup {None}] /\ moving \in [Cpus -> Threads \cup {None}]
    BY <1>1, <1>2
  <2>4. /\ resched \in SUBSET Cpus /\ quantum \in SUBSET Cpus /\ expired \in SUBSET Threads
        /\ byhw \in SUBSET Threads /\ crashed \in BOOLEAN
    BY <1>1
  <2> QED
    BY <1>4, <1>5, <2>1, <2>2, <2>3, <2>4 DEF TypeOK
<1>7. \A c \in Cpus : nthread[c] = None /\ moving[c] = None /\ renicing[c] = None
  BY <1>1
<1>8. \A t \in Threads : /\ t \in Range(on) => state[t] = "RUN" /\ handlingint[t] = 0
                         /\ t \notin Range(on) => state[t] = "COM" /\ handlingint[t] = 1 /\ cpuidx[t] = None
  BY <1>1
<1>9. OnePlace
  <2>1. \A t \in Threads : cpuidx[t] # None => curthreads[cpuidx[t]] = t
    BY <1>1, <1>3, <1>8
  <2>2. \A c \in Cpus : cpuidx[curthreads[c]] = c
    BY <1>1, <1>2, <1>3
  <2>3. \A t \in Threads : state[t] = "RUN" => cpuidx[t] # None
    BY <1>3, <1>8, ParamAssumption
  <2>4. IsInjective(threadqcom)
    BY <1>4, OnceIs
  <2>5. Range(nthread) \subseteq {None} /\ Range(moving) \subseteq {None}
    BY <1>1 DEF Range
  <2>6. \A t \in Threads :
          /\ state[t] = "COM" <=> t \in Range(threadqcom) \cup Range(nthread) \cup Range(moving)
          /\ t \in Range(threadqcom) => t \notin Range(nthread) \cup Range(moving)
    BY <1>4, <1>8, <2>5, ParamAssumption
  <2> QED
    BY <1>7, <2>1, <2>2, <2>3, <2>4, <2>6 DEF OnePlace
<1>10. \A t \in Threads : Home(t)
  <2>1. ASSUME NEW t \in Threads PROVE Home(t)
    <3>1. CASE t \in Range(on)
      BY <1>3, <1>7, <1>8, <3>1, ParamAssumption DEF Home
    <3>2. CASE t \notin Range(on)
      BY <1>8, <3>2 DEF Home
    <3> QED
      BY <3>1, <3>2
  <2> QED
    BY <2>1
<1>11. \A c \in Cpus : Busy(c)
  BY <1>7 DEF Busy, Leaving
<1>12. Settled
  BY <1>1, <1>7 DEF Settled
<1> QED
  BY <1>6, <1>9, <1>10, <1>11, <1>12 DEF PlacesInv, Placed

LEMMA NextPlaces == PlacesInv /\ [Next]_vars => PlacesInv'
<1> SUFFICES ASSUME PlacesInv, [Next]_vars PROVE PlacesInv'
  OBVIOUS
<1>1. ASSUME NEW c \in Cpus, CpuStep(c) PROVE PlacesInv'
  <2>1. ASSUME NEW t \in Threads,
               \/ TestEvent(c, t) \/ LinkEvent(c, t) \/ CheckAsts(c, t) \/ EndWait(c, t)
               \/ EnableSoftint(c, t) \/ Take(c, t) \/ Resume(c, t) \/ DeqAst(c, t) \/ EndAsts(c, t)
        PROVE  PlacesInv'
    BY <2>1, TestEventPlaces, LinkEventPlaces, CheckAstsPlaces, EndWaitPlaces,
       EnableSoftintPlaces, TakePlaces, ResumePlaces, DeqAstPlaces, EndAstsPlaces
  <2> QED
    BY <1>1, <2>1, UnloadPlaces, LoadPlaces, UnqueuePlaces, RequeuePlaces DEF CpuStep
<1>2. ASSUME NEW c \in Cpus, Interrupt(c) \/ Expire(c) PROVE PlacesInv'
  BY <1>2, HandleIntPlaces, QuantimexPlaces DEF Interrupt, Expire
<1>3. ASSUME NEW c \in Cpus, NEW t \in Threads, Program(c, t) PROVE PlacesInv'
  BY <1>3, WaitEventPlaces, ClearEventPlaces, SetAstPlaces, SetCurPrioPlaces, ExitPlaces DEF Program
<1>4. ASSUME NEW t \in Threads, Outside(t) PROVE PlacesInv'
  BY <1>4, SetEventPlaces, WakeThreadPlaces, QueueAstPlaces DEF Outside, Wakes
<1>5. CASE UNCHANGED vars
  <2>1. /\ UNCHANGED <<state, curprio, threadqcom, curthreads, nthread, cpuidx, curprios, resched>>
        /\ UNCHANGED <<quantum, expired, handlingint, pos, flag, setter, asts, astmode, byhw, renicing,
                       moving, crashed>>
    BY <1>5 DEF vars, cpuVars, timeVars, astVars, setVars, flagVars
  <2>2. TypeOK' /\ OnePlace'
    BY <2>1 DEF PlacesInv, TypeOK, Placed, OnePlace
  <2>3. (\A t \in Threads : Home(t)') /\ (\A c \in Cpus : Busy(c)') /\ Settled'
    BY <2>1 DEF PlacesInv, Placed, Home, Busy, Leaving, Settled
  <2> QED
    BY <2>2, <2>3 DEF PlacesInv, Placed
<1> QED
  BY <1>1, <1>2, <1>3, <1>4, <1>5 DEF Next

LEMMA PlacesHold == Spec => []PlacesInv
  BY InitPlaces, NextPlaces, PTL DEF Spec

(* The state of the scheduler has the types it is meant to have: no cpu     *)
(* index, priority or counter leaves its range.                            *)
THEOREM TypeCorrect == Spec => []TypeOK
<1>1. PlacesInv => TypeOK
  BY DEF PlacesInv
<1> QED
  BY <1>1, PlacesHold, PTL

(* Whoever wants a cpu is in the com queue once, or with the one cpu that    *)
(* took it from there, nobody else is, and the cpus and the threads agree   *)
(* on who is loaded where (oz_knl_thread_wait, woken_part1, makecom,       *)
(* oz_knl_thread_setcurprio, oz_knl_thread_quantimex).                     *)
THEOREM EachInOnePlace == Spec => []OnePlace
<1>1. PlacesInv => OnePlace
  BY DEF PlacesInv, Placed
<1> QED
  BY <1>1, PlacesHold, PTL

(* Where nobody sets priorities, the first of the com queue is one of the   *)
(* highest priority, whatever makecom and oz_knl_thread_quantimex do to it.  *)
THEOREM QueueStaysSorted == Spec => []QueueSorted
<1>1. PlacesInv => QueueSorted
  BY DEF PlacesInv, Settled, QueueSorted
<1> QED
  BY <1>1, PlacesHold, PTL

(* Nor is any oz_crash of woken_part1 and oz_knl_thread_setcurprio reached. *)
THEOREM NoCrash == Spec => [](Reniced = {} => NeverCrashes)
<1>1. PlacesInv => (Reniced = {} => NeverCrashes)
  BY DEF PlacesInv, Settled, NeverCrashes
<1> QED
  BY <1>1, PlacesHold, PTL

-----------------------------------------------------------------------------
(* III.  An ast interrupts.                                                *)

(* A thread that only gets its asts delivered executes them for the hardware *)
(* layer, which has it look for more before it goes on.  With the property  *)
(* itself this is inductive.                                               *)
Prompt(t) ==
  /\ pos[t] \in {"ast", "end"} => t \in byhw
  /\ pos[t] = "run" /\ handlingint[t] = 0 /\ Deliverable(t) => cpuidx[t] \in resched

AstsInv == PlacesInv /\ \A t \in Threads \ Inhibitors : Prompt(t)

(* What is left alone, but that it may be interrupted. *)
Alone(u) ==
  /\ pos'[u] = pos[u] /\ asts'[u] = asts[u] /\ astmode'[u] = astmode[u]
  /\ u \in byhw => u \in byhw'
  /\ pos[u] = "run" /\ handlingint'[u] = 0 =>
       /\ handlingint[u] = 0 /\ cpuidx'[u] = cpuidx[u]
       /\ cpuidx[u] \in resched => cpuidx[u] \in resched'

LEMMA AlonePrompt ==
  ASSUME NEW u, Prompt(u), Alone(u)
  PROVE  Prompt(u)'
  BY DEF Prompt, Alone, Deliverable

LEMMA OnePrompt ==
  ASSUME AstsInv, PlacesInv', NEW t \in Threads, \A u \in Threads \ {t} : Alone(u),
         t \notin Inhibitors => Prompt(t)'
  PROVE  AstsInv'
<1>1. ASSUME NEW u \in Threads \ Inhibitors PROVE Prompt(u)'
  <2>1. Prompt(u)
    BY DEF AstsInv
  <2> QED
    BY <2>1, AlonePrompt
<1> QED
  BY <1>1 DEF AstsInv

LEMMA AllPrompt ==
  ASSUME AstsInv, PlacesInv', \A u \in Threads : Alone(u)
  PROVE  AstsInv'
<1>1. ASSUME NEW u \in Threads \ Inhibitors PROVE Prompt(u)'
  <2>1. Prompt(u)
    BY DEF AstsInv
  <2> QED
    BY <2>1, AlonePrompt
<1> QED
  BY <1>1 DEF AstsInv

(* On the way into its own code: an ast is there and executed, or none is.   *)
LEMMA EnterPrompt ==
  ASSUME TypeOK, NEW t \in Threads, Enter(t), UNCHANGED asts
  PROVE  Prompt(t)' /\ \A u \in Threads \ {t} : astmode'[u] = astmode[u] /\ (u \in byhw => u \in byhw')
<1>1. CASE Deliverable(t)
  BY <1>1 DEF Enter, Prompt, TypeOK
<1>2. CASE ~Deliverable(t)
  <2>1. ~Deliverable(t)'
    BY <1>2 DEF Enter, Deliverable
  <2> QED
    BY <1>2, <2>1 DEF Enter, Prompt, TypeOK
<1> QED
  BY <1>1, <1>2

LEMMA ReturnPrompt ==
  ASSUME TypeOK, NEW t \in Threads, Prompt(t), Return(t), UNCHANGED asts
  PROVE  Prompt(t)' /\ \A u \in Threads \ {t} : astmode'[u] = astmode[u] /\ (u \in byhw => u \in byhw')
<1>1. CASE pos[t] = "run"
  BY <1>1, EnterPrompt DEF Return
<1>2. CASE pos[t] # "run"
  BY <1>2 DEF Return, Prompt
<1> QED
  BY <1>1, <1>2

(* A step that has nothing to do with asts, nor with anyone's way into its  *)
(* own code.                                                               *)
LEMMA StillPrompt ==
  ASSUME AstsInv, PlacesInv', UNCHANGED <<pos, asts, astmode, byhw, handlingint, cpuidx>>,
         resched \subseteq resched'
  PROVE  AstsInv'
  BY AllPrompt DEF Alone

(* The code of t goes on to somewhere else than "run". *)
LEMMA ElsewherePrompt ==
  ASSUME AstsInv, PlacesInv', NEW t \in Threads, NEW p, p \notin {"run", "ast", "end"},
         pos' = [pos EXCEPT ![t] = p], UNCHANGED <<astmode, byhw, handlingint, cpuidx>>,
         \A u \in Threads \ {t} : asts'[u] = asts[u],
         resched \subseteq resched'
  PROVE  AstsInv'
<1>1. pos'[t] = p /\ \A u \in Threads \ {t} : pos'[u] = pos[u]
  BY DEF AstsInv, PlacesInv, TypeOK
<1>2. \A u \in Threads \ {t} : Alone(u)
  BY <1>1 DEF Alone
<1>3. Prompt(t)'
  BY <1>1 DEF Prompt
<1> QED
  BY <1>2, <1>3, OnePrompt

LEMMA WaitPrompt ==
  ASSUME AstsInv, PlacesInv', NEW c \in Cpus, NEW t \in Threads,
         \/ WaitEvent(c, t) \/ TestEvent(c, t) \/ LinkEvent(c, t) \/ CheckAsts(c, t)
         \/ EndWait(c, t) \/ Exit(c, t)
  PROVE  AstsInv'
<1>1. PICK p \in {"wev", "link", "chk", "loop", "ret"} : pos' = [pos EXCEPT ![t] = p]
  BY DEF WaitEvent, TestEvent, LinkEvent, CheckAsts, EndWait, Exit, StayAwake
<1>2. UNCHANGED <<astmode, byhw, handlingint, cpuidx>> /\ resched \subseteq resched'
  BY DEF WaitEvent, TestEvent, LinkEvent, CheckAsts, EndWait, Exit, StartQuantum, cpuVars, astVars
<1>3. \A u \in Threads \ {t} : asts'[u] = asts[u]
  <2>1. asts' = asts \/ asts' = [asts EXCEPT ![t] = 0]
    BY DEF WaitEvent, TestEvent, LinkEvent, CheckAsts, EndWait, Exit, astVars
  <2>2. asts \in [Threads -> 0 .. MaxAsts]
    BY DEF AstsInv, PlacesInv, TypeOK
  <2> QED
    BY <2>1, <2>2
<1> QED
  BY <1>1, <1>2, <1>3, ElsewherePrompt

LEMMA EnableSoftintPrompt ==
  ASSUME AstsInv, PlacesInv', NEW c \in Cpus, NEW t \in Threads, EnableSoftint(c, t)
  PROVE  AstsInv'
<1>1. TypeOK /\ Enter(t) /\ UNCHANGED <<asts, handlingint, cpuidx, resched>>
  BY DEF EnableSoftint, AstsInv, PlacesInv, cpuVars
<1>2. Prompt(t)' /\ \A u \in Threads \ {t} : astmode'[u] = astmode[u] /\ (u \in byhw => u \in byhw')
  BY <1>1, EnterPrompt
<1>3. \A u \in Threads \ {t} : pos'[u] = pos[u]
  BY <1>1, EnterIs
<1>4. \A u \in Threads \ {t} : Alone(u)
  BY <1>1, <1>2, <1>3 DEF Alone
<1> QED
  BY <1>2, <1>4, OnePrompt

-----------------------------------------------------------------------------
(* The asts themselves. *)

(* An interrupt goes with the first one; the others are executed with it.   *)
LEMMA QueueAstPrompt ==
  ASSUME AstsInv, PlacesInv', NEW t \in Threads, QueueAst(t)
  PROVE  AstsInv'
<1>1. /\ asts' = [asts EXCEPT ![t] = @ + 1]
      /\ UNCHANGED <<pos, astmode, byhw, handlingint, cpuidx>>
      /\ resched \subseteq resched'
  <2>1. resched \subseteq resched'
    BY QueueAstIs DEF AstsInv, Woken
  <2> QED
    BY <2>1 DEF QueueAst, cpuVars
<1>2. asts[t] \in Nat /\ \A u \in Threads \ {t} : asts'[u] = asts[u]
  BY <1>1 DEF AstsInv, PlacesInv, TypeOK
<1>3. \A u \in Threads \ {t} : Alone(u)
  BY <1>1, <1>2 DEF Alone
<1>4. ASSUME Prompt(t) PROVE Prompt(t)'
  <2>1. CASE pos[t] = "run" /\ handlingint[t] = 0 /\ astmode[t] = "ENABLE" /\ asts[t] = 0
    <3>1. state[t] = "RUN"
      BY <2>1 DEF AstsInv, PlacesInv, Placed, Home
    <3>2. cpuidx[t] \in resched'
      BY <2>1, <3>1 DEF QueueAst
    <3> QED
      BY <1>1, <2>1, <3>2 DEF Prompt
  <2>2. CASE pos[t] = "run" /\ handlingint[t] = 0 /\ astmode[t] = "ENABLE" /\ asts[t] # 0
    <3>1. cpuidx[t] \in resched
      BY <1>2, <1>4, <2>2 DEF Prompt, Deliverable
    <3> QED
      BY <1>1, <2>2, <3>1 DEF Prompt
  <2>3. CASE ~(pos[t] = "run" /\ handlingint[t] = 0 /\ astmode[t] = "ENABLE")
    BY <1>1, <1>4, <2>3 DEF Prompt, Deliverable
  <2> QED
    BY <2>1, <2>2, <2>3
<1> QED
  BY <1>3, <1>4, OnePrompt DEF AstsInv

LEMMA DeqAstPrompt ==
  ASSUME AstsInv, PlacesInv', NEW c \in Cpus, NEW t \in Threads, DeqAst(c, t)
  PROVE  AstsInv'
<1>1. /\ pos[t] = "ast" /\ pos'[t] \in {"ast", "end"}
      /\ \A u \in Threads \ {t} : pos'[u] = pos[u] /\ asts'[u] = asts[u]
      /\ UNCHANGED <<astmode, byhw, handlingint, cpuidx, resched>>
  BY DEF DeqAst, At, AstsInv, PlacesInv, TypeOK, cpuVars, flagVars
<1>2. \A u \in Threads \ {t} : Alone(u)
  BY <1>1 DEF Alone
<1>3. Prompt(t) => Prompt(t)'
  BY <1>1 DEF Prompt
<1> QED
  BY <1>2, <1>3, OnePrompt DEF AstsInv

(* It goes on only if there is none. *)
LEMMA EndAstsPrompt ==
  ASSUME AstsInv, PlacesInv', NEW c \in Cpus, NEW t \in Threads, EndAsts(c, t)
  PROVE  AstsInv'
<1>1. /\ pos[t] = "end" /\ asts[t] \in Nat
      /\ UNCHANGED <<asts, handlingint, cpuidx, resched>>
      /\ IF t \in byhw /\ asts[t] > 0
         THEN pos'[t] = "ast" /\ UNCHANGED <<byhw, astmode>>
         ELSE pos'[t] = "run"
      /\ \A u \in Threads \ {t} :
           pos'[u] = pos[u] /\ astmode'[u] = astmode[u] /\ (u \in byhw => u \in byhw')
  BY DEF EndAsts, At, AstsInv, PlacesInv, TypeOK, cpuVars, flagVars
<1>2. \A u \in Threads \ {t} : Alone(u)
  BY <1>1 DEF Alone
<1>3. Prompt(t) => Prompt(t)'
  BY <1>1 DEF Prompt, Deliverable
<1> QED
  BY <1>2, <1>3, OnePrompt DEF AstsInv

LEMMA SetAstPrompt ==
  ASSUME AstsInv, PlacesInv', NEW c \in Cpus, NEW t \in Threads, SetAst(c, t)
  PROVE  AstsInv'
<1>1. /\ t \in Inhibitors
      /\ UNCHANGED <<asts, byhw, handlingint, cpuidx, resched>>
      /\ \A u \in Threads \ {t} : pos'[u] = pos[u] /\ astmode'[u] = astmode[u]
  BY DEF SetAst, AstsInv, PlacesInv, TypeOK, cpuVars, flagVars
<1>2. \A u \in Threads \ {t} : Alone(u)
  BY <1>1 DEF Alone
<1> QED
  BY <1>1, <1>2, OnePrompt

-----------------------------------------------------------------------------
(* Interrupts. *)

LEMMA HandleIntPrompt ==
  ASSUME AstsInv, PlacesInv', NEW c \in Cpus, NEW t \in Threads, HandleInt(c, t)
  PROVE  AstsInv'
<1> DEFINE out == state[t] = "RUN" /\ t \in expired
           p == IF out /\ curprio[t] > 1 THEN curprio[t] - 1 ELSE curprio[t]
           go == Better(t, p, out)
<1>1. Executes(c, t) /\ TypeOK /\ PlacesInv
  BY DEF HandleInt, Softints, AstsInv, PlacesInv
<1>2. \A u \in Threads : cpuidx[u] = c => u = t
  BY <1>1, ExecutesIn
<1>3. resched \ {c} \subseteq resched'
  <2>1. \/ MakeCom(t, p, threadqcom, resched \ {c}, c)
        \/ resched' = resched \ {c}
    <3> HIDE DEF p, go
    <3> QED
      BY DEF HandleInt, p
  <2>2. MakeCom(t, p, threadqcom, resched \ {c}, c) => resched \ {c} \subseteq resched'
    <3> HIDE DEF p
    <3> QED
      BY DEF MakeCom
  <2> QED
    BY <2>1, <2>2
<1>4. /\ handlingint' = IF go THEN [handlingint EXCEPT ![t] = IF @ = 0 THEN 1 ELSE 2] ELSE handlingint
      /\ IF go \/ handlingint[t] > 0 THEN UNCHANGED <<pos, byhw, astmode>> ELSE Return(t)
      /\ UNCHANGED <<asts, cpuidx>>
  <2> HIDE DEF go
  <2> QED
    BY DEF HandleInt, cpuVars, go
<1> HIDE DEF p, go, out
<1>5. /\ go => handlingint'[t] > 0
      /\ ~go => handlingint' = handlingint
      /\ \A u \in Threads \ {t} : handlingint'[u] = handlingint[u]
  BY <1>1, <1>4 DEF TypeOK
<1>6. CASE UNCHANGED <<pos, byhw, astmode>> /\ (go \/ handlingint[t] > 0)
  <2>1. handlingint'[t] # 0
    BY <1>1, <1>5, <1>6 DEF TypeOK
  <2>2. \A u \in Threads : Alone(u)
    BY <1>2, <1>3, <1>4, <1>5, <1>6, <2>1 DEF Alone
  <2> QED
    BY <2>2, AllPrompt
<1>7. CASE Return(t)
  <2>1. \A u \in Threads \ {t} : pos'[u] = pos[u]
    BY <1>1, <1>7, ReturnIs
  <2>2. ASSUME Prompt(t)
        PROVE  Prompt(t)' /\ \A u \in Threads \ {t} : astmode'[u] = astmode[u] /\ (u \in byhw => u \in byhw')
    BY <1>1, <1>4, <1>7, <2>2, ReturnPrompt
  <2>3. \A u \in Threads \ {t} : astmode'[u] = astmode[u] /\ (u \in byhw => u \in byhw')
    BY <1>1, <1>7 DEF Return, Enter, TypeOK
  <2>4. \A u \in Threads \ {t} : Alone(u)
    BY <1>2, <1>3, <1>4, <1>5, <2>1, <2>3 DEF Alone
  <2> QED
    BY <2>2, <2>4, OnePrompt DEF AstsInv
<1> QED
  BY <1>4, <1>6, <1>7

LEMMA ResumePrompt ==
  ASSUME AstsInv, PlacesInv', NEW c \in Cpus, NEW t \in Threads, Resume(c, t)
  PROVE  AstsInv'
<1>1. /\ TypeOK /\ UNCHANGED <<asts, cpuidx>>
      /\ handlingint'[t] = handlingint[t] - 1 /\ handlingint[t] \in 1 .. 2
      /\ \A u \in Threads \ {t} : handlingint'[u] = handlingint[u]
  <2>1. /\ TypeOK /\ handlingint[t] > 0 /\ UNCHANGED <<asts, cpuidx>>
        /\ handlingint' = [handlingint EXCEPT ![t] = @ - 1]
    BY DEF Resume, AstsInv, PlacesInv, cpuVars
  <2>2. handlingint \in [Threads -> 0 .. 2]
    BY <2>1 DEF TypeOK
  <2> QED
    BY <2>1, <2>2
<1>2. CASE handlingint[t] = 2
  <2>1. UNCHANGED <<pos, byhw, astmode>> /\ MakeCom(t, curprio[t], threadqcom, resched, c)
    BY <1>2 DEF Resume
  <2>2. resched \subseteq resched'
    BY <2>1 DEF MakeCom
  <2>3. \A u \in Threads : Alone(u)
    BY <1>1, <1>2, <2>1, <2>2 DEF Alone
  <2> QED
    BY <2>3, AllPrompt
<1>3. CASE handlingint[t] # 2
  <2>1. StartQuantum(c, t, resched) /\ Return(t)
    BY <1>3 DEF Resume
  <2>2. resched \subseteq resched'
    BY <2>1 DEF StartQuantum
  <2>3. \A u \in Threads \ {t} : pos'[u] = pos[u]
    BY <1>1, <2>1, ReturnIs
  <2>4. \A u \in Threads \ {t} : astmode'[u] = astmode[u] /\ (u \in byhw => u \in byhw')
    BY <1>1, <2>1 DEF Return, Enter, TypeOK
  <2>5. \A u \in Threads \ {t} : Alone(u)
    BY <1>1, <2>2, <2>3, <2>4 DEF Alone
  <2>6. Prompt(t) => Prompt(t)'
    BY <1>1, <2>1, ReturnPrompt
  <2> QED
    BY <2>5, <2>6, OnePrompt DEF AstsInv
<1> QED
  BY <1>2, <1>3

-----------------------------------------------------------------------------
(* A thread that is not in its own code changes cpus. *)

LEMMA MovePrompt ==
  ASSUME AstsInv, PlacesInv', NEW c \in Cpus, Unload(c) \/ Load(c)
  PROVE  AstsInv'
<1>1. UNCHANGED <<pos, asts, astmode, byhw, handlingint, resched>>
  BY DEF Unload, Load, astVars
<1>2. ASSUME NEW u \in Threads, pos[u] = "run", handlingint[u] = 0 PROVE cpuidx'[u] = cpuidx[u]
  <2>1. cpuidx[u] # None /\ nthread[cpuidx[u]] = None
    BY <1>2 DEF AstsInv, PlacesInv, Placed, Home
  <2>2. CASE Unload(c)
    <3>1. nthread[c] # None /\ cpuidx[curthreads[c]] = c /\ cpuidx' = [cpuidx EXCEPT ![curthreads[c]] = None]
      BY <2>2 DEF Unload, Leaving
    <3> QED
      BY <2>1, <3>1 DEF AstsInv, PlacesInv, TypeOK
  <2>3. CASE Load(c)
    <3>1. cpuidx' = cpuidx \/ (cpuidx[nthread[c]] = None /\ cpuidx' = [cpuidx EXCEPT ![nthread[c]] = c])
      BY <2>3 DEF Load, cpuVars
    <3> QED
      BY <2>1, <3>1 DEF AstsInv, PlacesInv, TypeOK
  <2> QED
    BY <2>2, <2>3
<1>3. \A u \in Threads : Alone(u)
  BY <1>1, <1>2 DEF Alone
<1> QED
  BY <1>3, AllPrompt

LEMMA OtherPrompt ==
  ASSUME AstsInv, PlacesInv', NEW c \in Cpus, NEW t \in Threads,
         Take(c, t) \/ Quantimex(c, t) \/ SetCurPrio(c, t) \/ Unqueue(c) \/ Requeue(c)
           \/ ClearEvent(c, t)
  PROVE  AstsInv'
<1>1. UNCHANGED <<pos, asts, astmode, byhw, handlingint, cpuidx>>
  BY DEF Take, Quantimex, SetCurPrio, Unqueue, Requeue, ClearEvent, cpuVars, astVars
<1>2. resched \subseteq resched'
  BY DEF Take, Quantimex, SetCurPrio, Unqueue, Requeue, ClearEvent, MakeCom
<1> QED
  BY <1>1, <1>2, StillPrompt

LEMMA NextPrompt == AstsInv /\ [Next]_vars => AstsInv'
<1> SUFFICES ASSUME AstsInv, [Next]_vars PROVE AstsInv'
  OBVIOUS
<1>0. PlacesInv'
  BY NextPlaces DEF AstsInv
<1>1. ASSUME NEW c \in Cpus, CpuStep(c) PROVE AstsInv'
  <2>1. ASSUME NEW t \in Threads,
               \/ TestEvent(c, t) \/ LinkEvent(c, t) \/ CheckAsts(c, t) \/ EndWait(c, t)
               \/ EnableSoftint(c, t) \/ Take(c, t) \/ Resume(c, t) \/ DeqAst(c, t) \/ EndAsts(c, t)
        PROVE  AstsInv'
    BY <1>0, <2>1, WaitPrompt, EnableSoftintPrompt, OtherPrompt, ResumePrompt, DeqAstPrompt,
       EndAstsPrompt
  <2>2. CASE Unqueue(c) \/ Requeue(c)
    <3>1. curthreads[c] \in Threads
      BY DEF AstsInv, PlacesInv, TypeOK
    <3> QED
      BY <1>0, <2>2, <3>1, OtherPrompt
  <2> QED
    BY <1>0, <1>1, <2>1, <2>2, MovePrompt DEF CpuStep
<1>2. ASSUME NEW c \in Cpus, Interrupt(c) \/ Expire(c) PROVE AstsInv'
  BY <1>0, <1>2, HandleIntPrompt, OtherPrompt DEF Interrupt, Expire
<1>3. ASSUME NEW c \in Cpus, NEW t \in Threads, Program(c, t) PROVE AstsInv'
  BY <1>0, <1>3, WaitPrompt, OtherPrompt, SetAstPrompt DEF Program
<1>4. ASSUME NEW t \in Threads, Outside(t) PROVE AstsInv'
  <2>1. CASE SetEvent(t) \/ Wakes(t)
    <3>1. UNCHANGED <<pos, asts, astmode, byhw, handlingint, cpuidx>>
      BY <2>1 DEF SetEvent, Wakes, LookList, WakeThread, cpuVars, astVars
    <3>2. CASE SetEvent(t) \/ LookList(t)
      <4>1. resched' = resched
        BY <3>2 DEF SetEvent, LookList
      <4> QED
        BY <1>0, <3>1, <4>1, StillPrompt
    <3>3. CASE WakeThread(t)
      <4>1. resched \subseteq resched'
        BY <3>3, WakeThreadIs DEF AstsInv, Woken
      <4> QED
        BY <1>0, <3>1, <4>1, StillPrompt
    <3> QED
      BY <2>1, <3>2, <3>3 DEF Wakes
  <2> QED
    BY <1>0, <1>4, <2>1, QueueAstPrompt DEF Outside
<1>5. CASE UNCHANGED vars
  <2>1. UNCHANGED <<pos, asts, astmode, byhw, handlingint, cpuidx, resched>>
    BY <1>5 DEF vars, cpuVars, astVars
  <2> QED
    BY <1>0, <2>1, StillPrompt
<1> QED
  BY <1>1, <1>2, <1>3, <1>4, <1>5 DEF Next

LEMMA InitPrompt == Init => AstsInv
<1> SUFFICES ASSUME Init PROVE AstsInv
  OBVIOUS
<1>1. PlacesInv
  BY InitPlaces
<1>2. /\ pos = [t \in Threads |-> "run"] /\ asts = [t \in Threads |-> 0]
  BY DEF Init
<1> QED
  BY <1>1, <1>2 DEF AstsInv, Prompt, Deliverable

LEMMA PromptHolds == Spec => []AstsInv
  BY InitPrompt, NextPrompt, PTL DEF Spec

(* While a thread executes its own code, an ast that can be delivered to it  *)
(* has an interrupt on the way (oz_knl_thread_queueast, handleint and       *)
(* checkknlastq), if it does not enable asts itself.                       *)
THEOREM AstsAreSeen == Spec => []AstInterrupts
<1>1. AstsInv => AstInterrupts
  BY DEF AstsInv, Prompt, AstInterrupts
<1> QED
  BY <1>1, PromptHolds, PTL
=============================================================================
