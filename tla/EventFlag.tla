----------------------------- MODULE EventFlag ------------------------------
(***************************************************************************)
(* Event flags (oz_knl_event.c): an integer that threads wait on until it  *)
(* is positive, with callbacks, a reference count and a queue for flags    *)
(* that were set at too high an interrupt level to wake anybody directly.  *)
(*                                                                         *)
(* A step is one atomic instruction, one unlocked read that decides        *)
(* something, or one critical section of the flag's smplock_ev.  The one   *)
(* critical section that is cut in two is that of oz_knl_event_waitlist,   *)
(* between the test of the value and the linking of the thread: setters    *)
(* look at the list without the lock, so they can tell.                    *)
(*                                                                         *)
(* The interval timer of an event flag is module EventTimer.               *)
(***************************************************************************)
EXTENDS Integers, Sequences, FiniteSets

CONSTANTS Events,    \* the event flags
          Users,     \* threads and interrupt handlers that use them
          Cpus,      \* cpus that can run highiplq_proc
          Cbs,       \* callback blocks
          Values,    \* the values oz_knl_event_set is given
          Incs,      \* the increments oz_knl_event_inc is given
          MaxValue,  \* bound: a flag's value stays within -MaxValue .. MaxValue
          None       \* nobody (no user, no cpu); no flag

ASSUME PartiesAssumption ==
  /\ IsFiniteSet(Users) /\ IsFiniteSet(Cpus) /\ Users \cap Cpus = {}
  /\ None \notin Users \cup Events
ASSUME ValuesAssumption == Values \cup Incs \subseteq Int /\ MaxValue \in Nat

VARIABLES
  (* one per event flag *)
  value, refcount,
  evcbs,        \* callbacks queued to the flag
  eventlists,   \* threads linked to be woken
  onhiq,        \* linked to the high-ipl queue
  evlock,       \* who holds smplock_ev between two steps
  freed,        \* the block is back in the pool
  (* the high-ipl queue *)
  hiq,          \* highiplq_head
  lowipl,       \* highiplq_lowipl # NULL: highiplq_proc is not on its way
  (* one per thread or cpu *)
  at,           \* where it is, at which smplevel, and on which flag
  state,        \* thread -> state, "RUN" or "WEV"
  todo, linked, \* waitlist: flags still to be linked to, flags linked to
  mine,         \* evcbs: the list it took
  work,         \* hievents: what highiplq_proc still has to process
  hasref,       \* the flags a user holds a reference to
  (* one per callback *)
  cbs,          \* "new", "queued", or how it was called: "event" or "null"
  cbev,         \* the flag it is queued to
  crashed       \* oz_crash was called

flagvars == <<value, refcount, evcbs, eventlists, onhiq, evlock, freed>>
procvars == <<at, state, todo, linked, mine, work, hasref>>
cbvars   == <<cbs, cbev>>
vars     == <<flagvars, hiq, lowipl, procvars, cbvars, crashed>>

pc(p)    == at[p].pc
level(p) == at[p].level
ev(p)    == at[p].ev

Outside == [pc |-> "out", level |-> "softint", ev |-> None]

Procs  == Users \cup Cpus
Levels == {"null", "softint", "high"}

-----------------------------------------------------------------------------
Pcs == {"out",
        "check", "link", "waiting", "unlink",                \* waitlist
        "look", "walk", "puthiq", "callcbs", "calling",      \* wakethreads
        "qlink", "qrecheck",                                 \* queuecb
        "decref", "nullcalls",                               \* increfc
        "next", "release"}                                   \* highiplq_proc

TypeOK ==
  /\ value \in [Events -> -MaxValue .. MaxValue]
  /\ refcount \in [Events -> Nat]
  /\ evcbs \in [Events -> SUBSET Cbs]
  /\ eventlists \in [Events -> SUBSET Users]
  /\ onhiq \in [Events -> BOOLEAN]
  /\ evlock \in [Events -> Users \cup {None}]
  /\ freed \in [Events -> BOOLEAN]
  /\ hiq \in Seq(Events)
  /\ lowipl \in BOOLEAN
  /\ at \in [Procs -> [pc : Pcs, level : Levels, ev : Events \cup {None}]]
  /\ state \in [Users -> {"RUN", "WEV"}]
  /\ todo \in [Users -> SUBSET Events]
  /\ linked \in [Users -> SUBSET Events]
  /\ mine \in [Procs -> SUBSET Cbs]
  /\ work \in [Cpus -> Seq(Events)]
  /\ hasref \in [Users -> SUBSET Events]
  /\ cbs \in [Cbs -> {"new", "queued", "event", "null"}]
  /\ cbev \in [Cbs -> Events \cup {None}]
  /\ crashed \in BOOLEAN

(* oz_knl_event_init; then oz_knl_event_create for each flag, its creator  *)
(* handing a reference to each of the other users.                         *)
Init ==
  /\ value = [e \in Events |-> 0]
  /\ refcount = [e \in Events |-> Cardinality(Users)]
  /\ evcbs = [e \in Events |-> {}]
  /\ eventlists = [e \in Events |-> {}]
  /\ onhiq = [e \in Events |-> FALSE]
  /\ evlock = [e \in Events |-> None]
  /\ freed = [e \in Events |-> FALSE]
  /\ hiq = <<>>
  /\ lowipl = TRUE
  /\ at = [p \in Procs |-> Outside]
  /\ state = [u \in Users |-> "RUN"]
  /\ todo = [u \in Users |-> {}]
  /\ linked = [u \in Users |-> {}]
  /\ mine = [p \in Procs |-> {}]
  /\ work = [c \in Cpus |-> <<>>]
  /\ hasref = [u \in Users |-> Events]
  /\ cbs = [c \in Cbs |-> "new"]
  /\ cbev = [c \in Cbs |-> None]
  /\ crashed = FALSE

-----------------------------------------------------------------------------
(* Helpers *)

GoTo(p, label) ==
  at' = [at EXCEPT ![p] = IF label = "out" THEN Outside ELSE [@ EXCEPT !.pc = label]]

Unlocked(e) == evlock[e] = None

(* Mutant of Done: highiplq_proc keeps the queue's reference. *)
DoneKeepRef(p) == IF p \in Cpus THEN "next" ELSE "out"

(* Where wakethreads returns to: highiplq_proc drops the reference that    *)
(* the queue held, a setter is done.                                       *)
Done(p) == IF p \in Cpus THEN "release" ELSE "out"

(* Begin an operation on flag e at smplevel l. *)
Begin(u, e, l, label) ==
  /\ pc(u) = "out" /\ e \in hasref[u]
  /\ at' = [at EXCEPT ![u] = IF label = "out" THEN Outside
                              ELSE [pc |-> label, level |-> l, ev |-> e]]

(* Mutant of PutOnHighiplq: the queue holds no reference. *)
PutOnHighiplqNoRef(e, r) ==
  /\ hiq' = IF onhiq[e] THEN hiq ELSE Append(hiq, e)
  /\ onhiq' = [onhiq EXCEPT ![e] = TRUE]
  /\ refcount' = [refcount EXCEPT ![e] = r]
  /\ lowipl' = (lowipl /\ onhiq[e])

(* put_on_highiplq, all of it under smplock_hi; r is the reference count   *)
(* it finds.                                                               *)
PutOnHighiplq(e, r) ==
  IF onhiq[e]
    THEN /\ refcount' = [refcount EXCEPT ![e] = r]
         /\ UNCHANGED <<hiq, onhiq, lowipl>>
    ELSE /\ hiq' = Append(hiq, e)
         /\ onhiq' = [onhiq EXCEPT ![e] = TRUE]
         /\ refcount' = [refcount EXCEPT ![e] = r + 1]
         /\ lowipl' = FALSE

-----------------------------------------------------------------------------
(* oz_knl_event_set and oz_knl_event_inc: the atomic change of the value.  *)
(* Only a change from clear to set is followed up.                         *)

ChangeValue(u, e, l, new) ==
  /\ new \in -MaxValue .. MaxValue
  /\ Begin(u, e, l, IF new > 0 /\ value[e] <= 0 THEN "look" ELSE "out")
  /\ value' = [value EXCEPT ![e] = new]
  /\ UNCHANGED <<refcount, evcbs, eventlists, onhiq, evlock, freed, hiq, lowipl,
                 state, todo, linked, mine, work, hasref, cbvars, crashed>>

EventSet(u) == \E e \in Events, l \in Levels, v \in Values : ChangeValue(u, e, l, v)

EventInc(u) == \E e \in Events, l \in Levels, i \in Incs : ChangeValue(u, e, l, value[e] + i)

-----------------------------------------------------------------------------
(* wakethreads *)

(* Mutant of WakeRoute: a setter at high ipl leaves it at that. *)
WakeRouteNotHigh(p) ==
  IF (eventlists[ev(p)] = {} /\ evcbs[ev(p)] = {}) \/ level(p) = "high" THEN Done(p)
  ELSE IF evcbs[ev(p)] # {} /\ level(p) # "softint" THEN "puthiq" ELSE "walk"

(* The unlocked reads that decide whether there is anything to do and      *)
(* whether it can be done here.                                            *)
WakeRoute(p) ==
  IF eventlists[ev(p)] = {} /\ evcbs[ev(p)] = {} THEN Done(p)
  ELSE IF level(p) = "high" \/ (evcbs[ev(p)] # {} /\ level(p) # "softint") THEN "puthiq"
  ELSE "walk"

Look(p) ==
  /\ pc(p) = "look"
  /\ GoTo(p, WakeRoute(p))
  /\ UNCHANGED <<flagvars, hiq, lowipl, state, todo, linked, mine, work,
                 hasref, cbvars, crashed>>

PutHighipl(p) ==
  /\ pc(p) = "puthiq"
  /\ PutOnHighiplq(ev(p), refcount[ev(p)])
  /\ GoTo(p, Done(p))
  /\ UNCHANGED <<value, evcbs, eventlists, evlock, freed, state, todo,
                 linked, mine, work, hasref, cbvars, crashed>>

(* Mutant of Walk: callbacks are called at whatever smplevel it is. *)
WalkAnyLevel(p) ==
  /\ pc(p) = "walk" /\ Unlocked(ev(p))
  /\ state' = [u \in Users |-> IF u \in eventlists[ev(p)] THEN "RUN" ELSE state[u]]
  /\ GoTo(p, "callcbs")
  /\ UNCHANGED <<flagvars, hiq, lowipl, todo, linked, mine, work,
                 hasref, cbvars, crashed>>

(* Wake every thread on the list (oz_knl_thread_wakewev for each). *)
Walk(p) ==
  /\ pc(p) = "walk" /\ Unlocked(ev(p))
  /\ state' = [u \in Users |-> IF u \in eventlists[ev(p)] THEN "RUN" ELSE state[u]]
  /\ GoTo(p, IF level(p) = "softint" THEN "callcbs" ELSE Done(p))
  /\ UNCHANGED <<flagvars, hiq, lowipl, todo, linked, mine, work,
                 hasref, cbvars, crashed>>

(* callcallbacks: take the whole list and a reference ... *)
CallCallbacks(p) ==
  /\ pc(p) = "callcbs"
  /\ \/ evcbs[ev(p)] = {} /\ GoTo(p, Done(p)) /\ UNCHANGED <<evcbs, refcount, mine>>
     \/ /\ evcbs[ev(p)] # {} /\ Unlocked(ev(p))
        /\ mine' = [mine EXCEPT ![p] = evcbs[ev(p)]]
        /\ evcbs' = [evcbs EXCEPT ![ev(p)] = {}]
        /\ refcount' = [refcount EXCEPT ![ev(p)] = @ + 1]
        /\ GoTo(p, "calling")
  /\ UNCHANGED <<value, eventlists, onhiq, evlock, freed, hiq, lowipl, state,
                 todo, linked, work, hasref, cbvars, crashed>>

(* ... call them one by one, then give the reference back. *)
CallOne(p) ==
  /\ pc(p) = "calling"
  /\ IF mine[p] = {}
       THEN GoTo(p, "decref") /\ UNCHANGED <<mine, cbs>>
       ELSE \E c \in mine[p] :
              /\ cbs' = [cbs EXCEPT ![c] = "event"]
              /\ mine' = [mine EXCEPT ![p] = @ \ {c}]
              /\ UNCHANGED at
  /\ UNCHANGED <<flagvars, hiq, lowipl, state, todo, linked, work, hasref,
                 cbev, crashed>>
-----------------------------------------------------------------------------
(* highiplq_proc *)

HighiplStart(c) ==
  /\ pc(c) = "out" /\ ~lowipl
  /\ work' = [work EXCEPT ![c] = hiq]
  /\ hiq' = <<>>
  /\ lowipl' = TRUE
  /\ GoTo(c, "next")
  /\ UNCHANGED <<flagvars, state, todo, linked, mine, hasref, cbvars, crashed>>

(* Let the flag be queued again, then wake its threads. *)
HighiplNext(c) ==
  /\ pc(c) = "next"
  /\ IF work[c] = <<>>
       THEN GoTo(c, "out") /\ UNCHANGED <<work, onhiq>>
       ELSE /\ at' = [at EXCEPT ![c] = [pc |-> "walk", level |-> level(c), ev |-> Head(work[c])]]
            /\ onhiq' = [onhiq EXCEPT ![Head(work[c])] = FALSE]
            /\ work' = [work EXCEPT ![c] = Tail(@)]
  /\ UNCHANGED <<value, refcount, evcbs, eventlists, evlock, freed, hiq, lowipl,
                 state, todo, linked, mine, hasref, cbvars, crashed>>

-----------------------------------------------------------------------------
(* oz_knl_event_increfc (event, -1) *)

DropRef(u) ==
  \E e \in Events, l \in {"null", "softint"} :
    /\ Begin(u, e, l, "decref")
    /\ hasref' = [hasref EXCEPT ![u] = @ \ {e}]
    /\ UNCHANGED <<flagvars, hiq, lowipl, state, todo, linked, mine, work, cbvars, crashed>>

(* Where it returns to: callcallbacks to its caller, highiplq_proc to its  *)
(* loop, and a user's own call to the user.                                *)
Dropped(p) == IF pc(p) = "release" THEN "next" ELSE Done(p)

(* The count stays positive. *)
DecRef(p) ==
  /\ pc(p) \in {"decref", "release"} /\ refcount[ev(p)] > 1
  /\ refcount' = [refcount EXCEPT ![ev(p)] = @ - 1]
  /\ GoTo(p, Dropped(p))
  /\ UNCHANGED <<value, evcbs, eventlists, onhiq, evlock, freed, hiq, lowipl, 
                 state, todo, linked, mine, work, hasref, cbvars, crashed>>

(* The count goes to zero, which is done under smplock_ev.  Callbacks that *)
(* cannot be called at this smplevel are left to highiplq_proc.            *)
DecRefToZero(p) ==
  LET e == ev(p) IN
  /\ pc(p) \in {"decref", "release"} /\ refcount[e] <= 1 /\ Unlocked(e)
  /\ IF refcount[e] < 1 \/ onhiq[e] THEN
       /\ crashed' = TRUE
       /\ UNCHANGED <<refcount, evcbs, mine, onhiq, hiq, lowipl, at>>
     ELSE IF evcbs[e] # {} /\ level(p) # "softint" THEN
       /\ PutOnHighiplq(e, 0)
       /\ GoTo(p, Dropped(p))
       /\ UNCHANGED <<evcbs, mine, crashed>>
     ELSE
       /\ refcount' = [refcount EXCEPT ![e] = 0]
       /\ mine' = [mine EXCEPT ![p] = evcbs[e]]
       /\ evcbs' = [evcbs EXCEPT ![e] = {}]
       /\ GoTo(p, "nullcalls")
       /\ UNCHANGED <<onhiq, hiq, lowipl, crashed>>
  /\ UNCHANGED <<value, eventlists, evlock, freed, state, todo, linked, work,
                 hasref, cbvars>>

(* The callbacks learn that the flag is gone, then the block is freed. *)
NullCall(p) ==
  /\ pc(p) = "nullcalls"
  /\ IF mine[p] = {}
       THEN /\ freed' = [freed EXCEPT ![ev(p)] = TRUE]
            /\ GoTo(p, IF p \in Cpus THEN "next" ELSE "out")
            /\ UNCHANGED <<mine, cbs>>
       ELSE \E c \in mine[p] :
              /\ cbs' = [cbs EXCEPT ![c] = "null"]
              /\ mine' = [mine EXCEPT ![p] = @ \ {c}]
              /\ UNCHANGED <<freed, at>>
  /\ UNCHANGED <<value, refcount, evcbs, eventlists, onhiq, evlock, hiq, lowipl, 
                 state, todo, linked, work, hasref, cbev, crashed>>

-----------------------------------------------------------------------------
(* oz_knl_event_queuecb *)

QueueCb(u) ==
  \E e \in Events :
    /\ value[e] <= 0
    /\ Begin(u, e, "softint", "qlink")
    /\ UNCHANGED <<flagvars, hiq, lowipl, state, todo, linked, mine, work, hasref, cbvars,
                   crashed>>

QueueLink(u) ==
  LET e == ev(u) IN
  /\ pc(u) = "qlink" /\ Unlocked(e)
  /\ \E c \in Cbs :
       /\ cbs[c] = "new"
       /\ cbs' = [cbs EXCEPT ![c] = "queued"]
       /\ cbev' = [cbev EXCEPT ![c] = e]
       /\ evcbs' = [evcbs EXCEPT ![e] = @ \cup {c}]
  /\ GoTo(u, "qrecheck")
  /\ UNCHANGED <<value, refcount, eventlists, onhiq, evlock, freed, hiq, lowipl, 
                 state, todo, linked, mine, work, hasref, crashed>>

(* oz_knl_npp pool is exhausted: OZ_EXQUOTANPP *)
QueueNoPool(u) ==
  /\ pc(u) = "qlink"
  /\ GoTo(u, "out")
  /\ UNCHANGED <<flagvars, hiq, lowipl, state, todo, linked, mine, work, hasref,
                 cbvars, crashed>>

(* Mutant of QueueRecheck: the value is not looked at again. *)
QueueNoRecheck(u) ==
  /\ pc(u) = "qrecheck"
  /\ GoTo(u, "out")
  /\ UNCHANGED <<flagvars, hiq, lowipl, state, todo, linked, mine, work, hasref,
                 cbvars, crashed>>

(* Maybe it got set just before the callback was queued. *)
QueueRecheck(u) ==
  /\ pc(u) = "qrecheck"
  /\ GoTo(u, IF value[ev(u)] > 0 THEN "callcbs" ELSE "out")
  /\ UNCHANGED <<flagvars, hiq, lowipl, state, todo, linked, mine, work, hasref,
                 cbvars, crashed>>

-----------------------------------------------------------------------------
(* oz_knl_event_waitlist on a set of flags *)

(* Enter WEV state first of all. *)
WaitList(u) ==
  \E es \in SUBSET hasref[u] \ {{}} :
    /\ pc(u) = "out"
    /\ todo' = [todo EXCEPT ![u] = es]
    /\ state' = [state EXCEPT ![u] = "WEV"]
    /\ GoTo(u, "check")
    /\ UNCHANGED <<flagvars, hiq, lowipl, linked, mine, work, hasref, cbvars, crashed>>

(* Lock the next flag and test its value: stay awake if it is set. *)
WaitCheck(u) ==
  \E e \in todo[u] :
    /\ pc(u) = "check" /\ Unlocked(e)
    /\ IF value[e] > 0
         THEN /\ state' = [state EXCEPT ![u] = "RUN"]
              /\ todo' = [todo EXCEPT ![u] = {}]
              /\ GoTo(u, "unlink")
              /\ UNCHANGED evlock
         ELSE /\ evlock' = [evlock EXCEPT ![e] = u]
              /\ at' = [at EXCEPT ![u] = [pc |-> "link", level |-> level(u), ev |-> e]]
              /\ UNCHANGED <<state, todo>>
    /\ UNCHANGED <<value, refcount, evcbs, eventlists, onhiq, freed, hiq, lowipl,
                   linked, mine, work, hasref, cbvars, crashed>>

(* Link to it, still under the lock. *)
WaitLink(u) ==
  LET e == ev(u) IN
  /\ pc(u) = "link"
  /\ eventlists' = [eventlists EXCEPT ![e] = @ \cup {u}]
  /\ linked' = [linked EXCEPT ![u] = @ \cup {e}]
  /\ todo' = [todo EXCEPT ![u] = @ \ {e}]
  /\ evlock' = [evlock EXCEPT ![e] = None]
  /\ GoTo(u, IF todo[u] = {e} THEN "waiting" ELSE "check")
  /\ UNCHANGED <<value, refcount, evcbs, onhiq, freed, hiq, lowipl, state, mine,
                 work, hasref, cbvars, crashed>>

(* oz_knl_thread_wait returns once somebody has changed the state to RUN. *)
WaitDone(u) ==
  /\ pc(u) = "waiting" /\ state[u] = "RUN"
  /\ GoTo(u, "unlink")
  /\ UNCHANGED <<flagvars, hiq, lowipl, state, todo, linked, mine, work, hasref,
                 cbvars, crashed>>

(* An ast is pending (chkpendast) or arrives (oz_knl_thread_queueast). *)
WaitAst(u) ==
  /\ state[u] = "WEV"
  /\ state' = [state EXCEPT ![u] = "RUN"]
  /\ UNCHANGED <<flagvars, hiq, lowipl, at, todo, linked, mine, work, hasref,
                 cbvars, crashed>>

(* Unlink from every flag it linked to, one smplock_ev at a time. *)
WaitUnlink(u) ==
  /\ pc(u) = "unlink"
  /\ \/ linked[u] = {} /\ GoTo(u, "out") /\ UNCHANGED <<eventlists, linked>>
     \/ \E e \in linked[u] :
          /\ Unlocked(e)
          /\ eventlists' = [eventlists EXCEPT ![e] = @ \ {u}]
          /\ linked' = [linked EXCEPT ![u] = @ \ {e}]
          /\ UNCHANGED at
  /\ UNCHANGED <<value, refcount, evcbs, onhiq, evlock, freed, hiq, lowipl, state,
                 todo, mine, work, hasref, cbvars, crashed>>

-----------------------------------------------------------------------------
Wake(p) == Look(p) \/ PutHighipl(p) \/ Walk(p) \/ CallCallbacks(p) \/ CallOne(p)

Drop(p) == DecRef(p) \/ DecRefToZero(p) \/ NullCall(p)

Call(u) == EventSet(u) \/ EventInc(u) \/ DropRef(u) \/ QueueCb(u) \/ WaitList(u)

UserStep(u) ==
  \/ Wake(u) \/ Drop(u)
  \/ QueueLink(u) \/ QueueRecheck(u)
  \/ WaitCheck(u) \/ WaitLink(u) \/ WaitDone(u) \/ WaitUnlink(u)

CpuStep(c) == HighiplStart(c) \/ HighiplNext(c) \/ Wake(c) \/ Drop(c)

Next ==
  \/ \E u \in Users : Call(u) \/ UserStep(u) \/ QueueNoPool(u) \/ WaitAst(u)
  \/ \E c \in Cpus : CpuStep(c)

Spec == Init /\ [][Next]_vars

(* A routine once entered is carried on with, and a low-ipl call is        *)
(* eventually made.  Nothing is assumed about the calls users make.        *)
Fairness ==
  /\ \A u \in Users : WF_vars(UserStep(u))
  /\ \A c \in Cpus : WF_vars(CpuStep(c))

FairSpec == Spec /\ Fairness

-----------------------------------------------------------------------------
(* Properties *)

(* Somebody still has to look at, or is processing, the flag's lists. *)
WakeComing(e) ==
  \/ \E i \in 1 .. Len(hiq) : hiq[i] = e
  \/ \E c \in Cpus : \E i \in 1 .. Len(work[c]) : work[c][i] = e
  \/ \E p \in Procs : ev(p) = e /\ pc(p) \in {"look", "puthiq", "walk"}

Blocked(u) == pc(u) = "waiting" /\ state[u] = "WEV"

(* A thread that sleeps although one of its flags is set and nobody is     *)
(* going to wake it.                                                       *)
Stranded(u, e) == Blocked(u) /\ u \in eventlists[e] /\ value[e] > 0 /\ ~WakeComing(e)

(* "Set current thread state to WEV, so that if an event should set while  *)
(* we're in here we will immediately be woken."                            *)
NobodyStranded == \A u \in Users, e \in Events : ~Stranded(u, e)

(* What does hold: only a thread that was linking itself to an empty list  *)
(* can be missed by a setter, so a flag strands one thread at the most,    *)
(* and whoever else sleeps on the flag finds it clear.                     *)
AtMostOneStranded ==
  \A e \in Events, u, w \in Users : Stranded(u, e) /\ Stranded(w, e) => u = w

(* A callback on a flag that is set is about to be called: by the setter,  *)
(* by highiplq_proc, or by the thread that queued it and looks again.      *)
CallbackOwed ==
  \A e \in Events : value[e] > 0 /\ evcbs[e] # {} =>
    \/ WakeComing(e)
    \/ \E p \in Procs : ev(p) = e /\ pc(p) \in {"callcbs", "qrecheck"}

(* The reference count is the number of references there are: the users',  *)
(* the high-ipl queue's, which highiplq_proc takes over, and those of the  *)
(* routines that hold one while they call callbacks.  It is what the       *)
(* block's lifetime hangs on.                                              *)
Roles == {"own", "call", "queue"}

Refers(p, role, e) ==
  \/ role = "own" /\ p \in Users /\ e \in hasref[p]
  \/ role = "call" /\ ev(p) = e /\ pc(p) \in {"calling", "decref"}
  \/ /\ role = "queue" /\ p \in Cpus /\ ev(p) = e
     /\ pc(p) \in {"walk", "callcbs", "calling", "decref", "release"}

Referrers(e) == {r \in Procs \X Roles : Refers(r[1], r[2], e)}

References(e) == Cardinality(Referrers(e)) + (IF onhiq[e] THEN 1 ELSE 0)

RefcountExact == \A e \in Events : refcount[e] = References(e)

(* The block is freed when nobody can reach it, and neither oz_crash of    *)
(* oz_knl_event_increfc is ever called.                                    *)
FreedUnreachable ==
  /\ ~crashed
  /\ \A e \in Events : freed[e] =>
       /\ References(e) = 0
       /\ eventlists[e] = {} /\ evcbs[e] = {}
       /\ ~WakeComing(e)

(* A callback runs once, and at softint level. *)
CallbackOnceAtSoftint ==
  [][\A c \in Cbs : cbs'[c] # cbs[c] /\ cbs[c] # "new" =>
       /\ cbs[c] = "queued"
       /\ \E p \in Procs : level(p) = "softint" /\ c \in mine[p] \ mine'[p]]_vars

(* When the last user has let go of a flag, the flag is freed. *)
FreedInTheEnd ==
  \A e \in Events : (\A u \in Users : e \notin hasref[u]) ~> freed[e]

(* A callback queued to a flag that stays set is called. *)
CallbackInTheEnd ==
  \A c \in Cbs : (cbs[c] = "queued" /\ value[cbev[c]] > 0)
                   ~> (cbs[c] # "queued" \/ value[cbev[c]] <= 0)
=============================================================================
