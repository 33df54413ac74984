--------------------------- MODULE ObjectsProofs ----------------------------
(***************************************************************************)
(* What threads hold and share, for every number of threads, cpus, flags,  *)
(* calls and entries: event flags, low-ipl calls and handle tables, one    *)
(* after the other.  Each has an inductive invariant of its own, and for   *)
(* each of its actions a lemma that the invariant is preserved.            *)
(***************************************************************************)
EXTENDS EventFlag, Lowipl, Handles, QueueLemmas, FiniteSetTheorems, TLAPS

(***************************************************************************)
(* EVENT FLAGS                                                             *)
(*                                                                         *)
(* The inductive invariant is in three parts, each proved from the one     *)
(* before.  Structure: where everybody is and what belongs to whom, which  *)
(* flag is queued where, and which list a callback is on.  Alive: the      *)
(* reference counts are exact; what they protect is then never touched     *)
(* after it is gone, and oz_knl_event_increfc never crashes.  Followed: a  *)
(* change of a flag from clear to set reaches those it concerns, but for   *)
(* one thread that was linking itself to an empty list.                    *)
(*                                                                         *)
(* For each part and each action A of EventFlag there is a lemma, AKeeps,  *)
(* AAlive and AFollowed, that A preserves it.                              *)
(***************************************************************************)

Waits == {"check", "link", "waiting", "unlink"}

(* A thread is linked to the flags it says, all of them flags it holds, and *)
(* it is linked nowhere but in a wait.  It has smplock_ev while it links.   *)
WaitAt(u) ==
  /\ \A e \in Events : e \in linked[u] <=> u \in eventlists[e]
  /\ pc(u) \notin Waits => linked[u] = {}
  /\ pc(u) \notin {"check", "link"} => todo[u] = {}
  /\ linked[u] \cup todo[u] \subseteq hasref[u]
  /\ pc(u) = "link" => ev(u) \in todo[u] /\ evlock[ev(u)] = u

(* A user works on a flag only while it holds a reference to it. *)
UserAt(u) ==
  /\ pc(u) \notin {"next", "release"}
  /\ pc(u) \in {"look", "puthiq", "walk", "callcbs", "calling", "qlink", "qrecheck"}
       => ev(u) \in hasref[u]

(* highiplq_proc is at softint level, and is done with its list when it    *)
(* returns.                                                                *)
CpuAt(c) ==
  /\ pc(c) \in {"out", "walk", "callcbs", "calling", "decref", "nullcalls", "next", "release"}
  /\ level(c) = "softint"
  /\ pc(c) = "out" => work[c] = <<>>

(* Callbacks are taken off a flag only to be called, and only at softint   *)
(* level.                                                                  *)
ProcAt(p) ==
  /\ pc(p) \notin {"out", "next", "check", "waiting", "unlink"} => ev(p) \in Events
  /\ pc(p) \in {"callcbs", "calling", "qlink", "qrecheck"} => level(p) = "softint"
  /\ mine[p] # {} => pc(p) \in {"calling", "nullcalls"} /\ level(p) = "softint"

InHiq(e) == \E i \in 1 .. Len(hiq) : hiq[i] = e
InWork(c, e) == \E i \in 1 .. Len(work[c]) : work[c][i] = e

NoTwice(q) == \A i, j \in 1 .. Len(q) : q[i] = q[j] => i = j

(* A flag marked as queued is queued, in one place. *)
QueuedOnce ==
  /\ NoTwice(hiq) /\ \A c \in Cpus : NoTwice(work[c])
  /\ \A c, d \in Cpus, e \in Events : InWork(c, e) /\ InWork(d, e) => c = d
  /\ \A c \in Cpus, e \in Events : ~(InHiq(e) /\ InWork(c, e))
  /\ \A e \in Events : onhiq[e] <=> InHiq(e) \/ \E c \in Cpus : InWork(c, e)

(* A callback is on one list at the most, and there has not been called. *)
CbsKept ==
  /\ \A e \in Events : \A c \in evcbs[e] : cbs[c] = "queued"
  /\ \A p \in Procs : \A c \in mine[p] : cbs[c] = "queued"
  /\ \A e, f \in Events : e # f => evcbs[e] \cap evcbs[f] = {}
  /\ \A p, q \in Procs : p # q => mine[p] \cap mine[q] = {}
  /\ \A e \in Events, p \in Procs : evcbs[e] \cap mine[p] = {}

Structure ==
  /\ TypeOK
  /\ \A u \in Users : WaitAt(u) /\ UserAt(u)
  /\ \A c \in Cpus : CpuAt(c)
  /\ \A p \in Procs : ProcAt(p)
  /\ QueuedOnce
  /\ CbsKept

(* A flag without references has no callbacks left, and is being freed or  *)
(* is free; the others are not.                                            *)
Alive ==
  /\ RefcountExact
  /\ \A e \in Events : refcount[e] = 0 => evcbs[e] = {}
  /\ \A e \in Events : freed[e] => refcount[e] = 0
  /\ \A p \in Procs : pc(p) = "nullcalls" => refcount[ev(p)] = 0
  /\ ~crashed

(* A thread that sleeps, or will, and depends on being woken by e. *)
AtRisk(u, e) == state[u] = "WEV" /\ (u \in eventlists[e] \/ (pc(u) = "link" /\ ev(u) = e))

OneAtRisk(e) ==
  value[e] > 0 /\ ~WakeComing(e) => \A u, w \in Users : AtRisk(u, e) /\ AtRisk(w, e) => u = w

(* Somebody who will call the callbacks, or have them called.  A walk at    *)
(* null level will not: there were none when it began.                     *)
Calls(p) ==
  \/ pc(p) \in {"look", "puthiq", "callcbs", "qrecheck"}
  \/ pc(p) = "walk" /\ level(p) = "softint"

Owed(e) ==
  value[e] > 0 /\ evcbs[e] # {} => onhiq[e] \/ \E p \in Procs : ev(p) = e /\ Calls(p)

Followed == \A e \in Events : OneAtRisk(e) /\ Owed(e)

IInv == Structure /\ Alive /\ Followed

-----------------------------------------------------------------------------
(* Steps *)

(* Of p and of nobody else. *)
Only(p) ==
  \A q \in Procs \ {p} :
    /\ pc(q)' = pc(q) /\ level(q)' = level(q) /\ ev(q)' = ev(q)
    /\ mine'[q] = mine[q]
    /\ q \in Users => todo'[q] = todo[q] /\ linked'[q] = linked[q] /\ hasref'[q] = hasref[q]
    /\ q \in Cpus => work'[q] = work[q]

Places == [pc : Pcs, level : Levels, ev : Events \cup {None}]

(* Where GoTo leads. *)
Gone(p, label) ==
  /\ at' \in [Procs -> Places]
  /\ pc(p)' = label
  /\ label = "out" => level(p)' = "softint" /\ ev(p)' = None
  /\ label # "out" => level(p)' = level(p) /\ ev(p)' = ev(p)
  /\ \A q \in Procs \ {p} : pc(q)' = pc(q) /\ level(q)' = level(q) /\ ev(q)' = ev(q)

LEMMA GoToGoes ==
  ASSUME TypeOK, NEW p \in Procs, NEW label \in Pcs, GoTo(p, label)
  PROVE  Gone(p, label)
<1>1. at \in [Procs -> Places]
  BY DEF TypeOK, Places
<1>2. CASE label = "out"
  <2>1. at' = [at EXCEPT ![p] = Outside]
    BY <1>2 DEF GoTo
  <2>2. Outside \in Places
    BY DEF Outside, Places, Pcs, Levels
  <2> QED
    BY <1>1, <1>2, <2>1, <2>2 DEF Gone, pc, level, ev, Outside
<1>3. CASE label # "out"
  <2>1. at' = [at EXCEPT ![p] = [@ EXCEPT !.pc = label]]
    BY <1>3 DEF GoTo
  <2>2. [at[p] EXCEPT !.pc = label] \in Places
    BY <1>1 DEF Places
  <2>3. at' \in [Procs -> Places]
    BY <1>1, <2>1, <2>2
  <2>4. at'[p] = [at[p] EXCEPT !.pc = label]
    BY <1>1, <2>1
  <2>5. pc(p)' = label /\ level(p)' = level(p) /\ ev(p)' = ev(p)
    BY <1>1, <2>4 DEF Places, pc, level, ev
  <2> QED
    BY <1>1, <1>3, <2>1, <2>3, <2>5 DEF Gone, pc, level, ev
<1> QED
  BY <1>2, <1>3

(* Where Begin leads: to a routine, called at level l, on flag e. *)
Entered(u, e, l, label) ==
  /\ at' \in [Procs -> Places]
  /\ pc(u) = "out" /\ e \in hasref[u]
  /\ pc(u)' = label
  /\ label = "out" => level(u)' = "softint" /\ ev(u)' = None
  /\ label # "out" => level(u)' = l /\ ev(u)' = e
  /\ \A q \in Procs \ {u} : pc(q)' = pc(q) /\ level(q)' = level(q) /\ ev(q)' = ev(q)

LEMMA BeginEnters ==
  ASSUME TypeOK, NEW u \in Users, NEW e \in Events, NEW l \in Levels, NEW label \in Pcs,
         Begin(u, e, l, label)
  PROVE  Entered(u, e, l, label)
<1>1. at \in [Procs -> Places] /\ u \in Procs
  BY DEF TypeOK, Places, Procs
<1>2. CASE label = "out"
  <2>1. at' = [at EXCEPT ![u] = Outside]
    BY <1>2 DEF Begin
  <2>2. Outside \in Places
    BY DEF Outside, Places, Pcs, Levels
  <2> QED
    BY <1>1, <1>2, <2>1, <2>2 DEF Entered, Begin, pc, level, ev, Outside
<1>3. CASE label # "out"
  <2>1. at' = [at EXCEPT ![u] = [pc |-> label, level |-> l, ev |-> e]]
    BY <1>3 DEF Begin
  <2>2. [pc |-> label, level |-> l, ev |-> e] \in Places
    BY DEF Places
  <2> QED
    BY <1>1, <1>3, <2>1, <2>2 DEF Entered, Begin, pc, level, ev
<1> QED
  BY <1>2, <1>3

(* The structure holds after a step of p if it does for p. *)
OwnAt(p) ==
  /\ p \in Users => WaitAt(p) /\ UserAt(p)
  /\ p \in Cpus => CpuAt(p)
  /\ ProcAt(p)

Foreign(p) ==
  /\ \A e \in Events, u \in Users \ {p} : u \in eventlists'[e] <=> u \in eventlists[e]
  /\ \A e \in Events : evlock[e] \in Users \ {p} => evlock'[e] = evlock[e]

(* A step of p keeps the structure if it does where p is concerned. *)
LEMMA OthersStay ==
  ASSUME Structure, TypeOK', NEW p \in Procs, Only(p), Foreign(p), OwnAt(p)',
         QueuedOnce', CbsKept'
  PROVE  Structure' /\ Only(p)
<1>1. ASSUME NEW u \in Users PROVE (WaitAt(u) /\ UserAt(u))'
  <2>1. CASE u = p
    BY <2>1 DEF OwnAt
  <2>2. CASE u # p
    <3>1. /\ pc(u)' = pc(u) /\ ev(u)' = ev(u)
          /\ todo'[u] = todo[u] /\ linked'[u] = linked[u] /\ hasref'[u] = hasref[u]
      BY <2>2 DEF Only, Procs
    <3>2. WaitAt(u) /\ UserAt(u)
      BY DEF Structure
    <3>3. ev(u) \in todo[u] => ev(u) \in Events
      BY DEF Structure, TypeOK
    <3>4. pc(u)' = "link" => evlock'[ev(u)'] = u
      BY <2>2, <3>1, <3>2, <3>3 DEF WaitAt, Foreign
    <3>5. \A e \in Events : u \in eventlists'[e] <=> u \in eventlists[e]
      BY <2>2 DEF Foreign
    <3>6. WaitAt(u)'
      BY <3>1, <3>2, <3>4, <3>5 DEF WaitAt
    <3> QED
      BY <3>1, <3>2, <3>6 DEF UserAt
  <2> QED
    BY <2>1, <2>2
<1>2. ASSUME NEW c \in Cpus PROVE CpuAt(c)'
  BY DEF Only, OwnAt, CpuAt, Structure, Procs
<1>3. ASSUME NEW q \in Procs PROVE ProcAt(q)'
  BY DEF Only, OwnAt, ProcAt, Structure
<1> QED
  BY <1>1, <1>2, <1>3 DEF Structure

LEMMA QueueSame ==
  ASSUME QueuedOnce, UNCHANGED <<hiq, work, onhiq>>
  PROVE  QueuedOnce'
<1>1. \A e \in Events : InHiq(e)' <=> InHiq(e)
  BY DEF InHiq
<1>2. \A c \in Cpus, e \in Events : InWork(c, e)' <=> InWork(c, e)
  BY DEF InWork
<1> QED
  BY <1>1, <1>2 DEF QueuedOnce

LEMMA CbsSame ==
  ASSUME CbsKept, UNCHANGED <<evcbs, mine, cbs>>
  PROVE  CbsKept'
  BY DEF CbsKept

-----------------------------------------------------------------------------
(* Steps that change nothing the structure is about but where p is. *)

Static == <<eventlists, linked, todo, hasref, evlock, hiq, work, onhiq, evcbs, mine, cbs>>

LEMMA GoingKeeps ==
  ASSUME Structure, TypeOK', NEW p \in Procs, UNCHANGED Static, OwnAt(p)',
         \A q \in Procs \ {p} : pc(q)' = pc(q) /\ level(q)' = level(q) /\ ev(q)' = ev(q)
  PROVE  Structure' /\ Only(p)
<1>1. Only(p) /\ Foreign(p)
  BY DEF Only, Foreign, Static
<1>2. QueuedOnce' /\ CbsKept'
  BY QueueSame, CbsSame DEF Structure, Static
<1> QED
  BY <1>1, <1>2, OthersStay

LEMMA ChangeValueKeeps ==
  ASSUME Structure, NEW u \in Users, NEW e \in Events, NEW l \in Levels, NEW new \in Int,
         ChangeValue(u, e, l, new)
  PROVE  Structure' /\ Only(u)
<1> DEFINE label == IF new > 0 /\ value[e] <= 0 THEN "look" ELSE "out"
<1>1. Entered(u, e, l, label) /\ u \in Procs
  BY BeginEnters DEF ChangeValue, Structure, Pcs, Procs
<1>2. TypeOK'
  BY <1>1 DEF ChangeValue, Structure, TypeOK, Entered, Places, cbvars
<1>3. UNCHANGED Static
  BY DEF ChangeValue, Static, cbvars
<1>4. OwnAt(u)'
  BY <1>1, <1>3, PartiesAssumption
     DEF Entered, Structure, OwnAt, WaitAt, UserAt, CpuAt, ProcAt, Waits, Static
<1> QED
  BY <1>1, <1>2, <1>3, <1>4, GoingKeeps DEF Entered

LEMMA LookKeeps ==
  ASSUME Structure, NEW p \in Procs, Look(p)
  PROVE  Structure' /\ Only(p)
<1>1. /\ WakeRoute(p) \in {Done(p), "puthiq", "walk"}
      /\ p \in Users /\ ev(p) \in hasref[p] /\ ev(p) \in Events
  BY DEF WakeRoute, Look, Structure, CpuAt, UserAt, ProcAt, Procs
<1>2. WakeRoute(p) \in {"out", "puthiq", "walk"} /\ p \notin Cpus
  BY <1>1, PartiesAssumption DEF Done
<1>3. Gone(p, WakeRoute(p))
  BY <1>2, GoToGoes DEF Look, Structure, Pcs
<1>4. TypeOK'
  BY <1>3 DEF Look, Structure, TypeOK, Gone, Places, flagvars, cbvars
<1>5. UNCHANGED Static
  BY DEF Look, Static, flagvars, cbvars
<1>6. OwnAt(p)'
  BY <1>1, <1>2, <1>3, <1>5
     DEF Look, Gone, Structure, OwnAt, WaitAt, UserAt, ProcAt, Waits, Static
<1> QED
  BY <1>3, <1>4, <1>5, <1>6, GoingKeeps DEF Gone

LEMMA WalkKeeps ==
  ASSUME Structure, NEW p \in Procs, Walk(p)
  PROVE  Structure' /\ Only(p)
<1> DEFINE label == IF level(p) = "softint" THEN "callcbs" ELSE Done(p)
<1>1. /\ label \in {"callcbs", "release", "out"}
      /\ label = "callcbs" => level(p) = "softint"
  BY DEF Done
<1>2. Gone(p, label)
  BY <1>1, GoToGoes DEF Walk, Structure, Pcs
<1>3. TypeOK'
  BY <1>2 DEF Walk, Structure, TypeOK, Gone, Places, flagvars, cbvars
<1>4. UNCHANGED Static
  BY DEF Walk, Static, flagvars, cbvars
<1>5. OwnAt(p)'
  <2>1. pc(p) = "walk" /\ ProcAt(p) /\ ev(p) \in Events
    BY DEF Walk, Structure, ProcAt
  <2>2. ProcAt(p)'
    BY <1>1, <1>2, <1>4, <2>1 DEF Gone, ProcAt, Static
  <2>3. p \in Users => (WaitAt(p) /\ UserAt(p))'
    <3> SUFFICES ASSUME p \in Users PROVE (WaitAt(p) /\ UserAt(p))'
      OBVIOUS
    <3>1. pc(p)' \in {"callcbs", "out"}
      BY <1>2, PartiesAssumption DEF Gone, Done
    <3> QED
      BY <1>2, <1>4, <2>1, <3>1 DEF Gone, Structure, WaitAt, UserAt, Waits, Static
  <2>4. p \in Cpus => CpuAt(p)'
    BY <1>1, <1>2, <1>4, <2>1 DEF Gone, Structure, CpuAt, Static
  <2> QED
    BY <2>2, <2>3, <2>4 DEF OwnAt
<1> QED
  BY <1>2, <1>3, <1>4, <1>5, GoingKeeps DEF Gone

LEMMA DecRefKeeps ==
  ASSUME Structure, NEW p \in Procs, DecRef(p)
  PROVE  Structure' /\ Only(p)
<1>1. /\ p \in Users => Dropped(p) = "out" /\ p \notin Cpus
      /\ p \in Cpus => Dropped(p) \in {"next", "release"}
  BY PartiesAssumption DEF Dropped, Done, DecRef, Structure, UserAt
<1>2. Gone(p, Dropped(p))
  BY <1>1, GoToGoes DEF DecRef, Structure, Pcs, Procs
<1>3. TypeOK'
  <2>1. refcount \in [Events -> Nat] /\ ev(p) \in Events
    BY DEF DecRef, Structure, TypeOK, ProcAt
  <2>2. refcount' \in [Events -> Nat]
    BY <2>1 DEF DecRef
  <2> QED
    BY <1>2, <2>2 DEF DecRef, Structure, TypeOK, Gone, Places, cbvars
<1>4. UNCHANGED Static
  BY DEF DecRef, Static, cbvars
<1>5. OwnAt(p)'
  BY <1>1, <1>2, <1>4
     DEF DecRef, Gone, Structure, OwnAt, WaitAt, UserAt, CpuAt, ProcAt, Waits, Static, Procs
<1> QED
  BY <1>2, <1>3, <1>4, <1>5, GoingKeeps DEF Gone

LEMMA QueueCbKeeps ==
  ASSUME Structure, NEW u \in Users, QueueCb(u)
  PROVE  Structure' /\ Only(u)
<1>1. PICK e \in Events : Begin(u, e, "softint", "qlink")
  BY DEF QueueCb
<1>2. Entered(u, e, "softint", "qlink") /\ u \in Procs
  BY <1>1, BeginEnters DEF Structure, Pcs, Levels, Procs
<1>3. TypeOK'
  BY <1>2 DEF QueueCb, Structure, TypeOK, Entered, Places, flagvars, cbvars
<1>4. UNCHANGED Static
  BY DEF QueueCb, Static, flagvars, cbvars
<1>5. OwnAt(u)'
  BY <1>2, <1>4, PartiesAssumption
     DEF Entered, Structure, OwnAt, WaitAt, UserAt, ProcAt, Waits, Static
<1> QED
  BY <1>2, <1>3, <1>4, <1>5, GoingKeeps DEF Entered

LEMMA QueueEndsKeeps ==
  ASSUME Structure, NEW u \in Users, QueueNoPool(u) \/ QueueRecheck(u)
  PROVE  Structure' /\ Only(u)
<1>1. PICK label \in {"out", "callcbs"} : GoTo(u, label)
  BY DEF QueueNoPool, QueueRecheck
<1>2. Gone(u, label) /\ u \in Procs /\ u \notin Cpus
  BY <1>1, GoToGoes, PartiesAssumption DEF Structure, Pcs, Procs
<1>3. UNCHANGED <<flagvars, hiq, lowipl, state, todo, linked, mine, work, hasref, cbvars, crashed>>
  BY DEF QueueNoPool, QueueRecheck
<1>4. TypeOK'
  BY <1>2, <1>3 DEF Structure, TypeOK, Gone, Places, flagvars, cbvars
<1>5. UNCHANGED Static
  BY <1>3 DEF Static, flagvars, cbvars
<1>6. OwnAt(u)'
  BY <1>2, <1>5
     DEF QueueNoPool, QueueRecheck, Gone, Structure, OwnAt, WaitAt, UserAt, ProcAt, Waits, Static
<1> QED
  BY <1>2, <1>4, <1>5, <1>6, GoingKeeps DEF Gone

LEMMA WaitDoneKeeps ==
  ASSUME Structure, NEW u \in Users, WaitDone(u)
  PROVE  Structure' /\ Only(u)
<1>1. Gone(u, "unlink") /\ u \in Procs /\ u \notin Cpus
  BY GoToGoes, PartiesAssumption DEF WaitDone, Structure, Pcs, Procs
<1>2. TypeOK'
  BY <1>1 DEF WaitDone, Structure, TypeOK, Gone, Places, flagvars, cbvars
<1>3. UNCHANGED Static
  BY DEF WaitDone, Static, flagvars, cbvars
<1>4. OwnAt(u)'
  BY <1>1, <1>3 DEF WaitDone, Gone, Structure, OwnAt, WaitAt, UserAt, ProcAt, Waits, Static
<1> QED
  BY <1>1, <1>2, <1>3, <1>4, GoingKeeps DEF Gone

LEMMA WaitAstKeeps ==
  ASSUME Structure, NEW u \in Users, WaitAst(u)
  PROVE  Structure' /\ Only(u)
<1>1. TypeOK'
  BY DEF WaitAst, Structure, TypeOK, flagvars, cbvars
<1>2. UNCHANGED <<at, Static>>
  BY DEF WaitAst, Static, flagvars, cbvars
<1>3. u \in Procs /\ OwnAt(u)'
  BY <1>2, PartiesAssumption
     DEF Structure, OwnAt, WaitAt, UserAt, CpuAt, ProcAt, Static, Procs, pc, level, ev
<1> QED
  BY <1>1, <1>2, <1>3, GoingKeeps DEF pc, level, ev

LEMMA StutterKeeps ==
  ASSUME Structure, UNCHANGED vars
  PROVE  Structure'
<1>1. TypeOK'
  BY DEF Structure, TypeOK, vars, flagvars, procvars, cbvars
<1>2. QueuedOnce' /\ CbsKept'
  BY QueueSame, CbsSame DEF Structure, vars, flagvars, procvars, cbvars
<1> QED
  BY <1>1, <1>2 DEF Structure, vars, flagvars, procvars, cbvars,
     WaitAt, UserAt, CpuAt, ProcAt, pc, level, ev

-----------------------------------------------------------------------------
(* Steps that change the queues. *)

(* e can be put on the queue. *)
LEMMA PutKeeps ==
  ASSUME Structure, NEW e \in Events, NEW r \in Nat, PutOnHighiplq(e, r), UNCHANGED work
  PROVE  /\ QueuedOnce'
         /\ hiq' \in Seq(Events) /\ onhiq' \in [Events -> BOOLEAN] /\ lowipl' \in BOOLEAN
         /\ refcount' \in [Events -> Nat]
<1>1. hiq \in Seq(Events) /\ onhiq \in [Events -> BOOLEAN] /\ refcount \in [Events -> Nat]
      /\ lowipl \in BOOLEAN /\ QueuedOnce
  BY DEF Structure, TypeOK
<1>2. CASE onhiq[e]
  BY <1>1, <1>2, QueueSame DEF PutOnHighiplq
<1>3. CASE ~onhiq[e]
  <2>1. hiq' = Append(hiq, e) /\ onhiq' = [onhiq EXCEPT ![e] = TRUE]
        /\ refcount' = [refcount EXCEPT ![e] = r + 1] /\ lowipl' = FALSE
    BY <1>3 DEF PutOnHighiplq
  <2>2. /\ hiq' \in Seq(Events) /\ Len(hiq') = Len(hiq) + 1 /\ Len(hiq) \in Nat
        /\ \A i \in 1 .. Len(hiq) : hiq'[i] = hiq[i]
        /\ hiq'[Len(hiq) + 1] = e
    BY <1>1, <2>1
  <2>3. \A f \in Events : InHiq(f)' <=> InHiq(f) \/ f = e
    BY <2>2 DEF InHiq
  <2>4. ~InHiq(e) /\ \A c \in Cpus : ~InWork(c, e)
    BY <1>1, <1>3 DEF QueuedOnce
  <2>5. \A c \in Cpus, f \in Events : InWork(c, f)' <=> InWork(c, f)
    BY DEF InWork
  <2>6. NoTwice(hiq')
    <3> SUFFICES ASSUME NEW i \in 1 .. Len(hiq'), NEW j \in 1 .. Len(hiq'), hiq'[i] = hiq'[j]
                 PROVE  i = j
      BY DEF NoTwice
    <3>1. \A k \in 1 .. Len(hiq) : hiq[k] # e
      BY <2>4 DEF InHiq
    <3>2. \A k, l \in 1 .. Len(hiq) : hiq[k] = hiq[l] => k = l
      BY <1>1 DEF QueuedOnce, NoTwice
    <3>3. \A k \in 1 .. Len(hiq') : k \in 1 .. Len(hiq) \/ k = Len(hiq) + 1
      BY <2>2
    <3> QED
      BY <2>2, <3>1, <3>2, <3>3
  <2>7. \A f \in Events : onhiq'[f] <=> InHiq(f)' \/ \E c \in Cpus : InWork(c, f)'
    <3> TAKE f \in Events
    <3>1. onhiq'[f] <=> onhiq[f] \/ f = e
      BY <1>1, <2>1
    <3> QED
      BY <1>1, <2>3, <2>5, <3>1 DEF QueuedOnce
  <2>8. QueuedOnce'
    BY <1>1, <2>3, <2>4, <2>5, <2>6, <2>7 DEF QueuedOnce
  <2>9. onhiq' \in [Events -> BOOLEAN] /\ lowipl' \in BOOLEAN
    BY <1>1, <2>1
  <2>10. refcount' \in [Events -> Nat]
    BY <1>1, <2>1
  <2> QED
    BY <2>2, <2>8, <2>9, <2>10
<1> QED
  BY <1>2, <1>3

LEMMA PutHighiplKeeps ==
  ASSUME Structure, NEW p \in Procs, PutHighipl(p)
  PROVE  Structure' /\ Only(p)
<1>1. pc(p) = "puthiq" /\ ev(p) \in Events /\ p \in Users /\ p \notin Cpus
  BY PartiesAssumption DEF PutHighipl, Structure, ProcAt, CpuAt, Procs
<1>2. Gone(p, "out")
  BY <1>1, GoToGoes DEF PutHighipl, Structure, Pcs, Done
<1>3. refcount[ev(p)] \in Nat
  BY <1>1 DEF Structure, TypeOK
<1>4. /\ QueuedOnce'
      /\ hiq' \in Seq(Events) /\ onhiq' \in [Events -> BOOLEAN] /\ lowipl' \in BOOLEAN
      /\ refcount' \in [Events -> Nat]
  BY <1>1, <1>3, PutKeeps DEF PutHighipl
<1>5. TypeOK'
  BY <1>2, <1>4 DEF PutHighipl, Structure, TypeOK, Gone, Places, cbvars
<1>6. Only(p) /\ Foreign(p)
  BY <1>2 DEF PutHighipl, Only, Foreign, Gone
<1>7. CbsKept'
  BY CbsSame DEF PutHighipl, cbvars, Structure
<1>8. OwnAt(p)'
  BY <1>1, <1>2 DEF PutHighipl, Gone, Structure, OwnAt, WaitAt, UserAt, ProcAt, Waits, Procs
<1> QED
  BY <1>5, <1>6, <1>4, <1>7, <1>8, OthersStay

LEMMA HighiplStartKeeps ==
  ASSUME Structure, NEW c \in Cpus, HighiplStart(c)
  PROVE  Structure' /\ Only(c)
<1>1. c \in Procs /\ c \notin Users /\ work[c] = <<>> /\ pc(c) = "out"
  BY PartiesAssumption DEF Procs, Structure, CpuAt, HighiplStart
<1>2. Gone(c, "next")
  BY <1>1, GoToGoes DEF HighiplStart, Structure, Pcs
<1>3. hiq \in Seq(Events) /\ work \in [Cpus -> Seq(Events)] /\ QueuedOnce
  BY DEF Structure, TypeOK
<1>4. work' = [work EXCEPT ![c] = hiq] /\ hiq' = <<>> /\ UNCHANGED flagvars
  BY DEF HighiplStart
<1>5. TypeOK'
  BY <1>2, <1>3, <1>4 DEF HighiplStart, Structure, TypeOK, Gone, Places, flagvars, cbvars
<1>6. QueuedOnce'
  <2>1. \A e \in Events : ~InHiq(e)' /\ ~InWork(c, e)
    BY <1>1, <1>4 DEF InHiq, InWork
  <2>2. \A e \in Events : InWork(c, e)' <=> InHiq(e)
    BY <1>3, <1>4 DEF InHiq, InWork
  <2>3. \A d \in Cpus \ {c}, e \in Events : InWork(d, e)' <=> InWork(d, e)
    BY <1>3, <1>4 DEF InWork
  <2>4. \A d \in Cpus : NoTwice(work'[d])
    <3>1. \A d \in Cpus : work'[d] = hiq \/ work'[d] = work[d]
      BY <1>3, <1>4
    <3> QED
      BY <1>3, <3>1 DEF QueuedOnce
  <2>5. \A d, f \in Cpus, e \in Events : InWork(d, e)' /\ InWork(f, e)' => d = f
    BY <1>3, <2>2, <2>3 DEF QueuedOnce
  <2>6. \A e \in Events : onhiq'[e] <=> InHiq(e)' \/ \E d \in Cpus : InWork(d, e)'
    <3> TAKE e \in Events
    <3>1. onhiq'[e] <=> InHiq(e) \/ \E d \in Cpus : InWork(d, e)
      BY <1>3, <1>4 DEF QueuedOnce, flagvars
    <3> QED
      BY <2>1, <2>2, <2>3, <3>1
  <2>7. NoTwice(hiq')
    BY <1>4 DEF NoTwice
  <2> QED
    BY <2>1, <2>4, <2>5, <2>6, <2>7 DEF QueuedOnce
<1>7. Only(c) /\ Foreign(c)
  BY <1>1, <1>2, <1>3 DEF HighiplStart, Only, Foreign, Gone, flagvars
<1>8. CbsKept'
  BY CbsSame DEF HighiplStart, flagvars, cbvars, Structure
<1>9. OwnAt(c)'
  BY <1>1, <1>2 DEF HighiplStart, Gone, Structure, OwnAt, CpuAt, ProcAt, Procs
<1> QED
  BY <1>1, <1>5, <1>6, <1>7, <1>8, <1>9, OthersStay

LEMMA HighiplNextKeeps ==
  ASSUME Structure, NEW c \in Cpus, HighiplNext(c)
  PROVE  Structure' /\ Only(c)
<1>1. c \in Procs /\ c \notin Users /\ pc(c) = "next"
  BY PartiesAssumption DEF Procs, HighiplNext
<1>2. hiq \in Seq(Events) /\ work \in [Cpus -> Seq(Events)] /\ onhiq \in [Events -> BOOLEAN]
      /\ QueuedOnce /\ at \in [Procs -> Places]
  BY DEF Structure, TypeOK, Places
<1>3. CASE work[c] = <<>>
  <2>1. Gone(c, "out")
    BY <1>1, <1>3, GoToGoes DEF HighiplNext, Structure, Pcs
  <2>2. TypeOK'
    BY <1>3, <2>1 DEF HighiplNext, Structure, TypeOK, Gone, Places, cbvars
  <2>3. UNCHANGED Static
    BY <1>3 DEF HighiplNext, Static, cbvars
  <2>4. OwnAt(c)'
    BY <1>1, <1>3, <2>1, <2>3 DEF Gone, Structure, OwnAt, CpuAt, ProcAt, Static, Procs
  <2> QED
    BY <1>1, <2>1, <2>2, <2>3, <2>4, GoingKeeps DEF Gone
<1>4. CASE work[c] # <<>>
  <2> PICK e : e = Head(work[c])
    OBVIOUS
  <2>1. /\ at' = [at EXCEPT ![c] = [pc |-> "walk", level |-> level(c), ev |-> e]]
        /\ onhiq' = [onhiq EXCEPT ![e] = FALSE]
        /\ work' = [work EXCEPT ![c] = Tail(@)]
        /\ UNCHANGED hiq
    BY <1>4 DEF HighiplNext
  <2>2. /\ e \in Events /\ e = work[c][1] /\ Len(work[c]) \in Nat /\ Len(work[c]) >= 1
        /\ work'[c] \in Seq(Events) /\ Len(work'[c]) = Len(work[c]) - 1
        /\ \A i \in 1 .. Len(work[c]) - 1 : work'[c][i] = work[c][i + 1]
    BY <1>2, <1>4, <2>1
  <2>4. /\ at' \in [Procs -> Places] /\ pc(c)' = "walk" /\ level(c)' = level(c) /\ ev(c)' = e
        /\ \A q \in Procs \ {c} : pc(q)' = pc(q) /\ level(q)' = level(q) /\ ev(q)' = ev(q)
    <3>1. at[c] \in Places
      BY <1>1, <1>2
    <3>2. [pc |-> "walk", level |-> level(c), ev |-> e] \in Places
      BY <2>2, <3>1 DEF Places, Pcs, level
    <3> QED
      BY <1>1, <1>2, <2>1, <3>2 DEF pc, level, ev
  <2>5. TypeOK'
    BY <1>2, <2>1, <2>2, <2>4 DEF HighiplNext, Structure, TypeOK, Places, cbvars
  <2>6. QueuedOnce'
    <3>1. \A f \in Events : InHiq(f)' <=> InHiq(f)
      BY <2>1 DEF InHiq
    <3>2. \A d \in Cpus \ {c}, f \in Events : InWork(d, f)' <=> InWork(d, f)
      BY <1>2, <2>1 DEF InWork
    <3>3. \A i, j \in 1 .. Len(work[c]) : work[c][i] = work[c][j] => i = j
      BY <1>2 DEF QueuedOnce, NoTwice
    <3>4. \A f \in Events : InWork(c, f)' <=> InWork(c, f) /\ f # e
      <4> TAKE f \in Events
      <4>1. InWork(c, f)' => InWork(c, f) /\ f # e
        BY <2>2, <3>3 DEF InWork
      <4>2. ASSUME InWork(c, f), f # e PROVE InWork(c, f)'
        <5>1. PICK i \in 1 .. Len(work[c]) : work[c][i] = f
          BY <4>2 DEF InWork
        <5>2. i # 1
          BY <2>2, <4>2, <5>1
        <5>3. i - 1 \in 1 .. Len(work[c]) - 1 /\ (i - 1) + 1 = i
          BY <2>2, <5>2
        <5>4. work'[c][i - 1] = f /\ i - 1 \in 1 .. Len(work'[c])
          BY <2>2, <5>1, <5>3
        <5> QED
          BY <5>4 DEF InWork
      <4> QED
        BY <4>1, <4>2
    <3>5. InWork(c, e)
      BY <2>2 DEF InWork
    <3>6. \A d \in Cpus : NoTwice(work'[d])
      <4>1. NoTwice(work'[c])
        <5> SUFFICES ASSUME NEW i \in 1 .. Len(work'[c]), NEW j \in 1 .. Len(work'[c]),
                            work'[c][i] = work'[c][j]
                     PROVE  i = j
          BY DEF NoTwice
        <5>1. i + 1 \in 1 .. Len(work[c]) /\ j + 1 \in 1 .. Len(work[c])
          BY <2>2
        <5>2. i + 1 = j + 1 => i = j
          OBVIOUS
        <5>3. work'[c][i] = work[c][i + 1] /\ work'[c][j] = work[c][j + 1]
          BY <2>2
        <5> QED
          BY <3>3, <5>1, <5>2, <5>3
      <4>2. \A d \in Cpus \ {c} : work'[d] = work[d]
        BY <1>2, <2>1
      <4> QED
        BY <1>2, <4>1, <4>2 DEF QueuedOnce
    <3>7. \A d, f \in Cpus, g \in Events : InWork(d, g)' /\ InWork(f, g)' => d = f
      BY <1>2, <3>2, <3>4 DEF QueuedOnce
    <3>8. \A d \in Cpus, g \in Events : ~(InHiq(g)' /\ InWork(d, g)')
      BY <1>2, <3>1, <3>2, <3>4 DEF QueuedOnce
    <3>9. \A g \in Events : onhiq'[g] <=> InHiq(g)' \/ \E d \in Cpus : InWork(d, g)'
      <4> TAKE g \in Events
      <4>1. onhiq'[g] <=> onhiq[g] /\ g # e
        BY <1>2, <2>1
      <4>2. onhiq[g] <=> InHiq(g) \/ \E d \in Cpus : InWork(d, g)
        BY <1>2 DEF QueuedOnce
      <4>3. g # e => (InHiq(g)' <=> InHiq(g)) /\ \A d \in Cpus : InWork(d, g)' <=> InWork(d, g)
        BY <3>1, <3>2, <3>4
      <4>4. ~InHiq(e)' /\ \A d \in Cpus : ~InWork(d, e)'
        BY <1>2, <2>2, <3>1, <3>2, <3>4, <3>5 DEF QueuedOnce
      <4> QED
        BY <4>1, <4>2, <4>3, <4>4
    <3> QED
      BY <1>2, <2>1, <3>6, <3>7, <3>8, <3>9 DEF QueuedOnce
  <2>7. Only(c) /\ Foreign(c)
    BY <1>1, <1>2, <2>1, <2>4 DEF HighiplNext, Only, Foreign
  <2>8. CbsKept'
    BY CbsSame DEF HighiplNext, cbvars, Structure
  <2>9. OwnAt(c)'
    BY <1>1, <2>2, <2>4 DEF HighiplNext, Structure, OwnAt, CpuAt, ProcAt, Procs
  <2> QED
    BY <1>1, <2>5, <2>6, <2>7, <2>8, <2>9, OthersStay
<1> QED
  BY <1>3, <1>4

-----------------------------------------------------------------------------
(* Steps that take callbacks, and call them. *)

LEMMA CallCallbacksKeeps ==
  ASSUME Structure, NEW p \in Procs, CallCallbacks(p)
  PROVE  Structure' /\ Only(p)
<1>1. /\ pc(p) = "callcbs" /\ ev(p) \in Events /\ level(p) = "softint"
      /\ p \in Users => ev(p) \in hasref[p] /\ p \notin Cpus
  BY PartiesAssumption DEF CallCallbacks, Structure, ProcAt, UserAt
<1>2. CASE evcbs[ev(p)] = {}
  <2>1. GoTo(p, Done(p)) /\ UNCHANGED <<evcbs, refcount, mine>>
    BY <1>2 DEF CallCallbacks
  <2>2. p \in Users => Done(p) = "out"
    BY <1>1 DEF Done
  <2>3. p \in Cpus => Done(p) = "release"
    BY DEF Done
  <2>4. Gone(p, Done(p))
    BY <2>1, GoToGoes DEF Structure, Pcs, Done
  <2>5. TypeOK'
    BY <2>1, <2>4 DEF CallCallbacks, Structure, TypeOK, Gone, Places, cbvars
  <2>6. UNCHANGED Static
    BY <2>1 DEF CallCallbacks, Static, cbvars
  <2>7. OwnAt(p)'
    BY <1>1, <2>2, <2>3, <2>4, <2>6
       DEF Gone, Structure, OwnAt, WaitAt, UserAt, CpuAt, ProcAt, Waits, Static, Procs
  <2> QED
    BY <2>4, <2>5, <2>6, <2>7, GoingKeeps DEF Gone
<1>3. CASE evcbs[ev(p)] # {}
  <2>1. /\ mine' = [mine EXCEPT ![p] = evcbs[ev(p)]]
        /\ evcbs' = [evcbs EXCEPT ![ev(p)] = {}]
        /\ refcount' = [refcount EXCEPT ![ev(p)] = @ + 1]
        /\ GoTo(p, "calling")
    BY <1>3 DEF CallCallbacks
  <2>2. Gone(p, "calling")
    BY <2>1, GoToGoes DEF Structure, Pcs
  <2>3. /\ mine \in [Procs -> SUBSET Cbs] /\ evcbs \in [Events -> SUBSET Cbs]
        /\ refcount \in [Events -> Nat]
    BY DEF Structure, TypeOK
  <2>4. /\ mine' \in [Procs -> SUBSET Cbs] /\ evcbs' \in [Events -> SUBSET Cbs]
        /\ refcount' \in [Events -> Nat]
    BY <1>1, <2>1, <2>3
  <2>5. TypeOK'
    BY <2>2, <2>4 DEF CallCallbacks, Structure, TypeOK, Gone, Places, cbvars
  <2>6. Only(p) /\ Foreign(p)
    BY <2>1, <2>2, <2>3 DEF CallCallbacks, Only, Foreign, Gone
  <2>7. QueuedOnce'
    BY QueueSame DEF CallCallbacks, Structure
  <2>8. mine[p] = {}
    BY <1>1 DEF Structure, ProcAt
  <2>9. CbsKept'
    <3>1. \A e \in Events : evcbs'[e] = IF e = ev(p) THEN {} ELSE evcbs[e]
      BY <2>1, <2>3
    <3>2. \A q \in Procs : mine'[q] = IF q = p THEN evcbs[ev(p)] ELSE mine[q]
      BY <2>1, <2>3
    <3>3. CbsKept /\ cbs' = cbs
      BY DEF CallCallbacks, cbvars, Structure
    <3> QED
      BY <1>1, <3>1, <3>2, <3>3 DEF CbsKept
  <2>10. OwnAt(p)'
    BY <1>1, <2>2
       DEF CallCallbacks, Gone, Structure, OwnAt, WaitAt, UserAt, CpuAt, ProcAt, Waits, Procs
  <2> QED
    BY <2>5, <2>6, <2>7, <2>9, <2>10, OthersStay
<1> QED
  BY <1>2, <1>3

(* A callback that p has taken is called. *)
LEMMA CalledKeeps ==
  ASSUME Structure, NEW p \in Procs, NEW c \in mine[p], NEW how \in {"event", "null"},
         cbs' = [cbs EXCEPT ![c] = how], mine' = [mine EXCEPT ![p] = @ \ {c}],
         UNCHANGED <<value, refcount, evcbs, eventlists, onhiq, evlock, freed, hiq, lowipl, at,
                     state, todo, linked, work, hasref, cbev, crashed>>
  PROVE  Structure' /\ Only(p)
<1>1. /\ mine \in [Procs -> SUBSET Cbs] /\ cbs \in [Cbs -> {"new", "queued", "event", "null"}]
      /\ c \in Cbs
  BY DEF Structure, TypeOK
<1>2. /\ mine' \in [Procs -> SUBSET Cbs] /\ cbs' \in [Cbs -> {"new", "queued", "event", "null"}]
      /\ \A q \in Procs \ {p} : mine'[q] = mine[q]
      /\ mine'[p] = mine[p] \ {c}
      /\ \A d \in Cbs \ {c} : cbs'[d] = cbs[d]
  BY <1>1
<1>3. TypeOK'
  BY <1>2 DEF Structure, TypeOK
<1>4. Only(p) /\ Foreign(p)
  BY <1>2 DEF Only, Foreign, pc, level, ev
<1>5. QueuedOnce'
  BY QueueSame DEF Structure
<1>6. CbsKept'
  <2>1. evcbs' = evcbs /\ evcbs \in [Events -> SUBSET Cbs] /\ CbsKept
    BY DEF Structure, TypeOK
  <2>2. \A e \in Events : c \notin evcbs[e]
    BY <2>1 DEF CbsKept
  <2>3. \A q \in Procs \ {p} : c \notin mine[q]
    BY <2>1 DEF CbsKept
  <2>4. \A q \in Procs : mine'[q] \subseteq mine[q] /\ c \notin mine'[q]
    BY <1>2, <2>3
  <2>5. \A e \in Events : \A d \in evcbs'[e] : cbs'[d] = "queued"
    BY <1>2, <2>1, <2>2 DEF CbsKept
  <2>6. \A q \in Procs : \A d \in mine'[q] : cbs'[d] = "queued"
    BY <1>1, <1>2, <2>1, <2>4 DEF CbsKept
  <2> QED
    BY <2>1, <2>4, <2>5, <2>6 DEF CbsKept
<1>7. OwnAt(p)'
  BY <1>2, PartiesAssumption
     DEF Structure, OwnAt, WaitAt, UserAt, CpuAt, ProcAt, pc, level, ev
<1> QED
  BY <1>3, <1>4, <1>5, <1>6, <1>7, OthersStay

LEMMA CallOneKeeps ==
  ASSUME Structure, NEW p \in Procs, CallOne(p)
  PROVE  Structure' /\ Only(p)
<1>1. CASE mine[p] = {}
  <2>1. Gone(p, "decref")
    BY <1>1, GoToGoes DEF CallOne, Structure, Pcs
  <2>2. TypeOK'
    BY <1>1, <2>1 DEF CallOne, Structure, TypeOK, Gone, Places, flagvars
  <2>3. UNCHANGED Static
    BY <1>1 DEF CallOne, Static, flagvars
  <2>4. OwnAt(p)'
    BY <1>1, <2>1, <2>3, PartiesAssumption
       DEF CallOne, Gone, Structure, OwnAt, WaitAt, UserAt, CpuAt, ProcAt, Waits, Static
  <2> QED
    BY <2>1, <2>2, <2>3, <2>4, GoingKeeps DEF Gone
<1>2. CASE mine[p] # {}
  <2>1. PICK c \in mine[p] : /\ cbs' = [cbs EXCEPT ![c] = "event"]
                             /\ mine' = [mine EXCEPT ![p] = @ \ {c}]
                             /\ UNCHANGED at
    BY <1>2 DEF CallOne
  <2> QED
    BY <2>1, CalledKeeps DEF CallOne, flagvars
<1> QED
  BY <1>1, <1>2

LEMMA NullCallKeeps ==
  ASSUME Structure, NEW p \in Procs, NullCall(p)
  PROVE  Structure' /\ Only(p)
<1>1. CASE mine[p] = {}
  <2> DEFINE label == IF p \in Cpus THEN "next" ELSE "out"
  <2>1. Gone(p, label)
    BY <1>1, GoToGoes DEF NullCall, Structure, Pcs
  <2>2. freed' \in [Events -> BOOLEAN] /\ UNCHANGED <<mine, cbs>>
    BY <1>1 DEF NullCall, Structure, TypeOK
  <2>3. TypeOK'
    BY <2>1, <2>2 DEF NullCall, Structure, TypeOK, Gone, Places
  <2>4. UNCHANGED Static
    BY <2>2 DEF NullCall, Static
  <2>5. pc(p) = "nullcalls" /\ (p \in Users => p \notin Cpus)
    BY PartiesAssumption DEF NullCall
  <2>6. p \in Users => (WaitAt(p) /\ UserAt(p))'
    BY <2>1, <2>4, <2>5 DEF Gone, Structure, WaitAt, UserAt, Waits, Static
  <2>7. p \in Cpus => CpuAt(p)'
    BY <2>1, <2>4, <2>5 DEF Gone, Structure, CpuAt, Static
  <2>8. ProcAt(p)'
    BY <1>1, <2>1, <2>4, <2>5 DEF Gone, Structure, ProcAt, Static
  <2> QED
    BY <2>1, <2>3, <2>4, <2>6, <2>7, <2>8, GoingKeeps DEF Gone, OwnAt
<1>2. CASE mine[p] # {}
  <2>1. PICK c \in mine[p] : /\ cbs' = [cbs EXCEPT ![c] = "null"]
                             /\ mine' = [mine EXCEPT ![p] = @ \ {c}]
                             /\ UNCHANGED <<freed, at>>
    BY <1>2 DEF NullCall
  <2> QED
    BY <2>1, CalledKeeps DEF NullCall
<1> QED
  BY <1>1, <1>2

LEMMA DropRefKeeps ==
  ASSUME Structure, NEW u \in Users, DropRef(u)
  PROVE  Structure' /\ Only(u)
<1>1. PICK e \in Events, l \in {"null", "softint"} :
        /\ Begin(u, e, l, "decref")
        /\ hasref' = [hasref EXCEPT ![u] = @ \ {e}]
        /\ UNCHANGED <<flagvars, hiq, lowipl, state, todo, linked, mine, work, cbvars, crashed>>
  BY DEF DropRef
<1>2. Entered(u, e, l, "decref") /\ u \in Procs /\ u \notin Cpus
  BY <1>1, BeginEnters, PartiesAssumption DEF Structure, Pcs, Levels, Procs
<1>3. hasref \in [Users -> SUBSET Events] /\ hasref' \in [Users -> SUBSET Events]
  BY <1>1 DEF Structure, TypeOK
<1>4. TypeOK'
  BY <1>1, <1>2, <1>3 DEF Structure, TypeOK, Entered, Places, flagvars, cbvars
<1>5. Only(u) /\ Foreign(u)
  BY <1>1, <1>2, <1>3 DEF Only, Foreign, Entered, flagvars
<1>6. QueuedOnce' /\ CbsKept'
  BY <1>1, QueueSame, CbsSame DEF Structure, flagvars, cbvars
<1>7. OwnAt(u)'
  BY <1>1, <1>2 DEF Entered, Structure, OwnAt, WaitAt, UserAt, ProcAt, Waits, flagvars
<1> QED
  BY <1>2, <1>4, <1>5, <1>6, <1>7, OthersStay

LEMMA DecRefToZeroKeeps ==
  ASSUME Structure, NEW p \in Procs, DecRefToZero(p)
  PROVE  Structure' /\ Only(p)
<1> PICK e : e = ev(p)
  OBVIOUS
<1>1. /\ pc(p) \in {"decref", "release"} /\ e \in Events
      /\ UNCHANGED <<value, eventlists, evlock, freed, state, todo, linked, work, hasref, cbvars>>
      /\ p \in Users => pc(p) = "decref" /\ p \notin Cpus
      /\ mine[p] = {}
  BY PartiesAssumption DEF DecRefToZero, Structure, ProcAt, UserAt
<1>2. CASE refcount[e] < 1 \/ onhiq[e]
  <2>1. crashed' = TRUE /\ UNCHANGED <<refcount, evcbs, mine, onhiq, hiq, lowipl, at>>
    BY <1>2 DEF DecRefToZero
  <2>2. TypeOK'
    BY <1>1, <2>1 DEF Structure, TypeOK, cbvars
  <2>3. UNCHANGED <<at, Static>>
    BY <1>1, <2>1 DEF Static, cbvars
  <2>4. OwnAt(p)'
    BY <2>3, PartiesAssumption
       DEF Structure, OwnAt, WaitAt, UserAt, CpuAt, ProcAt, Static, pc, level, ev
  <2> QED
    BY <2>2, <2>3, <2>4, GoingKeeps DEF pc, level, ev
<1>3. CASE ~(refcount[e] < 1 \/ onhiq[e]) /\ evcbs[e] # {} /\ level(p) # "softint"
  <2>1. PutOnHighiplq(e, 0) /\ GoTo(p, Dropped(p)) /\ UNCHANGED <<evcbs, mine, crashed>>
    BY <1>3 DEF DecRefToZero
  <2>2. p \in Users /\ Dropped(p) = "out"
    BY <1>1, <1>3 DEF Structure, CpuAt, Procs, Dropped, Done
  <2>3. Gone(p, "out")
    BY <2>1, <2>2, GoToGoes DEF Structure, Pcs
  <2>4. /\ QueuedOnce'
        /\ hiq' \in Seq(Events) /\ onhiq' \in [Events -> BOOLEAN] /\ lowipl' \in BOOLEAN
        /\ refcount' \in [Events -> Nat]
    BY <1>1, <2>1, PutKeeps
  <2>5. TypeOK'
    BY <1>1, <2>1, <2>3, <2>4 DEF Structure, TypeOK, Gone, Places, cbvars
  <2>6. Only(p) /\ Foreign(p)
    BY <1>1, <2>1, <2>3 DEF Only, Foreign, Gone
  <2>7. CbsKept'
    BY <1>1, <2>1, CbsSame DEF cbvars, Structure
  <2>8. OwnAt(p)'
    BY <1>1, <2>1, <2>2, <2>3 DEF Gone, Structure, OwnAt, WaitAt, UserAt, ProcAt, Waits
  <2> QED
    BY <2>4, <2>5, <2>6, <2>7, <2>8, OthersStay
<1>4. CASE ~(refcount[e] < 1 \/ onhiq[e]) /\ ~(evcbs[e] # {} /\ level(p) # "softint")
  <2>1. /\ refcount' = [refcount EXCEPT ![e] = 0]
        /\ mine' = [mine EXCEPT ![p] = evcbs[e]]
        /\ evcbs' = [evcbs EXCEPT ![e] = {}]
        /\ GoTo(p, "nullcalls")
        /\ UNCHANGED <<onhiq, hiq, lowipl, crashed>>
    BY <1>4 DEF DecRefToZero
  <2>2. Gone(p, "nullcalls")
    BY <2>1, GoToGoes DEF Structure, Pcs
  <2>3. /\ mine \in [Procs -> SUBSET Cbs] /\ evcbs \in [Events -> SUBSET Cbs]
        /\ refcount \in [Events -> Nat]
    BY DEF Structure, TypeOK
  <2>4. /\ mine' \in [Procs -> SUBSET Cbs] /\ evcbs' \in [Events -> SUBSET Cbs]
        /\ refcount' \in [Events -> Nat]
    BY <1>1, <2>1, <2>3
  <2>5. TypeOK'
    BY <1>1, <2>1, <2>2, <2>4 DEF Structure, TypeOK, Gone, Places, cbvars
  <2>6. Only(p) /\ Foreign(p)
    BY <1>1, <2>1, <2>2, <2>3 DEF Only, Foreign, Gone
  <2>7. QueuedOnce'
    BY <1>1, <2>1, QueueSame DEF Structure
  <2>8. CbsKept'
    <3>1. \A f \in Events : evcbs'[f] = IF f = e THEN {} ELSE evcbs[f]
      BY <2>1, <2>3
    <3>2. \A q \in Procs : mine'[q] = IF q = p THEN evcbs[e] ELSE mine[q]
      BY <2>1, <2>3
    <3>3. CbsKept /\ cbs' = cbs
      BY <1>1 DEF cbvars, Structure
    <3> QED
      BY <1>1, <3>1, <3>2, <3>3 DEF CbsKept
  <2>9. mine'[p] # {} => level(p) = "softint"
    <3>1. mine'[p] = evcbs[e]
      BY <2>1, <2>3
    <3> QED
      BY <1>4, <3>1
  <2>10. p \in Users => (WaitAt(p) /\ UserAt(p))'
    BY <1>1, <2>2 DEF Gone, Structure, WaitAt, UserAt, Waits
  <2>11. p \in Cpus => CpuAt(p)'
    BY <1>1, <2>2 DEF Gone, Structure, CpuAt
  <2>12. ProcAt(p)'
    BY <1>1, <2>2, <2>9 DEF Gone, ProcAt
  <2> QED
    BY <2>5, <2>6, <2>7, <2>8, <2>10, <2>11, <2>12, OthersStay DEF OwnAt
<1> QED
  BY <1>2, <1>3, <1>4

-----------------------------------------------------------------------------
(* Callbacks and threads that are linked to a flag. *)

LEMMA QueueLinkKeeps ==
  ASSUME Structure, NEW u \in Users, QueueLink(u)
  PROVE  Structure' /\ Only(u)
<1> PICK e : e = ev(u)
  OBVIOUS
<1>1. PICK c \in Cbs :
        /\ cbs[c] = "new"
        /\ cbs' = [cbs EXCEPT ![c] = "queued"]
        /\ cbev' = [cbev EXCEPT ![c] = e]
        /\ evcbs' = [evcbs EXCEPT ![e] = @ \cup {c}]
  BY DEF QueueLink
<1>2. u \in Procs /\ u \notin Cpus /\ pc(u) = "qlink" /\ e \in Events /\ level(u) = "softint"
  BY PartiesAssumption DEF Procs, QueueLink, Structure, ProcAt
<1>3. Gone(u, "qrecheck")
  BY <1>2, GoToGoes DEF QueueLink, Structure, Pcs
<1>4. /\ cbs \in [Cbs -> {"new", "queued", "event", "null"}] /\ evcbs \in [Events -> SUBSET Cbs]
      /\ cbev \in [Cbs -> Events \cup {None}] /\ mine \in [Procs -> SUBSET Cbs]
  BY DEF Structure, TypeOK
<1>5. /\ cbs' \in [Cbs -> {"new", "queued", "event", "null"}] /\ evcbs' \in [Events -> SUBSET Cbs]
      /\ cbev' \in [Cbs -> Events \cup {None}]
  BY <1>1, <1>2, <1>4
<1>6. TypeOK'
  BY <1>3, <1>5 DEF QueueLink, Structure, TypeOK, Gone, Places
<1>7. Only(u) /\ Foreign(u)
  BY <1>3 DEF QueueLink, Only, Foreign, Gone
<1>8. QueuedOnce'
  BY QueueSame DEF QueueLink, Structure
<1>9. CbsKept'
  <2>1. CbsKept /\ mine' = mine
    BY DEF QueueLink, Structure
  <2>2. \A f \in Events : evcbs'[f] = IF f = e THEN evcbs[f] \cup {c} ELSE evcbs[f]
    BY <1>1, <1>4
  <2>3. \A d \in Cbs : cbs'[d] = IF d = c THEN "queued" ELSE cbs[d]
    BY <1>1, <1>4
  <2>4. /\ \A f \in Events : c \notin evcbs[f]
        /\ \A q \in Procs : c \notin mine[q]
    BY <1>1, <2>1 DEF CbsKept
  <2>5. ASSUME NEW f \in Events, NEW d \in evcbs'[f] PROVE cbs'[d] = "queued"
    <3>1. d \in Cbs /\ (d \in evcbs[f] \/ d = c)
      BY <1>5, <2>2
    <3> QED
      BY <2>1, <2>3, <3>1 DEF CbsKept
  <2>6. \A q \in Procs : \A d \in mine[q] : cbs'[d] = "queued"
    BY <1>4, <2>1, <2>3 DEF CbsKept
  <2>7. /\ \A f, g \in Events : f # g => evcbs[f] \cap evcbs[g] = {}
        /\ \A f \in Events, q \in Procs : evcbs[f] \cap mine[q] = {}
    BY <2>1 DEF CbsKept
  <2>8. \A f, g \in Events : f # g => evcbs'[f] \cap evcbs'[g] = {}
    <3> TAKE f, g \in Events
    <3> SUFFICES ASSUME f # g PROVE evcbs'[f] \cap evcbs'[g] = {}
      OBVIOUS
    <3>1. evcbs[f] \cap evcbs[g] = {} /\ c \notin evcbs[f] /\ c \notin evcbs[g]
      BY <2>4, <2>7
    <3>2. evcbs'[f] \subseteq evcbs[f] \cup {c} /\ evcbs'[g] \subseteq evcbs[g] \cup {c}
      BY <2>2
    <3>3. evcbs'[f] = evcbs[f] \/ evcbs'[g] = evcbs[g]
      BY <2>2
    <3> QED
      BY ONLY <3>1, <3>2, <3>3
  <2>9. \A f \in Events, q \in Procs : evcbs'[f] \cap mine[q] = {}
    <3> TAKE f \in Events, q \in Procs
    <3>1. evcbs[f] \cap mine[q] = {} /\ c \notin mine[q]
      BY <2>4, <2>7
    <3> QED
      BY <2>2, <3>1
  <2> QED
    BY <2>1, <2>5, <2>6, <2>8, <2>9 DEF CbsKept
<1>10. OwnAt(u)'
  BY <1>2, <1>3 DEF QueueLink, Gone, Structure, OwnAt, WaitAt, UserAt, ProcAt, Waits
<1> QED
  BY <1>2, <1>6, <1>7, <1>8, <1>9, <1>10, OthersStay

LEMMA WaitListKeeps ==
  ASSUME Structure, NEW u \in Users, WaitList(u)
  PROVE  Structure' /\ Only(u)
<1>1. PICK es \in SUBSET hasref[u] \ {{}} :
        /\ pc(u) = "out"
        /\ todo' = [todo EXCEPT ![u] = es]
        /\ state' = [state EXCEPT ![u] = "WEV"]
        /\ GoTo(u, "check")
        /\ UNCHANGED <<flagvars, hiq, lowipl, linked, mine, work, hasref, cbvars, crashed>>
  BY DEF WaitList
<1>2. u \in Procs /\ u \notin Cpus
  BY PartiesAssumption DEF Procs
<1>3. Gone(u, "check")
  BY <1>1, <1>2, GoToGoes DEF Structure, Pcs
<1>4. /\ todo \in [Users -> SUBSET Events] /\ state \in [Users -> {"RUN", "WEV"}]
      /\ hasref \in [Users -> SUBSET Events]
  BY DEF Structure, TypeOK
<1>5. todo' \in [Users -> SUBSET Events] /\ state' \in [Users -> {"RUN", "WEV"}] /\ todo'[u] = es
  BY <1>1, <1>4
<1>6. TypeOK'
  BY <1>1, <1>3, <1>5 DEF Structure, TypeOK, Gone, Places, flagvars, cbvars
<1>7. Only(u) /\ Foreign(u)
  BY <1>1, <1>3, <1>4 DEF Only, Foreign, Gone, flagvars
<1>8. QueuedOnce' /\ CbsKept'
  BY <1>1, QueueSame, CbsSame DEF Structure, flagvars, cbvars
<1>9. OwnAt(u)'
  BY <1>1, <1>2, <1>3, <1>5 DEF Gone, Structure, OwnAt, WaitAt, UserAt, ProcAt, Waits, flagvars
<1> QED
  BY <1>2, <1>6, <1>7, <1>8, <1>9, OthersStay

LEMMA WaitCheckKeeps ==
  ASSUME Structure, NEW u \in Users, WaitCheck(u)
  PROVE  Structure' /\ Only(u)
<1>1. PICK e \in todo[u] :
    /\ pc(u) = "check" /\ Unlocked(e)
    /\ IF value[e] > 0
         THEN /\ state' = [state EXCEPT ![u] = "RUN"]
              /\ todo' = [todo EXCEPT ![u] = {}]
              /\ GoTo(u, "unlink")
              /\ UNCHANGED evlock
         ELSE /\ evlock' = [evlock EXCEPT ![e] = u]
              /\ at' = [at EXCEPT ![u] = [pc |-> "link", level |-> level(u), ev |-> e]]
              /\ UNCHANGED <<state, todo>>
    /\ UNCHANGED <<value, refcount, evcbs, eventlists, onhiq, freed, hiq, lowipl,
                   linked, mine, work, hasref, cbvars, crashed>>
  BY DEF WaitCheck
<1>2. u \in Procs /\ u \notin Cpus
  BY PartiesAssumption DEF Procs
<1>3. /\ todo \in [Users -> SUBSET Events] /\ state \in [Users -> {"RUN", "WEV"}]
      /\ evlock \in [Events -> Users \cup {None}] /\ at \in [Procs -> Places] /\ e \in Events
  BY DEF Structure, TypeOK, Places
<1>4. QueuedOnce' /\ CbsKept'
  BY <1>1, QueueSame, CbsSame DEF Structure, cbvars
<1>5. CASE value[e] > 0
  <2>1. Gone(u, "unlink")
    BY <1>1, <1>2, <1>5, GoToGoes DEF Structure, Pcs
  <2>2. todo' \in [Users -> SUBSET Events] /\ state' \in [Users -> {"RUN", "WEV"}] /\ todo'[u] = {}
        /\ evlock' = evlock
    BY <1>1, <1>3, <1>5
  <2>3. TypeOK'
    BY <1>1, <2>1, <2>2 DEF Structure, TypeOK, Gone, Places, cbvars
  <2>4. Only(u) /\ Foreign(u)
    BY <1>1, <1>3, <1>5, <2>1 DEF Only, Foreign, Gone
  <2>5. OwnAt(u)'
    BY <1>1, <1>2, <2>1, <2>2 DEF Gone, Structure, OwnAt, WaitAt, UserAt, ProcAt, Waits
  <2> QED
    BY <1>2, <1>4, <2>3, <2>4, <2>5, OthersStay
<1>6. CASE ~(value[e] > 0)
  <2>1. /\ evlock' = [evlock EXCEPT ![e] = u]
        /\ at' = [at EXCEPT ![u] = [pc |-> "link", level |-> level(u), ev |-> e]]
        /\ UNCHANGED <<state, todo>>
    BY <1>1, <1>6
  <2>2. [pc |-> "link", level |-> level(u), ev |-> e] \in Places
    BY <1>2, <1>3 DEF Places, Pcs, level
  <2>3. /\ at' \in [Procs -> Places] /\ pc(u)' = "link" /\ ev(u)' = e /\ level(u)' = level(u)
        /\ \A q \in Procs \ {u} : pc(q)' = pc(q) /\ level(q)' = level(q) /\ ev(q)' = ev(q)
    BY <1>2, <1>3, <2>1, <2>2 DEF pc, level, ev
  <2>4. TypeOK'
    BY <1>1, <1>3, <2>1, <2>3 DEF Structure, TypeOK, Places, cbvars
  <2>5. Only(u) /\ Foreign(u)
    BY <1>1, <1>3, <2>1, <2>3, PartiesAssumption DEF Only, Foreign, Unlocked
  <2>6. OwnAt(u)'
    BY <1>1, <1>2, <1>3, <2>1, <2>3 DEF Structure, OwnAt, WaitAt, UserAt, ProcAt, Waits
  <2> QED
    BY <1>2, <1>4, <2>4, <2>5, <2>6, OthersStay
<1> QED
  BY <1>5, <1>6

LEMMA WaitLinkKeeps ==
  ASSUME Structure, NEW u \in Users, WaitLink(u)
  PROVE  Structure' /\ Only(u)
<1> PICK e : e = ev(u)
  OBVIOUS
<1> DEFINE label == IF todo[u] = {e} THEN "waiting" ELSE "check"
<1>1. /\ pc(u) = "link"
      /\ eventlists' = [eventlists EXCEPT ![e] = @ \cup {u}]
      /\ linked' = [linked EXCEPT ![u] = @ \cup {e}]
      /\ todo' = [todo EXCEPT ![u] = @ \ {e}]
      /\ evlock' = [evlock EXCEPT ![e] = None]
      /\ GoTo(u, label)
      /\ UNCHANGED <<value, refcount, evcbs, onhiq, freed, hiq, lowipl, state, mine,
                     work, hasref, cbvars, crashed>>
  BY DEF WaitLink
<1>2. u \in Procs /\ u \notin Cpus /\ e \in Events /\ WaitAt(u) /\ UserAt(u) /\ ProcAt(u)
  BY <1>1, PartiesAssumption DEF Procs, Structure, ProcAt
<1>3. Gone(u, label)
  BY <1>1, <1>2, GoToGoes DEF Structure, Pcs
<1>4. /\ todo \in [Users -> SUBSET Events] /\ linked \in [Users -> SUBSET Events]
      /\ evlock \in [Events -> Users \cup {None}] /\ eventlists \in [Events -> SUBSET Users]
  BY DEF Structure, TypeOK
<1>5. /\ todo' \in [Users -> SUBSET Events] /\ linked' \in [Users -> SUBSET Events]
      /\ evlock' \in [Events -> Users \cup {None}] /\ eventlists' \in [Events -> SUBSET Users]
      /\ todo'[u] = todo[u] \ {e} /\ linked'[u] = linked[u] \cup {e}
      /\ \A f \in Events : u \in eventlists'[f] <=> u \in eventlists[f] \/ f = e
  BY <1>1, <1>2, <1>4
<1>6. TypeOK'
  BY <1>1, <1>3, <1>5 DEF Structure, TypeOK, Gone, Places, cbvars
<1>7. Only(u)
  BY <1>1, <1>3, <1>4 DEF Only, Gone
<1>8. Foreign(u)
  <2>1. evlock[e] = u
    BY <1>1, <1>2 DEF WaitAt
  <2> QED
    BY <1>1, <1>4, <2>1 DEF Foreign
<1>9. QueuedOnce' /\ CbsKept'
  BY <1>1, QueueSame, CbsSame DEF Structure, cbvars
<1>10. WaitAt(u)'
  <2>1. hasref' = hasref /\ e \in hasref[u] /\ linked[u] \cup todo[u] \subseteq hasref[u]
    BY <1>1, <1>2 DEF WaitAt
  <2>2. \A f \in Events : f \in linked'[u] <=> u \in eventlists'[f]
    BY <1>2, <1>5 DEF WaitAt
  <2>3. pc(u)' \in Waits /\ pc(u)' # "link" /\ (pc(u)' \notin {"check", "link"} => todo'[u] = {})
    BY <1>3, <1>5 DEF Gone, Waits
  <2> QED
    BY <1>5, <2>1, <2>2, <2>3 DEF WaitAt
<1>11. UserAt(u)' /\ ProcAt(u)'
  BY <1>1, <1>2, <1>3 DEF Gone, UserAt, ProcAt
<1> QED
  BY <1>2, <1>6, <1>7, <1>8, <1>9, <1>10, <1>11, OthersStay DEF OwnAt

LEMMA WaitUnlinkKeeps ==
  ASSUME Structure, NEW u \in Users, WaitUnlink(u)
  PROVE  Structure' /\ Only(u)
<1>1. u \in Procs /\ u \notin Cpus /\ pc(u) = "unlink" /\ WaitAt(u) /\ UserAt(u) /\ ProcAt(u)
  BY PartiesAssumption DEF Procs, WaitUnlink, Structure
<1>2. CASE linked[u] = {} /\ GoTo(u, "out") /\ UNCHANGED <<eventlists, linked>>
  <2>1. Gone(u, "out")
    BY <1>1, <1>2, GoToGoes DEF Structure, Pcs
  <2>2. TypeOK'
    BY <1>2, <2>1 DEF WaitUnlink, Structure, TypeOK, Gone, Places, cbvars
  <2>3. UNCHANGED Static
    BY <1>2 DEF WaitUnlink, Static, cbvars
  <2>4. OwnAt(u)'
    BY <1>1, <1>2, <2>1, <2>3 DEF Gone, OwnAt, WaitAt, UserAt, ProcAt, Waits, Static
  <2> QED
    BY <1>1, <2>1, <2>2, <2>3, <2>4, GoingKeeps DEF Gone
<1>3. ASSUME NEW e \in linked[u],
             /\ eventlists' = [eventlists EXCEPT ![e] = @ \ {u}]
             /\ linked' = [linked EXCEPT ![u] = @ \ {e}]
             /\ UNCHANGED at
      PROVE  Structure' /\ Only(u)
  <2>1. /\ linked \in [Users -> SUBSET Events] /\ eventlists \in [Events -> SUBSET Users]
        /\ e \in Events
    BY DEF Structure, TypeOK
  <2>2. /\ linked' \in [Users -> SUBSET Events] /\ eventlists' \in [Events -> SUBSET Users]
        /\ linked'[u] = linked[u] \ {e}
        /\ \A f \in Events : u \in eventlists'[f] <=> u \in eventlists[f] /\ f # e
    BY <1>3, <2>1
  <2>3. TypeOK'
    BY <1>3, <2>2 DEF WaitUnlink, Structure, TypeOK, cbvars
  <2>4. Only(u) /\ Foreign(u)
    BY <1>3, <2>1 DEF WaitUnlink, Only, Foreign, pc, level, ev
  <2>5. QueuedOnce' /\ CbsKept'
    BY QueueSame, CbsSame DEF WaitUnlink, Structure, cbvars
  <2>6. WaitAt(u)'
    <3>1. pc(u)' = pc(u) /\ ev(u)' = ev(u) /\ UNCHANGED <<todo, hasref>>
      BY <1>3 DEF WaitUnlink, pc, ev
    <3> QED
      BY <1>1, <2>2, <3>1 DEF WaitAt, Waits
  <2>7. UserAt(u)' /\ ProcAt(u)'
    BY <1>1, <1>3 DEF WaitUnlink, UserAt, ProcAt, pc, level, ev
  <2> QED
    BY <1>1, <2>3, <2>4, <2>5, <2>6, <2>7, OthersStay DEF OwnAt
<1> QED
  BY <1>2, <1>3 DEF WaitUnlink

-----------------------------------------------------------------------------
LEMMA StructureInit ==
  ASSUME Init PROVE Structure
<1>1. TypeOK
  <2>1. Cardinality(Users) \in Nat
    BY PartiesAssumption, FS_CardinalityType
  <2>2. 0 \in -MaxValue .. MaxValue
    BY ValuesAssumption
  <2>3. Outside \in Places
    BY DEF Outside, Places, Pcs, Levels
  <2>4. at \in [Procs -> Places] /\ work \in [Cpus -> Seq(Events)] /\ hiq \in Seq(Events)
    BY <2>3 DEF Init
  <2> QED
    BY <2>1, <2>2, <2>4 DEF Init, TypeOK, Places
<1>2. \A u \in Users : WaitAt(u) /\ UserAt(u)
  BY DEF Init, WaitAt, UserAt, Outside, Waits, pc, Procs
<1>3. \A c \in Cpus : CpuAt(c)
  BY DEF Init, CpuAt, Outside, pc, level, Procs
<1>4. \A p \in Procs : ProcAt(p)
  BY DEF Init, ProcAt, Outside, pc, level
<1>5. QueuedOnce
  BY DEF Init, QueuedOnce, NoTwice, InHiq, InWork
<1>6. CbsKept
  BY DEF Init, CbsKept
<1> QED
  BY <1>1, <1>2, <1>3, <1>4, <1>5, <1>6 DEF Structure

LEMMA StructureNext ==
  ASSUME Structure, [Next]_vars PROVE Structure'
<1>1. ASSUME NEW u \in Users, Call(u) PROVE Structure'
  <2>1. value \in [Events -> Int] /\ Values \subseteq Int /\ Incs \subseteq Int
    BY ValuesAssumption DEF Structure, TypeOK
  <2>2. CASE EventSet(u)
    BY <2>1, <2>2, ChangeValueKeeps DEF EventSet
  <2>3. CASE EventInc(u)
    <3>1. PICK e \in Events, l \in Levels, i \in Incs : ChangeValue(u, e, l, value[e] + i)
      BY <2>3 DEF EventInc
    <3>2. value[e] + i \in Int
      BY <2>1
    <3> QED
      BY <3>1, <3>2, ChangeValueKeeps
  <2> QED
    BY <1>1, <2>2, <2>3, DropRefKeeps, QueueCbKeeps, WaitListKeeps DEF Call
<1>2. ASSUME NEW p \in Procs, Wake(p) \/ Drop(p) PROVE Structure'
  BY <1>2, LookKeeps, PutHighiplKeeps, WalkKeeps, CallCallbacksKeeps, CallOneKeeps,
     DecRefKeeps, DecRefToZeroKeeps, NullCallKeeps DEF Wake, Drop
<1>3. ASSUME NEW u \in Users, UserStep(u) \/ QueueNoPool(u) \/ WaitAst(u) PROVE Structure'
  BY <1>2, <1>3, QueueLinkKeeps, QueueEndsKeeps, WaitCheckKeeps, WaitLinkKeeps, WaitDoneKeeps,
     WaitAstKeeps, WaitUnlinkKeeps DEF UserStep, Procs
<1>4. ASSUME NEW c \in Cpus, CpuStep(c) PROVE Structure'
  BY <1>2, <1>4, HighiplStartKeeps, HighiplNextKeeps DEF CpuStep, Procs
<1> QED
  BY <1>1, <1>3, <1>4, StutterKeeps DEF Next

-----------------------------------------------------------------------------
(* References *)

(* A step of p alone changes what p refers to. *)
Same(p, e) == \A s \in Roles : Refers(p, s, e)' <=> Refers(p, s, e)

Gains(p, r, e) ==
  ~Refers(p, r, e) /\ \A s \in Roles : Refers(p, s, e)' <=> Refers(p, s, e) \/ s = r

Loses(p, r, e) ==
  Refers(p, r, e) /\ \A s \in Roles : Refers(p, s, e)' <=> Refers(p, s, e) /\ s # r

Swaps(p, r, t, e) ==
  /\ r # t /\ Refers(p, r, e) /\ ~Refers(p, t, e)
  /\ \A s \in Roles : Refers(p, s, e)' <=> (Refers(p, s, e) /\ s # r) \/ s = t

Count(e) == Cardinality(Referrers(e))

(* There are finitely many references. *)
LEMMA SubsetsFinite ==
  \A S \in SUBSET (Procs \X Roles) : IsFiniteSet(S) /\ Cardinality(S) \in Nat
<1>1. IsFiniteSet(Procs)
  BY PartiesAssumption, FS_Union DEF Procs
<1>2. IsFiniteSet(Roles)
  <2>1. Roles = ({} \cup {"own"}) \cup {"call"} \cup {"queue"}
    BY DEF Roles
  <2> QED
    BY <2>1, FS_EmptySet, FS_AddElement
<1>3. IsFiniteSet(Procs \X Roles)
  BY <1>1, <1>2, FS_Product
<1> QED
  BY <1>3, FS_Subset, FS_CardinalityType

LEMMA CountFinite ==
  ASSUME NEW e
  PROVE  IsFiniteSet(Referrers(e)) /\ Count(e) \in Nat /\ Count(e)' \in Nat
<1>1. Referrers(e) \subseteq Procs \X Roles /\ Referrers(e)' \subseteq Procs \X Roles
  BY DEF Referrers
<1> QED
  BY <1>1, SubsetsFinite DEF Count

(* The count follows what p has got, let go of, or turned into another. *)
LEMMA CountChanges ==
  ASSUME NEW p \in Procs, NEW e \in Events, Only(p)
  PROVE  /\ Same(p, e) => Count(e)' = Count(e)
         /\ \A r \in Roles : Gains(p, r, e) => Count(e)' = Count(e) + 1
         /\ \A r \in Roles : Loses(p, r, e) => Count(e)' = Count(e) - 1
         /\ \A r, t \in Roles : Swaps(p, r, t, e) => Count(e)' = Count(e)
<1>1. \A q \in Procs \ {p}, s \in Roles : Refers(q, s, e)' <=> Refers(q, s, e)
  BY DEF Only, Refers
<1>2. ASSUME Same(p, e) PROVE Referrers(e)' = Referrers(e)
  BY <1>1, <1>2 DEF Referrers, Same
<1>3. ASSUME NEW r \in Roles, Gains(p, r, e)
      PROVE  Referrers(e)' = Referrers(e) \cup {<<p, r>>} /\ <<p, r>> \notin Referrers(e)
  BY <1>1, <1>3 DEF Referrers, Gains
<1>4. ASSUME NEW r \in Roles, Loses(p, r, e)
      PROVE  Referrers(e)' = Referrers(e) \ {<<p, r>>} /\ <<p, r>> \in Referrers(e)
  BY <1>1, <1>4 DEF Referrers, Loses
<1>5. IsFiniteSet(Referrers(e))
  BY CountFinite
<1>6. ASSUME NEW r \in Roles, Gains(p, r, e) PROVE Count(e)' = Count(e) + 1
  BY <1>3, <1>5, <1>6, FS_AddElement DEF Count
<1>7. ASSUME NEW r \in Roles, Loses(p, r, e) PROVE Count(e)' = Count(e) - 1
  BY <1>4, <1>5, <1>7, FS_RemoveElement DEF Count
<1>8. ASSUME NEW r \in Roles, NEW t \in Roles, Swaps(p, r, t, e) PROVE Count(e)' = Count(e)
  <2> DEFINE S == Referrers(e) \ {<<p, r>>}
  <2>1. /\ Referrers(e)' = S \cup {<<p, t>>}
        /\ <<p, r>> \in Referrers(e) /\ <<p, t>> \notin S
    BY <1>1, <1>8 DEF Referrers, Swaps
  <2>2. IsFiniteSet(S) /\ Cardinality(S) = Count(e) - 1 /\ Count(e) \in Nat
    BY <1>5, <2>1, FS_RemoveElement, CountFinite DEF Count
  <2>3. Count(e)' = Cardinality(S) + 1
    BY <2>1, <2>2, FS_AddElement DEF Count
  <2> HIDE DEF S
  <2> QED
    BY <2>2, <2>3
<1> QED
  BY <1>2, <1>6, <1>7, <1>8 DEF Count

(* Who refers to a flag keeps it. *)
LEMMA ReferredLives ==
  ASSUME Structure, RefcountExact, NEW e \in Events
  PROVE  /\ \A p \in Procs, r \in Roles : Refers(p, r, e) => refcount[e] > 0
         /\ \A p \in Procs, q \in Procs, r \in Roles, s \in Roles :
              Refers(p, r, e) /\ Refers(q, s, e) /\ <<p, r>> # <<q, s>> => refcount[e] > 1
         /\ onhiq[e] => refcount[e] > 0
         /\ onhiq[e] => \A p \in Procs, r \in Roles : Refers(p, r, e) => refcount[e] > 1
<1>1. /\ refcount[e] = Count(e) + (IF onhiq[e] THEN 1 ELSE 0)
      /\ Count(e) \in Nat /\ IsFiniteSet(Referrers(e))
  BY CountFinite DEF RefcountExact, References, Count
<1>2. ASSUME NEW p \in Procs, NEW r \in Roles, Refers(p, r, e)
      PROVE  Count(e) > 0 /\ <<p, r>> \in Referrers(e)
  <2>1. <<p, r>> \in Referrers(e)
    BY <1>2 DEF Referrers
  <2>2. Count(e) # 0
    BY <1>1, <2>1, FS_EmptySet DEF Count
  <2> QED
    BY <1>1, <2>1, <2>2
<1>3. ASSUME NEW p \in Procs, NEW r \in Roles, Refers(p, r, e),
             NEW q \in Procs, NEW s \in Roles, Refers(q, s, e), <<p, r>> # <<q, s>>
      PROVE  Count(e) > 1
  <2> DEFINE S == Referrers(e) \ {<<p, r>>}
  <2>1. <<p, r>> \in Referrers(e) /\ <<q, s>> \in S
    BY <1>2, <1>3
  <2>2. IsFiniteSet(S) /\ Cardinality(S) = Count(e) - 1
    BY <1>1, <2>1, FS_RemoveElement DEF Count
  <2>3. Cardinality(S) # 0
    BY <2>1, <2>2, FS_EmptySet
  <2>4. Cardinality(S) \in Nat
    BY <2>2, FS_CardinalityType
  <2> HIDE DEF S
  <2> QED
    BY <1>1, <2>2, <2>3, <2>4
<1> HIDE DEF Count
<1>4. refcount[e] >= Count(e) /\ (onhiq[e] => refcount[e] = Count(e) + 1) /\ refcount[e] \in Nat
  BY <1>1
<1>5. ASSUME NEW p \in Procs, NEW r \in Roles, Refers(p, r, e)
      PROVE  refcount[e] > 0 /\ (onhiq[e] => refcount[e] > 1)
  <2>1. Count(e) > 0
    BY <1>2, <1>5
  <2> QED
    BY <1>1, <1>4, <2>1
<1>6. ASSUME NEW p \in Procs, NEW r \in Roles, Refers(p, r, e),
             NEW q \in Procs, NEW s \in Roles, Refers(q, s, e), <<p, r>> # <<q, s>>
      PROVE  refcount[e] > 1
  <2>1. Count(e) > 1
    BY <1>3, <1>6
  <2> QED
    BY <1>1, <1>4, <2>1
<1>7. onhiq[e] => refcount[e] > 0
  BY <1>1, <1>4
<1> QED
  BY <1>5, <1>6, <1>7

(* The ways in which a step keeps the reference count exact. *)
LEMMA ExactKept ==
  ASSUME RefcountExact, Structure, TypeOK', NEW p \in Procs, Only(p), NEW e \in Events
  PROVE  /\ Same(p, e) /\ refcount'[e] = refcount[e] /\ onhiq'[e] = onhiq[e]
              => refcount'[e] = References(e)'
         /\ \A r \in Roles :
              Gains(p, r, e) /\ refcount'[e] = refcount[e] + 1 /\ onhiq'[e] = onhiq[e]
              => refcount'[e] = References(e)'
         /\ \A r \in Roles :
              Loses(p, r, e) /\ refcount'[e] = refcount[e] - 1 /\ onhiq'[e] = onhiq[e]
              => refcount'[e] = References(e)'
         /\ \A r \in Roles :
              Gains(p, r, e) /\ refcount'[e] = refcount[e] /\ onhiq[e] /\ ~onhiq'[e]
              => refcount'[e] = References(e)'
         /\ \A r \in Roles :
              Loses(p, r, e) /\ refcount'[e] = refcount[e] /\ ~onhiq[e] /\ onhiq'[e]
              => refcount'[e] = References(e)'
         /\ Same(p, e) /\ refcount'[e] = refcount[e] + 1 /\ ~onhiq[e] /\ onhiq'[e]
              => refcount'[e] = References(e)'
         /\ \A r, t \in Roles :
              Swaps(p, r, t, e) /\ refcount'[e] = refcount[e] /\ onhiq'[e] = onhiq[e]
              => refcount'[e] = References(e)'
<1>1. /\ Count(e) \in Nat /\ Count(e)' \in Nat
      /\ refcount[e] = Count(e) + (IF onhiq[e] THEN 1 ELSE 0)
      /\ References(e)' = Count(e)' + (IF onhiq'[e] THEN 1 ELSE 0)
  BY CountFinite DEF RefcountExact, References, Count
<1>2. /\ Same(p, e) => Count(e)' = Count(e)
      /\ \A r \in Roles : Gains(p, r, e) => Count(e)' = Count(e) + 1
      /\ \A r \in Roles : Loses(p, r, e) => Count(e)' = Count(e) - 1
      /\ \A r, t \in Roles : Swaps(p, r, t, e) => Count(e)' = Count(e)
  BY CountChanges
<1> HIDE DEF Count
<1> QED
  BY <1>1, <1>2

-----------------------------------------------------------------------------
(* The reference counts, and what they protect. *)

(* A step that changes no count. *)
LEMMA AliveStays ==
  ASSUME Structure, TypeOK', Alive, NEW p \in Procs, Only(p),
         UNCHANGED <<refcount, onhiq, crashed>>,
         \A e \in Events : freed'[e] => freed[e] \/ refcount[e] = 0,
         \A e \in Events : Same(p, e),
         \A e \in Events : evcbs'[e] \subseteq evcbs[e] \/ refcount[e] # 0,
         pc(p)' = "nullcalls" => pc(p) = "nullcalls" /\ ev(p)' = ev(p)
  PROVE  Alive'
<1>1. RefcountExact'
  BY ExactKept DEF Alive, RefcountExact
<1>2. \A q \in Procs : pc(q)' = "nullcalls" => refcount'[ev(q)'] = 0
  BY DEF Alive, Only
<1> QED
  BY <1>1, <1>2 DEF Alive

(* A step that changes the count of e only, and finds e alive. *)
LEMMA AliveMoves ==
  ASSUME Structure, TypeOK', Alive, NEW p \in Procs, Only(p), UNCHANGED <<freed, crashed>>,
         NEW e \in Events, refcount[e] > 0,
         \A f \in Events \ {e} : /\ Same(p, f) /\ refcount'[f] = refcount[f]
                                 /\ onhiq'[f] = onhiq[f] /\ evcbs'[f] = evcbs[f],
         refcount'[e] = References(e)',
         refcount'[e] = 0 => evcbs'[e] = {},
         pc(p)' = "nullcalls" => ev(p)' = e /\ refcount'[e] = 0
  PROVE  Alive'
<1>1. RefcountExact'
  BY ExactKept DEF Alive, RefcountExact
<1>2. refcount[e] # 0
  OBVIOUS
<1>3. ASSUME NEW q \in Procs, pc(q)' = "nullcalls" PROVE refcount'[ev(q)'] = 0
  <2>1. CASE q = p
    BY <1>3, <2>1
  <2>2. CASE q # p
    <3>1. pc(q) = "nullcalls" /\ ev(q)' = ev(q) /\ ev(q) \in Events
      BY <1>3, <2>2 DEF Only, Structure, ProcAt
    <3>2. refcount[ev(q)] = 0
      BY <3>1 DEF Alive
    <3> QED
      BY <1>2, <3>1, <3>2
  <2> QED
    BY <2>1, <2>2
<1>4. \A f \in Events : freed'[f] => refcount'[f] = 0
  BY <1>2 DEF Alive
<1>5. \A f \in Events : refcount'[f] = 0 => evcbs'[f] = {}
  BY DEF Alive
<1> QED
  BY <1>1, <1>3, <1>4, <1>5 DEF Alive

(* Where p holds no reference but a user's own. *)
Plain(p) ==
  /\ pc(p) \notin {"calling", "decref"}
  /\ p \in Cpus => pc(p) \notin {"walk", "callcbs", "release"}

LEMMA PlainSame ==
  ASSUME NEW p \in Procs, Plain(p), Plain(p)', hasref' = hasref
  PROVE  \A e \in Events : Same(p, e)
  BY DEF Plain, Same, Refers

LEMMA ChangeValueAlive ==
  ASSUME Structure, Alive, NEW u \in Users, NEW e \in Events, NEW l \in Levels, NEW new \in Int,
         ChangeValue(u, e, l, new)
  PROVE  Alive'
<1> DEFINE label == IF new > 0 /\ value[e] <= 0 THEN "look" ELSE "out"
<1>1. Structure' /\ Only(u)
  BY ChangeValueKeeps
<1>2. Entered(u, e, l, label) /\ u \in Procs /\ u \notin Cpus
  BY BeginEnters, PartiesAssumption DEF ChangeValue, Structure, Pcs, Procs
<1>3. \A f \in Events : Same(u, f)
  BY <1>2, PlainSame DEF ChangeValue, Entered, Plain
<1> QED
  BY <1>1, <1>2, <1>3, AliveStays DEF ChangeValue, Entered, Structure

(* Steps of users that change neither counts nor lists of callbacks. *)
LEMMA UserStepsAlive ==
  ASSUME Structure, Alive, NEW u \in Users,
         \/ QueueCb(u) \/ QueueNoPool(u) \/ QueueRecheck(u) \/ WaitList(u) \/ WaitCheck(u)
         \/ WaitLink(u) \/ WaitDone(u) \/ WaitAst(u) \/ WaitUnlink(u)
  PROVE  Alive'
<1>1. Structure' /\ Only(u) /\ u \in Procs /\ u \notin Cpus
  BY QueueCbKeeps, QueueEndsKeeps, WaitListKeeps, WaitCheckKeeps, WaitLinkKeeps, WaitDoneKeeps,
     WaitAstKeeps, WaitUnlinkKeeps, PartiesAssumption DEF Procs
<1>2. UNCHANGED <<refcount, onhiq, freed, crashed, evcbs, hasref>>
  BY DEF QueueCb, QueueNoPool, QueueRecheck, WaitList, WaitCheck, WaitLink, WaitDone, WaitAst,
     WaitUnlink, flagvars
<1>3. CASE QueueCb(u)
  <2>1. PICK e \in Events : Begin(u, e, "softint", "qlink")
    BY <1>3 DEF QueueCb
  <2>2. Entered(u, e, "softint", "qlink")
    BY <2>1, BeginEnters DEF Structure, Pcs, Levels
  <2>3. \A f \in Events : Same(u, f)
    BY <1>1, <1>2, <2>2, PlainSame DEF Entered, Plain
  <2> QED
    BY <1>1, <1>2, <2>2, <2>3, AliveStays DEF Entered, Structure
<1>4. CASE WaitAst(u)
  <2>1. at' = at
    BY <1>4 DEF WaitAst
  <2>2. \A f \in Events : Same(u, f)
    BY <1>2, <2>1 DEF Same, Refers, pc, ev
  <2>3. pc(u)' = pc(u) /\ ev(u)' = ev(u)
    BY <2>1 DEF pc, ev
  <2> QED
    BY <1>1, <1>2, <2>2, <2>3, AliveStays DEF Structure
<1>5. CASE WaitCheck(u)
  <2>1. PICK e \in todo[u] :
          \/ GoTo(u, "unlink")
          \/ at' = [at EXCEPT ![u] = [pc |-> "link", level |-> level(u), ev |-> e]]
    BY <1>5 DEF WaitCheck
  <2>2. at \in [Procs -> Places] /\ "unlink" \in Pcs
    BY DEF Structure, TypeOK, Places, Pcs
  <2>3. GoTo(u, "unlink") => pc(u)' = "unlink"
    BY <1>1, <2>2, GoToGoes DEF Structure, Gone
  <2>4. pc(u) = "check" /\ pc(u)' \in {"link", "unlink"}
    BY <1>1, <1>5, <2>1, <2>2, <2>3 DEF pc, WaitCheck
  <2>5. \A f \in Events : Same(u, f)
    BY <1>1, <1>2, <2>4, PlainSame DEF Plain
  <2> QED
    BY <1>1, <1>2, <2>4, <2>5, AliveStays DEF Structure
<1>6. CASE ~QueueCb(u) /\ ~WaitAst(u) /\ ~WaitCheck(u)
  <2>1. /\ pc(u) \in {"qlink", "qrecheck", "out", "check", "link", "waiting", "unlink"}
        /\ \/ \E label \in {"out", "callcbs", "check", "waiting", "unlink"} : GoTo(u, label)
           \/ at' = at
    BY <1>6 DEF QueueNoPool, QueueRecheck, WaitList, WaitLink, WaitDone, WaitUnlink
  <2>2. pc(u)' \in {"qlink", "qrecheck", "out", "check", "link", "waiting", "unlink", "callcbs"}
    <3>1. CASE at' = at
      BY <2>1, <3>1 DEF pc
    <3>2. ASSUME NEW label \in {"out", "callcbs", "check", "waiting", "unlink"}, GoTo(u, label)
          PROVE  pc(u)' \in {"out", "callcbs", "check", "waiting", "unlink"}
      <4>1. label \in Pcs
        BY DEF Pcs
      <4> QED
        BY <1>1, <3>2, <4>1, GoToGoes DEF Structure, Gone
    <3> QED
      BY <2>1, <3>1, <3>2
  <2>3. \A f \in Events : Same(u, f)
    BY <1>1, <1>2, <2>1, <2>2, PlainSame DEF Plain
  <2> QED
    BY <1>1, <1>2, <2>2, <2>3, AliveStays DEF Structure
<1> QED
  BY <1>3, <1>4, <1>5, <1>6

LEMMA QueueLinkAlive ==
  ASSUME Structure, Alive, NEW u \in Users, QueueLink(u)
  PROVE  Alive'
<1>1. Structure' /\ Only(u) /\ u \in Procs /\ u \notin Cpus /\ pc(u) = "qlink" /\ ev(u) \in Events
  BY QueueLinkKeeps, PartiesAssumption DEF Procs, QueueLink, Structure, ProcAt
<1>2. Gone(u, "qrecheck")
  BY <1>1, GoToGoes DEF QueueLink, Structure, Pcs
<1>3. \A f \in Events : Same(u, f)
  BY <1>1, <1>2, PlainSame DEF QueueLink, Gone, Plain
<1>4. refcount[ev(u)] # 0
  <2>1. Refers(u, "own", ev(u)) /\ "own" \in Roles
    BY <1>1 DEF Structure, UserAt, Refers, Roles
  <2>2. refcount[ev(u)] > 0
    BY <1>1, <2>1, ReferredLives DEF Alive
  <2> QED
    BY <2>2
<1>5. \A f \in Events : evcbs'[f] \subseteq evcbs[f] \/ refcount[f] # 0
  BY <1>1, <1>4 DEF QueueLink, Structure, TypeOK
<1> QED
  BY <1>1, <1>2, <1>3, <1>5, AliveStays DEF QueueLink, Gone, Structure

LEMMA LookAlive ==
  ASSUME Structure, Alive, NEW p \in Procs, Look(p)
  PROVE  Alive'
<1>1. Structure' /\ Only(p) /\ p \in Users /\ p \notin Cpus
  BY LookKeeps, PartiesAssumption DEF Look, Structure, CpuAt, Procs
<1>2. WakeRoute(p) \in {"out", "puthiq", "walk"}
  BY <1>1 DEF WakeRoute, Done
<1>3. Gone(p, WakeRoute(p))
  BY <1>2, GoToGoes DEF Look, Structure, Pcs
<1>4. \A f \in Events : Same(p, f)
  BY <1>1, <1>2, <1>3, PlainSame DEF Look, Gone, Plain
<1> QED
  BY <1>1, <1>2, <1>3, <1>4, AliveStays DEF Look, Gone, Structure, flagvars

LEMMA WalkAlive ==
  ASSUME Structure, Alive, NEW p \in Procs, Walk(p)
  PROVE  Alive'
<1> DEFINE label == IF level(p) = "softint" THEN "callcbs" ELSE Done(p)
<1>1. Structure' /\ Only(p) /\ pc(p) = "walk" /\ hasref' = hasref
  BY WalkKeeps DEF Walk
<1>2. label \in {"callcbs", "release", "out"} /\ (p \notin Cpus => label # "release")
  BY DEF Done
<1>3. Gone(p, label)
  BY <1>2, GoToGoes DEF Walk, Structure, Pcs
<1>4. \A f \in Events : Same(p, f)
  <2>1. CASE p \in Cpus
    <3>1. level(p) = "softint"
      BY <2>1 DEF Structure, CpuAt
    <3>2. pc(p)' = "callcbs" /\ ev(p)' = ev(p)
      BY <1>3, <3>1 DEF Gone
    <3> QED
      BY <1>1, <3>2 DEF Same, Refers
  <2>2. CASE p \notin Cpus
    BY <1>1, <1>2, <1>3, <2>2, PlainSame DEF Gone, Plain
  <2> QED
    BY <2>1, <2>2
<1> QED
  BY <1>1, <1>2, <1>3, <1>4, AliveStays DEF Walk, Gone, Structure, flagvars

LEMMA PutHighiplAlive ==
  ASSUME Structure, Alive, NEW p \in Procs, PutHighipl(p)
  PROVE  Alive'
<1> PICK e : e = ev(p)
  OBVIOUS
<1>1. /\ Structure' /\ Only(p) /\ pc(p) = "puthiq" /\ p \in Users /\ p \notin Cpus /\ e \in Events
      /\ e \in hasref[p]
  BY PutHighiplKeeps, PartiesAssumption DEF PutHighipl, Structure, CpuAt, ProcAt, UserAt, Procs
<1>2. Gone(p, "out")
  BY <1>1, GoToGoes DEF PutHighipl, Structure, Pcs, Done
<1>3. \A f \in Events : Same(p, f)
  BY <1>1, <1>2, PlainSame DEF PutHighipl, Gone, Plain
<1>4. refcount[e] > 0
  <2>1. Refers(p, "own", e) /\ "own" \in Roles
    BY <1>1 DEF Refers, Roles
  <2> QED
    BY <1>1, <2>1, ReferredLives DEF Alive
<1>5. refcount \in [Events -> Nat] /\ onhiq \in [Events -> BOOLEAN]
  BY DEF Structure, TypeOK
<1>6. \/ onhiq[e] /\ UNCHANGED <<refcount, onhiq>>
      \/ /\ ~onhiq[e] /\ refcount' = [refcount EXCEPT ![e] = refcount[e] + 1]
         /\ onhiq' = [onhiq EXCEPT ![e] = TRUE]
  BY <1>5 DEF PutHighipl, PutOnHighiplq
<1>7. \A f \in Events \ {e} : refcount'[f] = refcount[f] /\ onhiq'[f] = onhiq[f]
  BY <1>1, <1>5, <1>6
<1>8. \/ refcount'[e] = refcount[e] /\ onhiq'[e] = onhiq[e]
      \/ refcount'[e] = refcount[e] + 1 /\ ~onhiq[e] /\ onhiq'[e]
  BY <1>1, <1>5, <1>6
<1>9. refcount'[e] = References(e)'
  BY <1>1, <1>3, <1>8, ExactKept DEF Alive, Structure
<1>10. refcount'[e] # 0
  BY <1>1, <1>4, <1>5, <1>8
<1> QED
  BY <1>1, <1>2, <1>3, <1>4, <1>7, <1>9, <1>10, AliveMoves DEF PutHighipl, Gone, Structure

LEMMA CallCallbacksAlive ==
  ASSUME Structure, Alive, NEW p \in Procs, CallCallbacks(p)
  PROVE  Alive'
<1> PICK e : e = ev(p)
  OBVIOUS
<1>1. Structure' /\ Only(p) /\ pc(p) = "callcbs" /\ e \in Events /\ hasref' = hasref
  BY CallCallbacksKeeps DEF CallCallbacks, Structure, ProcAt
<1>2. CASE evcbs[e] = {}
  <2>1. GoTo(p, Done(p)) /\ UNCHANGED <<evcbs, refcount>>
    BY <1>2 DEF CallCallbacks
  <2>2. Gone(p, Done(p))
    BY <2>1, GoToGoes DEF Structure, Pcs, Done
  <2>3. CASE p \in Cpus
    <3>1. pc(p)' = "release" /\ ev(p)' = ev(p)
      BY <2>2, <2>3 DEF Gone, Done
    <3>2. \A f \in Events : Same(p, f)
      BY <1>1, <3>1 DEF Same, Refers
    <3> QED
      BY <1>1, <2>1, <3>1, <3>2, AliveStays DEF CallCallbacks, Structure
  <2>4. CASE p \notin Cpus
    <3>1. pc(p)' = "out"
      BY <2>2, <2>4 DEF Gone, Done
    <3>2. \A f \in Events : Same(p, f)
      BY <1>1, <2>4, <3>1, PlainSame DEF Plain
    <3> QED
      BY <1>1, <2>1, <3>1, <3>2, AliveStays DEF CallCallbacks, Structure
  <2> QED
    BY <2>3, <2>4
<1>3. CASE evcbs[e] # {}
  <2>1. /\ evcbs' = [evcbs EXCEPT ![e] = {}]
        /\ refcount' = [refcount EXCEPT ![e] = @ + 1]
        /\ GoTo(p, "calling")
        /\ UNCHANGED <<freed, crashed, onhiq>>
    BY <1>3 DEF CallCallbacks
  <2>2. Gone(p, "calling")
    BY <2>1, GoToGoes DEF Structure, Pcs
  <2>3. pc(p)' = "calling" /\ ev(p)' = e
    BY <2>2 DEF Gone
  <2>4. \A f \in Events \ {e} : Same(p, f)
    BY <1>1, <2>3 DEF Same, Refers
  <2>5. Gains(p, "call", e) /\ "call" \in Roles
    BY <1>1, <2>3 DEF Gains, Refers, Roles
  <2>6. refcount \in [Events -> Nat] /\ evcbs \in [Events -> SUBSET Cbs]
    BY DEF Structure, TypeOK
  <2>7. /\ refcount'[e] = refcount[e] + 1
        /\ \A f \in Events \ {e} : refcount'[f] = refcount[f] /\ evcbs'[f] = evcbs[f]
    BY <1>1, <2>1, <2>6
  <2>8. refcount'[e] = References(e)'
    BY <1>1, <2>1, <2>5, <2>7, ExactKept DEF Alive, Structure
  <2>9. refcount[e] > 0
    <3>1. refcount[e] # 0
      BY <1>1, <1>3 DEF Alive
    <3> QED
      BY <1>1, <2>6, <3>1
  <2>10. refcount'[e] # 0
    BY <1>1, <2>6, <2>7
  <2> QED
    BY <1>1, <2>1, <2>3, <2>4, <2>7, <2>8, <2>9, <2>10, AliveMoves DEF Structure
<1> QED
  BY <1>2, <1>3

LEMMA CallOneAlive ==
  ASSUME Structure, Alive, NEW p \in Procs, CallOne(p)
  PROVE  Alive'
<1>1. Structure' /\ Only(p) /\ pc(p) = "calling" /\ UNCHANGED <<hasref, flagvars, crashed>>
  BY CallOneKeeps DEF CallOne
<1>2. pc(p)' \in {"calling", "decref"} /\ ev(p)' = ev(p)
  <2>1. GoTo(p, "decref") => Gone(p, "decref")
    BY GoToGoes DEF Structure, Pcs
  <2>2. GoTo(p, "decref") \/ at' = at
    BY DEF CallOne
  <2>3. CASE at' = at
    BY <1>1, <2>3 DEF pc, ev
  <2> QED
    BY <2>1, <2>2, <2>3 DEF Gone
<1>3. \A f \in Events : Same(p, f)
  BY <1>1, <1>2 DEF Same, Refers
<1> QED
  BY <1>1, <1>2, <1>3, AliveStays DEF Structure, flagvars

LEMMA HighiplStartAlive ==
  ASSUME Structure, Alive, NEW c \in Cpus, HighiplStart(c)
  PROVE  Alive'
<1>1. Structure' /\ Only(c) /\ c \in Procs
  BY HighiplStartKeeps DEF Procs
<1>2. Gone(c, "next")
  BY <1>1, GoToGoes DEF HighiplStart, Structure, Pcs
<1>3. \A f \in Events : Same(c, f)
  BY <1>1, <1>2, PlainSame DEF HighiplStart, Gone, Plain
<1> QED
  BY <1>1, <1>2, <1>3, AliveStays DEF HighiplStart, Gone, Structure, flagvars

LEMMA HighiplNextAlive ==
  ASSUME Structure, Alive, NEW c \in Cpus, HighiplNext(c)
  PROVE  Alive'
<1>1. Structure' /\ Only(c) /\ c \in Procs /\ pc(c) = "next" /\ hasref' = hasref
  BY HighiplNextKeeps DEF Procs, HighiplNext
<1>2. CASE work[c] = <<>>
  <2>1. Gone(c, "out")
    BY <1>1, <1>2, GoToGoes DEF HighiplNext, Structure, Pcs
  <2>2. \A f \in Events : Same(c, f)
    BY <1>1, <2>1, PlainSame DEF Gone, Plain
  <2> QED
    BY <1>1, <1>2, <2>1, <2>2, AliveStays DEF HighiplNext, Gone, Structure
<1>3. CASE work[c] # <<>>
  <2> PICK e : e = Head(work[c])
    OBVIOUS
  <2>1. /\ at' = [at EXCEPT ![c] = [pc |-> "walk", level |-> level(c), ev |-> e]]
        /\ onhiq' = [onhiq EXCEPT ![e] = FALSE]
        /\ UNCHANGED <<refcount, evcbs, freed, crashed>>
    BY <1>3 DEF HighiplNext
  <2>2. work \in [Cpus -> Seq(Events)] /\ onhiq \in [Events -> BOOLEAN] /\ at \in [Procs -> Places]
        /\ refcount \in [Events -> Nat]
    BY DEF Structure, TypeOK, Places
  <2>3. e \in Events /\ e = work[c][1] /\ 1 \in 1 .. Len(work[c])
    BY <1>3, <2>2
  <2>4. onhiq[e]
    BY <2>3 DEF Structure, QueuedOnce, InWork
  <2>5. pc(c)' = "walk" /\ ev(c)' = e
    BY <1>1, <2>1, <2>2 DEF pc, ev
  <2>6. \A f \in Events \ {e} : Same(c, f) /\ onhiq'[f] = onhiq[f]
    BY <1>1, <2>1, <2>2, <2>5, PartiesAssumption DEF Same, Refers
  <2>7. Gains(c, "queue", e) /\ "queue" \in Roles
    BY <1>1, <2>5, PartiesAssumption DEF Gains, Refers, Roles
  <2>8. refcount'[e] = References(e)'
    BY <1>1, <2>1, <2>2, <2>3, <2>4, <2>7, ExactKept DEF Alive, Structure
  <2>9. refcount[e] > 0 /\ refcount'[e] # 0
    <3>1. refcount[e] > 0
      BY <2>3, <2>4, ReferredLives DEF Alive
    <3> QED
      BY <2>1, <3>1
  <2> QED
    BY <1>1, <2>1, <2>3, <2>5, <2>6, <2>8, <2>9, AliveMoves DEF Structure
<1> QED
  BY <1>2, <1>3

LEMMA DropRefAlive ==
  ASSUME Structure, Alive, NEW u \in Users, DropRef(u)
  PROVE  Alive'
<1>1. PICK e \in Events, l \in {"null", "softint"} :
        /\ Begin(u, e, l, "decref")
        /\ hasref' = [hasref EXCEPT ![u] = @ \ {e}]
        /\ UNCHANGED <<flagvars, crashed>>
  BY DEF DropRef
<1>2. Structure' /\ Only(u) /\ u \in Procs /\ u \notin Cpus
  BY DropRefKeeps, PartiesAssumption DEF Procs
<1>3. Entered(u, e, l, "decref")
  BY <1>1, BeginEnters DEF Structure, Pcs, Levels
<1>4. pc(u) = "out" /\ e \in hasref[u] /\ pc(u)' = "decref" /\ ev(u)' = e
  BY <1>3 DEF Entered
<1>5. hasref'[u] = hasref[u] \ {e}
  BY <1>1 DEF Structure, TypeOK
<1>6. \A f \in Events \ {e} : Same(u, f)
  BY <1>2, <1>4, <1>5 DEF Same, Refers
<1>7. Swaps(u, "own", "call", e) /\ "own" \in Roles /\ "call" \in Roles
  BY <1>2, <1>4, <1>5 DEF Swaps, Refers, Roles
<1>8. refcount'[e] = References(e)'
  BY <1>1, <1>2, <1>7, ExactKept DEF Alive, Structure, flagvars
<1>9. refcount[e] > 0
  <2>1. Refers(u, "own", e)
    BY <1>4 DEF Refers
  <2> QED
    BY <1>2, <1>7, <2>1, ReferredLives DEF Alive
<1>10. refcount'[e] # 0
  BY <1>1, <1>9 DEF flagvars
<1> QED
  BY <1>1, <1>2, <1>4, <1>6, <1>8, <1>9, <1>10, AliveMoves DEF Structure, flagvars

LEMMA DecRefAlive ==
  ASSUME Structure, Alive, NEW p \in Procs, DecRef(p)
  PROVE  Alive'
<1> PICK e : e = ev(p)
  OBVIOUS
<1>1. /\ Structure' /\ Only(p) /\ e \in Events /\ refcount[e] > 1
      /\ refcount' = [refcount EXCEPT ![e] = refcount[e] - 1]
      /\ UNCHANGED <<evcbs, onhiq, freed, hasref, crashed>>
  BY DecRefKeeps DEF DecRef, Structure, ProcAt
<1>2. \/ p \notin Cpus /\ pc(p) = "decref" /\ Dropped(p) = "out"
      \/ p \in Cpus /\ pc(p) = "decref" /\ Dropped(p) = "release"
      \/ p \in Cpus /\ pc(p) = "release" /\ Dropped(p) = "next"
  BY DEF DecRef, Structure, UserAt, Dropped, Done, Procs
<1>3. Gone(p, Dropped(p))
  BY <1>2, GoToGoes DEF DecRef, Structure, Pcs
<1>4. \A f \in Events \ {e} : Same(p, f)
  <2>1. pc(p)' \in {"out", "release", "next"} /\ (ev(p)' = e \/ ev(p)' = None)
    BY <1>2, <1>3 DEF Gone
  <2> QED
    BY <1>1, <2>1, PartiesAssumption DEF Same, Refers
<1>5. refcount \in [Events -> Nat] /\ refcount' \in [Events -> Nat]
  BY <1>1 DEF Structure, TypeOK
<1>6. /\ refcount'[e] = refcount[e] - 1 /\ refcount'[e] > 0 /\ refcount[e] > 0
      /\ \A f \in Events \ {e} : refcount'[f] = refcount[f]
  BY <1>1, <1>5
<1>7. \E r \in Roles : Loses(p, r, e)
  <2>1. CASE pc(p) = "decref"
    <3>1. pc(p)' \in {"out", "release"} /\ (p \in Cpus => pc(p)' = "release" /\ ev(p)' = e)
      BY <1>2, <1>3, <2>1 DEF Gone
    <3>2. Loses(p, "call", e)
      BY <1>1, <2>1, <3>1 DEF Loses, Refers, Roles
    <3> QED
      BY <3>2 DEF Roles
  <2>2. CASE pc(p) = "release"
    <3>1. pc(p)' = "next" /\ p \in Cpus
      BY <1>2, <1>3, <2>2 DEF Gone
    <3>2. Loses(p, "queue", e)
      BY <1>1, <2>2, <3>1 DEF Loses, Refers, Roles
    <3> QED
      BY <3>2 DEF Roles
  <2> QED
    BY <1>2, <2>1, <2>2
<1>8. refcount'[e] = References(e)'
  BY <1>1, <1>6, <1>7, ExactKept DEF Alive, Structure
<1>9. pc(p)' # "nullcalls" /\ refcount'[e] # 0
  BY <1>2, <1>3, <1>6 DEF Gone
<1> QED
  BY <1>1, <1>4, <1>6, <1>8, <1>9, AliveMoves DEF Structure

(* oz_knl_event_increfc takes the count to zero only for the last reference *)
(* there is, so it never finds the flag queued and never crashes.          *)
LEMMA DecRefToZeroAlive ==
  ASSUME Structure, Alive, NEW p \in Procs, DecRefToZero(p)
  PROVE  Alive'
<1> PICK e : e = ev(p)
  OBVIOUS
<1>1. /\ Structure' /\ Only(p) /\ e \in Events /\ refcount[e] <= 1
      /\ pc(p) \in {"decref", "release"} /\ (p \notin Cpus => pc(p) = "decref")
      /\ UNCHANGED <<freed, hasref>>
  BY DecRefToZeroKeeps DEF DecRefToZero, Structure, ProcAt, UserAt, Procs
<1>2. /\ refcount \in [Events -> Nat] /\ refcount[e] \in Nat
      /\ evcbs \in [Events -> SUBSET Cbs] /\ onhiq \in [Events -> BOOLEAN]
  BY <1>1 DEF Structure, TypeOK
<1>3. pc(p) = "decref" => Refers(p, "call", e)
  BY <1>1 DEF Refers
<1>4. p \in Cpus => Refers(p, "queue", e)
  BY <1>1 DEF Refers
<1>5. {"call", "queue"} \subseteq Roles
  BY DEF Roles
<1>6. refcount[e] = 1 /\ ~onhiq[e]
  <2>1. \E r \in Roles : Refers(p, r, e)
    BY <1>1, <1>3, <1>4, <1>5
  <2>2. refcount[e] > 0 /\ (onhiq[e] => refcount[e] > 1)
    BY <1>1, <2>1, ReferredLives DEF Alive
  <2> QED
    BY <1>1, <1>2, <2>2
<1>7. p \in Cpus => pc(p) = "release"
  <2>1. SUFFICES ASSUME p \in Cpus, pc(p) = "decref" PROVE FALSE
    BY <1>1
  <2>2. <<p, "call">> # <<p, "queue">>
    OBVIOUS
  <2>3. refcount[e] > 1
    BY <1>1, <1>3, <1>4, <1>5, <2>1, <2>2, ReferredLives DEF Alive
  <2> QED
    BY <1>6, <2>3
<1>8. \E r \in Roles : Refers(p, r, e) /\ \A s \in Roles \ {r} : s # "own" => ~Refers(p, s, e)
  BY <1>1, <1>3, <1>4, <1>5, <1>7 DEF Refers, Roles
<1>9. ASSUME pc(p)' \in {"out", "next", "nullcalls"}
      PROVE  (\A f \in Events \ {e} : Same(p, f)) /\ \E r \in Roles : Loses(p, r, e)
  <2>1. \A f \in Events \ {e} : Same(p, f)
    BY <1>1, <1>9 DEF Same, Refers
  <2>2. CASE pc(p) = "decref"
    <3>1. Loses(p, "call", e)
      BY <1>1, <1>7, <1>9, <2>2 DEF Loses, Refers, Roles
    <3> QED
      BY <1>5, <2>1, <3>1
  <2>3. CASE pc(p) = "release"
    <3>1. Loses(p, "queue", e)
      BY <1>1, <1>9, <2>3 DEF Loses, Refers, Roles
    <3> QED
      BY <1>5, <2>1, <3>1
  <2> QED
    BY <1>1, <2>2, <2>3
<1>10. CASE evcbs[e] # {} /\ level(p) # "softint"
  <2>1. PutOnHighiplq(e, 0) /\ GoTo(p, Dropped(p)) /\ UNCHANGED <<evcbs, mine, crashed>>
    BY <1>6, <1>10 DEF DecRefToZero
  <2>2. p \notin Cpus /\ Dropped(p) = "out"
    BY <1>1, <1>10 DEF Structure, CpuAt, Dropped, Done
  <2>3. Gone(p, "out")
    BY <2>1, <2>2, GoToGoes DEF Structure, Pcs
  <2>4. refcount' = [refcount EXCEPT ![e] = 0 + 1] /\ onhiq' = [onhiq EXCEPT ![e] = TRUE]
    BY <1>6, <2>1 DEF PutOnHighiplq
  <2>5. /\ refcount'[e] = 1 /\ onhiq'[e]
        /\ \A f \in Events \ {e} : refcount'[f] = refcount[f] /\ onhiq'[f] = onhiq[f]
    BY <1>1, <1>2, <2>4
  <2>6. pc(p)' = "out"
    BY <2>3 DEF Gone
  <2>7. refcount'[e] = References(e)'
    BY <1>1, <1>6, <1>9, <2>5, <2>6, ExactKept DEF Alive, Structure
  <2>8. refcount[e] > 0 /\ refcount'[e] # 0
    BY <1>6, <2>5
  <2> QED
    BY <1>1, <1>9, <2>1, <2>5, <2>6, <2>7, <2>8, AliveMoves DEF Structure
<1>11. CASE ~(evcbs[e] # {} /\ level(p) # "softint")
  <2>1. /\ refcount' = [refcount EXCEPT ![e] = 0]
        /\ evcbs' = [evcbs EXCEPT ![e] = {}]
        /\ GoTo(p, "nullcalls")
        /\ UNCHANGED <<onhiq, crashed>>
    BY <1>6, <1>11 DEF DecRefToZero
  <2>2. Gone(p, "nullcalls")
    BY <2>1, GoToGoes DEF Structure, Pcs
  <2>3. pc(p)' = "nullcalls" /\ ev(p)' = e
    BY <2>2 DEF Gone
  <2>4. /\ refcount'[e] = 0 /\ evcbs'[e] = {} /\ onhiq'[e] = onhiq[e]
        /\ \A f \in Events \ {e} : /\ refcount'[f] = refcount[f] /\ onhiq'[f] = onhiq[f]
                                    /\ evcbs'[f] = evcbs[f]
    BY <1>1, <1>2, <2>1
  <2>5. refcount'[e] = refcount[e] - 1 /\ refcount[e] > 0
    BY <1>6, <2>4
  <2>6. refcount'[e] = References(e)'
    BY <1>1, <1>9, <2>3, <2>4, <2>5, ExactKept DEF Alive, Structure
  <2> QED
    BY <1>1, <1>9, <2>1, <2>3, <2>4, <2>5, <2>6, AliveMoves DEF Structure
<1> QED
  BY <1>10, <1>11

LEMMA NullCallAlive ==
  ASSUME Structure, Alive, NEW p \in Procs, NullCall(p)
  PROVE  Alive'
<1>1. /\ Structure' /\ Only(p) /\ pc(p) = "nullcalls" /\ ev(p) \in Events
      /\ UNCHANGED <<refcount, onhiq, evcbs, hasref, crashed>>
  BY NullCallKeeps DEF NullCall, Structure, ProcAt
<1>2. \/ pc(p)' \in {"out", "next"}
      \/ pc(p)' = "nullcalls" /\ ev(p)' = ev(p)
  <2>1. CASE at' = at
    BY <1>1, <2>1 DEF pc, ev
  <2>2. CASE at' # at
    <3> DEFINE label == IF p \in Cpus THEN "next" ELSE "out"
    <3>1. GoTo(p, label) /\ label \in Pcs
      BY <2>2 DEF NullCall, Pcs
    <3>2. Gone(p, label)
      BY <3>1, GoToGoes DEF Structure
    <3> QED
      BY <3>2 DEF Gone
  <2> QED
    BY <2>1, <2>2
<1>3. \A e \in Events : Same(p, e)
  BY <1>1, <1>2, PlainSame DEF Plain
<1>4. \A e \in Events : freed'[e] => freed[e] \/ refcount[e] = 0
  <2>1. refcount[ev(p)] = 0
    BY <1>1 DEF Alive
  <2>2. freed' = freed \/ freed' = [freed EXCEPT ![ev(p)] = TRUE]
    BY DEF NullCall
  <2> QED
    BY <1>1, <2>1, <2>2 DEF Structure, TypeOK
<1> QED
  BY <1>1, <1>2, <1>3, <1>4, AliveStays DEF Structure

LEMMA AliveInit ==
  ASSUME Init PROVE Alive
<1>1. ASSUME NEW e \in Events PROVE refcount[e] = References(e)
  <2>1. Referrers(e) = Users \X {"own"}
    BY DEF Init, Referrers, Refers, Roles, Outside, Procs, pc
  <2>2. IsFiniteSet({"own"}) /\ Cardinality({"own"}) = 1
    BY FS_Singleton
  <2>3. Cardinality(Users \X {"own"}) = Cardinality(Users) * 1 /\ Cardinality(Users) \in Nat
    BY <2>2, PartiesAssumption, FS_Product, FS_CardinalityType
  <2>4. refcount[e] = Cardinality(Users) /\ ~onhiq[e]
    BY DEF Init
  <2> HIDE DEF Referrers
  <2> QED
    BY <2>1, <2>3, <2>4 DEF References
<1>2. \A p \in Procs : pc(p) = "out"
  BY DEF Init, Outside, pc
<1> QED
  BY <1>1, <1>2 DEF Init, Alive, RefcountExact

LEMMA AliveNext ==
  ASSUME Structure, Alive, [Next]_vars PROVE Alive'
<1>1. ASSUME NEW u \in Users, Call(u) PROVE Alive'
  <2>1. value \in [Events -> Int] /\ Values \subseteq Int /\ Incs \subseteq Int
    BY ValuesAssumption DEF Structure, TypeOK
  <2>2. CASE EventSet(u)
    BY <2>1, <2>2, ChangeValueAlive DEF EventSet
  <2>3. CASE EventInc(u)
    <3>1. PICK e \in Events, l \in Levels, i \in Incs : ChangeValue(u, e, l, value[e] + i)
      BY <2>3 DEF EventInc
    <3>2. value[e] + i \in Int
      BY <2>1
    <3> QED
      BY <3>1, <3>2, ChangeValueAlive
  <2> QED
    BY <1>1, <2>2, <2>3, DropRefAlive, UserStepsAlive DEF Call
<1>2. ASSUME NEW p \in Procs, Wake(p) \/ Drop(p) PROVE Alive'
  BY <1>2, LookAlive, PutHighiplAlive, WalkAlive, CallCallbacksAlive, CallOneAlive,
     DecRefAlive, DecRefToZeroAlive, NullCallAlive DEF Wake, Drop
<1>3. ASSUME NEW u \in Users, UserStep(u) \/ QueueNoPool(u) \/ WaitAst(u) PROVE Alive'
  BY <1>2, <1>3, QueueLinkAlive, UserStepsAlive DEF UserStep, Procs
<1>4. ASSUME NEW c \in Cpus, CpuStep(c) PROVE Alive'
  BY <1>2, <1>4, HighiplStartAlive, HighiplNextAlive DEF CpuStep, Procs
<1>5. CASE UNCHANGED vars
  BY <1>5 DEF vars, flagvars, procvars, Alive, RefcountExact, References, Referrers, Refers, pc, ev
<1> QED
  BY <1>1, <1>3, <1>4, <1>5 DEF Next

-----------------------------------------------------------------------------
(* Changes of the value from clear to set are followed up. *)

(* What p does, or has queued, for flag e. *)
Wakes(p) == pc(p) \in {"look", "puthiq", "walk"}

Waking(p, e) == onhiq[e] \/ (ev(p) = e /\ Wakes(p))
Calling(p, e) == onhiq[e] \/ (ev(p) = e /\ Calls(p))

Coming(e) == onhiq[e] \/ \E p \in Procs : ev(p) = e /\ Wakes(p)

(* WakeComing, read off the mark that says the flag is queued. *)
LEMMA ComingIs ==
  ASSUME NEW e \in Events
  PROVE  /\ QueuedOnce => (WakeComing(e) <=> Coming(e))
         /\ QueuedOnce' => (WakeComing(e)' <=> Coming(e)')
  BY DEF QueuedOnce, InHiq, InWork, WakeComing, Wakes, Coming

(* A step that sets nothing, gives up nothing that was to be followed up,   *)
(* and puts nobody at risk.                                                 *)
LEMMA RiskStays ==
  ASSUME Structure, Structure', NEW p \in Procs, Only(p), NEW e \in Events, OneAtRisk(e),
         value'[e] > 0 => value[e] > 0,
         Waking(p, e) => Waking(p, e)',
         \A u \in Users \ {p} : state'[u] = "WEV" => state[u] = "WEV",
         p \in Users /\ AtRisk(p, e)' => AtRisk(p, e)
  PROVE  OneAtRisk(e)'
<1>1. WakeComing(e) => WakeComing(e)'
  <2>1. (WakeComing(e) <=> Coming(e)) /\ (WakeComing(e)' <=> Coming(e)')
    BY ComingIs DEF Structure
  <2>2. \A q \in Procs \ {p} : ev(q)' = ev(q) /\ (Wakes(q)' <=> Wakes(q))
    BY DEF Only, Wakes
  <2>3. Coming(e) => Coming(e)'
    BY <2>2 DEF Waking, Coming
  <2> QED
    BY <2>1, <2>3
<1>2. ASSUME NEW u \in Users, AtRisk(u, e)' PROVE AtRisk(u, e)
  <2>1. CASE u = p
    BY <1>2, <2>1
  <2>2. CASE u # p
    <3>1. pc(u)' = pc(u) /\ ev(u)' = ev(u) /\ linked'[u] = linked[u] /\ u \in Procs
      BY <2>2 DEF Only, Procs
    <3>2. u \in eventlists'[e] <=> u \in eventlists[e]
      BY <3>1 DEF Structure, WaitAt
    <3> QED
      BY <1>2, <2>2, <3>1, <3>2 DEF AtRisk
  <2> QED
    BY <2>1, <2>2
<1> QED
  BY <1>1, <1>2 DEF OneAtRisk

(* The same for the callbacks. *)
LEMMA OwedStays ==
  ASSUME NEW p \in Procs, Only(p), NEW e \in Events, Owed(e),
         value'[e] > 0 /\ evcbs'[e] # {} => value[e] > 0 /\ evcbs[e] # {},
         Calling(p, e) => Calling(p, e)'
  PROVE  Owed(e)'
<1>1. \A q \in Procs \ {p} : ev(q)' = ev(q) /\ (Calls(q)' <=> Calls(q))
  BY DEF Only, Calls
<1> QED
  BY <1>1 DEF Owed, Calling

(* What somebody follows up is followed up. *)
LEMMA FollowedUp ==
  ASSUME Structure', NEW p \in Procs, NEW e \in Events
  PROVE  /\ Waking(p, e)' => OneAtRisk(e)'
         /\ Calling(p, e)' => Owed(e)'
<1>1. Waking(p, e)' => WakeComing(e)'
  BY ComingIs DEF Structure, Waking, Coming
<1> QED
  BY <1>1 DEF OneAtRisk, Owed, Calling

(* A step that neither sets a flag nor puts a thread at risk, by somebody  *)
(* who was not to follow anything up.                                      *)
LEMMA QuietFollowed ==
  ASSUME Structure, Structure', Followed, NEW p \in Procs, Only(p),
         value' = value,
         \A e \in Events : (onhiq[e] => onhiq'[e]) /\ evcbs'[e] \subseteq evcbs[e],
         \A u \in Users : state'[u] = "WEV" => state[u] = "WEV",
         \A e \in Events : p \in eventlists'[e] => p \in eventlists[e],
         \/ ~Wakes(p) /\ ~Calls(p) /\ pc(p)' # "link"
         \/ UNCHANGED at
  PROVE  Followed'
<1> SUFFICES ASSUME NEW e \in Events PROVE OneAtRisk(e)' /\ Owed(e)'
  BY DEF Followed
<1>1. (Waking(p, e) => Waking(p, e)') /\ (Calling(p, e) => Calling(p, e)')
  BY DEF Waking, Calling, Wakes, Calls, pc, ev, level
<1>2. p \in Users /\ AtRisk(p, e)' => AtRisk(p, e)
  BY DEF AtRisk, pc, ev
<1>3. OneAtRisk(e)'
  BY <1>1, <1>2, RiskStays DEF Followed
<1>4. Owed(e)'
  BY <1>1, OwedStays DEF Followed
<1> QED
  BY <1>3, <1>4

LEMMA ChangeValueFollowed ==
  ASSUME Structure, Followed, NEW u \in Users, NEW e \in Events, NEW l \in Levels, NEW new \in Int,
         ChangeValue(u, e, l, new)
  PROVE  Followed'
<1> DEFINE label == IF new > 0 /\ value[e] <= 0 THEN "look" ELSE "out"
<1>1. Structure' /\ Only(u) /\ u \in Procs
  BY ChangeValueKeeps DEF Procs
<1>2. Entered(u, e, l, label)
  BY BeginEnters DEF ChangeValue, Structure, Pcs
<1>3. UNCHANGED <<onhiq, evcbs, state, eventlists>>
  BY DEF ChangeValue
<1>4. value' = [value EXCEPT ![e] = new] /\ value \in [Events -> Int]
  BY DEF ChangeValue, Structure, TypeOK
<1>5. pc(u) = "out" /\ pc(u)' \in {"look", "out"}
  BY <1>2 DEF Entered
<1>6. \A f \in Events : (Waking(u, f) => Waking(u, f)') /\ (Calling(u, f) => Calling(u, f)')
  BY <1>3, <1>5 DEF Waking, Calling, Wakes, Calls
<1>7. \A f \in Events : AtRisk(u, f)' => AtRisk(u, f)
  BY <1>3, <1>5 DEF AtRisk
<1> SUFFICES ASSUME NEW f \in Events PROVE OneAtRisk(f)' /\ Owed(f)'
  BY DEF Followed
<1>8. CASE value'[f] > 0 => value[f] > 0
  <2>1. OneAtRisk(f)'
    BY <1>1, <1>3, <1>6, <1>7, <1>8, RiskStays DEF Followed
  <2>2. Owed(f)'
    BY <1>1, <1>3, <1>6, <1>8, OwedStays DEF Followed
  <2> QED
    BY <2>1, <2>2
<1>9. CASE value'[f] > 0 /\ ~(value[f] > 0)
  <2>1. f = e /\ label = "look"
    BY <1>4, <1>9
  <2>2. pc(u)' = "look" /\ ev(u)' = f
    BY <1>2, <2>1 DEF Entered
  <2>3. Waking(u, f)' /\ Calling(u, f)'
    BY <2>2 DEF Waking, Calling, Wakes, Calls
  <2> QED
    BY <1>1, <2>3, FollowedUp
<1> QED
  BY <1>8, <1>9

(* A setter that finds both lists empty leaves at most the thread that holds *)
(* smplock_ev to link itself.                                              *)
LEMMA LookFollowed ==
  ASSUME Structure, Followed, NEW p \in Procs, Look(p)
  PROVE  Followed'
<1> PICK e : e = ev(p)
  OBVIOUS
<1>1. Structure' /\ Only(p) /\ pc(p) = "look" /\ e \in Events /\ p \in Users /\ p \notin Cpus
  BY LookKeeps, PartiesAssumption DEF Look, Structure, ProcAt, CpuAt, Procs
<1>2. UNCHANGED <<value, onhiq, evcbs, state, eventlists, evlock>>
  BY DEF Look, flagvars
<1>3. /\ eventlists[e] = {} /\ evcbs[e] = {} => WakeRoute(p) = "out"
      /\ ~(eventlists[e] = {} /\ evcbs[e] = {}) => WakeRoute(p) \in {"puthiq", "walk"}
      /\ WakeRoute(p) = "walk" => evcbs[e] = {} \/ level(p) = "softint"
  BY <1>1 DEF WakeRoute, Done
<1>4. Gone(p, WakeRoute(p)) /\ WakeRoute(p) \in {"out", "puthiq", "walk"}
  BY <1>3, GoToGoes DEF Look, Structure, Pcs
<1>5. \A f \in Events : AtRisk(p, f)' => AtRisk(p, f)
  BY <1>2, <1>4 DEF Gone, AtRisk
<1>6. ASSUME NEW f \in Events, f # e PROVE OneAtRisk(f)' /\ Owed(f)'
  <2>1. (Waking(p, f) => Waking(p, f)') /\ (Calling(p, f) => Calling(p, f)')
    BY <1>2, <1>6 DEF Waking, Calling
  <2>2. OneAtRisk(f)'
    BY <1>1, <1>2, <1>5, <2>1, RiskStays DEF Followed
  <2>3. Owed(f)'
    BY <1>1, <1>2, <2>1, OwedStays DEF Followed
  <2> QED
    BY <2>2, <2>3
<1>7. CASE eventlists[e] = {} /\ evcbs[e] = {}
  <2>1. \A u \in Users : AtRisk(u, e)' => evlock'[e] = u
    BY <1>1, <1>2, <1>7 DEF AtRisk, Structure, WaitAt
  <2>2. OneAtRisk(e)' /\ Owed(e)'
    BY <1>2, <1>7, <2>1 DEF OneAtRisk, Owed
  <2> QED
    BY <1>6, <2>2 DEF Followed
<1>8. CASE ~(eventlists[e] = {} /\ evcbs[e] = {})
  <2>1. pc(p)' \in {"puthiq", "walk"} /\ ev(p)' = e /\ level(p)' = level(p) /\ pc(p)' = WakeRoute(p)
    BY <1>3, <1>4, <1>8 DEF Gone
  <2>2. Waking(p, e)' /\ (evcbs[e] = {} \/ Calling(p, e)')
    BY <1>3, <2>1 DEF Waking, Calling, Wakes, Calls
  <2>3. OneAtRisk(e)'
    BY <1>1, <2>2, FollowedUp
  <2>4. Owed(e)'
    BY <1>1, <1>2, <2>2, FollowedUp DEF Owed
  <2> QED
    BY <1>6, <2>3, <2>4 DEF Followed
<1> QED
  BY <1>7, <1>8

LEMMA PutHighiplFollowed ==
  ASSUME Structure, Followed, NEW p \in Procs, PutHighipl(p)
  PROVE  Followed'
<1> PICK e : e = ev(p)
  OBVIOUS
<1>1. /\ Structure' /\ Only(p) /\ pc(p) = "puthiq" /\ e \in Events /\ p \in Users /\ p \notin Cpus
  BY PutHighiplKeeps, PartiesAssumption DEF PutHighipl, Structure, ProcAt, CpuAt, Procs
<1>2. UNCHANGED <<value, evcbs, state, eventlists>>
  BY DEF PutHighipl
<1>3. onhiq'[e] /\ \A f \in Events : onhiq[f] => onhiq'[f]
  BY <1>1 DEF PutHighipl, PutOnHighiplq, Structure, TypeOK
<1>4. Gone(p, "out")
  BY <1>1, GoToGoes DEF PutHighipl, Structure, Pcs, Done
<1>5. \A f \in Events : (Waking(p, f) => Waking(p, f)') /\ (Calling(p, f) => Calling(p, f)')
  BY <1>3 DEF Waking, Calling
<1>6. \A f \in Events : AtRisk(p, f)' => AtRisk(p, f)
  BY <1>2, <1>4 DEF Gone, AtRisk
<1> SUFFICES ASSUME NEW f \in Events PROVE OneAtRisk(f)' /\ Owed(f)'
  BY DEF Followed
<1>7. OneAtRisk(f)'
  BY <1>1, <1>2, <1>5, <1>6, RiskStays DEF Followed
<1>8. Owed(f)'
  BY <1>1, <1>2, <1>5, OwedStays DEF Followed
<1> QED
  BY <1>7, <1>8

(* Under smplock_ev nobody is linking, and all who are linked are woken. *)
LEMMA WalkFollowed ==
  ASSUME Structure, Followed, NEW p \in Procs, Walk(p)
  PROVE  Followed'
<1> PICK e : e = ev(p)
  OBVIOUS
<1> DEFINE label == IF level(p) = "softint" THEN "callcbs" ELSE Done(p)
<1>1. Structure' /\ Only(p) /\ pc(p) = "walk" /\ e \in Events /\ evlock[e] = None
  BY WalkKeeps DEF Walk, Structure, ProcAt, Unlocked
<1>2. UNCHANGED <<value, onhiq, evcbs, eventlists, evlock>>
  BY DEF Walk, flagvars
<1>3. /\ state' = [u \in Users |-> IF u \in eventlists[e] THEN "RUN" ELSE state[u]]
      /\ state \in [Users -> {"RUN", "WEV"}]
  BY DEF Walk, Structure, TypeOK
<1>4. Gone(p, label) /\ label \in {"callcbs", "release", "out"}
  BY GoToGoes DEF Walk, Structure, Pcs, Done
<1>5. \A u \in Users : state'[u] = "WEV" => state[u] = "WEV" /\ u \notin eventlists[e]
  BY <1>3
<1>6. \A f \in Events : p \in Users /\ AtRisk(p, f)' => AtRisk(p, f)
  BY <1>2, <1>4, <1>5 DEF Gone, AtRisk
<1>7. \A f \in Events : Calling(p, f) => Calling(p, f)'
  <2>1. Calls(p) => Calls(p)' /\ ev(p)' = ev(p)
    BY <1>1, <1>4 DEF Calls, Gone
  <2> QED
    BY <1>2, <2>1 DEF Calling
<1>8. \A f \in Events : Owed(f)'
  BY <1>1, <1>2, <1>7, OwedStays DEF Followed
<1>9. \A f \in Events \ {e} : OneAtRisk(f)'
  <2> TAKE f \in Events \ {e}
  <2>1. Waking(p, f) => Waking(p, f)'
    BY <1>2 DEF Waking
  <2> QED
    BY <1>1, <1>2, <1>5, <1>6, <2>1, RiskStays DEF Followed
<1>10. \A u \in Users : ~AtRisk(u, e)'
  <2>1. \A u \in Users : pc(u)' = "link" /\ ev(u)' = e => evlock[e] = u
    BY <1>1, <1>2 DEF Structure, WaitAt
  <2>2. \A u \in Users : ~(pc(u)' = "link" /\ ev(u)' = e)
    BY <1>1, <2>1, PartiesAssumption
  <2> QED
    BY <1>2, <1>5, <2>2 DEF AtRisk
<1>11. OneAtRisk(e)'
  BY <1>10 DEF OneAtRisk
<1> QED
  BY <1>8, <1>9, <1>11 DEF Followed

LEMMA CallCallbacksFollowed ==
  ASSUME Structure, Followed, NEW p \in Procs, CallCallbacks(p)
  PROVE  Followed'
<1> PICK e : e = ev(p)
  OBVIOUS
<1>1. Structure' /\ Only(p) /\ pc(p) = "callcbs" /\ e \in Events
  BY CallCallbacksKeeps DEF CallCallbacks, Structure, ProcAt
<1>2. UNCHANGED <<value, onhiq, state, eventlists>>
  BY DEF CallCallbacks
<1>3. evcbs'[e] = {} /\ \A f \in Events : evcbs'[f] \subseteq evcbs[f]
  <2>1. evcbs \in [Events -> SUBSET Cbs]
    BY DEF Structure, TypeOK
  <2>2. evcbs' = [evcbs EXCEPT ![e] = {}] \/ (evcbs' = evcbs /\ evcbs[e] = {})
    BY DEF CallCallbacks
  <2> QED
    BY <1>1, <2>1, <2>2
<1>4. pc(p)' \in {"calling", "release", "out"}
  <2>1. PICK label \in {"calling", "release", "out"} : GoTo(p, label)
    BY DEF CallCallbacks, Done
  <2>2. Gone(p, label)
    BY <2>1, GoToGoes DEF Structure, Pcs
  <2> QED
    BY <2>2 DEF Gone
<1>5. \A f \in Events : Waking(p, f) => Waking(p, f)'
  BY <1>1, <1>2 DEF Waking, Wakes
<1>6. \A f \in Events : AtRisk(p, f)' => AtRisk(p, f)
  BY <1>2, <1>4 DEF AtRisk
<1>7. \A f \in Events : OneAtRisk(f)'
  BY <1>1, <1>2, <1>5, <1>6, RiskStays DEF Followed
<1>8. \A f \in Events : Owed(f)'
  <2> TAKE f \in Events
  <2>1. CASE f = e
    BY <1>3, <2>1 DEF Owed
  <2>2. CASE f # e
    <3>1. Calling(p, f) => Calling(p, f)'
      BY <1>2, <2>2 DEF Calling
    <3> QED
      BY <1>1, <1>2, <1>3, <3>1, OwedStays DEF Followed
  <2> QED
    BY <2>1, <2>2
<1> QED
  BY <1>7, <1>8 DEF Followed

(* highiplq_proc: what is queued stays queued until it walks the lists. *)
LEMMA HighiplStartFollowed ==
  ASSUME Structure, Followed, NEW c \in Cpus, HighiplStart(c)
  PROVE  Followed'
<1>1. Structure' /\ Only(c) /\ c \in Procs
  BY HighiplStartKeeps DEF Procs
<1>2. Gone(c, "next") /\ pc(c) = "out"
  BY <1>1, GoToGoes DEF HighiplStart, Structure, Pcs
<1>3. UNCHANGED <<value, onhiq, evcbs, state, eventlists>>
  BY DEF HighiplStart, flagvars
<1>4. ~Wakes(c) /\ ~Calls(c) /\ pc(c)' # "link"
  BY <1>2 DEF Wakes, Calls, Gone
<1> QED
  BY <1>1, <1>3, <1>4, QuietFollowed

LEMMA HighiplNextFollowed ==
  ASSUME Structure, Followed, NEW c \in Cpus, HighiplNext(c)
  PROVE  Followed'
<1>1. Structure' /\ Only(c) /\ c \in Procs /\ c \notin Users /\ pc(c) = "next"
  BY HighiplNextKeeps, PartiesAssumption DEF Procs, HighiplNext
<1>2. UNCHANGED <<value, evcbs, state, eventlists>>
  BY DEF HighiplNext
<1>3. \A f \in Events : (Waking(c, f) => Waking(c, f)') /\ (Calling(c, f) => Calling(c, f)')
  <2>1. CASE work[c] = <<>>
    BY <1>1, <2>1 DEF HighiplNext, Waking, Calling, Wakes, Calls
  <2>2. CASE work[c] # <<>>
    <3> PICK e : e = Head(work[c])
      OBVIOUS
    <3>1. /\ at' = [at EXCEPT ![c] = [pc |-> "walk", level |-> level(c), ev |-> e]]
          /\ onhiq' = [onhiq EXCEPT ![e] = FALSE]
      BY <2>2 DEF HighiplNext
    <3>2. onhiq \in [Events -> BOOLEAN] /\ at \in [Procs -> Places] /\ level(c) = "softint"
      BY DEF Structure, TypeOK, Places, CpuAt
    <3>3. pc(c)' = "walk" /\ level(c)' = "softint" /\ ev(c)' = e
      BY <1>1, <3>1, <3>2 DEF pc, level, ev
    <3>4. \A f \in Events \ {e} : onhiq'[f] = onhiq[f]
      BY <3>1, <3>2
    <3>5. ~Wakes(c) /\ ~Calls(c)
      BY <1>1 DEF Wakes, Calls
    <3> QED
      BY <3>3, <3>4, <3>5 DEF Waking, Calling, Wakes, Calls
  <2> QED
    BY <2>1, <2>2
<1> SUFFICES ASSUME NEW f \in Events PROVE OneAtRisk(f)' /\ Owed(f)'
  BY DEF Followed
<1>4. OneAtRisk(f)'
  BY <1>1, <1>2, <1>3, RiskStays DEF Followed
<1>5. Owed(f)'
  BY <1>1, <1>2, <1>3, OwedStays DEF Followed
<1> QED
  BY <1>4, <1>5

(* Who queues a callback looks at the value once more, and finds what a     *)
(* setter that saw the empty list has made of it.                          *)
LEMMA QueueLinkFollowed ==
  ASSUME Structure, Followed, NEW u \in Users, QueueLink(u)
  PROVE  Followed'
<1> PICK e : e = ev(u)
  OBVIOUS
<1>1. Structure' /\ Only(u) /\ u \in Procs /\ pc(u) = "qlink" /\ e \in Events
  BY QueueLinkKeeps DEF Procs, QueueLink, Structure, ProcAt
<1>2. Gone(u, "qrecheck")
  BY <1>1, GoToGoes DEF QueueLink, Structure, Pcs
<1>3. UNCHANGED <<value, onhiq, state, eventlists>>
  BY DEF QueueLink
<1>4. \A f \in Events \ {e} : evcbs'[f] = evcbs[f]
  BY DEF QueueLink, Structure, TypeOK
<1>5. pc(u)' = "qrecheck" /\ ev(u)' = e
  BY <1>2 DEF Gone
<1>6. \A f \in Events : (Waking(u, f) => Waking(u, f)') /\ (Calling(u, f) => Calling(u, f)')
  BY <1>1, <1>3 DEF Waking, Calling, Wakes, Calls
<1>7. \A f \in Events : AtRisk(u, f)' => AtRisk(u, f)
  BY <1>3, <1>5 DEF AtRisk
<1> SUFFICES ASSUME NEW f \in Events PROVE OneAtRisk(f)' /\ Owed(f)'
  BY DEF Followed
<1>8. OneAtRisk(f)'
  BY <1>1, <1>3, <1>6, <1>7, RiskStays DEF Followed
<1>9. Owed(f)'
  <2>1. CASE f = e
    <3>1. Calling(u, f)'
      BY <1>5, <2>1 DEF Calling, Calls
    <3> QED
      BY <1>1, <3>1, FollowedUp
  <2>2. CASE f # e
    BY <1>1, <1>3, <1>4, <1>6, <2>2, OwedStays DEF Followed
  <2> QED
    BY <2>1, <2>2
<1> QED
  BY <1>8, <1>9

LEMMA QueueRecheckFollowed ==
  ASSUME Structure, Followed, NEW u \in Users, QueueRecheck(u)
  PROVE  Followed'
<1> PICK e : e = ev(u)
  OBVIOUS
<1> DEFINE label == IF value[e] > 0 THEN "callcbs" ELSE "out"
<1>1. Structure' /\ Only(u) /\ u \in Procs /\ pc(u) = "qrecheck"
  BY QueueEndsKeeps DEF Procs, QueueRecheck
<1>2. Gone(u, label)
  BY <1>1, GoToGoes DEF QueueRecheck, Structure, Pcs
<1>3. UNCHANGED <<value, onhiq, evcbs, state, eventlists>>
  BY DEF QueueRecheck, flagvars
<1>4. pc(u)' = label /\ (label # "out" => ev(u)' = e)
  BY <1>2 DEF Gone
<1>5. \A f \in Events : Waking(u, f) => Waking(u, f)'
  BY <1>1, <1>3 DEF Waking, Wakes
<1>6. \A f \in Events : AtRisk(u, f)' => AtRisk(u, f)
  BY <1>3, <1>4 DEF AtRisk
<1>7. \A f \in Events : value[f] > 0 /\ Calling(u, f) => Calling(u, f)'
  BY <1>3, <1>4 DEF Calling, Calls
<1> SUFFICES ASSUME NEW f \in Events PROVE OneAtRisk(f)' /\ Owed(f)'
  BY DEF Followed
<1>8. OneAtRisk(f)'
  BY <1>1, <1>3, <1>5, <1>6, RiskStays DEF Followed
<1>9. Owed(f)'
  <2>1. CASE value[f] > 0
    BY <1>1, <1>3, <1>7, <2>1, OwedStays DEF Followed
  <2>2. CASE ~(value[f] > 0)
    BY <1>3, <2>2 DEF Owed
  <2> QED
    BY <2>1, <2>2
<1> QED
  BY <1>8, <1>9

(* A thread takes the risk of being missed only while the flag is clear:   *)
(* it tests the value and begins to link itself in one hold of the lock.   *)
LEMMA WaitListFollowed ==
  ASSUME Structure, Followed, NEW u \in Users, WaitList(u)
  PROVE  Followed'
<1>1. Structure' /\ Only(u) /\ u \in Procs /\ pc(u) = "out"
  BY WaitListKeeps DEF Procs, WaitList
<1>2. Gone(u, "check")
  BY <1>1, GoToGoes DEF WaitList, Structure, Pcs
<1>3. UNCHANGED <<value, onhiq, evcbs, eventlists>>
  BY DEF WaitList, flagvars
<1>4. \A w \in Users \ {u} : state'[w] = state[w]
  BY DEF WaitList, Structure, TypeOK
<1>5. \A f \in Events : ~AtRisk(u, f)'
  <2>1. \A f \in Events : u \notin eventlists[f]
    BY <1>1 DEF Structure, WaitAt, Waits
  <2> QED
    BY <1>2, <1>3, <2>1 DEF Gone, AtRisk
<1>6. \A f \in Events : (Waking(u, f) => Waking(u, f)') /\ (Calling(u, f) => Calling(u, f)')
  BY <1>1, <1>3 DEF Waking, Calling, Wakes, Calls
<1> SUFFICES ASSUME NEW f \in Events PROVE OneAtRisk(f)' /\ Owed(f)'
  BY DEF Followed
<1>7. OneAtRisk(f)'
  BY <1>1, <1>3, <1>4, <1>5, <1>6, RiskStays DEF Followed
<1>8. Owed(f)'
  BY <1>1, <1>3, <1>6, OwedStays DEF Followed
<1> QED
  BY <1>7, <1>8

LEMMA WaitCheckFollowed ==
  ASSUME Structure, Followed, NEW u \in Users, WaitCheck(u)
  PROVE  Followed'
<1>1. PICK e \in todo[u] :
        /\ pc(u) = "check"
        /\ IF value[e] > 0
             THEN state' = [state EXCEPT ![u] = "RUN"] /\ GoTo(u, "unlink")
             ELSE /\ at' = [at EXCEPT ![u] = [pc |-> "link", level |-> level(u), ev |-> e]]
                  /\ state' = state
        /\ UNCHANGED <<value, onhiq, evcbs, eventlists>>
  BY DEF WaitCheck
<1>2. Structure' /\ Only(u) /\ u \in Procs /\ state \in [Users -> {"RUN", "WEV"}]
  BY WaitCheckKeeps DEF Procs, Structure, TypeOK
<1>3. ~Wakes(u) /\ ~Calls(u)
  BY <1>1 DEF Wakes, Calls
<1>4. CASE value[e] > 0
  <2>1. Gone(u, "unlink")
    BY <1>1, <1>2, <1>4, GoToGoes DEF Structure, Pcs
  <2>2. pc(u)' # "link"
    BY <2>1 DEF Gone
  <2>3. \A w \in Users : state'[w] = "WEV" => state[w] = "WEV"
    BY <1>1, <1>2, <1>4
  <2> QED
    BY <1>1, <1>2, <1>3, <2>2, <2>3, QuietFollowed
<1>5. CASE ~(value[e] > 0)
  <2>1. pc(u)' = "link" /\ ev(u)' = e /\ state' = state
    BY <1>1, <1>2, <1>5 DEF Structure, TypeOK, pc, ev
  <2>2. \A f \in Events : (Waking(u, f) => Waking(u, f)') /\ (Calling(u, f) => Calling(u, f)')
    BY <1>1, <1>3 DEF Waking, Calling
  <2>3. \A f \in Events : Owed(f)'
    BY <1>1, <1>2, <2>2, OwedStays DEF Followed
  <2>4. ASSUME NEW f \in Events PROVE OneAtRisk(f)'
    <3>1. CASE f = e
      BY <1>1, <1>5, <3>1 DEF OneAtRisk
    <3>2. CASE f # e
      <4>1. AtRisk(u, f)' => AtRisk(u, f)
        BY <1>1, <2>1, <3>2 DEF AtRisk
      <4> QED
        BY <1>1, <1>2, <2>1, <2>2, <4>1, RiskStays DEF Followed
    <3> QED
      BY <3>1, <3>2
  <2> QED
    BY <2>3, <2>4 DEF Followed
<1> QED
  BY <1>4, <1>5

LEMMA WaitLinkFollowed ==
  ASSUME Structure, Followed, NEW u \in Users, WaitLink(u)
  PROVE  Followed'
<1> PICK e : e = ev(u)
  OBVIOUS
<1> DEFINE label == IF todo[u] = {e} THEN "waiting" ELSE "check"
<1>1. Structure' /\ Only(u) /\ u \in Procs /\ pc(u) = "link" /\ e \in Events
  BY WaitLinkKeeps DEF Procs, WaitLink, Structure, ProcAt
<1>2. Gone(u, label)
  BY <1>1, GoToGoes DEF WaitLink, Structure, Pcs
<1>3. UNCHANGED <<value, onhiq, evcbs, state>>
  BY DEF WaitLink
<1>4. \A f \in Events : u \in eventlists'[f] => u \in eventlists[f] \/ f = e
  BY <1>1 DEF WaitLink, Structure, TypeOK
<1>5. \A f \in Events : AtRisk(u, f)' => AtRisk(u, f)
  BY <1>1, <1>2, <1>3, <1>4 DEF Gone, AtRisk
<1>6. \A f \in Events : (Waking(u, f) => Waking(u, f)') /\ (Calling(u, f) => Calling(u, f)')
  BY <1>1, <1>3 DEF Waking, Calling, Wakes, Calls
<1> SUFFICES ASSUME NEW f \in Events PROVE OneAtRisk(f)' /\ Owed(f)'
  BY DEF Followed
<1>7. OneAtRisk(f)'
  BY <1>1, <1>3, <1>5, <1>6, RiskStays DEF Followed
<1>8. Owed(f)'
  BY <1>1, <1>3, <1>6, OwedStays DEF Followed
<1> QED
  BY <1>7, <1>8

(* Everything else neither sets a flag nor puts a thread at risk. *)
LEMMA OtherStepsFollowed ==
  ASSUME Structure, Followed, NEW p \in Procs,
         \/ CallOne(p) \/ DecRef(p) \/ DecRefToZero(p) \/ NullCall(p)
         \/ /\ p \in Users
            /\ \/ DropRef(p) \/ QueueCb(p) \/ QueueNoPool(p)
               \/ WaitDone(p) \/ WaitAst(p) \/ WaitUnlink(p)
  PROVE  Followed'
<1>1. Structure' /\ Only(p)
  BY CallOneKeeps, DecRefKeeps, DecRefToZeroKeeps, NullCallKeeps, DropRefKeeps, QueueCbKeeps,
     QueueEndsKeeps, WaitDoneKeeps, WaitAstKeeps, WaitUnlinkKeeps
<1>2. value' = value
  BY DEF CallOne, DecRef, DecRefToZero, NullCall, DropRef, QueueCb, QueueNoPool, WaitDone, WaitAst,
     WaitUnlink, flagvars
<1>3. \A u \in Users : state'[u] = "WEV" => state[u] = "WEV"
  <2>1. CASE WaitAst(p)
    BY <2>1 DEF WaitAst, Structure, TypeOK
  <2>2. CASE ~WaitAst(p)
    <3>1. state' = state
      BY <2>2 DEF CallOne, DecRef, DecRefToZero, NullCall, DropRef, QueueCb, QueueNoPool, WaitDone,
         WaitUnlink
    <3> QED
      BY <3>1
  <2> QED
    BY <2>1, <2>2
<1>4. \A e \in Events : (onhiq[e] => onhiq'[e]) /\ evcbs'[e] \subseteq evcbs[e]
  <2>1. CASE DecRefToZero(p)
    <3> PICK f : f = ev(p)
      OBVIOUS
    <3>1. f \in Events /\ onhiq \in [Events -> BOOLEAN] /\ evcbs \in [Events -> SUBSET Cbs]
      BY <2>1 DEF DecRefToZero, Structure, TypeOK, ProcAt
    <3>2. /\ onhiq' = onhiq \/ onhiq' = [onhiq EXCEPT ![f] = TRUE]
          /\ evcbs' = evcbs \/ evcbs' = [evcbs EXCEPT ![f] = {}]
      BY <2>1 DEF DecRefToZero, PutOnHighiplq
    <3> QED
      BY <3>1, <3>2
  <2>2. CASE ~DecRefToZero(p)
    <3>1. UNCHANGED <<onhiq, evcbs>>
      BY <2>2 DEF CallOne, DecRef, NullCall, DropRef, QueueCb, QueueNoPool, WaitDone, WaitAst,
         WaitUnlink, flagvars
    <3> QED
      BY <3>1
  <2> QED
    BY <2>1, <2>2
<1>5. \A e \in Events : p \in eventlists'[e] => p \in eventlists[e]
  <2>1. CASE p \in Users /\ WaitUnlink(p)
    <3>1. \/ eventlists' = eventlists
          \/ \E f \in linked[p] : eventlists' = [eventlists EXCEPT ![f] = @ \ {p}]
      BY <2>1 DEF WaitUnlink
    <3>2. eventlists \in [Events -> SUBSET Users]
      BY DEF Structure, TypeOK
    <3> QED
      BY <3>1, <3>2
  <2>2. CASE ~(p \in Users /\ WaitUnlink(p))
    <3>1. eventlists' = eventlists
      BY <2>2 DEF CallOne, DecRef, DecRefToZero, NullCall, DropRef, QueueCb, QueueNoPool, WaitDone,
         WaitAst, flagvars
    <3> QED
      BY <3>1
  <2> QED
    BY <2>1, <2>2
<1>6. \/ ~Wakes(p) /\ ~Calls(p) /\ pc(p)' # "link"
      \/ UNCHANGED at
  <2>1. CASE CallOne(p) \/ DecRef(p) \/ DecRefToZero(p) \/ NullCall(p)
    <3>1. \/ \E label \in {"decref", "nullcalls", "out", "release", "next"} : GoTo(p, label)
          \/ UNCHANGED at
      BY <2>1 DEF CallOne, DecRef, DecRefToZero, NullCall, Dropped, Done
    <3>2. ASSUME NEW label \in {"decref", "nullcalls", "out", "release", "next"}, GoTo(p, label)
          PROVE  pc(p)' # "link"
      <4>1. label \in Pcs
        BY DEF Pcs
      <4>2. Gone(p, label)
        BY <3>2, <4>1, GoToGoes DEF Structure
      <4> QED
        BY <4>2 DEF Gone
    <3>3. ~Wakes(p) /\ ~Calls(p)
      BY <2>1 DEF CallOne, DecRef, DecRefToZero, NullCall, Wakes, Calls
    <3> QED
      BY <3>1, <3>2, <3>3
  <2>2. CASE p \in Users /\ (DropRef(p) \/ QueueCb(p))
    <3>1. PICK e \in Events, l \in Levels, label \in {"decref", "qlink"} : Begin(p, e, l, label)
      BY <2>2 DEF DropRef, QueueCb, Levels
    <3>2. Entered(p, e, l, label)
      BY <2>2, <3>1, BeginEnters DEF Structure, Pcs
    <3> QED
      BY <3>2 DEF Entered, Wakes, Calls
  <2>3. CASE p \in Users /\ (QueueNoPool(p) \/ WaitDone(p) \/ WaitUnlink(p))
    <3>1. \/ \E label \in {"out", "unlink"} : GoTo(p, label)
          \/ UNCHANGED at
      BY <2>3 DEF QueueNoPool, WaitDone, WaitUnlink
    <3>2. ASSUME NEW label \in {"out", "unlink"}, GoTo(p, label)
          PROVE  pc(p)' # "link"
      <4>1. label \in Pcs
        BY DEF Pcs
      <4>2. Gone(p, label)
        BY <3>2, <4>1, GoToGoes DEF Structure
      <4> QED
        BY <4>2 DEF Gone
    <3>3. ~Wakes(p) /\ ~Calls(p)
      BY <2>3 DEF QueueNoPool, WaitDone, WaitUnlink, Wakes, Calls
    <3> QED
      BY <3>1, <3>2, <3>3
  <2>4. CASE WaitAst(p)
    BY <2>4 DEF WaitAst
  <2> QED
    BY <2>1, <2>2, <2>3, <2>4
<1> QED
  BY <1>1, <1>2, <1>3, <1>4, <1>5, <1>6, QuietFollowed

LEMMA FollowedInit ==
  ASSUME Init PROVE Followed
<1>1. \A e \in Events : ~(value[e] > 0)
  BY DEF Init
<1> QED
  BY <1>1 DEF Followed, OneAtRisk, Owed

LEMMA FollowedNext ==
  ASSUME Structure, Followed, [Next]_vars PROVE Followed'
<1>1. ASSUME NEW u \in Users, Call(u) PROVE Followed'
  <2>1. value \in [Events -> Int] /\ Values \subseteq Int /\ Incs \subseteq Int
    BY ValuesAssumption DEF Structure, TypeOK
  <2>2. CASE EventSet(u)
    BY <2>1, <2>2, ChangeValueFollowed DEF EventSet
  <2>3. CASE EventInc(u)
    <3>1. PICK e \in Events, l \in Levels, i \in Incs : ChangeValue(u, e, l, value[e] + i)
      BY <2>3 DEF EventInc
    <3>2. value[e] + i \in Int
      BY <2>1
    <3> QED
      BY <3>1, <3>2, ChangeValueFollowed
  <2> QED
    BY <1>1, <2>2, <2>3, OtherStepsFollowed, WaitListFollowed DEF Call, Procs
<1>2. ASSUME NEW p \in Procs, Wake(p) \/ Drop(p) PROVE Followed'
  BY <1>2, LookFollowed, PutHighiplFollowed, WalkFollowed, CallCallbacksFollowed,
     OtherStepsFollowed DEF Wake, Drop
<1>3. ASSUME NEW u \in Users, UserStep(u) \/ QueueNoPool(u) \/ WaitAst(u) PROVE Followed'
  BY <1>2, <1>3, QueueLinkFollowed, QueueRecheckFollowed, WaitCheckFollowed, WaitLinkFollowed,
     OtherStepsFollowed DEF UserStep, Procs
<1>4. ASSUME NEW c \in Cpus, CpuStep(c) PROVE Followed'
  BY <1>2, <1>4, HighiplStartFollowed, HighiplNextFollowed DEF CpuStep, Procs
<1>5. CASE UNCHANGED vars
  <2>1. UNCHANGED <<value, evcbs, eventlists, onhiq, hiq, at, state, work>>
    BY <1>5 DEF vars, flagvars, procvars
  <2> QED
    BY <2>1 DEF Followed, OneAtRisk, Owed, AtRisk, WakeComing, Calls, pc, level, ev
<1> QED
  BY <1>1, <1>3, <1>4, <1>5 DEF Next

-----------------------------------------------------------------------------
LEMMA IInvInit == Init => IInv
  BY StructureInit, AliveInit, FollowedInit DEF IInv

LEMMA IInvNext == IInv /\ [Next]_vars => IInv'
  BY StructureNext, AliveNext, FollowedNext DEF IInv

(* The three parts together, in every reachable state. *)
THEOREM Invariance == Spec => []IInv
  BY IInvInit, IInvNext, PTL DEF Spec

(* The variables keep their types. *)
THEOREM TypeCorrect == Spec => []TypeOK
<1>1. IInv => TypeOK
  BY DEF IInv, Structure
<1> QED
  BY <1>1, Invariance, PTL

(* The reference count of a flag is the number of references to it. *)
THEOREM Counted == Spec => []RefcountExact
<1>1. IInv => RefcountExact
  BY DEF IInv, Alive
<1> QED
  BY <1>1, Invariance, PTL

(* Nobody can reach a flag that was freed, and oz_crash is never called. *)
THEOREM FreedSafely == Spec => []FreedUnreachable
<1>1. ASSUME IInv PROVE FreedUnreachable
  <2>1. SUFFICES ASSUME NEW e \in Events, freed[e]
                 PROVE  /\ References(e) = 0
                        /\ eventlists[e] = {} /\ evcbs[e] = {}
                        /\ ~WakeComing(e)
    BY <1>1 DEF IInv, Alive, FreedUnreachable
  <2>2. refcount[e] = 0 /\ References(e) = 0 /\ evcbs[e] = {}
    BY <1>1, <2>1 DEF IInv, Alive, RefcountExact
  <2>3. /\ ~onhiq[e]
        /\ \A p \in Procs, r \in Roles : ~Refers(p, r, e)
    BY <1>1, <2>2, ReferredLives DEF IInv, Alive
  <2>4. \A u \in Users : e \notin hasref[u]
    <3>1. "own" \in Roles /\ Users \subseteq Procs
      BY DEF Roles, Procs
    <3> QED
      BY <2>3, <3>1 DEF Refers
  <2>5. eventlists[e] = {}
    <3>1. eventlists[e] \subseteq Users
      BY <1>1 DEF IInv, Structure, TypeOK
    <3>2. \A u \in Users : u \notin eventlists[e]
      BY <1>1, <2>4 DEF IInv, Structure, WaitAt
    <3> QED
      BY <3>1, <3>2
  <2>6. ASSUME NEW p \in Procs, ev(p) = e PROVE ~Wakes(p)
    <3>1. CASE p \in Users
      BY <1>1, <2>4, <2>6, <3>1 DEF IInv, Structure, UserAt, Wakes
    <3>2. CASE p \in Cpus
      <4>1. pc(p) # "walk"
        BY <2>3, <2>6, <3>2 DEF Refers, Roles
      <4> QED
        BY <1>1, <3>2, <4>1 DEF IInv, Structure, CpuAt, Wakes
    <3> QED
      BY <3>1, <3>2 DEF Procs
  <2>7. ~WakeComing(e)
    BY <1>1, <2>3, <2>6, ComingIs DEF IInv, Structure, Coming
  <2> QED
    BY <2>2, <2>5, <2>7
<1> QED
  BY <1>1, Invariance, PTL

(* A flag that is set strands one thread at the most. *)
THEOREM OneStranded == Spec => []AtMostOneStranded
<1>1. IInv => AtMostOneStranded
  BY DEF IInv, Followed, OneAtRisk, AtMostOneStranded, Stranded, Blocked, AtRisk
<1> QED
  BY <1>1, Invariance, PTL

(* Somebody is about to call the callbacks of a flag that is set. *)
THEOREM CallbacksOwed == Spec => []CallbackOwed
<1>1. ASSUME IInv, NEW e \in Events, value[e] > 0, evcbs[e] # {}
      PROVE  \/ WakeComing(e)
             \/ \E p \in Procs : ev(p) = e /\ pc(p) \in {"callcbs", "qrecheck"}
  <2>1. onhiq[e] \/ \E p \in Procs : ev(p) = e /\ Calls(p)
    BY <1>1 DEF IInv, Followed, Owed
  <2>2. WakeComing(e) <=> Coming(e)
    BY <1>1, ComingIs DEF IInv, Structure
  <2> QED
    BY <2>1, <2>2 DEF Coming, Calls, Wakes
<1>2. IInv => CallbackOwed
  BY <1>1 DEF CallbackOwed
<1> QED
  BY <1>2, Invariance, PTL

CallsRightly ==
  \A c \in Cbs : cbs'[c] # cbs[c] /\ cbs[c] # "new" =>
    /\ cbs[c] = "queued"
    /\ \E p \in Procs : level(p) = "softint" /\ c \in mine[p] \ mine'[p]

LEMMA CallRight ==
  ASSUME Structure, NEW p \in Procs, NEW d \in mine[p], NEW how,
         cbs' = [cbs EXCEPT ![d] = how], mine' = [mine EXCEPT ![p] = @ \ {d}]
  PROVE  CallsRightly
<1>1. /\ cbs \in [Cbs -> {"new", "queued", "event", "null"}] /\ mine \in [Procs -> SUBSET Cbs]
      /\ cbs[d] = "queued" /\ level(p) = "softint"
  BY DEF Structure, TypeOK, CbsKept, ProcAt
<1>2. mine'[p] = mine[p] \ {d} /\ \A c \in Cbs : c # d => cbs'[c] = cbs[c]
  BY <1>1
<1> QED
  BY <1>1, <1>2 DEF CallsRightly

LEMMA CbsStay ==
  ASSUME cbs' = cbs PROVE CallsRightly
  BY DEF CallsRightly

(* A callback is called once, at softint level. *)
THEOREM CalledOnceAtSoftint == Spec => CallbackOnceAtSoftint
<1>1. ASSUME Structure, [Next]_vars PROVE CallsRightly
  <2>1. ASSUME NEW p \in Procs, Wake(p) \/ Drop(p) PROVE CallsRightly
    <3>1. CASE CallOne(p)
      BY <1>1, <3>1, CallRight, CbsStay DEF CallOne
    <3>2. CASE NullCall(p)
      BY <1>1, <3>2, CallRight, CbsStay DEF NullCall
    <3>3. CASE ~CallOne(p) /\ ~NullCall(p)
      BY <2>1, <3>3, CbsStay DEF Wake, Drop, Look, PutHighipl, Walk, CallCallbacks, DecRef,
         DecRefToZero, cbvars
    <3> QED
      BY <3>1, <3>2, <3>3
  <2>2. ASSUME NEW u \in Users, QueueLink(u) PROVE CallsRightly
    <3>1. PICK c \in Cbs : cbs[c] = "new" /\ cbs' = [cbs EXCEPT ![c] = "queued"]
      BY <2>2 DEF QueueLink
    <3>2. \A d \in Cbs : d # c => cbs'[d] = cbs[d]
      BY <1>1, <3>1 DEF Structure, TypeOK
    <3> QED
      BY <3>1, <3>2 DEF CallsRightly
  <2>3. ASSUME NEW u \in Users, Call(u) PROVE CallsRightly
    BY <2>3, CbsStay DEF Call, EventSet, EventInc, ChangeValue, DropRef, QueueCb, WaitList, cbvars
  <2>4. ASSUME NEW u \in Users, UserStep(u) \/ QueueNoPool(u) \/ WaitAst(u) PROVE CallsRightly
    BY <2>1, <2>2, <2>4, CbsStay DEF UserStep, QueueNoPool, WaitAst, QueueRecheck, WaitCheck,
       WaitLink, WaitDone, WaitUnlink, cbvars, Procs
  <2>5. ASSUME NEW c \in Cpus, CpuStep(c) PROVE CallsRightly
    BY <2>1, <2>5, CbsStay DEF CpuStep, HighiplStart, HighiplNext, cbvars, Procs
  <2>6. CASE UNCHANGED vars
    BY <2>6, CbsStay DEF vars, cbvars
  <2> QED
    BY <1>1, <2>3, <2>4, <2>5, <2>6 DEF Next
<1>2. IInv /\ [Next]_vars => [CallsRightly]_vars
  BY <1>1 DEF IInv
<1> QED
  BY <1>2, Invariance, PTL DEF Spec, CallbackOnceAtSoftint, CallsRightly

(***************************************************************************)
(* LOW-IPL CALLS                                                           *)
(*                                                                         *)
(* Whatever drivers push while cpus pop, every call is made once, on one   *)
(* cpu or if no struct is used twice.  The inductive invariant says what   *)
(* the list is, and that who is on it has a call to make.                  *)
(***************************************************************************)
(* A cpu that is about to pop a struct is not overtaken by another that     *)
(* pops it, calls it and finds it pushed again.                            *)
NoOvertaking == MaxCalls <= 1 \/ \A c, d \in LowiplCpus : c = d

Handling == {"next", "pop", "poke", "call"}

Links == Structs \cup {NULL}

Typed ==
  /\ lowipls \in Links
  /\ next \in [Structs -> Links]
  /\ entry \in [Structs -> 0 .. MaxCalls]
  /\ caller \in [Structs -> {"out", "link"}]
  /\ handling \in [LowiplCpus -> [pc : Handling \cup {"out", "head"}, lowipl : Links, next : Links]]
  /\ called \in [Structs -> [1 .. MaxCalls -> Nat]]
  /\ \A c \in LowiplCpus : handling[c].pc \in Handling => handling[c].lowipl \in Structs

-----------------------------------------------------------------------------
(* The list, from the head on. *)

Once(q) == \A i, j \in 1 .. Len(q) : q[i] = q[j] => i = j

After(q, i) == IF i < Len(q) THEN q[i + 1] ELSE NULL

Chain(q) ==
  /\ Once(q)
  /\ lowipls = After(q, 0)
  /\ \A i \in 1 .. Len(q) : next[q[i]] = After(q, i)

(* The last call of a struct has been asked for and not been made. *)
Asked(l) == entry[l] > 0 /\ called[l][entry[l]] = 0

Popped(c) == handling[c].pc \in {"poke", "call"}

(* Whoever is pushed, listed or popped has a call to make, and is so once. *)
Apart(q) ==
  /\ \A l \in Structs : l \in Range(q) => caller[l] = "out"
  /\ \A l \in Structs : l \in Range(q) \/ caller[l] = "link" => Asked(l)
  /\ \A c \in LowiplCpus : Popped(c) =>
       LET l == handling[c].lowipl IN Asked(l) /\ caller[l] = "out" /\ l \notin Range(q)
  /\ \A c, d \in LowiplCpus : Popped(c) /\ Popped(d) /\ handling[c].lowipl = handling[d].lowipl => c = d

(* What a cpu has read of the list holds for as long as it matters. *)
SeesAt(q, c) ==
  handling[c].pc \in {"next", "pop"} =>
    LET l == handling[c].lowipl IN
      /\ entry[l] > 0 /\ caller[l] = "out"
      /\ l \in Range(q) \/ MaxCalls <= 1
      /\ handling[c].pc = "pop" => handling[c].next = next[l]

ListIs(q) == Chain(q) /\ Apart(q) /\ \A c \in LowiplCpus : SeesAt(q, c)

CallsInv == Typed /\ CalledOnce /\ \E q \in Seq(Structs) : ListIs(q)

-----------------------------------------------------------------------------
LEMMA CallsBegin ==
  ASSUME CallInit
  PROVE  CallsInv
<1> DEFINE q == <<>>
<1>1. Typed
  BY CallsAssumption DEF CallInit, Typed, Links, Handling
<1>2. CalledOnce
  BY CallsAssumption DEF CallInit, CalledOnce
<1>3. q \in Seq(Structs) /\ Len(q) = 0 /\ Range(q) = {}
  BY DEF Range
<1>4. Chain(q)
  BY <1>3 DEF Chain, Once, After, CallInit
<1>5. Apart(q)
  BY <1>3 DEF Apart, Popped, CallInit
<1>6. \A c \in LowiplCpus : SeesAt(q, c)
  BY DEF SeesAt, CallInit
<1> QED
  BY <1>1, <1>2, <1>3, <1>4, <1>5, <1>6 DEF CallsInv, ListIs

(* A struct that was listed has a call to make and is its driver's no more. *)
LEMMA ListedAreBusy ==
  ASSUME Typed, NEW q \in Seq(Structs), ListIs(q), NEW i \in 1 .. Len(q)
  PROVE  /\ q[i] \in Structs /\ q[i] \in Range(q)
         /\ Asked(q[i]) /\ ~Unused(q[i]) /\ caller[q[i]] = "out"
<1>1. q[i] \in Structs /\ q[i] \in Range(q)
  BY DEF Range
<1>2. Asked(q[i]) /\ caller[q[i]] = "out"
  BY <1>1 DEF ListIs, Apart
<1>3. ~Unused(q[i])
  <2>1. entry[q[i]] \in 1 .. MaxCalls
    BY <1>1, <1>2, CallsAssumption DEF Asked, Typed
  <2> QED
    BY <1>2, <2>1 DEF Asked, Unused
<1> QED
  BY <1>1, <1>2, <1>3

(* Steps that leave the list as it is.                                     *)
LEMMA ListStays ==
  ASSUME NEW q \in Seq(Structs), Chain(q), lowipls' = lowipls,
         \A l \in Structs : l \in Range(q) => next'[l] = next[l]
  PROVE  Chain(q)'
<1>1. \A i \in 1 .. Len(q) : q[i] \in Structs /\ q[i] \in Range(q)
  BY DEF Range
<1> QED
  BY <1>1 DEF Chain, After

-----------------------------------------------------------------------------
(* The steps *)

LEMMA CallKeeps ==
  ASSUME CallsInv, NEW l \in Structs, LowiplCall(l)
  PROVE  CallsInv'
<1>1. PICK q \in Seq(Structs) : ListIs(q)
  BY DEF CallsInv
<1>2. l \notin Range(q)
  <2> SUFFICES ASSUME l \in Range(q)
               PROVE  FALSE
    OBVIOUS
  <2>1. PICK i \in 1 .. Len(q) : q[i] = l
    BY DEF Range
  <2> QED
    BY <1>1, <2>1, ListedAreBusy DEF LowiplCall, CallsInv
<1>3. /\ entry[l] \in 0 .. MaxCalls /\ entry[l] + 1 \in 1 .. MaxCalls /\ caller[l] = "out"
      /\ entry' = [entry EXCEPT ![l] = @ + 1] /\ entry'[l] = entry[l] + 1
      /\ ~ Asked(l)
  <2>1. entry[l] \in 0 .. MaxCalls
    BY DEF CallsInv, Typed
  <2>2. entry[l] + 1 \in 1 .. MaxCalls /\ entry'[l] = entry[l] + 1
    BY <2>1, CallsAssumption DEF LowiplCall, CallsInv, Typed
  <2>3. entry[l] > 0 => called[l][entry[l]] > 0
    BY <2>1 DEF LowiplCall, Unused
  <2>4. ~ Asked(l)
    BY <2>3 DEF Asked
  <2> QED
    BY <2>1, <2>2, <2>4 DEF LowiplCall
<1>4. Typed'
  BY <1>3 DEF CallsInv, Typed, LowiplCall, Links
<1>5. CalledOnce'
  <2>1. \A m \in Structs : entry'[m] \in Nat /\ entry[m] \in Nat /\ entry[m] <= entry'[m]
    BY <1>3, CallsAssumption DEF CallsInv, Typed
  <2>2. \A m \in Structs, n \in 1 .. MaxCalls : called[m][n] \in Nat
    BY DEF CallsInv, Typed
  <2>3. called' = called
    BY DEF LowiplCall
  <2> QED
    BY <2>1, <2>2, <2>3, CallsAssumption DEF CallsInv, CalledOnce
<1>6. Asked(l)' /\ \A m \in Structs \ {l} : Asked(m)' <=> Asked(m)
  <2>1. called[l][entry[l] + 1] = 0
    <3> DEFINE n == entry[l] + 1
    <3>1. n \in 1 .. MaxCalls /\ ~ (n <= entry[l])
      BY <1>3
    <3> HIDE DEF n
    <3>2. called[l][n] \in Nat
      BY <3>1 DEF CallsInv, Typed
    <3>3. called[l][n] <= 0
      BY <3>1 DEF CallsInv, CalledOnce
    <3>4. called[l][n] = 0
      BY <3>2, <3>3
    <3> QED
      BY <3>4 DEF n
  <2> QED
    BY <1>3, <2>1 DEF Asked, LowiplCall, CallsInv, Typed
<1>7. Chain(q)'
  BY <1>1, <1>2, ListStays DEF LowiplCall, ListIs, CallsInv, Typed
<1>8. caller'[l] = "link" /\ \A m \in Structs \ {l} : caller'[m] = caller[m] /\ next'[m] = next[m]
  BY DEF LowiplCall, CallsInv, Typed
<1>9. \A c \in LowiplCpus : handling[c].pc \in Handling => handling[c].lowipl \in Structs \ {l}
  <2> SUFFICES ASSUME NEW c \in LowiplCpus, handling[c].pc \in Handling, handling[c].lowipl = l
               PROVE  FALSE
    BY DEF CallsInv, Typed
  <2>1. ~ Popped(c)
    BY <1>1, <1>3 DEF ListIs, Apart
  <2>2. handling[c].pc \in {"next", "pop"}
    BY <2>1 DEF Handling, Popped
  <2>3. entry[l] > 0 /\ MaxCalls <= 1
    BY <1>1, <1>2, <2>2 DEF ListIs, SeesAt
  <2> QED
    BY <1>3, <2>3, CallsAssumption
<1>10. Apart(q)'
  BY <1>1, <1>2, <1>6, <1>8, <1>9 DEF ListIs, Apart, Popped, LowiplCall, Handling
<1>11. \A c \in LowiplCpus : SeesAt(q, c)'
  BY <1>1, <1>3, <1>8, <1>9 DEF ListIs, SeesAt, LowiplCall, Handling, CallsInv, Typed
<1> QED
  BY <1>4, <1>5, <1>7, <1>10, <1>11 DEF CallsInv, ListIs

LEMMA PushKeeps ==
  ASSUME CallsInv, NEW l \in Structs, Push(l)
  PROVE  CallsInv'
<1>1. PICK q \in Seq(Structs) : ListIs(q)
  BY DEF CallsInv
<1>2. l \notin Range(q) /\ Asked(l)
  BY <1>1 DEF Push, ListIs, Apart
<1>3. \A c \in LowiplCpus : handling[c].pc \in Handling => handling[c].lowipl \in Structs \ {l}
  <2> SUFFICES ASSUME NEW c \in LowiplCpus, handling[c].pc \in Handling, handling[c].lowipl = l
               PROVE  FALSE
    BY DEF CallsInv, Typed
  <2>1. CASE Popped(c)
    BY <1>1, <2>1 DEF ListIs, Apart, Push
  <2>2. CASE handling[c].pc \in {"next", "pop"}
    BY <1>1, <2>2 DEF ListIs, SeesAt, Push
  <2> QED
    BY <2>1, <2>2 DEF Handling, Popped
<1>4. Typed'
  BY DEF CallsInv, Typed, Push, Links
<1>5. CalledOnce' /\ \A m \in Structs : Asked(m)' <=> Asked(m)
  BY DEF CallsInv, CalledOnce, Asked, Push
<1>6. CASE lowipls = next[l]
  <2> DEFINE r == <<l>> \o q
  <2>1. /\ r \in Seq(Structs) /\ Len(r) = Len(q) + 1 /\ Len(q) \in Nat
        /\ r[1] = l /\ \A i \in 1 .. Len(q) : r[i + 1] = q[i]
    OBVIOUS
  <2>2. /\ lowipls' = l /\ next' = next /\ caller'[l] = "out"
        /\ \A m \in Structs \ {l} : caller'[m] = caller[m]
    BY <1>6 DEF Push, CallsInv, Typed
  <2> HIDE DEF r
  <2>3. \A i \in 1 .. Len(r) : i = 1 \/ (i - 1 \in 1 .. Len(q) /\ r[i] = q[i - 1])
    <3> SUFFICES ASSUME NEW i \in 1 .. Len(r), i # 1
                 PROVE  i - 1 \in 1 .. Len(q) /\ r[i] = q[i - 1]
      OBVIOUS
    <3>1. i - 1 \in 1 .. Len(q) /\ (i - 1) + 1 = i
      BY <2>1
    <3>2. r[(i - 1) + 1] = q[i - 1]
      BY <2>1, <3>1
    <3> QED
      BY <3>1, <3>2
  <2>4. Range(r) = Range(q) \cup {l}
    <3>1. \A i \in 1 .. Len(q) : i + 1 \in 1 .. Len(r)
      BY <2>1
    <3>2. 1 \in 1 .. Len(r)
      BY <2>1
    <3>3. DOMAIN r = 1 .. Len(r) /\ DOMAIN q = 1 .. Len(q)
      BY <2>1
    <3>4. \A m \in Range(q) \cup {l} : \E i \in 1 .. Len(r) : r[i] = m
      BY <2>1, <3>1, <3>2, <3>3 DEF Range
    <3>5. \A i \in 1 .. Len(r) : r[i] \in Range(q) \cup {l}
      BY <2>1, <2>3, <3>3 DEF Range
    <3> QED
      BY <3>3, <3>4, <3>5 DEF Range
  <2>5. Chain(r)'
    <3>1. \A i \in 1 .. Len(q) : q[i] # l
      BY <1>2 DEF Range
    <3>2. Once(r)
      <4> SUFFICES ASSUME NEW i \in 1 .. Len(r), NEW j \in 1 .. Len(r), r[i] = r[j]
                   PROVE  i = j
        BY DEF Once
      <4>1. CASE i = 1 \/ j = 1
        BY <2>1, <2>3, <3>1, <4>1
      <4>2. CASE i # 1 /\ j # 1
        <5>1. i - 1 \in 1 .. Len(q) /\ j - 1 \in 1 .. Len(q) /\ q[i - 1] = q[j - 1]
          BY <2>3, <4>2
        <5>2. i - 1 = j - 1
          BY <1>1, <5>1 DEF ListIs, Chain, Once
        <5> QED
          BY <5>2
      <4> QED
        BY <4>1, <4>2
    <3>3. l = After(r, 0)
      BY <2>1 DEF After
    <3>4. \A i \in 1 .. Len(r) : next[r[i]] = After(r, i)
      <4> SUFFICES ASSUME NEW i \in 1 .. Len(r)
                   PROVE  next[r[i]] = After(r, i)
        OBVIOUS
      <4>1. After(r, i) = After(q, i - 1)
        BY <2>1, <2>3 DEF After
      <4>2. CASE i = 1
        BY <1>1, <1>6, <2>1, <4>1, <4>2 DEF ListIs, Chain
      <4>3. CASE i # 1
        BY <1>1, <2>3, <4>1, <4>3 DEF ListIs, Chain
      <4> QED
        BY <4>2, <4>3
    <3> QED
      BY <2>2, <3>2, <3>3, <3>4 DEF Chain, After, Once
  <2>6. Apart(r)'
    BY <1>1, <1>2, <1>3, <1>5, <2>2, <2>4 DEF ListIs, Apart, Popped, Push, Handling
  <2>7. \A c \in LowiplCpus : SeesAt(r, c)'
    BY <1>1, <1>3, <2>2, <2>4 DEF ListIs, SeesAt, Push, Handling
  <2> QED
    BY <1>4, <1>5, <2>1, <2>5, <2>6, <2>7 DEF CallsInv, ListIs
<1>7. CASE lowipls # next[l]
  <2>1. /\ next' = [next EXCEPT ![l] = lowipls] /\ lowipls' = lowipls /\ caller' = caller
        /\ handling' = handling /\ entry' = entry
    BY <1>7 DEF Push
  <2>2. \A m \in Structs \ {l} : next'[m] = next[m]
    BY <2>1 DEF CallsInv, Typed
  <2>3. Chain(q)'
    BY <1>1, <1>2, <2>1, <2>2, ListStays DEF ListIs
  <2>4. Apart(q)'
    BY <1>1, <1>5, <2>1, <1>3 DEF ListIs, Apart, Popped, Handling
  <2>5. \A c \in LowiplCpus : SeesAt(q, c)'
    BY <1>1, <1>3, <2>1, <2>2 DEF ListIs, SeesAt, Handling
  <2> QED
    BY <1>4, <1>5, <2>3, <2>4, <2>5 DEF CallsInv, ListIs
<1> QED
  BY <1>6, <1>7

(* Steps of a cpu that only looks. *)
LEMMA CpuLooksKeeps ==
  ASSUME CallsInv, NEW c \in LowiplCpus, Typed',
         \A d \in LowiplCpus \ {c} : handling'[d] = handling[d],
         UNCHANGED <<lowipls, next, entry, caller, called>>,
         Popped(c)' => Popped(c) /\ handling'[c].lowipl = handling[c].lowipl,
         \A q \in Seq(Structs) : ListIs(q) => SeesAt(q, c)'
  PROVE  CallsInv'
<1>1. PICK q \in Seq(Structs) : ListIs(q)
  BY DEF CallsInv
<1>2. CalledOnce' /\ \A m \in Structs : Asked(m)' <=> Asked(m)
  BY DEF CallsInv, CalledOnce, Asked
<1>3. Chain(q)'
  BY <1>1, ListStays DEF ListIs
<1>4. \A d \in LowiplCpus : Popped(d)' => Popped(d) /\ handling'[d].lowipl = handling[d].lowipl
  BY DEF Popped
<1>5. \A d \in LowiplCpus : Popped(d) => handling[d].lowipl \in Structs
  BY DEF CallsInv, Typed, Popped, Handling
<1>6. Apart(q)'
  BY <1>1, <1>2, <1>4, <1>5 DEF ListIs, Apart
<1>7. \A d \in LowiplCpus : SeesAt(q, d)'
  BY <1>1 DEF ListIs, SeesAt
<1> QED
  BY <1>2, <1>3, <1>6, <1>7 DEF CallsInv, ListIs

LEMMA InterruptKeeps ==
  ASSUME CallsInv, NEW c \in LowiplCpus, Interrupt(c)
  PROVE  CallsInv'
<1>1. handling'[c].pc = "head" /\ \A d \in LowiplCpus \ {c} : handling'[d] = handling[d]
  BY DEF Interrupt, CallsInv, Typed
<1>2. Typed'
  BY <1>1 DEF Interrupt, CallsInv, Typed, Handling
<1> QED
  BY <1>1, <1>2, CpuLooksKeeps DEF Interrupt, Popped, SeesAt

LEMMA ReadHeadKeeps ==
  ASSUME CallsInv, NEW c \in LowiplCpus, ReadHead(c)
  PROVE  CallsInv'
<1>1. /\ handling'[c].pc = IF lowipls = NULL THEN "out" ELSE "next"
      /\ handling'[c].lowipl = lowipls
      /\ \A d \in LowiplCpus \ {c} : handling'[d] = handling[d]
  BY DEF ReadHead, CallsInv, Typed
<1>2. Typed'
  <2>1. lowipls \in Links /\ NULL \in Links
    BY DEF CallsInv, Typed, Links
  <2>2. lowipls # NULL => lowipls \in Structs
    BY <2>1 DEF Links
  <2>3. handling' \in [LowiplCpus -> [pc : Handling \cup {"out", "head"}, lowipl : Links, next : Links]]
    BY <2>1 DEF ReadHead, CallsInv, Typed, Handling
  <2> QED
    BY <1>1, <2>2, <2>3 DEF ReadHead, CallsInv, Typed, Handling
<1>3. ASSUME NEW q \in Seq(Structs), ListIs(q) PROVE SeesAt(q, c)'
  <2>1. CASE lowipls = NULL
    BY <1>1, <2>1 DEF SeesAt
  <2>2. CASE lowipls # NULL
    <3>1. 1 \in 1 .. Len(q) /\ lowipls = q[1]
      BY <1>3, <2>2 DEF ListIs, Chain, After
    <3>2. Asked(q[1]) /\ caller[q[1]] = "out" /\ q[1] \in Range(q)
      BY <1>3, <3>1, ListedAreBusy DEF CallsInv
    <3> QED
      BY <1>1, <2>2, <3>1, <3>2 DEF SeesAt, ReadHead, Asked
  <2> QED
    BY <2>1, <2>2
<1>4. ~ Popped(c)'
  BY <1>1 DEF Popped
<1> QED
  BY <1>1, <1>2, <1>3, <1>4, CpuLooksKeeps DEF ReadHead

LEMMA ReadNextKeeps ==
  ASSUME CallsInv, NEW c \in LowiplCpus, ReadNext(c)
  PROVE  CallsInv'
<1>1. handling[c].pc = "next" /\ handling[c].lowipl \in Structs
  BY DEF ReadNext, CallsInv, Typed, Handling
<1>2. /\ handling'[c].pc = "pop" /\ handling'[c].lowipl = handling[c].lowipl
      /\ handling'[c].next = next[handling[c].lowipl]
      /\ \A d \in LowiplCpus \ {c} : handling'[d] = handling[d]
  BY DEF ReadNext, CallsInv, Typed
<1>3. Typed'
  <2>1. next[handling[c].lowipl] \in Links
    BY <1>1 DEF CallsInv, Typed
  <2>2. handling' \in [LowiplCpus -> [pc : Handling \cup {"out", "head"}, lowipl : Links, next : Links]]
    BY <2>1 DEF ReadNext, CallsInv, Typed, Handling
  <2> QED
    BY <1>1, <1>2, <2>2 DEF ReadNext, CallsInv, Typed, Handling
<1>4. ASSUME NEW q \in Seq(Structs), ListIs(q) PROVE SeesAt(q, c)'
  BY <1>1, <1>2, <1>4 DEF ListIs, SeesAt, ReadNext
<1>5. ~ Popped(c)'
  BY <1>2 DEF Popped
<1> QED
  BY <1>2, <1>3, <1>4, <1>5, CpuLooksKeeps DEF ReadNext

(* A cpu that goes on to another place keeps its locals.                   *)
LEMMA PlaceMoves ==
  ASSUME Typed, NEW c \in LowiplCpus, NEW p \in Handling \cup {"out", "head"},
         handling' = [handling EXCEPT ![c].pc = p],
         p \in Handling => handling[c].pc \in Handling
  PROVE  /\ handling' \in [LowiplCpus ->
                           [pc : Handling \cup {"out", "head"}, lowipl : Links, next : Links]]
         /\ \A d \in LowiplCpus : handling'[d].pc \in Handling => handling'[d].lowipl \in Structs
<1> DEFINE L == [pc : Handling \cup {"out", "head"}, lowipl : Links, next : Links]
<1>1. handling \in [LowiplCpus -> L]
  BY DEF Typed
<1>2. handling[c] \in L
  BY <1>1
<1>3. [handling[c] EXCEPT !.pc = p] \in L
  BY <1>2
<1>4. /\ handling'[c].pc = p /\ handling'[c].lowipl = handling[c].lowipl
      /\ \A d \in LowiplCpus \ {c} : handling'[d] = handling[d]
  BY <1>1, <1>2
<1>5. \A d \in LowiplCpus : handling[d].pc \in Handling => handling[d].lowipl \in Structs
  BY DEF Typed
<1>6. handling' \in [LowiplCpus -> L]
  BY <1>1, <1>3
<1> QED
  BY <1>4, <1>5, <1>6

LEMMA PokeKeeps ==
  ASSUME CallsInv, NEW c \in LowiplCpus, Poke(c)
  PROVE  CallsInv'
<1>1. /\ handling[c].pc = "poke" /\ handling'[c].pc = "call" /\ handling'[c].lowipl = handling[c].lowipl
      /\ \A d \in LowiplCpus \ {c} : handling'[d] = handling[d]
  BY DEF Poke, CallsInv, Typed
<1>2. Typed'
  <2>1. "call" \in Handling \cup {"out", "head"} /\ handling[c].pc \in Handling
    BY <1>1 DEF Handling
  <2> QED
    BY <2>1, PlaceMoves DEF Poke, CallsInv, Typed, Links
<1> QED
  BY <1>1, <1>2, CpuLooksKeeps DEF Poke, Popped, SeesAt

(* The exchange finds the struct at the head, and its next is the one read. *)
LEMMA PopKeeps ==
  ASSUME NoOvertaking, CallsInv, NEW c \in LowiplCpus, Pop(c)
  PROVE  CallsInv'
<1>1. handling[c].pc = "pop" /\ handling[c].lowipl \in Structs
  BY DEF Pop, CallsInv, Typed, Handling
<1>2. CASE lowipls # handling[c].lowipl
  <2>1. handling'[c].pc = "head" /\ \A d \in LowiplCpus \ {c} : handling'[d] = handling[d]
    BY <1>2 DEF Pop, CallsInv, Typed
  <2>2. Typed'
    <3>1. "head" \in Handling \cup {"out", "head"} /\ "head" \notin Handling
      BY DEF Handling
    <3> QED
      BY <1>2, <3>1, PlaceMoves DEF Pop, CallsInv, Typed, Links
  <2> QED
    BY <1>2, <2>1, <2>2, CpuLooksKeeps DEF Pop, Popped, SeesAt
<1>3. CASE lowipls = handling[c].lowipl
  <2>1. /\ lowipls' = handling[c].next /\ handling'[c].pc = "poke" /\ handling'[c].lowipl = handling[c].lowipl
        /\ \A d \in LowiplCpus \ {c} : handling'[d] = handling[d]
        /\ UNCHANGED <<next, entry, caller, called>>
    BY <1>3 DEF Pop, CallsInv, Typed
  <2>2. Typed'
    <3>1. "poke" \in Handling \cup {"out", "head"} /\ handling[c].pc \in Handling
      BY <1>1 DEF Handling
    <3>2. handling[c].next \in Links
      BY DEF CallsInv, Typed
    <3> QED
      BY <1>3, <3>1, <3>2, PlaceMoves DEF Pop, CallsInv, Typed, Links
  <2>3. PICK q \in Seq(Structs) : ListIs(q)
    BY DEF CallsInv
  <2> DEFINE l == handling[c].lowipl  r == Tail(q)
  <2>4. 1 \in 1 .. Len(q) /\ q[1] = l /\ Len(q) \in Nat /\ q # <<>>
    <3>1. lowipls # NULL
      BY <1>1, <1>3, CallsAssumption
    <3> QED
      BY <1>3, <2>3, <3>1 DEF ListIs, Chain, After
  <2>5. Once(q) /\ \A i \in 1 .. Len(q) : next[q[i]] = After(q, i)
    BY <2>3 DEF ListIs, Chain
  <2>6. /\ r \in Seq(Structs) /\ Len(r) = Len(q) - 1
        /\ \A i \in 1 .. Len(r) : r[i] = q[i + 1] /\ i + 1 \in 1 .. Len(q)
    BY <2>4
  <2>7. Range(r) = Range(q) \ {l}
    BY <2>4, <2>5, TailThins DEF Once
  <2>8. Asked(l) /\ caller[l] = "out" /\ l \in Range(q)
    BY <2>3, <2>4, ListedAreBusy DEF CallsInv
  <2>9. handling[c].next = After(q, 1)
    BY <1>1, <2>3, <2>4, <2>5 DEF ListIs, SeesAt
  <2> HIDE DEF l, r
  <2>10. \A i \in 0 .. Len(r) : After(r, i) = After(q, i + 1)
    BY <2>4, <2>6 DEF After
  <2>11. Chain(r)'
    <3>1. Once(r)
      <4> SUFFICES ASSUME NEW i \in 1 .. Len(r), NEW j \in 1 .. Len(r), r[i] = r[j]
                   PROVE  i = j
        BY DEF Once
      <4>1. q[i + 1] = q[j + 1] /\ i + 1 \in 1 .. Len(q) /\ j + 1 \in 1 .. Len(q)
        BY <2>6
      <4>2. i + 1 = j + 1
        BY <2>5, <4>1 DEF Once
      <4> QED
        BY <4>2
    <3>2. lowipls' = After(r, 0)
      BY <2>1, <2>4, <2>6, <2>9, <2>10
    <3>3. \A i \in 1 .. Len(r) : next[r[i]] = After(r, i)
      <4> SUFFICES ASSUME NEW i \in 1 .. Len(r)
                   PROVE  next[r[i]] = After(r, i)
        OBVIOUS
      <4>1. i \in 0 .. Len(r) /\ r[i] = q[i + 1] /\ i + 1 \in 1 .. Len(q)
        BY <2>4, <2>6
      <4> QED
        BY <2>5, <2>10, <4>1
    <3> QED
      BY <2>1, <3>1, <3>2, <3>3 DEF Chain, After, Once
  <2>12. \A m \in Structs : Asked(m)' <=> Asked(m)
    BY <2>1 DEF Asked
  <2>13. /\ Popped(c)' /\ handling'[c].lowipl = l
         /\ \A d \in LowiplCpus \ {c} : (Popped(d)' <=> Popped(d)) /\ handling'[d].lowipl = handling[d].lowipl
    BY <2>1 DEF Popped, l
  <2>14. \A d \in LowiplCpus \ {c} : Popped(d) => handling[d].lowipl \in Structs /\ handling[d].lowipl # l
    BY <2>3, <2>8 DEF CallsInv, Typed, Popped, Handling, ListIs, Apart
  <2>15. l \in Structs
    BY <1>1 DEF l
  <2>16. Apart(r)'
    BY <2>1, <2>3, <2>7, <2>8, <2>12, <2>13, <2>14, <2>15 DEF ListIs, Apart
  <2>17. \A d \in LowiplCpus : SeesAt(r, d)'
    <3> SUFFICES ASSUME NEW d \in LowiplCpus
                 PROVE  SeesAt(r, d)'
      OBVIOUS
    <3>1. CASE d = c
      BY <2>1, <3>1 DEF SeesAt
    <3>2. CASE d # c
      <4>1. MaxCalls <= 1
        BY <3>2 DEF NoOvertaking
      <4> QED
        BY <2>1, <2>3, <3>2, <4>1 DEF ListIs, SeesAt
    <3> QED
      BY <3>1, <3>2
  <2>18. CalledOnce'
    BY <2>1 DEF CallsInv, CalledOnce
  <2> QED
    BY <2>2, <2>6, <2>11, <2>16, <2>17, <2>18 DEF CallsInv, ListIs
<1> QED
  BY <1>2, <1>3

LEMMA RunKeeps ==
  ASSUME CallsInv, NEW c \in LowiplCpus, Run(c)
  PROVE  CallsInv'
<1>1. PICK q \in Seq(Structs) : ListIs(q)
  BY DEF CallsInv
<1>2. PICK l \in Structs : l = handling[c].lowipl
  BY DEF Run, CallsInv, Typed, Handling
<1>3. handling[c].pc = "call" /\ Popped(c)
  BY DEF Run, Popped
<1>4. Asked(l) /\ caller[l] = "out" /\ l \notin Range(q) /\ entry[l] \in 1 .. MaxCalls
  <2>1. Asked(l) /\ caller[l] = "out" /\ l \notin Range(q)
    BY <1>1, <1>2, <1>3 DEF ListIs, Apart
  <2> QED
    BY <2>1, CallsAssumption DEF Asked, CallsInv, Typed
<1>5. /\ handling'[c].pc = "head" /\ \A d \in LowiplCpus \ {c} : handling'[d] = handling[d]
      /\ UNCHANGED <<lowipls, next, entry, caller>>
  BY DEF Run, CallsInv, Typed
<1>6. /\ called' \in [Structs -> [1 .. MaxCalls -> Nat]]
      /\ called'[l][entry[l]] = 1
      /\ \A m \in Structs, n \in 1 .. MaxCalls :
           m # l \/ n # entry[l] => called'[m][n] = called[m][n]
  <2>1. called' = [called EXCEPT ![l] = [called[l] EXCEPT ![entry[l]] = @ + 1]]
    BY <1>2 DEF Run
  <2> DEFINE f == [called[l] EXCEPT ![entry[l]] = @ + 1]
  <2>2. /\ called \in [Structs -> [1 .. MaxCalls -> Nat]]
        /\ called[l] \in [1 .. MaxCalls -> Nat] /\ called[l][entry[l]] = 0
    BY <1>4 DEF Asked, CallsInv, Typed
  <2>3. /\ f \in [1 .. MaxCalls -> Nat] /\ f[entry[l]] = 1
        /\ \A n \in 1 .. MaxCalls : n # entry[l] => f[n] = called[l][n]
    BY <1>4, <2>2
  <2> HIDE DEF f
  <2>4. called' = [called EXCEPT ![l] = f]
    BY <2>1 DEF f
  <2>5. called'[l] = f /\ \A m \in Structs : m # l => called'[m] = called[m]
    BY <2>2, <2>4
  <2>6. called' \in [Structs -> [1 .. MaxCalls -> Nat]]
    BY <2>2, <2>3, <2>4
  <2> QED
    BY <2>3, <2>5, <2>6
<1>7. Typed'
  <2>1. handling' \in [LowiplCpus -> [pc : Handling \cup {"out", "head"}, lowipl : Links, next : Links]]
    BY DEF Run, CallsInv, Typed
  <2>2. \A d \in LowiplCpus : handling'[d].pc \in Handling => handling'[d].lowipl \in Structs
    BY <1>5 DEF CallsInv, Typed, Handling
  <2> QED
    BY <1>5, <1>6, <2>1, <2>2 DEF CallsInv, Typed
<1>8. CalledOnce'
  <2> SUFFICES ASSUME NEW m \in Structs, NEW n \in 1 .. MaxCalls
               PROVE  called'[m][n] <= IF n <= entry[m] THEN 1 ELSE 0
    BY <1>5 DEF CalledOnce
  <2>1. CASE m = l /\ n = entry[l]
    BY <1>4, <1>6, <2>1
  <2>2. CASE m # l \/ n # entry[l]
    BY <1>6, <2>2 DEF CallsInv, CalledOnce
  <2> QED
    BY <2>1, <2>2
<1>9. \A m \in Structs \ {l} : Asked(m)' <=> Asked(m)
  <2> SUFFICES ASSUME NEW m \in Structs \ {l}
               PROVE  Asked(m)' <=> Asked(m)
    OBVIOUS
  <2>1. entry[m] \in 0 .. MaxCalls /\ (entry[m] > 0 => entry[m] \in 1 .. MaxCalls)
    BY CallsAssumption DEF CallsInv, Typed
  <2> QED
    BY <1>5, <1>6, <2>1 DEF Asked
<1>10. Chain(q)'
  BY <1>1, <1>5, ListStays DEF ListIs
<1>11. \A d \in LowiplCpus : Popped(d)' => d # c /\ Popped(d) /\ handling'[d].lowipl = handling[d].lowipl
  BY <1>5 DEF Popped
<1>12. \A d \in LowiplCpus \ {c} : Popped(d) => handling[d].lowipl \in Structs \ {l}
  BY <1>1, <1>2, <1>3 DEF ListIs, Apart, CallsInv, Typed, Popped, Handling
<1>13. Apart(q)'
  BY <1>1, <1>4, <1>5, <1>9, <1>11, <1>12 DEF ListIs, Apart
<1>14. \A d \in LowiplCpus : SeesAt(q, d)'
  BY <1>1, <1>5 DEF ListIs, SeesAt
<1> QED
  BY <1>7, <1>8, <1>10, <1>13, <1>14 DEF CallsInv, ListIs

-----------------------------------------------------------------------------
LEMMA CallNextKeeps ==
  ASSUME NoOvertaking, CallsInv, [CallNext]_callVars
  PROVE  CallsInv'
<1>1. CASE \E l \in Structs : LowiplCall(l) \/ Push(l)
  BY <1>1, CallKeeps, PushKeeps
<1>2. CASE \E c \in LowiplCpus : HandleInt(c)
  BY <1>2, InterruptKeeps, ReadHeadKeeps, ReadNextKeeps, PopKeeps, PokeKeeps, RunKeeps DEF HandleInt
<1>3. CASE UNCHANGED callVars
  <2>1. PICK q \in Seq(Structs) : ListIs(q)
    BY DEF CallsInv
  <2>2. ListIs(q)'
    BY <1>3, <2>1 DEF callVars, ListIs, Chain, Apart, SeesAt, Asked, Popped
  <2>3. Typed' /\ CalledOnce'
    BY <1>3 DEF callVars, CallsInv, Typed, CalledOnce
  <2> QED
    BY <2>2, <2>3 DEF CallsInv
<1> QED
  BY <1>1, <1>2, <1>3 DEF CallNext

(* Every call of oz_knl_lowipl_call leads to one call of the routine at the *)
(* most, though the list has no lock: drivers push while a cpu pops, and a  *)
(* struct is its driver's again before its routine is called.              *)
THEOREM OnceEach ==
  ASSUME NoOvertaking
  PROVE  CallSpec => []CalledOnce
<1>1. CallInit => CallsInv
  BY CallsBegin
<1>2. CallsInv /\ [CallNext]_callVars => CallsInv'
  BY CallNextKeeps
<1>3. CallsInv => CalledOnce
  BY DEF CallsInv
<1> QED
  BY <1>1, <1>2, <1>3, PTL DEF CallSpec

(***************************************************************************)
(* HANDLES                                                                 *)
(*                                                                         *)
(* The inductive invariant says which entries are open, that is, free or   *)
(* about to be assigned, and that every handle that was ever returned is   *)
(* at most the number its entry has now, and less if that entry is open.   *)
(***************************************************************************)
-----------------------------------------------------------------------------
(* Remainders *)

LEMMA ModUnique ==
  ASSUME NEW n \in Nat \ {0}, NEW k \in Nat, NEW b \in 0 .. n - 1
  PROVE  (k * n + b) % n = b /\ (k * n + b) \div n = k
<1> DEFINE x == k * n + b  q == x \div n  r == x % n
<1>1. x \in Nat
  OBVIOUS
<1>2. q \in Int /\ r \in 0 .. n - 1 /\ x = n * q + r
  BY <1>1
<1> HIDE DEF q, r
<1>3. n * (k - q) = r - b
  BY <1>2
<1>4. k - q < 1
  <2> SUFFICES ASSUME k - q >= 1 PROVE FALSE
    BY <1>2
  <2>1. n * (k - q) >= n
    BY <1>2
  <2> QED
    BY <1>2, <1>3, <2>1
<1>5. k - q > -1
  <2> SUFFICES ASSUME k - q <= -1 PROVE FALSE
    BY <1>2
  <2>1. n * (k - q) <= -n
    BY <1>2
  <2> QED
    BY <1>2, <1>3, <2>1
<1>6. k = q
  BY <1>2, <1>4, <1>5
<1>7. r = b
  BY <1>2, <1>3, <1>6
<1> QED
  BY <1>6, <1>7 DEF q, r

LEMMA DivMod ==
  ASSUME NEW n \in Nat \ {0}, NEW h \in Nat
  PROVE  h % n \in 0 .. n - 1 /\ \E q \in Nat : h = q * n + (h % n)
<1>1. n \in Nat /\ n > 0
  OBVIOUS
<1>2. h = n * (h \div n) + (h % n)
  BY <1>1
<1>3. h \div n \in Nat
  BY <1>1
<1>4. h % n \in 0 .. n - 1
  BY <1>1
<1> DEFINE q == h \div n  r == h % n
<1>5. h = n * q + r /\ q \in Nat
  BY <1>2, <1>3
<1> HIDE DEF q, r
<1>6. h = q * n + r /\ q \in Nat
  BY <1>5
<1>7. \E p \in Nat : h = p * n + r
  BY <1>6
<1> QED
  BY <1>4, <1>7 DEF r

LEMMA ModDouble ==
  ASSUME NEW n \in Nat \ {0}, NEW h \in Nat
  PROVE  /\ h % n \in 0 .. n - 1 /\ h % (2 * n) \in 0 .. 2 * n - 1
         /\ h % (2 * n) = h % n \/ h % (2 * n) = (h % n) + n
         /\ (h % (2 * n)) % n = h % n
<1> DEFINE m == 2 * n  r == h % m
<1>1. m \in Nat \ {0} /\ m = 2 * n
  OBVIOUS
<1> HIDE DEF m
<1>2. r \in 0 .. m - 1 /\ h % n \in 0 .. n - 1
  BY <1>1
<1>3. PICK q \in Nat : h = q * m + r
  BY <1>1, DivMod
<1> HIDE DEF r
<1>4. CASE r < n
  <2>1. h = (2 * q) * n + r /\ r \in 0 .. n - 1 /\ 2 * q \in Nat
    BY <1>1, <1>2, <1>3, <1>4
  <2>2. h % n = r
    BY <2>1, ModUnique
  <2>3. r % n = r
    BY <2>1
  <2> QED
    BY <1>1, <1>2, <2>2, <2>3 DEF r, m
<1>5. CASE r >= n
  <2>1. h = (2 * q + 1) * n + (r - n) /\ r - n \in 0 .. n - 1 /\ 2 * q + 1 \in Nat
    BY <1>1, <1>2, <1>3, <1>5
  <2>2. h % n = r - n
    BY <2>1, ModUnique
  <2> DEFINE x == 1 * n + (r - n)
  <2>3. x % n = r - n
    BY <2>1, ModUnique
  <2>4. x = r
    BY <1>1, <1>2
  <2> HIDE DEF x
  <2>5. r % n = r - n
    BY <2>3, <2>4
  <2> QED
    BY <1>1, <1>2, <2>2, <2>5 DEF r, m
<1> QED
  BY <1>1, <1>2, <1>4, <1>5
-----------------------------------------------------------------------------
Indexes == 1 .. count - 1

Types == {0} \cup {ObjType[o] : o \in Objects}

Entries == [object : Objects \cup {NoHandle}, type : Types, thread : Threads \cup {NoHandle},
            reuse : Nat, refcount : Nat]

TablePlaces == {"run", "object", "rest", "putback", "exit", "gone", "copy", "count"}

TypedTable ==
  /\ count \in Nat \ {0}
  /\ ents \in [Indexes -> Entries]
  /\ free \in Seq(Indexes)
  /\ place \in [Threads -> TablePlaces]
  /\ ix \in [Threads -> Nat]
  /\ obj \in [Threads -> Objects \cup {NoHandle}]
  /\ held \in [Threads -> [handle : Nat, object : Objects \cup {NoHandle}]]
  /\ issued \subseteq [handle : Nat, object : Objects]
  /\ \A t \in Threads : place[t] \in {"exit", "copy", "count"} => ix[t] # 0

(* Entries that are free, or assigned by a thread that is not done with it. *)
Filling(t) == place[t] \in {"object", "rest"}
Open(hi) == hi \in Range(free) \/ \E t \in Threads : Filling(t) /\ ix[t] = hi
Vacant(hi) == hi \in Range(free) \/ \E t \in Threads : place[t] = "object" /\ ix[t] = hi

(* The re-use counter is a multiple of the size of the table, so that the   *)
(* number of an entry leads back to it.                                     *)
Numbered == \A hi \in Indexes : \E k \in Nat : ents[hi].reuse = k * count

(* Numbers only rise, and rise before they are handed out. *)
Meant(i) ==
  LET hi == i.handle % count IN
    /\ hi # 0
    /\ i.handle <= Number(hi)
    /\ Open(hi) => i.handle < Number(hi)
    /\ i.handle = Number(hi) => ents[hi].object = i.object

AllMeant == \A i \in issued : Meant(i)

(* Nobody but the thread that is to assign it has to do with an open entry. *)
Opened ==
  /\ \A i, j \in 1 .. Len(free) : free[i] = free[j] => i = j
  /\ \A hi \in Indexes : ents[hi].object = NoHandle <=> Vacant(hi)
  /\ \A hi \in Indexes : Open(hi) => ents[hi].refcount = 0 /\ ents[hi].thread = NoHandle
  /\ \A t \in Threads : Filling(t) => ix[t] \in Indexes \ Range(free) /\ obj[t] \in Objects
  /\ \A t \in Threads : place[t] = "rest" => ents[ix[t]].object = obj[t]
  /\ \A t, u \in Threads : Filling(t) /\ Filling(u) /\ ix[t] = ix[u] => t = u

(* The reference count of an entry is twice the number of threads that have *)
(* taken it out, and one more while it is assigned.  Whoever takes it to    *)
(* zero is alone with it.                                                   *)
Holders(n) == {t \in Threads : held[t].handle = n /\ place[t] # "putback"}

CountedHere(hi) == LET n == Cardinality(Holders(Number(hi))) IN
                 ents[hi].refcount = 2 * n \/ ents[hi].refcount = 2 * n + 1

HeldAt(t) ==
  /\ held[t].handle # 0 =>
       held[t] \in issued /\ Number(held[t].handle % count) = held[t].handle
  /\ place[t] = "putback" =>
       held[t].handle # 0 /\ ents[held[t].handle % count].refcount = 0

Holding ==
  /\ \A t \in Threads : HeldAt(t)
  /\ \A hi \in Indexes : CountedHere(hi)
  /\ \A t, u \in Threads :
       place[t] = "putback" /\ place[u] = "putback" /\ held[t].handle = held[u].handle => t = u

(* An exiting thread has no handle assigned below the entry it is at. *)
Exited ==
  /\ \A t \in Threads, hi \in Indexes :
       place[t] = "exit" /\ hi < ix[t] /\ ents[hi].thread = t => ents[hi].refcount % 2 = 0
  /\ \A hi \in Indexes : ents[hi].refcount % 2 = 1 =>
       ents[hi].thread = NoHandle \/ place[ents[hi].thread] # "gone"

TableInv == TypedTable /\ Numbered /\ AllMeant /\ Opened /\ Holding /\ Exited

-----------------------------------------------------------------------------
LEMMA NumberOf ==
  ASSUME TypedTable, Numbered, NEW hi \in Indexes
  PROVE  Number(hi) \in Nat \ {0} /\ Number(hi) % count = hi
<1>1. PICK k \in Nat : ents[hi].reuse = k * count
  BY DEF Numbered
<1>2. count \in Nat \ {0} /\ hi \in 0 .. count - 1 /\ hi # 0
  BY DEF TypedTable, Indexes
<1>3. (k * count + hi) % count = hi
  BY <1>2, ModUnique
<1>4. ents[hi].reuse \in Nat
  BY DEF TypedTable, Entries
<1> QED
  BY <1>1, <1>2, <1>3, <1>4 DEF Number

(* A handle that was returned is that of an entry. *)
LEMMA IssuedAt ==
  ASSUME TypedTable, AllMeant, NEW i \in issued
  PROVE  i.handle \in Nat \ {0} /\ i.object \in Objects /\ i.handle % count \in Indexes
<1>1. i.handle \in Nat /\ i.object \in Objects /\ count \in Nat \ {0}
  BY DEF TypedTable
<1>2. i.handle % count \in 0 .. count - 1 /\ i.handle % count # 0
  BY <1>1, DivMod DEF AllMeant, Meant
<1>3. i.handle # 0
  BY <1>1, <1>2
<1> QED
  BY <1>1, <1>2, <1>3 DEF Indexes

LEMMA NobodyHolds ==
  ASSUME Holding, NEW n \in Nat \ {0}, \A i \in issued : i.handle # n
  PROVE  Holders(n) = {} /\ Cardinality(Holders(n)) = 0
<1>1. Holders(n) = {}
  BY DEF Holding, HeldAt, Holders
<1> QED
  BY <1>1, FS_EmptySet

(* The number of an open entry has not been returned. *)
LEMMA OpenIsNew ==
  ASSUME TableInv, NEW hi \in Indexes, Open(hi)
  PROVE  /\ \A i \in issued : i.handle # Number(hi)
         /\ Holders(Number(hi)) = {}
<1>1. Number(hi) \in Nat \ {0} /\ Number(hi) % count = hi
  BY NumberOf DEF TableInv
<1>2. ASSUME NEW i \in issued, i.handle = Number(hi) PROVE FALSE
  <2>1. i.handle < Number(hi)
    BY <1>1, <1>2 DEF TableInv, AllMeant, Meant
  <2> QED
    BY <1>1, <1>2, <2>1
<1> QED
  BY <1>1, <1>2, NobodyHolds DEF TableInv

LEMMA TableBegins ==
  ASSUME TableInit
  PROVE  TableInv
<1>1. TypedTable
  BY TableAssumption DEF TableInit, TypedTable, Indexes, Entries, Types, TablePlaces, Blank
<1>2. Numbered
  <2>1. \A hi \in Indexes : ents[hi].reuse = 0 * count
    BY TableAssumption DEF TableInit, Indexes, Blank
  <2> QED
    BY <2>1 DEF Numbered
<1>3. AllMeant
  BY DEF TableInit, AllMeant
<1>4. Range(free) = Indexes /\ \A i \in 1 .. Len(free) : free[i] = i
  BY TableAssumption DEF TableInit, Indexes, Range
<1>5. Opened
  BY <1>4, TableAssumption DEF TableInit, Opened, Open, Vacant, Filling, Blank, Indexes
<1>6. Holding
  <2>1. \A t \in Threads : HeldAt(t)
    BY DEF TableInit, HeldAt
  <2>2. \A t \in Threads : place[t] = "run"
    BY DEF TableInit
  <2>3. ASSUME NEW hi \in Indexes PROVE CountedHere(hi)
    <3>1. Number(hi) # 0
      BY <1>1, <1>2, NumberOf
    <3>2. Holders(Number(hi)) = {}
      BY <3>1 DEF TableInit, Holders
    <3>3. ents[hi].refcount = 0
      BY DEF TableInit, Indexes, Blank
    <3> QED
      BY <3>2, <3>3, FS_EmptySet DEF CountedHere
  <2> QED
    BY <2>1, <2>2, <2>3 DEF Holding
<1>7. Exited
  BY DEF TableInit, Exited, Indexes, Blank
<1> QED
  BY <1>1, <1>2, <1>3, <1>5, <1>6, <1>7 DEF TableInv

-----------------------------------------------------------------------------
(* What steps that leave the size of the table alone keep *)

LEMMA MeaningsKept ==
  ASSUME TableInv, TypedTable', count' = count,
         \A hi \in Indexes :
           \/ /\ ents'[hi].reuse = ents[hi].reuse
              /\ Open(hi)' => Open(hi)
              /\ ents'[hi].object = ents[hi].object \/ Open(hi)
           \/ ents'[hi].reuse = ents[hi].reuse + count
  PROVE  Numbered' /\ \A i \in issued : Meant(i)'
<1>1. count \in Nat \ {0} /\ Indexes' = Indexes /\ \A hi \in Indexes : ents[hi].reuse \in Nat
  BY DEF TableInv, TypedTable, Indexes, Entries
<1>2. ASSUME NEW hi \in Indexes PROVE \E k \in Nat : ents'[hi].reuse = k * count
  <2>1. PICK k \in Nat : ents[hi].reuse = k * count
    BY DEF TableInv, Numbered
  <2>2. CASE ents'[hi].reuse = ents[hi].reuse
    BY <2>1, <2>2
  <2>3. CASE ents'[hi].reuse = ents[hi].reuse + count
    <3>1. ents'[hi].reuse = (k + 1) * count /\ k + 1 \in Nat
      BY <1>1, <2>1, <2>3
    <3> QED
      BY <3>1
  <2> QED
    BY <2>2, <2>3
<1>3. ASSUME NEW i \in issued PROVE Meant(i)'
  <2>1. PICK hi \in Indexes : hi = i.handle % count
    BY IssuedAt DEF TableInv
  <2>0. hi # 0 /\ i.handle \in Nat /\ hi \in Nat
    BY <1>1, IssuedAt DEF TableInv, Indexes
  <2>2. /\ i.handle <= Number(hi)
        /\ Open(hi) => i.handle < Number(hi)
        /\ i.handle = Number(hi) => ents[hi].object = i.object
    BY <2>1 DEF TableInv, AllMeant, Meant
  <2>3. Number(hi) = ents[hi].reuse + hi /\ Number(hi)' = ents'[hi].reuse + hi
    BY DEF Number
  <2> SUFFICES /\ i.handle <= Number(hi)'
               /\ Open(hi)' => i.handle < Number(hi)'
               /\ i.handle = Number(hi)' => ents'[hi].object = i.object
    BY <2>0, <2>1 DEF Meant
  <2>4. CASE /\ ents'[hi].reuse = ents[hi].reuse
             /\ Open(hi)' => Open(hi)
             /\ ents'[hi].object = ents[hi].object \/ Open(hi)
    <3>1. Number(hi)' = Number(hi) /\ Number(hi) \in Nat
      BY <1>1, <2>0, <2>3, <2>4
    <3> QED
      BY <2>0, <2>2, <2>4, <3>1
  <2>5. CASE ents'[hi].reuse = ents[hi].reuse + count
    <3>1. i.handle < Number(hi)'
      BY <1>1, <2>0, <2>2, <2>3, <2>5
    <3> QED
      BY <1>1, <2>0, <2>3, <3>1
  <2> QED
    BY <2>1, <2>4, <2>5
<1> QED
  BY <1>1, <1>2, <1>3 DEF Numbered

(* Threads that fill an entry go on doing so. *)
FillingAsBefore ==
  \A t \in Threads :
    /\ Filling(t)' <=> Filling(t)
    /\ Filling(t) => place'[t] = place[t] /\ ix'[t] = ix[t] /\ obj'[t] = obj[t]

LEMMA OpenAsBefore ==
  ASSUME free' = free, FillingAsBefore, NEW hi
  PROVE  (Open(hi)' <=> Open(hi)) /\ (Vacant(hi)' <=> Vacant(hi))
<1>1. \A t \in Threads : place'[t] = "object" <=> place[t] = "object"
  BY DEF FillingAsBefore, Filling
<1>2. \A t \in Threads : (Filling(t)' <=> Filling(t)) /\ (Filling(t) => ix'[t] = ix[t])
  BY DEF FillingAsBefore
<1>3. \A t \in Threads : place[t] = "object" => ix'[t] = ix[t]
  BY <1>2 DEF Filling
<1> QED
  BY <1>1, <1>2, <1>3 DEF Open, Vacant

(* Steps that change the reference counts and the threads of entries *)
LEMMA CountsOnly ==
  ASSUME TableInv, TypedTable', UNCHANGED <<count, free, issued>>, FillingAsBefore,
         \A hi \in Indexes :
           /\ ents'[hi].reuse = ents[hi].reuse /\ ents'[hi].object = ents[hi].object
           /\ Open(hi) => ents'[hi].refcount = 0 /\ ents'[hi].thread = NoHandle
  PROVE  Numbered' /\ AllMeant' /\ Opened' /\ Indexes' = Indexes
<1>1. Indexes' = Indexes
  BY DEF Indexes
<1>2. \A hi : (Open(hi)' <=> Open(hi)) /\ (Vacant(hi)' <=> Vacant(hi))
  BY OpenAsBefore
<1>3. Numbered' /\ AllMeant'
  BY <1>2, MeaningsKept DEF AllMeant
<1>4. \A t \in Threads : Filling(t)' => ix'[t] \in Indexes \ Range(free) /\ obj'[t] \in Objects
  BY DEF TableInv, Opened, FillingAsBefore
<1>5. \A t \in Threads : place'[t] = "rest" => ents'[ix'[t]].object = obj'[t]
  <2> SUFFICES ASSUME NEW t \in Threads, place'[t] = "rest"
               PROVE  ents'[ix'[t]].object = obj'[t]
    OBVIOUS
  <2>1. Filling(t) /\ place[t] = "rest" /\ ix'[t] = ix[t] /\ obj'[t] = obj[t]
    BY DEF FillingAsBefore, Filling
  <2> QED
    BY <2>1 DEF TableInv, Opened
<1>6. \A t, u \in Threads : Filling(t)' /\ Filling(u)' /\ ix'[t] = ix'[u] => t = u
  BY DEF TableInv, Opened, FillingAsBefore
<1>7. \A hi \in Indexes : ents'[hi].object = NoHandle <=> Vacant(hi)'
  BY <1>2 DEF TableInv, Opened
<1>8. \A hi \in Indexes : Open(hi)' => ents'[hi].refcount = 0 /\ ents'[hi].thread = NoHandle
  BY <1>2
<1>9. \A i, j \in 1 .. Len(free') : free'[i] = free'[j] => i = j
  BY DEF TableInv, Opened
<1> QED
  BY <1>1, <1>3, <1>4, <1>5, <1>6, <1>7, <1>8, <1>9 DEF Opened

-----------------------------------------------------------------------------
(* Steps outside the table *)

LEMMA LooksKeeps ==
  ASSUME TableInv, TypedTable', UNCHANGED <<entVars, held, issued>>,
         \A t \in Threads :
           \/ place'[t] = place[t] /\ ix'[t] = ix[t] /\ obj'[t] = obj[t]
           \/ {place[t], place'[t]} \subseteq {"run", "copy", "count"}
           \/ place[t] = "run" /\ place'[t] = "exit" /\ ix'[t] = 1
  PROVE  TableInv'
<1>1. FillingAsBefore
  BY DEF FillingAsBefore, Filling
<1>2. UNCHANGED <<count, ents, free>> /\ \A hi \in Indexes : Number(hi)' = Number(hi)
  BY DEF entVars, Number
<1>3. Numbered' /\ AllMeant' /\ Opened' /\ Indexes' = Indexes
  BY <1>1, <1>2, CountsOnly DEF TableInv, Opened
<1>4. \A t \in Threads : place'[t] = "putback" <=> place[t] = "putback"
  OBVIOUS
<1>5. Holding'
  <2>1. \A n : Holders(n)' = Holders(n)
    BY <1>4 DEF Holders
  <2>2. \A hi \in Indexes : Holders(Number(hi))' = Holders(Number(hi))
    BY <1>2, <1>4 DEF Holders, Number
  <2>3. \A hi \in Indexes : CountedHere(hi)'
    BY <1>2, <2>2 DEF TableInv, Holding, CountedHere
  <2>4. \A t \in Threads : HeldAt(t)'
    BY <1>2, <1>4 DEF TableInv, Holding, HeldAt, Number
  <2> QED
    BY <1>3, <1>4, <2>3, <2>4 DEF TableInv, Holding
<1>6. Exited'
  <2>1. \A t \in Threads : place'[t] = "gone" <=> place[t] = "gone"
    OBVIOUS
  <2>2. \A hi \in Indexes : ents[hi].thread \in Threads \cup {NoHandle}
    BY DEF TableInv, TypedTable, Entries
  <2>3. \A hi \in Indexes : ~(hi < 1)
    BY DEF Indexes
  <2>4. ASSUME NEW t \in Threads, NEW hi \in Indexes,
               place'[t] = "exit", hi < ix'[t], ents[hi].thread = t
        PROVE  ents[hi].refcount % 2 = 0
    BY <2>3, <2>4 DEF TableInv, Exited
  <2> QED
    BY <1>2, <1>3, <2>1, <2>2, <2>4 DEF TableInv, Exited
<1> QED
  BY <1>3, <1>5, <1>6 DEF TableInv

LEMMA AsideKeeps ==
  ASSUME TableInv, NEW t \in Threads,
         Exit(t) \/ List(t) \/ StatsCopy(t) \/ StatsCount(t) \/ StatsFree(t)
  PROVE  TableInv'
<1>1. UNCHANGED <<entVars, held, issued>>
  BY DEF Exit, List, StatsCopy, StatsCount, StatsFree
<1>2. \A u \in Threads :
        \/ place'[u] = place[u] /\ ix'[u] = ix[u] /\ obj'[u] = obj[u]
        \/ {place[u], place'[u]} \subseteq {"run", "copy", "count"}
        \/ place[u] = "run" /\ place'[u] = "exit" /\ ix'[u] = 1
  BY DEF Exit, List, StatsCopy, StatsCount, StatsFree, TableInv, TypedTable
<1>3. TypedTable'
  <2>1. UNCHANGED <<count, ents, free, held, issued>> /\ Indexes' = Indexes
    BY <1>1 DEF entVars, Indexes
  <2>2. place' \in [Threads -> TablePlaces]
    BY DEF Exit, List, StatsCopy, StatsCount, StatsFree, TableInv, TypedTable, TablePlaces
  <2>3. ix' \in [Threads -> Nat]
    <3>1. ix \in [Threads -> Nat]
      BY DEF TableInv, TypedTable
    <3> QED
      BY <3>1 DEF Exit, List, StatsCopy, StatsCount, StatsFree
  <2>4. obj' \in [Threads -> Objects \cup {NoHandle}]
    <3>1. CASE Exit(t) \/ List(t) \/ StatsCount(t) \/ StatsFree(t)
      BY <3>1 DEF Exit, List, StatsCount, StatsFree, TableInv, TypedTable
    <3>2. CASE StatsCopy(t)
      <4>1. CASE ix[t] < count - 1
        <5>1. ix[t] \in Indexes
          BY <3>2, <4>1 DEF StatsCopy, TableInv, TypedTable, Indexes
        <5> QED
          BY <3>2, <4>1, <5>1 DEF StatsCopy, TableInv, TypedTable, Entries
      <4>2. CASE ix[t] >= count - 1
        BY <3>2, <4>2 DEF StatsCopy, TableInv, TypedTable
      <4> QED
        BY <3>2, <4>1, <4>2 DEF StatsCopy
    <3> QED
      BY <3>1, <3>2
  <2>5. \A u \in Threads : place'[u] \in {"exit", "copy", "count"} => ix'[u] # 0
    BY DEF Exit, List, StatsCopy, StatsCount, StatsFree, TableInv, TypedTable
  <2> QED
    BY <2>1, <2>2, <2>3, <2>4, <2>5 DEF TableInv, TypedTable, Entries, Types
<1> QED
  BY <1>1, <1>2, <1>3, LooksKeeps

LEMMA AsideStays ==
  ASSUME TableInv, UNCHANGED <<entVars, place, ix, obj, held, issued>>
  PROVE  TableInv'
<1>1. TypedTable'
  BY DEF TableInv, TypedTable, entVars, Indexes, Entries, Types
<1> QED
  BY <1>1, LooksKeeps

-----------------------------------------------------------------------------
(* Steps on an entry *)

(* What is found is an assigned entry. *)
LEMMA FoundIsAssigned ==
  ASSUME TableInv, NEW h \in Handle, Found(h)
  PROVE  /\ h % count \in Indexes /\ Number(h % count) = h /\ h \in Nat \ {0}
         /\ ~Open(h % count)
         /\ [handle |-> h, object |-> ents[h % count].object] \in issued
         /\ ents[h % count].refcount = 2 * Cardinality(Holders(h)) + 1
<1>1. PICK i \in issued : i.handle = h
  BY DEF Handle
<1>2. h % count \in Indexes /\ h \in Nat \ {0}
  BY <1>1, IssuedAt DEF TableInv
<1>3. Number(h % count) = h
  BY DEF Found
<1>4. ~Open(h % count)
  BY <1>1, <1>2, <1>3, OpenIsNew
<1>5. ents[h % count].object = i.object
  BY <1>1, <1>3 DEF TableInv, AllMeant, Meant
<1>6. i = [handle |-> h, object |-> ents[h % count].object]
  BY <1>1, <1>5 DEF TableInv, TypedTable
<1>7. ents[h % count].refcount = 2 * Cardinality(Holders(h)) + 1
  <2>1. CountedHere(h % count)
    BY <1>2 DEF TableInv, Holding
  <2>2. IsFiniteSet(Holders(h))
    BY TableAssumption, FS_Subset DEF Holders
  <2>3. Cardinality(Holders(h)) \in Nat
    BY <2>2, FS_CardinalityType
  <2>4. ents[h % count].refcount % 2 = 1
    BY DEF Found
  <2>5. ents[h % count].refcount \in {2 * Cardinality(Holders(h)), 2 * Cardinality(Holders(h)) + 1}
    BY <1>3, <2>1 DEF CountedHere
  <2> QED
    BY <2>3, <2>4, <2>5
<1> QED
  BY <1>1, <1>2, <1>3, <1>4, <1>6, <1>7

(* An entry whose handle somebody holds *)
LEMMA HeldIsAssigned ==
  ASSUME TableInv, NEW t \in Threads, held[t].handle # 0
  PROVE  LET n == held[t].handle IN
         /\ n \in Nat \ {0} /\ n % count \in Indexes /\ Number(n % count) = n /\ ~Open(n % count)
         /\ ents[n % count].object = held[t].object
<1>1. held[t] \in issued /\ Number(held[t].handle % count) = held[t].handle
  BY DEF TableInv, Holding, HeldAt
<1>2. held[t].handle \in Nat \ {0} /\ held[t].handle % count \in Indexes
  BY <1>1, IssuedAt DEF TableInv
<1>3. ~Open(held[t].handle % count)
  BY <1>1, <1>2, OpenIsNew
<1>4. ents[held[t].handle % count].object = held[t].object
  BY <1>1 DEF TableInv, AllMeant, Meant
<1> QED
  BY <1>1, <1>2, <1>3, <1>4

LEMMA HoldersFinite ==
  ASSUME NEW n
  PROVE  IsFiniteSet(Holders(n)) /\ Cardinality(Holders(n)) \in Nat
<1>1. IsFiniteSet(Holders(n))
  BY TableAssumption, FS_Subset DEF Holders
<1> QED
  BY <1>1, FS_CardinalityType

LEMMA TakeoutKeeps ==
  ASSUME TableInv, NEW t \in Threads, NEW h \in Handle, Takeout(t, h)
  PROVE  TableInv'
<1> DEFINE hi == h % count
<1>1. /\ hi \in Indexes /\ Number(hi) = h /\ h \in Nat \ {0} /\ ~Open(hi)
      /\ [handle |-> h, object |-> ents[hi].object] \in issued
      /\ ents[hi].refcount = 2 * Cardinality(Holders(h)) + 1
  BY FoundIsAssigned DEF Takeout
<1>2. /\ UNCHANGED <<count, free, place, ix, obj, issued>>
      /\ ents' = [ents EXCEPT ![hi].refcount = @ + 2]
      /\ held' = [held EXCEPT ![t] = [handle |-> h, object |-> ents[hi].object]]
      /\ place[t] = "run" /\ held[t].handle = 0
  BY DEF Takeout
<1> HIDE DEF hi
<1>3. TypedTable'
  <2>1. ents[hi] \in Entries /\ Indexes' = Indexes
    BY <1>1, <1>2 DEF TableInv, TypedTable, Indexes
  <2>2. ents' \in [Indexes -> Entries]
    <3>1. [ents[hi] EXCEPT !.refcount = @ + 2] \in Entries
      BY <2>1 DEF Entries
    <3> QED
      BY <1>1, <1>2, <3>1 DEF TableInv, TypedTable
  <2>3. held' \in [Threads -> [handle : Nat, object : Objects \cup {NoHandle}]]
    BY <1>1, <1>2, <2>1 DEF TableInv, TypedTable, Entries
  <2> QED
    BY <1>2, <2>1, <2>2, <2>3 DEF TableInv, TypedTable, Entries, Types
<1>4. /\ \A j \in Indexes : /\ ents'[j].reuse = ents[j].reuse /\ ents'[j].object = ents[j].object
                            /\ ents'[j].thread = ents[j].thread
      /\ \A j \in Indexes \ {hi} : ents'[j] = ents[j]
      /\ ents'[hi].refcount = ents[hi].refcount + 2
  BY <1>1, <1>2 DEF TableInv, TypedTable, Entries
<1>5. FillingAsBefore
  BY <1>2 DEF FillingAsBefore, Filling
<1>6. Numbered' /\ AllMeant' /\ Opened' /\ Indexes' = Indexes
  <2>1. \A j \in Indexes : Open(j) => ents'[j].refcount = 0 /\ ents'[j].thread = NoHandle
    BY <1>1, <1>4 DEF TableInv, Opened
  <2> QED
    BY <1>2, <1>3, <1>4, <1>5, <2>1, CountsOnly
<1>7. \A j \in Indexes : Number(j)' = Number(j) /\ Number(j) % count = j
  BY <1>4, NumberOf DEF Number, TableInv
<1>8. Holding'
  <2>1. \A u \in Threads \ {t} : held'[u] = held[u]
    BY <1>2 DEF TableInv, TypedTable
  <2>2. held'[t] = [handle |-> h, object |-> ents[hi].object]
    BY <1>2 DEF TableInv, TypedTable
  <2>3. ASSUME NEW u \in Threads PROVE HeldAt(u)'
    <3>1. CASE u = t
      BY <1>1, <1>2, <1>7, <2>2, <3>1 DEF HeldAt, hi
    <3>2. CASE u # t
      <4>1. HeldAt(u) /\ held'[u] = held[u]
        BY <2>1, <3>2 DEF TableInv, Holding
      <4>2. held[u].handle # 0 => held[u].handle % count \in Indexes
        BY HeldIsAssigned
      <4>3. place[u] = "putback" => held[u].handle % count # hi
        <5>1. ents[hi].refcount # 0
          BY <1>1, HoldersFinite
        <5> QED
          BY <4>1, <5>1 DEF HeldAt
      <4> QED
        BY <1>2, <1>4, <1>7, <4>1, <4>2, <4>3 DEF HeldAt
    <3> QED
      BY <3>1, <3>2
  <2>4. ASSUME NEW j \in Indexes PROVE CountedHere(j)'
    <3>1. CountedHere(j)
      BY DEF TableInv, Holding
    <3>2. CASE j = hi
      <4>1. Holders(Number(j))' = Holders(h) \cup {t}
        BY <1>1, <1>2, <1>7, <2>1, <2>2, <3>2 DEF Holders
      <4>2. t \notin Holders(h)
        BY <1>1, <1>2 DEF Holders
      <4>3. Cardinality(Holders(Number(j)))' = Cardinality(Holders(h)) + 1
        BY <4>1, <4>2, HoldersFinite, FS_AddElement
      <4> QED
        BY <1>1, <1>4, <3>2, <4>3, HoldersFinite DEF CountedHere
    <3>3. CASE j # hi
      <4>1. Number(j) # h /\ Number(j) # 0
        BY <1>7, <1>1, <3>3, NumberOf DEF TableInv
      <4>2. Holders(Number(j))' = Holders(Number(j))
        BY <1>2, <1>7, <2>1, <2>2, <4>1 DEF Holders
      <4> QED
        BY <1>4, <3>1, <3>3, <4>2 DEF CountedHere
    <3> QED
      BY <3>2, <3>3
  <2> QED
    BY <1>2, <1>6, <2>1, <2>3, <2>4 DEF TableInv, Holding
<1>9. Exited'
  <2>1. ents[hi].refcount % 2 = 1 /\ ents[hi].refcount \in Nat
    BY <1>1 DEF Takeout, Found, hi, TableInv, TypedTable, Entries
  <2>2. \A j \in Indexes : ents'[j].refcount % 2 = ents[j].refcount % 2
    BY <1>4, <2>1
  <2> QED
    BY <1>2, <1>4, <1>6, <2>2 DEF TableInv, Exited
<1> QED
  BY <1>3, <1>6, <1>8, <1>9 DEF TableInv

(* Whoever puts an entry back is one of its holders. *)
LEMMA HolderCounts ==
  ASSUME TableInv, NEW t \in Threads, held[t].handle # 0, place[t] # "putback"
  PROVE  LET n == held[t].handle IN
         /\ t \in Holders(n) /\ Cardinality(Holders(n)) \in Nat \ {0}
         /\ \/ ents[n % count].refcount = 2 * Cardinality(Holders(n))
            \/ ents[n % count].refcount = 2 * Cardinality(Holders(n)) + 1
         /\ Cardinality(Holders(n) \ {t}) = Cardinality(Holders(n)) - 1
<1> DEFINE n == held[t].handle
<1>1. t \in Holders(n)
  BY DEF Holders
<1>2. n % count \in Indexes /\ Number(n % count) = n
  BY HeldIsAssigned
<1>3. CountedHere(n % count)
  BY <1>2 DEF TableInv, Holding
<1> HIDE DEF n
<1>4. IsFiniteSet(Holders(n)) /\ Cardinality(Holders(n)) \in Nat
  BY HoldersFinite
<1>5. Cardinality(Holders(n)) # 0
  BY <1>1, <1>4, FS_EmptySet
<1>6. Cardinality(Holders(n) \ {t}) = Cardinality(Holders(n)) - 1
  BY <1>1, <1>4, FS_RemoveElement
<1> QED
  BY <1>1, <1>2, <1>3, <1>4, <1>5, <1>6 DEF n, CountedHere

LEMMA PutbackKeeps ==
  ASSUME TableInv, NEW t \in Threads, Putback(t)
  PROVE  TableInv'
<1> DEFINE n == held[t].handle  hi == n % count
<1>1. /\ n \in Nat \ {0} /\ hi \in Indexes /\ Number(hi) = n /\ ~Open(hi)
      /\ t \in Holders(n) /\ Cardinality(Holders(n)) \in Nat \ {0}
      /\ \/ ents[hi].refcount = 2 * Cardinality(Holders(n))
         \/ ents[hi].refcount = 2 * Cardinality(Holders(n)) + 1
      /\ Cardinality(Holders(n) \ {t}) = Cardinality(Holders(n)) - 1
  <2>1. held[t].handle # 0 /\ place[t] # "putback"
    BY DEF Putback
  <2> QED
    BY <2>1, HeldIsAssigned, HolderCounts
<1>2. /\ UNCHANGED <<count, free, ix, obj, issued>>
      /\ ents' = [ents EXCEPT ![hi].refcount = @ - 2]
      /\ place[t] = "run" /\ held[t].handle # 0
      /\ place' = [place EXCEPT ![t] = IF ents[hi].refcount = 2 THEN "putback" ELSE "run"]
      /\ held' = IF ents[hi].refcount = 2 THEN held
                 ELSE [held EXCEPT ![t] = [handle |-> 0, object |-> NoHandle]]
  BY DEF Putback
<1>3. /\ \A u \in Threads \ {t} : place'[u] = place[u] /\ held'[u] = held[u]
      /\ \/ ents[hi].refcount = 2 /\ place'[t] = "putback" /\ held'[t] = held[t]
         \/ ents[hi].refcount # 2 /\ place'[t] = "run" /\ held'[t].handle = 0
  BY <1>2 DEF TableInv, TypedTable
<1>4. ents[hi].refcount \in Nat /\ ents[hi].refcount >= 2
  BY <1>1 DEF TableInv, TypedTable, Entries
<1>5. n = held[t].handle /\ hi = n % count
  OBVIOUS
<1> HIDE DEF n, hi
<1>6. TypedTable'
  <2>1. ents[hi] \in Entries /\ Indexes' = Indexes
    BY <1>1, <1>2 DEF TableInv, TypedTable, Indexes
  <2>2. ents' \in [Indexes -> Entries]
    <3>1. [ents[hi] EXCEPT !.refcount = @ - 2] \in Entries
      BY <1>4, <2>1 DEF Entries
    <3> QED
      BY <1>1, <1>2, <3>1 DEF TableInv, TypedTable
  <2>3. held' \in [Threads -> [handle : Nat, object : Objects \cup {NoHandle}]]
    BY <1>2 DEF TableInv, TypedTable
  <2>4. place' \in [Threads -> TablePlaces]
    BY <1>2 DEF TableInv, TypedTable, TablePlaces
  <2>5. \A u \in Threads : place'[u] \in {"exit", "copy", "count"} => ix'[u] # 0
    BY <1>2, <1>3 DEF TableInv, TypedTable
  <2> QED
    BY <1>2, <2>1, <2>2, <2>3, <2>4, <2>5 DEF TableInv, TypedTable, Entries, Types
<1>7. /\ \A j \in Indexes : /\ ents'[j].reuse = ents[j].reuse /\ ents'[j].object = ents[j].object
                            /\ ents'[j].thread = ents[j].thread
      /\ \A j \in Indexes \ {hi} : ents'[j] = ents[j]
      /\ ents'[hi].refcount = ents[hi].refcount - 2
  BY <1>1, <1>2 DEF TableInv, TypedTable, Entries
<1>8. FillingAsBefore
  BY <1>2, <1>3 DEF FillingAsBefore, Filling
<1>9. Numbered' /\ AllMeant' /\ Opened' /\ Indexes' = Indexes
  <2>1. \A j \in Indexes : Open(j) => ents'[j].refcount = 0 /\ ents'[j].thread = NoHandle
    BY <1>1, <1>7 DEF TableInv, Opened
  <2> QED
    BY <1>2, <1>6, <1>7, <1>8, <2>1, CountsOnly
<1>10. \A j \in Indexes : Number(j)' = Number(j) /\ Number(j) % count = j
  BY <1>7, NumberOf DEF Number, TableInv
<1>11. \A u \in Threads : place[u] = "putback" => held[u].handle # n
  BY <1>4, <1>5 DEF TableInv, Holding, HeldAt
<1>12. Holding'
  <2>1. ASSUME NEW u \in Threads PROVE HeldAt(u)'
    <3>1. HeldAt(u)
      BY DEF TableInv, Holding
    <3>2. held[u].handle # 0 => held[u].handle % count \in Indexes
      BY HeldIsAssigned
    <3>3. CASE u = t
      <4>1. CASE place'[t] = "run" /\ held'[t].handle = 0
        BY <3>3, <4>1 DEF HeldAt
      <4>2. CASE ents[hi].refcount = 2 /\ held'[t] = held[t]
        <5>1. /\ ents'[hi].refcount = 0 /\ held'[t].handle = n /\ n # 0
              /\ ents'[hi].reuse + hi = n /\ n % count = hi
          BY <1>1, <1>5, <1>7, <4>2 DEF Number
        <5>2. held'[t] \in issued'
          BY <1>2, <3>1, <3>3, <4>2 DEF HeldAt
        <5> QED
          BY <1>2, <3>3, <5>1, <5>2 DEF HeldAt, Number
      <4> QED
        BY <1>3, <4>1, <4>2
    <3>4. CASE u # t
      <4>1. place[u] = "putback" => held[u].handle % count # hi
        BY <1>1, <1>11, <3>1 DEF HeldAt
      <4> QED
        BY <1>2, <1>3, <1>7, <1>10, <3>1, <3>2, <3>4, <4>1 DEF HeldAt
    <3> QED
      BY <3>3, <3>4
  <2>2. ASSUME NEW j \in Indexes PROVE CountedHere(j)'
    <3>1. CountedHere(j)
      BY DEF TableInv, Holding
    <3>2. CASE j = hi
      <4>1. Holders(Number(j))' = Holders(n) \ {t}
        BY <1>1, <1>3, <1>5, <1>10, <3>2 DEF Holders
      <4>2. Cardinality(Holders(Number(j)))' = Cardinality(Holders(n)) - 1
        BY <1>1, <4>1
      <4> QED
        BY <1>1, <1>4, <1>7, <3>2, <4>2 DEF CountedHere
    <3>3. CASE j # hi
      <4>1. Number(j) # n /\ Number(j) # 0
        BY <1>5, <1>10, <3>3, NumberOf DEF TableInv
      <4>2. Holders(Number(j))' = Holders(Number(j))
        BY <1>3, <1>5, <1>10, <4>1 DEF Holders
      <4> QED
        BY <1>7, <3>1, <3>3, <4>2 DEF CountedHere
    <3> QED
      BY <3>2, <3>3
  <2>3. ASSUME NEW u \in Threads, NEW v \in Threads,
               place'[u] = "putback", place'[v] = "putback", held'[u].handle = held'[v].handle
        PROVE  u = v
    BY <1>3, <1>5, <1>11, <2>3 DEF TableInv, Holding
  <2> QED
    BY <1>9, <2>1, <2>2, <2>3 DEF Holding
<1>13. Exited'
  <2>1. \A j \in Indexes : ents'[j].refcount % 2 = ents[j].refcount % 2
    BY <1>4, <1>7
  <2>2. \A u \in Threads : /\ place'[u] = "exit" <=> place[u] = "exit"
                           /\ place'[u] = "gone" <=> place[u] = "gone"
    BY <1>2, <1>3
  <2>3. \A j \in Indexes : ents[j].thread \in Threads \cup {NoHandle}
    BY DEF TableInv, TypedTable, Entries
  <2> QED
    BY <1>2, <1>7, <1>9, <2>1, <2>2, <2>3 DEF TableInv, Exited
<1> QED
  BY <1>6, <1>9, <1>12, <1>13 DEF TableInv

(* The assigned bits of some entries are cleared, or their threads. *)
LEMMA BitsKeeps ==
  ASSUME TableInv, UNCHANGED <<count, free, obj, held, issued>>, TypedTable',
         FillingAsBefore,
         \A u \in Threads : place'[u] = "putback" <=> place[u] = "putback",
         \A hi \in Indexes :
           /\ ents'[hi].reuse = ents[hi].reuse /\ ents'[hi].object = ents[hi].object
           /\ ents'[hi].thread \in {ents[hi].thread, NoHandle}
           /\ \/ ents'[hi].refcount = ents[hi].refcount
              \/ ents'[hi].refcount = 2 * (ents[hi].refcount \div 2)
  PROVE  Numbered' /\ AllMeant' /\ Opened' /\ Holding' /\ Indexes' = Indexes
<1>1. \A hi \in Indexes : ents[hi].refcount \in Nat
  BY DEF TableInv, TypedTable, Entries
<1>2. Numbered' /\ AllMeant' /\ Opened' /\ Indexes' = Indexes
  <2>1. \A j \in Indexes : Open(j) => ents'[j].refcount = 0 /\ ents'[j].thread = NoHandle
    BY DEF TableInv, Opened
  <2> QED
    BY <2>1, CountsOnly
<1>3. \A hi \in Indexes : Number(hi)' = Number(hi)
  BY DEF Number
<1>4. \A hi \in Indexes : CountedHere(hi)'
  <2> SUFFICES ASSUME NEW hi \in Indexes
               PROVE  CountedHere(hi)'
    OBVIOUS
  <2>1. Holders(Number(hi))' = Holders(Number(hi))
    BY <1>3 DEF Holders
  <2>2. CountedHere(hi)
    BY DEF TableInv, Holding
  <2>3. PICK n \in Nat : n = Cardinality(Holders(Number(hi)))
    BY HoldersFinite
  <2>4. ents[hi].refcount = 2 * n \/ ents[hi].refcount = 2 * n + 1
    BY <2>2, <2>3 DEF CountedHere
  <2>5. ents'[hi].refcount = 2 * n \/ ents'[hi].refcount = 2 * n + 1
    BY <2>3, <2>4
  <2> QED
    BY <2>1, <2>3, <2>5 DEF CountedHere
<1>5. \A t \in Threads : HeldAt(t)'
  <2> SUFFICES ASSUME NEW t \in Threads
               PROVE  HeldAt(t)'
    OBVIOUS
  <2>1. HeldAt(t)
    BY DEF TableInv, Holding
  <2>2. held[t].handle # 0 => held[t].handle % count \in Indexes
    BY HeldIsAssigned
  <2> QED
    BY <1>3, <2>1, <2>2 DEF HeldAt
<1> QED
  BY <1>2, <1>4, <1>5 DEF TableInv, Holding

LEMMA SetThreadKeeps ==
  ASSUME TableInv, NEW t \in Threads, NEW h \in Handle, SetThread(t, h)
  PROVE  TableInv'
<1> DEFINE hi == h % count
<1>1. hi \in Indexes
  BY FoundIsAssigned DEF SetThread
<1>2. /\ UNCHANGED <<count, free, place, ix, obj, held, issued>>
      /\ ents' = [ents EXCEPT ![hi].thread = NoHandle]
  BY DEF SetThread
<1> HIDE DEF hi
<1>3. TypedTable'
  <2>1. ents[hi] \in Entries /\ Indexes' = Indexes
    BY <1>1, <1>2 DEF TableInv, TypedTable, Indexes
  <2>2. ents' \in [Indexes -> Entries]
    <3>1. [ents[hi] EXCEPT !.thread = NoHandle] \in Entries
      BY <2>1 DEF Entries
    <3> QED
      BY <1>1, <1>2, <3>1 DEF TableInv, TypedTable
  <2> QED
    BY <1>2, <2>1, <2>2 DEF TableInv, TypedTable, Entries, Types
<1>4. /\ \A j \in Indexes : /\ ents'[j].reuse = ents[j].reuse /\ ents'[j].object = ents[j].object
                            /\ ents'[j].refcount = ents[j].refcount
                            /\ ents'[j].thread \in {ents[j].thread, NoHandle}
  BY <1>1, <1>2 DEF TableInv, TypedTable, Entries
<1>5. Numbered' /\ AllMeant' /\ Opened' /\ Holding' /\ Indexes' = Indexes
  BY <1>2, <1>3, <1>4, BitsKeeps DEF FillingAsBefore, Filling
<1>6. Exited'
  BY <1>2, <1>4, <1>5, TableAssumption DEF TableInv, Exited
<1> QED
  BY <1>3, <1>5, <1>6 DEF TableInv

(* The handle of an entry that is still taken out is released. *)
LEMMA ReleaseInUseKeeps ==
  ASSUME TableInv, NEW t \in Threads, NEW h \in Handle, Release(t, h),
         ents[h % count].refcount # 1
  PROVE  TableInv'
<1> DEFINE hi == h % count
<1>1. hi \in Indexes /\ ents[hi].refcount = 2 * Cardinality(Holders(h)) + 1
  BY FoundIsAssigned DEF Release
<1>2. /\ UNCHANGED <<count, free, place, ix, obj, held, issued>>
      /\ ents' = [ents EXCEPT ![hi].refcount = @ - 1]
  BY DEF Release
<1> HIDE DEF hi
<1>3. ents[hi].refcount \in Nat /\ ents[hi].refcount - 1 = 2 * (ents[hi].refcount \div 2)
      /\ (ents[hi].refcount - 1) % 2 = 0 /\ ents[hi].refcount - 1 \in Nat
  <2>1. PICK n \in Nat : n = Cardinality(Holders(h))
    BY HoldersFinite
  <2>2. ents[hi].refcount = 2 * n + 1
    BY <1>1, <2>1
  <2> QED
    BY <2>2
<1>4. TypedTable'
  <2>1. ents[hi] \in Entries /\ Indexes' = Indexes
    BY <1>1, <1>2 DEF TableInv, TypedTable, Indexes
  <2>2. ents' \in [Indexes -> Entries]
    <3>1. [ents[hi] EXCEPT !.refcount = @ - 1] \in Entries
      BY <1>3, <2>1 DEF Entries
    <3> QED
      BY <1>1, <1>2, <3>1 DEF TableInv, TypedTable
  <2> QED
    BY <1>2, <2>1, <2>2 DEF TableInv, TypedTable, Entries, Types
<1>5. /\ \A j \in Indexes : /\ ents'[j].reuse = ents[j].reuse /\ ents'[j].object = ents[j].object
                            /\ ents'[j].thread = ents[j].thread
      /\ \A j \in Indexes \ {hi} : ents'[j] = ents[j]
      /\ ents'[hi].refcount = ents[hi].refcount - 1
  BY <1>1, <1>2 DEF TableInv, TypedTable, Entries
<1>6. Numbered' /\ AllMeant' /\ Opened' /\ Holding' /\ Indexes' = Indexes
  <2>1. \A j \in Indexes : \/ ents'[j].refcount = ents[j].refcount
                           \/ ents'[j].refcount = 2 * (ents[j].refcount \div 2)
    BY <1>3, <1>5
  <2> QED
    BY <1>2, <1>4, <1>5, <2>1, BitsKeeps DEF FillingAsBefore, Filling
<1>7. Exited'
  <2>1. \A j \in Indexes : ents'[j].refcount = ents[j].refcount \/ ents'[j].refcount % 2 = 0
    BY <1>3, <1>5
  <2>2. \A j \in Indexes : ents[j].refcount % 2 = 0 => ents'[j].refcount % 2 = 0
    BY <2>1
  <2>3. \A j \in Indexes : ents'[j].refcount % 2 = 1 => ents[j].refcount % 2 = 1
    BY <2>1
  <2> QED
    BY <1>2, <1>5, <1>6, <2>2, <2>3 DEF TableInv, Exited
<1> QED
  BY <1>4, <1>6, <1>7 DEF TableInv

-----------------------------------------------------------------------------
(* Steps that free an entry *)

LEMMA UnusedEntry ==
  ASSUME TableInv, NEW hi \in Indexes, ents[hi].refcount \in {0, 1}
  PROVE  Holders(Number(hi)) = {}
<1>1. CountedHere(hi)
  BY DEF TableInv, Holding
<1>2. IsFiniteSet(Holders(Number(hi))) /\ Cardinality(Holders(Number(hi))) \in Nat
  BY HoldersFinite
<1>3. Cardinality(Holders(Number(hi))) = 0
  BY <1>1, <1>2 DEF CountedHere
<1> QED
  BY <1>2, <1>3, FS_EmptySet

(* An entry that nobody holds is freed, by free_handle, and perhaps the bits *)
(* of others are cleared.                                                   *)
LEMMA FreeKeeps ==
  ASSUME TableInv, TypedTable', NEW f \in Indexes, ~Open(f), Holders(Number(f)) = {},
         UNCHANGED <<count, issued>>, free' = Append(free, f), ents'[f] = Freed(f),
         \A hi \in Indexes \ {f} :
           /\ ents'[hi].reuse = ents[hi].reuse /\ ents'[hi].object = ents[hi].object
           /\ ents'[hi].thread = ents[hi].thread
           /\ \/ ents'[hi].refcount = ents[hi].refcount
              \/ ents'[hi].refcount = 2 * (ents[hi].refcount \div 2),
         FillingAsBefore,
         \A u \in Threads :
           \/ /\ held'[u] = held[u] /\ (place'[u] = "putback" <=> place[u] = "putback")
              /\ place[u] = "putback" => held[u].handle # Number(f)
           \/ /\ place'[u] = "run" /\ held'[u].handle = 0
              /\ place[u] = "putback" /\ held[u].handle = Number(f)
  PROVE  Numbered' /\ AllMeant' /\ Opened' /\ Holding' /\ Indexes' = Indexes
<1>1. count \in Nat \ {0} /\ Indexes' = Indexes /\ \A hi \in Indexes : ents[hi].refcount \in Nat
  BY DEF TableInv, TypedTable, Indexes, Entries
<1>2. f \notin Range(free) /\ \A t \in Threads : Filling(t) => ix[t] # f
  BY DEF Open
<1>3. /\ Range(free') = Range(free) \cup {f}
      /\ \A i, j \in 1 .. Len(free') : free'[i] = free'[j] => i = j
  <2>1. free \in Seq(Indexes) /\ \A i, j \in 1 .. Len(free) : free[i] = free[j] => i = j
    BY DEF TableInv, TypedTable, Opened
  <2> QED
    BY <1>2, <2>1, AppendOnce
<1>4. /\ ents'[f].object = NoHandle /\ ents'[f].thread = NoHandle /\ ents'[f].refcount = 0
      /\ ents'[f].reuse = ents[f].reuse + count
  BY DEF Freed, TableInv, TypedTable, Entries
<1>5. \A t \in Threads : place'[t] = "object" <=> place[t] = "object"
  BY DEF FillingAsBefore, Filling
<1>6. \A hi \in Indexes : /\ Open(hi)' <=> Open(hi) \/ hi = f
                          /\ Vacant(hi)' <=> Vacant(hi) \/ hi = f
  <2>1. \A t \in Threads : place[t] = "object" => ix'[t] = ix[t]
    BY DEF FillingAsBefore, Filling
  <2> QED
    BY <1>3, <1>5, <2>1 DEF Open, Vacant, FillingAsBefore
<1>7. Numbered' /\ AllMeant'
  BY <1>4, <1>6, MeaningsKept DEF AllMeant
<1>8. Opened'
  <2>1. \A hi \in Indexes : ents'[hi].object = NoHandle <=> Vacant(hi)'
    BY <1>4, <1>6 DEF TableInv, Opened
  <2>2. \A hi \in Indexes : Open(hi)' => ents'[hi].refcount = 0 /\ ents'[hi].thread = NoHandle
    BY <1>4, <1>6 DEF TableInv, Opened
  <2>3. \A t \in Threads : Filling(t)' => ix'[t] \in Indexes \ Range(free') /\ obj'[t] \in Objects
    BY <1>2, <1>3 DEF TableInv, Opened, FillingAsBefore
  <2>4. ASSUME NEW t \in Threads, place'[t] = "rest" PROVE ents'[ix'[t]].object = obj'[t]
    <3>1. Filling(t) /\ place[t] = "rest" /\ ix'[t] = ix[t] /\ obj'[t] = obj[t]
      BY <2>4 DEF FillingAsBefore, Filling
    <3>2. ix[t] \in Indexes \ {f} /\ ents[ix[t]].object = obj[t]
      BY <1>2, <3>1 DEF TableInv, Opened
    <3> QED
      BY <3>1, <3>2
  <2>5. \A t, u \in Threads : Filling(t)' /\ Filling(u)' /\ ix'[t] = ix'[u] => t = u
    BY DEF TableInv, Opened, FillingAsBefore
  <2> QED
    BY <1>1, <1>3, <2>1, <2>2, <2>3, <2>4, <2>5 DEF Opened
<1>9. \A hi \in Indexes : Number(hi) \in Nat \ {0} /\ Number(hi) % count = hi
  BY NumberOf DEF TableInv
<1>10. \A hi \in Indexes \ {f} : Number(hi)' = Number(hi) /\ Number(hi) # Number(f)
  BY <1>9 DEF Number
<1>11. ASSUME NEW u \in Threads PROVE HeldAt(u)'
  <2>1. HeldAt(u)
    BY DEF TableInv, Holding
  <2>2. CASE /\ held'[u] = held[u] /\ (place'[u] = "putback" <=> place[u] = "putback")
             /\ place[u] = "putback" => held[u].handle # Number(f)
    <3>1. CASE held[u].handle = 0
      BY <2>1, <2>2, <3>1 DEF HeldAt
    <3>2. CASE held[u].handle # 0
      <4>1. PICK j \in Indexes : j = held[u].handle % count /\ Number(j) = held[u].handle
        BY <3>2, HeldIsAssigned
      <4>2. j # f
        BY <2>2, <4>1 DEF Holders
      <4>3. Number(j)' = held[u].handle
        BY <1>10, <4>1, <4>2
      <4>4. held'[u].handle % count' = j /\ held'[u] \in issued'
        BY <2>1, <2>2, <3>2, <4>1 DEF HeldAt
      <4>5. place'[u] = "putback" => ents'[j].refcount = 0
        <5>1. place'[u] = "putback" => ents[j].refcount = 0
          BY <2>1, <2>2, <4>1 DEF HeldAt
        <5> QED
          BY <4>2, <5>1
      <4> QED
        BY <2>2, <3>2, <4>3, <4>4, <4>5 DEF HeldAt
    <3> QED
      BY <3>1, <3>2
  <2>3. CASE place'[u] = "run" /\ held'[u].handle = 0
    BY <2>3 DEF HeldAt
  <2> QED
    BY <2>2, <2>3
<1>12. ASSUME NEW hi \in Indexes PROVE CountedHere(hi)'
  <2>1. CASE hi = f
    <3> DEFINE n == Number(f) + count
    <3>1. n \in Nat \ {0} /\ n > Number(f) /\ n % count = f
      <4>1. PICK k \in Nat : ents[f].reuse = k * count
        BY DEF TableInv, Numbered
      <4>2. n = (k + 1) * count + f /\ k + 1 \in Nat /\ f \in 0 .. count - 1
        BY <1>1, <4>1 DEF Number, Indexes
      <4>3. n % count = f
        <5>1. ((k + 1) * count + f) % count = f
          BY <1>1, <4>2, ModUnique
        <5> QED
          BY <4>2, <5>1
      <4>4. n \in Nat \ {0} /\ n > Number(f)
        BY <1>1, <1>9
      <4> HIDE DEF n
      <4> QED
        BY <4>3, <4>4
    <3>2. ents'[f].reuse + f = n
      <4>1. ents[f].reuse \in Nat /\ f \in Nat
        BY <1>1 DEF TableInv, TypedTable, Entries, Indexes
      <4> QED
        BY <1>1, <1>4, <4>1 DEF Number
    <3> HIDE DEF n
    <3>3. \A i \in issued : i.handle # n
      <4> SUFFICES ASSUME NEW i \in issued, i.handle = n
                   PROVE  FALSE
        OBVIOUS
      <4>1. n <= Number(f)
        BY <3>1 DEF TableInv, AllMeant, Meant
      <4> QED
        BY <1>9, <3>1, <4>1
    <3>4. Holders(n) = {}
      BY <3>1, <3>3, NobodyHolds DEF TableInv
    <3>5. Holders(Number(hi))' = {}
      BY <2>1, <3>1, <3>2, <3>4 DEF Holders, Number
    <3> QED
      BY <1>4, <2>1, <3>5, FS_EmptySet DEF CountedHere
  <2>2. CASE hi # f
    <3>1. Holders(Number(hi))' = Holders(Number(hi))
      BY <1>9, <1>10, <2>2 DEF Holders
    <3>2. CountedHere(hi)
      BY DEF TableInv, Holding
    <3>3. PICK n \in Nat : n = Cardinality(Holders(Number(hi)))
      BY HoldersFinite
    <3>4. ents[hi].refcount = 2 * n \/ ents[hi].refcount = 2 * n + 1
      BY <3>2, <3>3 DEF CountedHere
    <3>5. ents'[hi].refcount = 2 * n \/ ents'[hi].refcount = 2 * n + 1
      BY <2>2, <3>3, <3>4
    <3> QED
      BY <3>1, <3>3, <3>5 DEF CountedHere
  <2> QED
    BY <2>1, <2>2
<1>13. ASSUME NEW u \in Threads, NEW v \in Threads,
              place'[u] = "putback", place'[v] = "putback", held'[u].handle = held'[v].handle
       PROVE  u = v
  BY <1>13 DEF TableInv, Holding
<1> QED
  BY <1>1, <1>7, <1>8, <1>11, <1>12, <1>13 DEF Holding

LEMMA FreedTyped ==
  ASSUME TypedTable, NEW hi \in Indexes
  PROVE  Freed(hi) \in Entries
<1>1. ents[hi] \in Entries /\ count \in Nat
  BY DEF TypedTable
<1>2. ents[hi].reuse + count \in Nat
  BY <1>1 DEF Entries
<1> QED
  BY <1>1, <1>2 DEF Entries, Freed

(* A freed entry is not assigned, and bits that are cleared stay cleared.   *)
LEMMA FreeExits ==
  ASSUME TableInv, NEW f \in Indexes, Indexes' = Indexes,
         ents'[f].refcount = 0, ents'[f].thread = NoHandle,
         \A hi \in Indexes \ {f} :
           ents'[hi].thread = ents[hi].thread /\ ents'[hi].refcount = ents[hi].refcount,
         \A u \in Threads :
           /\ place'[u] = "exit" => place[u] = "exit" /\ ix'[u] = ix[u]
           /\ place'[u] = "gone" <=> place[u] = "gone"
  PROVE  Exited'
<1>1. \A hi \in Indexes : ents[hi].thread \in Threads \cup {NoHandle}
  BY DEF TableInv, TypedTable, Entries
<1>2. ASSUME NEW u \in Threads, NEW hi \in Indexes,
             place'[u] = "exit", hi < ix'[u], ents'[hi].thread = u
      PROVE  ents'[hi].refcount % 2 = 0
  BY <1>2, TableAssumption DEF TableInv, Exited
<1>3. ASSUME NEW hi \in Indexes, ents'[hi].refcount % 2 = 1
      PROVE  ents'[hi].thread = NoHandle \/ place'[ents'[hi].thread] # "gone"
  BY <1>1, <1>3 DEF TableInv, Exited
<1> QED
  BY <1>2, <1>3 DEF Exited

LEMMA PutbackFreeKeeps ==
  ASSUME TableInv, NEW t \in Threads, PutbackFree(t)
  PROVE  TableInv'
<1>1. place[t] = "putback" /\ held[t].handle # 0
  BY DEF PutbackFree, TableInv, Holding, HeldAt
<1>2. PICK f \in Indexes : /\ f = held[t].handle % count /\ Number(f) = held[t].handle /\ ~Open(f)
                           /\ ents[f].refcount = 0
  BY <1>1, HeldIsAssigned DEF TableInv, Holding, HeldAt
<1>3. Holders(Number(f)) = {}
  BY <1>2, UnusedEntry
<1>4. /\ UNCHANGED <<count, ix, obj, issued>> /\ Indexes' = Indexes
      /\ ents' = [ents EXCEPT ![f] = Freed(f)] /\ free' = Append(free, f)
      /\ \A u \in Threads \ {t} : held'[u] = held[u] /\ place'[u] = place[u]
      /\ held'[t] = [handle |-> 0, object |-> NoHandle] /\ place'[t] = "run"
  BY <1>2 DEF PutbackFree, Free, TableInv, TypedTable, Indexes
<1>5. TypedTable'
  <2>1. ents' \in [Indexes -> Entries]
    BY <1>4, FreedTyped DEF TableInv, TypedTable
  <2>2. free' \in Seq(Indexes)
    BY <1>4, AppendElements DEF TableInv, TypedTable
  <2>3. place' \in [Threads -> TablePlaces]
    BY DEF PutbackFree, TableInv, TypedTable, TablePlaces
  <2>4. held' \in [Threads -> [handle : Nat, object : Objects \cup {NoHandle}]]
    BY DEF PutbackFree, TableInv, TypedTable
  <2>5. \A u \in Threads : place'[u] \in {"exit", "copy", "count"} => ix'[u] # 0
    BY <1>4 DEF TableInv, TypedTable
  <2> QED
    BY <1>4, <2>1, <2>2, <2>3, <2>4, <2>5 DEF TableInv, TypedTable, Entries, Types
<1>6. ents'[f] = Freed(f) /\ \A hi \in Indexes \ {f} : ents'[hi] = ents[hi]
  BY <1>4 DEF TableInv, TypedTable
<1>7. FillingAsBefore
  BY <1>1, <1>4 DEF FillingAsBefore, Filling
<1>8. \A u \in Threads :
        \/ /\ held'[u] = held[u] /\ (place'[u] = "putback" <=> place[u] = "putback")
           /\ place[u] = "putback" => held[u].handle # Number(f)
        \/ /\ place'[u] = "run" /\ held'[u].handle = 0
           /\ place[u] = "putback" /\ held[u].handle = Number(f)
  BY <1>1, <1>2, <1>4 DEF TableInv, Holding
<1>9. Numbered' /\ AllMeant' /\ Opened' /\ Holding'
  BY <1>2, <1>3, <1>4, <1>5, <1>6, <1>7, <1>8, FreeKeeps
<1>10. Exited'
  <2>1. ents'[f].refcount = 0 /\ ents'[f].thread = NoHandle
    BY <1>6 DEF Freed, TableInv, TypedTable, Entries
  <2>2. \A u \in Threads : /\ place'[u] = "exit" => place[u] = "exit" /\ ix'[u] = ix[u]
                           /\ place'[u] = "gone" <=> place[u] = "gone"
    BY <1>1, <1>4
  <2> QED
    BY <1>4, <1>6, <2>1, <2>2, FreeExits
<1> QED
  BY <1>5, <1>9, <1>10 DEF TableInv

LEMMA ReleaseKeeps ==
  ASSUME TableInv, NEW t \in Threads, NEW h \in Handle, Release(t, h)
  PROVE  TableInv'
<1>1. CASE ents[h % count].refcount # 1
  BY <1>1, ReleaseInUseKeeps
<1>2. CASE ents[h % count].refcount = 1
  <2>1. PICK f \in Indexes : f = h % count /\ Number(f) = h /\ ~Open(f) /\ ents[f].refcount = 1
    BY <1>2, FoundIsAssigned DEF Release
  <2>2. Holders(Number(f)) = {}
    BY <2>1, UnusedEntry
  <2>3. /\ UNCHANGED <<count, place, ix, obj, held, issued>> /\ Indexes' = Indexes
        /\ ents' = [ents EXCEPT ![f] = Freed(f)] /\ free' = Append(free, f)
    BY <2>1 DEF Release, Free, Indexes
  <2>4. TypedTable'
    <3>1. ents' \in [Indexes -> Entries]
      BY <2>3, FreedTyped DEF TableInv, TypedTable
    <3>2. free' \in Seq(Indexes)
      BY <2>3, AppendElements DEF TableInv, TypedTable
    <3> QED
      BY <2>3, <3>1, <3>2 DEF TableInv, TypedTable, Entries, Types
  <2>5. ents'[f] = Freed(f) /\ \A hi \in Indexes \ {f} : ents'[hi] = ents[hi]
    BY <2>3 DEF TableInv, TypedTable
  <2>6. FillingAsBefore
    BY <2>3 DEF FillingAsBefore, Filling
  <2>7. \A u \in Threads : place[u] = "putback" => held[u].handle # Number(f)
    BY <2>1 DEF TableInv, Holding, HeldAt
  <2>8. Numbered' /\ AllMeant' /\ Opened' /\ Holding'
    BY <2>1, <2>2, <2>3, <2>4, <2>5, <2>6, <2>7, FreeKeeps
  <2>9. Exited'
    <3>1. ents'[f].refcount = 0 /\ ents'[f].thread = NoHandle
      BY <2>5 DEF Freed, TableInv, TypedTable, Entries
    <3> QED
      BY <2>3, <2>5, <3>1, FreeExits
  <2> QED
    BY <2>4, <2>8, <2>9 DEF TableInv
<1> QED
  BY <1>1, <1>2

(* oz_knl_handle_release_all frees an entry, or is done. *)
LEMMA ReleaseAllKeeps ==
  ASSUME TableInv, NEW t \in Threads, ReleaseAll(t)
  PROVE  TableInv'
<1> DEFINE owned == {hi \in ix[t] .. count - 1 : ents[hi].thread = t}
           idle == {hi \in owned : ents[hi].refcount = 1}
           cleared(upto) == [hi \in DOMAIN ents |->
                               IF hi \in owned /\ hi < upto
                               THEN [ents[hi] EXCEPT !.refcount = 2 * (@ \div 2)] ELSE ents[hi]]
<1>1. /\ place[t] = "exit" /\ ix[t] \in Nat \ {0}
      /\ UNCHANGED <<count, obj, held, issued>> /\ Indexes' = Indexes
  BY DEF ReleaseAll, TableInv, TypedTable, Indexes
<1>2. owned \subseteq Indexes /\ \A hi \in Indexes : hi \in owned <=> hi >= ix[t] /\ ents[hi].thread = t
  BY <1>1 DEF TableInv, TypedTable, Indexes
<1>3. ASSUME NEW upto \in Nat
      PROVE  /\ cleared(upto) \in [Indexes -> Entries]
             /\ \A hi \in Indexes :
                  /\ cleared(upto)[hi].object = ents[hi].object /\ cleared(upto)[hi].reuse = ents[hi].reuse
                  /\ cleared(upto)[hi].thread = ents[hi].thread
                  /\ cleared(upto)[hi].refcount = IF hi \in owned /\ hi < upto
                                                 THEN 2 * (ents[hi].refcount \div 2)
                                                 ELSE ents[hi].refcount
  <2>1. DOMAIN ents = Indexes /\ \A hi \in Indexes : ents[hi] \in Entries
    BY DEF TableInv, TypedTable
  <2>2. ASSUME NEW e \in Entries
        PROVE  /\ [e EXCEPT !.refcount = 2 * (@ \div 2)] \in Entries
               /\ [e EXCEPT !.refcount = 2 * (@ \div 2)].object = e.object
               /\ [e EXCEPT !.refcount = 2 * (@ \div 2)].reuse = e.reuse
               /\ [e EXCEPT !.refcount = 2 * (@ \div 2)].thread = e.thread
               /\ [e EXCEPT !.refcount = 2 * (@ \div 2)].refcount = 2 * (e.refcount \div 2)
    BY DEF Entries
  <2> QED
    BY <2>1, <2>2
<1>4. \A hi \in Indexes : ents[hi].refcount \in Nat /\ ents[hi].thread \in Threads \cup {NoHandle}
  BY DEF TableInv, TypedTable, Entries
<1>5. \/ \E hi \in idle : /\ ents' = [cleared(hi) EXCEPT ![hi] = Freed(hi)]
                          /\ free' = Append(free, hi)
                          /\ ix' = [ix EXCEPT ![t] = hi + 1] /\ place' = place
                          /\ \A other \in idle : hi <= other
      \/ /\ idle = {} /\ ents' = cleared(count) /\ free' = free
         /\ ix' = [ix EXCEPT ![t] = 0] /\ place' = [place EXCEPT ![t] = "gone"]
  BY DEF ReleaseAll
<1>6. idle = {hi \in owned : ents[hi].refcount = 1}
  OBVIOUS
<1> HIDE DEF owned, idle, cleared
<1>7. CASE \E hi \in idle : /\ ents' = [cleared(hi) EXCEPT ![hi] = Freed(hi)]
                            /\ free' = Append(free, hi)
                            /\ ix' = [ix EXCEPT ![t] = hi + 1] /\ place' = place
                            /\ \A other \in idle : hi <= other
  <2>1. PICK f \in idle : /\ ents' = [cleared(f) EXCEPT ![f] = Freed(f)]
                          /\ free' = Append(free, f)
                          /\ ix' = [ix EXCEPT ![t] = f + 1] /\ place' = place
                          /\ \A other \in idle : f <= other
    BY <1>7
  <2>2. f \in Indexes /\ f \in owned /\ f \in Nat /\ ents[f].refcount = 1 /\ ents[f].thread = t
    BY <1>2, <1>6 DEF Indexes
  <2>3. ~Open(f)
    BY <2>2 DEF TableInv, Opened
  <2>4. Holders(Number(f)) = {}
    BY <2>2, UnusedEntry
  <2>5. /\ ents'[f] = Freed(f) /\ \A hi \in Indexes \ {f} : ents'[hi] = cleared(f)[hi]
        /\ ents' \in [Indexes -> Entries]
    BY <1>3, <2>1, <2>2, FreedTyped DEF TableInv
  <2>6. /\ \A u \in Threads \ {t} : ix'[u] = ix[u]
        /\ ix'[t] = f + 1 /\ ix' \in [Threads -> Nat]
    BY <2>1, <2>2 DEF TableInv, TypedTable
  <2>7. TypedTable'
    <3>1. free' \in Seq(Indexes)
      BY <2>1, <2>2, AppendElements DEF TableInv, TypedTable
    <3>2. \A u \in Threads : place'[u] \in {"exit", "copy", "count"} => ix'[u] # 0
      BY <2>1, <2>2, <2>6 DEF TableInv, TypedTable
    <3> QED
      BY <1>1, <2>1, <2>5, <2>6, <3>1, <3>2 DEF TableInv, TypedTable, Entries, Types
  <2>8. FillingAsBefore
    BY <1>1, <2>1, <2>6 DEF FillingAsBefore, Filling
  <2>9. \A u \in Threads : place[u] = "putback" => held[u].handle # Number(f)
    <3>1. Number(f) % count = f
      BY <2>2, NumberOf DEF TableInv
    <3> QED
      BY <2>2, <3>1 DEF TableInv, Holding, HeldAt
  <2>10. \A hi \in Indexes \ {f} :
           /\ ents'[hi].reuse = ents[hi].reuse /\ ents'[hi].object = ents[hi].object
           /\ ents'[hi].thread = ents[hi].thread
           /\ ents'[hi].refcount = IF hi \in owned /\ hi < f THEN 2 * (ents[hi].refcount \div 2)
                                  ELSE ents[hi].refcount
    BY <1>3, <2>2, <2>5
  <2>11. Numbered' /\ AllMeant' /\ Opened' /\ Holding'
    BY <1>1, <2>1, <2>2, <2>3, <2>4, <2>5, <2>7, <2>8, <2>9, <2>10, FreeKeeps
  <2>12. Exited'
    <3>1. ents'[f].refcount = 0 /\ ents'[f].thread = NoHandle
      BY <2>2, <2>5 DEF Freed, TableInv, TypedTable, Entries
    <3>2. \A hi \in Indexes : ents'[hi].refcount % 2 = 1 =>
            ents[hi].refcount % 2 = 1 /\ ents'[hi].thread = ents[hi].thread
      BY <1>4, <2>10, <3>1
    <3>3. ASSUME NEW u \in Threads, NEW hi \in Indexes,
                 place'[u] = "exit", hi < ix'[u], ents'[hi].thread = u
          PROVE  ents'[hi].refcount % 2 = 0
      <4>1. CASE hi = f
        BY <3>1, <4>1
      <4>2. CASE hi # f /\ u # t
        <5>1. ents[hi].refcount % 2 = 0
          BY <2>1, <2>6, <2>10, <3>3, <4>2 DEF TableInv, Exited
        <5> QED
          BY <1>4, <2>10, <4>2, <5>1
      <4>3. CASE hi # f /\ u = t
        <5>1. hi < f
          BY <2>2, <2>6, <3>3, <4>3 DEF Indexes
        <5>2. CASE hi < ix[t]
          <6>1. ents[hi].refcount % 2 = 0
            BY <1>1, <2>10, <3>3, <4>3, <5>2 DEF TableInv, Exited
          <6> QED
            BY <1>4, <2>10, <4>3, <6>1
        <5>3. CASE hi >= ix[t]
          <6>1. hi \in owned
            BY <1>2, <2>10, <3>3, <4>3, <5>3
          <6> QED
            BY <1>4, <2>10, <4>3, <5>1, <6>1
        <5> QED
          BY <1>1, <5>2, <5>3 DEF Indexes
      <4> QED
        BY <4>1, <4>2, <4>3
    <3> QED
      BY <1>1, <2>1, <3>2, <3>3 DEF TableInv, Exited
  <2> QED
    BY <2>7, <2>11, <2>12 DEF TableInv
<1>8. CASE /\ idle = {} /\ ents' = cleared(count) /\ free' = free
           /\ ix' = [ix EXCEPT ![t] = 0] /\ place' = [place EXCEPT ![t] = "gone"]
  <2>1. /\ ents' \in [Indexes -> Entries]
        /\ \A hi \in Indexes :
             /\ ents'[hi].object = ents[hi].object /\ ents'[hi].reuse = ents[hi].reuse
             /\ ents'[hi].thread = ents[hi].thread
             /\ ents'[hi].refcount = IF hi \in owned THEN 2 * (ents[hi].refcount \div 2)
                                    ELSE ents[hi].refcount
    <3>1. count \in Nat /\ \A hi \in Indexes : hi < count
      BY DEF TableInv, TypedTable, Indexes
    <3> QED
      BY <1>3, <1>8, <3>1
  <2>2. /\ \A u \in Threads \ {t} : ix'[u] = ix[u] /\ place'[u] = place[u]
        /\ ix'[t] = 0 /\ place'[t] = "gone"
        /\ ix' \in [Threads -> Nat] /\ place' \in [Threads -> TablePlaces]
    BY <1>8 DEF TableInv, TypedTable, TablePlaces
  <2>3. TypedTable'
    <3>1. \A u \in Threads : place'[u] \in {"exit", "copy", "count"} => ix'[u] # 0
      BY <2>2 DEF TableInv, TypedTable
    <3> QED
      BY <1>1, <1>8, <2>1, <2>2, <3>1 DEF TableInv, TypedTable, Entries, Types
  <2>4. FillingAsBefore
    BY <1>1, <2>2 DEF FillingAsBefore, Filling
  <2>5. \A u \in Threads : place'[u] = "putback" <=> place[u] = "putback"
    BY <1>1, <2>2
  <2>6. Numbered' /\ AllMeant' /\ Opened' /\ Holding'
    BY <1>1, <1>8, <2>1, <2>3, <2>4, <2>5, BitsKeeps
  <2>7. Exited'
    <3>1. \A hi \in Indexes : ents'[hi].refcount % 2 = 1 => ents[hi].refcount % 2 = 1
      BY <1>4, <2>1
    <3>2. \A hi \in Indexes : ents[hi].refcount % 2 = 0 => ents'[hi].refcount % 2 = 0
      BY <1>4, <2>1
    <3>3. ASSUME NEW hi \in Indexes, ents[hi].thread = t PROVE ents'[hi].refcount % 2 = 0
      <4>1. CASE hi \in owned
        BY <1>4, <2>1, <4>1
      <4>2. CASE hi \notin owned
        <5>1. hi < ix[t]
          BY <1>1, <1>2, <3>3, <4>2 DEF Indexes
        <5>2. ents[hi].refcount % 2 = 0
          BY <1>1, <3>3, <5>1 DEF TableInv, Exited
        <5> QED
          BY <3>2, <5>2
      <4> QED
        BY <4>1, <4>2
    <3>4. ASSUME NEW u \in Threads, NEW hi \in Indexes,
                 place'[u] = "exit", hi < ix'[u], ents'[hi].thread = u
          PROVE  ents'[hi].refcount % 2 = 0
      <4>1. u # t /\ place[u] = "exit" /\ hi < ix[u] /\ ents[hi].thread = u
        BY <2>1, <2>2, <3>4
      <4> QED
        BY <3>2, <4>1 DEF TableInv, Exited
    <3>5. ASSUME NEW hi \in Indexes, ents'[hi].refcount % 2 = 1
          PROVE  ents'[hi].thread = NoHandle \/ place'[ents'[hi].thread] # "gone"
      <4>1. ents[hi].refcount % 2 = 1 /\ ents'[hi].thread = ents[hi].thread
        BY <2>1, <3>1, <3>5
      <4>2. ents[hi].thread # t
        BY <3>3, <3>5
      <4> QED
        BY <1>4, <2>2, <4>1, <4>2 DEF TableInv, Exited
    <3> QED
      BY <1>1, <3>4, <3>5 DEF Exited
  <2> QED
    BY <2>3, <2>6, <2>7 DEF TableInv
<1> QED
  BY <1>5, <1>7, <1>8

-----------------------------------------------------------------------------
(* Steps of oz_knl_handle_assign *)

LEMMA FillObjectKeeps ==
  ASSUME TableInv, NEW t \in Threads, FillObject(t)
  PROVE  TableInv'
<1>1. PICK f \in Indexes : f = ix[t] /\ f \notin Range(free) /\ obj[t] \in Objects
  BY DEF FillObject, TableInv, Opened, Filling
<1>2. /\ UNCHANGED <<count, free, ix, obj, held, issued>> /\ Indexes' = Indexes
      /\ ents' = [ents EXCEPT ![f].object = obj[t]] /\ place' = [place EXCEPT ![t] = "rest"]
      /\ place[t] = "object"
  BY <1>1 DEF FillObject, Indexes
<1>3. place'[t] = "rest" /\ \A u \in Threads \ {t} : place'[u] = place[u]
  BY <1>2 DEF TableInv, TypedTable
<1>4. /\ ents'[f].object = obj[t]
      /\ \A hi \in Indexes : /\ ents'[hi].reuse = ents[hi].reuse /\ ents'[hi].thread = ents[hi].thread
                             /\ ents'[hi].refcount = ents[hi].refcount
      /\ \A hi \in Indexes \ {f} : ents'[hi] = ents[hi]
  BY <1>1, <1>2 DEF TableInv, TypedTable, Entries
<1>5. TypedTable'
  <2>1. ents' \in [Indexes -> Entries]
    <3>1. ents[f] \in Entries
      BY <1>1 DEF TableInv, TypedTable
    <3>2. [ents[f] EXCEPT !.object = obj[t]] \in Entries
      BY <1>1, <3>1 DEF Entries
    <3> QED
      BY <1>2, <3>2 DEF TableInv, TypedTable
  <2>2. place' \in [Threads -> TablePlaces]
    BY <1>2 DEF TableInv, TypedTable, TablePlaces
  <2> QED
    BY <1>2, <1>3, <2>1, <2>2 DEF TableInv, TypedTable, Entries, Types
<1>6. \A u \in Threads : Filling(u)' <=> Filling(u)
  BY <1>2, <1>3 DEF Filling
<1>7. \A hi \in Indexes : Open(hi)' <=> Open(hi)
  BY <1>2, <1>6 DEF Open
<1>8. \A u \in Threads \ {t} : Filling(u) => ix[u] # f
  BY <1>1, <1>2 DEF TableInv, Opened, Filling
<1>9. Numbered' /\ AllMeant'
  <2>1. Open(f)
    BY <1>1, <1>2 DEF Open, Filling
  <2> QED
    BY <1>2, <1>4, <1>5, <1>7, <2>1, MeaningsKept DEF AllMeant
<1>10. Opened'
  <2>1. \A hi \in Indexes : ents'[hi].object = NoHandle <=> Vacant(hi)'
    <3>1. ~Vacant(f)'
      BY <1>1, <1>2, <1>3, <1>8 DEF Vacant, Filling
    <3>2. \A hi \in Indexes \ {f} : Vacant(hi)' <=> Vacant(hi)
      BY <1>1, <1>2, <1>3 DEF Vacant
    <3>3. obj[t] # NoHandle
      BY <1>1, TableAssumption
    <3> QED
      BY <1>4, <3>1, <3>2, <3>3 DEF TableInv, Opened
  <2>2. \A hi \in Indexes : Open(hi)' => ents'[hi].refcount = 0 /\ ents'[hi].thread = NoHandle
    BY <1>4, <1>7 DEF TableInv, Opened
  <2>3. \A u \in Threads : Filling(u)' => ix'[u] \in Indexes \ Range(free) /\ obj'[u] \in Objects
    BY <1>2, <1>6 DEF TableInv, Opened
  <2>4. ASSUME NEW u \in Threads, place'[u] = "rest" PROVE ents'[ix'[u]].object = obj'[u]
    <3>1. CASE u = t
      BY <1>1, <1>2, <1>4, <3>1
    <3>2. CASE u # t
      <4>1. place[u] = "rest" /\ Filling(u)
        BY <1>3, <2>4, <3>2 DEF Filling
      <4>2. ix[u] \in Indexes \ {f} /\ ents[ix[u]].object = obj[u]
        BY <1>8, <3>2, <4>1 DEF TableInv, Opened
      <4> QED
        BY <1>2, <1>4, <4>2
    <3> QED
      BY <3>1, <3>2
  <2>5. \A u, v \in Threads : Filling(u)' /\ Filling(v)' /\ ix'[u] = ix'[v] => u = v
    BY <1>2, <1>6 DEF TableInv, Opened
  <2> QED
    BY <1>2, <2>1, <2>2, <2>3, <2>4, <2>5 DEF TableInv, Opened
<1>11. \A u \in Threads : /\ place'[u] = "putback" <=> place[u] = "putback"
                          /\ place'[u] = "exit" <=> place[u] = "exit"
                          /\ place'[u] = "gone" <=> place[u] = "gone"
  BY <1>2, <1>3
<1>12. Holding'
  <2>1. \A hi \in Indexes : Number(hi)' = Number(hi)
    BY <1>4 DEF Number
  <2>2. \A hi \in Indexes : Holders(Number(hi))' = Holders(Number(hi))
    BY <1>2, <1>11, <2>1 DEF Holders
  <2>3. \A hi \in Indexes : CountedHere(hi)'
    BY <1>4, <2>2 DEF TableInv, Holding, CountedHere
  <2>4. \A u \in Threads : HeldAt(u)'
    <3> SUFFICES ASSUME NEW u \in Threads
                 PROVE  HeldAt(u)'
      OBVIOUS
    <3>1. HeldAt(u)
      BY DEF TableInv, Holding
    <3>2. held[u].handle # 0 => held[u].handle % count \in Indexes
      BY HeldIsAssigned
    <3> QED
      BY <1>2, <1>4, <1>11, <2>1, <3>1, <3>2 DEF HeldAt
  <2> QED
    BY <1>2, <1>11, <2>3, <2>4 DEF TableInv, Holding
<1>13. Exited'
  <2>1. \A hi \in Indexes : ents[hi].thread \in Threads \cup {NoHandle}
    BY DEF TableInv, TypedTable, Entries
  <2> QED
    BY <1>2, <1>4, <1>11, <2>1 DEF TableInv, Exited
<1> QED
  BY <1>5, <1>9, <1>10, <1>12, <1>13 DEF TableInv

(* The entry is assigned, and its handle returned. *)
LEMMA FillRestKeeps ==
  ASSUME TableInv, NEW t \in Threads, FillRest(t)
  PROVE  TableInv'
<1>1. PICK f \in Indexes : f = ix[t] /\ f \notin Range(free) /\ obj[t] \in Objects
  BY DEF FillRest, TableInv, Opened, Filling
<1>2. PICK n : n = Number(f)
  OBVIOUS
<1>3. /\ UNCHANGED <<count, free, held>> /\ Indexes' = Indexes
      /\ ents' = [ents EXCEPT ![f] = [@ EXCEPT !.type = ObjType[obj[t]], !.thread = t, !.refcount = 1]]
      /\ issued' = issued \cup {[handle |-> n, object |-> obj[t]]}
      /\ place' = [place EXCEPT ![t] = "run"] /\ ix' = [ix EXCEPT ![t] = 0]
      /\ obj' = [obj EXCEPT ![t] = NoHandle]
      /\ place[t] = "rest" /\ ents[f].object = obj[t]
  BY <1>1, <1>2 DEF FillRest, Indexes, TableInv, Opened
<1>4. /\ place'[t] = "run"
      /\ \A u \in Threads \ {t} : place'[u] = place[u] /\ ix'[u] = ix[u] /\ obj'[u] = obj[u]
  BY <1>3 DEF TableInv, TypedTable
<1>5. ents[f] \in Entries
  BY DEF TableInv, TypedTable
<1>6. /\ ents'[f].refcount = 1 /\ ents'[f].thread = t
      /\ \A hi \in Indexes : ents'[hi].reuse = ents[hi].reuse /\ ents'[hi].object = ents[hi].object
      /\ \A hi \in Indexes \ {f} : ents'[hi] = ents[hi]
  BY <1>3 DEF TableInv, TypedTable, Entries
<1>7. Open(f) /\ (\A i \in issued : i.handle # n) /\ Holders(n) = {}
  <2>1. Open(f)
    BY <1>1, <1>3 DEF Open, Filling
  <2> QED
    BY <1>2, <2>1, OpenIsNew
<1>8. n \in Nat \ {0} /\ n % count = f /\ n = ents[f].reuse + f
  BY <1>2, NumberOf DEF TableInv, Number
<1>9. TypedTable'
  <2>1. ents' \in [Indexes -> Entries]
    <3>1. [ents[f] EXCEPT !.type = ObjType[obj[t]], !.thread = t, !.refcount = 1] \in Entries
      BY <1>1, <1>5 DEF Entries, Types
    <3> QED
      BY <1>3, <3>1 DEF TableInv, TypedTable
  <2>2. place' \in [Threads -> TablePlaces] /\ ix' \in [Threads -> Nat]
    BY <1>3 DEF TableInv, TypedTable, TablePlaces
  <2>3. obj' \in [Threads -> Objects \cup {NoHandle}]
    BY <1>3 DEF TableInv, TypedTable
  <2>4. issued' \subseteq [handle : Nat, object : Objects]
    BY <1>1, <1>3, <1>8 DEF TableInv, TypedTable
  <2>5. \A u \in Threads : place'[u] \in {"exit", "copy", "count"} => ix'[u] # 0
    BY <1>4 DEF TableInv, TypedTable
  <2> QED
    BY <1>3, <2>1, <2>2, <2>3, <2>4, <2>5 DEF TableInv, TypedTable, Entries, Types
<1>10. \A u \in Threads : Filling(u)' <=> Filling(u) /\ u # t
  BY <1>3, <1>4 DEF Filling
<1>11. \A u \in Threads \ {t} : Filling(u) => ix[u] # f
  BY <1>1, <1>3 DEF TableInv, Opened, Filling
<1>12. \A hi \in Indexes : Open(hi)' <=> Open(hi) /\ hi # f
  BY <1>1, <1>3, <1>4, <1>10, <1>11 DEF Open
<1>13. \A hi \in Indexes : Vacant(hi)' <=> Vacant(hi)
  BY <1>3, <1>4 DEF Vacant
<1>14. Numbered' /\ AllMeant'
  <2>1. Numbered' /\ \A i \in issued : Meant(i)'
    BY <1>3, <1>6, <1>9, <1>12, MeaningsKept
  <2>2. ASSUME NEW i \in issued', i \notin issued PROVE Meant(i)'
    <3>1. i.handle = n /\ i.object = obj[t]
      BY <1>3, <2>2
    <3>2. i.handle % count' = f /\ f # 0
      BY <1>3, <1>8, <3>1 DEF Indexes
    <3>3. ents'[f].reuse + f = n /\ ents'[f].object = i.object
      BY <1>3, <1>6, <1>8, <3>1
    <3> QED
      BY <1>8, <1>12, <3>1, <3>2, <3>3 DEF Meant, Number
  <2> QED
    BY <2>1, <2>2 DEF AllMeant
<1>15. Opened'
  <2>1. \A hi \in Indexes : ents'[hi].object = NoHandle <=> Vacant(hi)'
    BY <1>6, <1>13 DEF TableInv, Opened
  <2>2. \A hi \in Indexes : Open(hi)' => ents'[hi].refcount = 0 /\ ents'[hi].thread = NoHandle
    BY <1>6, <1>12 DEF TableInv, Opened
  <2>3. \A u \in Threads : Filling(u)' => ix'[u] \in Indexes \ Range(free) /\ obj'[u] \in Objects
    BY <1>4, <1>10 DEF TableInv, Opened
  <2>4. ASSUME NEW u \in Threads, place'[u] = "rest" PROVE ents'[ix'[u]].object = obj'[u]
    <3>1. u # t /\ place[u] = "rest" /\ Filling(u)
      BY <1>4, <2>4 DEF Filling
    <3>2. ix[u] \in Indexes /\ ents[ix[u]].object = obj[u]
      BY <3>1 DEF TableInv, Opened
    <3> QED
      BY <1>4, <1>6, <3>1, <3>2
  <2>5. \A u, v \in Threads : Filling(u)' /\ Filling(v)' /\ ix'[u] = ix'[v] => u = v
    BY <1>4, <1>10 DEF TableInv, Opened
  <2> QED
    BY <1>3, <2>1, <2>2, <2>3, <2>4, <2>5 DEF TableInv, Opened
<1>16. \A u \in Threads : /\ place'[u] = "putback" <=> place[u] = "putback"
                          /\ place'[u] = "exit" <=> place[u] = "exit"
                          /\ place'[u] = "gone" <=> place[u] = "gone"
  BY <1>3, <1>4
<1>17. Holding'
  <2>1. \A hi \in Indexes : Number(hi)' = Number(hi)
    BY <1>6 DEF Number
  <2>2. \A hi \in Indexes : Holders(Number(hi))' = Holders(Number(hi))
    BY <1>3, <1>16, <2>1 DEF Holders
  <2>3. ASSUME NEW hi \in Indexes PROVE CountedHere(hi)'
    <3>1. CountedHere(hi)
      BY DEF TableInv, Holding
    <3>2. CASE hi = f
      <4>1. Holders(Number(hi))' = {}
        BY <1>2, <1>7, <2>2, <3>2
      <4> QED
        BY <1>6, <3>2, <4>1, FS_EmptySet DEF CountedHere
    <3>3. CASE hi # f
      BY <1>6, <2>2, <3>1, <3>3 DEF CountedHere
    <3> QED
      BY <3>2, <3>3
  <2>4. ASSUME NEW u \in Threads PROVE HeldAt(u)'
    <3>1. HeldAt(u)
      BY DEF TableInv, Holding
    <3>2. CASE held[u].handle = 0
      BY <1>3, <1>16, <3>1, <3>2 DEF HeldAt
    <3>3. CASE held[u].handle # 0
      <4>1. PICK j \in Indexes : j = held[u].handle % count /\ Number(j) = held[u].handle /\ ~Open(j)
        BY <3>3, HeldIsAssigned
      <4>2. j # f
        BY <1>7, <4>1
      <4>3. Number(j)' = held[u].handle
        BY <2>1, <4>1
      <4>4. held'[u].handle % count' = j /\ held'[u] \in issued'
        BY <1>3, <3>1, <3>3, <4>1 DEF HeldAt
      <4>5. place'[u] = "putback" => ents'[j].refcount = 0
        <5>1. place'[u] = "putback" => ents[j].refcount = 0
          BY <1>16, <3>1, <4>1 DEF HeldAt
        <5> QED
          BY <1>6, <4>2, <5>1
      <4> QED
        BY <1>3, <3>3, <4>3, <4>4, <4>5 DEF HeldAt
    <3> QED
      BY <3>2, <3>3
  <2> QED
    BY <1>3, <1>16, <2>3, <2>4 DEF TableInv, Holding
<1>18. Exited'
  <2>1. \A hi \in Indexes : ents[hi].thread \in Threads \cup {NoHandle}
    BY DEF TableInv, TypedTable, Entries
  <2>2. \A u \in Threads, hi \in Indexes :
          place'[u] = "exit" /\ hi < ix'[u] /\ ents'[hi].thread = u => ents'[hi].refcount % 2 = 0
    BY <1>4, <1>6 DEF TableInv, Exited
  <2>3. \A hi \in Indexes : ents'[hi].refcount % 2 = 1 =>
          ents'[hi].thread = NoHandle \/ place'[ents'[hi].thread] # "gone"
    BY <1>4, <1>6, <1>16, <2>1 DEF TableInv, Exited
  <2> QED
    BY <1>3, <2>2, <2>3 DEF Exited
<1> QED
  BY <1>9, <1>14, <1>15, <1>17, <1>18 DEF TableInv

LEMMA AssignFreeKeeps ==
  ASSUME TableInv, NEW t \in Threads, NEW o \in Objects, Assign(t, o), free # <<>>
  PROVE  TableInv'
<1>1. /\ UNCHANGED <<count, ents, held, issued>> /\ Indexes' = Indexes
      /\ free' = Tail(free) /\ ix' = [ix EXCEPT ![t] = Head(free)]
      /\ obj' = [obj EXCEPT ![t] = o] /\ place' = [place EXCEPT ![t] = "object"]
      /\ place[t] = "run"
  BY DEF Assign, Indexes
<1>2. PICK f : f = Head(free)
  OBVIOUS
<1>3. /\ f \in Indexes /\ f \in Range(free) /\ free' \in Seq(Indexes)
      /\ Range(free') = Range(free) \ {f}
      /\ \A i, j \in 1 .. Len(free') : free'[i] = free'[j] => i = j
  <2>1. free \in Seq(Indexes) /\ \A i, j \in 1 .. Len(free) : free[i] = free[j] => i = j
    BY DEF TableInv, TypedTable, Opened
  <2>2. /\ Tail(free) \in Seq(Indexes) /\ Range(Tail(free)) = Range(free) \ {f}
        /\ f \in Indexes /\ f = free[1] /\ 1 \in 1 .. Len(free)
    BY <1>2, <2>1, TailThins
  <2>3. f \in Range(free)
    BY <2>1, <2>2 DEF Range
  <2>4. ASSUME NEW i \in 1 .. Len(free'), NEW j \in 1 .. Len(free'), free'[i] = free'[j] PROVE i = j
    <3>1. /\ Len(free) \in Nat /\ Len(free') = Len(free) - 1
          /\ free'[i] = free[i + 1] /\ free'[j] = free[j + 1]
      BY <1>1, <2>1
    <3>2. i + 1 \in 1 .. Len(free) /\ j + 1 \in 1 .. Len(free)
      BY <3>1
    <3>3. i + 1 = j + 1
      BY <2>1, <2>4, <3>1, <3>2
    <3> QED
      BY <3>3
  <2> QED
    BY <1>1, <2>2, <2>3, <2>4
<1>4. /\ place'[t] = "object" /\ ix'[t] = f /\ obj'[t] = o
      /\ \A u \in Threads \ {t} : place'[u] = place[u] /\ ix'[u] = ix[u] /\ obj'[u] = obj[u]
  BY <1>1, <1>2 DEF TableInv, TypedTable
<1>5. TypedTable'
  <2>1. place' \in [Threads -> TablePlaces]
    BY <1>1 DEF TableInv, TypedTable, TablePlaces
  <2>2. ix' \in [Threads -> Nat] /\ obj' \in [Threads -> Objects \cup {NoHandle}]
    BY <1>1, <1>2, <1>3 DEF TableInv, TypedTable, Indexes
  <2>3. \A u \in Threads : place'[u] \in {"exit", "copy", "count"} => ix'[u] # 0
    BY <1>4 DEF TableInv, TypedTable
  <2> QED
    BY <1>1, <1>3, <2>1, <2>2, <2>3 DEF TableInv, TypedTable, Entries, Types
<1>6. \A u \in Threads : Filling(u)' <=> Filling(u) \/ u = t
  BY <1>4 DEF Filling
<1>7. ~Filling(t) /\ \A u \in Threads : Filling(u) => ix[u] # f
  BY <1>1, <1>3 DEF TableInv, Opened, Filling
<1>8. \A hi \in Indexes : Open(hi)' <=> Open(hi)
  BY <1>3, <1>4, <1>6, <1>7 DEF Open
<1>9. \A hi \in Indexes : Vacant(hi)' <=> Vacant(hi)
  BY <1>1, <1>3, <1>4, <1>7 DEF Vacant, Filling
<1>10. Numbered' /\ AllMeant'
  BY <1>1, <1>5, <1>8, MeaningsKept DEF AllMeant
<1>11. Opened'
  <2>1. \A hi \in Indexes : ents'[hi].object = NoHandle <=> Vacant(hi)'
    BY <1>1, <1>9 DEF TableInv, Opened
  <2>2. \A hi \in Indexes : Open(hi)' => ents'[hi].refcount = 0 /\ ents'[hi].thread = NoHandle
    BY <1>1, <1>8 DEF TableInv, Opened
  <2>3. \A u \in Threads : Filling(u)' => ix'[u] \in Indexes \ Range(free') /\ obj'[u] \in Objects
    BY <1>3, <1>4, <1>6 DEF TableInv, Opened
  <2>4. ASSUME NEW u \in Threads, place'[u] = "rest" PROVE ents'[ix'[u]].object = obj'[u]
    BY <1>1, <1>4, <2>4 DEF TableInv, Opened
  <2>5. \A u, v \in Threads : Filling(u)' /\ Filling(v)' /\ ix'[u] = ix'[v] => u = v
    BY <1>4, <1>6, <1>7 DEF TableInv, Opened
  <2> QED
    BY <1>1, <1>3, <2>1, <2>2, <2>3, <2>4, <2>5 DEF Opened
<1>12. \A u \in Threads : /\ place'[u] = "putback" <=> place[u] = "putback"
                          /\ place'[u] = "exit" <=> place[u] = "exit"
                          /\ place'[u] = "gone" <=> place[u] = "gone"
  BY <1>1, <1>4
<1>13. Holding'
  <2>1. \A hi \in Indexes : Number(hi)' = Number(hi)
    BY <1>1 DEF Number
  <2>2. \A hi \in Indexes : Holders(Number(hi))' = Holders(Number(hi))
    BY <1>1, <1>12, <2>1 DEF Holders
  <2>3. \A hi \in Indexes : CountedHere(hi)'
    BY <1>1, <2>2 DEF TableInv, Holding, CountedHere
  <2>4. \A u \in Threads : HeldAt(u)'
    BY <1>1, <1>12 DEF TableInv, Holding, HeldAt, Number
  <2> QED
    BY <1>1, <1>12, <2>3, <2>4 DEF TableInv, Holding
<1>14. Exited'
  <2>1. \A hi \in Indexes : ents[hi].thread \in Threads \cup {NoHandle}
    BY DEF TableInv, TypedTable, Entries
  <2> QED
    BY <1>1, <1>4, <1>12, <2>1 DEF TableInv, Exited
<1> QED
  BY <1>5, <1>10, <1>11, <1>13, <1>14 DEF TableInv

-----------------------------------------------------------------------------
(* expand_table: where an entry goes, and its twin *)

Keep(hi) == IF InTop(hi) THEN hi + count ELSE hi
Twin(hi) == IF InTop(hi) THEN hi ELSE hi + count

LEMMA Halves ==
  ASSUME count \in Nat \ {0}
  PROVE  /\ \A hi \in Indexes : /\ {Keep(hi), Twin(hi)} \subseteq 1 .. 2 * count - 1
                                /\ {Keep(hi), Twin(hi)} = {hi, hi + count}
                                /\ Keep(hi) # count /\ Twin(hi) # count /\ Keep(hi) # Twin(hi)
         /\ \A hi, hj \in Indexes : /\ Keep(hi) = Keep(hj) => hi = hj
                                    /\ Twin(hi) = Twin(hj) => hi = hj
                                    /\ Keep(hi) # Twin(hj)
         /\ \A j \in 1 .. 2 * count - 1 :
              j = count \/ \E hi \in Indexes : j = Keep(hi) \/ j = Twin(hi)
<1>1. \A hi \in Indexes : hi \in Nat /\ 1 <= hi /\ hi < count
  BY DEF Indexes
<1>2. ASSUME NEW hi \in Indexes
      PROVE  /\ {Keep(hi), Twin(hi)} \subseteq 1 .. 2 * count - 1
             /\ {Keep(hi), Twin(hi)} = {hi, hi + count}
             /\ Keep(hi) # count /\ Twin(hi) # count /\ Keep(hi) # Twin(hi)
  BY <1>1 DEF Keep, Twin
<1>3. ASSUME NEW hi \in Indexes, NEW hj \in Indexes
      PROVE  /\ Keep(hi) = Keep(hj) => hi = hj
             /\ Twin(hi) = Twin(hj) => hi = hj
             /\ Keep(hi) # Twin(hj)
  BY <1>1 DEF Keep, Twin
<1>4. ASSUME NEW j \in 1 .. 2 * count - 1, j # count
      PROVE  \E hi \in Indexes : j = Keep(hi) \/ j = Twin(hi)
  <2>1. CASE j < count
    <3>1. j \in Indexes /\ j \in {Keep(j), Twin(j)}
      BY <2>1 DEF Indexes, Keep, Twin
    <3> QED
      BY <3>1
  <2>2. CASE j > count
    <3>1. j - count \in Indexes /\ j \in {Keep(j - count), Twin(j - count)}
      BY <2>2 DEF Indexes, Keep, Twin
    <3> QED
      BY <3>1
  <2> QED
    BY <1>4, <2>1, <2>2
<1> QED
  BY <1>2, <1>3, <1>4

LEMMA ExpandedEntry ==
  ASSUME TypedTable, Numbered, NEW hi \in Indexes
  PROVE  LET k == Expanded[Keep(hi)]  w == Expanded[Twin(hi)] IN
         /\ k \in Entries /\ k.object = ents[hi].object /\ k.thread = ents[hi].thread
         /\ k.refcount = ents[hi].refcount
         /\ k.reuse + Keep(hi) = Number(hi) /\ \E m \in Nat : k.reuse = m * (2 * count)
         /\ w = Blank(w.reuse) /\ w \in Entries
         /\ w.reuse + Twin(hi) = Number(hi) + count /\ \E m \in Nat : w.reuse = m * (2 * count)
         /\ Number(hi) % (2 * count) = Keep(hi)
         /\ (Number(hi) + count) % (2 * count) = Twin(hi)
<1>1. /\ count \in Nat \ {0} /\ 2 * count \in Nat \ {0} /\ ents[hi] \in Entries
      /\ hi \in Nat /\ 1 <= hi /\ hi < count
  BY DEF TypedTable, Indexes
<1>2. PICK m \in Nat : ents[hi].reuse = (2 * m) * count \/ ents[hi].reuse = (2 * m + 1) * count
  <2>1. PICK k \in Nat : ents[hi].reuse = k * count
    BY DEF Numbered
  <2>2. k % 2 \in {0, 1} /\ k \div 2 \in Nat /\ k = 2 * (k \div 2) + (k % 2)
    OBVIOUS
  <2> QED
    BY <2>1, <2>2
<1>3. ents[hi].reuse = (2 * m) * count => ~InTop(hi)
  <2>1. ((2 * m) * count + 0) \div count = 2 * m
    BY <1>1, ModUnique
  <2>2. (2 * m) * count + 0 = (2 * m) * count
    BY <1>1
  <2>3. ((2 * m) * count) \div count = 2 * m
    BY <2>1, <2>2
  <2>4. (2 * m) % 2 # 1
    OBVIOUS
  <2> QED
    BY <2>3, <2>4 DEF InTop
<1>4. ents[hi].reuse = (2 * m + 1) * count => InTop(hi)
  <2>1. ((2 * m + 1) * count + 0) \div count = 2 * m + 1
    BY <1>1, ModUnique
  <2>2. (2 * m + 1) * count + 0 = (2 * m + 1) * count
    BY <1>1
  <2>3. ((2 * m + 1) * count) \div count = 2 * m + 1
    BY <2>1, <2>2
  <2>4. (2 * m + 1) % 2 = 1
    OBVIOUS
  <2> QED
    BY <2>3, <2>4 DEF InTop
<1>5. hi % count = hi /\ (hi + count) % count = hi /\ hi \in 1 .. 2 * count - 1 /\ hi + count \in 1 .. 2 * count - 1
  <2>1. (1 * count + hi) % count = hi
    BY <1>1, ModUnique
  <2>2. 1 * count + hi = hi + count
    BY <1>1
  <2>3. (hi + count) % count = hi
    BY <2>1, <2>2
  <2> QED
    BY <1>1, <2>3
<1>6. /\ Expanded[hi] = IF InTop(hi) THEN Blank(ents[hi].reuse + count) ELSE ents[hi]
      /\ Expanded[hi + count] = IF InTop(hi) THEN [ents[hi] EXCEPT !.reuse = @ - count]
                                ELSE Blank(ents[hi].reuse)
  BY <1>1, <1>5 DEF Expanded
<1>7. ents[hi].reuse \in Nat
  BY <1>1 DEF Entries
<1>10. PICK d \in Nat \ {0} : d = 2 * count
  BY <1>1
<1>11. PICK x \in 0 .. d - 1 : x = hi + count
  BY <1>1, <1>10
<1>12. hi \in 0 .. d - 1
  BY <1>1, <1>10
<1>8. CASE ents[hi].reuse = (2 * m) * count
  <2>1. ~InTop(hi) /\ Keep(hi) = hi /\ Twin(hi) = hi + count
    BY <1>3, <1>8 DEF Keep, Twin
  <2>2. ents[hi].reuse = m * (2 * count)
    BY <1>1, <1>8
  <2>3. (m * d + hi) % d = hi
    BY <1>12, ModUnique
  <2>4. (m * d + x) % d = x
    BY ModUnique
  <2>5. Number(hi) = m * d + hi /\ Number(hi) + count = m * d + x
    BY <1>1, <1>7, <1>10, <1>11, <2>2 DEF Number
  <2>6. Number(hi) % (2 * count) = hi /\ (Number(hi) + count) % (2 * count) = hi + count
    BY <1>10, <1>11, <2>3, <2>4, <2>5
  <2>7. Expanded[hi] = ents[hi] /\ Expanded[hi + count] = Blank(ents[hi].reuse)
    BY <1>6, <2>1
  <2>8. Blank(ents[hi].reuse) \in Entries /\ Blank(ents[hi].reuse).reuse = ents[hi].reuse
    BY <1>7 DEF Blank, Entries, Types
  <2>9. ents[hi].reuse + hi = Number(hi) /\ ents[hi].reuse + (hi + count) = Number(hi) + count
    BY <1>1, <1>7 DEF Number
  <2> QED
    BY <1>1, <2>1, <2>2, <2>6, <2>7, <2>8, <2>9
<1>9. CASE ents[hi].reuse = (2 * m + 1) * count
  <2>1. InTop(hi) /\ Keep(hi) = hi + count /\ Twin(hi) = hi
    BY <1>4, <1>9 DEF Keep, Twin
  <2>2. ents[hi].reuse - count = m * (2 * count) /\ ents[hi].reuse + count = (m + 1) * (2 * count)
        /\ m + 1 \in Nat /\ m * (2 * count) \in Nat
    BY <1>1, <1>9
  <2>3. (m * d + x) % d = x
    BY ModUnique
  <2>4. PICK q \in Nat : q = m + 1
    OBVIOUS
  <2>12. (q * d + hi) % d = hi
    BY <1>12, ModUnique
  <2>5. Number(hi) = m * d + x /\ Number(hi) + count = q * d + hi
    BY <1>1, <1>7, <1>10, <1>11, <2>2, <2>4 DEF Number
  <2>6. Number(hi) % (2 * count) = hi + count /\ (Number(hi) + count) % (2 * count) = hi
    BY <1>10, <1>11, <2>3, <2>5, <2>12
  <2>7. /\ Expanded[hi + count] = [ents[hi] EXCEPT !.reuse = @ - count]
        /\ Expanded[hi] = Blank(ents[hi].reuse + count)
    BY <1>6, <2>1
  <2>8. /\ Blank(ents[hi].reuse + count) \in Entries
        /\ Blank(ents[hi].reuse + count).reuse = ents[hi].reuse + count
    BY <1>1, <1>7 DEF Blank, Entries, Types
  <2> DEFINE e == [ents[hi] EXCEPT !.reuse = @ - count]
  <2>9. /\ e \in Entries /\ e.reuse = ents[hi].reuse - count /\ e.object = ents[hi].object
        /\ e.thread = ents[hi].thread /\ e.refcount = ents[hi].refcount
    <3>1. ents[hi].reuse - count \in Nat
      BY <2>2
    <3> QED
      BY <1>1, <3>1 DEF Entries
  <2> HIDE DEF e
  <2>10. Expanded[hi + count] = e
    BY <2>7 DEF e
  <2>11. /\ ents[hi].reuse - count + (hi + count) = Number(hi)
         /\ ents[hi].reuse + count + hi = Number(hi) + count
    BY <1>1, <1>7 DEF Number
  <2> QED
    BY <1>1, <2>1, <2>2, <2>6, <2>7, <2>8, <2>9, <2>10, <2>11
<1> QED
  BY <1>2, <1>8, <1>9

LEMMA ConsHeadTail ==
  ASSUME NEW R, NEW s \in Seq(R), NEW e \in R
  PROVE  /\ <<e>> \o s # <<>>
         /\ Head(<<e>> \o s) = e
         /\ Tail(<<e>> \o s) = s
  OBVIOUS

(* After the expansion the free list holds the twin of every entry. *)
LEMMA ExpandedFreeIs ==
  ASSUME TypedTable
  PROVE  /\ ExpandedFree # <<>>
         /\ Head(ExpandedFree) = count
         /\ Tail(ExpandedFree) \in Seq(1 .. 2 * count - 1)
         /\ \A i, j \in 1 .. Len(Tail(ExpandedFree)) :
              Tail(ExpandedFree)[i] = Tail(ExpandedFree)[j] => i = j
         /\ Range(Tail(ExpandedFree)) = {Twin(hi) : hi \in Indexes}
<1> DEFINE R == 1 .. 2 * count - 1  s == [hi \in 1 .. count - 1 |-> Twin(hi)]
<1>1. count \in Nat \ {0} /\ count \in R
  BY DEF TypedTable
<1>2. \A hi \in Indexes : Twin(hi) \in R
  BY <1>1, Halves
<1>3. s \in Seq(R) /\ Len(s) = count - 1 /\ \A hi \in Indexes : s[hi] = Twin(hi)
  BY <1>1, <1>2 DEF Indexes
<1>4. ExpandedFree = <<count>> \o s
  BY DEF ExpandedFree, Twin
<1>5. \A i, j \in 1 .. Len(s) : s[i] = s[j] => i = j
  BY <1>1, <1>3, Halves DEF Indexes
<1>6. Range(s) = {Twin(hi) : hi \in Indexes}
  BY <1>3 DEF Range, Indexes
<1> HIDE DEF s, R
<1>7. /\ <<count>> \o s # <<>>
      /\ Head(<<count>> \o s) = count
      /\ Tail(<<count>> \o s) = s
  BY <1>1, <1>3, ConsHeadTail
<1>8. ExpandedFree # <<>> /\ Head(ExpandedFree) = count /\ Tail(ExpandedFree) = s
  BY <1>4, <1>7
<1>9. s \in Seq(1 .. 2 * count - 1)
  BY <1>3 DEF R
<1> QED
  BY <1>5, <1>6, <1>8, <1>9

(* Assign with a full table: every entry moves or stays where its handle    *)
(* now belongs, and the thread gets the entry in the middle.                *)
LEMMA AssignExpandKeeps ==
  ASSUME TableInv, NEW t \in Threads, NEW o \in Objects, place[t] = "run", Exclusive,
         free = <<>>, count' = 2 * count, ents' = Expanded,
         ix' = [ix EXCEPT ![t] = Head(ExpandedFree)], free' = Tail(ExpandedFree),
         obj' = [obj EXCEPT ![t] = o], place' = [place EXCEPT ![t] = "object"],
         UNCHANGED <<held, issued>>
  PROVE  TableInv'
<1>1. /\ count \in Nat \ {0} /\ count' = 2 * count /\ count' \in Nat \ {0}
      /\ Indexes' = 1 .. 2 * count - 1 /\ count \in Indexes'
      /\ held' = held /\ issued' = issued
  BY DEF TableInv, TypedTable, Indexes
<1>2. /\ free' \in Seq(Indexes')
      /\ \A i, j \in 1 .. Len(free') : free'[i] = free'[j] => i = j
      /\ Range(free') = {Twin(hi) : hi \in Indexes}
      /\ ix' = [ix EXCEPT ![t] = count]
  BY <1>1, ExpandedFreeIs DEF TableInv
<1>3. /\ ix'[t] = count /\ place'[t] = "object" /\ obj'[t] = o
      /\ \A u \in Threads : u # t => ix'[u] = ix[u] /\ place'[u] = place[u]
  BY <1>2 DEF TableInv, TypedTable
<1>4. \A u \in Threads : ~Filling(u) /\ place[u] \notin {"copy", "count"}
  BY DEF Exclusive, Readers, Filling
<1>5. \A hi \in Indexes : ~Open(hi) /\ ents[hi].object # NoHandle
  BY <1>4 DEF TableInv, Opened, Open, Vacant, Filling, Range
<1>6. \A u \in Threads : Filling(u)' <=> u = t
  BY <1>3, <1>4 DEF Filling
(* The places of old entries, and of the new one in the middle, as values. *)
<1>7. PICK K, W, I, c : /\ K = [hi \in Indexes |-> Keep(hi)]
                        /\ W = [hi \in Indexes |-> Twin(hi)]
                        /\ I = Indexes /\ c = count
  OBVIOUS
<1>9. /\ \A hi \in I : /\ K[hi] \in Indexes' /\ W[hi] \in Indexes'
                       /\ {K[hi], W[hi]} = {hi, hi + c}
                       /\ K[hi] # c /\ W[hi] # c
      /\ \A hi, hj \in I : (K[hi] = K[hj] => hi = hj) /\ K[hi] # W[hj]
      /\ \A j \in Indexes' : j = c \/ \E hi \in I : j = K[hi] \/ j = W[hi]
      /\ c \in Indexes' /\ c \in Nat \ {0} /\ count' = 2 * c
  BY <1>1, <1>7, Halves
<1>10. ASSUME NEW hi \in I
       PROVE  /\ ents'[K[hi]] \in Entries /\ ents'[K[hi]].object = ents[hi].object
              /\ ents'[K[hi]].thread = ents[hi].thread
              /\ ents'[K[hi]].refcount = ents[hi].refcount
              /\ Number(K[hi])' = Number(hi)
              /\ \E m \in Nat : ents'[K[hi]].reuse = m * count'
              /\ ents'[W[hi]] = Blank(ents'[W[hi]].reuse) /\ ents'[W[hi]] \in Entries
              /\ Number(W[hi])' = Number(hi) + c
              /\ \E m \in Nat : ents'[W[hi]].reuse = m * count'
              /\ Number(hi) % count' = K[hi]
  <2>1. hi \in Indexes /\ K[hi] = Keep(hi) /\ W[hi] = Twin(hi)
    BY <1>7
  <2>2. Number(K[hi])' = ents'[K[hi]].reuse + K[hi] /\ Number(W[hi])' = ents'[W[hi]].reuse + W[hi]
    BY DEF Number
  <2> QED
    BY <1>1, <1>7, <2>1, <2>2, ExpandedEntry DEF TableInv
<1>11. ents'[c] = Blank(0) /\ Blank(0) \in Entries /\ ents'[c].reuse = 0 * count'
       /\ Number(c)' = c
  <2>1. ents'[c] = Blank(0)
    BY <1>1, <1>7 DEF Expanded
  <2>2. Blank(0) \in Entries /\ Blank(0).reuse = 0
    BY DEF Blank, Entries, Types
  <2>3. Number(c)' = ents'[c].reuse + c
    BY DEF Number
  <2> QED
    BY <1>1, <1>9, <2>1, <2>2, <2>3
<1>21. /\ \A hi \in I : /\ ents'[W[hi]].object = NoHandle /\ ents'[W[hi]].thread = NoHandle
                        /\ ents'[W[hi]].refcount = 0
       /\ ents'[c].object = NoHandle /\ ents'[c].thread = NoHandle /\ ents'[c].refcount = 0
  <2>1. \A n : Blank(n).object = NoHandle /\ Blank(n).thread = NoHandle /\ Blank(n).refcount = 0
    BY DEF Blank
  <2> QED
    BY <1>10, <1>11, <2>1
<1>12. TypedTable'
  <2>1. \A j \in Indexes' : ents'[j] \in Entries
    BY <1>9, <1>10, <1>11
  <2>2. ents' = [j \in Indexes' |-> ents'[j]]
    BY <1>1 DEF Expanded
  <2>3. ents' \in [Indexes' -> Entries]
    BY <2>1, <2>2
  <2>4. /\ place' \in [Threads -> TablePlaces]
        /\ ix' \in [Threads -> Nat]
        /\ obj' \in [Threads -> Objects \cup {NoHandle}]
    BY <1>1, <1>2 DEF TableInv, TypedTable, TablePlaces
  <2>5. \A u \in Threads : place'[u] \in {"exit", "copy", "count"} => ix'[u] # 0
    BY <1>3 DEF TableInv, TypedTable
  <2>6. Entries' = Entries
    BY DEF Entries, Types
  <2> QED
    BY <1>1, <1>2, <2>3, <2>4, <2>5, <2>6 DEF TableInv, TypedTable
<1>13. Numbered'
  <2>1. ASSUME NEW j \in Indexes' PROVE \E m \in Nat : ents'[j].reuse = m * count'
    <3>1. CASE j = c
      BY <1>11, <3>1
    <3>2. CASE j # c
      <4>1. PICK hi \in I : j = K[hi] \/ j = W[hi]
        BY <1>9, <3>2
      <4> QED
        BY <1>10, <4>1
    <3> QED
      BY <3>1, <3>2
  <2> QED
    BY <2>1 DEF Numbered
<1>14. \A j \in Indexes' : /\ Open(j)' <=> j = c \/ \E hi \in I : j = W[hi]
                           /\ Vacant(j)' <=> j = c \/ \E hi \in I : j = W[hi]
  <2>1. Range(free') = {W[hi] : hi \in I}
    BY <1>2, <1>7
  <2>2. \A u \in Threads : place'[u] = "object" <=> u = t
    BY <1>3, <1>4 DEF Filling
  <2>3. ix'[t] = c
    BY <1>3, <1>7
  <2> QED
    BY <1>6, <2>1, <2>2, <2>3 DEF Open, Vacant
<1>15. ASSUME NEW hi \in I, NEW j \in Indexes'
       PROVE  /\ j = K[hi] => ~Open(j)' /\ ~Vacant(j)'
              /\ j = W[hi] => Open(j)'
  <2>1. CASE j = K[hi]
    <3>1. j # c /\ ~\E hj \in I : j = W[hj]
      BY <1>9, <2>1
    <3>2. /\ Open(j)' <=> j = c \/ \E hj \in I : j = W[hj]
          /\ Vacant(j)' <=> j = c \/ \E hj \in I : j = W[hj]
      BY <1>14
    <3>3. j # W[hi]
      BY <1>9, <2>1
    <3> QED
      BY <3>1, <3>2, <3>3
  <2>2. CASE j = W[hi]
    BY <1>9, <1>14, <2>2
  <2> QED
    BY <2>1, <2>2
<1>16. AllMeant'
  <2>1. ASSUME NEW i \in issued PROVE Meant(i)'
    <3>1. PICK hi \in I : hi = i.handle % count
      BY <1>7, IssuedAt DEF TableInv
    <3>2. /\ i.handle <= Number(hi) /\ i.handle \in Nat
          /\ i.handle = Number(hi) => ents[hi].object = i.object
      BY <3>1, IssuedAt DEF TableInv, AllMeant, Meant
    <3>3. Number(hi) \in Nat
      BY <1>7, NumberOf DEF TableInv
    <3>4. i.handle % count' \in {K[hi], W[hi]}
      <4>1. i.handle % (2 * c) \in {hi, hi + c}
        BY <1>7, <1>9, <3>1, <3>2, ModDouble
      <4> QED
        BY <1>9, <4>1
    <3>5. CASE i.handle % count' = K[hi]
      <4>1. PICK j \in Indexes' : j = K[hi]
        BY <1>9
      <4>2. j \in Nat \ {0}
        BY <1>1, <4>1
      <4>3. Number(j)' = Number(hi) /\ ents'[j].object = ents[hi].object
        BY <1>10, <4>1 DEF Number
      <4>4. ~Open(j)'
        BY <1>15, <4>1
      <4>5. i.handle % count' = j
        BY <3>5, <4>1
      <4> QED
        BY <3>2, <4>2, <4>3, <4>4, <4>5 DEF Meant
    <3>6. CASE i.handle % count' = W[hi]
      <4>1. i.handle < Number(W[hi])'
        BY <1>9, <1>10, <3>2, <3>3
      <4>2. W[hi] # 0 /\ i.handle # Number(W[hi])' /\ i.handle <= Number(W[hi])'
        BY <1>9, <1>10, <3>2, <3>3, <4>1 DEF Indexes
      <4> QED
        BY <3>6, <4>1, <4>2 DEF Meant
    <3> QED
      BY <3>4, <3>5, <3>6
  <2> QED
    BY <1>1, <2>1 DEF AllMeant
<1>17. Opened'
  <2>1. ASSUME NEW j \in Indexes'
        PROVE  /\ ents'[j].object = NoHandle <=> Vacant(j)'
               /\ Open(j)' => ents'[j].refcount = 0 /\ ents'[j].thread = NoHandle
    <3>1. CASE j = c \/ \E hi \in I : j = W[hi]
      BY <1>14, <1>21, <3>1
    <3>2. CASE \E hi \in I : j = K[hi]
      <4>1. PICK hi \in I : j = K[hi]
        BY <3>2
      <4> QED
        <5>1. ~Open(j)' /\ ~Vacant(j)'
          BY <1>15, <4>1
        <5>2. ents'[j].object # NoHandle
          <6>1. ents'[j].object = ents[hi].object
            BY <1>10, <4>1
          <6> QED
            BY <1>5, <1>7, <6>1
        <5> QED
          BY <5>1, <5>2
    <3> QED
      BY <1>9, <3>1, <3>2
  <2>2. \A u \in Threads : Filling(u)' => ix'[u] \in Indexes' \ Range(free') /\ obj'[u] \in Objects
    <3>1. c \notin Range(free')
      BY <1>2, <1>7, <1>9
    <3> QED
      BY <1>3, <1>6, <1>7, <1>9, <3>1
  <2>3. \A u \in Threads : place'[u] # "rest"
    BY <1>3, <1>4 DEF Filling
  <2>4. \A u, v \in Threads : Filling(u)' /\ Filling(v)' /\ ix'[u] = ix'[v] => u = v
    BY <1>6
  <2> QED
    BY <1>2, <2>1, <2>2, <2>3, <2>4 DEF Opened
<1>18. \A u \in Threads : /\ place'[u] = "putback" <=> place[u] = "putback"
                          /\ place'[u] = "exit" <=> place[u] = "exit"
                          /\ place'[u] = "gone" <=> place[u] = "gone"
  BY <1>3
<1>19. Holding'
  <2>1. ASSUME NEW u \in Threads PROVE HeldAt(u)'
    <3>1. CASE held[u].handle = 0
      BY <1>1, <1>18, <3>1 DEF TableInv, Holding, HeldAt
    <3>2. CASE held[u].handle # 0
      <4>1. held[u] \in issued /\ Number(held[u].handle % count) = held[u].handle
        BY <3>2 DEF TableInv, Holding, HeldAt
      <4>2. PICK hi \in I : hi = held[u].handle % count
        BY <1>7, <4>1, IssuedAt DEF TableInv
      <4>3. held'[u].handle % count' = K[hi] /\ Number(K[hi])' = held'[u].handle
        BY <1>1, <1>10, <4>1, <4>2
      <4>4. place[u] = "putback" => ents'[K[hi]].refcount = 0
        BY <1>10, <4>2 DEF TableInv, Holding, HeldAt
      <4> QED
        BY <1>1, <1>18, <3>2, <4>1, <4>3, <4>4 DEF HeldAt, Number
    <3> QED
      BY <3>1, <3>2
  <2>2. \A n : Holders(n)' = Holders(n)
    BY <1>1, <1>18 DEF Holders
  <2>3. ASSUME NEW j \in Indexes' PROVE CountedHere(j)'
    <3>1. CASE \E hi \in I : j = K[hi]
      BY <1>7, <1>10, <2>2, <3>1 DEF TableInv, Holding, CountedHere
    <3>2. CASE j = c \/ \E hi \in I : j = W[hi]
      <4>1. ents'[j].refcount = 0
        BY <1>21, <3>2
      <4>2. PICK n : n = Number(j)'
        OBVIOUS
      <4>3. n \in Nat \ {0} /\ n % count' = j
        <5>1. PICK d, m : d = count' /\ m \in Nat /\ ents'[j].reuse = m * d
          BY <1>13 DEF Numbered
        <5>2. d \in Nat \ {0} /\ j \in 0 .. d - 1 /\ j # 0
          BY <1>1, <5>1
        <5>3. n = m * d + j
          BY <4>2, <5>1 DEF Number
        <5>4. (m * d + j) % d = j
          BY <5>1, <5>2, ModUnique
        <5>5. m * d + j \in Nat \ {0}
          BY <5>1, <5>2
        <5> QED
          BY <5>1, <5>3, <5>4, <5>5
      <4>4. \A i \in issued : i.handle # n
        <5>1. Open(j)'
          BY <1>14, <3>2
        <5>2. ASSUME NEW i \in issued, i.handle = n PROVE FALSE
          <6>1. i.handle < Number(j)'
            BY <1>1, <1>16, <4>3, <5>1, <5>2 DEF AllMeant, Meant
          <6> QED
            BY <4>2, <4>3, <5>2, <6>1
        <5> QED
          BY <5>2
      <4>5. Cardinality(Holders(n)) = 0
        BY <4>3, <4>4, NobodyHolds DEF TableInv
      <4> QED
        BY <2>2, <4>1, <4>2, <4>5 DEF CountedHere
    <3> QED
      BY <1>9, <3>1, <3>2
  <2> QED
    BY <1>1, <1>18, <2>1, <2>3 DEF TableInv, Holding
<1>20. Exited'
  <2>1. ASSUME NEW u \in Threads, NEW j \in Indexes', ents'[j].thread = u
        PROVE  \E hi \in I : j = K[hi] /\ hi <= j /\ ents[hi].thread = u
    <3>1. u # NoHandle
      BY TableAssumption
    <3>2. j # c /\ ~\E hi \in I : j = W[hi]
      BY <1>21, <2>1, <3>1
    <3>3. PICK hi \in I : j = K[hi]
      BY <1>9, <3>2
    <3>4. hi <= j
      <4>1. j \in {hi, hi + c} /\ hi \in Nat /\ c \in Nat
        <5>1. hi \in Nat
          BY <1>1, <1>7 DEF Indexes
        <5> QED
          BY <1>9, <3>3, <5>1
      <4> QED
        BY <4>1
    <3> QED
      BY <1>10, <2>1, <3>3, <3>4
  <2>2. ASSUME NEW u \in Threads, NEW j \in Indexes',
               place'[u] = "exit", j < ix'[u], ents'[j].thread = u
        PROVE  ents'[j].refcount % 2 = 0
    <3>1. PICK hi \in I : j = K[hi] /\ hi <= j /\ ents[hi].thread = u
      BY <2>1, <2>2
    <3>2. place[u] = "exit" /\ ix'[u] = ix[u] /\ ix[u] \in Nat
      BY <1>3, <2>2 DEF TableInv, TypedTable
    <3>5. hi \in Indexes /\ hi \in Nat /\ j \in Nat
      BY <1>1, <1>7, <3>1 DEF Indexes
    <3>3. hi \in Indexes /\ hi < ix[u]
      BY <2>2, <3>1, <3>2, <3>5
    <3>4. ents[hi].refcount % 2 = 0
      BY <3>1, <3>2, <3>3 DEF TableInv, Exited
    <3> QED
      BY <1>10, <3>1, <3>4
  <2>3. ASSUME NEW j \in Indexes', ents'[j].refcount % 2 = 1
        PROVE  ents'[j].thread = NoHandle \/ place'[ents'[j].thread] # "gone"
    <3>1. CASE j = c \/ \E hi \in I : j = W[hi]
      BY <1>21, <3>1
    <3>2. CASE \E hi \in I : j = K[hi]
      <4>1. PICK hi \in I : j = K[hi]
        BY <3>2
      <4>2. ents'[j].thread = ents[hi].thread /\ ents'[j].refcount = ents[hi].refcount
        BY <1>10, <4>1
      <4>3. ents[hi].thread \in Threads \cup {NoHandle}
        BY <1>7 DEF TableInv, TypedTable, Entries
      <4> QED
        BY <1>7, <1>18, <2>3, <4>2, <4>3 DEF TableInv, Exited
    <3> QED
      BY <1>9, <3>1, <3>2
  <2> QED
    BY <2>2, <2>3 DEF Exited
<1> QED
  BY <1>12, <1>13, <1>16, <1>17, <1>19, <1>20 DEF TableInv

-----------------------------------------------------------------------------
(* All steps *)

LEMMA TableNextKeeps ==
  ASSUME TableInv, TableNext
  PROVE  TableInv'
<1>1. ASSUME NEW t \in Threads, NEW o \in Objects, Assign(t, o) PROVE TableInv'
  <2>1. CASE free # <<>>
    BY <1>1, <2>1, AssignFreeKeeps
  <2>2. CASE free = <<>>
    BY <1>1, <2>2, AssignExpandKeeps DEF Assign
  <2> QED
    BY <2>1, <2>2
<1>2. ASSUME NEW t \in Threads, NEW h \in Handle, Takeout(t, h) \/ Release(t, h) \/ SetThread(t, h)
      PROVE  TableInv'
  BY <1>2, TakeoutKeeps, ReleaseKeeps, SetThreadKeeps
<1>3. ASSUME NEW t \in Threads, FillObject(t) \/ FillRest(t) \/ Putback(t) \/ PutbackFree(t)
      PROVE  TableInv'
  BY <1>3, FillObjectKeeps, FillRestKeeps, PutbackKeeps, PutbackFreeKeeps
<1>4. ASSUME NEW t \in Threads, ReleaseAll(t) PROVE TableInv'
  BY <1>4, ReleaseAllKeeps
<1>5. ASSUME NEW t \in Threads,
             Exit(t) \/ List(t) \/ StatsCopy(t) \/ StatsCount(t) \/ StatsFree(t)
      PROVE  TableInv'
  BY <1>5, AsideKeeps
<1>6. CASE TableCopied \/ DeleteCopy
  BY <1>6, AsideStays DEF TableCopied, DeleteCopy
<1> QED
  BY <1>1, <1>2, <1>3, <1>4, <1>5, <1>6 DEF TableNext

LEMMA TableInvariant == TableSpec => []TableInv
<1>1. TableInit => TableInv
  BY TableBegins
<1>2. TableInv /\ [TableNext]_tableVars => TableInv'
  <2>1. TableInv /\ UNCHANGED tableVars => TableInv'
    BY AsideStays DEF tableVars
  <2> QED
    BY <2>1, TableNextKeeps
<1> QED
  BY <1>1, <1>2, PTL DEF TableSpec

(* A handle that is found, or taken out, leads to the object it was assigned *)
(* to, and that of a free entry has never been handed out: oz_knl_handle.c   *)
(* whatever the threads do with it, and however often the table grows.      *)
THEOREM Meaningful == TableSpec => []HandlesKeepMeaning
<1>1. TableInv => HandlesKeepMeaning
  <2> SUFFICES ASSUME TableInv PROVE HandlesKeepMeaning
    OBVIOUS
  <2>1. ASSUME NEW i \in issued, Found(i.handle) PROVE ents[i.handle % count].object = i.object
    BY <2>1 DEF TableInv, AllMeant, Meant, Found
  <2>2. ASSUME NEW t \in Threads, held[t].handle # 0, place[t] # "putback"
        PROVE  /\ ents[held[t].handle % count].object = held[t].object
               /\ ents[held[t].handle % count].refcount >= 2
    <3>1. PICK n, hi : n = held[t].handle /\ hi = n % count
      OBVIOUS
    <3>2. /\ hi \in Indexes /\ ents[hi].object = held[t].object
          /\ Cardinality(Holders(n)) \in Nat \ {0}
          /\ \/ ents[hi].refcount = 2 * Cardinality(Holders(n))
             \/ ents[hi].refcount = 2 * Cardinality(Holders(n)) + 1
      BY <2>2, <3>1, HeldIsAssigned, HolderCounts
    <3>3. ents[hi].refcount >= 2
      BY <3>2
    <3> QED
      BY <3>1, <3>2, <3>3
  <2>3. ASSUME NEW j \in DOMAIN free PROVE Number(free[j]) \notin Handle
    <3>1. free[j] \in Indexes /\ Open(free[j])
      BY DEF TableInv, TypedTable, Open, Range
    <3>2. \A i \in issued : i.handle # Number(free[j])
      BY <3>1, OpenIsNew
    <3> QED
      BY <3>2 DEF Handle
  <2> QED
    BY <2>1, <2>2, <2>3 DEF HandlesKeepMeaning
<1> QED
  BY <1>1, TableInvariant, PTL

(* No entry of the table is lost, or free twice, and a thread that is gone   *)
(* has left none assigned: the free list and oz_knl_handle_release_all.     *)
THEOREM NoEntryLost == TableSpec => []EntriesKept
<1>1. TableInv => EntriesKept
  <2> SUFFICES ASSUME TableInv PROVE EntriesKept
    OBVIOUS
  <2>1. DOMAIN ents = Indexes /\ DOMAIN free = 1 .. Len(free)
    BY DEF TableInv, TypedTable
  <2>2. IsInjective(free)
    BY <2>1 DEF TableInv, Opened, IsInjective
  <2>3. Range(free) \subseteq Indexes
    BY <2>1 DEF TableInv, TypedTable, Range
  <2>4. \A t \in Threads : place[t] = "object" => ix[t] \notin Range(free)
    BY DEF TableInv, Opened, Filling
  <2>5. \A hi \in Indexes : ents[hi].object = NoHandle <=> Vacant(hi)
    BY DEF TableInv, Opened
  <2>6. Range(free) = {hi \in Indexes : ents[hi].object = NoHandle}
                      \ {ix[t] : t \in {u \in Threads : place[u] = "object"}}
    BY <2>3, <2>4, <2>5 DEF Vacant
  <2>7. ToSet(free) = Range(free)
    BY <2>1 DEF ToSet, Range
  <2> QED
    BY <2>1, <2>2, <2>6, <2>7 DEF TableInv, Exited, EntriesKept
<1> QED
  BY <1>1, TableInvariant, PTL
=============================================================================
