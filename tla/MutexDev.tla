------------------------------ MODULE MutexDev ------------------------------
(***************************************************************************)
(* The mutex device (oz_dev_mutex.c): a lock manager.  Channels open a     *)
(* named mutex and set its mode; requests that conflict wait in a queue;   *)
(* holders may leave an unblock request that completes when they are in    *)
(* somebody's way.  One mutex of one device unit is modelled.              *)
(*                                                                         *)
(* Every routine runs from LOCKMUTICIES to UNLKMUTICIES with all others    *)
(* locked out, so a routine without a loop is one step.  The two loops     *)
(* over the queue of waiting requests (setmode's and mutex_abort's) take a *)
(* step per iteration, and nothing else may start meanwhile.               *)
(*                                                                         *)
(* mutex -> refcount is the number of channels in opened.  A set of        *)
(* unblock requests stands for their queue, whose order is never used.     *)
(***************************************************************************)
EXTENDS LockModes, Integers, SequencesExt

CONSTANTS Chans,       \* the i/o channels assigned to the device
          Asked,       \* the modes that setmode requests ask for
          Expresses,   \* the values of OZ_IO_MUTEX_SETMODE_FLAG_EXPRESS used
          Aborts,      \* whether requests are ever aborted
          OneAtATime,  \* a channel's user has one setmode and one unblock request
                       \* outstanding at most, and none when it closes
          MaxWaiting,  \* bound on the queue of waiting requests
          None         \* no channel

ASSUME ChansAssumption == IsFiniteSet(Chans) /\ None \notin Chans
ASSUME ModesAssumption == Asked \subseteq Modes /\ Expresses \subseteq BOOLEAN
ASSUME ClientsAssumption == {Aborts, OneAtATime} \subseteq BOOLEAN
ASSUME BoundAssumption == MaxWaiting \in Nat

VARIABLES
  opened,      \* channels whose chnex -> mutex points to the mutex
  curmode,     \* chnex -> curmode
  counts,      \* active_readers, active_writers, block_readers, block_writers
  waiters,     \* mutex -> waiterqh
  unblockers,  \* mutex -> unblockerqh
  op,          \* which loop is under way, for which channel
  pos,         \* *lwaiter or *liopex, as a position in the queue
  crashed      \* oz_crash was called

vars == <<opened, curmode, counts, waiters, unblockers, op, pos, crashed>>

-----------------------------------------------------------------------------
Requests == [chan : Chans, oldmode : Modes, newmode : Modes, express : BOOLEAN]

Counts == [ar : Int, aw : Int, br : Int, bw : Int]

Idle == [what |-> "idle", chan |-> None]

TypeOK ==
  /\ opened \in SUBSET Chans
  /\ curmode \in [Chans -> Modes]
  /\ counts \in Counts
  /\ waiters \in Seq(Requests)
  /\ unblockers \in SUBSET [chan : Chans, oldmode : Modes]
  /\ op \in [what : {"idle", "grant", "close", "abort"}, chan : Chans \cup {None}]
  /\ pos \in 1 .. Len(waiters) + 1
  /\ crashed \in BOOLEAN

NoCounts == [ar |-> 0, aw |-> 0, br |-> 0, bw |-> 0]

(* mutex_assign *)
Init ==
  /\ opened = {}
  /\ curmode = [c \in Chans |-> "NL"]
  /\ counts = NoCounts
  /\ waiters = <<>>
  /\ unblockers = {}
  /\ op = Idle
  /\ pos = 1
  /\ crashed = FALSE

-----------------------------------------------------------------------------
(* trytoconvert *)

One(b) == IF b THEN 1 ELSE 0

(* The counts once the lock mode old is given up ... *)
Without(n, old) ==
  [ar |-> n.ar - One(old \in SelfRead),
   aw |-> n.aw - One(old \in SelfWrite),
   br |-> n.br - One(old \notin OthersRead),
   bw |-> n.bw - One(old \notin OthersWrite)]

(* ... whether mode new is compatible with what remains ... *)
CanHave(n, new) ==
  /\ new \in SelfRead => n.br = 0
  /\ new \in SelfWrite => n.bw = 0
  /\ new \notin OthersRead => n.ar = 0
  /\ new \notin OthersWrite => n.aw = 0

(* ... and the counts with mode new added. *)
With(n, new) ==
  [ar |-> n.ar + One(new \in SelfRead),
   aw |-> n.aw + One(new \in SelfWrite),
   br |-> n.br + One(new \notin OthersRead),
   bw |-> n.bw + One(new \notin OthersWrite)]

Converted(old, new) == With(Without(counts, old), new)

MayConvert(old, new) == CanHave(Without(counts, old), new)

-----------------------------------------------------------------------------
Unlocked == op = Idle /\ ~crashed

Outstanding(c) ==
  (\E i \in 1 .. Len(waiters) : waiters[i].chan = c) \/ (\E b \in unblockers : b.chan = c)

(* OZ_IO_MUTEX_CREATE *)
Create(c) ==
  /\ Unlocked /\ c \notin opened
  /\ opened' = opened \cup {c}
  /\ IF opened = {}
       THEN counts' = NoCounts /\ waiters' = <<>> /\ unblockers' = {}
       ELSE UNCHANGED <<counts, waiters, unblockers>>
  /\ UNCHANGED <<curmode, op, pos, crashed>>

(* OZ_IO_MUTEX_LOOKUP *)
Lookup(c) ==
  /\ Unlocked /\ c \notin opened /\ opened # {}
  /\ opened' = opened \cup {c}
  /\ UNCHANGED <<curmode, counts, waiters, unblockers, op, pos, crashed>>

(* Mutant of Grant: the mode given up stays counted. *)
GrantKeepOld(c, new, then) ==
  /\ curmode' = [curmode EXCEPT ![c] = new]
  /\ counts' = With(counts, new)
  /\ op' = IF new \in DownConvert(curmode[c]) THEN [what |-> then, chan |-> c] ELSE Idle
  /\ pos' = 1
  /\ UNCHANGED <<opened, waiters, unblockers, crashed>>

(* setmode grants the mode; a conversion that allows more than before      *)
(* starts the loop over the waiting requests.                              *)
Grant(c, new, then) ==
  /\ curmode' = [curmode EXCEPT ![c] = new]
  /\ counts' = Converted(curmode[c], new)
  /\ op' = IF new \in DownConvert(curmode[c]) THEN [what |-> then, chan |-> c] ELSE Idle
  /\ pos' = 1
  /\ UNCHANGED <<opened, waiters, unblockers, crashed>>

(* Mutant of MustWait: express goes before everything. *)
MustWaitUnlessExpress(c, new, express) ==
  /\ ~express
  /\ \/ new \in UpConvert(curmode[c]) /\ waiters # <<>>
     \/ ~MayConvert(curmode[c], new)

(* An up-convert that is not express waits behind those that wait. *)
MustWait(c, new, express) ==
  \/ ~express /\ new \in UpConvert(curmode[c]) /\ waiters # <<>>
  \/ ~MayConvert(curmode[c], new)

(* setmode puts the request at the end of the queue, and completes the     *)
(* unblock requests of those that are in its way.                          *)
Enqueue(c, new, express) ==
  /\ Len(waiters) < MaxWaiting
  /\ waiters' = Append(waiters, [chan |-> c, oldmode |-> curmode[c],
                                 newmode |-> new, express |-> express])
  /\ unblockers' = {b \in unblockers : b.oldmode \in Compat(new)}
  /\ UNCHANGED <<opened, curmode, counts, op, pos, crashed>>

(* OZ_IO_MUTEX_SETMODE.  With OZ_IO_MUTEX_SETMODE_FLAG_NOQUEUE a request   *)
(* that must wait is refused, which changes nothing.                       *)
SetMode(c) ==
  /\ Unlocked /\ c \in opened
  /\ OneAtATime => \A i \in 1 .. Len(waiters) : waiters[i].chan # c
  /\ \E new \in Asked, express \in Expresses :
       IF MustWait(c, new, express) THEN Enqueue(c, new, express)
                                    ELSE Grant(c, new, "grant")

-----------------------------------------------------------------------------
(* The loop over the waiting requests after a down-convert *)

Granting == op.what \in {"grant", "close"}

(* Mutant of Considered: only the first. *)
ConsideredFirst(i) == i = 1

(* "make sure it is either express or the first in the queue" *)
Considered(i) == waiters[i].express \/ i = 1

(* Mutant of GrantWaiter: a request that stays blocked is tried for ever. *)
GrantWaiterStays ==
  /\ Granting /\ pos <= Len(waiters) /\ Considered(pos)
  /\ LET w == waiters[pos] IN
       IF MayConvert(w.oldmode, w.newmode)
         THEN /\ counts' = Converted(w.oldmode, w.newmode)
              /\ curmode' = [curmode EXCEPT ![w.chan] = w.newmode]
              /\ waiters' = RemoveAt(waiters, pos)
         ELSE UNCHANGED <<counts, curmode, waiters>>
  /\ UNCHANGED <<opened, unblockers, op, pos, crashed>>

(* Try the conversion as the request saw it when it was queued. *)
GrantWaiter ==
  /\ Granting /\ pos <= Len(waiters) /\ Considered(pos)
  /\ LET w == waiters[pos] IN
       IF MayConvert(w.oldmode, w.newmode)
         THEN /\ counts' = Converted(w.oldmode, w.newmode)
              /\ curmode' = [curmode EXCEPT ![w.chan] = w.newmode]
              /\ waiters' = RemoveAt(waiters, pos)
              /\ UNCHANGED pos
         ELSE /\ pos' = pos + 1
              /\ UNCHANGED <<counts, curmode, waiters>>
  /\ UNCHANGED <<opened, unblockers, op, crashed>>

(* Any other request: lwaiter is not advanced, the loop goes round again. *)
PassOver ==
  /\ Granting /\ pos <= Len(waiters) /\ ~Considered(pos)
  /\ UNCHANGED vars

(* chnex -> mutex is reset and the reference count decremented. *)
CloseChan(c) ==
  /\ opened' = opened \ {c}
  /\ crashed' = (opened = {c} /\ (waiters # <<>> \/ unblockers # {}))

GrantsDone ==
  /\ Granting /\ pos > Len(waiters)
  /\ IF op.what = "close" THEN CloseChan(op.chan) ELSE UNCHANGED <<opened, crashed>>
  /\ op' = Idle
  /\ pos' = 1
  /\ UNCHANGED <<curmode, counts, waiters, unblockers>>

-----------------------------------------------------------------------------
(* Mutant of Close: the channel keeps its mode. *)
CloseKeepMode(c) ==
  /\ Unlocked
  /\ OneAtATime => ~Outstanding(c)
  /\ IF c \in opened
       THEN CloseChan(c) /\ UNCHANGED <<curmode, counts, waiters, unblockers, op, pos>>
       ELSE /\ curmode[c] # "NL" /\ crashed' = TRUE
            /\ UNCHANGED <<opened, curmode, counts, waiters, unblockers, op, pos>>

(* OZ_IO_MUTEX_CLOSE.  A channel that is not at null mode is set to it     *)
(* first, which fails if the channel has no mutex open.                    *)
Close(c) ==
  /\ Unlocked
  /\ OneAtATime => ~Outstanding(c)
  /\ \/ /\ curmode[c] # "NL" /\ c \in opened
        /\ Grant(c, "NL", "close")
     \/ /\ curmode[c] # "NL" /\ c \notin opened
        /\ crashed' = TRUE
        /\ UNCHANGED <<opened, curmode, counts, waiters, unblockers, op, pos>>
     \/ /\ curmode[c] = "NL" /\ c \in opened
        /\ CloseChan(c)
        /\ UNCHANGED <<curmode, counts, waiters, unblockers, op, pos>>

(* OZ_IO_MUTEX_UNBLOCK: completes at once if somebody could go were it not *)
(* for this channel, else it is queued.                                    *)
Unblock(c) ==
  /\ Unlocked /\ c \in opened
  /\ OneAtATime => \A b \in unblockers : b.chan # c
  /\ ~ \E i \in 1 .. Len(waiters) :
         CanHave(Without(Without(counts, curmode[c]), waiters[i].oldmode), waiters[i].newmode)
  /\ unblockers' = unblockers \cup {[chan |-> c, oldmode |-> curmode[c]]}
  /\ UNCHANGED <<opened, curmode, counts, waiters, op, pos, crashed>>

(* mutex_abort, for a channel being deassigned or by the user.  Which of   *)
(* the channel's requests oz_knl_ioabortok takes depends on the request    *)
(* that is aborted and on the processor mode.                              *)
AbortStart(c) ==
  /\ Aborts /\ Unlocked /\ c \in opened /\ Outstanding(c)
  /\ op' = [what |-> "abort", chan |-> c]
  /\ pos' = 1
  /\ UNCHANGED <<opened, curmode, counts, waiters, unblockers, crashed>>

AbortWaiter ==
  /\ op.what = "abort" /\ pos <= Len(waiters)
  /\ \/ waiters[pos].chan = op.chan /\ waiters' = RemoveAt(waiters, pos) /\ UNCHANGED pos
     \/ pos' = pos + 1 /\ UNCHANGED waiters
  /\ UNCHANGED <<opened, curmode, counts, unblockers, op, crashed>>

AbortUnblockers ==
  /\ op.what = "abort" /\ pos > Len(waiters)
  /\ \E gone \in SUBSET {b \in unblockers : b.chan = op.chan} : unblockers' = unblockers \ gone
  /\ op' = Idle
  /\ pos' = 1
  /\ UNCHANGED <<opened, curmode, counts, waiters, crashed>>

-----------------------------------------------------------------------------
Loop == GrantWaiter \/ PassOver \/ GrantsDone \/ AbortWaiter \/ AbortUnblockers

Request(c) == Create(c) \/ Lookup(c) \/ SetMode(c) \/ Close(c) \/ Unblock(c) \/ AbortStart(c)

Next == Loop \/ \E c \in Chans : Request(c)

Spec == Init /\ [][Next]_vars

(* A routine that has been entered goes on. *)
Fairness == WF_vars(Loop)

FairSpec == Spec /\ Fairness

-----------------------------------------------------------------------------
(* Properties *)

At(S) == {c \in Chans : curmode[c] \in S}

(* "number of locks granted that allow self to read", and so on: the four  *)
(* counters are what the channels hold.  A conversion subtracts the mode   *)
(* it thinks it replaces, so one stale mode makes them wrong for good.     *)
CountsExact ==
  /\ counts.ar = Cardinality(At(SelfRead))
  /\ counts.aw = Cardinality(At(SelfWrite))
  /\ counts.br = Cardinality(At(Modes \ OthersRead))
  /\ counts.bw = Cardinality(At(Modes \ OthersWrite))

(* All modes held at a time are compatible by oz_lock_compat, the table    *)
(* that trytoconvert does not look at.                                     *)
HoldersCompatible ==
  \A c, d \in Chans : c # d => curmode[c] \in Compat(curmode[d])

(* None of setmode's, close's and increfc's calls of oz_crash is reached.  *)
NeverCrashes == ~crashed

(* When no routine is under way, every waiting request that setmode would  *)
(* consider (the first, and the express ones) is really blocked.           *)
NobodyCouldGo ==
  op = Idle => \A i \in 1 .. Len(waiters) :
                 Considered(i) => ~MayConvert(waiters[i].oldmode, waiters[i].newmode)

(* setmode's loop over the waiting requests moves on at each turn: "loop   *)
(* through list of waiters for the mutex".                                 *)
LoopMoves == Granting /\ pos <= Len(waiters) => Considered(pos)

(* The loops end and the device is unlocked. *)
LoopsEnd == (op # Idle) ~> (op = Idle)

Abstract == INSTANCE LockTable

(* The channels see the abstract lock table. *)
ImplementsLockTable == Abstract!Spec
=============================================================================
