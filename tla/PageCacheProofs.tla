-------------------------- MODULE PageCacheProofs ---------------------------
(***************************************************************************)
(* Proofs about PageCache for any pages, keys, users and sections: a key    *)
(* has one page at most, who found a page keeps it, the counts of pages are *)
(* exact, no physical page is lost or used twice, and the users of the     *)
(* cache see the locks of KeyLocks.  Event flags are of no importance for   *)
(* this: they decide when a thread goes on, not what it then finds.  The    *)
(* last part is about them: who sleeps on a page it could lock is woken.    *)
(***************************************************************************)
EXTENDS PageCache, QueueLemmas, FiniteSetTheorems, TLAPS

-----------------------------------------------------------------------------
(* The inductive invariant *)

Labels == {"out", "scan", "alloc", "nomem", "clearfree", "memwait", "memwoken", "enter",
           "giveback", "lockwait", "lockwoken", "relock", "link", "signal"}

Places ==
  [pc : Labels, op : {"none", "find", "conv", "done"}, key : Keys \cup {None}, mode : Modes,
   page : Pages \cup {None}, cefs : SUBSET Flags]

(* The types, but for the bounds of the counts, which follow from what is   *)
(* counted.                                                                *)
PagesTyped ==
  /\ free \in SUBSET Pages /\ hash \in SUBSET Pages
  /\ key \in [Pages -> Keys \cup {None}]
  /\ refcount \in [Pages -> Int] /\ lockcount \in [Pages -> Int]
  /\ oldpages \in Seq(Pages)

WaitTyped ==
  /\ waitingforfreepage \in BOOLEAN /\ freepagevent \in BOOLEAN
  /\ event \in [Flags -> {0, 1}]
  /\ asleep \in [Procs -> Flags \cup {None}]
  /\ pmlock \in Procs \cup {None}

Typed == PagesTyped /\ WaitTyped /\ holds \in [Users -> Modes] /\ at \in [Procs -> Places]

Allocating == {"alloc", "nomem", "clearfree", "memwait", "memwoken"}
LockPending == {"lockwait", "lockwoken", "relock"}

(* What a thread has, according to where it is: a section ... *)
SectAt(l) ==
  /\ l.pc \in Allocating \cup {"out"}
  /\ l.pc \in Allocating => l.page = None

(* ... or a user of the cache that holds its page in mode h.  It has no lock *)
(* while it waits for one.                                                 *)
UserAt(l, h) ==
  /\ l.pc \in Allocating \cup {"scan"} => l.page = None
  /\ l.pc \in LockPending \cup {"enter", "giveback", "link"} => l.page # None
  /\ l.pc \notin {"out", "link", "signal"} => h = "NL"
  /\ l.page = None => h = "NL"
  /\ l.pc \notin {"out", "signal"} \/ l.page # None => l.key \in Keys
  /\ l.pc \in LockPending => l.op \in {"find", "conv"}

InPlace == (\A u \in Sects : SectAt(at[u])) /\ (\A u \in Users : UserAt(at[u], holds[u]))

(* Those that refer to page p, and those of them that have it locked *)
RefsTo(p) == {u \in Users : Refers(u) /\ page(u) = p}
In(m, p) == {u \in RefsTo(p) : holds[u] = m}

(* A lock count of n says that r read and w write. *)
Match(n, r, w) ==
  \/ w = {} /\ n = Cardinality(r)
  \/ n = -1 /\ r = {} /\ \E u \in Users : w = {u}

Counted == \A p \in Pages : /\ refcount[p] = Cardinality(RefsTo(p))
                            /\ Match(lockcount[p], In("PR", p), In("EX", p))

(* A thread has been given page p, which is not in the cache. *)
Owns(u, p) == page(u) = p /\ (u \in Users => ~Refers(u))

OwnedOnce ==
  /\ free \cap hash = {}
  /\ \A u \in Procs, p \in Pages : Owns(u, p) => p \notin free \cup hash
  /\ \A u, v \in Procs, p \in Pages : Owns(u, p) /\ Owns(v, p) => u = v

NoneLost == \A p \in Pages \ (free \cup hash) : \E u \in Procs : Owns(u, p)

(* The list of old pages *)
OldOnce == \A i, j \in 1 .. Len(oldpages) : oldpages[i] = oldpages[j] => i = j
OldInHash == Range(oldpages) \subseteq hash

(* A page that is not on it is going to be put there by one who found it.  *)
LinksAt(l) == l.pc = "link" \/ (l.pc \in LockPending /\ l.op = "find")
WillLink == \A p \in hash \ Range(oldpages) : \E u \in Users : page(u) = p /\ LinksAt(at[u])

IInv ==
  /\ Typed /\ InPlace
  /\ OnePagePerKey /\ FoundStays
  /\ Counted
  /\ OwnedOnce /\ NoneLost
  /\ OldOnce /\ OldInHash /\ WillLink

(* How the users of the cache hold the pages. *)
Mode == [k \in Keys |-> [u \in Users |-> IF Refers(u) /\ at[u].key = k THEN holds[u] ELSE "NL"]]

(* What is to be shown of each step. *)
Keeps == IInv' /\ [Abstract!Next]_Mode

-----------------------------------------------------------------------------
(* A thread goes on to l, and has what it had. *)

RefersAt(l) == l.page # None /\ l.pc \notin {"enter", "giveback"}

GoesTo(u, l) ==
  /\ l \in Places /\ l.page = at[u].page
  /\ l.page # None => l.key = at[u].key
  /\ u \in Users => /\ UserAt(l, holds[u])
                    /\ RefersAt(l) <=> RefersAt(at[u])
                    /\ LinksAt(at[u]) => LinksAt(l)
  /\ u \in Sects => SectAt(l)

LEMMA Where ==
  ASSUME IInv, NEW u \in Procs
  PROVE  /\ at[u] \in Places
         /\ u \in Users \/ u \in Sects
         /\ u \in Users => u \notin Sects /\ UserAt(at[u], holds[u]) /\ holds[u] \in Modes
         /\ u \in Sects => u \notin Users /\ SectAt(at[u])
  BY SetsAssumption DEF IInv, Typed, InPlace, Procs

LEMMA GoesToKeeps ==
  ASSUME IInv, NEW u \in Procs, WaitTyped', UNCHANGED <<pages, holds>>,
         NEW l, GoesTo(u, l), at' = [at EXCEPT ![u] = l]
  PROVE  Keeps
<1>1. Typed'
  BY DEF IInv, Typed, PagesTyped, GoesTo, pages
<1>2. at'[u] = l /\ \A v \in Procs \ {u} : at'[v] = at[v]
  BY DEF IInv, Typed
<1>3. \A v \in Procs : page(v)' = page(v)
  BY <1>2 DEF GoesTo, page
<1>4. \A v \in Users : Refers(v)' <=> Refers(v)
  BY <1>2 DEF GoesTo, Refers, RefersAt, page, pc, Procs
<1>5. \A p : RefsTo(p)' = RefsTo(p)
  BY <1>3, <1>4 DEF RefsTo, Procs
<1>6. \A m, p : In(m, p)' = In(m, p)
  BY <1>5 DEF In
<1>7. Counted'
  BY <1>5, <1>6 DEF pages, IInv, Counted, Match
<1>8. InPlace'
  <2>1. \A v \in Users : UserAt(at[v], holds[v])'
    BY <1>2 DEF GoesTo, IInv, InPlace, UserAt, Procs
  <2>2. \A v \in Sects : SectAt(at[v])'
    BY <1>2 DEF GoesTo, IInv, InPlace, SectAt, Procs
  <2> QED
    BY <2>1, <2>2 DEF InPlace
<1>9. OnePagePerKey'
  BY DEF pages, IInv, OnePagePerKey
<1>10. \A v \in Users : Refers(v) => at'[v].key = at[v].key
  BY <1>2 DEF GoesTo, Refers, page, Procs
<1>11. FoundStays'
  BY <1>3, <1>4, <1>10 DEF pages, IInv, FoundStays, Procs
<1>12. \A v \in Procs, p \in Pages : Owns(v, p)' <=> Owns(v, p)
  BY <1>3, <1>4 DEF Owns
<1>13. OwnedOnce' /\ NoneLost'
  BY <1>12 DEF pages, IInv, OwnedOnce, NoneLost
<1>14. \A v \in Users : LinksAt(at[v]) => LinksAt(at'[v])
  BY <1>2 DEF GoesTo, Procs
<1>15. OldOnce' /\ OldInHash' /\ WillLink'
  BY <1>3, <1>14 DEF pages, IInv, OldOnce, OldInHash, WillLink, LinksAt, Procs
<1>16. UNCHANGED Mode
  BY <1>4, <1>10 DEF Mode
<1> QED
  BY <1>1, <1>7, <1>8, <1>9, <1>11, <1>13, <1>15, <1>16 DEF Keeps, IInv

(* Waiting, waking up, and looking for memory *)

LEMMA WaitKeeps ==
  ASSUME IInv, NEW u \in Procs, Wait(u)
  PROVE  Keeps
<1> DEFINE l == [at[u] EXCEPT !.pc = IF pc(u) = "memwait" THEN "memwoken" ELSE "lockwoken"]
<1>1. at' = [at EXCEPT ![u] = l] /\ UNCHANGED <<pages, holds>>
  BY DEF Wait, GoTo, Awaited
<1>2. WaitTyped'
  BY DEF Wait, GoTo, Awaited, memory, events, IInv, Typed, WaitTyped, Flags
<1>3. GoesTo(u, l)
  BY Where DEF Wait, GoesTo, Places, Labels, Flags, UserAt, SectAt, RefersAt, LinksAt, Allocating,
               LockPending, pc, page
<1> QED
  BY <1>1, <1>2, <1>3, GoesToKeeps

LEMMA LockWokenKeeps ==
  ASSUME IInv, NEW u \in Procs, LockWoken(u)
  PROVE  Keeps
<1> DEFINE l == [at[u] EXCEPT !.pc = "relock", !.cefs = @ \cup {"cache"}]
<1>1. at' = [at EXCEPT ![u] = l] /\ UNCHANGED <<pages, holds>>
  BY DEF LockWoken
<1>2. WaitTyped'
  BY DEF LockWoken, memory, events, IInv, Typed, WaitTyped, Flags
<1>3. GoesTo(u, l)
  BY Where, ZenonT(60) DEF LockWoken, GoesTo, Places, Labels, Flags, UserAt, SectAt, RefersAt, LinksAt, Allocating,
               LockPending, pc, page
<1> QED
  BY <1>1, <1>2, <1>3, GoesToKeeps

LEMMA AllocNoneKeeps ==
  ASSUME IInv, NEW u \in Procs, AllocNone(u)
  PROVE  Keeps
<1> DEFINE l == [at[u] EXCEPT !.pc = "nomem"]
<1>1. at' = [at EXCEPT ![u] = l] /\ UNCHANGED <<pages, holds>>
  BY DEF AllocNone, GoTo, PmFree
<1>2. WaitTyped'
  BY DEF AllocNone, GoTo, PmFree, memory, events, IInv, Typed, WaitTyped, Flags
<1>3. GoesTo(u, l)
  BY Where DEF AllocNone, GoesTo, Places, Labels, Flags, UserAt, SectAt, RefersAt, LinksAt, Allocating,
               LockPending, pc, page
<1> QED
  BY <1>1, <1>2, <1>3, GoesToKeeps

LEMMA SayWaitingKeeps ==
  ASSUME IInv, NEW u \in Procs, SayWaiting(u)
  PROVE  Keeps
<1> DEFINE l == [at[u] EXCEPT !.pc = "clearfree"]
<1>1. at' = [at EXCEPT ![u] = l] /\ UNCHANGED <<pages, holds>>
  BY DEF SayWaiting, GoTo
<1>2. WaitTyped'
  BY DEF SayWaiting, GoTo, memory, events, IInv, Typed, WaitTyped, Flags
<1>3. GoesTo(u, l)
  BY Where DEF SayWaiting, GoesTo, Places, Labels, Flags, UserAt, SectAt, RefersAt, LinksAt, Allocating,
               LockPending, pc, page
<1> QED
  BY <1>1, <1>2, <1>3, GoesToKeeps

LEMMA ClearFreeKeeps ==
  ASSUME IInv, NEW u \in Procs, ClearFree(u)
  PROVE  Keeps
<1> DEFINE l == [at[u] EXCEPT !.pc = "memwait"]
<1>1. at' = [at EXCEPT ![u] = l] /\ UNCHANGED <<pages, holds>>
  BY DEF ClearFree, GoTo
<1>2. WaitTyped'
  BY DEF ClearFree, GoTo, memory, events, IInv, Typed, WaitTyped, Flags
<1>3. GoesTo(u, l)
  BY Where DEF ClearFree, GoesTo, Places, Labels, Flags, UserAt, SectAt, RefersAt, LinksAt, Allocating,
               LockPending, pc, page
<1> QED
  BY <1>1, <1>2, <1>3, GoesToKeeps

LEMMA MemWokenKeeps ==
  ASSUME IInv, NEW u \in Procs, MemWoken(u)
  PROVE  Keeps
<1> DEFINE l == [at[u] EXCEPT !.pc = "scan", !.cefs = @ \cup {"free"}]
<1>1. at' = [at EXCEPT ![u] = l] /\ UNCHANGED <<pages, holds>>
  BY DEF MemWoken
<1>2. WaitTyped'
  BY DEF MemWoken, memory, events, IInv, Typed, WaitTyped, Flags
<1>3. GoesTo(u, l)
  BY Where, ZenonT(60) DEF MemWoken, GoesTo, Places, Labels, Flags, UserAt, SectAt, RefersAt, LinksAt, Allocating,
               LockPending, pc, page
<1> QED
  BY <1>1, <1>2, <1>3, GoesToKeeps

LEMMA SectWokenKeeps ==
  ASSUME IInv, NEW u \in Procs, SectWoken(u)
  PROVE  Keeps
<1> DEFINE l == [at[u] EXCEPT !.pc = "alloc"]
<1>1. at' = [at EXCEPT ![u] = l] /\ UNCHANGED <<pages, holds>>
  BY DEF SectWoken, GoTo, PmFree
<1>2. WaitTyped'
  BY DEF SectWoken, GoTo, PmFree, memory, events, IInv, Typed, WaitTyped, Flags
<1>3. GoesTo(u, l)
  BY Where DEF SectWoken, GoesTo, Places, Labels, Flags, UserAt, SectAt, RefersAt, LinksAt, Allocating,
               LockPending, pc, page
<1> QED
  BY <1>1, <1>2, <1>3, GoesToKeeps

LEMMA SectAllocKeeps ==
  ASSUME IInv, NEW u \in Procs, SectAlloc(u)
  PROVE  Keeps
<1> DEFINE l == [at[u] EXCEPT !.pc = "alloc"]
<1>1. at' = [at EXCEPT ![u] = l] /\ UNCHANGED <<pages, holds>>
  BY DEF SectAlloc, GoTo
<1>2. WaitTyped'
  BY DEF SectAlloc, GoTo, memory, events, IInv, Typed, WaitTyped, Flags
<1>3. GoesTo(u, l)
  BY Where DEF SectAlloc, GoesTo, Places, Labels, Flags, UserAt, SectAt, RefersAt, LinksAt, Allocating,
               LockPending, pc, page
<1> QED
  BY <1>1, <1>2, <1>3, GoesToKeeps

LEMMA AstWakeKeeps ==
  ASSUME IInv, NEW u \in Procs, AstWake(u)
  PROVE  Keeps
<1>1. at' = [at EXCEPT ![u] = at[u]] /\ UNCHANGED <<pages, holds>>
  BY DEF AstWake, IInv, Typed
<1>2. WaitTyped'
  BY DEF AstWake, memory, IInv, Typed, WaitTyped, Flags
<1>3. GoesTo(u, at[u])
  BY Where DEF GoesTo
<1> QED
  BY <1>1, <1>2, <1>3, GoesToKeeps

(* The end of a routine *)
LEMMA Finished ==
  ASSUME NEW l \in Places
  PROVE  /\ Finish(l) \in Places
         /\ Finish(l).pc \in {"out", "signal"}
         /\ Finish(l).page = l.page /\ Finish(l).key = l.key
  BY DEF Finish, Places, Labels, Modes

LEMMA SignalKeeps ==
  ASSUME IInv, NEW u \in Procs, Signal(u)
  PROVE  Keeps
<1> DEFINE order == IF at[u].op = "done" THEN <<"cache", "free">> ELSE <<"free", "cache">>
           f == IF order[1] \in at[u].cefs THEN order[1] ELSE order[2]
           l == [at[u] EXCEPT !.cefs = at[u].cefs \ {f}]
<1>0. f \in Flags
  BY DEF Flags
<1>1. /\ at' = [at EXCEPT ![u] = Finish(l)] /\ UNCHANGED <<pages, holds, memory>>
      /\ pc(u) = "signal" /\ SetEvent(f)
  BY DEF Signal
<1> HIDE DEF f
<1>2. WaitTyped'
  BY <1>0, <1>1 DEF SetEvent, memory, IInv, Typed, WaitTyped
<1>3. l \in Places /\ l.page = at[u].page /\ l.key = at[u].key
  BY Where DEF Places
<1> HIDE DEF l
<1>4. GoesTo(u, Finish(l))
  BY <1>1, <1>3, Where, Finished
  DEF GoesTo, UserAt, SectAt, RefersAt, LinksAt, Allocating, LockPending, pc
<1> QED
  BY <1>1, <1>2, <1>4, GoesToKeeps

LEMMA FindKeeps ==
  ASSUME IInv, NEW u \in Procs, Find(u)
  PROVE  Keeps
<1>1. PICK k \in Keys, m \in Asked :
        at' = [at EXCEPT ![u] = [pc |-> "scan", op |-> "find", key |-> k, mode |-> m,
                                 page |-> None, cefs |-> {}]]
  BY DEF Find
<1> DEFINE l == [pc |-> "scan", op |-> "find", key |-> k, mode |-> m, page |-> None, cefs |-> {}]
<1>2. WaitTyped' /\ UNCHANGED <<pages, holds>>
  BY DEF Find, memory, events, IInv, Typed, WaitTyped
<1>3. l \in Places
  BY ClientsAssumption DEF Places, Labels, Flags, Modes
<1>4. GoesTo(u, l)
  BY <1>3, Where DEF Find, GoesTo, UserAt, RefersAt, LinksAt, Allocating, LockPending, pc, page
<1> QED
  BY <1>1, <1>2, <1>4, GoesToKeeps

-----------------------------------------------------------------------------
(* Lock counts *)

LEMMA RefsFinite ==
  ASSUME NEW p
  PROVE  /\ IsFiniteSet(RefsTo(p)) /\ Cardinality(RefsTo(p)) \in Nat
         /\ \A m : IsFiniteSet(In(m, p)) /\ Cardinality(In(m, p)) \in Nat
<1>1. IsFiniteSet(RefsTo(p))
  BY SetsAssumption, FS_Subset DEF RefsTo
<1>2. \A m : In(m, p) \in SUBSET RefsTo(p)
  BY DEF In
<1>3. \A m : IsFiniteSet(In(m, p))
  BY <1>1, <1>2, FS_Subset
<1> QED
  BY <1>1, <1>3, FS_CardinalityType

(* One that has a page in mode m gives it up. *)
LEMMA Unlocking ==
  ASSUME NEW n, NEW r, NEW w, IsFiniteSet(r), Match(n, r, w),
         NEW u \in Users, NEW m \in Modes, u \in r <=> m = "PR", u \in w <=> m = "EX"
  PROVE  Match(Unlocked(n, m), r \ {u}, w \ {u})
<1>1. CASE m = "NL"
  <2>1. r \ {u} = r /\ w \ {u} = w
    BY <1>1
  <2> QED
    BY <1>1, <2>1 DEF Unlocked
<1>2. CASE m = "PR"
  <2>1. w = {} /\ n = Cardinality(r) /\ w \ {u} = {} /\ u \in r
    BY <1>2 DEF Match
  <2>2. Cardinality(r \ {u}) = n - 1
    BY <2>1, FS_RemoveElement
  <2> QED
    BY <1>2, <2>1, <2>2 DEF Unlocked, Match
<1>3. CASE m = "EX"
  <2>1. w = {u} /\ r = {}
    BY <1>3 DEF Match
  <2>2. w \ {u} = {} /\ r \ {u} = {}
    BY <2>1
  <2> QED
    BY <1>3, <2>2, FS_EmptySet DEF Unlocked, Match
<1> QED
  BY <1>1, <1>2, <1>3 DEF Modes

(* One that has no lock gets one that fits: there is no writer then, and no  *)
(* reader if it is a writer.                                               *)
LEMMA Locking ==
  ASSUME NEW n, NEW r, NEW w, IsFiniteSet(r), Match(n, r, w),
         NEW u \in Users, NEW m \in Modes, u \notin r, u \notin w, Fits(n, m)
  PROVE  /\ Match(Locked(n, m), IF m = "PR" THEN r \cup {u} ELSE r,
                                IF m = "EX" THEN w \cup {u} ELSE w)
         /\ m # "NL" => w = {}
         /\ m = "EX" => r = {}
<1>1. CASE m = "NL"
  BY <1>1 DEF Locked
<1>2. CASE m = "PR"
  <2>1. w = {} /\ n = Cardinality(r)
    BY <1>2 DEF Match, Fits
  <2>2. Cardinality(r \cup {u}) = n + 1
    BY <2>1, FS_AddElement
  <2> QED
    BY <1>2, <2>1, <2>2 DEF Locked, Match
<1>3. CASE m = "EX"
  <2>1. w = {} /\ r = {}
    BY <1>3, FS_EmptySet DEF Match, Fits
  <2>2. w \cup {u} = {u}
    BY <2>1
  <2> QED
    BY <1>3, <2>1, <2>2 DEF Locked, Match
<1> QED
  BY <1>1, <1>2, <1>3 DEF Modes

-----------------------------------------------------------------------------
(* What Lock does: user u has page p, and the lock if it fits. *)

Locks(u, op, p, n, m) ==
  /\ at' \in [Procs -> Places] /\ \A v \in Procs \ {u} : at'[v] = at[v]
  /\ at'[u].page = p /\ at'[u].key = at[u].key /\ RefersAt(at'[u])
  /\ op = "find" => LinksAt(at'[u])
  /\ holds' \in [Users -> Modes] /\ \A v \in Users \ {u} : holds'[v] = holds[v]
  /\ holds'[u] = IF Fits(n, m) THEN m ELSE "NL"
  /\ UserAt(at'[u], holds'[u])
  /\ lockcount' \in [Pages -> Int] /\ \A q \in Pages \ {p} : lockcount'[q] = lockcount[q]
  /\ lockcount'[p] = IF Fits(n, m) THEN Locked(n, m) ELSE n

LEMMA LockMoves ==
  ASSUME IInv, NEW u \in Users, NEW op \in {"find", "conv"}, NEW p \in Pages, NEW n \in Int,
         NEW m \in Modes, NEW cefs \in SUBSET Flags, at[u].key \in Keys,
         Lock(u, op, p, n, m, cefs)
  PROVE  Locks(u, op, p, n, m)
<1> DEFINE l == [pc |-> IF Fits(n, m) THEN "link" ELSE "lockwait", op |-> op, key |-> at[u].key,
                 mode |-> m, page |-> p, cefs |-> cefs]
           new == IF Fits(n, m) /\ op = "conv" THEN Finish(l) ELSE l
<1>1. /\ at' = [at EXCEPT ![u] = new]
      /\ holds' = [holds EXCEPT ![u] = IF Fits(n, m) THEN m ELSE "NL"]
      /\ lockcount' = [lockcount EXCEPT ![p] = IF Fits(n, m) THEN Locked(n, m) ELSE n]
  BY DEF Lock
<1>2. l \in Places /\ l.page = p /\ l.key = at[u].key /\ l.op = op
      /\ l.pc = IF Fits(n, m) THEN "link" ELSE "lockwait"
  BY DEF Places, Labels
<1> HIDE DEF l
<1>3. /\ new \in Places /\ new.page = p /\ new.key = at[u].key
      /\ op = "find" => new.op = op /\ new.pc \in {"link", "lockwait"}
      /\ new.pc \in {"link", "lockwait", "out", "signal"}
      /\ new.pc = "lockwait" => new.op = op
      /\ ~Fits(n, m) => new.pc = "lockwait"
      /\ new.pc = "lockwait" => ~Fits(n, m)
  BY <1>2, Finished
<1> HIDE DEF new
<1>4. at' \in [Procs -> Places] /\ at'[u] = new /\ \A v \in Procs \ {u} : at'[v] = at[v]
  BY <1>1, <1>3 DEF IInv, Typed, Procs
<1>5. /\ holds' \in [Users -> Modes] /\ \A v \in Users \ {u} : holds'[v] = holds[v]
      /\ holds'[u] = IF Fits(n, m) THEN m ELSE "NL"
  BY <1>1 DEF IInv, Typed, Modes
<1>6. Locked(n, m) \in Int
  BY DEF Locked, Modes
<1>7. /\ lockcount' \in [Pages -> Int] /\ \A q \in Pages \ {p} : lockcount'[q] = lockcount[q]
      /\ lockcount'[p] = IF Fits(n, m) THEN Locked(n, m) ELSE n
  BY <1>1, <1>6 DEF IInv, Typed, PagesTyped
<1>8. RefersAt(new) /\ (op = "find" => LinksAt(new))
  BY <1>3, SetsAssumption DEF RefersAt, LinksAt, LockPending
<1>9. UserAt(new, holds'[u])
  BY <1>3, <1>5, SetsAssumption DEF UserAt, Allocating, LockPending
<1> QED
  BY <1>3, <1>4, <1>5, <1>7, <1>8, <1>9 DEF Locks

(* u moves to page p, or stays there: who refers to which page then. *)
LEMMA RefsMove ==
  ASSUME NEW u \in Users, NEW p \in Pages, page(u) = p \/ ~Refers(u),
         \A v \in Procs \ {u} : at'[v] = at[v],
         at'[u].page = p, RefersAt(at'[u])
  PROVE  /\ Refers(u)'
         /\ \A v \in Users \ {u} : (Refers(v)' <=> Refers(v)) /\ page(v)' = page(v)
         /\ \A q \in Pages : RefsTo(q)' = IF q = p THEN RefsTo(p) \cup {u} ELSE RefsTo(q)
<1>1. Refers(u)' /\ page(u)' = p
  BY DEF Refers, RefersAt, page, pc
<1>2. \A v \in Users \ {u} : (Refers(v)' <=> Refers(v)) /\ page(v)' = page(v)
  BY DEF Refers, page, pc, Procs
<1>3. ASSUME NEW q \in Pages
      PROVE  RefsTo(q)' = IF q = p THEN RefsTo(p) \cup {u} ELSE RefsTo(q)
  BY <1>1, <1>2 DEF RefsTo
<1> QED
  BY <1>1, <1>2, <1>3

LEMMA LockCounts ==
  ASSUME IInv, NEW u \in Users, NEW op \in {"find", "conv"}, NEW p \in Pages, NEW n \in Int,
         NEW m \in Modes, NEW cefs \in SUBSET Flags, at[u].key \in Keys,
         Lock(u, op, p, n, m, cefs), page(u) = p \/ ~Refers(u),
         Match(n, In("PR", p) \ {u}, In("EX", p) \ {u})
  PROVE  \A q \in Pages : Match(lockcount[q], In("PR", q), In("EX", q))' \/
                          (q # p /\ ~Match(lockcount[q], In("PR", q), In("EX", q)))
<1>1. /\ holds' \in [Users -> Modes] /\ \A v \in Users \ {u} : holds'[v] = holds[v]
      /\ holds'[u] = IF Fits(n, m) THEN m ELSE "NL"
      /\ \A q \in Pages \ {p} : lockcount'[q] = lockcount[q]
      /\ lockcount'[p] = IF Fits(n, m) THEN Locked(n, m) ELSE n
      /\ \A v \in Procs \ {u} : at'[v] = at[v]
      /\ at'[u].page = p /\ RefersAt(at'[u])
  <2>1. Locks(u, op, p, n, m)
    BY LockMoves
  <2> QED
    BY <2>1 DEF Locks
<1>2. \A q \in Pages : RefsTo(q)' = IF q = p THEN RefsTo(p) \cup {u} ELSE RefsTo(q)
  BY <1>1, RefsMove
<1>3. ASSUME NEW q \in Pages \ {p}, NEW h
      PROVE  In(h, q)' = In(h, q)
  <2>1. u \notin RefsTo(q)
    BY DEF RefsTo
  <2> QED
    BY <1>1, <1>2, <2>1 DEF In, RefsTo
<1>4. ASSUME NEW h
      PROVE  In(h, p)' = IF holds'[u] = h THEN (In(h, p) \ {u}) \cup {u} ELSE In(h, p) \ {u}
  BY <1>1, <1>2 DEF In, RefsTo
<1>5. CASE Fits(n, m)
  <2> DEFINE rs == In("PR", p) \ {u}  ws == In("EX", p) \ {u}
  <2>1. IsFiniteSet(rs) /\ u \notin rs /\ u \notin ws /\ Match(n, rs, ws)
    BY RefsFinite, FS_RemoveElement
  <2> HIDE DEF rs, ws
  <2>2. Match(Locked(n, m), IF m = "PR" THEN rs \cup {u} ELSE rs,
                            IF m = "EX" THEN ws \cup {u} ELSE ws)
    BY <1>5, <2>1, Locking
  <2> USE DEF rs, ws
  <2>3. Match(lockcount[p], In("PR", p), In("EX", p))'
    BY <1>1, <1>4, <1>5, <2>2 DEF Match
  <2> QED
    BY <1>1, <1>3, <2>3 DEF Match
<1>6. CASE ~Fits(n, m)
  <2>1. Match(lockcount[p], In("PR", p), In("EX", p))'
    BY <1>1, <1>4, <1>6 DEF Match
  <2> QED
    BY <1>1, <1>3, <2>1 DEF Match
<1> QED
  BY <1>5, <1>6

LEMMA NobodyElse ==
  ASSUME NEW u \in Users, NEW p \in Pages, NEW n \in Int, NEW m \in {"PR", "EX"}, Fits(n, m),
         Match(n, In("PR", p) \ {u}, In("EX", p) \ {u})
  PROVE  /\ In("EX", p) \ {u} = {}
         /\ m = "EX" => In("PR", p) \ {u} = {}
<1> DEFINE rs == In("PR", p) \ {u}  ws == In("EX", p) \ {u}
<1>1. IsFiniteSet(rs) /\ u \notin rs /\ u \notin ws /\ Match(n, rs, ws) /\ m \in Modes
  BY RefsFinite, FS_RemoveElement DEF Modes
<1> HIDE DEF rs, ws
<1>2. ws = {} /\ (m = "EX" => rs = {})
  BY <1>1, FS_EmptySet DEF Match, Fits
<1> QED
  BY <1>2 DEF rs, ws

(* The abstract step of it.  The others that have a lock on the key have it  *)
(* on page p.                                                              *)
LEMMA LockAbstract ==
  ASSUME IInv, NEW u \in Users, NEW op \in {"find", "conv"}, NEW p \in Pages, NEW n \in Int,
         NEW m \in Modes, NEW cefs \in SUBSET Flags, at[u].key \in Keys,
         Lock(u, op, p, n, m, cefs), page(u) = p \/ ~Refers(u),
         Match(n, In("PR", p) \ {u}, In("EX", p) \ {u}),
         \A v \in Users \ {u} : Refers(v) /\ at[v].key = at[u].key => page(v) = p,
         Refers(u) => (m = "EX" => holds[u] = "NL") /\ (m = "PR" => holds[u] \in {"NL", "EX"})
  PROVE  Abstract!Next
<1> DEFINE k == at[u].key
<1>1. /\ \A v \in Procs \ {u} : at'[v] = at[v]
      /\ at'[u].page = p /\ at'[u].key = k /\ RefersAt(at'[u])
      /\ \A v \in Users \ {u} : holds'[v] = holds[v]
      /\ holds'[u] = IF Fits(n, m) THEN m ELSE "NL"
  <2>1. Locks(u, op, p, n, m)
    BY LockMoves
  <2> QED
    BY <2>1 DEF Locks
<1>2. /\ Refers(u)'
      /\ \A v \in Users \ {u} : Refers(v)' <=> Refers(v)
  BY <1>1, RefsMove
<1> DEFINE New == [j \in Keys |-> [v \in Users |->
                     IF j = k /\ v = u THEN holds'[u] ELSE Mode[j][v]]]
<1>3. Mode' = New
  BY <1>1, <1>2 DEF Mode, Procs
<1>4. Mode' = [Mode EXCEPT ![k][u] = holds'[u]]
  <2>1. [Mode EXCEPT ![k][u] = holds'[u]] = New
    BY DEF Mode
  <2> QED
    BY <1>3, <2>1
<1>5. CASE holds'[u] = "NL"
  BY <1>4, <1>5 DEF Abstract!Next, Abstract!Unlock, Mode
<1>6. CASE holds'[u] # "NL"
  <2>1. Fits(n, m) /\ holds'[u] = m /\ m \in {"PR", "EX"}
    BY <1>1, <1>6 DEF Modes
  <2>2. /\ In("EX", p) \ {u} = {}
        /\ m = "EX" => In("PR", p) \ {u} = {}
    BY <2>1, NobodyElse
  <2>3. \A v \in Users \ {u}, h \in {"PR", "EX"} : Mode[k][v] = h => v \in In(h, p) \ {u}
    BY DEF Mode, In, RefsTo
  <2>4. ~Abstract!Others(k, u, "EX") /\ (m = "EX" => ~Abstract!Others(k, u, "PR"))
    BY <2>2, <2>3 DEF Abstract!Others, Mode
  <2>5. (m = "EX" => Mode[k][u] = "NL") /\ (m = "PR" => Mode[k][u] \in {"NL", "EX"})
    BY DEF Mode
  <2>6. Abstract!Lock(k, u, m)
    BY <1>4, <2>1, <2>4, <2>5 DEF Abstract!Lock, Mode
  <2> QED
    BY <2>1, <2>6 DEF Abstract!Next
<1> QED
  BY <1>5, <1>6

(* A user that has no page, or page p, refers to p then, which is the page   *)
(* of its key, and has the lock or waits for it.                           *)
LEMMA LockKeeps ==
  ASSUME IInv, NEW u \in Users, NEW op \in {"find", "conv"}, NEW p \in Pages, NEW n \in Int,
         NEW m \in Modes, NEW cefs \in SUBSET Flags, at[u].key \in Keys,
         Lock(u, op, p, n, m, cefs),
         page(u) = p \/ (page(u) = None /\ ~Refers(u)),
         Match(n, In("PR", p) \ {u}, In("EX", p) \ {u}),
         Refers(u) => (m = "EX" => holds[u] = "NL") /\ (m = "PR" => holds[u] \in {"NL", "EX"}),
         p \in hash => key[p] = at[u].key,
         p \notin hash => op = "find" /\ Owns(u, p),
         \A q \in hash \ {p} : key[q] # at[u].key,
         page(u) = p /\ LinksAt(at[u]) => op = "find",
         hash' = hash \cup {p}, key' = [key EXCEPT ![p] = at[u].key],
         refcount' = [refcount EXCEPT ![p] = IF Refers(u) THEN refcount[p] ELSE refcount[p] + 1],
         UNCHANGED <<free, oldpages>>, WaitTyped'
  PROVE  Keeps
<1>1. /\ at' \in [Procs -> Places] /\ \A v \in Procs \ {u} : at'[v] = at[v]
      /\ at'[u].page = p /\ at'[u].key = at[u].key /\ RefersAt(at'[u])
      /\ op = "find" => LinksAt(at'[u])
      /\ holds' \in [Users -> Modes] /\ \A v \in Users \ {u} : holds'[v] = holds[v]
      /\ UserAt(at'[u], holds'[u])
      /\ lockcount' \in [Pages -> Int]
  <2>1. Locks(u, op, p, n, m)
    BY LockMoves
  <2> QED
    BY <2>1 DEF Locks
<1>2. /\ Refers(u)'
      /\ \A v \in Users \ {u} : (Refers(v)' <=> Refers(v)) /\ page(v)' = page(v)
      /\ \A q \in Pages : RefsTo(q)' = IF q = p THEN RefsTo(p) \cup {u} ELSE RefsTo(q)
  BY <1>1, RefsMove
<1>3. page(u)' = p /\ \A v \in Procs \ {u} : page(v)' = page(v)
  BY <1>1 DEF page
<1>4. Typed'
  <2>1. hash' \in SUBSET Pages /\ free' \in SUBSET Pages /\ oldpages' \in Seq(Pages)
    BY DEF IInv, Typed, PagesTyped
  <2>2. key' \in [Pages -> Keys \cup {None}]
    BY DEF IInv, Typed, PagesTyped
  <2>3. refcount' \in [Pages -> Int]
    BY DEF IInv, Typed, PagesTyped
  <2> QED
    BY <1>1, <2>1, <2>2, <2>3 DEF Typed, PagesTyped
<1>5. InPlace'
  BY <1>1, SetsAssumption DEF IInv, InPlace, Procs
<1>6. key'[p] = at[u].key /\ \A q \in Pages \ {p} : key'[q] = key[q]
  BY DEF IInv, Typed, PagesTyped
<1>7. OnePagePerKey'
  BY <1>6 DEF IInv, OnePagePerKey, Typed, PagesTyped
<1>8. FoundStays'
  <2>1. ASSUME NEW v \in Users, v # u, Refers(v)
        PROVE  page(v) \in hash /\ page(v) \in Pages /\ key'[page(v)] = at[v].key
    BY <1>6, <2>1 DEF IInv, FoundStays, Typed, PagesTyped
  <2> QED
    BY <1>1, <1>2, <1>3, <1>6, <2>1 DEF FoundStays, Procs
<1>9. Counted'
  <2>1. u \in RefsTo(p) <=> Refers(u)
    BY SetsAssumption DEF RefsTo, Refers
  <2>2. refcount'[p] = Cardinality(RefsTo(p) \cup {u})
    <3>1. CASE Refers(u)
      <4>1. RefsTo(p) \cup {u} = RefsTo(p)
        BY <2>1, <3>1
      <4> QED
        BY <3>1, <4>1 DEF IInv, Counted, Typed, PagesTyped
    <3>2. CASE ~Refers(u)
      <4>1. Cardinality(RefsTo(p) \cup {u}) = Cardinality(RefsTo(p)) + 1
        BY <2>1, <3>2, RefsFinite, FS_AddElement
      <4> QED
        BY <3>2, <4>1 DEF IInv, Counted, Typed, PagesTyped
    <3> QED
      BY <3>1, <3>2
  <2>3. \A q \in Pages : refcount'[q] = Cardinality(RefsTo(q))'
    BY <1>2, <2>2 DEF IInv, Counted, Typed, PagesTyped
  <2>4. \A q \in Pages : Match(lockcount[q], In("PR", q), In("EX", q))' \/
                         (q # p /\ ~Match(lockcount[q], In("PR", q), In("EX", q)))
    BY LockCounts
  <2> QED
    BY <2>3, <2>4 DEF IInv, Counted
<1>10. \A v \in Procs, q \in Pages : Owns(v, q)' <=> Owns(v, q) /\ v # u
  BY <1>2, <1>3 DEF Owns
<1>11. OwnedOnce' /\ NoneLost'
  <2>1. p \notin free /\ \A v \in Procs : Owns(v, p) => v = u
    BY DEF IInv, OwnedOnce, Procs
  <2>2. OwnedOnce'
    BY <1>10, <2>1 DEF IInv, OwnedOnce
  <2>3. \A q \in Pages : Owns(u, q) => q = p
    BY SetsAssumption DEF Owns
  <2>4. NoneLost'
    BY <1>10, <2>3 DEF IInv, NoneLost
  <2> QED
    BY <2>2, <2>4
<1>12. OldOnce' /\ OldInHash'
  BY DEF IInv, OldOnce, OldInHash
<1>13. WillLink'
  <2> SUFFICES ASSUME NEW q \in hash', q \notin Range(oldpages)
               PROVE  \E v \in Users : page(v)' = q /\ LinksAt(at'[v])
    BY DEF WillLink, LinksAt
  <2>1. CASE q = p /\ op = "find"
    BY <1>1, <1>3, <2>1
  <2>2. CASE q # p \/ op # "find"
    <3>1. PICK v \in Users : page(v) = q /\ LinksAt(at[v])
      BY <2>2 DEF IInv, WillLink
    <3>2. v # u
      BY <2>2, <3>1, SetsAssumption DEF IInv, Typed, PagesTyped
    <3> QED
      BY <1>1, <1>3, <3>1, <3>2 DEF Procs
  <2> QED
    BY <2>1, <2>2
<1>14. Abstract!Next
  <2>1. \A v \in Users \ {u} : Refers(v) /\ at[v].key = at[u].key => page(v) = p
    BY DEF IInv, FoundStays
  <2> QED
    BY <2>1, LockAbstract
<1> QED
  BY <1>4, <1>5, <1>7, <1>8, <1>9, <1>11, <1>12, <1>13, <1>14 DEF Keeps, IInv

LEMMA ScanKeeps ==
  ASSUME IInv, NEW u \in Procs, Scan(u)
  PROVE  Keeps
<1>1. /\ u \in Users /\ at[u].key \in Keys /\ page(u) = None /\ ~Refers(u)
      /\ at[u].mode \in Modes /\ at[u].cefs \in SUBSET Flags
  BY Where DEF Scan, SectAt, UserAt, Allocating, Places, Refers, page, pc
<1>2. WaitTyped' /\ UNCHANGED <<free, hash, key, oldpages>>
  BY DEF Scan, memory, events, IInv, Typed, WaitTyped
<1>3. CASE InHash(at[u].key) = {}
  <2> DEFINE l == [at[u] EXCEPT !.pc = "alloc"]
  <2>1. at' = [at EXCEPT ![u] = l] /\ UNCHANGED <<pages, holds>>
    BY <1>3 DEF Scan, GoTo, pages
  <2>2. GoesTo(u, l)
    BY <1>1, Where DEF Scan, GoesTo, Places, Labels, UserAt, RefersAt, LinksAt, Allocating,
                       LockPending, pc, page
  <2> QED
    BY <1>2, <2>1, <2>2, GoesToKeeps
<1>4. CASE InHash(at[u].key) # {}
  <2>1. PICK p \in InHash(at[u].key) :
          /\ refcount' = [refcount EXCEPT ![p] = refcount[p] + 1]
          /\ Lock(u, "find", p, lockcount[p], at[u].mode, at[u].cefs)
    BY <1>4 DEF Scan
  <2>2. p \in Pages /\ p \in hash /\ key[p] = at[u].key
    BY DEF InHash, IInv, Typed, PagesTyped
  <2>3. \A q \in hash \ {p} : key[q] # at[u].key
    BY <2>2 DEF IInv, OnePagePerKey
  <2>4. lockcount[p] \in Int /\ key = [key EXCEPT ![p] = at[u].key] /\ hash = hash \cup {p}
    BY <2>2 DEF IInv, Typed, PagesTyped
  <2>5. Match(lockcount[p], In("PR", p) \ {u}, In("EX", p) \ {u})
    <3>1. \A h : In(h, p) \ {u} = In(h, p)
      BY <1>1 DEF In, RefsTo
    <3> QED
      BY <2>2, <3>1 DEF IInv, Counted
  <2> QED
    BY <1>1, <1>2, <2>1, <2>2, <2>3, <2>4, <2>5, LockKeeps
<1> QED
  BY <1>3, <1>4

LEMMA EnterKeeps ==
  ASSUME IInv, NEW u \in Procs, Enter(u)
  PROVE  Keeps
<1> DEFINE p == page(u)
<1>1. /\ u \in Users /\ at[u].key \in Keys /\ p \in Pages /\ ~Refers(u)
      /\ at[u].mode \in Modes /\ at[u].cefs \in SUBSET Flags
      /\ ~LinksAt(at[u])
  BY Where DEF Enter, SectAt, UserAt, Allocating, LockPending, LinksAt, Places, Refers, page, pc
<1>2. WaitTyped' /\ UNCHANGED <<free, oldpages>>
  BY DEF Enter, memory, events, IInv, Typed, WaitTyped
<1>3. CASE InHash(at[u].key) # {}
  <2> DEFINE l == [at[u] EXCEPT !.pc = "giveback"]
  <2>1. at' = [at EXCEPT ![u] = l] /\ UNCHANGED <<pages, holds>>
    BY <1>3 DEF Enter, GoTo, pages
  <2>2. GoesTo(u, l)
    BY <1>1, Where DEF Enter, GoesTo, Places, Labels, UserAt, RefersAt, LinksAt, Allocating,
                       LockPending, pc, page
  <2> QED
    BY <1>2, <2>1, <2>2, GoesToKeeps
<1>4. CASE InHash(at[u].key) = {}
  <2>1. /\ hash' = hash \cup {p} /\ key' = [key EXCEPT ![p] = at[u].key]
        /\ refcount' = [refcount EXCEPT ![p] = 1]
        /\ Lock(u, "find", p, 0, at[u].mode, at[u].cefs)
    BY <1>4 DEF Enter
  <2>2. Owns(u, p) /\ p \notin hash
    BY <1>1 DEF Owns, IInv, OwnedOnce
  <2>3. \A q \in hash : key[q] # at[u].key
    BY <1>4 DEF InHash
  <2>4. RefsTo(p) = {}
    BY <2>2 DEF RefsTo, IInv, FoundStays
  <2>5. refcount[p] = 0
    BY <1>1, <2>4, FS_EmptySet DEF IInv, Counted
  <2>6. Match(0, In("PR", p) \ {u}, In("EX", p) \ {u})
    <3>1. \A h : In(h, p) \ {u} = {}
      BY <2>4 DEF In
    <3> QED
      BY <3>1, FS_EmptySet DEF Match
  <2>7. refcount' = [refcount EXCEPT ![p] = IF Refers(u) THEN refcount[p] ELSE refcount[p] + 1]
    BY <1>1, <2>1, <2>5
  <2> HIDE DEF p
  <2>8. page(u) = p
    BY DEF p
  <2>9. PICK n \in Int : n = 0
    OBVIOUS
  <2>10. /\ Lock(u, "find", p, n, at[u].mode, at[u].cefs)
         /\ Match(n, In("PR", p) \ {u}, In("EX", p) \ {u})
    BY <2>1, <2>6, <2>9
  <2> QED
    BY <1>1, <1>2, <2>1, <2>2, <2>3, <2>7, <2>8, <2>10, LockKeeps
<1> QED
  BY <1>3, <1>4

LEMMA RelockKeeps ==
  ASSUME IInv, NEW u \in Procs, Relock(u)
  PROVE  Keeps
<1> DEFINE p == page(u)
<1>1. /\ u \in Users /\ at[u].key \in Keys /\ p \in Pages /\ Refers(u) /\ holds[u] = "NL"
      /\ at[u].mode \in Modes /\ at[u].cefs \in SUBSET Flags /\ at[u].op \in {"find", "conv"}
      /\ LinksAt(at[u]) => at[u].op = "find"
  BY Where DEF Relock, SectAt, UserAt, Allocating, LockPending, LinksAt, Places, Refers, page, pc
<1>2. WaitTyped' /\ UNCHANGED <<free, hash, key, refcount, oldpages>>
  BY DEF Relock, memory, events, IInv, Typed, WaitTyped
<1>3. p \in hash /\ key[p] = at[u].key
  BY <1>1 DEF IInv, FoundStays
<1>4. \A q \in hash \ {p} : key[q] # at[u].key
  BY <1>3 DEF IInv, OnePagePerKey
<1>5. /\ lockcount[p] \in Int /\ key = [key EXCEPT ![p] = at[u].key] /\ hash = hash \cup {p}
      /\ refcount = [refcount EXCEPT ![p] = IF Refers(u) THEN refcount[p] ELSE refcount[p] + 1]
  BY <1>1, <1>3 DEF IInv, Typed, PagesTyped
<1>6. Match(lockcount[p], In("PR", p) \ {u}, In("EX", p) \ {u})
  <2>1. In("PR", p) \ {u} = In("PR", p) /\ In("EX", p) \ {u} = In("EX", p)
    BY <1>1 DEF In
  <2> QED
    BY <1>1, <2>1 DEF IInv, Counted
<1>7. Lock(u, at[u].op, p, lockcount[p], at[u].mode, at[u].cefs)
  BY DEF Relock
<1> HIDE DEF p
<1>8. page(u) = p
  BY DEF p
<1> QED
  BY <1>1, <1>2, <1>3, <1>4, <1>5, <1>6, <1>7, <1>8, LockKeeps

LEMMA ConvKeeps ==
  ASSUME IInv, NEW u \in Procs, Conv(u)
  PROVE  Keeps
<1> DEFINE p == page(u)
<1>1. /\ u \in Users /\ at[u].key \in Keys /\ p \in Pages /\ Refers(u) /\ holds[u] \in Modes
      /\ ~LinksAt(at[u])
  BY Where DEF Conv, UserAt, LinksAt, LockPending, Places, Refers, page, pc
<1>2. WaitTyped' /\ UNCHANGED <<free, hash, key, refcount, oldpages>>
  BY DEF Conv, memory, events, IInv, Typed, WaitTyped
<1>3. p \in hash /\ key[p] = at[u].key
  BY <1>1 DEF IInv, FoundStays
<1>4. \A q \in hash \ {p} : key[q] # at[u].key
  BY <1>3 DEF IInv, OnePagePerKey
<1>5. /\ lockcount[p] \in Int /\ key = [key EXCEPT ![p] = at[u].key] /\ hash = hash \cup {p}
      /\ refcount = [refcount EXCEPT ![p] = IF Refers(u) THEN refcount[p] ELSE refcount[p] + 1]
  BY <1>1, <1>3 DEF IInv, Typed, PagesTyped
<1> DEFINE n == Unlocked(lockcount[p], holds[u])
           cefs(m) == IF holds[u] = "EX" \/ m = "NL" THEN {"cache"} ELSE {}
<1>6. PICK m \in Asked \ {holds[u]} :
        ~(holds[u] = "PR" /\ m = "EX") /\ Lock(u, "conv", p, n, m, cefs(m))
  BY DEF Conv
<1>7. m \in Modes /\ (m = "EX" => holds[u] = "NL") /\ (m = "PR" => holds[u] \in {"NL", "EX"})
  BY <1>1, <1>6, ClientsAssumption DEF Modes
<1>8. n \in Int
  BY <1>1, <1>5 DEF Unlocked, Modes
<1>9. Match(n, In("PR", p) \ {u}, In("EX", p) \ {u})
  <2>1. /\ IsFiniteSet(In("PR", p)) /\ Match(lockcount[p], In("PR", p), In("EX", p))
        /\ u \in In("PR", p) <=> holds[u] = "PR"
        /\ u \in In("EX", p) <=> holds[u] = "EX"
    BY <1>1, RefsFinite DEF IInv, Counted, In, RefsTo
  <2> QED
    BY <1>1, <2>1, Unlocking
<1>10. cefs(m) \in SUBSET Flags
  BY DEF Flags
<1> HIDE DEF p, n, cefs
<1>11. page(u) = p
  BY DEF p
<1> QED
  BY <1>1, <1>2, <1>3, <1>4, <1>5, <1>6, <1>7, <1>8, <1>9, <1>10, <1>11, LockKeeps

-----------------------------------------------------------------------------
(* A page is let go, and linked to the list of old pages. *)

LEMMA DoneKeeps ==
  ASSUME IInv, NEW u \in Procs, Done(u)
  PROVE  Keeps
<1>0. PICK p \in Pages : p = page(u)
  BY Where DEF Done, Places, page
<1> DEFINE l == [pc |-> "signal", op |-> "done", key |-> None, mode |-> "NL", page |-> None,
                 cefs |-> {"cache"} \cup IF refcount[p] = 1 /\ waitingforfreepage
                                         THEN {"free"} ELSE {}]
<1>1. /\ u \in Users /\ at[u].key \in Keys /\ Refers(u) /\ holds[u] \in Modes
      /\ ~LinksAt(at[u])
  BY Where DEF Done, UserAt, LinksAt, LockPending, Places, Refers, page, pc
<1>2. /\ lockcount' = [lockcount EXCEPT ![p] = Unlocked(lockcount[p], holds[u])]
      /\ refcount' = [refcount EXCEPT ![p] = refcount[p] - 1]
      /\ holds' = [holds EXCEPT ![u] = "NL"]
      /\ at' = [at EXCEPT ![u] = l]
      /\ UNCHANGED <<free, hash, key, oldpages>>
  BY <1>0 DEF Done
<1>3. l \in Places /\ l.page = None /\ UserAt(l, "NL") /\ ~RefersAt(l)
  BY DEF Places, Labels, Modes, Flags, UserAt, Allocating, LockPending, RefersAt
<1> HIDE DEF l
<1>4. at'[u] = l /\ at' \in [Procs -> Places] /\ \A v \in Procs \ {u} : at'[v] = at[v]
  BY <1>2, <1>3 DEF IInv, Typed
<1>5. /\ holds' \in [Users -> Modes] /\ holds'[u] = "NL"
      /\ \A v \in Users \ {u} : holds'[v] = holds[v]
  BY <1>1, <1>2 DEF IInv, Typed, Modes
<1>6. Unlocked(lockcount[p], holds[u]) \in Int
  BY <1>1 DEF Unlocked, Modes, IInv, Typed, PagesTyped
<1>7. Typed'
  <2>1. WaitTyped'
    BY DEF Done, events, IInv, Typed, WaitTyped
  <2>2. PagesTyped'
    BY <1>1, <1>2, <1>6 DEF IInv, Typed, PagesTyped
  <2> QED
    BY <1>4, <1>5, <2>1, <2>2 DEF Typed
<1>8. InPlace'
  BY <1>1, <1>3, <1>4, <1>5, SetsAssumption DEF IInv, InPlace, Procs
<1>9. /\ page(u)' = None /\ ~Refers(u)'
      /\ \A v \in Procs \ {u} : page(v)' = page(v) /\ (Refers(v)' <=> Refers(v))
  BY <1>3, <1>4 DEF page, pc, Refers, RefersAt
<1>10. OnePagePerKey' /\ FoundStays'
  BY <1>2, <1>4, <1>9 DEF IInv, OnePagePerKey, FoundStays, Procs
<1>11. \A q \in Pages : RefsTo(q)' = RefsTo(q) \ {u}
  BY <1>9 DEF RefsTo, Procs
<1>12. ASSUME NEW h, NEW q \in Pages
       PROVE  In(h, q)' = In(h, q) \ {u}
  BY <1>5, <1>11 DEF In, RefsTo
<1>13. Counted'
  <2>1. ASSUME NEW q \in Pages \ {p}
        PROVE  u \notin RefsTo(q)
    BY <1>0 DEF RefsTo
  <2>2. \A q \in Pages \ {p} : RefsTo(q)' = RefsTo(q)
    BY <1>11, <2>1
  <2>3. \A h : \A q \in Pages \ {p} : In(h, q)' = In(h, q)
    BY <1>12, <2>1 DEF In
  <2>4. \A q \in Pages \ {p} : refcount'[q] = refcount[q] /\ lockcount'[q] = lockcount[q]
    BY <1>2 DEF IInv, Typed, PagesTyped
  <2>5. \A q \in Pages \ {p} : /\ refcount'[q] = Cardinality(RefsTo(q))'
                               /\ Match(lockcount[q], In("PR", q), In("EX", q))'
    BY <2>2, <2>3, <2>4 DEF IInv, Counted, Match
  <2>6. refcount'[p] = Cardinality(RefsTo(p))'
    <3>1. u \in RefsTo(p)
      BY <1>0, <1>1 DEF RefsTo
    <3>2. Cardinality(RefsTo(p) \ {u}) = Cardinality(RefsTo(p)) - 1
      BY <3>1, RefsFinite, FS_RemoveElement
    <3> QED
      BY <1>1, <1>2, <1>11, <3>2 DEF IInv, Counted, Typed, PagesTyped
  <2>7. Match(lockcount[p], In("PR", p), In("EX", p))'
    <3>1. IsFiniteSet(In("PR", p)) /\ Match(lockcount[p], In("PR", p), In("EX", p))
      BY RefsFinite DEF IInv, Counted
    <3>2. (u \in In("PR", p) <=> holds[u] = "PR") /\ (u \in In("EX", p) <=> holds[u] = "EX")
      BY <1>0, <1>1 DEF In, RefsTo
    <3>3. Match(Unlocked(lockcount[p], holds[u]), In("PR", p) \ {u}, In("EX", p) \ {u})
      BY <1>1, <3>1, <3>2, Unlocking
    <3>4. lockcount'[p] = Unlocked(lockcount[p], holds[u])
      BY <1>1, <1>2 DEF IInv, Typed, PagesTyped
    <3> QED
      BY <1>1, <1>12, <3>3, <3>4 DEF Match
  <2> QED
    BY <2>5, <2>6, <2>7 DEF Counted
<1>14. \A v \in Procs, q \in Pages : Owns(v, q)' <=> Owns(v, q)
  BY <1>1, <1>9, SetsAssumption DEF Owns
<1>15. OwnedOnce' /\ NoneLost'
  BY <1>2, <1>14 DEF IInv, OwnedOnce, NoneLost
<1>16. OldOnce' /\ OldInHash' /\ WillLink'
  BY <1>1, <1>2, <1>4, <1>9 DEF IInv, OldOnce, OldInHash, WillLink, LinksAt, Procs
<1>17. Abstract!Next
  <2> DEFINE k == at[u].key
             New == [j \in Keys |-> [v \in Users |->
                       IF j = k /\ v = u THEN "NL" ELSE Mode[j][v]]]
  <2>1. Mode' = New
    BY <1>1, <1>4, <1>5, <1>9 DEF Mode, Procs
  <2>2. [Mode EXCEPT ![k][u] = "NL"] = New
    BY <1>1 DEF Mode
  <2>3. Mode' = [Mode EXCEPT ![k][u] = "NL"]
    BY <2>1, <2>2
  <2> QED
    BY <1>1, <2>3 DEF Abstract!Next, Abstract!Unlock, Mode
<1> QED
  BY <1>7, <1>8, <1>10, <1>13, <1>15, <1>16, <1>17 DEF Keeps, IInv

(* Others step alike: what they have, and what they refer to, is as it was.  *)
LEMMA AsBefore ==
  ASSUME IInv, NEW u \in Procs, UNCHANGED <<refcount, lockcount, holds>>,
         NEW l \in Places, at' = [at EXCEPT ![u] = l],
         u \in Users => /\ UserAt(l, holds[u]) /\ (RefersAt(l) <=> RefersAt(at[u]))
                        /\ RefersAt(l) => l.page = at[u].page /\ l.key = at[u].key,
         u \in Sects => SectAt(l)
  PROVE  /\ at' \in [Procs -> Places] /\ at'[u] = l /\ page(u)' = l.page
         /\ \A v \in Procs \ {u} : at'[v] = at[v] /\ page(v)' = page(v)
         /\ \A v \in Users : /\ Refers(v)' <=> Refers(v)
                             /\ Refers(v) => page(v)' = page(v) /\ at'[v].key = at[v].key
         /\ InPlace' /\ Counted' /\ UNCHANGED Mode
<1>1. at' \in [Procs -> Places] /\ at'[u] = l /\ \A v \in Procs \ {u} : at'[v] = at[v]
  BY DEF IInv, Typed
<1>2. page(u)' = l.page /\ \A v \in Procs \ {u} : page(v)' = page(v)
  BY <1>1 DEF page
<1>3. \A v \in Users : /\ Refers(v)' <=> Refers(v)
                       /\ Refers(v) => page(v)' = page(v) /\ at'[v].key = at[v].key
  BY <1>1, <1>2 DEF Refers, RefersAt, page, pc, Procs
<1>4. InPlace'
  BY <1>1 DEF IInv, InPlace, Procs
<1>5. \A q : RefsTo(q)' = RefsTo(q)
  BY <1>3 DEF RefsTo
<1>6. \A m, q : In(m, q)' = In(m, q)
  BY <1>5 DEF In
<1>7. Counted'
  BY <1>5, <1>6 DEF IInv, Counted, Match
<1>8. UNCHANGED Mode
  BY <1>3 DEF Mode
<1> QED
  BY <1>1, <1>2, <1>3, <1>4, <1>7, <1>8

LEMMA LinkKeeps ==
  ASSUME IInv, NEW u \in Procs, Link(u)
  PROVE  Keeps
<1> DEFINE l == Finish(at[u])
           rest == RemoveFirst(oldpages, page(u))
<1>1. /\ u \in Users /\ u \notin Sects /\ page(u) \in Pages /\ Refers(u) /\ at[u] \in Places
      /\ at[u].key \in Keys
  BY Where DEF Link, SectAt, UserAt, Allocating, LockPending, Places, Refers, page, pc
<1>2. /\ l \in Places /\ l.pc \in {"out", "signal"} /\ l.page = at[u].page /\ l.key = at[u].key
  BY <1>1, Finished
<1>3. /\ at' = [at EXCEPT ![u] = l] /\ oldpages' = Append(rest, page(u))
      /\ UNCHANGED <<free, hash, key, refcount, lockcount, holds, memory, events>>
  BY DEF Link
<1> HIDE DEF l
<1>4. UserAt(l, holds[u]) /\ RefersAt(l) /\ RefersAt(at[u])
  BY <1>1, <1>2 DEF UserAt, Allocating, LockPending, RefersAt, Refers, page, pc
<1>5. /\ at' \in [Procs -> Places] /\ at'[u] = l /\ page(u)' = l.page
      /\ \A v \in Procs \ {u} : at'[v] = at[v] /\ page(v)' = page(v)
      /\ \A v \in Users : /\ Refers(v)' <=> Refers(v)
                          /\ Refers(v) => page(v)' = page(v) /\ at'[v].key = at[v].key
      /\ InPlace' /\ Counted' /\ UNCHANGED Mode
  BY <1>1, <1>2, <1>3, <1>4, AsBefore
<1>6. oldpages \in Seq(Pages) /\ \A i, j \in 1 .. Len(oldpages) : oldpages[i] = oldpages[j] => i = j
  BY DEF IInv, Typed, PagesTyped, OldOnce
<1>7. /\ rest \in Seq(Pages) /\ Range(rest) = Range(oldpages) \ {page(u)}
      /\ \A i, j \in 1 .. Len(rest) : rest[i] = rest[j] => i = j
  BY <1>6, RemoveFirstOnce
<1> HIDE DEF rest
<1>8. /\ oldpages' \in Seq(Pages) /\ Range(oldpages)' = Range(oldpages) \cup {page(u)}
      /\ \A i, j \in 1 .. Len(oldpages') : oldpages'[i] = oldpages'[j] => i = j
  <2>1. page(u) \notin Range(rest)
    BY <1>7
  <2>2. /\ Append(rest, page(u)) \in Seq(Pages)
        /\ Range(Append(rest, page(u))) = Range(rest) \cup {page(u)}
        /\ \A i, j \in 1 .. Len(Append(rest, page(u))) :
             Append(rest, page(u))[i] = Append(rest, page(u))[j] => i = j
    BY <1>1, <1>7, <2>1, AppendOnce
  <2>3. Range(oldpages)' = Range(oldpages')
    OBVIOUS
  <2> QED
    BY <1>3, <1>7, <2>2, <2>3
<1>9. Typed'
  BY <1>3, <1>5, <1>8 DEF memory, events, IInv, Typed, PagesTyped, WaitTyped
<1>10. OnePagePerKey' /\ FoundStays'
  BY <1>3, <1>5 DEF IInv, OnePagePerKey, FoundStays
<1>11. \A v \in Procs, q \in Pages : Owns(v, q)' <=> Owns(v, q)
  BY <1>2, <1>5 DEF Owns, page
<1>12. OwnedOnce' /\ NoneLost'
  BY <1>3, <1>11 DEF IInv, OwnedOnce, NoneLost
<1>13. OldOnce' /\ OldInHash'
  BY <1>1, <1>3, <1>8 DEF IInv, OldOnce, OldInHash, FoundStays
<1>14. WillLink'
  BY <1>3, <1>5, <1>8 DEF IInv, WillLink, LinksAt, Procs
<1> QED
  BY <1>5, <1>9, <1>10, <1>12, <1>13, <1>14 DEF Keeps, IInv

-----------------------------------------------------------------------------
(* Physical pages are allocated and freed. *)

(* A page to which nobody refers is taken: it was free, or in the cache.     *)
LEMMA TakesPage ==
  ASSUME IInv, NEW u \in Procs, pc(u) = "alloc", NEW p \in free \cup hash, RefsTo(p) = {},
         at' = [at EXCEPT ![u].pc = Got(u), ![u].page = p],
         free' = free \ {p}, hash' = hash \ {p},
         key' \in [Pages -> Keys \cup {None}], \A q \in Pages \ {p} : key'[q] = key[q],
         oldpages' \in Seq(Pages), Range(oldpages') = Range(oldpages) \ {p}, OldOnce',
         WaitTyped', UNCHANGED <<refcount, lockcount, holds>>
  PROVE  Keeps
<1> DEFINE l == [at[u] EXCEPT !.pc = Got(u), !.page = p]
<1>1. p \in Pages /\ at[u] \in Places /\ page(u) = None
  BY Where DEF IInv, Typed, PagesTyped, SectAt, UserAt, Allocating, page, pc
<1>2. at' = [at EXCEPT ![u] = l]
  OBVIOUS
<1>3. /\ l \in Places /\ l.page = p /\ l.pc = Got(u) /\ l.key = at[u].key
  BY <1>1 DEF Places, Labels, Got
<1> HIDE DEF l
<1>4. u \in Users => UserAt(l, holds[u]) /\ ~RefersAt(l) /\ ~RefersAt(at[u])
  BY <1>1, <1>3, Where, SetsAssumption
  DEF Got, UserAt, Allocating, LockPending, RefersAt, page, pc
<1>5. u \in Sects => SectAt(l)
  BY <1>3 DEF Got, SectAt, Allocating
<1>6. /\ at' \in [Procs -> Places] /\ at'[u] = l /\ page(u)' = l.page
      /\ \A v \in Procs \ {u} : at'[v] = at[v] /\ page(v)' = page(v)
      /\ \A v \in Users : /\ Refers(v)' <=> Refers(v)
                          /\ Refers(v) => page(v)' = page(v) /\ at'[v].key = at[v].key
      /\ InPlace' /\ Counted' /\ UNCHANGED Mode
  BY <1>2, <1>3, <1>4, <1>5, AsBefore
<1>7. Typed'
  BY <1>6 DEF IInv, Typed, PagesTyped
<1>8. OnePagePerKey'
  BY DEF IInv, OnePagePerKey, Typed, PagesTyped
<1>9. FoundStays'
  <2> SUFFICES ASSUME NEW v \in Users, Refers(v)'
               PROVE  page(v)' \in hash' /\ key'[page(v)'] = at'[v].key
    BY DEF FoundStays
  <2>1. Refers(v) /\ page(v)' = page(v) /\ at'[v].key = at[v].key
    BY <1>6
  <2>2. page(v) \in hash /\ page(v) # p /\ page(v) \in Pages /\ key[page(v)] = at[v].key
    BY <2>1 DEF IInv, FoundStays, RefsTo, Typed, PagesTyped
  <2> QED
    BY <2>1, <2>2
<1>10. ASSUME NEW v \in Procs, NEW q \in Pages
       PROVE  Owns(v, q)' <=> Owns(v, q) \/ (v = u /\ q = p)
  <2>1. CASE v = u
    <3>1. ~Owns(u, q)
      BY <1>1, SetsAssumption DEF Owns
    <3>2. u \in Users => ~Refers(u)'
      BY <1>1, <1>6 DEF Refers
    <3> QED
      BY <1>3, <1>6, <2>1, <3>1, <3>2 DEF Owns
  <2>2. CASE v # u
    BY <1>6, <2>2 DEF Owns
  <2> QED
    BY <2>1, <2>2
<1>11. OwnedOnce' /\ NoneLost'
  <2>1. \A v \in Procs : ~Owns(v, p)
    BY <1>1 DEF IInv, OwnedOnce
  <2>2. OwnedOnce'
    BY <1>1, <1>10, <2>1 DEF IInv, OwnedOnce
  <2>3. NoneLost'
    BY <1>1, <1>10 DEF IInv, NoneLost
  <2> QED
    BY <2>2, <2>3
<1>12. OldInHash'
  BY DEF IInv, OldInHash
<1>13. WillLink'
  <2> SUFFICES ASSUME NEW q \in hash', q \notin Range(oldpages')
               PROVE  \E v \in Users : page(v)' = q /\ LinksAt(at'[v])
    BY DEF WillLink, LinksAt
  <2>1. q \in hash /\ q \notin Range(oldpages) /\ q \in Pages
    BY DEF IInv, Typed, PagesTyped
  <2>2. PICK v \in Users : page(v) = q /\ LinksAt(at[v])
    BY <2>1 DEF IInv, WillLink
  <2>3. v # u
    BY <1>1, <2>1, <2>2, SetsAssumption
  <2> QED
    BY <1>6, <2>2, <2>3 DEF Procs
<1> QED
  BY <1>6, <1>7, <1>8, <1>9, <1>11, <1>12, <1>13 DEF Keeps, IInv

LEMMA AllocFreeKeeps ==
  ASSUME IInv, NEW u \in Procs, AllocFree(u)
  PROVE  Keeps
<1>1. PICK p \in free : /\ free' = free \ {p}
                        /\ at' = [at EXCEPT ![u].pc = Got(u), ![u].page = p]
  BY DEF AllocFree
<1>2. /\ pc(u) = "alloc" /\ pmlock' = None
      /\ UNCHANGED <<hash, key, refcount, lockcount, oldpages, waitingforfreepage, freepagevent,
                     events, holds>>
  BY DEF AllocFree
<1>3. p \notin hash
  BY DEF IInv, OwnedOnce
<1>4. RefsTo(p) = {}
  BY <1>3 DEF IInv, FoundStays, RefsTo
<1>5. hash' = hash \ {p} /\ Range(oldpages') = Range(oldpages) \ {p}
  BY <1>2, <1>3 DEF IInv, OldInHash
<1>6. WaitTyped' /\ OldOnce'
  BY <1>2 DEF events, IInv, Typed, WaitTyped, OldOnce
<1>7. /\ key' \in [Pages -> Keys \cup {None}] /\ \A q \in Pages \ {p} : key'[q] = key[q]
      /\ oldpages' \in Seq(Pages)
  BY <1>2 DEF IInv, Typed, PagesTyped
<1> QED
  BY <1>1, <1>2, <1>4, <1>5, <1>6, <1>7, TakesPage

LEMMA ReclaimKeeps ==
  ASSUME IInv, NEW u \in Procs, Reclaim(u)
  PROVE  Keeps
<1>1. /\ pc(u) = "alloc" /\ pmlock' = None /\ free = {}
      /\ UNCHANGED <<free, refcount, lockcount, waitingforfreepage, freepagevent, events, holds>>
  BY DEF Reclaim
<1>2. PICK i \in Idle : /\ at' = [at EXCEPT ![u].pc = Got(u), ![u].page = oldpages[i]]
                        /\ hash' = hash \ {oldpages[i]}
                        /\ key' = [key EXCEPT ![oldpages[i]] = None]
                        /\ oldpages' = RemoveAt(oldpages, i)
  BY DEF Reclaim
<1>3. oldpages \in Seq(Pages) /\ \A j, l \in 1 .. Len(oldpages) : oldpages[j] = oldpages[l] => j = l
  BY DEF IInv, Typed, PagesTyped, OldOnce
<1>4. PICK p \in Pages : p = oldpages[i]
  BY <1>3 DEF Idle
<1>5. p \in hash /\ refcount[p] = 0
  BY <1>3, <1>4 DEF Idle, IInv, OldInHash, Range
<1>6. RefsTo(p) = {}
  BY <1>5, RefsFinite, FS_EmptySet DEF IInv, Counted
<1>7. /\ oldpages' \in Seq(Pages) /\ Range(oldpages') = Range(oldpages) \ {p}
      /\ \A j, l \in 1 .. Len(oldpages') : oldpages'[j] = oldpages'[l] => j = l
  <2>1. i \in 1 .. Len(oldpages)
    BY DEF Idle
  <2>2. /\ RemoveAt(oldpages, i) \in Seq(Pages)
        /\ Range(RemoveAt(oldpages, i)) = Range(oldpages) \ {oldpages[i]}
        /\ \A j, l \in 1 .. Len(RemoveAt(oldpages, i)) :
             RemoveAt(oldpages, i)[j] = RemoveAt(oldpages, i)[l] => j = l
    BY <1>3, <2>1, RemoveAtOnce
  <2> QED
    BY <1>2, <1>4, <2>2
<1>8. WaitTyped' /\ OldOnce'
  BY <1>1, <1>7 DEF events, IInv, Typed, WaitTyped, OldOnce
<1>9. key' \in [Pages -> Keys \cup {None}] /\ \A q \in Pages \ {p} : key'[q] = key[q]
  BY <1>2, <1>4 DEF IInv, Typed, PagesTyped
<1>10. free' = free \ {p}
  BY <1>1
<1> QED
  BY <1>1, <1>2, <1>4, <1>5, <1>6, <1>7, <1>8, <1>9, <1>10, TakesPage

(* A page is freed by the thread that had it. *)
LEMMA FreesPage ==
  ASSUME IInv, NEW u \in Procs, NEW p \in Pages, page(u) = p, u \in Users => ~Refers(u),
         ~LinksAt(at[u]), FreePage(u),
         NEW l \in Places, at' = [at EXCEPT ![u] = l], l.page = None,
         u \in Users => UserAt(l, holds[u]), u \in Sects => SectAt(l)
  PROVE  Keeps
<1>1. /\ free' = free \cup {p}
      /\ UNCHANGED <<hash, key, refcount, lockcount, oldpages, waitingforfreepage, pmlock, holds>>
  BY DEF FreePage
<1>2. WaitTyped'
  BY <1>1 DEF FreePage, SetEvent, events, IInv, Typed, WaitTyped, Flags
<1>3. ~RefersAt(l) /\ (u \in Users => ~RefersAt(at[u]))
  BY DEF RefersAt, Refers, page, pc
<1>4. /\ at' \in [Procs -> Places] /\ at'[u] = l /\ page(u)' = l.page
      /\ \A v \in Procs \ {u} : at'[v] = at[v] /\ page(v)' = page(v)
      /\ \A v \in Users : /\ Refers(v)' <=> Refers(v)
                          /\ Refers(v) => page(v)' = page(v) /\ at'[v].key = at[v].key
      /\ InPlace' /\ Counted' /\ UNCHANGED Mode
  BY <1>1, <1>3, AsBefore
<1>5. Typed'
  BY <1>1, <1>2, <1>4 DEF IInv, Typed, PagesTyped
<1>6. OnePagePerKey' /\ FoundStays' /\ OldOnce' /\ OldInHash'
  BY <1>1, <1>4 DEF IInv, OnePagePerKey, FoundStays, OldOnce, OldInHash
<1>7. \A v \in Procs, q \in Pages : Owns(v, q)' <=> Owns(v, q) /\ v # u
  BY <1>4, SetsAssumption DEF Owns
<1>8. Owns(u, p)
  BY DEF Owns
<1>9. OwnedOnce'
  BY <1>1, <1>7, <1>8 DEF IInv, OwnedOnce
<1>10. NoneLost'
  <2>1. \A q \in Pages : Owns(u, q) => q = p
    BY DEF Owns
  <2> QED
    BY <1>1, <1>7, <2>1 DEF IInv, NoneLost
<1>11. WillLink'
  BY <1>1, <1>4 DEF IInv, WillLink, LinksAt, Procs
<1> QED
  BY <1>4, <1>5, <1>6, <1>9, <1>10, <1>11 DEF Keeps, IInv

LEMMA GiveBackKeeps ==
  ASSUME IInv, NEW u \in Procs, GiveBack(u)
  PROVE  Keeps
<1> DEFINE l == [at[u] EXCEPT !.pc = "scan", !.page = None]
<1>1. at' = [at EXCEPT ![u] = l] /\ FreePage(u) /\ pc(u) = "giveback"
  BY DEF GiveBack
<1>2. /\ u \in Users /\ u \notin Sects /\ page(u) \in Pages /\ ~Refers(u) /\ ~LinksAt(at[u])
      /\ l \in Places /\ l.page = None /\ UserAt(l, holds[u])
  BY <1>1, Where, ZenonT(60) DEF SectAt, UserAt, Allocating, LockPending, LinksAt, Places, Labels, Refers,
                     page, pc
<1> HIDE DEF l
<1> QED
  BY <1>1, <1>2, FreesPage

LEMMA SectFreeKeeps ==
  ASSUME IInv, NEW u \in Procs, SectFree(u)
  PROVE  Keeps
<1> DEFINE l == [at[u] EXCEPT !.page = None]
<1>1. at' = [at EXCEPT ![u] = l] /\ FreePage(u) /\ pc(u) = "out" /\ u \in Sects /\ page(u) # None
  BY DEF SectFree
<1>2. /\ u \notin Users /\ page(u) \in Pages /\ ~LinksAt(at[u])
      /\ l \in Places /\ l.page = None /\ SectAt(l)
  BY <1>1, Where DEF SectAt, Allocating, LockPending, LinksAt, Places, page, pc
<1> HIDE DEF l
<1> QED
  BY <1>1, <1>2, FreesPage

-----------------------------------------------------------------------------
(* Every step *)

LEMMA InitHolds == Init => IInv /\ Abstract!Init
<1> SUFFICES ASSUME Init
             PROVE  IInv /\ Abstract!Init
  OBVIOUS
<1>1. \A u \in Procs : /\ at[u] = [pc |-> "out", op |-> "none", key |-> None, mode |-> "NL",
                                   page |-> None, cefs |-> {}]
                       /\ page(u) = None
  BY DEF Init, page
<1>2. \A u \in Users : ~Refers(u)
  BY <1>1 DEF Refers, Procs
<1>3. Typed
  <2>1. PagesTyped
    BY DEF Init, PagesTyped
  <2>2. WaitTyped
    BY DEF Init, WaitTyped, Flags
  <2>3. holds \in [Users -> Modes]
    BY DEF Init, Modes
  <2>4. at \in [Procs -> Places]
    BY DEF Init, Places, Labels, Modes
  <2> QED
    BY <2>1, <2>2, <2>3, <2>4 DEF Typed
<1>4. InPlace
  BY <1>1 DEF Init, InPlace, SectAt, UserAt, Allocating, LockPending, Procs
<1>5. \A p : RefsTo(p) = {}
  BY <1>2 DEF RefsTo
<1>6. Counted
  <2>1. \A p : In("PR", p) = {} /\ In("EX", p) = {}
    BY <1>5 DEF In
  <2> QED
    BY <1>5, <2>1, FS_EmptySet DEF Init, Counted, Match
<1>7. OwnedOnce /\ NoneLost
  BY <1>1, SetsAssumption DEF Init, OwnedOnce, NoneLost, Owns
<1>8. OldOnce /\ OldInHash /\ WillLink
  BY DEF Init, OldOnce, OldInHash, WillLink, Range
<1>9. OnePagePerKey /\ FoundStays
  BY <1>2 DEF Init, OnePagePerKey, FoundStays
<1>10. Abstract!Init
  BY <1>2 DEF Abstract!Init
<1> QED
  BY <1>3, <1>4, <1>6, <1>7, <1>8, <1>9, <1>10 DEF IInv

LEMMA NextKeeps == IInv /\ [Next]_vars => Keeps
<1> SUFFICES ASSUME IInv, [Next]_vars
             PROVE  Keeps
  OBVIOUS
<1>1. CASE UNCHANGED vars
  <2>1. UNCHANGED <<pages, memory, events, holds, at>>
    BY <1>1 DEF vars
  <2>2. UNCHANGED Mode
    BY <2>1 DEF Mode, Refers, page, pc
  <2>3. Typed' /\ InPlace' /\ OnePagePerKey' /\ OldOnce' /\ OldInHash'
    BY <2>1 DEF pages, memory, events, IInv, Typed, PagesTyped, WaitTyped, InPlace, OnePagePerKey,
                OldOnce, OldInHash
  <2>4. \A v : page(v)' = page(v) /\ (Refers(v)' <=> Refers(v))
    BY <2>1 DEF Refers, page, pc
  <2>5. FoundStays' /\ WillLink'
    BY <2>1, <2>4 DEF pages, IInv, FoundStays, WillLink, LinksAt
  <2>6. \A p : RefsTo(p)' = RefsTo(p)
    BY <2>4 DEF RefsTo
  <2>7. \A m, p : In(m, p)' = In(m, p)
    BY <2>1, <2>6 DEF In
  <2>8. Counted'
    BY <2>1, <2>6, <2>7 DEF pages, IInv, Counted, Match
  <2>9. OwnedOnce' /\ NoneLost'
    BY <2>1, <2>4 DEF pages, IInv, OwnedOnce, NoneLost, Owns
  <2> QED
    BY <2>2, <2>3, <2>5, <2>8, <2>9 DEF Keeps, IInv
<1>2. CASE Next
  <2> SUFFICES ASSUME NEW u \in Procs, Running(u) \/ Call(u) \/ AstWake(u)
               PROVE  Keeps
    BY <1>2 DEF Next
  <2>1. CASE Running(u)
    BY <2>1, WaitKeeps, SignalKeeps, ScanKeeps, EnterKeeps, LockWokenKeeps, RelockKeeps, LinkKeeps,
       AllocFreeKeeps, ReclaimKeeps, AllocNoneKeeps, SayWaitingKeeps, ClearFreeKeeps, MemWokenKeeps,
       SectWokenKeeps, GiveBackKeeps
    DEF Running
  <2>2. CASE Call(u)
    BY <2>2, FindKeeps, ConvKeeps, DoneKeeps, SectAllocKeeps, SectFreeKeeps DEF Call
  <2>3. CASE AstWake(u)
    BY <2>3, AstWakeKeeps
  <2> QED
    BY <2>1, <2>2, <2>3
<1> QED
  BY <1>1, <1>2

-----------------------------------------------------------------------------
(* Theorems *)

LEMMA Invariant == Spec => []IInv
<1>1. IInv /\ [Next]_vars => IInv'
  BY NextKeeps DEF Keeps
<1> QED
  BY <1>1, InitHolds, PTL DEF Spec

(* The variables of the cache have their types; no count of a page goes     *)
(* below 0, or -1 for the lock, nor above the number of users.             *)
THEOREM TypeCorrect == Spec => []TypeOK
<1>1. IInv => TypeOK
  <2> SUFFICES ASSUME IInv
               PROVE  TypeOK
    OBVIOUS
  <2>1. ASSUME NEW s \in SUBSET Users
        PROVE  Cardinality(s) \in 0 .. Cardinality(Users)
    BY SetsAssumption, FS_Subset, FS_CardinalityType
  <2>2. \A p \in Pages : RefsTo(p) \in SUBSET Users /\ In("PR", p) \in SUBSET Users
    BY DEF RefsTo, In
  <2>3. \A p \in Pages : refcount[p] \in 0 .. Cardinality(Users)
    BY <2>1, <2>2 DEF IInv, Counted
  <2>4. \A p \in Pages : lockcount[p] \in -1 .. Cardinality(Users)
    <3> SUFFICES ASSUME NEW p \in Pages
                 PROVE  lockcount[p] \in -1 .. Cardinality(Users)
      OBVIOUS
    <3>1. lockcount[p] = Cardinality(In("PR", p)) \/ lockcount[p] = -1
      BY DEF IInv, Counted, Match
    <3>2. Cardinality(In("PR", p)) \in 0 .. Cardinality(Users)
      BY <2>1, <2>2
    <3>3. Cardinality(Users) \in Nat
      BY SetsAssumption, FS_CardinalityType
    <3> QED
      BY <3>1, <3>2, <3>3
  <2>5. /\ refcount \in [Pages -> 0 .. Cardinality(Users)]
        /\ lockcount \in [Pages -> -1 .. Cardinality(Users)]
    BY <2>3, <2>4 DEF IInv, Typed, PagesTyped
  <2> QED
    BY <2>5 DEF TypeOK, IInv, Typed, PagesTyped, WaitTyped, Places, Labels
<1> QED
  BY <1>1, Invariant, PTL

(* However searches, allocations and waits interleave, there is one page    *)
(* for a key, and the page a user has found stays in the cache, and its    *)
(* key's, until the user is done with it.                                  *)
THEOREM KeysPage == Spec => []PagesStay
<1>1. IInv => PagesStay
  BY DEF IInv, PagesStay
<1> QED
  BY <1>1, Invariant, PTL

(* The counts of a page in the cache say who refers to it and who has it    *)
(* locked.                                                                 *)
LEMMA ExactCounts == Spec => []CountsExact
<1>1. IInv => CountsExact
  <2> SUFFICES ASSUME IInv, NEW p \in hash
               PROVE  /\ refcount[p] = Cardinality(RefsTo(p))
                      /\ lockcount[p] = IF \E u \in RefsTo(p) : holds[u] = "EX" THEN -1
                                        ELSE Cardinality(In("PR", p))
    BY DEF CountsExact, RefsTo, In
  <2>1. /\ refcount[p] = Cardinality(RefsTo(p))
        /\ Match(lockcount[p], In("PR", p), In("EX", p))
    BY DEF IInv, Typed, PagesTyped, Counted
  <2>2. (\E u \in RefsTo(p) : holds[u] = "EX") <=> In("EX", p) # {}
    BY DEF In
  <2> QED
    BY <2>1, <2>2 DEF Match
<1> QED
  BY <1>1, Invariant, PTL

(* No physical page is lost or used twice: it is free, or in the cache, or  *)
(* one thread has it.                                                      *)
LEMMA PagesKept == Spec => []PagesAccounted
<1>1. IInv => PagesAccounted
  <2> SUFFICES ASSUME IInv
               PROVE  PagesAccounted
    OBVIOUS
  <2>1. ASSUME NEW p \in Pages
        PROVE  LET owners == {u \in Procs : page(u) = p /\ (u \in Users => ~Refers(u))} IN
               Cardinality(owners) + (IF p \in free THEN 1 ELSE 0)
                 + (IF p \in hash THEN 1 ELSE 0) = 1
    <3> DEFINE owners == {u \in Procs : page(u) = p /\ (u \in Users => ~Refers(u))}
    <3>1. owners = {u \in Procs : Owns(u, p)}
      BY DEF Owns
    <3> HIDE DEF owners
    <3>2. CASE owners = {}
      <4>1. Cardinality(owners) = 0
        BY <3>2, FS_EmptySet
      <4>2. p \in free \cup hash /\ ~(p \in free /\ p \in hash)
        BY <3>1, <3>2 DEF IInv, NoneLost, OwnedOnce
      <4>3. \/ p \in free /\ p \notin hash
            \/ p \notin free /\ p \in hash
        BY <4>2
      <4> QED
        BY <4>1, <4>3 DEF owners
    <3>3. CASE owners # {}
      <4>1. PICK u \in owners : TRUE
        BY <3>3
      <4>2. owners = {u} /\ p \notin free /\ p \notin hash
        BY <3>1, <4>1 DEF IInv, OwnedOnce
      <4>3. Cardinality(owners) = 1
        BY <4>2, FS_Singleton
      <4> QED
        BY <4>2, <4>3 DEF owners
    <3> QED
      BY <3>2, <3>3
  <2>2. IsInjective(oldpages)
    BY DEF IsInjective, IInv, Typed, PagesTyped, OldOnce
  <2>3. Range(oldpages) \subseteq hash
    BY DEF IInv, OldInHash
  <2>4. \A p \in hash \ Range(oldpages) :
          \E u \in Users : page(u) = p /\ pc(u) \in {"lockwait", "lockwoken", "relock", "link"}
    BY DEF IInv, WillLink, LinksAt, LockPending, pc
  <2> QED
    BY <2>1, <2>2, <2>3, <2>4 DEF PagesAccounted
<1> QED
  BY <1>1, Invariant, PTL

(* The two together: the counts of pages, and the pages, are always right.   *)
THEOREM Counts == Spec => []PagesCounted
  BY ExactCounts, PagesKept, PTL DEF PagesCounted

(* oz_knl_cache_find, conv and done give the users of the cache the locks   *)
(* of KeyLocks on the pages of their keys: many readers or one writer, by  *)
(* key, although what is locked are pages, which are taken from one key    *)
(* for another.                                                            *)
THEOREM Refinement == Spec => ImplementsKeyLocks
<1>1. IInv /\ [Next]_vars => [Abstract!Next]_Mode
  BY NextKeeps DEF Keeps
<1>2. Init => Abstract!Init
  BY InitHolds
<1> QED
  BY <1>1, <1>2, Invariant, PTL DEF Spec, ImplementsKeyLocks, Abstract!Spec, Mode

-----------------------------------------------------------------------------
(* Who sleeps on a page is woken.                                          *)

(* A user waits for a lock from the test of the lock count on. *)
AwaitsLock(u) == pc(u) = "lockwait" \/ asleep[u] = "cache"

CanGo(u) == Fits(lockcount[page(u)], at[u].mode)

(* The user will set the flag for locks, now or, as the page it waits for is *)
(* locked, when it is woken.                                               *)
Tells(v) == "cache" \in at[v].cefs /\ (AwaitsLock(v) => ~CanGo(v))

WakeAt(u) ==
  /\ asleep[u] = "cache" => pc(u) = "lockwoken" /\ event["cache"] = 0
  /\ pc(u) = "relock" => "cache" \in at[u].cefs
  /\ pc(u) = "out" => at[u].cefs = {}

SomeoneTells ==
  event["cache"] = 0 /\ (\E u \in Users : AwaitsLock(u) /\ CanGo(u)) => \E v \in Users : Tells(v)

WInv == IInv /\ (\A u \in Users : WakeAt(u)) /\ SomeoneTells

(* A step of u that leaves it waiting for no lock. *)
LEMMA GoesOnWakes ==
  ASSUME WInv, IInv', NEW u \in Procs, NEW l \in Places, at' = [at EXCEPT ![u] = l],
         lockcount' = lockcount, event'["cache"] = event["cache"],
         \A v \in Procs : asleep'[v] = "cache" => asleep[v] = "cache",
         pc(u) # "lockwoken", l.pc \notin {"lockwait", "relock"},
         "cache" \in at[u].cefs => "cache" \in l.cefs,
         u \in Users /\ l.pc = "out" => l.cefs = {}
  PROVE  WInv'
<1>1. at'[u] = l /\ \A v \in Procs \ {u} : at'[v] = at[v]
  BY DEF WInv, IInv, Typed
<1>2. u \in Users => asleep[u] # "cache" /\ asleep'[u] # "cache"
  BY DEF WInv, WakeAt
<1>3. \A v \in Users : WakeAt(v)'
  <2> SUFFICES ASSUME NEW v \in Users
               PROVE  WakeAt(v)'
    OBVIOUS
  <2>1. CASE v = u
    BY <1>1, <1>2, <2>1 DEF WakeAt, pc
  <2>2. CASE v # u
    BY <1>1, <2>2 DEF WInv, WakeAt, pc, Procs
  <2> QED
    BY <2>1, <2>2
<1>4. \A v \in Users : AwaitsLock(v)' => v # u /\ AwaitsLock(v)
  BY <1>1, <1>2 DEF AwaitsLock, pc, Procs
<1>5. \A v \in Users \ {u} : CanGo(v)' <=> CanGo(v)
  BY <1>1 DEF CanGo, page, Procs
<1>6. \A v \in Users : Tells(v) => Tells(v)'
  <2> SUFFICES ASSUME NEW v \in Users, Tells(v)
               PROVE  Tells(v)'
    OBVIOUS
  <2>1. CASE v = u
    BY <1>1, <1>4, <2>1 DEF Tells
  <2>2. CASE v # u
    BY <1>1, <1>4, <1>5, <2>2 DEF Tells, Procs
  <2> QED
    BY <2>1, <2>2
<1>7. SomeoneTells'
  BY <1>4, <1>5, <1>6 DEF WInv, SomeoneTells
<1> QED
  BY <1>3, <1>7 DEF WInv

(* A step of user u that only locks more, at most. *)
LEMMA TightensWakes ==
  ASSUME WInv, IInv', NEW u \in Users, event' = event,
         \A v \in Procs \ {u} : at'[v] = at[v],
         \A v \in Procs : asleep'[v] = "cache" => asleep[v] = "cache",
         \A v \in Users \ {u} : AwaitsLock(v) /\ CanGo(v)' => CanGo(v),
         AwaitsLock(u)' => ~CanGo(u)',
         "cache" \in at[u].cefs => "cache" \in at'[u].cefs,
         WakeAt(u)'
  PROVE  WInv'
<1>1. \A v \in Users : WakeAt(v)'
  BY DEF WInv, WakeAt, pc, Procs
<1>2. \A v \in Users \ {u} : AwaitsLock(v)' => AwaitsLock(v)
  BY DEF AwaitsLock, pc, Procs
<1>3. \A v \in Users : Tells(v) => Tells(v)'
  BY <1>2 DEF Tells, Procs
<1>4. SomeoneTells'
  BY <1>2, <1>3 DEF WInv, SomeoneTells
<1> QED
  BY <1>1, <1>4 DEF WInv

(* A step of user u after which it is the one to set the flag. *)
LEMMA TellerWakes ==
  ASSUME WInv, IInv', NEW u \in Users, \A v \in Procs \ {u} : at'[v] = at[v],
         \A v \in Procs : asleep'[v] = asleep[v], event'["cache"] \in {0, event["cache"]},
         WakeAt(u)', Tells(u)'
  PROVE  WInv'
<1>1. \A v \in Users : WakeAt(v)'
  BY DEF WInv, WakeAt, pc, Procs
<1> QED
  BY <1>1 DEF WInv, SomeoneTells

(* A lock that is taken, or not, leaves no more room for the others. *)
LEMMA Tightens ==
  ASSUME NEW n \in Int, NEW m \in Modes, NEW h \in Modes,
         Fits(IF Fits(n, m) THEN Locked(n, m) ELSE n, h)
  PROVE  Fits(n, h)
  BY DEF Fits, Locked, Modes

(* After Lock a user that waits cannot go. *)
LEMMA LockWakes ==
  ASSUME WInv, NEW u \in Users, NEW op \in {"find", "conv"}, NEW p \in Pages, NEW n \in Int,
         NEW m \in Modes, NEW cefs \in SUBSET Flags, Lock(u, op, p, n, m, cefs),
         at[u].key \in Keys, asleep[u] # "cache", asleep' = asleep
  PROVE  /\ \A v \in Procs \ {u} : at'[v] = at[v]
         /\ lockcount' = [lockcount EXCEPT ![p] = IF Fits(n, m) THEN Locked(n, m) ELSE n]
         /\ at'[u].cefs = cefs
         /\ AwaitsLock(u)' => ~CanGo(u)'
         /\ WakeAt(u)'
<1> DEFINE l == [pc |-> IF Fits(n, m) THEN "link" ELSE "lockwait", op |-> op, key |-> at[u].key,
                 mode |-> m, page |-> p, cefs |-> cefs]
           g == IF Fits(n, m) /\ op = "conv" THEN Finish(l) ELSE l
<1>1. /\ at' = [at EXCEPT ![u] = g]
      /\ lockcount' = [lockcount EXCEPT ![p] = IF Fits(n, m) THEN Locked(n, m) ELSE n]
  BY DEF Lock
<1>2. at'[u] = g /\ \A v \in Procs \ {u} : at'[v] = at[v]
  BY <1>1 DEF WInv, IInv, Typed, Procs
<1>3. g.cefs = cefs /\ (g.pc = "out" => cefs = {})
  BY DEF Finish
<1>4. g.pc # "relock" /\ (g.pc = "lockwait" => ~Fits(n, m) /\ g.page = p /\ g.mode = m)
  BY DEF Finish
<1> HIDE DEF g
<1>5. AwaitsLock(u)' => ~CanGo(u)'
  <2>1. ~Fits(n, m) => lockcount'[p] = n
    BY <1>1 DEF WInv, IInv, Typed, PagesTyped
  <2> QED
    BY <1>2, <1>4, <2>1 DEF AwaitsLock, CanGo, pc, page
<1>6. WakeAt(u)'
  BY <1>2, <1>3, <1>4 DEF WakeAt, pc
<1> QED
  BY <1>1, <1>2, <1>3, <1>5, <1>6

(* Steps that have nothing to do with locks on pages *)
LEMMA OtherWakes ==
  ASSUME WInv, IInv', NEW u \in Procs,
         \/ AllocFree(u) \/ Reclaim(u) \/ AllocNone(u) \/ SayWaiting(u) \/ ClearFree(u)
         \/ MemWoken(u) \/ SectWoken(u) \/ GiveBack(u) \/ SectAlloc(u) \/ SectFree(u)
  PROVE  WInv'
<1>1. at[u] \in Places /\ (u \in Users => u \notin Sects)
  BY Where DEF WInv
<1>2. /\ lockcount' = lockcount
      /\ \A v \in Procs : asleep'[v] = "cache" => asleep[v] = "cache"
      /\ event'["cache"] = event["cache"]
  <2>0. event \in [Flags -> {0, 1}] /\ None # "cache"
    BY SetsAssumption DEF WInv, IInv, Typed, WaitTyped
  <2>1. CASE \/ AllocFree(u) \/ Reclaim(u) \/ AllocNone(u) \/ SayWaiting(u) \/ SectAlloc(u)
    BY <2>1 DEF AllocFree, Reclaim, AllocNone, SayWaiting, SectAlloc, pages, events
  <2>2. CASE ClearFree(u) \/ MemWoken(u) \/ SectWoken(u)
    BY <2>0, <2>2 DEF ClearFree, MemWoken, SectWoken, pages, Flags
  <2>3. CASE GiveBack(u) \/ SectFree(u)
    <3>1. FreePage(u)
      BY <2>3 DEF GiveBack, SectFree
    <3>2. lockcount' = lockcount /\ (UNCHANGED events \/ SetEvent("free"))
      BY <3>1 DEF FreePage
    <3> QED
      BY <2>0, <3>2 DEF events, SetEvent, Flags
  <2> QED
    BY <2>1, <2>2, <2>3
<1>3. \E l \in Places :
        /\ at' = [at EXCEPT ![u] = l] /\ pc(u) # "lockwoken"
        /\ l.pc \notin {"lockwait", "relock"} /\ at[u].cefs \subseteq l.cefs
        /\ u \in Users => l.pc # "out"
  <2>1. CASE AllocFree(u) \/ Reclaim(u)
    <3>1. PICK p \in Pages : /\ at' = [at EXCEPT ![u].pc = Got(u), ![u].page = p]
                             /\ pc(u) = "alloc"
      <4>1. free \subseteq Pages /\ oldpages \in Seq(Pages)
        BY DEF WInv, IInv, Typed, PagesTyped
      <4>2. CASE AllocFree(u)
        BY <4>1, <4>2 DEF AllocFree
      <4>3. CASE Reclaim(u)
        <5>1. PICK i \in Idle : at' = [at EXCEPT ![u].pc = Got(u), ![u].page = oldpages[i]]
          BY <4>3 DEF Reclaim
        <5>2. oldpages[i] \in Pages
          BY <4>1 DEF Idle
        <5> QED
          BY <4>3, <5>1, <5>2 DEF Reclaim
      <4> QED
        BY <2>1, <4>2, <4>3
    <3> DEFINE l == [at[u] EXCEPT !.pc = Got(u), !.page = p]
    <3>2. at' = [at EXCEPT ![u] = l]
      BY <3>1
    <3>3. l \in Places /\ l.pc = Got(u) /\ l.cefs = at[u].cefs
      BY <1>1 DEF Places, Labels, Got
    <3> HIDE DEF l
    <3> QED
      BY <1>1, <3>1, <3>2, <3>3 DEF Got
  <2>2. CASE \/ AllocNone(u) \/ SayWaiting(u) \/ ClearFree(u) \/ SectWoken(u) \/ SectAlloc(u)
    <3>1. PICK x \in {"nomem", "clearfree", "memwait", "alloc"} : GoTo(u, x) /\ pc(u) # "lockwoken"
      BY <2>2 DEF AllocNone, SayWaiting, ClearFree, SectWoken, SectAlloc
    <3> DEFINE l == [at[u] EXCEPT !.pc = x]
    <3>2. at' = [at EXCEPT ![u] = l]
      BY <3>1 DEF GoTo
    <3>3. l \in Places /\ l.pc = x /\ l.cefs = at[u].cefs
      BY <1>1 DEF Places, Labels
    <3> HIDE DEF l
    <3> QED
      BY <3>1, <3>2, <3>3
  <2>3. CASE MemWoken(u)
    <3> DEFINE l == [at[u] EXCEPT !.pc = "scan", !.cefs = @ \cup {"free"}]
    <3>1. at' = [at EXCEPT ![u] = l] /\ pc(u) # "lockwoken"
      BY <2>3 DEF MemWoken
    <3>2. l \in Places /\ l.pc = "scan" /\ l.cefs = at[u].cefs \cup {"free"}
      BY <1>1 DEF Places, Labels, Flags
    <3> HIDE DEF l
    <3> QED
      BY <3>1, <3>2
  <2>4. CASE GiveBack(u)
    <3> DEFINE l == [at[u] EXCEPT !.pc = "scan", !.page = None]
    <3>1. at' = [at EXCEPT ![u] = l] /\ pc(u) # "lockwoken"
      BY <2>4 DEF GiveBack
    <3>2. l \in Places /\ l.pc = "scan" /\ l.cefs = at[u].cefs
      BY <1>1 DEF Places, Labels
    <3> HIDE DEF l
    <3> QED
      BY <3>1, <3>2
  <2>5. CASE SectFree(u)
    <3> DEFINE l == [at[u] EXCEPT !.page = None]
    <3>1. at' = [at EXCEPT ![u] = l] /\ pc(u) = "out" /\ u \in Sects
      BY <2>5 DEF SectFree
    <3>2. l \in Places /\ l.pc = "out" /\ l.cefs = at[u].cefs
      BY <1>1, <3>1 DEF Places, Labels, pc
    <3> HIDE DEF l
    <3> QED
      BY <1>1, <3>1, <3>2
  <2> QED
    BY <2>1, <2>2, <2>3, <2>4, <2>5
<1> QED
  BY <1>2, <1>3, GoesOnWakes

LEMMA WaitWakes ==
  ASSUME WInv, IInv', NEW u \in Procs, Wait(u)
  PROVE  WInv'
<1>1. CASE pc(u) = "memwait"
  <2> DEFINE l == [at[u] EXCEPT !.pc = "memwoken"]
  <2>1. at' = [at EXCEPT ![u] = l] /\ lockcount' = lockcount /\ event' = event
    BY <1>1 DEF Wait, GoTo, pages, memory
  <2>2. l \in Places /\ l.pc = "memwoken" /\ l.cefs = at[u].cefs
    BY Where DEF Places, Labels, WInv
  <2>3. \A v \in Procs : asleep'[v] = "cache" => asleep[v] = "cache"
    BY <1>1, SetsAssumption DEF Wait, Awaited, WInv, IInv, Typed, WaitTyped
  <2> HIDE DEF l
  <2> QED
    BY <1>1, <2>1, <2>2, <2>3, GoesOnWakes
<1>2. CASE pc(u) = "lockwait"
  <2>1. /\ lockcount' = lockcount /\ event' = event /\ at' = [at EXCEPT ![u].pc = "lockwoken"]
        /\ asleep' = [asleep EXCEPT ![u] = IF event["cache"] = 1 THEN None ELSE "cache"]
    BY <1>2 DEF Wait, Awaited, GoTo, pages
  <2>2. /\ \A v \in Procs \ {u} : at'[v] = at[v] /\ asleep'[v] = asleep[v]
        /\ pc(u)' = "lockwoken" /\ at'[u].cefs = at[u].cefs /\ page(u)' = page(u)
        /\ at'[u].mode = at[u].mode
    BY <2>1, Where DEF WInv, IInv, Typed, WaitTyped, Places, pc, page
  <2>3. event["cache"] \in {0, 1} /\ None # "cache"
    BY SetsAssumption DEF WInv, IInv, Typed, WaitTyped, Flags
  <2>4. \A v \in Users : AwaitsLock(v)' => AwaitsLock(v)
    BY <1>2, <2>2 DEF AwaitsLock, pc, Procs
  <2>5. \A v \in Users : (CanGo(v)' <=> CanGo(v)) /\ (Tells(v) => Tells(v)')
    BY <2>1, <2>2, <2>4 DEF CanGo, Tells, page, Procs
  <2>6. \A v \in Users : WakeAt(v)'
    <3>1. asleep'[u] = "cache" => event["cache"] = 0
      BY <2>1, <2>3 DEF WInv, IInv, Typed, WaitTyped
    <3> QED
      BY <2>1, <2>2, <3>1 DEF WInv, WakeAt, pc, Procs
  <2> QED
    BY <2>1, <2>4, <2>5, <2>6 DEF WInv, SomeoneTells
<1> QED
  BY <1>1, <1>2 DEF Wait

LEMMA AstWakeWakes ==
  ASSUME WInv, IInv', NEW u \in Procs, AstWake(u)
  PROVE  WInv'
<1>1. /\ at' = at /\ lockcount' = lockcount /\ event' = event
      /\ \A v \in Procs : asleep'[v] = "cache" => asleep[v] = "cache"
  BY SetsAssumption DEF AstWake, pages, WInv, IInv, Typed, WaitTyped
<1>2. \A v \in Users : /\ AwaitsLock(v)' => AwaitsLock(v)
                       /\ CanGo(v)' <=> CanGo(v)
  BY <1>1 DEF AwaitsLock, CanGo, pc, page, Procs
<1>3. \A v \in Users : WakeAt(v)' /\ (Tells(v) => Tells(v)')
  BY <1>1, <1>2 DEF WInv, WakeAt, Tells, pc, Procs
<1> QED
  BY <1>1, <1>2, <1>3 DEF WInv, SomeoneTells

LEMMA FinishWakes ==
  ASSUME NEW l \in Places
  PROVE  /\ Finish(l) \in Places /\ Finish(l).pc \in {"out", "signal"}
         /\ Finish(l).cefs = l.cefs
         /\ Finish(l).pc = "out" => l.cefs = {}
  BY Finished DEF Finish, Places

LEMMA LinkWakes ==
  ASSUME WInv, IInv', NEW u \in Procs, Link(u)
  PROVE  WInv'
<1> DEFINE l == Finish(at[u])
<1>1. at' = [at EXCEPT ![u] = l] /\ lockcount' = lockcount /\ UNCHANGED events /\ pc(u) = "link"
  BY DEF Link
<1>2. l \in Places /\ l.pc \in {"out", "signal"} /\ l.cefs = at[u].cefs
      /\ (l.pc = "out" => l.cefs = {})
  BY Where, FinishWakes DEF WInv
<1> HIDE DEF l
<1> QED
  BY <1>1, <1>2, GoesOnWakes DEF events

LEMMA FindWakes ==
  ASSUME WInv, IInv', NEW u \in Procs, Find(u)
  PROVE  WInv'
<1>1. PICK k \in Keys, m \in Asked :
        at' = [at EXCEPT ![u] = [pc |-> "scan", op |-> "find", key |-> k, mode |-> m,
                                 page |-> None, cefs |-> {}]]
  BY DEF Find
<1> DEFINE l == [pc |-> "scan", op |-> "find", key |-> k, mode |-> m, page |-> None, cefs |-> {}]
<1>2. l \in Places /\ l.pc = "scan" /\ l.cefs = {}
  BY ClientsAssumption DEF Places, Labels, Modes
<1>3. /\ at' = [at EXCEPT ![u] = l] /\ lockcount' = lockcount /\ UNCHANGED events
      /\ pc(u) = "out" /\ u \in Users
  BY <1>1 DEF Find, pages
<1>4. at[u].cefs = {}
  BY <1>3 DEF WInv, WakeAt
<1> HIDE DEF l
<1> QED
  BY <1>2, <1>3, <1>4, GoesOnWakes DEF events

LEMMA SignalWakes ==
  ASSUME WInv, IInv', NEW u \in Procs, Signal(u)
  PROVE  WInv'
<1> DEFINE order == IF at[u].op = "done" THEN <<"cache", "free">> ELSE <<"free", "cache">>
           f == IF order[1] \in at[u].cefs THEN order[1] ELSE order[2]
           l == [at[u] EXCEPT !.cefs = at[u].cefs \ {f}]
<1>0. f \in {"cache", "free"}
  OBVIOUS
<1>1. /\ at' = [at EXCEPT ![u] = Finish(l)] /\ lockcount' = lockcount
      /\ pc(u) = "signal" /\ SetEvent(f)
  BY DEF Signal, pages
<1> HIDE DEF f
<1>2. l \in Places /\ l.cefs = at[u].cefs \ {f}
  BY Where DEF Places, WInv
<1> HIDE DEF l
<1>3. /\ Finish(l) \in Places /\ Finish(l).pc \in {"out", "signal"} /\ Finish(l).cefs = l.cefs
      /\ Finish(l).pc = "out" => l.cefs = {}
  BY <1>2, FinishWakes
<1>4. event \in [Flags -> {0, 1}] /\ None # "cache"
  BY SetsAssumption DEF WInv, IInv, Typed, WaitTyped
<1>5. CASE f = "free"
  <2>1. event'["cache"] = event["cache"]
    BY <1>1, <1>4, <1>5 DEF SetEvent, Flags
  <2>2. \A v \in Procs : asleep'[v] = "cache" => asleep[v] = "cache"
    BY <1>1, <1>4, <1>5 DEF SetEvent
  <2>3. "cache" \in at[u].cefs => "cache" \in Finish(l).cefs
    BY <1>2, <1>3, <1>5
  <2> DEFINE g == Finish(l)
  <2>4. /\ at' = [at EXCEPT ![u] = g] /\ g \in Places /\ g.pc \in {"out", "signal"}
        /\ "cache" \in at[u].cefs => "cache" \in g.cefs
        /\ g.pc = "out" => g.cefs = {}
    BY <1>1, <1>3, <2>3
  <2> HIDE DEF g
  <2> QED
    BY <1>1, <2>1, <2>2, <2>4, GoesOnWakes
<1>6. CASE f = "cache"
  <2>1. event'["cache"] = 1 /\ \A v \in Procs : asleep'[v] # "cache"
    BY <1>1, <1>4, <1>6 DEF SetEvent, Flags
  <2>2. ASSUME NEW v \in Users PROVE WakeAt(v)'
    <3>1. v # u => at'[v] = at[v]
      BY <1>1 DEF WInv, IInv, Typed, Procs
    <3>2. v = u => at'[v] = Finish(l)
      BY <1>1 DEF WInv, IInv, Typed, Procs
    <3>3. CASE v = u
      BY <1>3, <2>1, <3>2, <3>3 DEF WakeAt, pc, Procs
    <3>4. CASE v # u
      BY <2>1, <3>1, <3>4 DEF WInv, WakeAt, pc, Procs
    <3> QED
      BY <3>3, <3>4
  <2> QED
    BY <2>1, <2>2 DEF WInv, SomeoneTells
<1> QED
  BY <1>0, <1>5, <1>6

(* Steps of locks *)

LEMMA LockWokenWakes ==
  ASSUME WInv, IInv', NEW u \in Procs, LockWoken(u)
  PROVE  WInv'
<1>1. u \in Users /\ at[u] \in Places
  BY Where DEF LockWoken, SectAt, Allocating, pc, WInv
<1>2. /\ pc(u)' = "relock" /\ at'[u].cefs = at[u].cefs \cup {"cache"}
      /\ \A v \in Procs \ {u} : at'[v] = at[v]
  BY <1>1 DEF LockWoken, WInv, IInv, Typed, Places, pc
<1>3. asleep' = asleep /\ event'["cache"] = 0 /\ asleep[u] = None /\ None # "cache"
  BY SetsAssumption DEF LockWoken, WInv, IInv, Typed, WaitTyped, Flags
<1>4. WakeAt(u)' /\ Tells(u)'
  BY <1>2, <1>3 DEF WakeAt, Tells, AwaitsLock, pc
<1> QED
  BY <1>1, <1>2, <1>3, <1>4, TellerWakes

LEMMA RelockWakes ==
  ASSUME WInv, IInv', NEW u \in Procs, Relock(u)
  PROVE  WInv'
<1>1. /\ u \in Users /\ at[u].key \in Keys /\ page(u) \in Pages /\ at[u].mode \in Modes
      /\ at[u].cefs \in SUBSET Flags /\ at[u].op \in {"find", "conv"} /\ pc(u) = "relock"
  BY Where DEF Relock, SectAt, UserAt, Allocating, LockPending, Places, page, pc, WInv
<1>2. lockcount[page(u)] \in Int /\ asleep[u] # "cache" /\ "cache" \in at[u].cefs
  BY <1>1 DEF WInv, IInv, Typed, PagesTyped, WakeAt
<1>3. /\ Lock(u, at[u].op, page(u), lockcount[page(u)], at[u].mode, at[u].cefs)
      /\ asleep' = asleep /\ event' = event
  BY DEF Relock, events
<1>4. PICK op \in {"find", "conv"}, p \in Pages, n \in Int, m \in Modes, c \in SUBSET Flags :
        op = at[u].op /\ p = page(u) /\ n = lockcount[p] /\ m = at[u].mode /\ c = at[u].cefs
  BY <1>1, <1>2
<1>5. Lock(u, op, p, n, m, c)
  BY <1>3, <1>4
<1>6. /\ \A v \in Procs \ {u} : at'[v] = at[v]
      /\ at'[u].cefs = c /\ (AwaitsLock(u)' => ~CanGo(u)') /\ WakeAt(u)'
  BY <1>1, <1>2, <1>3, <1>5, LockWakes
<1>7. Tells(u)'
  BY <1>2, <1>6, <1>4 DEF Tells
<1> QED
  BY <1>1, <1>3, <1>6, <1>7, TellerWakes

(* A lock is taken in addition to the others of the page. *)
LEMMA MoreLocked ==
  ASSUME WInv, IInv', NEW u \in Users, NEW op \in {"find", "conv"}, NEW p \in Pages, NEW n \in Int,
         NEW m \in Modes, Lock(u, op, p, n, m, at[u].cefs), at[u].key \in Keys, asleep[u] # "cache",
         at[u].cefs \in SUBSET Flags, UNCHANGED events,
         n = lockcount[p] \/ \A v \in Users \ {u} : AwaitsLock(v) => page(v) # p
  PROVE  WInv'
<1>1. asleep' = asleep /\ event' = event
  BY DEF events
<1>2. /\ \A v \in Procs \ {u} : at'[v] = at[v]
      /\ lockcount' = [lockcount EXCEPT ![p] = IF Fits(n, m) THEN Locked(n, m) ELSE n]
      /\ at'[u].cefs = at[u].cefs /\ (AwaitsLock(u)' => ~CanGo(u)') /\ WakeAt(u)'
  BY <1>1, LockWakes
<1>3. ASSUME NEW v \in Users \ {u}, AwaitsLock(v), CanGo(v)'
      PROVE  CanGo(v)
  <2>1. at'[v] = at[v] /\ page(v)' = page(v) /\ at[v] \in Places
    BY <1>2, Where DEF page, Procs, WInv
  <2>2. page(v) \in Pages /\ at[v].mode \in Modes
    <3>1. page(v) # None
      BY <1>3, Where DEF WInv, WakeAt, AwaitsLock, UserAt, LockPending, page, pc, Procs
    <3> QED
      BY <2>1, <3>1 DEF Places, page
  <2>3. CASE page(v) # p
    <3>1. lockcount'[page(v)] = lockcount[page(v)]
      BY <1>2, <2>2, <2>3 DEF WInv, IInv, Typed, PagesTyped
    <3> QED
      BY <1>3, <2>1, <3>1 DEF CanGo
  <2>4. CASE page(v) = p
    <3>1. n = lockcount[p] /\ lockcount'[p] = IF Fits(n, m) THEN Locked(n, m) ELSE n
      BY <1>2, <1>3, <2>4 DEF WInv, IInv, Typed, PagesTyped
    <3>2. Fits(IF Fits(n, m) THEN Locked(n, m) ELSE n, at[v].mode)
      BY <1>3, <2>1, <2>4, <3>1 DEF CanGo
    <3>3. Fits(n, at[v].mode)
      BY <2>2, <3>2, Tightens
    <3> QED
      BY <2>4, <3>1, <3>3 DEF CanGo
  <2> QED
    BY <2>3, <2>4
<1> QED
  BY <1>1, <1>2, <1>3, TightensWakes

LEMMA ScanWakes ==
  ASSUME WInv, IInv', NEW u \in Procs, Scan(u)
  PROVE  WInv'
<1>1. /\ u \in Users /\ at[u].key \in Keys /\ at[u] \in Places
      /\ at[u].mode \in Modes /\ at[u].cefs \in SUBSET Flags
  BY Where DEF Scan, SectAt, UserAt, Allocating, Places, pc, WInv
<1>2. UNCHANGED events /\ pc(u) = "scan" /\ asleep[u] # "cache"
  BY <1>1 DEF Scan, WInv, WakeAt
<1>3. CASE InHash(at[u].key) = {}
  <2> DEFINE l == [at[u] EXCEPT !.pc = "alloc"]
  <2>1. at' = [at EXCEPT ![u] = l] /\ lockcount' = lockcount
    BY <1>3 DEF Scan, GoTo
  <2>2. l \in Places /\ l.pc = "alloc" /\ l.cefs = at[u].cefs
    BY <1>1 DEF Places, Labels
  <2> HIDE DEF l
  <2> QED
    BY <1>2, <2>1, <2>2, GoesOnWakes DEF events
<1>4. CASE InHash(at[u].key) # {}
  <2>1. PICK p \in InHash(at[u].key) :
          Lock(u, "find", p, lockcount[p], at[u].mode, at[u].cefs)
    BY <1>4 DEF Scan
  <2>2. p \in Pages /\ lockcount[p] \in Int
    BY DEF InHash, WInv, IInv, Typed, PagesTyped
  <2> QED
    BY <1>1, <1>2, <2>1, <2>2, MoreLocked
<1> QED
  BY <1>3, <1>4

LEMMA EnterWakes ==
  ASSUME WInv, IInv', NEW u \in Procs, Enter(u)
  PROVE  WInv'
<1>1. /\ u \in Users /\ at[u].key \in Keys /\ at[u] \in Places /\ page(u) \in Pages
      /\ at[u].mode \in Modes /\ at[u].cefs \in SUBSET Flags
  BY Where DEF Enter, SectAt, UserAt, Allocating, Places, page, pc, WInv
<1>2. UNCHANGED events /\ pc(u) = "enter" /\ asleep[u] # "cache"
  BY <1>1 DEF Enter, WInv, WakeAt
<1>3. CASE InHash(at[u].key) # {}
  <2> DEFINE l == [at[u] EXCEPT !.pc = "giveback"]
  <2>1. at' = [at EXCEPT ![u] = l] /\ lockcount' = lockcount
    BY <1>3 DEF Enter, GoTo
  <2>2. l \in Places /\ l.pc = "giveback" /\ l.cefs = at[u].cefs
    BY <1>1 DEF Places, Labels
  <2> HIDE DEF l
  <2> QED
    BY <1>2, <2>1, <2>2, GoesOnWakes DEF events
<1>4. CASE InHash(at[u].key) = {}
  <2>1. Lock(u, "find", page(u), 0, at[u].mode, at[u].cefs)
    BY <1>4 DEF Enter
  <2>2. page(u) \notin hash
    BY <1>1, <1>2 DEF WInv, IInv, OwnedOnce, Owns, Refers
  <2>3. ASSUME NEW v \in Users \ {u}, AwaitsLock(v) PROVE page(v) # page(u)
    <3>1. Refers(v)
      BY <2>3, Where DEF WInv, WakeAt, AwaitsLock, UserAt, LockPending, Refers, page, pc, Procs
    <3> QED
      BY <2>2, <3>1 DEF WInv, IInv, FoundStays
  <2>4. PICK n \in Int, p \in Pages : n = 0 /\ p = page(u)
    BY <1>1
  <2>5. Lock(u, "find", p, n, at[u].mode, at[u].cefs)
    BY <2>1, <2>4
  <2> QED
    BY <1>1, <1>2, <2>3, <2>4, <2>5, MoreLocked
<1> QED
  BY <1>3, <1>4

LEMMA ConvWakes ==
  ASSUME WInv, IInv', NEW u \in Procs, Conv(u)
  PROVE  WInv'
<1> DEFINE p == page(u)
           n == Unlocked(lockcount[p], holds[u])
           cefs(m) == IF holds[u] = "EX" \/ m = "NL" THEN {"cache"} ELSE {}
<1>1. /\ u \in Users /\ at[u].key \in Keys /\ p \in Pages /\ holds[u] \in Modes
  BY Where DEF Conv, UserAt, Places, page, pc, WInv
<1>2. UNCHANGED events /\ pc(u) = "out" /\ asleep[u] # "cache" /\ at[u].cefs = {}
  BY <1>1 DEF Conv, WInv, WakeAt
<1>3. PICK m \in Asked \ {holds[u]} :
        ~(holds[u] = "PR" /\ m = "EX") /\ Lock(u, "conv", p, n, m, cefs(m))
  BY DEF Conv
<1>4. m \in Modes /\ cefs(m) \in SUBSET Flags
  BY <1>3, ClientsAssumption DEF Modes, Flags
<1>5. lockcount[p] \in Int
  BY <1>1 DEF WInv, IInv, Typed, PagesTyped
<1>6. n \in Int
  BY <1>1, <1>5 DEF Unlocked, Modes
<1>7. CASE holds[u] = "EX" \/ m = "NL"
  <2>1. cefs(m) = {"cache"}
    BY <1>7
  <2> HIDE DEF p, n, cefs
  <2>2. PICK c \in SUBSET Flags : c = cefs(m)
    BY <1>4
  <2>3. Lock(u, "conv", p, n, m, c) /\ asleep' = asleep
    BY <1>2, <1>3, <2>2 DEF events
  <2>4. /\ \A v \in Procs \ {u} : at'[v] = at[v]
        /\ at'[u].cefs = c /\ (AwaitsLock(u)' => ~CanGo(u)') /\ WakeAt(u)'
    BY <1>1, <1>2, <1>4, <1>6, <2>3, LockWakes
  <2>5. Tells(u)'
    BY <2>1, <2>2, <2>4 DEF Tells
  <2> QED
    BY <1>1, <1>2, <2>4, <2>5, TellerWakes DEF events
<1>8. CASE ~(holds[u] = "EX" \/ m = "NL")
  <2>1. holds[u] = "NL"
    BY <1>1, <1>3, <1>4, <1>8 DEF Modes
  <2>2. n = lockcount[p] /\ cefs(m) = at[u].cefs
    BY <1>2, <1>8, <2>1 DEF Unlocked
  <2> HIDE DEF p, n, cefs
  <2>3. Lock(u, "conv", p, n, m, at[u].cefs)
    BY <1>3, <2>2
  <2> QED
    BY <1>1, <1>2, <1>4, <1>6, <2>2, <2>3, MoreLocked
<1> QED
  BY <1>7, <1>8

LEMMA DoneWakes ==
  ASSUME WInv, IInv', NEW u \in Procs, Done(u)
  PROVE  WInv'
<1>1. u \in Users /\ UNCHANGED events /\ pc(u) = "out"
  BY DEF Done
<1>2. /\ \A v \in Procs \ {u} : at'[v] = at[v]
      /\ pc(u)' = "signal" /\ "cache" \in at'[u].cefs
  BY DEF Done, WInv, IInv, Typed, pc
<1>3. asleep' = asleep /\ event' = event /\ asleep[u] # "cache"
  BY <1>1 DEF events, WInv, WakeAt
<1>4. WakeAt(u)' /\ Tells(u)'
  BY <1>2, <1>3 DEF WakeAt, Tells, AwaitsLock, pc
<1> QED
  BY <1>1, <1>2, <1>3, <1>4, TellerWakes

LEMMA InitWakes == Init => WInv
<1> SUFFICES ASSUME Init
             PROVE  WInv
  OBVIOUS
<1>1. \A u \in Users : pc(u) = "out" /\ asleep[u] = None /\ at[u].cefs = {}
  BY DEF Init, pc, Procs
<1>2. None # "cache"
  BY SetsAssumption
<1> QED
  BY <1>1, <1>2, InitHolds DEF WInv, WakeAt, SomeoneTells, AwaitsLock

LEMMA NextWakes == WInv /\ [Next]_vars => WInv'
<1> SUFFICES ASSUME WInv, [Next]_vars
             PROVE  WInv'
  OBVIOUS
<1>1. IInv'
  BY NextKeeps DEF Keeps, WInv
<1>2. CASE UNCHANGED vars
  <2>1. at' = at /\ lockcount' = lockcount /\ event' = event /\ asleep' = asleep
    BY <1>2 DEF vars, pages, events
  <2>2. \A v : /\ WakeAt(v)' <=> WakeAt(v)
               /\ AwaitsLock(v)' <=> AwaitsLock(v)
               /\ CanGo(v)' <=> CanGo(v)
               /\ Tells(v)' <=> Tells(v)
    BY <2>1 DEF WakeAt, AwaitsLock, CanGo, Tells, pc, page
  <2> QED
    BY <1>1, <2>1, <2>2 DEF WInv, SomeoneTells
<1>3. CASE Next
  <2> SUFFICES ASSUME NEW u \in Procs, Running(u) \/ Call(u) \/ AstWake(u)
               PROVE  WInv'
    BY <1>3 DEF Next
  <2>1. CASE Running(u)
    BY <1>1, <2>1, WaitWakes, SignalWakes, ScanWakes, EnterWakes, LockWokenWakes, RelockWakes,
       LinkWakes, OtherWakes
    DEF Running
  <2>2. CASE Call(u)
    BY <1>1, <2>2, FindWakes, ConvWakes, DoneWakes, OtherWakes DEF Call
  <2>3. CASE AstWake(u)
    BY <1>1, <2>3, AstWakeWakes
  <2> QED
    BY <2>1, <2>2, <2>3
<1> QED
  BY <1>2, <1>3

(* All waiters for all pages share one event flag, which each clears before *)
(* it looks at its own page (oz_knl_cache_find, conv): whoever sleeps on a   *)
(* page that is not locked against him any more is going to be woken.       *)
THEOREM WakesAreOwed == Spec => []LockWakeOwed
<1>1. Spec => []WInv
  BY InitWakes, NextWakes, PTL DEF Spec
<1>2. WInv => LockWakeOwed
  <2> SUFFICES ASSUME WInv, NEW u \in Users, asleep[u] = "cache", CanGo(u)
               PROVE  \E v \in Users : WillSet(v)
    BY DEF LockWakeOwed, CanGo
  <2>1. PICK v \in Users : Tells(v)
    BY DEF WInv, WakeAt, SomeoneTells, AwaitsLock
  <2> QED
    BY <2>1 DEF Tells, WillSet, AwaitsLock, CanGo
<1> QED
  BY <1>1, <1>2, PTL
=============================================================================
