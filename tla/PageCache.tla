----------------------------- MODULE PageCache ------------------------------
(***************************************************************************)
(* The page cache (oz_knl_cache.c) on the allocator of physical pages      *)
(* (oz_knl_phymem.c): pages found by key, locked, converted and released;  *)
(* reclaimed, oldest first, when memory is wanted for another key or for   *)
(* sections.  One cache, and pages of one cache colour.                    *)
(*                                                                         *)
(* Everything under smplock_cp is one step, and so is everything under     *)
(* oz_s_smplock_pm but for a failing allocation, in which smplock_cp is    *)
(* released first.  The two event flags are used as their comments promise:*)
(* setting one wakes all that wait for it, and nobody who waits for a set  *)
(* flag sleeps (see EventFlag for when this fails).                        *)
(***************************************************************************)
EXTENDS Integers, SequencesExt

CONSTANTS Pages,     \* physical pages
          Keys,      \* what pages of the cache are looked for by
          Users,     \* threads and i/o requests, with a page of the cache each
          Sects,     \* threads that want a page for something else
          Asked,     \* the lock modes that are asked for
          Asts,      \* whether asts are queued to threads that wait
          None       \* no page, nobody, no key

ASSUME SetsAssumption ==
  /\ IsFiniteSet(Pages) /\ IsFiniteSet(Users) /\ IsFiniteSet(Sects)
  /\ Users \cap Sects = {}
  /\ None \notin Pages \cup Keys \cup Users \cup Sects \cup {"cache", "free"}
ASSUME ClientsAssumption == Asked \subseteq {"NL", "PR", "EX"} /\ Asts \in BOOLEAN

VARIABLES
  free,           \* phymem_freepages
  hash,           \* hash_table: the pages that are in the cache
  key, refcount, lockcount,
  oldpages,       \* oldest first
  waitingforfreepage,
  freepagevent,   \* "copy of free page event flag state"
  event,          \* values of cache -> event and oz_s_freephypagevent
  asleep,         \* the event flag each thread sleeps on
  pmlock,         \* who holds oz_s_smplock_pm between two steps
  holds,          \* the mode each user has its page locked in
  at              \* where each thread is, and the locals of its routine

pages == <<free, hash, key, refcount, lockcount, oldpages>>
memory == <<waitingforfreepage, freepagevent, pmlock>>
events == <<event, asleep>>
vars == <<pages, memory, events, holds, at>>

-----------------------------------------------------------------------------
Procs == Users \cup Sects

Modes == {"NL", "PR", "EX"}

(* cache is the flag for locks on pages, free the one for free memory *)
Flags == {"cache", "free"}

TypeOK ==
  /\ free \in SUBSET Pages /\ hash \in SUBSET Pages
  /\ key \in [Pages -> Keys \cup {None}]
  /\ refcount \in [Pages -> 0 .. Cardinality(Users)]
  /\ lockcount \in [Pages -> -1 .. Cardinality(Users)]
  /\ oldpages \in Seq(Pages)
  /\ waitingforfreepage \in BOOLEAN /\ freepagevent \in BOOLEAN
  /\ event \in [Flags -> {0, 1}]
  /\ asleep \in [Procs -> Flags \cup {None}]
  /\ pmlock \in Procs \cup {None}
  /\ holds \in [Users -> Modes]
  /\ at \in [Procs ->
       [pc : {"out", "scan", "alloc", "nomem", "clearfree", "memwait", "memwoken", "enter",
              "giveback", "lockwait", "lockwoken", "relock", "link", "signal"},
        op : {"none", "find", "conv", "done"}, key : Keys \cup {None}, mode : Modes,
        page : Pages \cup {None}, cefs : SUBSET Flags]]

Init ==
  /\ free = Pages /\ hash = {}
  /\ key = [p \in Pages |-> None]
  /\ refcount = [p \in Pages |-> 0] /\ lockcount = [p \in Pages |-> 0]
  /\ oldpages = <<>>
  /\ waitingforfreepage = FALSE /\ freepagevent = TRUE
  /\ event = [f \in Flags |-> IF f = "free" THEN 1 ELSE 0]
  /\ asleep = [u \in Procs |-> None]
  /\ pmlock = None
  /\ holds = [u \in Users |-> "NL"]
  /\ at = [u \in Procs |-> [pc |-> "out", op |-> "none", key |-> None, mode |-> "NL",
                            page |-> None, cefs |-> {}]]

pc(u) == at[u].pc
page(u) == at[u].page

GoTo(u, label) == at' = [at EXCEPT ![u].pc = label]

(* A routine comes to its end, where only the event flags remain to be set.*)
Finish(l) ==
  IF l.cefs = {} THEN [l EXCEPT !.pc = "out", !.op = "none", !.mode = "NL"]
                 ELSE [l EXCEPT !.pc = "signal"]

PmFree(u) == pmlock \in {None, u}

-----------------------------------------------------------------------------
(* Locks on pages *)

(* Mutant of Fits: a writer does not look at the readers. *)
FitsBlind(n, m) == m # "NL" => n >= 0

Fits(n, m) == (m = "PR" => n >= 0) /\ (m = "EX" => n = 0)

Locked(n, m) == CASE m = "NL" -> n [] m = "PR" -> n + 1 [] m = "EX" -> -1

Unlocked(n, m) == CASE m = "NL" -> n [] m = "PR" -> n - 1 [] m = "EX" -> 0

(* Apply mode m to page p, of which n is the lock count, if it fits.       *)
(* Otherwise wait for the event flag.                                      *)
Lock(u, op, p, n, m, cefs) ==
  LET l == [pc |-> IF Fits(n, m) THEN "link" ELSE "lockwait", op |-> op, key |-> at[u].key,
            mode |-> m, page |-> p, cefs |-> cefs]
  IN  /\ lockcount' = [lockcount EXCEPT ![p] = IF Fits(n, m) THEN Locked(n, m) ELSE n]
      /\ holds' = [holds EXCEPT ![u] = IF Fits(n, m) THEN m ELSE "NL"]
      /\ at' = [at EXCEPT ![u] = IF Fits(n, m) /\ op = "conv" THEN Finish(l) ELSE l]

-----------------------------------------------------------------------------
(* oz_knl_event_waitone and oz_knl_event_set *)

Awaited(u) == IF pc(u) = "memwait" THEN "free" ELSE "cache"

Wait(u) ==
  /\ pc(u) \in {"memwait", "lockwait"}
  /\ asleep' = [asleep EXCEPT ![u] = IF event[Awaited(u)] = 1 THEN None ELSE Awaited(u)]
  /\ GoTo(u, IF pc(u) = "memwait" THEN "memwoken" ELSE "lockwoken")
  /\ UNCHANGED <<pages, memory, event, holds>>

(* Waiting ends for an ast too. *)
AstWake(u) ==
  /\ Asts /\ asleep[u] # None
  /\ asleep' = [asleep EXCEPT ![u] = None]
  /\ UNCHANGED <<pages, memory, event, holds, at>>

SetEvent(f) ==
  /\ event' = [event EXCEPT ![f] = 1]
  /\ asleep' = [u \in Procs |-> IF asleep[u] = f THEN None ELSE asleep[u]]

(* A routine's last steps: find sets the flag for memory first, done the   *)
(* one for locks.                                                          *)
Signal(u) ==
  LET order == IF at[u].op = "done" THEN <<"cache", "free">> ELSE <<"free", "cache">>
      f == IF order[1] \in at[u].cefs THEN order[1] ELSE order[2]
  IN  /\ pc(u) = "signal"
      /\ SetEvent(f)
      /\ at' = [at EXCEPT ![u] = Finish([at[u] EXCEPT !.cefs = at[u].cefs \ {f}])]
      /\ UNCHANGED <<pages, memory, holds>>

-----------------------------------------------------------------------------
(* oz_knl_cache_find *)

Find(u) ==
  /\ u \in Users /\ pc(u) = "out" /\ page(u) = None
  /\ \E k \in Keys, m \in Asked :
       at' = [at EXCEPT ![u] = [pc |-> "scan", op |-> "find", key |-> k, mode |-> m,
                                page |-> None, cefs |-> {}]]
  /\ UNCHANGED <<pages, memory, events, holds>>

InHash(k) == {p \in hash : key[p] = k}

(* Found: keep it in memory, and lock it. *)
Scan(u) ==
  /\ pc(u) = "scan"
  /\ IF InHash(at[u].key) = {}
       THEN GoTo(u, "alloc") /\ UNCHANGED <<refcount, lockcount, holds>>
       ELSE \E p \in InHash(at[u].key) :
              /\ refcount' = [refcount EXCEPT ![p] = @ + 1]
              /\ Lock(u, "find", p, lockcount[p], at[u].mode, at[u].cefs)
  /\ UNCHANGED <<free, hash, key, oldpages, memory, events>>

(* Mutant of Enter: the hash table is not searched again. *)
EnterAnyway(u) ==
  LET p == page(u) IN
  /\ pc(u) = "enter"
  /\ hash' = hash \cup {p}
  /\ key' = [key EXCEPT ![p] = at[u].key]
  /\ refcount' = [refcount EXCEPT ![p] = 1]
  /\ Lock(u, "find", p, 0, at[u].mode, at[u].cefs)
  /\ UNCHANGED <<free, oldpages, memory, events>>

(* A page was allocated: enter it, unless "someone else linked up the same *)
(* page".                                                                  *)
Enter(u) ==
  LET p == page(u) IN
  /\ pc(u) = "enter"
  /\ IF InHash(at[u].key) # {}
       THEN GoTo(u, "giveback") /\ UNCHANGED <<hash, key, refcount, lockcount, holds>>
       ELSE /\ hash' = hash \cup {p}
            /\ key' = [key EXCEPT ![p] = at[u].key]
            /\ refcount' = [refcount EXCEPT ![p] = 1]
            /\ Lock(u, "find", p, 0, at[u].mode, at[u].cefs)
  /\ UNCHANGED <<free, oldpages, memory, events>>

(* The page was locked by others: clear the flag "in case we have to wait  *)
(* again", and look again.                                                 *)
LockWoken(u) ==
  /\ pc(u) = "lockwoken" /\ asleep[u] = None
  /\ event' = [event EXCEPT !["cache"] = 0]
  /\ at' = [at EXCEPT ![u].pc = "relock", ![u].cefs = @ \cup {"cache"}]
  /\ UNCHANGED <<pages, memory, asleep, holds>>

(* Mutant of Relock: the flag that was cleared stays clear. *)
RelockQuiet(u) ==
  /\ pc(u) = "relock"
  /\ Lock(u, at[u].op, page(u), lockcount[page(u)], at[u].mode, {})
  /\ UNCHANGED <<free, hash, key, refcount, oldpages, memory, events>>

Relock(u) ==
  /\ pc(u) = "relock"
  /\ Lock(u, at[u].op, page(u), lockcount[page(u)], at[u].mode, at[u].cefs)
  /\ UNCHANGED <<free, hash, key, refcount, oldpages, memory, events>>

(* "Move to end of oldpages list so it will be the last one freed off" *)
Link(u) ==
  /\ pc(u) = "link" /\ PmFree(u)
  /\ oldpages' = Append(RemoveFirst(oldpages, page(u)), page(u))
  /\ at' = [at EXCEPT ![u] = Finish(@)]
  /\ UNCHANGED <<free, hash, key, refcount, lockcount, memory, events, holds>>

-----------------------------------------------------------------------------
(* oz_knl_phymem_allocpage, which calls oz_knl_cache_freepage.  A section's*)
(* thread calls it by oz_knl_phymem_allocpagew.                            *)

Idle == {i \in 1 .. Len(oldpages) : refcount[oldpages[i]] = 0}

Got(u) == IF u \in Sects THEN "out" ELSE "enter"

AllocFree(u) ==
  /\ pc(u) = "alloc" /\ PmFree(u) /\ free # {}
  /\ \E p \in free :
       /\ free' = free \ {p}
       /\ at' = [at EXCEPT ![u].pc = Got(u), ![u].page = p]
  /\ pmlock' = None
  /\ UNCHANGED <<hash, key, refcount, lockcount, oldpages, waitingforfreepage, freepagevent,
                 events, holds>>

(* The oldest page that nobody uses is taken from the cache. *)
Reclaim(u) ==
  /\ pc(u) = "alloc" /\ PmFree(u) /\ free = {}
  /\ \E i \in Idle :
       /\ \A j \in Idle : i <= j
       /\ at' = [at EXCEPT ![u].pc = Got(u), ![u].page = oldpages[i]]
       /\ hash' = hash \ {oldpages[i]}
       /\ key' = [key EXCEPT ![oldpages[i]] = None]
       /\ oldpages' = RemoveAt(oldpages, i)
  /\ pmlock' = None
  /\ UNCHANGED <<free, refcount, lockcount, waitingforfreepage, freepagevent, events, holds>>

(* None: the cache is unlocked before waitingforfreepage is set, and the   *)
(* event flag cleared after.                                               *)
AllocNone(u) ==
  /\ pc(u) = "alloc" /\ PmFree(u) /\ free = {} /\ Idle = {}
  /\ pmlock' = u
  /\ GoTo(u, "nomem")
  /\ UNCHANGED <<pages, waitingforfreepage, freepagevent, events, holds>>

SayWaiting(u) ==
  /\ pc(u) = "nomem"
  /\ waitingforfreepage' = TRUE
  /\ GoTo(u, "clearfree")
  /\ UNCHANGED <<pages, freepagevent, pmlock, events, holds>>

ClearFree(u) ==
  /\ pc(u) = "clearfree"
  /\ event' = [event EXCEPT !["free"] = IF freepagevent THEN 0 ELSE @]
  /\ freepagevent' = FALSE
  /\ pmlock' = None
  /\ GoTo(u, "memwait")
  /\ UNCHANGED <<pages, waitingforfreepage, asleep, holds>>

(* After the wait the flag is cleared, by oz_knl_cache_find ... *)
MemWoken(u) ==
  /\ u \in Users /\ pc(u) = "memwoken" /\ asleep[u] = None
  /\ event' = [event EXCEPT !["free"] = 0]
  /\ at' = [at EXCEPT ![u].pc = "scan", ![u].cefs = @ \cup {"free"}]
  /\ UNCHANGED <<pages, memory, asleep, holds>>

(* ... or by oz_knl_phymem_allocpagew, which goes on to allocate. *)
SectWoken(u) ==
  /\ u \in Sects /\ pc(u) = "memwoken" /\ asleep[u] = None /\ PmFree(u)
  /\ event' = [event EXCEPT !["free"] = 0]
  /\ freepagevent' = FALSE
  /\ pmlock' = u
  /\ GoTo(u, "alloc")
  /\ UNCHANGED <<pages, waitingforfreepage, asleep, holds>>

(* oz_knl_phymem_freepage *)
FreePage(u) ==
  /\ PmFree(u)
  /\ free' = free \cup {page(u)}
  /\ IF freepagevent THEN UNCHANGED events ELSE SetEvent("free")
  /\ freepagevent' = TRUE
  /\ UNCHANGED <<hash, key, refcount, lockcount, oldpages, waitingforfreepage, pmlock, holds>>

(* Mutant of GiveBack: the page is not freed. *)
GiveBackNot(u) ==
  /\ pc(u) = "giveback"
  /\ at' = [at EXCEPT ![u].pc = "scan", ![u].page = None]
  /\ UNCHANGED <<pages, memory, events, holds>>

GiveBack(u) ==
  /\ pc(u) = "giveback"
  /\ FreePage(u)
  /\ at' = [at EXCEPT ![u].pc = "scan", ![u].page = None]

(* A section wants a page, and lets it go. *)
SectAlloc(u) ==
  /\ u \in Sects /\ pc(u) = "out" /\ page(u) = None
  /\ GoTo(u, "alloc")
  /\ UNCHANGED <<pages, memory, events, holds>>

SectFree(u) ==
  /\ u \in Sects /\ pc(u) = "out" /\ page(u) # None
  /\ FreePage(u)
  /\ at' = [at EXCEPT ![u].page = None]

-----------------------------------------------------------------------------
(* oz_knl_cache_conv.  "This routine does not handle _PR to _EX            *)
(* conversions".                                                           *)
Conv(u) ==
  /\ u \in Users /\ pc(u) = "out" /\ page(u) # None
  /\ \E m \in Asked \ {holds[u]} :
       /\ ~(holds[u] = "PR" /\ m = "EX")
       /\ Lock(u, "conv", page(u), Unlocked(lockcount[page(u)], holds[u]), m,
               IF holds[u] = "EX" \/ m = "NL" THEN {"cache"} ELSE {})
  /\ UNCHANGED <<free, hash, key, refcount, oldpages, memory, events>>

(* oz_knl_cache_done *)
Done(u) ==
  LET p == page(u)
      told == refcount[p] = 1 /\ waitingforfreepage
  IN
  /\ u \in Users /\ pc(u) = "out" /\ p # None
  /\ lockcount' = [lockcount EXCEPT ![p] = Unlocked(@, holds[u])]
  /\ refcount' = [refcount EXCEPT ![p] = @ - 1]
  /\ waitingforfreepage' = (waitingforfreepage /\ ~told)
  /\ holds' = [holds EXCEPT ![u] = "NL"]
  /\ at' = [at EXCEPT ![u] = [pc |-> "signal", op |-> "done", key |-> None, mode |-> "NL",
                              page |-> None, cefs |-> {"cache"} \cup IF told THEN {"free"} ELSE {}]]
  /\ UNCHANGED <<free, hash, key, oldpages, freepagevent, pmlock, events>>

-----------------------------------------------------------------------------
Running(u) ==
  \/ Wait(u) \/ Signal(u) \/ Scan(u) \/ Enter(u) \/ LockWoken(u) \/ Relock(u) \/ Link(u)
  \/ AllocFree(u) \/ Reclaim(u) \/ AllocNone(u) \/ SayWaiting(u) \/ ClearFree(u)
  \/ MemWoken(u) \/ SectWoken(u) \/ GiveBack(u)

Call(u) == Find(u) \/ Conv(u) \/ Done(u) \/ SectAlloc(u) \/ SectFree(u)

Next == \E u \in Procs : Running(u) \/ Call(u) \/ AstWake(u)

Spec == Init /\ [][Next]_vars

-----------------------------------------------------------------------------
(* Properties *)

(* Users that have a reference to a page, and not just a page for it *)
Refers(u) == page(u) # None /\ pc(u) \notin {"enter", "giveback"}

(* No two pages of the cache are for one key: "see if someone else linked  *)
(* up the same page".                                                      *)
OnePagePerKey == \A p, q \in hash : key[p] = key[q] => p = q

(* A user has the page of the key it asked for, and nobody takes it away   *)
(* or uses it for another key.                                             *)
FoundStays == \A u \in Users : Refers(u) => page(u) \in hash /\ key[page(u)] = at[u].key

(* A key has one page, and who found it keeps it. *)
PagesStay == OnePagePerKey /\ FoundStays

(* The reference count and the lock count of a page are what its users do. *)
CountsExact ==
  \A p \in hash :
    LET users == {u \in Users : Refers(u) /\ page(u) = p} IN
    /\ refcount[p] = Cardinality(users)
    /\ lockcount[p] = IF \E u \in users : holds[u] = "EX" THEN -1
                      ELSE Cardinality({u \in users : holds[u] = "PR"})

(* A physical page is in one place: free, in the cache, or with one thread *)
(* that has been given it.  The list of old pages has those of the cache,  *)
(* but for those whose finder has not linked them yet.                     *)
PagesAccounted ==
  /\ \A p \in Pages :
       LET owners == {u \in Procs : page(u) = p /\ (u \in Users => ~Refers(u))} IN
       Cardinality(owners) + (IF p \in free THEN 1 ELSE 0) + (IF p \in hash THEN 1 ELSE 0) = 1
  /\ IsInjective(oldpages) /\ Range(oldpages) \subseteq hash
  /\ \A p \in hash \ Range(oldpages) :
       \E u \in Users : page(u) = p /\ pc(u) \in {"lockwait", "lockwoken", "relock", "link"}

(* No count of a page, and no page, goes astray. *)
PagesCounted == CountsExact /\ PagesAccounted

(* Somebody cleared the flag for locks on pages and will set it again:     *)
(* he is awake, or sleeps on a page that really is locked against him and  *)
(* whose holder will set it.                                               *)
WillSet(v) ==
  /\ "cache" \in at[v].cefs
  /\ asleep[v] = "cache" => ~Fits(lockcount[page(v)], at[v].mode)

(* "if we cleared this, set it in case someone is waiting for it": all     *)
(* waiters for all pages of the cache share one flag, and each clears it   *)
(* before it looks at its own page.  Whoever sleeps on a page that is not  *)
(* locked against him any more is going to be woken.                       *)
LockWakeOwed ==
  \A u \in Users :
    asleep[u] = "cache" /\ Fits(lockcount[page(u)], at[u].mode) => \E v \in Users : WillSet(v)

(* "if OZ_PHYPAGE_NULL returned, caller can use event                      *)
(* 'oz_s_freephypagevent' to wait for a free page": nobody sleeps on it    *)
(* when a page could be had and no routine is under way that would set it. *)
NobodyForgotten ==
  (\A u \in Procs : pc(u) = "out" \/ asleep[u] = "free") /\ (\E u \in Procs : asleep[u] = "free")
    => free = {} /\ Idle = {}

Abstract == INSTANCE KeyLocks WITH
  mode <- [k \in Keys |-> [u \in Users |-> IF Refers(u) /\ at[u].key = k THEN holds[u] ELSE "NL"]]

(* The users of the cache see the abstract locks. *)
ImplementsKeyLocks == Abstract!Spec
=============================================================================
