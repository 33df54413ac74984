------------------------------ MODULE Handles -------------------------------
(***************************************************************************)
(* The handle table of a process, oz_knl_handle.c: threads assign handles   *)
(* to objects, take the objects out and put them back, release handles, and *)
(* exit; the table grows under them; another process gets a copy of it; and *)
(* its contents are listed.                                                *)
(*                                                                         *)
(* What is done under the exclusive table lock is one step, so is what is   *)
(* done under the shared one, except for the two callers that change or     *)
(* read an entry in more than one go while others hold it shared as well:   *)
(* the second half of assign (FillObject, FillRest) and statsget (StatsCopy,*)
(* StatsCount).  The links of the free list are a sequence.  Processor modes*)
(* and access masks are left out.                                          *)
(***************************************************************************)
EXTENDS Integers, SequencesExt

CONSTANTS
  Threads, Objects,
  ObjType,      \* objtype of each object
  NoHandle,     \* no object, no thread, no handle
  InitialCount, \* INITIALCOUNT, a power of 2
  MaxCount,     \* the largest table there is memory for
  MaxAssigns,   \* bound on the handles that are assigned
  Listers,      \* threads that list the table
  Copies        \* bound on the copies of the process

ASSUME TableAssumption ==
  /\ NoHandle \notin Threads \cup Objects
  /\ IsFiniteSet(Threads)
  /\ InitialCount \in Nat \ {0}
  /\ {MaxCount, MaxAssigns, Copies} \subseteq Nat

VARIABLES
  count,   \* curcount
  ents,    \* the entries, from 1 to curmask
  free,    \* the free list, free_h first
  place,   \* thread: where it is
  ix,      \* thread: the entry it is at
  obj,     \* thread: the object it is assigning or listing
  held,    \* thread: the handle it has taken out, and what it got
  listed,  \* thread: what statsget has returned so far
  refs,    \* object: references that the routines have counted
  copy,    \* the objects of the copied table
  copies,  \* number of copies made
  issued,  \* handles that have been returned, with their objects
  tablecrashed \* oz_crash was called

entVars == <<count, ents, free>>
tableVars == <<entVars, place, ix, obj, held, listed, refs, copy, copies, issued, tablecrashed>>

Blank(r) == [object |-> NoHandle, type |-> 0, thread |-> NoHandle, reuse |-> r, refcount |-> 0]

TableInit ==
  /\ count = InitialCount
  /\ ents = [hi \in 1..InitialCount - 1 |-> Blank(0)]
  /\ free = [hi \in 1..InitialCount - 1 |-> hi]
  /\ place = [t \in Threads |-> "run"]
  /\ ix = [t \in Threads |-> 0]
  /\ obj = [t \in Threads |-> NoHandle]
  /\ held = [t \in Threads |-> [handle |-> 0, object |-> NoHandle]]
  /\ listed = [t \in Threads |-> <<>>]
  /\ refs = [o \in Objects |-> 0]
  /\ copy = <<>> /\ copies = 0
  /\ issued = {}
  /\ tablecrashed = FALSE

-----------------------------------------------------------------------------
(* Threads that hold the table lock shared from one step to the next, and    *)
(* whether it can be had exclusively.                                       *)
Readers == {t \in Threads : place[t] \in {"object", "rest", "copy", "count"}}
Exclusive == Readers = {}

Number(hi) == ents[hi].reuse + hi

(* find_handle, for a handle that may be stale. *)
Found(h) ==
  LET hi == h % count IN
  /\ hi # 0
  /\ Number(hi) = h
  /\ ents[hi].object # NoHandle
  /\ ents[hi].refcount % 2 = 1

(* expand_table: an entry goes where its handle now belongs, and the place   *)
(* in the other half becomes free.                                          *)
InTop(hi) == (ents[hi].reuse \div count) % 2 = 1

Expanded ==
  [hi \in 1..2 * count - 1 |->
     IF hi = count THEN Blank(0)
     ELSE LET e == ents[hi % count]
              top == InTop(hi % count)
          IN  IF top /\ hi > count THEN [e EXCEPT !.reuse = @ - count]
              ELSE IF top THEN Blank(e.reuse + count)
              ELSE IF hi > count THEN Blank(e.reuse)
              ELSE e]

ExpandedFree == <<count>> \o [hi \in 1..count - 1 |-> IF InTop(hi) THEN hi ELSE hi + count]

(* Mutant: the re-use count is not incremented. *)
FreedSame(hi) == [ents[hi] EXCEPT !.object = NoHandle, !.thread = NoHandle, !.refcount = 0]

(* free_handle. *)
Freed(hi) == [ents[hi] EXCEPT !.object = NoHandle, !.thread = NoHandle, !.reuse = @ + count,
                              !.refcount = 0]

(* Mutant: the object keeps the reference of the entry. *)
FreeLeak(hi) ==
  /\ ents' = [ents EXCEPT ![hi] = Freed(hi)]
  /\ free' = Append(free, hi)
  /\ UNCHANGED refs

Free(hi) ==
  /\ ents' = [ents EXCEPT ![hi] = Freed(hi)]
  /\ free' = Append(free, hi)
  /\ refs' = [refs EXCEPT ![ents[hi].object] = @ - 1]

-----------------------------------------------------------------------------
(* oz_knl_handle_assign: it takes an entry, expanding a table that is full   *)
(* (without memory for that it returns an error), and keeps the lock shared. *)
Assign(t, o) ==
  /\ place[t] = "run" /\ Exclusive
  /\ Cardinality(issued) < MaxAssigns
  /\ \/ /\ free # <<>>
        /\ ix' = [ix EXCEPT ![t] = Head(free)]
        /\ free' = Tail(free)
        /\ UNCHANGED <<count, ents>>
     \/ /\ free = <<>> /\ 2 * count <= MaxCount
        /\ count' = 2 * count
        /\ ents' = Expanded
        /\ ix' = [ix EXCEPT ![t] = Head(ExpandedFree)]
        /\ free' = Tail(ExpandedFree)
  /\ obj' = [obj EXCEPT ![t] = o]
  /\ place' = [place EXCEPT ![t] = "object"]
  /\ UNCHANGED <<held, listed, refs, copy, copies, issued, tablecrashed>>

FillObject(t) ==
  /\ place[t] = "object"
  /\ ents' = [ents EXCEPT ![ix[t]].object = obj[t]]
  /\ place' = [place EXCEPT ![t] = "rest"]
  /\ UNCHANGED <<count, free, ix, obj, held, listed, refs, copy, copies, issued, tablecrashed>>

FillRest(t) ==
  /\ place[t] = "rest"
  /\ ents' = [ents EXCEPT ![ix[t]] =
                [@ EXCEPT !.type = ObjType[obj[t]], !.thread = t, !.refcount = 1]]
  /\ issued' = issued \cup {[handle |-> Number(ix[t]), object |-> obj[t]]}
  /\ refs' = [refs EXCEPT ![obj[t]] = @ + 1]
  /\ place' = [place EXCEPT ![t] = "run"]
  /\ obj' = [obj EXCEPT ![t] = NoHandle]
  /\ ix' = [ix EXCEPT ![t] = 0]
  /\ UNCHANGED <<count, free, held, listed, copy, copies, tablecrashed>>

(* oz_knl_handle_takeout. *)
Takeout(t, h) ==
  /\ place[t] = "run" /\ held[t].handle = 0 /\ Found(h)
  /\ held' = [held EXCEPT ![t] = [handle |-> h, object |-> ents[h % count].object]]
  /\ ents' = [ents EXCEPT ![h % count].refcount = @ + 2]
  /\ UNCHANGED <<count, free, place, ix, obj, listed, refs, copy, copies, issued, tablecrashed>>

(* oz_knl_handle_putback: the last one out of a released handle comes back   *)
(* with the table locked exclusively to free the entry.                      *)
Putback(t) ==
  LET hi == held[t].handle % count IN
  /\ place[t] = "run" /\ held[t].handle # 0
  /\ ents' = [ents EXCEPT ![hi].refcount = @ - 2]
  /\ place' = [place EXCEPT ![t] = IF ents[hi].refcount = 2 THEN "putback" ELSE "run"]
  /\ held' = IF ents[hi].refcount = 2 THEN held
             ELSE [held EXCEPT ![t] = [handle |-> 0, object |-> NoHandle]]
  /\ tablecrashed' = (tablecrashed \/ ents[hi].refcount < 2)
  /\ UNCHANGED <<count, free, ix, obj, listed, refs, copy, copies, issued>>

PutbackFree(t) ==
  /\ place[t] = "putback" /\ Exclusive
  /\ Free(held[t].handle % count)
  /\ held' = [held EXCEPT ![t] = [handle |-> 0, object |-> NoHandle]]
  /\ place' = [place EXCEPT ![t] = "run"]
  /\ UNCHANGED <<count, ix, obj, listed, copy, copies, issued, tablecrashed>>

(* oz_knl_handle_release. *)
Release(t, h) ==
  LET hi == h % count IN
  /\ place[t] = "run" /\ Exclusive /\ Found(h)
  /\ \/ /\ ents[hi].refcount = 1
        /\ Free(hi)
     \/ /\ ents[hi].refcount # 1
        /\ ents' = [ents EXCEPT ![hi].refcount = @ - 1]
        /\ UNCHANGED <<free, refs>>
  /\ UNCHANGED <<count, place, ix, obj, held, listed, copy, copies, issued, tablecrashed>>

(* oz_knl_handle_setthread with no thread: the handle outlives its owner. *)
SetThread(t, h) ==
  /\ place[t] = "run" /\ Found(h)
  /\ ents' = [ents EXCEPT ![h % count].thread = NoHandle]
  /\ UNCHANGED <<count, free, place, ix, obj, held, listed, refs, copy, copies, issued,
                 tablecrashed>>

(* oz_knl_handle_release_all, by an exiting thread.  The lock is let go      *)
(* after each entry that is freed; those in use lose their assigned bit only.*)
Exit(t) ==
  /\ place[t] = "run" /\ held[t].handle = 0
  /\ place' = [place EXCEPT ![t] = "exit"]
  /\ ix' = [ix EXCEPT ![t] = 1]
  /\ UNCHANGED <<entVars, obj, held, listed, refs, copy, copies, issued, tablecrashed>>

ReleaseAll(t) ==
  LET mine == {hi \in ix[t]..count - 1 : ents[hi].thread = t}
      idle == {hi \in mine : ents[hi].refcount = 1}
      cleared(upto) == [hi \in DOMAIN ents |->
                          IF hi \in mine /\ hi < upto
                          THEN [ents[hi] EXCEPT !.refcount = 2 * (@ \div 2)] ELSE ents[hi]]
  IN
  /\ place[t] = "exit" /\ Exclusive
  /\ \/ /\ \E hi \in idle :
             /\ \A other \in idle : hi <= other
             /\ ents' = [cleared(hi) EXCEPT ![hi] = Freed(hi)]
             /\ free' = Append(free, hi)
             /\ refs' = [refs EXCEPT ![ents[hi].object] = @ - 1]
             /\ ix' = [ix EXCEPT ![t] = hi + 1]
        /\ UNCHANGED place
     \/ /\ idle = {}
        /\ ents' = cleared(count)
        /\ ix' = [ix EXCEPT ![t] = 0]
        /\ place' = [place EXCEPT ![t] = "gone"]
        /\ UNCHANGED <<free, refs>>
  /\ UNCHANGED <<count, obj, held, listed, copy, copies, issued, tablecrashed>>

-----------------------------------------------------------------------------
(* oz_knl_handletbl_statsget: the table locked shared, an entry is copied    *)
(* and then, looked at once more, counted.  The last entry is not listed.    *)
List(t) ==
  /\ t \in Listers /\ place[t] = "run"
  /\ listed[t] = <<>>
  /\ ix' = [ix EXCEPT ![t] = 1]
  /\ place' = [place EXCEPT ![t] = "copy"]
  /\ UNCHANGED <<entVars, obj, held, listed, refs, copy, copies, issued, tablecrashed>>

StatsCopy(t) ==
  /\ place[t] = "copy"
  /\ \/ /\ ix[t] < count - 1
        /\ obj' = [obj EXCEPT ![t] = ents[ix[t]].object]
        /\ place' = [place EXCEPT ![t] = "count"]
        /\ UNCHANGED ix
     \/ /\ ix[t] >= count - 1
        /\ ix' = [ix EXCEPT ![t] = 0]
        /\ place' = [place EXCEPT ![t] = "run"]
        /\ UNCHANGED obj
  /\ UNCHANGED <<entVars, held, listed, refs, copy, copies, issued, tablecrashed>>

StatsCount(t) ==
  LET e == ents[ix[t]] IN
  /\ place[t] = "count"
  /\ listed' = [listed EXCEPT ![t] = IF obj[t] = NoHandle THEN @ ELSE Append(@, obj[t])]
  /\ \/ /\ e.object # NoHandle
        /\ refs' = [refs EXCEPT ![e.object] = @ + 1]
        /\ tablecrashed' = (tablecrashed \/ e.type # ObjType[e.object])
     \/ e.object = NoHandle /\ UNCHANGED <<refs, tablecrashed>>
  /\ ix' = [ix EXCEPT ![t] = @ + 1]
  /\ obj' = [obj EXCEPT ![t] = NoHandle]
  /\ place' = [place EXCEPT ![t] = "copy"]
  /\ UNCHANGED <<entVars, held, copy, copies, issued>>

(* oz_knl_handletbl_statsfree. *)
Occurrences(s, o) == Cardinality({i \in DOMAIN s : s[i] = o})

StatsFree(t) ==
  /\ place[t] = "run" /\ listed[t] # <<>>
  /\ refs' = [o \in Objects |-> refs[o] - Occurrences(listed[t], o)]
  /\ listed' = [listed EXCEPT ![t] = <<>>]
  /\ UNCHANGED <<entVars, place, ix, obj, held, copy, copies, issued, tablecrashed>>

(* oz_knl_handle_tablecopied and, when the copy exits, handletbl_delete.     *)
(* Whoever copies a process keeps its other threads from using handles.      *)
TableCopied ==
  /\ copy = <<>> /\ copies < Copies
  /\ \A t \in Threads : place[t] \in {"run", "gone"} /\ held[t].handle = 0
  /\ copies' = copies + 1
  /\ copy' = [hi \in 1..count - 1 |-> ents[hi].object]
  /\ refs' = [o \in Objects |-> refs[o] + Cardinality({hi \in 1..count - 2 : ents[hi].object = o})]
  /\ UNCHANGED <<entVars, place, ix, obj, held, listed, issued, tablecrashed>>

DeleteCopy ==
  /\ copy # <<>>
  /\ refs' = [o \in Objects |-> refs[o] - Occurrences(copy, o)]
  /\ copy' = <<>>
  /\ UNCHANGED <<entVars, place, ix, obj, held, listed, copies, issued, tablecrashed>>

-----------------------------------------------------------------------------
Handle == {i.handle : i \in issued}

TableNext ==
  \/ \E t \in Threads :
       \/ \E o \in Objects : Assign(t, o)
       \/ \E h \in Handle : Takeout(t, h) \/ Release(t, h) \/ SetThread(t, h)
       \/ FillObject(t) \/ FillRest(t) \/ Putback(t) \/ PutbackFree(t)
       \/ Exit(t) \/ ReleaseAll(t)
       \/ List(t) \/ StatsCopy(t) \/ StatsCount(t) \/ StatsFree(t)
  \/ TableCopied \/ DeleteCopy

TableSpec == TableInit /\ [][TableNext]_tableVars

-----------------------------------------------------------------------------
(* A handle never changes its meaning: whatever happens to the table, a      *)
(* handle that is found leads to the object it was assigned to, and so does  *)
(* one that is taken out, though it may be released meanwhile and is found   *)
(* no more; and the numbers of the free entries have never been handed out,  *)
(* so a stale handle can never become valid again.                          *)
HandlesKeepMeaning ==
  /\ \A i \in issued : Found(i.handle) => ents[i.handle % count].object = i.object
  /\ \A t \in Threads : held[t].handle # 0 /\ place[t] # "putback" =>
       LET e == ents[held[t].handle % count] IN
         e.object = held[t].object /\ e.refcount >= 2
  /\ \A j \in DOMAIN free : Number(free[j]) \notin Handle

(* The references counted for an object are those of the entries that hold   *)
(* it, of the copied table and of the lists that have been made.  (Entries   *)
(* and lists count when their caller is done with them.)                     *)
Settled == \A t \in Threads : place[t] \notin {"rest", "copy", "count"}

RefsExact ==
  Settled => \A o \in Objects :
    refs[o] = Cardinality({hi \in DOMAIN ents : ents[hi].object = o})
              + Occurrences(copy, o)
              + MapThenSumSet(LAMBDA t : Occurrences(listed[t], o), Threads)

(* A thread that is gone has left no handle assigned; and no entry is lost  *)
(* to, or twice on, the free list.                                         *)
EntriesKept ==
  /\ \A hi \in DOMAIN ents : ents[hi].refcount % 2 = 1 =>
       ents[hi].thread = NoHandle \/ place[ents[hi].thread] # "gone"
  /\ IsInjective(free)
  /\ ToSet(free) = {hi \in DOMAIN ents : ents[hi].object = NoHandle}
                   \ {ix[t] : t \in {u \in Threads : place[u] = "object"}}

(* The references counted are those that tables and lists hold, and what is  *)
(* taken out stays while the table grows, is copied, and is released; no     *)
(* entry is lost; and nothing crashes.                                      *)
TableExact == EntriesKept /\ RefsExact /\ ~tablecrashed
=============================================================================
