----------------------------- MODULE DiskCache ------------------------------
(***************************************************************************)
(* The disk cache (oz_knl_dcache.c): blocks of a disk are read and written  *)
(* in pages of the page cache; a page that was written goes on the queue of *)
(* dirty pages, and a timer has the queue written, spread over time.        *)
(*                                                                         *)
(* The page cache is used as KeyLocks promises, and says here besides how   *)
(* often a page is referenced, since an unused page may be reclaimed.  The  *)
(* data of a page are cut in units; of each the model knows whether the     *)
(* memory, and whether the disk, is behind what was last written to it.     *)
(* A disk transfers a page at one moment, and completes the request later.  *)
(* The model goes as far as the first of three faults that the code meets:  *)
(* see "spoilt".                                                           *)
(***************************************************************************)
EXTENDS Integers, SequencesExt

CONSTANTS
  Keys,        \* pages of the disk
  Users,       \* requests that can be under way at a time
  Ops,         \* what is asked for
  Ranges,      \* the parts of a page that are, <<first unit, unit after the last>>
  PageSize,    \* units in a page
  BlockSize,   \* units in a block of the disk
  Errors,      \* whether the disk fails
  Terminates,  \* whether the volume is dismounted
  MaxRefs,     \* bound on the references to a page
  None         \* no page

ASSUME KeysAssumption == IsFiniteSet(Keys) /\ Keys \subseteq Int /\ None \notin Keys
ASSUME UsersAssumption ==
  IsFiniteSet(Users) /\ Users \cap {"flusher", "terminator", None} = {} /\ None # "terminator"
ASSUME SizesAssumption ==
  /\ PageSize \in Nat /\ BlockSize \in Nat \ {0} /\ PageSize % BlockSize = 0
  /\ \A r \in Ranges : r \in Nat \X Nat /\ r[2] <= PageSize
ASSUME OpsAssumption ==
  Ops \subseteq {"readw", "writew", "writethru", "map", "mapwrite", "mapthru", "prefetch",
                 "pfmap", "pfupd", "pfthru"}

VARIABLES
  dcpage,      \* key: its page in the cache
  old,         \* key: the units in which memory and disk are behind
  dirties,     \* dirty_qh: the queue of dirty pages
  writer,      \* who uses spread_timer, and the pages it still has to write
  collision,   \* spread_collision
  flush,       \* flush_timer: "queued", "running" or "gone"
  counts,      \* rdniopend, wtniopend and ndirties
  event, asleep,
  linking,     \* who has found the event flag clear, and holds its smplock_ev
  io,          \* what the disk has to do
  at,          \* user: where its routine is, and the routine's locals
  term,        \* where oz_knl_dcache_term is; "no": terminate is not set
  spoilt       \* Three faults after which nothing is said of the cache any more:
               \* a page is reclaimed under the routine that has queued it; pfupd
               \* hands the reference of who mapped the page to the queue, for him
               \* to give it back once more; a write fails, which write_done only
               \* prints.

data == <<dcpage, old>>
writing == <<dirties, writer, collision, flush>>
events == <<event, asleep, linking>>
vars == <<data, writing, counts, events, io, at, term, spoilt>>

-----------------------------------------------------------------------------
Units == 0..PageSize - 1
Span(r) == r[1]..r[2] - 1

Flusher == "flusher"          \* write_done completes the request
Terminator == "terminator"    \* the thread in oz_knl_dcache_term

(* Requests whose thread waits for the disk; the others are called back.     *)
Sync == {"readw", "writew", "writethru", "pfmap"}
Writes == {"writew", "writethru", "mapwrite", "mapthru"}
Through == {"writethru", "mapthru"}

OpMode(op) == IF op \in Writes THEN "EX" ELSE IF op \in {"readw", "map"} THEN "PR" ELSE "NL"

NoPage == [in |-> FALSE, refs |-> 0, lock |-> 0, valid |-> 0, state |-> 0]
Out == [pc |-> "out", op |-> "none", key |-> None, range |-> <<0, 0>>, mode |-> "NL",
        want |-> "NL", status |-> "none", waited |-> FALSE, rd |-> FALSE]

Init ==
  /\ dcpage = [k \in Keys |-> NoPage]
  /\ old = [k \in Keys |-> [mem |-> Units, disk |-> {}]]
  /\ dirties = <<>> /\ collision = FALSE /\ flush = "queued"
  /\ writer = [pc |-> "free", by |-> "none", batch |-> <<>>]
  /\ counts = [rd |-> 0, wt |-> 0, dirty |-> 0]
  /\ event = 0 /\ asleep = {} /\ linking = None
  /\ io = {}
  /\ at = [u \in Users |-> Out]
  /\ term = "no" /\ spoilt = FALSE

(* oz_knl_event_set: if the flag was clear, and the look at the list, which  *)
(* takes no lock, finds somebody in it, everybody in it is woken once        *)
(* smplock_ev is free, he who was about to be linked included.  A look that  *)
(* comes before he is linked may find nobody, and then he is not woken.      *)
SetEvent ==
  /\ event' = 1
  /\ \/ event = 0 /\ asleep' = {} /\ linking' = None
     \/ (event = 1 \/ asleep = {}) /\ UNCHANGED <<asleep, linking>>

(* oz_knl_event_waitone, by w: the test of the flag, and the link to its     *)
(* list, with smplock_ev locked.  Nothing looks at the flag between the two. *)
(* If somebody else has the lock, w gets it once he has linked himself.      *)
TestEvent(w) ==
  /\ linking' = IF event = 1 THEN None ELSE w
  /\ asleep' = asleep \cup ({linking} \ {None})
  /\ UNCHANGED event

LinkEvent(w) ==
  /\ linking = w
  /\ linking' = None /\ asleep' = asleep \cup {w}
  /\ UNCHANGED event

(* Its end, and the clear of the flag that follows wherever it is called.    *)
ClearEvent(w) ==
  /\ w \notin asleep \cup {linking}
  /\ event' = 0
  /\ UNCHANGED <<asleep, linking>>

Pg(u) == dcpage[at[u].key]
GoTo(u, pc) == at' = [at EXCEPT ![u].pc = pc]

-----------------------------------------------------------------------------
(* oz_knl_cache_find, _conv and _done, as KeyLocks and the counts of         *)
(* PageCache have them.                                                     *)
Fits(n, m) == (m = "PR" => n >= 0) /\ (m = "EX" => n = 0)
Locked(n, m) == CASE m = "NL" -> n [] m = "PR" -> n + 1 [] m = "EX" -> -1
Unlocked(n, m) == CASE m = "NL" -> n [] m = "PR" -> n - 1 [] m = "EX" -> 0

Find(u) ==
  /\ at[u].pc = "out" /\ term = "no"
  /\ \E op \in Ops \ {"pfupd", "pfthru"}, k \in Keys, r \in Ranges :
       /\ at' = [at EXCEPT ![u] = [Out EXCEPT !.pc = "lock", !.op = op, !.key = k,
                                              !.range = r, !.want = OpMode(op)]]
       /\ dcpage[k].refs < MaxRefs
       /\ dcpage' = [dcpage EXCEPT ![k].in = TRUE, ![k].refs = @ + 1]
  /\ UNCHANGED <<old, writing, counts, events, io, term>>

Lock(u) ==
  /\ at[u].pc = "lock" /\ Fits(Pg(u).lock, at[u].want)
  /\ dcpage' = [dcpage EXCEPT ![at[u].key].lock = Locked(@, at[u].want)]
  /\ at' = [at EXCEPT ![u].pc = "look", ![u].mode = at[u].want]
  /\ UNCHANGED <<old, writing, counts, events, io, term>>

(* oz_knl_cache_freepage looks at nothing but the reference count.  It is    *)
(* zero as well if the page that was queued is written before the routine   *)
(* that queued it gets to its next statement, which unlocks the page.       *)
Reclaim(k) ==
  /\ dcpage[k].in /\ dcpage[k].refs = 0
  /\ dcpage' = [dcpage EXCEPT ![k] = NoPage]
  /\ old' = [old EXCEPT ![k].mem = Units]
  /\ spoilt' = (\E u \in Users : at[u].pc = "keep" /\ at[u].key = k)
  /\ UNCHANGED <<writing, counts, events, io, at, term>>

(* A request that is called back takes itself off the reads in progress when *)
(* it returns to read_async_done.                                           *)
Unread(u, n) == [counts EXCEPT !.rd = @ - IF at[u].rd THEN 1 ELSE 0, !.dirty = @ + n]

Release(u, m) ==
  dcpage' = [dcpage EXCEPT ![at[u].key].lock = Unlocked(@, m), ![at[u].key].refs = @ - 1]

Drop(u) ==
  /\ at[u].pc = "drop"
  /\ Release(u, at[u].mode)
  /\ counts' = Unread(u, 0)
  /\ at' = [at EXCEPT ![u] = Out]
  /\ UNCHANGED <<old, writing, events, io, term>>

-----------------------------------------------------------------------------
(* oz_knl_dcache_readw, _writew, _map, _prefetch and _pfmap: is what is      *)
(* wanted, or what surrounds what is to be written, in the page?            *)
Covered(op, valid, r) ==
  CASE op \in {"readw", "map"} -> r[2] <= valid
    [] op \in Writes -> r[2] <= valid \/ (r[1] <= valid /\ r[2] % BlockSize = 0)
    [] OTHER -> valid = PageSize

(* The page has what is wanted: modify it, or go down to the mode the data   *)
(* are read in, or for pfmap left in.                                       *)
Ready(l) ==
  CASE l.op \in Writes -> "modify"
    [] l.op \in {"readw", "pfmap"} /\ l.mode = "EX" -> "lower"
    [] l.op = "pfmap" /\ l.mode # "EX" -> "mapped"
    [] OTHER -> "drop"

Have(u) ==
  /\ at[u].pc = "look" /\ Covered(at[u].op, Pg(u).valid, at[u].range)
  /\ GoTo(u, Ready(at[u]))
  /\ UNCHANGED <<data, writing, counts, events, io, term>>

(* "get exclusive access to the page so others can't try reading, too"      *)
Raise(u) ==
  /\ at[u].pc = "look" /\ ~Covered(at[u].op, Pg(u).valid, at[u].range)
  /\ at[u].mode # "EX"
  /\ dcpage' = [dcpage EXCEPT ![at[u].key].lock = Unlocked(@, at[u].mode)]
  /\ at' = [at EXCEPT ![u].pc = "lock", ![u].mode = "NL", ![u].want = "EX"]
  /\ UNCHANGED <<old, writing, counts, events, io, term>>

Lower(u) ==
  LET m == OpMode(at[u].op) IN
  /\ at[u].pc = "lower"
  /\ dcpage' = [dcpage EXCEPT ![at[u].key].lock = Locked(0, m)]
  /\ at' = [at EXCEPT ![u].mode = m, ![u].pc = Ready([at[u] EXCEPT !.mode = m])]
  /\ UNCHANGED <<old, writing, counts, events, io, term>>

Request(op, k, from, to, by) ==
  [op |-> op, key |-> k, from |-> from, to |-> to, by |-> by, done |-> "no"]

(* read_page and read_page_async: the rest of the page after what is valid.  *)
StartRead(u) ==
  /\ at[u].pc = "look" /\ ~Covered(at[u].op, Pg(u).valid, at[u].range)
  /\ at[u].mode = "EX"
  /\ io' = io \cup {Request("read", at[u].key, Pg(u).valid, PageSize, u)}
  /\ counts' = [counts EXCEPT !.rd = @ + 1]
  /\ at' = [at EXCEPT ![u].pc = IF at[u].op \in Sync THEN "test" ELSE "callback",
                      ![u].status = "pending", ![u].waited = FALSE, ![u].rd = TRUE]
  /\ UNCHANGED <<data, writing, events, term>>

(* What comes of the read.  pfmap and map do not release the page when the   *)
(* read has failed.                                                         *)
ReadEnds(u) ==
  LET good == at[u].status = "good"
      now == [at[u] EXCEPT !.rd = at[u].op \notin Sync, !.status = "none", !.waited = FALSE] IN
  /\ dcpage' = [dcpage EXCEPT ![at[u].key].valid = IF good THEN PageSize ELSE @]
  /\ counts' = [counts EXCEPT !.rd = @ - IF at[u].op \in Sync THEN 1 ELSE 0]
  /\ at' = [at EXCEPT ![u] = [now EXCEPT !.pc =
              IF good THEN Ready(at[u])
              ELSE IF at[u].op \in {"readw", "writew", "writethru", "prefetch"} THEN "drop"
              ELSE "stuck"]]

(* The loop in which a thread waits: all that wait for the disk share one    *)
(* event flag, and each clears it before it looks at its own request.       *)
Sleep(u) ==
  /\ at[u].pc = "test" /\ at[u].status = "pending"
  /\ GoTo(u, "wait")
  /\ UNCHANGED <<data, writing, counts, events, io, term>>

Wait(u) ==
  /\ at[u].pc = "wait" /\ TestEvent(u)
  /\ GoTo(u, "woken")
  /\ UNCHANGED <<data, writing, counts, io, term>>

Link(u) ==
  /\ at[u].pc = "woken" /\ LinkEvent(u)
  /\ UNCHANGED <<data, writing, counts, io, at, term>>

Woken(u) ==
  /\ at[u].pc = "woken" /\ ClearEvent(u)
  /\ at' = [at EXCEPT ![u].pc = "test", ![u].waited = TRUE]
  /\ UNCHANGED <<data, writing, counts, io, term>>

(* "set in case someone else was waiting"                                   *)
PassOnNever(u) == UNCHANGED events  \* the mutant of PassOn

PassOn(u) == IF at[u].waited THEN SetEvent ELSE UNCHANGED events

SyncEnds(u) ==
  /\ at[u].pc = "test" /\ at[u].status # "pending"
  /\ PassOn(u)
  /\ IF at[u].rd
     THEN ReadEnds(u)
     ELSE /\ counts' = [counts EXCEPT !.wt = @ - 1]
          /\ at' = [at EXCEPT ![u].pc = IF at[u].op = "pfmap" THEN "mapped" ELSE "drop",
                              ![u].status = "none", ![u].waited = FALSE]
          /\ UNCHANGED dcpage
  /\ UNCHANGED <<old, writing, io, term>>

(* read_async_done and map_readin, prefetch_readin or map_writtenthru        *)
AsyncEnds(u) ==
  /\ at[u].pc = "callback" /\ at[u].status # "pending"
  /\ IF at[u].op \in Through /\ ~at[u].rd
     THEN /\ counts' = [counts EXCEPT !.wt = @ - 1]
          /\ at' = [at EXCEPT ![u].pc = "drop", ![u].status = "none"]
          /\ UNCHANGED dcpage
     ELSE ReadEnds(u)
  /\ UNCHANGED <<old, writing, events, io, term>>

-----------------------------------------------------------------------------
(* Copy to the page, which is now ahead of the disk.  What pfupd is called   *)
(* for, other than to write through, it gives to the queue of dirty pages    *)
(* with the reference its caller has to give back with pfrel.               *)
Modify(u) ==
  LET k == at[u].key IN
  /\ at[u].pc \in {"modify", "mapped"}
  /\ at[u].pc = "mapped" => {"pfupd", "pfthru"} \cap Ops # {}
  /\ old' = [old EXCEPT ![k].mem = @ \ Span(at[u].range), ![k].disk = @ \cup Span(at[u].range)]
  /\ \/ /\ at[u].op \in Through \/ (at[u].pc = "mapped" /\ "pfthru" \in Ops)
        /\ GoTo(u, "thru") /\ UNCHANGED spoilt
     \/ /\ at[u].op \in Writes \ Through \/ (at[u].pc = "mapped" /\ "pfupd" \in Ops)
        /\ GoTo(u, "mark") /\ spoilt' = (at[u].pc = "mapped")
  /\ UNCHANGED <<dcpage, writing, counts, events, io, term>>

NewValid(u) ==
  IF at[u].op # "pfmap" /\ Pg(u).valid < at[u].range[2] THEN at[u].range[2] ELSE Pg(u).valid

WriteThru(u) ==
  LET k == at[u].key IN
  /\ at[u].pc = "thru"
  /\ dcpage' = [dcpage EXCEPT ![k].valid = NewValid(u)]
  /\ io' = io \cup {Request("write", k, 0, NewValid(u), u)}
  /\ counts' = [Unread(u, 0) EXCEPT !.wt = @ + 1]
  /\ at' = [at EXCEPT ![u].pc = IF at[u].op \in Sync THEN "test" ELSE "callback",
                      ![u].status = "pending", ![u].rd = FALSE,
                      ![u].waited = (at[u].op = "pfmap")]
  /\ UNCHANGED <<old, writing, events, term>>

(* mark_page_dirty: first what is valid, then, with the queue locked, the    *)
(* state.  A page that is neither queued nor being written is queued, one    *)
(* that is being written will be queued again, and either way the request's  *)
(* reference to it is kept.                                                 *)
SetValid(u) ==
  /\ at[u].pc = "mark"
  /\ dcpage' = [dcpage EXCEPT ![at[u].key].valid = NewValid(u)]
  /\ GoTo(u, "switch")
  /\ UNCHANGED <<old, writing, counts, events, io, term>>

(* Mutants of Mark: a page that is being written is taken to be queued; the  *)
(* request's reference to the page is always given back.                    *)
MarkOnce(u) ==
  LET k == at[u].key
      s == dcpage[k].state IN
  /\ at[u].pc = "switch"
  /\ dcpage' = [dcpage EXCEPT ![k].state = IF s = 0 THEN 1 ELSE s]
  /\ dirties' = IF s = 0 THEN Append(dirties, k) ELSE dirties
  /\ counts' = [counts EXCEPT !.dirty = @ + IF s = 0 THEN 1 ELSE 0]
  /\ GoTo(u, IF s = 0 THEN "keep" ELSE "unmark")
  /\ UNCHANGED <<old, writer, collision, flush, events, io, term>>

MarkDrops(u) ==
  LET k == at[u].key
      s == dcpage[k].state IN
  /\ at[u].pc = "switch"
  /\ dcpage' = [dcpage EXCEPT ![k].state = CASE s = 0 -> 1 [] s = 2 -> 3 [] OTHER -> s]
  /\ dirties' = IF s = 0 THEN Append(dirties, k) ELSE dirties
  /\ counts' = [counts EXCEPT !.dirty = @ + IF s = 0 THEN 1 ELSE 0]
  /\ GoTo(u, "unmark")
  /\ UNCHANGED <<old, writer, collision, flush, events, io, term>>

Mark(u) ==
  LET k == at[u].key
      s == dcpage[k].state IN
  /\ at[u].pc = "switch"
  /\ dcpage' = [dcpage EXCEPT ![k].state = CASE s = 0 -> 1 [] s = 2 -> 3 [] OTHER -> s]
  /\ dirties' = IF s = 0 THEN Append(dirties, k) ELSE dirties
  /\ counts' = [counts EXCEPT !.dirty = @ + IF s = 0 THEN 1 ELSE 0]
  /\ GoTo(u, IF s \in {0, 2} THEN "keep" ELSE "unmark")
  /\ UNCHANGED <<old, writer, collision, flush, events, io, term>>

(* "allow others total access but keep refcount incremented", or "don't keep *)
(* refcount incremented".                                                   *)
Marked(u) ==
  /\ \/ at[u].pc = "keep" /\ dcpage' = [dcpage EXCEPT ![at[u].key].lock = 0]
     \/ at[u].pc = "unmark" /\ Release(u, "EX")
  /\ counts' = Unread(u, 0)
  /\ at' = [at EXCEPT ![u] = Out]
  /\ UNCHANGED <<old, writing, events, io, term>>

(* oz_knl_dcache_pfrel                                                       *)
PfRel(u) ==
  /\ at[u].pc = "mapped"
  /\ GoTo(u, "drop")
  /\ UNCHANGED <<data, writing, counts, events, io, term>>

-----------------------------------------------------------------------------
(* startwriting, called by the flush timer, by the last start_write after a  *)
(* collision and by oz_knl_dcache_term.  Taking spread_timer keeps others    *)
(* out.  Return: what its caller does then.                                 *)
Terminating == term # "no"

Return(by) ==
  /\ flush' = IF by = "flush" THEN "queued" ELSE flush
  /\ term' = IF by # "term" THEN term ELSE IF term = "starting" THEN "test" ELSE "wait"

FlushTick ==
  /\ flush = "queued"
  /\ IF Terminating
     THEN flush' = "gone" /\ SetEvent /\ UNCHANGED <<writer, collision>>
     ELSE /\ IF writer.pc = "free"
             THEN /\ writer' = [pc |-> "take", by |-> "flush", batch |-> <<>>]
                  /\ flush' = "running" /\ UNCHANGED collision
             ELSE collision' = TRUE /\ UNCHANGED <<writer, flush>>
          /\ UNCHANGED events
  /\ UNCHANGED <<data, dirties, counts, io, at, term>>

(* The least that avgwriterate can be; term doubles it.                      *)
MinRate == IF Terminating THEN 4 ELSE 2

Free == [pc |-> "free", by |-> "none", batch |-> <<>>]

InKeyOrder(s) ==
  {b \in [DOMAIN s -> Range(s)] :
     Range(b) = Range(s) /\ \A i, j \in DOMAIN s : i < j => b[i] < b[j]}

(* "Get at most 'avgwriterate'", in order of key.                            *)
Take ==
  /\ writer.pc = "take"
  /\ IF dirties = <<>>
     THEN /\ writer' = Free /\ Return(writer.by)
          /\ IF Terminating THEN SetEvent ELSE UNCHANGED events
          /\ UNCHANGED dirties
     ELSE /\ \E n \in Min({MinRate, Len(dirties)})..Len(dirties) :
               /\ \E b \in InKeyOrder(SubSeq(dirties, 1, n)) :
                    writer' = [writer EXCEPT !.pc = "state", !.batch = b]
               /\ dirties' = SubSeq(dirties, n + 1, Len(dirties))
          /\ UNCHANGED <<events, flush, term>>
  /\ UNCHANGED <<data, collision, counts, io, at>>

(* start_write: the state first, then how much there is to write.            *)
SetState ==
  LET k == Head(writer.batch) IN
  /\ writer.pc = "state"
  /\ dcpage' = [dcpage EXCEPT ![k].state = 2]
  /\ writer' = [writer EXCEPT !.pc = "issue"]
  /\ UNCHANGED <<old, dirties, collision, flush, counts, events, io, at, term>>

(* The next page at once or when spread_timer expires; after the last one    *)
(* the spread_timer is put back, or used again after a collision.  The put   *)
(* back, the set of the event flag and the look at spread_collision are one  *)
(* step here, and so are the look at spread_timer and the set of             *)
(* spread_collision in FlushTick and TermWrite.  In the code a collision may *)
(* come in between, and waits for the next flush interval, or for the test   *)
(* that oz_knl_dcache_term makes itself.                                    *)
Issue ==
  LET k == Head(writer.batch)
      rest == Tail(writer.batch)
      Goes(pc, by) == writer' = [pc |-> pc, by |-> by, batch |-> rest] IN
  /\ writer.pc = "issue"
  /\ io' = io \cup {Request("write", k, 0, dcpage[k].valid, Flusher)}
  /\ counts' = [counts EXCEPT !.wt = @ + 1]
  /\ \/ rest # <<>> /\ Goes("state", writer.by) /\ UNCHANGED <<collision, flush, events, term>>
     \/ /\ rest # <<>> /\ Goes("spread", "spread") /\ Return(writer.by)
        /\ UNCHANGED <<collision, events>>
     \/ /\ rest = <<>>
        /\ IF Terminating THEN SetEvent ELSE UNCHANGED events
        /\ IF collision
           THEN Goes("take", writer.by) /\ UNCHANGED <<flush, term>>
           ELSE writer' = Free /\ Return(writer.by)
        /\ collision' = FALSE
  /\ UNCHANGED <<data, dirties, at>>

SpreadTick ==
  /\ writer.pc = "spread"
  /\ writer' = [writer EXCEPT !.pc = "state"]
  /\ UNCHANGED <<data, dirties, collision, flush, counts, events, io, at, term>>

-----------------------------------------------------------------------------
(* The disk transfers the data, and completes the request.                   *)
Transfer(r) ==
  LET span == r.from..r.to - 1
      k == r.key IN
  /\ r.done = "no"
  /\ old' = IF r.op = "read"
            THEN [old EXCEPT ![k].mem = (@ \ span) \cup (old[k].disk \cap span)]
            ELSE [old EXCEPT ![k].disk = (@ \ span) \cup (old[k].mem \cap span)]
  /\ io' = (io \ {r}) \cup {[r EXCEPT !.done = "moved"]}
  /\ UNCHANGED <<dcpage, writing, counts, events, at, term>>

Answer(r, status) ==
  /\ r.by \in Users
  /\ io' = io \ {r}
  /\ at' = [at EXCEPT ![r.by].status = status]
  /\ IF at[r.by].op \in Sync THEN SetEvent ELSE UNCHANGED events
  /\ UNCHANGED <<data, writing, counts, term>>

Complete(r) == r.done = "moved" /\ Answer(r, "good")

Fail(r) ==
  /\ Errors /\ r.done = "no"
  /\ \/ r.op = "read" /\ Answer(r, "bad") /\ UNCHANGED spoilt
     \/ r.op = "write" /\ spoilt' = TRUE
        /\ \/ Answer(r, "bad")
           \/ /\ r.by = Flusher /\ io' = (io \ {r}) \cup {[r EXCEPT !.done = "moved"]}
              /\ UNCHANGED <<data, writing, counts, events, at, term>>

(* write_done.  "Set event flag in case someone is waiting for number of     *)
(* dirty pages < average write rate".                                       *)
Written(r, dirtied) ==
  /\ io' = io \ {r}
  /\ counts' = [counts EXCEPT !.wt = @ - 1, !.dirty = @ + dirtied - 1]
  /\ \/ SetEvent
     \/ counts.dirty + dirtied - 1 >= MinRate /\ UNCHANGED events

(* The bound: no second write_done of a page until the first is over.        *)
Prompt(k) == \A r \in io : r.key = k => r.done \notin {"drop", "count"}

WriteDone(r) ==
  LET k == r.key IN
  /\ r.by = Flusher /\ r.done = "moved" /\ Prompt(k)
  /\ \/ /\ dcpage[k].state = 2
        /\ dcpage' = [dcpage EXCEPT ![k].state = 0]
        /\ io' = (io \ {r}) \cup {[r EXCEPT !.done = "drop"]}
        /\ UNCHANGED <<dirties, counts, events>>
     \/ /\ dcpage[k].state = 3
        /\ dcpage' = [dcpage EXCEPT ![k].state = 1]
        /\ dirties' = Append(dirties, k)
        /\ Written(r, 1)
  /\ UNCHANGED <<old, writer, collision, flush, at, term>>

WriteDrop(r) ==
  /\ r.done = "drop"
  /\ dcpage' = [dcpage EXCEPT ![r.key].refs = @ - 1]
  /\ io' = (io \ {r}) \cup {[r EXCEPT !.done = "count"]}
  /\ UNCHANGED <<old, writing, counts, events, at, term>>

WriteCount(r) ==
  /\ r.done = "count" /\ Written(r, 0)
  /\ UNCHANGED <<data, writing, at, term>>

-----------------------------------------------------------------------------
(* oz_knl_dcache_term, without abort: it is called when nobody uses the      *)
(* cache any more.  First the flush timer, then what is still dirty.        *)
TermStart ==
  /\ Terminates /\ term = "no" /\ counts.rd = 0
  /\ \A u \in Users : at[u].pc = "out"
  /\ event' = 0
  /\ term' = "timer"
  /\ UNCHANGED <<data, writing, counts, asleep, linking, io, at>>

TermTimer ==
  /\ term = "timer"
  /\ flush' = IF flush = "queued" THEN "gone" ELSE flush
  /\ term' = IF flush = "running" THEN "timerwait" ELSE "start"
  /\ UNCHANGED <<data, dirties, writer, collision, counts, events, io, at>>

TermWait ==
  /\ term \in {"timerwait", "wait"} /\ TestEvent(Terminator)
  /\ term' = IF term = "wait" THEN "woken" ELSE "timerwoken"
  /\ UNCHANGED <<data, writing, counts, io, at>>

TermLink ==
  /\ term \in {"timerwoken", "woken"} /\ LinkEvent(Terminator)
  /\ UNCHANGED <<data, writing, counts, io, at, term>>

TermWoken ==
  /\ term \in {"timerwoken", "woken"} /\ ClearEvent(Terminator)
  /\ term' = IF term = "woken" THEN "test" ELSE "timer"
  /\ UNCHANGED <<data, writing, counts, io, at>>

TermTest ==
  /\ term = "test"
  /\ term' = IF counts.wt = 0 /\ writer.pc = "free" /\ counts.dirty = 0 THEN "freed"
             ELSE IF writer.pc = "free" /\ dirties # <<>> THEN "again"
             ELSE "wait"
  /\ UNCHANGED <<data, writing, counts, events, io, at>>

TermWrite ==
  /\ term \in {"start", "again"}
  /\ IF writer.pc = "free"
     THEN /\ writer' = [pc |-> "take", by |-> "term", batch |-> <<>>]
          /\ term' = IF term = "start" THEN "starting" ELSE "restarting"
          /\ UNCHANGED collision
     ELSE collision' = TRUE /\ writer' = writer
          /\ term' = IF term = "start" THEN "test" ELSE "wait"
  /\ UNCHANGED <<data, dirties, flush, counts, events, io, at>>

-----------------------------------------------------------------------------
(* The steps that leave the cache as sound as it is. *)
Sound == spoilt = FALSE /\ spoilt' = FALSE

Goes(u) ==
  /\ Sound
  /\ \/ Lock(u) \/ Drop(u) \/ Have(u) \/ Raise(u) \/ Lower(u) \/ StartRead(u) \/ Sleep(u)
     \/ Wait(u) \/ Link(u) \/ Woken(u) \/ SyncEnds(u) \/ AsyncEnds(u) \/ WriteThru(u)
     \/ SetValid(u) \/ Mark(u) \/ Marked(u) \/ (at[u].pc = "modify" /\ Modify(u))

Disk(r) ==
  Sound /\ (Transfer(r) \/ Complete(r) \/ WriteDone(r) \/ WriteDrop(r) \/ WriteCount(r))

Served(u) == \E r \in io : r.by = u /\ Disk(r)

Flushed(k) == \E r \in io : r.by = Flusher /\ r.key = k /\ Disk(r)

Flush == Sound /\ FlushTick

Writer == Sound /\ (Take \/ SetState \/ Issue \/ SpreadTick)

Term == Sound /\ (TermTimer \/ TermWait \/ TermLink \/ TermWoken \/ TermTest \/ TermWrite)

Next ==
  \/ \E u \in Users : Goes(u) \/ (Sound /\ (Find(u) \/ PfRel(u)))
  \/ (\E r \in io : Disk(r)) \/ Flush \/ Writer \/ (Sound /\ TermStart) \/ Term
  \/ /\ ~spoilt
     /\ \/ \E u \in Users : at[u].pc = "mapped" /\ Modify(u)
        \/ \E r \in io : Fail(r)
        \/ \E k \in Keys : Reclaim(k)

Spec == Init /\ [][Next]_vars

-----------------------------------------------------------------------------
(* Properties *)

(* Requests between the copy to the page and the note that it is dirty, or   *)
(* the transfer of a write of their own.                                    *)
Modifies(u) ==
  \/ at[u].pc \in {"thru", "mark", "switch"}
  \/ \E r \in io : r.by = u /\ r.op = "write" /\ r.done = "no"

(* Units of a page that a write which is under way, or its issuing, brings   *)
(* to the disk.                                                             *)
Writing(k) ==
  (UNION {r.from..r.to - 1 : r \in {q \in io : q.key = k /\ q.op = "write" /\ q.done = "no"}})
    \cup (IF writer.pc = "issue" /\ Head(writer.batch) = k THEN 0..dcpage[k].valid - 1 ELSE {})

Queued(k) ==
  \/ k \in Range(dirties)
  \/ k \in Range(writer.batch) /\ ~(writer.pc = "issue" /\ Head(writer.batch) = k)

(* A page is valid up to the end of a block, or the next read of it crashes. *)
(* What is valid in a page is the latest; where the disk is behind, the page *)
(* is queued or its write is under way; and nothing is left to be written    *)
(* when the cache is terminated.  So it is up to the first of the faults.     *)
NothingLost ==
  ~spoilt =>
    /\ \A k \in Keys :
         LET p == dcpage[k] IN
         /\ p.valid % BlockSize = 0
         /\ old[k].mem \cap 0..p.valid - 1 = {}
         /\ \/ \E u \in Users : at[u].key = k /\ Modifies(u)
            \/ /\ old[k].disk \subseteq 0..p.valid - 1
               /\ old[k].disk = {} \/ p.state \in {1, 3} \/ old[k].disk \subseteq Writing(k)
         /\ p.state = 1 => Queued(k)
    /\ term = "freed" => \A k \in Keys : old[k].disk = {}

(* References to a page by requests, and by the queue of dirty pages.        *)
Referenced(k) ==
  Cardinality({u \in Users : at[u].key = k /\ at[u].pc # "keep"})
    + (IF dcpage[k].state # 0 THEN 1 ELSE 0)
    + Cardinality({r \in io : r.key = k /\ r.done = "drop"})

(* A page is in memory for as long as somebody uses it, and its lock count   *)
(* is what the requests hold; up to the first of the faults.                *)
PagesHeld ==
  ~spoilt =>
    \A k \in Keys :
      LET held(m) == {u \in Users : at[u].key = k /\ at[u].mode = m} IN
      /\ dcpage[k].refs >= Referenced(k)
      /\ dcpage[k].lock = IF held("EX") # {} THEN -1 ELSE Cardinality(held("PR"))

(* A page that nobody uses, and that is not to be written, can be reclaimed: *)
(* "don't keep refcount incremented on the page (we already have a refcount  *)
(* from when it was put on dirties list)".                                  *)
RefsGivenBack ==
  \A k \in Keys : Referenced(k) = 0 /\ (\A r \in io : r.key # k) => dcpage[k].refs = 0

Waiting == {"test", "wait", "woken", "callback"}

(* He sleeps though the flag is set: it was set between his test and his     *)
(* linking.  Nothing but another set of the flag, once somebody has cleared  *)
(* it, wakes him.                                                           *)
Stranded(w) == w \in asleep /\ event = 1

(* Who waits for the disk goes on, a page that is queued is written, and     *)
(* term ends; up to the first of the faults, and unless he who waits, or     *)
(* term, comes to sleep on the flag that is set.                            *)
DiskServes ==
  /\ \A u \in Users : at[u].pc \in Waiting ~> at[u].pc \notin Waiting \/ Stranded(u) \/ spoilt
  /\ \A k \in Keys : dcpage[k].state = 1
                      ~> dcpage[k].state # 1 \/ Stranded(Terminator) \/ spoilt
  /\ Terminating ~> term = "freed" \/ Stranded(Terminator) \/ spoilt

Fairness ==
  /\ \A u \in Users : WF_vars(Goes(u))
  /\ WF_vars(Flush) /\ WF_vars(Writer) /\ WF_vars(Term)
  /\ \A u \in Users : WF_vars(Served(u))
  /\ \A k \in Keys : WF_vars(Flushed(k))

FairSpec == Spec /\ Fairness
=============================================================================
