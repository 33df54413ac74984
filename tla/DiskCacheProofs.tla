-------------------------- MODULE DiskCacheProofs ---------------------------
(***************************************************************************)
(* Proofs about DiskCache for any pages, requests, ranges and bounds: a     *)
(* page that is in use is held, its lock count is exact, and nothing that   *)
(* was written to it is lost; all this up to the first of the three faults  *)
(* that "spoilt" stands for.                                                *)
(***************************************************************************)
EXTENDS DiskCache, QueueLemmas, FiniteSetTheorems, TLAPS

(* The inductive invariant: IInv up to the first of the three faults that    *)
(* "spoilt" stands for, and Typed after it too.                             *)

Waits == {"test", "wait", "woken", "callback"}

Labels == Waits \cup {"out", "lock", "look", "drop", "lower", "modify", "mapped", "thru",
                      "mark", "switch", "keep", "unmark", "stuck"}

LockModes == {"NL", "PR", "EX"}

Asked == Ops \ {"pfupd", "pfthru"}

Places ==
  [pc : Labels, op : Asked \cup {"none"}, key : Keys \cup {None},
   range : Ranges \cup {<<0, 0>>}, mode : LockModes, want : LockModes,
   status : {"none", "pending", "good", "bad"}, waited : BOOLEAN, rd : BOOLEAN]

Transfers ==
  [op : {"read", "write"}, key : Keys, from : 0 .. PageSize, to : 0 .. PageSize,
   by : Users \cup {Flusher}, done : {"no", "moved", "drop", "count"}]

CachePages == [in : BOOLEAN, refs : Int, lock : Int, valid : 0 .. PageSize, state : 0 .. 3]

PageData == [mem : SUBSET Units, disk : SUBSET Units]

Writers == [pc : {"free", "take", "state", "issue", "spread"},
            by : {"none", "flush", "spread", "term"}, batch : Seq(Keys)]

Tallies == [rd : Int, wt : Int, dirty : Int]

Typed ==
  /\ dcpage \in [Keys -> CachePages]
  /\ old \in [Keys -> PageData]
  /\ dirties \in Seq(Keys)
  /\ writer \in Writers
  /\ counts \in Tallies
  /\ io \subseteq Transfers /\ IsFiniteSet(io)
  /\ at \in [Users -> Places]

(* What a request has, according to where it is. *)
Local(l) ==
  /\ l.pc = "out" <=> l.key = None
  /\ l.pc # "out" => l.op \in Asked /\ l.range \in Ranges
  /\ l.pc \in {"out", "lock"} => l.mode = "NL"
  /\ l.pc \notin {"out", "lock"} /\ l.op \in Writes => l.mode = "EX"
  /\ l.pc = "lock" /\ l.op \in Writes => l.want = "EX"
  /\ l.pc = "lock" => l.want = "EX" \/ l.want = OpMode(l.op)
  /\ l.pc = "look" => l.mode = "EX" \/ l.mode = OpMode(l.op)
  /\ l.status = "none" <=> l.pc \notin Waits
  /\ l.pc \in Waits /\ l.rd => l.mode = "EX"
  /\ l.pc \in Waits /\ ~l.rd => l.op \in Through \cup {"pfmap"}
  /\ l.pc = "callback" <=> l.pc \in Waits /\ l.op \notin Sync
  /\ l.pc = "lower" => l.mode = "EX" /\ l.op \in {"readw", "pfmap"}
  /\ l.pc = "modify" => l.op \in Writes
  /\ l.pc \in {"mark", "switch", "keep", "unmark"} => l.op \in Writes \ Through
  /\ l.pc = "thru" => l.op \in Through \cup {"pfmap"}
  /\ l.pc = "mapped" => l.op = "pfmap"
  /\ l.op = "pfmap" /\ (l.pc \in {"mapped", "thru"} \/ (l.pc \in Waits /\ ~l.rd)) => l.mode = "NL"

(* A request has one transfer under way at a time, and it waits for that.   *)
UserIo ==
  /\ \A r \in io : r.by \in Users =>
       LET l == at[r.by]
           n == dcpage[r.key].valid IN
         /\ l.pc \in Waits /\ l.status = "pending" /\ r.key = l.key /\ r.done \in {"no", "moved"}
         /\ r.op = "read" <=> l.rd
         /\ r.op = "read" => r.from = n /\ r.to = PageSize
         /\ r.op = "write" => r.from = 0 /\ r.to = n
  /\ \A r, s \in io : r.by \in Users /\ r.by = s.by => r = s

(* So does the flusher for a page; what is over may overlap with the next.  *)
AtIssue(k) == writer.pc = "issue" /\ Head(writer.batch) = k

Active(r) == r.by = Flusher /\ r.done \in {"no", "moved"}

Over(r) == r.done \in {"drop", "count"}

FlusherIo ==
  /\ \A r \in io : r.by = Flusher => r.op = "write" /\ r.from = 0
  /\ \A r \in io : Active(r) => /\ dcpage[r.key].state \in {2, 3} /\ ~AtIssue(r.key)
                                /\ r.to <= dcpage[r.key].valid
  /\ \A r, s \in io : Active(r) /\ Active(s) /\ r.key = s.key => r = s
  /\ \A r, s \in io : Over(r) /\ Over(s) /\ r.key = s.key => r = s

(* The state of a page says whether it is queued, and it is queued once.    *)
Once(q) == \A i, j \in 1 .. Len(q) : q[i] = q[j] => i = j

Queues ==
  /\ Once(dirties) /\ Once(writer.batch)
  /\ writer.batch = <<>> <=> writer.pc \in {"free", "take"}
  /\ Range(dirties) \cap Range(writer.batch) = {}
  /\ \A k \in Keys : Queued(k) <=> dcpage[k].state = 1
  /\ \A k \in Keys : AtIssue(k) => dcpage[k].state \in {2, 3}

(* The lock count of a page is what the requests hold, which exclude each   *)
(* other.                                                                  *)
HeldBy(k, m) == {u \in Users : at[u].key = k /\ at[u].mode = m}

LockIs(k) == dcpage[k].lock = IF HeldBy(k, "EX") # {} THEN -1 ELSE Cardinality(HeldBy(k, "PR"))

OneWriter ==
  \A u, v \in Users :
    u # v /\ at[u].key \in Keys /\ at[v].key = at[u].key /\ at[u].mode = "EX" => at[v].mode = "NL"

Locks == (\A k \in Keys : LockIs(k)) /\ OneWriter

(* A page is referenced for each request and for the queue.                 *)
Refs == \A k \in Keys : dcpage[k].refs >= Referenced(k)

(* How much of the page is valid that a request has looked at *)
ValidAt(l, n) ==
  /\ l.pc \in {"modify", "thru", "mark"} /\ l.op \in Writes => Covered(l.op, n, l.range)
  /\ l.op = "pfmap" /\ (l.pc \in {"mapped", "thru", "lower"} \/ (l.pc \in Waits /\ ~l.rd))
       => n = PageSize

Valids ==
  /\ \A k \in Keys : dcpage[k].valid % BlockSize = 0
  /\ \A u \in Users : at[u].pc # "out" => ValidAt(at[u], Pg(u).valid)

(* What is valid is the latest.  The disk is behind only in what is valid,  *)
(* or is going to be; and then somebody is going to note that, has noted it,*)
(* or it is being written.                                                 *)
Extends(k, x) ==
  \E u \in Users : at[u].key = k /\ at[u].pc \in {"thru", "mark"} /\ x \in Span(at[u].range)

Modifying(k) == \E u \in Users : at[u].key = k /\ Modifies(u)

MemIs(k) == \A x \in old[k].mem : x >= dcpage[k].valid

DiskIs(k) ==
  /\ \A x \in old[k].disk : x < dcpage[k].valid \/ Extends(k, x)
  /\ Modifying(k) \/ dcpage[k].state \in {1, 3} \/ old[k].disk \subseteq Writing(k)

ReadIn ==
  /\ \A r \in io : r.op = "read" /\ r.done = "moved" => old[r.key].mem = {}
  /\ \A u \in Users :
       at[u].pc \in Waits /\ at[u].rd /\ at[u].status = "good" => old[at[u].key].mem = {}

(* What is copied to the page is the latest before it counts as valid.      *)
Copied ==
  \A u \in Users : at[u].pc \in {"thru", "mark"} /\ at[u].op \in Writes =>
    \A x \in old[at[u].key].mem : x \notin Span(at[u].range)

Data == (\A k \in Keys : MemIs(k) /\ DiskIs(k)) /\ ReadIn /\ Copied

(* The cache is terminated when nobody uses it and no page is dirty.        *)
Dirty == {k \in Keys : dcpage[k].state # 0}

Terms ==
  /\ writer.by = "term" => term # "no"
  /\ counts.dirty = Cardinality(Dirty) + Cardinality({r \in io : Over(r)})
  /\ term # "no" => \A u \in Users : at[u].pc = "out"
  /\ term = "freed" => counts.dirty = 0

IInv ==
  /\ Typed /\ (\A u \in Users : Local(at[u]))
  /\ UserIo /\ FlusherIo /\ Queues
  /\ Locks /\ Refs
  /\ Valids /\ Data
  /\ Terms

-----------------------------------------------------------------------------
(* Basic facts *)

LEMMA Where ==
  ASSUME IInv, NEW u \in Users
  PROVE  /\ at[u] \in Places /\ Local(at[u])
         /\ at[u].pc # "out" => at[u].key \in Keys /\ at[u].key # None /\ dcpage[at[u].key] \in CachePages
<1>1. at[u] \in Places /\ Local(at[u])
  BY DEF IInv, Typed
<1>2. ASSUME at[u].pc # "out" PROVE at[u].key \in Keys /\ at[u].key # None
  <2>1. at[u].key \in Keys \cup {None}
    BY <1>1 DEF Places
  <2> QED
    BY <1>1, <1>2, <2>1 DEF Local
<1> QED
  BY <1>1, <1>2 DEF IInv, Typed

LEMMA UnitsAre ==
  /\ Units = 0 .. PageSize - 1
  /\ \A r \in Ranges : r[1] \in Nat /\ r[2] \in Nat /\ r[2] <= PageSize /\ Span(r) \subseteq Units
  /\ PageSize \in Nat /\ BlockSize \in Nat /\ PageSize % BlockSize = 0 /\ PageSize \in 0 .. PageSize
<1>1. PageSize \in Nat /\ BlockSize \in Nat /\ PageSize % BlockSize = 0
  BY SizesAssumption
<1>2. ASSUME NEW r \in Ranges
      PROVE  r[1] \in Nat /\ r[2] \in Nat /\ r[2] <= PageSize /\ Span(r) \subseteq Units
  <2>1. r[1] \in Nat /\ r[2] \in Nat /\ r[2] <= PageSize
    BY SizesAssumption
  <2> QED
    BY <1>1, <2>1 DEF Span, Units
<1> QED
  BY <1>1, <1>2 DEF Units

LEMMA AtIs ==
  ASSUME Typed, NEW u \in Users, NEW l, at' = [at EXCEPT ![u] = l]
  PROVE  /\ at'[u] = l /\ \A v \in Users \ {u} : at'[v] = at[v]
         /\ l \in Places => at' \in [Users -> Places]
  BY DEF Typed

LEMMA PageIs ==
  ASSUME Typed, NEW k \in Keys, NEW p, dcpage' = [dcpage EXCEPT ![k] = p]
  PROVE  /\ dcpage'[k] = p /\ \A j \in Keys \ {k} : dcpage'[j] = dcpage[j]
         /\ p \in CachePages => dcpage' \in [Keys -> CachePages]
  BY DEF Typed

(* Two fields of a record *)
LEMMA PageFields ==
  ASSUME NEW q \in CachePages, NEW a \in Int, NEW b \in Int
  PROVE  /\ LET p == [q EXCEPT !.lock = a, !.refs = b] IN
              /\ p \in CachePages /\ p.lock = a /\ p.refs = b
              /\ p.in = q.in /\ p.valid = q.valid /\ p.state = q.state
         /\ LET p == [q EXCEPT !.in = TRUE, !.refs = b] IN
              /\ p \in CachePages /\ p.lock = q.lock /\ p.refs = b
              /\ p.in /\ p.valid = q.valid /\ p.state = q.state
  BY DEF CachePages

LEMMA TallyFields ==
  ASSUME NEW q \in Tallies, NEW a \in Int, NEW b \in Int
  PROVE  /\ LET p == [q EXCEPT !.rd = a, !.dirty = b] IN
              p \in Tallies /\ p.rd = a /\ p.dirty = b /\ p.wt = q.wt
         /\ LET p == [q EXCEPT !.wt = a, !.dirty = b] IN
              p \in Tallies /\ p.wt = a /\ p.dirty = b /\ p.rd = q.rd
  BY DEF Tallies

(* Counting *)
LEMMA OneMore ==
  ASSUME NEW S, NEW T, NEW x, IsFiniteSet(S), T = S \cup {x}, x \notin S
  PROVE  Cardinality(T) = Cardinality(S) + 1 /\ Cardinality(S) \in Nat /\ IsFiniteSet(T)
  BY FS_AddElement, FS_CardinalityType

LEMMA OneLess ==
  ASSUME NEW S, NEW T, NEW x, IsFiniteSet(S), T = S \ {x}, x \in S
  PROVE  Cardinality(T) = Cardinality(S) - 1 /\ Cardinality(S) \in Nat /\ IsFiniteSet(T)
  BY FS_RemoveElement, FS_CardinalityType

Using(k) == {u \in Users : at[u].key = k /\ at[u].pc # "keep"}

Dropping(k) == {r \in io : r.key = k /\ r.done = "drop"}

LEMMA Finite ==
  ASSUME Typed
  PROVE  /\ \A k : IsFiniteSet(Using(k)) /\ Cardinality(Using(k)) \in Nat
         /\ \A k : IsFiniteSet(Dropping(k)) /\ Cardinality(Dropping(k)) \in Nat
         /\ \A k, m : IsFiniteSet(HeldBy(k, m)) /\ Cardinality(HeldBy(k, m)) \in Nat
         /\ IsFiniteSet(Dirty) /\ Cardinality(Dirty) \in Nat
         /\ IsFiniteSet({r \in io : Over(r)}) /\ Cardinality({r \in io : Over(r)}) \in Nat
<1>1. \A k : Using(k) \in SUBSET Users /\ Dropping(k) \in SUBSET io
  BY DEF Using, Dropping
<1>2. \A k, m : HeldBy(k, m) \in SUBSET Users
  BY DEF HeldBy
<1>3. Dirty \in SUBSET Keys /\ {r \in io : Over(r)} \in SUBSET io
  BY DEF Dirty
<1>4. IsFiniteSet(Users) /\ IsFiniteSet(Keys) /\ IsFiniteSet(io)
  BY UsersAssumption, KeysAssumption DEF Typed
<1>5. \A k : IsFiniteSet(Using(k)) /\ IsFiniteSet(Dropping(k))
  BY <1>1, <1>4, FS_Subset
<1>6. \A k, m : IsFiniteSet(HeldBy(k, m))
  BY <1>2, <1>4, FS_Subset
<1>7. IsFiniteSet(Dirty) /\ IsFiniteSet({r \in io : Over(r)})
  BY <1>3, <1>4, FS_Subset
<1> QED
  BY <1>5, <1>6, <1>7, FS_CardinalityType

LEMMA ReferencedIs ==
  \A k : Referenced(k) = Cardinality(Using(k)) + (IF dcpage[k].state # 0 THEN 1 ELSE 0)
                          + Cardinality(Dropping(k))
  BY DEF Referenced, Using, Dropping

-----------------------------------------------------------------------------
(* A request u goes on to l, and at most locks and counts change.           *)

Moves(u, l) == l \in Places /\ Local(l) /\ at' = [at EXCEPT ![u] = l]

GoesTo(u, l) ==
  /\ Moves(u, l)
  /\ at[u].status = "pending" =>
       l.pc \in Waits /\ l.status = "pending" /\ l.key = at[u].key /\ l.rd = at[u].rd

SameStates == \A k \in Keys : dcpage'[k].state = dcpage[k].state

Grows ==
  \A k \in Keys : /\ dcpage'[k].valid \in dcpage[k].valid .. PageSize
                  /\ dcpage'[k].valid % BlockSize = 0

SamePages == \A k \in Keys : dcpage'[k].valid = dcpage[k].valid /\ dcpage'[k].state = dcpage[k].state

LEMMA SameGrows ==
  ASSUME IInv, SamePages
  PROVE  SameStates /\ Grows
<1>1. \A k \in Keys : dcpage[k] \in CachePages /\ dcpage[k].valid % BlockSize = 0
  BY DEF IInv, Typed, Valids
<1>2. \A k \in Keys : dcpage[k].valid \in 0 .. PageSize
  BY <1>1 DEF CachePages
<1> QED
  BY <1>1, <1>2 DEF SamePages, SameStates, Grows

LEMMA UserIoStays ==
  ASSUME IInv, NEW u \in Users, NEW l, GoesTo(u, l), io' = io,
         \A r \in io : r.by \in Users => dcpage'[r.key].valid = dcpage[r.key].valid
  PROVE  UserIo'
<1>1. at'[u] = l /\ \A v \in Users \ {u} : at'[v] = at[v]
  BY AtIs DEF IInv, GoesTo, Moves
<1>2. \A r \in io : r.key \in Keys
  BY DEF IInv, Typed, Transfers
<1>3. ASSUME NEW r \in io, r.by \in Users
      PROVE  /\ dcpage'[r.key].valid = dcpage[r.key].valid
             /\ at'[r.by].pc \in Waits /\ at'[r.by].status = "pending" /\ at'[r.by].key = at[r.by].key
             /\ at'[r.by].rd = at[r.by].rd
  <2>1. at[r.by].pc \in Waits /\ at[r.by].status = "pending"
    BY <1>3 DEF IInv, UserIo
  <2> QED
    BY <1>1, <1>2, <1>3, <2>1 DEF GoesTo, Moves
<1> QED
  BY <1>3 DEF IInv, UserIo

LEMMA FlusherIoStays ==
  ASSUME IInv, SameStates, Grows, writer' = writer,
         \A r \in io' : r \in io \/ (r.by \in Users /\ ~Over(r))
  PROVE  FlusherIo'
<1>1. \A r \in io : r.key \in Keys /\ r.to \in Int
  BY DEF IInv, Typed, Transfers
<1>2. \A k \in Keys : /\ dcpage[k].valid \in Int /\ dcpage'[k].valid \in Int
                      /\ dcpage'[k].valid >= dcpage[k].valid
  <2>1. \A k \in Keys : dcpage[k].valid \in 0 .. PageSize
    BY DEF IInv, Typed, CachePages
  <2> QED
    BY <2>1, UnitsAre DEF Grows
<1>3. ASSUME NEW r \in io, Active(r)
      PROVE  dcpage'[r.key].state \in {2, 3} /\ ~AtIssue(r.key)' /\ r.to <= dcpage'[r.key].valid
  <2>1. dcpage[r.key].state \in {2, 3} /\ ~AtIssue(r.key) /\ r.to <= dcpage[r.key].valid
    BY <1>3 DEF IInv, FlusherIo
  <2>2. dcpage'[r.key].state = dcpage[r.key].state
    BY <1>1 DEF SameStates
  <2>3. r.to <= dcpage'[r.key].valid
    <3>1. r.to \in Int /\ dcpage[r.key].valid \in Int /\ dcpage'[r.key].valid \in Int
          /\ dcpage'[r.key].valid >= dcpage[r.key].valid
      BY <1>1, <1>2
    <3> QED
      BY <2>1, <3>1
  <2> QED
    BY <2>1, <2>2, <2>3 DEF AtIssue
<1>4. \A r \in io' : r.by = Flusher \/ Over(r) => r \in io
  BY UsersAssumption DEF Flusher
<1>5. \A r \in io' : Active(r) => r \in io
  BY <1>4 DEF Active
<1>6. \A r \in io' : r.by = Flusher => r.op = "write" /\ r.from = 0
  BY <1>4 DEF IInv, FlusherIo
<1>7. /\ \A r, s \in io' : Active(r) /\ Active(s) /\ r.key = s.key => r = s
      /\ \A r, s \in io' : Over(r) /\ Over(s) /\ r.key = s.key => r = s
  BY <1>4, <1>5 DEF IInv, FlusherIo
<1>8. \A r \in io' : Active(r) => dcpage'[r.key].state \in {2, 3} /\ ~AtIssue(r.key)'
                                   /\ r.to <= dcpage'[r.key].valid
  BY <1>3, <1>5
<1> QED
  BY <1>6, <1>7, <1>8 DEF FlusherIo, Active, Over

LEMMA QueuesStay ==
  ASSUME IInv, SameStates, dirties' = dirties, writer' = writer
  PROVE  Queues'
<1>1. \A k \in Keys : Queued(k)' <=> Queued(k)
  BY DEF Queued
<1> QED
  BY <1>1 DEF IInv, Queues, SameStates, AtIssue, Once

LEMMA CoveredStays ==
  ASSUME NEW op, NEW m \in 0 .. PageSize, NEW n \in 0 .. PageSize, m <= n, NEW r \in Ranges,
         Covered(op, m, r)
  PROVE  Covered(op, n, r)
<1>1. r[1] \in Nat /\ r[2] \in Nat /\ PageSize \in Nat
  BY UnitsAre
<1>2. CASE op \in {"readw", "map"}
  BY <1>1, <1>2 DEF Covered
<1>3. CASE op \in Writes
  BY <1>1, <1>3 DEF Covered, Writes
<1>4. CASE op \notin {"readw", "map"} /\ op \notin Writes
  BY <1>1, <1>4 DEF Covered
<1> QED
  BY <1>2, <1>3, <1>4

LEMMA ValidAtStays ==
  ASSUME NEW l \in Places, Local(l), l.pc # "out",
         NEW m \in 0 .. PageSize, NEW n \in 0 .. PageSize, m <= n, ValidAt(l, m)
  PROVE  ValidAt(l, n)
<1>1. l.range \in Ranges
  BY DEF Local
<1>2. Covered(l.op, m, l.range) => Covered(l.op, n, l.range)
  BY <1>1, CoveredStays
<1>3. m = PageSize => n = PageSize
  BY UnitsAre
<1> QED
  BY <1>2, <1>3 DEF ValidAt

LEMMA ValidsStay ==
  ASSUME IInv, NEW u \in Users, NEW l, Moves(u, l), Grows,
         l.pc # "out" => ValidAt(l, dcpage'[l.key].valid)
  PROVE  Valids'
<1>1. at'[u] = l /\ \A v \in Users \ {u} : at'[v] = at[v]
  BY AtIs DEF IInv, Moves
<1>2. ASSUME NEW v \in Users, at'[v].pc # "out" PROVE ValidAt(at'[v], dcpage'[at'[v].key].valid)
  <2>1. CASE v = u
    BY <1>1, <1>2, <2>1
  <2>2. CASE v # u
    <3>1. /\ at'[v] = at[v] /\ at[v] \in Places /\ Local(at[v]) /\ at[v].pc # "out"
          /\ at[v].key \in Keys
      BY <1>1, <1>2, <2>2, Where
    <3>2. ValidAt(at[v], dcpage[at[v].key].valid)
      BY <3>1 DEF IInv, Valids, Pg
    <3>3. dcpage[at[v].key] \in CachePages
      BY <3>1 DEF IInv, Typed
    <3>4. /\ dcpage[at[v].key].valid \in 0 .. PageSize /\ PageSize \in Nat
          /\ dcpage'[at[v].key].valid \in dcpage[at[v].key].valid .. PageSize
      BY <3>1, <3>3, UnitsAre DEF Grows, CachePages
    <3>5. /\ dcpage'[at[v].key].valid \in 0 .. PageSize
          /\ dcpage[at[v].key].valid <= dcpage'[at[v].key].valid
      BY <3>4
    <3> QED
      BY <3>1, <3>2, <3>4, <3>5, ValidAtStays
  <2> QED
    BY <2>1, <2>2
<1> QED
  BY <1>2 DEF Valids, Pg, Grows

LEMMA WritingStays ==
  ASSUME IInv, SamePages, io' = io, writer' = writer, NEW k \in Keys
  PROVE  Writing(k)' = Writing(k)
  BY DEF Writing, SamePages

LEMMA DataStay ==
  ASSUME IInv, NEW u \in Users, NEW l, GoesTo(u, l), SamePages, UNCHANGED <<io, old, writer>>,
         at[u].pc \notin {"thru", "mark", "switch"}, l.pc \notin {"thru", "mark"},
         l.pc \in Waits /\ l.rd /\ l.status = "good" =>
           at[u].pc \in Waits /\ at[u].rd /\ at[u].status = "good" /\ l.key = at[u].key
  PROVE  Data'
<1>1. at'[u] = l /\ \A v \in Users \ {u} : at'[v] = at[v]
  BY AtIs DEF IInv, GoesTo, Moves
<1>2. \A k, x : Extends(k, x) => Extends(k, x)'
  BY <1>1 DEF Extends
<1>3. \A k : Modifying(k) => Modifying(k)'
  <2> SUFFICES ASSUME NEW k, NEW v \in Users, at[v].key = k, Modifies(v)
               PROVE  at'[v].key = k /\ Modifies(v)'
    BY DEF Modifying
  <2>1. CASE at[v].pc \in {"thru", "mark", "switch"}
    BY <1>1, <2>1 DEF Modifies
  <2>2. CASE \E r \in io : r.by = v /\ r.op = "write" /\ r.done = "no"
    <3>1. at[v].status = "pending"
      BY <2>2 DEF IInv, UserIo
    <3> QED
      BY <1>1, <2>2, <3>1 DEF Modifies, GoesTo, Moves
  <2> QED
    BY <2>1, <2>2 DEF Modifies
<1>4. \A k \in Keys : MemIs(k)' /\ DiskIs(k)'
  <2> SUFFICES ASSUME NEW k \in Keys
               PROVE  MemIs(k)' /\ DiskIs(k)'
    OBVIOUS
  <2>1. MemIs(k)'
    BY DEF IInv, Data, MemIs, SamePages
  <2>2. \A x \in old'[k].disk : x < dcpage'[k].valid \/ Extends(k, x)'
    BY <1>2 DEF IInv, Data, DiskIs, SamePages
  <2>3. Modifying(k)' \/ dcpage'[k].state \in {1, 3} \/ old'[k].disk \subseteq Writing(k)'
    BY <1>3, WritingStays DEF IInv, Data, DiskIs, SamePages
  <2> QED
    BY <2>1, <2>2, <2>3 DEF DiskIs
<1>5. ReadIn'
  BY <1>1 DEF IInv, Data, ReadIn
<1>6. Copied'
  BY <1>1 DEF IInv, Data, Copied
<1> QED
  BY <1>4, <1>5, <1>6 DEF Data

LEMMA TermsStay ==
  ASSUME IInv, NEW u \in Users, NEW l, Moves(u, l), SameStates, term' = term, writer' = writer,
         \A r : Over(r) => (r \in io' <=> r \in io),
         counts'.dirty = counts.dirty, at[u].pc # "out" \/ term = "no"
  PROVE  Terms'
<1>1. Dirty' = Dirty
  BY DEF Dirty, SameStates
<1>2. term = "no"
  BY DEF IInv, Terms
<1>3. {r \in io' : Over(r)} = {r \in io : Over(r)}
  OBVIOUS
<1> QED
  BY <1>1, <1>2, <1>3 DEF IInv, Terms, Over

LEMMA LocalStays ==
  ASSUME IInv, NEW u \in Users, NEW l, l \in Places, Local(l), at' = [at EXCEPT ![u] = l]
  PROVE  \A v \in Users : Local(at'[v])
  BY AtIs DEF IInv

LEMMA StepKeeps ==
  ASSUME IInv, NEW u \in Users, NEW l, GoesTo(u, l), SamePages,
         UNCHANGED <<io, old, dirties, writer, term>>,
         dcpage' \in [Keys -> CachePages], counts' \in Tallies, counts'.dirty = counts.dirty,
         at[u].pc # "out" \/ term = "no",
         at[u].pc \notin {"thru", "mark", "switch"}, l.pc \notin {"thru", "mark"},
         l.pc # "out" => ValidAt(l, dcpage[l.key].valid),
         l.pc \in Waits /\ l.rd /\ l.status = "good" =>
           at[u].pc \in Waits /\ at[u].rd /\ at[u].status = "good" /\ l.key = at[u].key,
         Locks', Refs'
  PROVE  IInv'
<1>1. Typed'
  BY AtIs DEF IInv, Typed, GoesTo, Moves
<1>2. \A v \in Users : Local(at'[v])
  BY LocalStays DEF GoesTo, Moves
<1>3. SameStates /\ Grows
  BY SameGrows
<1>4. UserIo'
  <2>1. \A r \in io : r.key \in Keys
    BY DEF IInv, Typed, Transfers
  <2> QED
    BY <2>1, UserIoStays DEF SamePages
<1>5. Valids'
  <2>1. l.pc # "out" => l.key \in Keys
    BY DEF GoesTo, Moves, Places, Local
  <2>2. l.pc # "out" => ValidAt(l, dcpage'[l.key].valid)
    BY <2>1 DEF SamePages
  <2> QED
    BY <1>3, <2>2, ValidsStay DEF GoesTo
<1>6. FlusherIo' /\ Queues' /\ Terms'
  BY <1>3, FlusherIoStays, QueuesStay, TermsStay DEF GoesTo
<1>7. Data'
  BY DataStay
<1> QED
  BY <1>1, <1>2, <1>4, <1>5, <1>6, <1>7 DEF IInv

-----------------------------------------------------------------------------
(* Locks and references *)

LEMMA LocksStay ==
  ASSUME IInv, \A k \in Keys : dcpage'[k].lock = dcpage[k].lock,
         \A v \in Users : at'[v].key = at[v].key /\ at'[v].mode = at[v].mode
  PROVE  Locks'
<1>1. \A k, m : HeldBy(k, m)' = HeldBy(k, m)
  BY DEF HeldBy
<1> QED
  BY <1>1 DEF IInv, Locks, LockIs, OneWriter

(* A request that has no lock gets one.                                     *)
LEMMA LockedKeeps ==
  ASSUME IInv, NEW u \in Users, at[u].key \in Keys, at[u].mode = "NL",
         \A v \in Users \ {u} : at'[v] = at[v],
         at'[u].key = at[u].key, NEW m \in LockModes, at'[u].mode = m,
         Fits(dcpage[at[u].key].lock, m),
         dcpage'[at[u].key].lock = Locked(dcpage[at[u].key].lock, m),
         \A k \in Keys \ {at[u].key} : dcpage'[k].lock = dcpage[k].lock
  PROVE  Locks'
<1> DEFINE j == at[u].key
<1>1. \A k : k # j => \A n : HeldBy(k, n)' = HeldBy(k, n)
  BY DEF HeldBy
<1>2. \A n : n # "NL" => HeldBy(j, n)' = IF n = m THEN HeldBy(j, n) \cup {u} ELSE HeldBy(j, n)
  BY DEF HeldBy
<1>3. u \notin HeldBy(j, "PR") /\ u \notin HeldBy(j, "EX")
  BY DEF HeldBy
<1>4. LockIs(j) /\ OneWriter
  BY DEF IInv, Locks
<1>5. IsFiniteSet(HeldBy(j, "PR")) /\ Cardinality(HeldBy(j, "PR")) \in Nat
  BY Finite DEF IInv
<1>6. CASE m = "NL"
  <2>1. \A n : n # "NL" => HeldBy(j, n)' = HeldBy(j, n)
    BY <1>2, <1>6
  <2>2. dcpage'[j].lock = dcpage[j].lock
    BY <1>6 DEF Locked
  <2>3. \A k \in Keys : LockIs(k)'
    BY <1>1, <2>1, <2>2 DEF IInv, Locks, LockIs
  <2>4. OneWriter'
    BY <1>4, <1>6 DEF OneWriter
  <2> QED
    BY <2>3, <2>4 DEF Locks
<1>7. CASE m = "PR"
  <2>1. HeldBy(j, "EX") = {} /\ dcpage[j].lock = Cardinality(HeldBy(j, "PR"))
    BY <1>4, <1>7 DEF Fits, LockIs
  <2>2. HeldBy(j, "EX")' = {} /\ HeldBy(j, "PR")' = HeldBy(j, "PR") \cup {u}
    BY <1>2, <1>7, <2>1
  <2>3. dcpage'[j].lock = dcpage[j].lock + 1
    BY <1>7 DEF Locked
  <2>4. LockIs(j)'
    BY <1>3, <1>5, <2>1, <2>2, <2>3, OneMore DEF LockIs
  <2>5. \A k \in Keys : LockIs(k)'
    BY <1>1, <2>4 DEF IInv, Locks, LockIs
  <2>6. OneWriter'
    BY <1>4, <1>7, <2>1 DEF OneWriter, HeldBy
  <2> QED
    BY <2>5, <2>6 DEF Locks
<1>8. CASE m = "EX"
  <2>1. dcpage[j].lock = 0
    BY <1>8 DEF Fits
  <2>2. HeldBy(j, "EX") = {} /\ HeldBy(j, "PR") = {}
    BY <1>4, <1>5, <2>1, FS_EmptySet DEF LockIs
  <2>3. HeldBy(j, "EX")' # {} /\ dcpage'[j].lock = -1
    BY <1>2, <1>8 DEF Locked
  <2>4. \A k \in Keys : LockIs(k)'
    BY <1>1, <2>3 DEF IInv, Locks, LockIs
  <2>5. \A v \in Users \ {u} : at[v].key = j => at[v].mode = "NL"
    <3>1. \A v \in Users : at[v].mode \in LockModes
      BY DEF IInv, Typed, Places
    <3> QED
      BY <2>2, <3>1 DEF HeldBy, LockModes
  <2>6. OneWriter'
    BY <1>4, <2>5 DEF OneWriter
  <2> QED
    BY <2>4, <2>6 DEF Locks
<1> QED
  BY <1>6, <1>7, <1>8 DEF LockModes

(* A request gives up its lock, and is in mode NL or has left the page.     *)
LEMMA UnlockedKeeps ==
  ASSUME IInv, NEW u \in Users, at[u].key \in Keys,
         \A v \in Users \ {u} : at'[v] = at[v],
         at'[u].mode = "NL", at'[u].key = at[u].key \/ at'[u].key = None,
         dcpage'[at[u].key].lock = Unlocked(dcpage[at[u].key].lock, at[u].mode),
         \A k \in Keys \ {at[u].key} : dcpage'[k].lock = dcpage[k].lock
  PROVE  Locks'
<1>0. PICK j \in Keys, m \in LockModes : j = at[u].key /\ m = at[u].mode
  BY DEF IInv, Typed, Places
<1>1. \A k \in Keys : k # j => \A n : HeldBy(k, n)' = HeldBy(k, n)
  BY <1>0, KeysAssumption DEF HeldBy
<1>2. \A n : n # "NL" => HeldBy(j, n)' = HeldBy(j, n) \ {u}
  BY <1>0 DEF HeldBy
<1>3. LockIs(j) /\ OneWriter
  BY DEF IInv, Locks
<1>4. IsFiniteSet(HeldBy(j, "PR")) /\ Cardinality(HeldBy(j, "PR")) \in Nat
  BY Finite DEF IInv
<1>6. OneWriter'
  BY <1>3, KeysAssumption DEF OneWriter
<1>7. LockIs(j)'
  <2>1. CASE m = "NL"
    <3>1. HeldBy(j, "EX")' = HeldBy(j, "EX") /\ HeldBy(j, "PR")' = HeldBy(j, "PR")
      BY <1>0, <1>2, <2>1 DEF HeldBy
    <3> QED
      BY <1>0, <1>3, <2>1, <3>1 DEF LockIs, Unlocked
  <2>2. CASE m = "PR"
    <3>1. HeldBy(j, "EX") = {} /\ u \in HeldBy(j, "PR")
      BY <1>0, <1>3, <2>2 DEF OneWriter, HeldBy
    <3>2. HeldBy(j, "EX")' = {} /\ HeldBy(j, "PR")' = HeldBy(j, "PR") \ {u}
      BY <1>2, <3>1
    <3>3. dcpage'[j].lock = dcpage[j].lock - 1
      BY <1>0, <2>2 DEF Unlocked
    <3> QED
      BY <1>3, <1>4, <3>1, <3>2, <3>3, OneLess DEF LockIs
  <2>3. CASE m = "EX"
    <3>1. HeldBy(j, "EX") = {u} /\ HeldBy(j, "PR") = {}
      BY <1>0, <1>3, <2>3 DEF OneWriter, HeldBy
    <3>2. HeldBy(j, "EX")' = {} /\ HeldBy(j, "PR")' = {}
      BY <1>2, <3>1
    <3>3. dcpage'[j].lock = 0
      BY <1>0, <2>3 DEF Unlocked
    <3> QED
      BY <3>2, <3>3, FS_EmptySet DEF LockIs
  <2> QED
    BY <2>1, <2>2, <2>3 DEF LockModes
<1>8. \A k \in Keys : LockIs(k)'
  BY <1>0, <1>1, <1>7 DEF IInv, Locks, LockIs
<1> QED
  BY <1>6, <1>8 DEF Locks

(* The holder of an exclusive lock is alone.                                *)
LEMMA Alone ==
  ASSUME IInv, NEW u \in Users, at[u].mode = "EX", at[u].key \in Keys
  PROVE  /\ \A v \in Users \ {u} : at[v].key = at[u].key => at[v].mode = "NL"
         /\ dcpage[at[u].key].lock = -1
<1>1. u \in HeldBy(at[u].key, "EX")
  BY DEF HeldBy
<1> QED
  BY <1>1 DEF IInv, Locks, OneWriter, LockIs

LEMMA DroppingStays ==
  ASSUME \A r : Over(r) => (r \in io' <=> r \in io), NEW k
  PROVE  Dropping(k)' = Dropping(k)
<1>1. \A r : r.done = "drop" => (r \in io' <=> r \in io)
  BY DEF Over
<1> QED
  BY <1>1 DEF Dropping

LEMMA RefsStay ==
  ASSUME IInv, \A r : Over(r) => (r \in io' <=> r \in io),
         \A k \in Keys : dcpage'[k].refs = dcpage[k].refs /\ dcpage'[k].state = dcpage[k].state,
         \A v \in Users : at'[v].key = at[v].key /\ (at'[v].pc = "keep" <=> at[v].pc = "keep")
  PROVE  Refs'
<1>1. \A k : Using(k)' = Using(k) /\ Dropping(k)' = Dropping(k)
  <2>1. \A k : Dropping(k)' = Dropping(k)
    BY DroppingStays
  <2> QED
    BY <2>1 DEF Using
<1>2. \A k \in Keys : Referenced(k)' = Referenced(k)
  BY <1>1, ReferencedIs DEF Using, Dropping, Referenced
<1> QED
  BY <1>2 DEF IInv, Refs

LEMMA RefsChange ==
  ASSUME IInv, UNCHANGED io,
         \A k \in Keys : /\ dcpage'[k].state = dcpage[k].state
                         /\ dcpage'[k].refs \in Int /\ Cardinality(Using(k)') \in Nat
                         /\ dcpage'[k].refs - Cardinality(Using(k)')
                              >= dcpage[k].refs - Cardinality(Using(k))
  PROVE  Refs'
<1>1. ASSUME NEW k \in Keys PROVE dcpage'[k].refs >= Referenced(k)'
  <2>1. Referenced(k)' = Cardinality(Using(k)') + (IF dcpage'[k].state # 0 THEN 1 ELSE 0)
                           + Cardinality(Dropping(k))
    BY DEF Referenced, Using, Dropping
  <2>2. Referenced(k) = Cardinality(Using(k)) + (IF dcpage[k].state # 0 THEN 1 ELSE 0)
                          + Cardinality(Dropping(k))
    BY ReferencedIs
  <2>3. dcpage[k].refs >= Referenced(k)
    BY DEF IInv, Refs
  <2>4. Cardinality(Using(k)) \in Nat /\ Cardinality(Dropping(k)) \in Nat /\ dcpage[k].refs \in Int
    <3>1. dcpage[k] \in CachePages
      BY DEF IInv, Typed
    <3> QED
      BY <3>1, Finite DEF IInv, CachePages
  <2> QED
    BY <2>1, <2>2, <2>3, <2>4
<1> QED
  BY <1>1 DEF Refs

(* A request refers to a page.                                              *)
LEMMA RefTaken ==
  ASSUME IInv, NEW u \in Users, NEW j \in Keys, at[u].key = None,
         UNCHANGED io, \A v \in Users \ {u} : at'[v] = at[v],
         at'[u].key = j, at'[u].pc # "keep",
         \A k \in Keys : dcpage'[k].state = dcpage[k].state,
         dcpage'[j].refs = dcpage[j].refs + 1,
         \A k \in Keys \ {j} : dcpage'[k].refs = dcpage[k].refs
  PROVE  Refs'
<1>1. \A k \in Keys \ {j} : Using(k)' = Using(k)
  BY KeysAssumption DEF Using
<1>2. Using(j)' = Using(j) \cup {u} /\ u \notin Using(j)
  BY KeysAssumption DEF Using
<1>3. \A k \in Keys : Cardinality(Using(k)) \in Nat /\ dcpage[k].refs \in Int
  BY Finite DEF IInv, Typed, CachePages
<1>4. Cardinality(Using(j)') = Cardinality(Using(j)) + 1
  BY <1>2, Finite, OneMore DEF IInv
<1>5. \A k \in Keys : /\ dcpage'[k].refs \in Int /\ Cardinality(Using(k)') \in Nat
                      /\ dcpage'[k].refs - Cardinality(Using(k)')
                           >= dcpage[k].refs - Cardinality(Using(k))
  <2> SUFFICES ASSUME NEW k \in Keys
               PROVE  /\ dcpage'[k].refs \in Int /\ Cardinality(Using(k)') \in Nat
                      /\ dcpage'[k].refs - Cardinality(Using(k)')
                           >= dcpage[k].refs - Cardinality(Using(k))
    OBVIOUS
  <2>1. CASE k = j
    BY <1>3, <1>4, <2>1
  <2>2. CASE k # j
    BY <1>1, <1>3, <2>2
  <2> QED
    BY <2>1, <2>2
<1> QED
  BY <1>5, RefsChange

(* A request refers to its page no more.                                    *)
LEMMA RefGiven ==
  ASSUME IInv, NEW u \in Users, NEW j \in Keys, at[u].key = j, at[u].pc # "keep",
         UNCHANGED io, \A v \in Users \ {u} : at'[v] = at[v],
         at'[u].key = None, at'[u].pc # "keep",
         \A k \in Keys : dcpage'[k].state = dcpage[k].state,
         dcpage'[j].refs = dcpage[j].refs - 1,
         \A k \in Keys \ {j} : dcpage'[k].refs = dcpage[k].refs
  PROVE  Refs'
<1>1. \A k \in Keys \ {j} : Using(k)' = Using(k)
  BY KeysAssumption DEF Using
<1>2. Using(j)' = Using(j) \ {u} /\ u \in Using(j)
  BY KeysAssumption DEF Using
<1>3. \A k \in Keys : Cardinality(Using(k)) \in Nat /\ dcpage[k].refs \in Int
  BY Finite DEF IInv, Typed, CachePages
<1>4. Cardinality(Using(j)') = Cardinality(Using(j)) - 1 /\ Cardinality(Using(j)') \in Nat
  <2>1. IsFiniteSet(Using(j)')
    BY <1>2, Finite, OneLess DEF IInv
  <2> QED
    BY <1>2, <2>1, Finite, OneLess, FS_CardinalityType DEF IInv
<1>5. \A k \in Keys : /\ dcpage'[k].refs \in Int /\ Cardinality(Using(k)') \in Nat
                      /\ dcpage'[k].refs - Cardinality(Using(k)')
                           >= dcpage[k].refs - Cardinality(Using(k))
  <2> SUFFICES ASSUME NEW k \in Keys
               PROVE  /\ dcpage'[k].refs \in Int /\ Cardinality(Using(k)') \in Nat
                      /\ dcpage'[k].refs - Cardinality(Using(k)')
                           >= dcpage[k].refs - Cardinality(Using(k))
    OBVIOUS
  <2>1. CASE k = j
    BY <1>3, <1>4, <2>1
  <2>2. CASE k # j
    BY <1>1, <1>3, <2>2
  <2> QED
    BY <2>1, <2>2
<1> QED
  BY <1>5, RefsChange

-----------------------------------------------------------------------------
(* The steps of a request that change no data and start no transfer         *)

LEMMA FindKeeps ==
  ASSUME IInv, NEW u \in Users, Find(u)
  PROVE  IInv'
<1>1. PICK op \in Asked, k \in Keys, r \in Ranges :
        /\ at' = [at EXCEPT ![u] = [Out EXCEPT !.pc = "lock", !.op = op, !.key = k,
                                               !.range = r, !.want = OpMode(op)]]
        /\ dcpage' = [dcpage EXCEPT ![k].in = TRUE, ![k].refs = @ + 1]
  BY DEF Find, Asked
<1> DEFINE l == [Out EXCEPT !.pc = "lock", !.op = op, !.key = k, !.range = r, !.want = OpMode(op)]
           p == [dcpage[k] EXCEPT !.in = TRUE, !.refs = @ + 1]
<1>2. OpMode(op) \in LockModes /\ (op \in Writes => OpMode(op) = "EX")
  BY DEF OpMode, LockModes
<1>3. /\ l.pc = "lock" /\ l.op = op /\ l.key = k /\ l.range = r /\ l.mode = "NL"
      /\ l.want = OpMode(op) /\ l.status = "none"
  BY DEF Out
<1>4. l \in Places
  BY <1>2 DEF Out, Places, Labels, LockModes
<1>6. dcpage[k] \in CachePages /\ p \in CachePages
  <2>1. dcpage[k] \in CachePages
    BY DEF IInv, Typed
  <2>2. dcpage[k].refs + 1 \in Int /\ 0 \in Int
    BY <2>1 DEF CachePages
  <2> QED
    BY <2>1, <2>2, PageFields
<1>7. p.refs = dcpage[k].refs + 1 /\ p.lock = dcpage[k].lock /\ p.valid = dcpage[k].valid /\ p.state = dcpage[k].state
  <2>1. dcpage[k].refs + 1 \in Int /\ 0 \in Int
    BY <1>6 DEF CachePages
  <2> QED
    BY <1>6, <2>1, PageFields, ZenonT(40)
<1>8. at' = [at EXCEPT ![u] = l] /\ dcpage' = [dcpage EXCEPT ![k] = p]
  BY <1>1
<1>9. at[u].pc = "out" /\ at[u].key = None /\ at[u].mode = "NL" /\ at[u].status = "none"
  BY Where DEF Find, Local, Waits
<1> HIDE DEF l, p
<1>5. Local(l)
  BY <1>2, <1>3, KeysAssumption DEF Local, Waits
<1>10. at'[u] = l /\ \A v \in Users \ {u} : at'[v] = at[v]
  BY <1>8, AtIs DEF IInv
<1>11. dcpage'[k] = p /\ (\A j \in Keys \ {k} : dcpage'[j] = dcpage[j]) /\ dcpage' \in [Keys -> CachePages]
  BY <1>6, <1>8, PageIs DEF IInv
<1>12. GoesTo(u, l) /\ SamePages
  BY <1>4, <1>5, <1>7, <1>8, <1>9, <1>11 DEF GoesTo, Moves, SamePages
<1>13. Locks'
  <2>1. \A j \in Keys : dcpage'[j].lock = dcpage[j].lock
    BY <1>7, <1>11
  <2>2. \A j \in Keys : \A m : m # "NL" => HeldBy(j, m)' = HeldBy(j, m)
    BY <1>3, <1>9, <1>10, KeysAssumption DEF HeldBy
  <2>3. OneWriter'
    BY <1>3, <1>10 DEF IInv, Locks, OneWriter
  <2> QED
    BY <2>1, <2>2, <2>3 DEF IInv, Locks, LockIs
<1>14. Refs'
  BY <1>3, <1>7, <1>9, <1>10, <1>11, <1>12, RefTaken DEF Find, SamePages
<1>15. counts' = counts /\ UNCHANGED <<io, old, dirties, writer, term>> /\ term = "no"
  BY DEF Find, writing
<1>16. ValidAt(l, dcpage[l.key].valid)
  BY <1>3 DEF ValidAt, Waits
<1> QED
  BY <1>3, <1>9, <1>11, <1>12, <1>13, <1>14, <1>15, <1>16, StepKeeps DEF Waits, IInv, Typed

LEMMA LockKeeps ==
  ASSUME IInv, NEW u \in Users, Lock(u)
  PROVE  IInv'
<1> DEFINE l == [at[u] EXCEPT !.pc = "look", !.mode = at[u].want]
           p == [Pg(u) EXCEPT !.lock = Locked(@, at[u].want)]
<1>1. /\ at[u] \in Places /\ Local(at[u]) /\ at[u].pc = "lock" /\ Fits(Pg(u).lock, at[u].want)
      /\ at[u].key \in Keys /\ at[u].key # None /\ Pg(u) \in CachePages
  BY Where DEF Lock, Pg
<1>2. at' = [at EXCEPT ![u] = l] /\ dcpage' = [dcpage EXCEPT ![at[u].key] = p]
  BY <1>1 DEF Lock, IInv, Typed, Pg
<1>3. /\ l.pc = "look" /\ l.op = at[u].op /\ l.key = at[u].key /\ l.range = at[u].range
      /\ l.mode = at[u].want /\ l.status = at[u].status /\ l.rd = at[u].rd
  BY <1>1 DEF Places
<1>4. l \in Places
  BY <1>1 DEF Places, Labels
<1>5. at[u].want \in LockModes
  BY <1>1 DEF Places
<1>6. /\ p \in CachePages /\ p.lock = Locked(Pg(u).lock, at[u].want)
      /\ p.refs = Pg(u).refs /\ p.valid = Pg(u).valid /\ p.state = Pg(u).state
  BY <1>1, <1>5 DEF CachePages, Locked, LockModes
<1> HIDE DEF l, p
<1>7. Local(l)
  BY <1>1, <1>3 DEF Local, Waits
<1>8. at'[u] = l /\ \A v \in Users \ {u} : at'[v] = at[v]
  BY <1>2, AtIs DEF IInv
<1>9. /\ dcpage'[at[u].key] = p /\ (\A j \in Keys \ {at[u].key} : dcpage'[j] = dcpage[j])
      /\ dcpage' \in [Keys -> CachePages]
  BY <1>1, <1>2, <1>6, PageIs DEF IInv
<1>10. at[u].status = "none" /\ at[u].mode = "NL"
  BY <1>1 DEF Local, Waits
<1>11. GoesTo(u, l) /\ SamePages
  BY <1>2, <1>4, <1>6, <1>7, <1>9, <1>10 DEF GoesTo, Moves, SamePages, Pg
<1>12. Locks'
  BY <1>1, <1>3, <1>5, <1>6, <1>8, <1>9, <1>10, LockedKeeps DEF Pg
<1>13. Refs'
  BY <1>1, <1>3, <1>6, <1>8, <1>9, RefsStay, ZenonT(40) DEF Lock, Pg
<1>14. counts' = counts /\ UNCHANGED <<io, old, dirties, writer, term>>
  BY DEF Lock, writing
<1>15. ValidAt(l, dcpage[l.key].valid)
  BY <1>3 DEF ValidAt, Waits
<1> QED
  BY <1>1, <1>3, <1>9, <1>11, <1>12, <1>13, <1>14, <1>15, StepKeeps DEF Waits, IInv, Typed

LEMMA RaiseKeeps ==
  ASSUME IInv, NEW u \in Users, Raise(u)
  PROVE  IInv'
<1> DEFINE l == [at[u] EXCEPT !.pc = "lock", !.mode = "NL", !.want = "EX"]
           p == [Pg(u) EXCEPT !.lock = Unlocked(@, at[u].mode)]
<1>1. /\ at[u] \in Places /\ Local(at[u]) /\ at[u].pc = "look" /\ at[u].mode # "EX"
      /\ at[u].key \in Keys /\ at[u].key # None /\ Pg(u) \in CachePages
  BY Where DEF Raise, Pg
<1>2. at' = [at EXCEPT ![u] = l] /\ dcpage' = [dcpage EXCEPT ![at[u].key] = p]
  BY <1>1 DEF Raise, IInv, Typed, Pg
<1>3. /\ l.pc = "lock" /\ l.op = at[u].op /\ l.key = at[u].key /\ l.range = at[u].range
      /\ l.mode = "NL" /\ l.want = "EX" /\ l.status = at[u].status /\ l.rd = at[u].rd
  BY <1>1 DEF Places
<1>4. l \in Places
  BY <1>1 DEF Places, Labels, LockModes
<1>5. at[u].mode \in LockModes
  BY <1>1 DEF Places
<1>6. /\ p \in CachePages /\ p.lock = Unlocked(Pg(u).lock, at[u].mode)
      /\ p.refs = Pg(u).refs /\ p.valid = Pg(u).valid /\ p.state = Pg(u).state
  BY <1>1, <1>5 DEF CachePages, Unlocked, LockModes
<1> HIDE DEF l, p
<1>7. Local(l)
  BY <1>1, <1>3 DEF Local, Waits
<1>8. at'[u] = l /\ \A v \in Users \ {u} : at'[v] = at[v]
  BY <1>2, AtIs DEF IInv
<1>9. /\ dcpage'[at[u].key] = p /\ (\A j \in Keys \ {at[u].key} : dcpage'[j] = dcpage[j])
      /\ dcpage' \in [Keys -> CachePages]
  BY <1>1, <1>2, <1>6, PageIs DEF IInv
<1>10. at[u].status = "none"
  BY <1>1 DEF Local, Waits
<1>11. GoesTo(u, l) /\ SamePages
  BY <1>2, <1>4, <1>6, <1>7, <1>9, <1>10 DEF GoesTo, Moves, SamePages, Pg
<1>12. Locks'
  <2>1. /\ at'[u].mode = "NL" /\ at'[u].key = at[u].key
        /\ \A v \in Users \ {u} : at'[v] = at[v]
    BY <1>3, <1>8
  <2>2. /\ dcpage'[at[u].key].lock = Unlocked(dcpage[at[u].key].lock, at[u].mode)
        /\ \A k \in Keys \ {at[u].key} : dcpage'[k].lock = dcpage[k].lock
    BY <1>6, <1>9 DEF Pg
  <2> QED
    BY <1>1, <2>1, <2>2, UnlockedKeeps
<1>14. counts' = counts /\ UNCHANGED <<io, old, dirties, writer, term>>
  BY DEF Raise, writing
<1>13. Refs'
  <2>1. \A v \in Users : at'[v].key = at[v].key /\ (at'[v].pc = "keep" <=> at[v].pc = "keep")
    BY <1>1, <1>3, <1>8
  <2>2. \A k \in Keys : dcpage'[k].refs = dcpage[k].refs /\ dcpage'[k].state = dcpage[k].state
    BY <1>6, <1>9 DEF Pg
  <2> QED
    BY <1>14, <2>1, <2>2, RefsStay
<1>15. ValidAt(l, dcpage[l.key].valid)
  BY <1>3 DEF ValidAt, Waits
<1> QED
  BY <1>1, <1>3, <1>9, <1>11, <1>12, <1>13, <1>14, <1>15, StepKeeps DEF Waits, IInv, Typed

(* A request leaves. *)
LEMMA OutIs ==
  /\ Out \in Places /\ Local(Out) /\ Out.pc = "out" /\ Out.key = None /\ Out.mode = "NL"
  /\ Out.status = "none"
<1>1. /\ Out.pc = "out" /\ Out.key = None /\ Out.mode = "NL" /\ Out.status = "none"
      /\ Out.rd = FALSE /\ Out.op = "none"
  BY DEF Out
<1>2. Out \in Places
  BY DEF Out, Places, Labels, LockModes
<1>3. Local(Out)
  BY <1>1 DEF Local, Waits
<1> QED
  BY <1>1, <1>2, <1>3

LEMMA LeaveKeeps ==
  ASSUME IInv, NEW u \in Users, NEW m \in LockModes, m = at[u].mode, Release(u, m),
         at[u].pc \notin Waits \cup {"out", "keep", "thru", "mark", "switch"},
         at' = [at EXCEPT ![u] = Out], UNCHANGED <<io, old, dirties, writer, term>>,
         counts' \in Tallies, counts'.dirty = counts.dirty
  PROVE  IInv'
<1> DEFINE p == [Pg(u) EXCEPT !.lock = Unlocked(@, m), !.refs = @ - 1]
<1>1. /\ at[u] \in Places /\ Local(at[u]) /\ at[u].key \in Keys /\ at[u].key # None
      /\ Pg(u) \in CachePages
  BY Where DEF Pg
<1>2. dcpage' = [dcpage EXCEPT ![at[u].key] = p]
  BY <1>1 DEF Release, IInv, Typed, Pg
<1>3. /\ p \in CachePages /\ p.lock = Unlocked(Pg(u).lock, m)
      /\ p.refs = Pg(u).refs - 1 /\ p.valid = Pg(u).valid /\ p.state = Pg(u).state
  <2>1. Unlocked(Pg(u).lock, m) \in Int
    BY <1>1 DEF CachePages, Unlocked, LockModes
  <2>2. Pg(u).refs - 1 \in Int
    BY <1>1 DEF CachePages
  <2>3. /\ p \in CachePages /\ p.lock = Unlocked(Pg(u).lock, m) /\ p.refs = Pg(u).refs - 1
        /\ p.in = Pg(u).in /\ p.valid = Pg(u).valid /\ p.state = Pg(u).state
    <3> PICK a \in Int, b \in Int, q \in CachePages :
          a = Unlocked(Pg(u).lock, m) /\ b = Pg(u).refs - 1 /\ q = Pg(u)
      BY <1>1, <2>1, <2>2
    <3>1. p = [q EXCEPT !.lock = a, !.refs = b]
      OBVIOUS
    <3> HIDE DEF p
    <3> QED
      BY <3>1 DEF CachePages
  <2> QED
    BY <2>3
<1> HIDE DEF p
<1>4. at'[u] = Out /\ \A v \in Users \ {u} : at'[v] = at[v]
  BY AtIs DEF IInv
<1>5. /\ dcpage'[at[u].key] = p /\ (\A j \in Keys \ {at[u].key} : dcpage'[j] = dcpage[j])
      /\ dcpage' \in [Keys -> CachePages]
  BY <1>1, <1>2, <1>3, PageIs DEF IInv
<1>6. at[u].status = "none"
  BY <1>1 DEF Local
<1>7. GoesTo(u, Out) /\ SamePages
  BY <1>3, <1>5, <1>6, OutIs DEF GoesTo, Moves, SamePages, Pg
<1>8. Locks'
  BY <1>1, <1>3, <1>4, <1>5, OutIs, UnlockedKeeps DEF Pg
<1>9. Refs'
  <2>1. \A k \in Keys : dcpage'[k].state = dcpage[k].state
    BY <1>7 DEF SamePages
  <2>2. /\ dcpage'[at[u].key].refs = dcpage[at[u].key].refs - 1
        /\ \A k \in Keys \ {at[u].key} : dcpage'[k].refs = dcpage[k].refs
    BY <1>3, <1>5 DEF Pg
  <2> QED
    BY <1>1, <1>4, <2>1, <2>2, OutIs, RefGiven
<1> QED
  BY <1>5, <1>7, <1>8, <1>9, OutIs, StepKeeps DEF Waits

LEMMA UnreadIs ==
  ASSUME IInv, NEW u \in Users
  PROVE  Unread(u, 0) \in Tallies /\ Unread(u, 0).dirty = counts.dirty
<1>1. counts \in Tallies
  BY DEF IInv, Typed
<1>2. counts.rd - (IF at[u].rd THEN 1 ELSE 0) \in Int /\ counts.dirty + 0 = counts.dirty /\ counts.dirty \in Int
  BY <1>1 DEF Tallies
<1>3. Unread(u, 0) = [counts EXCEPT !.rd = counts.rd - (IF at[u].rd THEN 1 ELSE 0), !.dirty = counts.dirty]
  BY <1>1, <1>2 DEF Unread
<1> DEFINE d == counts.rd - (IF at[u].rd THEN 1 ELSE 0)
<1>4. d \in Int /\ counts.dirty \in Int /\ Unread(u, 0) = [counts EXCEPT !.rd = d, !.dirty = counts.dirty]
  BY <1>2, <1>3
<1> HIDE DEF d
<1> PICK a \in Int, b \in Int, q \in Tallies : a = d /\ b = counts.dirty /\ q = counts
  BY <1>1, <1>4
<1>5. Unread(u, 0) = [q EXCEPT !.rd = a, !.dirty = b]
  BY <1>4
<1> QED
  BY <1>5 DEF Tallies

LEMMA DropKeeps ==
  ASSUME IInv, NEW u \in Users, Drop(u)
  PROVE  IInv'
<1>1. at[u].mode \in LockModes
  BY Where DEF Places
<1>2. counts' \in Tallies /\ counts'.dirty = counts.dirty
  BY UnreadIs DEF Drop
<1> QED
  BY <1>1, <1>2, LeaveKeeps DEF Drop, Waits, writing

(* A request keeps its page and its lock. *)
LEMMA AtKeeps ==
  ASSUME IInv, NEW u \in Users, NEW l \in Places, Local(l), at' = [at EXCEPT ![u] = l],
         UNCHANGED <<dcpage, io, old, dirties, writer, term>>,
         counts' \in Tallies, counts'.dirty = counts.dirty,
         at[u].pc \notin {"out", "thru", "mark", "switch", "keep"},
         l.pc \notin {"out", "keep", "thru", "mark"}, l.key = at[u].key, l.mode = at[u].mode,
         at[u].status = "pending" => l.pc \in Waits /\ l.status = "pending" /\ l.rd = at[u].rd,
         ValidAt(l, Pg(u).valid),
         l.pc \in Waits /\ l.rd /\ l.status = "good" =>
           at[u].pc \in Waits /\ at[u].rd /\ at[u].status = "good"
  PROVE  IInv'
<1>1. at'[u] = l /\ \A v \in Users \ {u} : at'[v] = at[v]
  BY AtIs DEF IInv
<1>2. GoesTo(u, l) /\ SamePages
  BY DEF GoesTo, Moves, SamePages
<1>3. Locks'
  BY <1>1, LocksStay
<1>4. Refs'
  <2>1. \A v \in Users : at'[v].key = at[v].key /\ (at'[v].pc = "keep" <=> at[v].pc = "keep")
    BY <1>1
  <2> QED
    BY <2>1, RefsStay
<1>5. dcpage' \in [Keys -> CachePages]
  BY DEF IInv, Typed
<1>6. ValidAt(l, dcpage[l.key].valid)
  BY DEF Pg
<1> QED
  BY <1>2, <1>3, <1>4, <1>5, <1>6, StepKeeps

LEMMA ReadyIs ==
  ASSUME NEW l, l.op \in Asked, l.mode = "EX" \/ l.mode = OpMode(l.op)
  PROVE  /\ Ready(l) \in {"modify", "lower", "mapped", "drop"}
         /\ Ready(l) = "modify" => l.op \in Writes
         /\ Ready(l) = "lower" => l.mode = "EX" /\ l.op \in {"readw", "pfmap"}
         /\ Ready(l) = "mapped" => l.op = "pfmap" /\ l.mode = "NL"
<1>1. CASE l.op \in Writes
  BY <1>1 DEF Ready, Writes
<1>2. CASE l.op \in {"readw", "pfmap"} /\ l.mode = "EX"
  BY <1>2 DEF Ready, Writes
<1>3. CASE l.op = "pfmap" /\ l.mode # "EX"
  BY <1>3 DEF Ready, Writes, OpMode
<1>4. CASE l.op \notin Writes /\ ~(l.op \in {"readw", "pfmap"} /\ l.mode = "EX")
           /\ ~(l.op = "pfmap" /\ l.mode # "EX")
  <2>1. Ready(l) = "drop"
    BY <1>4 DEF Ready
  <2> QED
    BY <2>1
<1> QED
  BY <1>1, <1>2, <1>3, <1>4

LEMMA HaveKeeps ==
  ASSUME IInv, NEW u \in Users, Have(u)
  PROVE  IInv'
<1>0. PICK pc : pc = Ready(at[u])
  OBVIOUS
<1> DEFINE l == [at[u] EXCEPT !.pc = pc]
<1>1. /\ at[u] \in Places /\ Local(at[u]) /\ at[u].pc = "look"
      /\ at[u].key \in Keys /\ at[u].key # None
  BY Where DEF Have
<1>2. at' = [at EXCEPT ![u] = l]
  BY <1>0, <1>1 DEF Have, GoTo, IInv, Typed
<1>3. /\ pc \in {"modify", "lower", "mapped", "drop"}
      /\ pc = "modify" => at[u].op \in Writes
      /\ pc = "lower" => at[u].mode = "EX" /\ at[u].op \in {"readw", "pfmap"}
      /\ pc = "mapped" => at[u].op = "pfmap" /\ at[u].mode = "NL"
  BY <1>0, <1>1, ReadyIs DEF Local
<1>4. /\ l.pc = pc /\ l.op = at[u].op /\ l.key = at[u].key /\ l.range = at[u].range
      /\ l.mode = at[u].mode /\ l.want = at[u].want /\ l.status = at[u].status /\ l.rd = at[u].rd
      /\ l \in Places
  BY <1>1, <1>3 DEF Places, Labels
<1> HIDE DEF l
<1>5. Local(l)
  BY <1>1, <1>3, <1>4 DEF Local, Waits
<1>6. at[u].status = "none"
  BY <1>1 DEF Local, Waits
<1>7. ValidAt(l, Pg(u).valid)
  <2>1. Covered(at[u].op, Pg(u).valid, at[u].range)
    BY DEF Have
  <2>2. at[u].op = "pfmap" => Pg(u).valid = PageSize
    BY <2>1 DEF Covered, Writes
  <2> QED
    BY <1>3, <1>4, <2>1, <2>2 DEF ValidAt, Waits
<1>8. UNCHANGED <<dcpage, io, old, dirties, writer, term, counts>> /\ counts \in Tallies
  BY DEF Have, data, writing, IInv, Typed
<1> QED
  BY <1>1, <1>2, <1>3, <1>4, <1>5, <1>6, <1>7, <1>8, AtKeeps DEF Waits

LEMMA PfRelKeeps ==
  ASSUME IInv, NEW u \in Users, PfRel(u)
  PROVE  IInv'
<1> DEFINE l == [at[u] EXCEPT !.pc = "drop"]
<1>1. /\ at[u] \in Places /\ Local(at[u]) /\ at[u].pc = "mapped"
      /\ at[u].key \in Keys /\ at[u].key # None
  BY Where DEF PfRel
<1>2. at' = [at EXCEPT ![u] = l]
  BY <1>1 DEF PfRel, GoTo, IInv, Typed
<1>4. /\ l.pc = "drop" /\ l.op = at[u].op /\ l.key = at[u].key /\ l.range = at[u].range
      /\ l.mode = at[u].mode /\ l.want = at[u].want /\ l.status = at[u].status /\ l.rd = at[u].rd
      /\ l \in Places
  BY <1>1 DEF Places, Labels
<1> HIDE DEF l
<1>5. Local(l)
  BY <1>1, <1>4 DEF Local, Waits
<1>6. at[u].status = "none"
  BY <1>1 DEF Local, Waits
<1>7. ValidAt(l, Pg(u).valid)
  BY <1>4 DEF ValidAt, Waits
<1>8. UNCHANGED <<dcpage, io, old, dirties, writer, term, counts>> /\ counts \in Tallies
  BY DEF PfRel, data, writing, IInv, Typed
<1> QED
  BY <1>1, <1>2, <1>4, <1>5, <1>6, <1>7, <1>8, AtKeeps DEF Waits

(* The loop in which a thread waits *)
LEMMA LoopKeeps ==
  ASSUME IInv, NEW u \in Users, at[u].pc \in Waits, at[u].op \in Sync,
         NEW l, l \in Places, at' = [at EXCEPT ![u] = l],
         l.pc \in {"test", "wait", "woken"}, l.op = at[u].op, l.key = at[u].key,
         l.range = at[u].range, l.mode = at[u].mode, l.status = at[u].status, l.rd = at[u].rd,
         UNCHANGED <<dcpage, io, old, dirties, writer, term, counts>>
  PROVE  IInv'
<1>1. Local(at[u]) /\ at[u].key \in Keys /\ at[u].key # None /\ at[u].pc # "out"
  BY Where DEF Waits
<1>2. Local(l)
  BY <1>1 DEF Local, Waits
<1>3. ValidAt(at[u], Pg(u).valid)
  BY <1>1 DEF IInv, Valids
<1>4. ValidAt(l, Pg(u).valid)
  BY <1>3 DEF ValidAt, Waits
<1>5. at[u].pc \notin {"out", "thru", "mark", "switch", "keep"} /\ l.pc \notin {"out", "keep"}
      /\ l.pc \in Waits /\ l.pc \notin {"thru", "mark"} /\ counts \in Tallies
  BY DEF Waits, IInv, Typed
<1> QED
  BY <1>2, <1>4, <1>5, AtKeeps

LEMMA SleepKeeps ==
  ASSUME IInv, NEW u \in Users, Sleep(u) \/ Wait(u)
  PROVE  IInv'
<1>0. PICK pc \in {"wait", "woken"} : GoTo(u, pc)
  BY DEF Sleep, Wait
<1> DEFINE l == [at[u] EXCEPT !.pc = pc]
<1>1. at[u] \in Places /\ Local(at[u]) /\ at[u].pc \in {"test", "wait"}
  BY Where DEF Sleep, Wait
<1>2. at' = [at EXCEPT ![u] = l]
  BY <1>0, <1>1 DEF GoTo, IInv, Typed
<1>4. /\ l.pc = pc /\ l.op = at[u].op /\ l.key = at[u].key /\ l.range = at[u].range
      /\ l.mode = at[u].mode /\ l.status = at[u].status /\ l.rd = at[u].rd
      /\ l \in Places
  BY <1>1 DEF Places, Labels, Waits
<1> HIDE DEF l
<1>5. at[u].pc \in Waits /\ at[u].op \in Sync
  BY <1>1 DEF Local, Waits
<1>8. UNCHANGED <<dcpage, io, old, dirties, writer, term, counts>>
  BY DEF Sleep, Wait, data, writing
<1> QED
  BY <1>2, <1>4, <1>5, <1>8, LoopKeeps

LEMMA WokenKeeps ==
  ASSUME IInv, NEW u \in Users, Woken(u)
  PROVE  IInv'
<1> DEFINE l == [at[u] EXCEPT !.pc = "test", !.waited = TRUE]
<1>1. at[u] \in Places /\ Local(at[u]) /\ at[u].pc = "woken"
  BY Where DEF Woken
<1>2. at' = [at EXCEPT ![u] = l]
  BY <1>1 DEF Woken, IInv, Typed
<1>4. /\ l.pc = "test" /\ l.op = at[u].op /\ l.key = at[u].key /\ l.range = at[u].range
      /\ l.mode = at[u].mode /\ l.status = at[u].status /\ l.rd = at[u].rd
      /\ l \in Places
  BY <1>1 DEF Places, Labels, Waits
<1> HIDE DEF l
<1>5. at[u].pc \in Waits /\ at[u].op \in Sync
  BY <1>1 DEF Local, Waits
<1>8. UNCHANGED <<dcpage, io, old, dirties, writer, term, counts>>
  BY DEF Woken, data, writing
<1> QED
  BY <1>2, <1>4, <1>5, <1>8, LoopKeeps

-----------------------------------------------------------------------------
(* The steps that raise what is valid in a page *)

(* Where a page that grows is being transferred, it was complete before.    *)
LEMMA GrowsAlone ==
  ASSUME IInv, NEW u \in Users, at[u].key \in Keys, at[u].status # "pending",
         NEW n \in Pg(u).valid .. PageSize, at[u].mode = "EX" \/ n = Pg(u).valid
  PROVE  \A r \in io : r.by \in Users /\ r.key = at[u].key => n = dcpage[r.key].valid
<1> SUFFICES ASSUME NEW r \in io, r.by \in Users, r.key = at[u].key, at[u].mode = "EX"
             PROVE  n = dcpage[r.key].valid
  BY DEF Pg
<1> DEFINE v == r.by
<1>1. at[v].pc \in Waits /\ at[v].status = "pending" /\ at[v].key = r.key
  BY DEF IInv, UserIo
<1>2. at[v].pc # "out" /\ Local(at[v])
  BY <1>1, Where DEF Waits
<1>3. v # u /\ at[v].mode = "NL"
  BY <1>1, Alone
<1>4. ~at[v].rd
  BY <1>1, <1>2, <1>3 DEF Local
<1>5. at[v].op \notin Writes
  BY <1>1, <1>2, <1>3 DEF Local, Waits
<1>6. at[v].op = "pfmap"
  BY <1>1, <1>2, <1>4, <1>5 DEF Local, Through, Writes
<1>7. Pg(v).valid = PageSize
  BY <1>1, <1>2, <1>4, <1>6 DEF IInv, Valids, ValidAt
<1> QED
  BY <1>1, <1>7, UnitsAre DEF Pg

(* A request goes on from u to l, and the page is valid up to n.            *)
Raises(u, l, n) ==
  /\ GoesTo(u, l) /\ l.key = at[u].key /\ l.mode = at[u].mode /\ at[u].key \in Keys
  /\ at[u].status # "pending" /\ l.pc # "keep" /\ at[u].pc # "keep" /\ l.pc # "out"
  /\ n \in Pg(u).valid .. PageSize /\ n % BlockSize = 0 /\ (at[u].mode = "EX" \/ n = Pg(u).valid)
  /\ dcpage' = [dcpage EXCEPT ![at[u].key].valid = n]
  /\ \A x \in old[at[u].key].mem : x >= n
  /\ ValidAt(l, n)
  /\ at[u].pc \in {"thru", "mark"} => Span(at[u].range) \subseteq 0 .. n - 1

LEMMA RaisedPage ==
  ASSUME IInv, NEW u \in Users, NEW l, NEW n, Raises(u, l, n)
  PROVE  /\ dcpage' \in [Keys -> CachePages] /\ SameStates /\ Grows
         /\ dcpage'[at[u].key].valid = n
         /\ \A k \in Keys \ {at[u].key} : dcpage'[k] = dcpage[k]
         /\ \A k \in Keys : dcpage'[k].lock = dcpage[k].lock /\ dcpage'[k].refs = dcpage[k].refs
<1>1. at[u].key \in Keys /\ Pg(u) \in CachePages /\ Pg(u) = dcpage[at[u].key]
  BY DEF Raises, IInv, Typed, Pg
<1>2. n \in 0 .. PageSize
  BY <1>1, UnitsAre DEF Raises, CachePages
<1> DEFINE p == [Pg(u) EXCEPT !.valid = n]
<1>3. /\ p \in CachePages /\ p.lock = Pg(u).lock /\ p.refs = Pg(u).refs /\ p.state = Pg(u).state
      /\ p.valid = n
  BY <1>1, <1>2 DEF CachePages
<1>4. dcpage' = [dcpage EXCEPT ![at[u].key] = p]
  BY <1>1 DEF Raises, IInv, Typed
<1> HIDE DEF p
<1>5. /\ dcpage'[at[u].key] = p /\ (\A k \in Keys \ {at[u].key} : dcpage'[k] = dcpage[k])
      /\ dcpage' \in [Keys -> CachePages]
  BY <1>1, <1>3, <1>4, PageIs DEF IInv
<1>6. \A k \in Keys : dcpage[k].valid \in dcpage[k].valid .. PageSize /\ dcpage[k].valid % BlockSize = 0
  <2>1. \A k \in Keys : dcpage[k].valid \in 0 .. PageSize
    BY DEF IInv, Typed, CachePages
  <2> QED
    BY <2>1, UnitsAre DEF IInv, Valids
<1>7. Grows
  BY <1>1, <1>3, <1>5, <1>6 DEF Grows, Raises
<1> QED
  BY <1>1, <1>3, <1>5, <1>7 DEF SameStates

LEMMA RaisedUserIo ==
  ASSUME IInv, NEW u \in Users, NEW l, NEW n, Raises(u, l, n)
  PROVE  \A r \in io : r.by \in Users => dcpage'[r.key].valid = dcpage[r.key].valid
<1> SUFFICES ASSUME NEW r \in io, r.by \in Users
             PROVE  dcpage'[r.key].valid = dcpage[r.key].valid
  OBVIOUS
<1>1. r.key \in Keys
  BY DEF IInv, Typed, Transfers
<1>2. CASE r.key = at[u].key
  BY <1>2, RaisedPage, GrowsAlone DEF Raises
<1>3. CASE r.key # at[u].key
  BY <1>1, <1>3, RaisedPage
<1> QED
  BY <1>2, <1>3

LEMMA RaisedMem ==
  ASSUME IInv, NEW u \in Users, NEW l, NEW n, Raises(u, l, n), old' = old, NEW k \in Keys
  PROVE  MemIs(k)'
<1>1. CASE k = at[u].key
  <2>1. dcpage'[k].valid = n
    BY <1>1, RaisedPage
  <2>2. \A x \in old[k].mem : x >= n
    BY <1>1 DEF Raises
  <2> QED
    BY <2>1, <2>2 DEF MemIs
<1>2. CASE k # at[u].key
  BY <1>2, RaisedPage DEF IInv, Data, MemIs
<1> QED
  BY <1>1, <1>2

(* What the disk is behind in is still valid, or is going to be.            *)
LEMMA RaisedDisk ==
  ASSUME IInv, NEW u \in Users, NEW l, NEW n, Raises(u, l, n), old' = old,
         NEW k \in Keys, NEW x \in old[k].disk
  PROVE  x < dcpage'[k].valid \/ Extends(k, x)'
<1>1. at'[u] = l /\ \A v \in Users \ {u} : at'[v] = at[v]
  BY AtIs DEF IInv, Raises, GoesTo, Moves
<1>2. x < dcpage[k].valid \/ Extends(k, x)
  BY DEF IInv, Data, DiskIs
<1>3. x \in Int /\ dcpage[k].valid \in Int
  <2>1. old[k].disk \subseteq Units /\ dcpage[k].valid \in 0 .. PageSize
    BY DEF IInv, Typed, CachePages, PageData
  <2> QED
    BY <2>1, UnitsAre
<1>4. dcpage'[k].valid \in dcpage[k].valid .. PageSize
  BY RaisedPage DEF Grows
<1>5. CASE x < dcpage[k].valid
  BY <1>3, <1>4, <1>5, UnitsAre
<1>6. CASE Extends(k, x)
  <2>1. PICK v \in Users : at[v].key = k /\ at[v].pc \in {"thru", "mark"} /\ x \in Span(at[v].range)
    BY <1>6 DEF Extends
  <2>2. CASE v # u
    BY <1>1, <2>1, <2>2 DEF Extends
  <2>3. CASE v = u
    <3>1. x \in 0 .. n - 1 /\ n = dcpage'[k].valid
      <4>1. n = dcpage'[k].valid
        BY <2>1, <2>3, RaisedPage
      <4>2. Span(at[u].range) \subseteq 0 .. n - 1
        BY <2>1, <2>3 DEF Raises
      <4> QED
        BY <2>1, <2>3, <4>1, <4>2
    <3>2. n \in Int
      BY <1>4, <3>1, UnitsAre, <1>3
    <3> QED
      BY <3>1, <3>2
  <2> QED
    BY <2>2, <2>3
<1> QED
  BY <1>2, <1>5, <1>6

(* With no new transfer, as at the end of a read and for mark_page_dirty    *)
LEMMA RaisedKeeps ==
  ASSUME IInv, NEW u \in Users, NEW l, NEW n, Raises(u, l, n),
         UNCHANGED <<io, old, dirties, writer, term>>,
         counts' \in Tallies, counts'.dirty = counts.dirty,
         at[u].pc \notin {"out", "thru", "switch"}, l.pc \notin {"thru", "mark"} \cup Waits,
         at[u].pc = "mark" => l.pc = "switch"
  PROVE  IInv'
<1>1. at'[u] = l /\ (\A v \in Users \ {u} : at'[v] = at[v]) /\ l \in Places /\ Local(l)
  BY AtIs DEF IInv, Raises, GoesTo, Moves
<1>2. Typed'
  BY AtIs, RaisedPage DEF IInv, Typed, Raises, GoesTo, Moves
<1>3. \A v \in Users : Local(at'[v])
  BY LocalStays DEF Raises, GoesTo, Moves
<1>4. UserIo' /\ FlusherIo' /\ Queues' /\ Terms'
  BY RaisedPage, RaisedUserIo, UserIoStays, FlusherIoStays, QueuesStay, TermsStay DEF Raises, GoesTo
<1>5. Locks'
  <2>1. \A v \in Users : at'[v].key = at[v].key /\ at'[v].mode = at[v].mode
    BY <1>1 DEF Raises
  <2> QED
    BY <2>1, RaisedPage, LocksStay
<1>6. Refs'
  <2>1. \A v \in Users : at'[v].key = at[v].key /\ (at'[v].pc = "keep" <=> at[v].pc = "keep")
    BY <1>1 DEF Raises
  <2>2. \A k \in Keys : dcpage'[k].refs = dcpage[k].refs /\ dcpage'[k].state = dcpage[k].state
    BY RaisedPage DEF SameStates
  <2> QED
    BY <2>1, <2>2, RefsStay
<1>7. Valids'
  <2>1. Grows /\ dcpage'[at[u].key].valid = n
    BY RaisedPage
  <2>2. l.key = at[u].key /\ ValidAt(l, n) /\ GoesTo(u, l)
    BY DEF Raises
  <2> QED
    BY <2>1, <2>2, ValidsStay DEF GoesTo
<1>8. \A k \in Keys : Modifying(k) => Modifying(k)'
  <2> SUFFICES ASSUME NEW k \in Keys, NEW v \in Users, at[v].key = k, Modifies(v)
               PROVE  at'[v].key = k /\ Modifies(v)'
    BY DEF Modifying
  <2>1. CASE at[v].pc \in {"thru", "mark", "switch"}
    BY <1>1, <2>1 DEF Modifies, Raises
  <2>2. CASE \E r \in io : r.by = v /\ r.op = "write" /\ r.done = "no"
    <3>1. at[v].status = "pending"
      BY <2>2 DEF IInv, UserIo
    <3> QED
      BY <1>1, <2>2, <3>1 DEF Modifies, Raises
  <2> QED
    BY <2>1, <2>2 DEF Modifies
<1>9. ASSUME NEW k \in Keys PROVE DiskIs(k)'
  <2>1. \A x \in old'[k].disk : x < dcpage'[k].valid \/ Extends(k, x)'
    BY RaisedDisk
  <2>2. Writing(k) \subseteq Writing(k)'
    <3>1. dcpage'[k].valid \in dcpage[k].valid .. PageSize /\ dcpage[k].valid \in 0 .. PageSize
      BY RaisedPage DEF Grows, IInv, Typed, CachePages
    <3>2. 0 .. dcpage[k].valid - 1 \subseteq 0 .. dcpage'[k].valid - 1
      BY <3>1, UnitsAre
    <3> QED
      BY <3>2 DEF Writing
  <2>3. Modifying(k)' \/ dcpage'[k].state \in {1, 3} \/ old'[k].disk \subseteq Writing(k)'
    BY <1>8, <2>2, RaisedPage DEF IInv, Data, DiskIs, SameStates
  <2> QED
    BY <2>1, <2>3 DEF DiskIs
<1>10. ReadIn'
  BY <1>1 DEF IInv, Data, ReadIn
<1>11. Copied'
  BY <1>1 DEF IInv, Data, Copied
<1> QED
  BY <1>2, <1>3, <1>4, <1>5, <1>6, <1>7, <1>9, <1>10, <1>11, RaisedMem DEF IInv, Data

LEMMA RaiseTrivially ==
  ASSUME IInv, NEW u \in Users, at[u].key \in Keys
  PROVE  Pg(u).valid \in Pg(u).valid .. PageSize /\ Pg(u).valid % BlockSize = 0
         /\ \A x \in old[at[u].key].mem : x >= Pg(u).valid
<1>1. Pg(u).valid \in 0 .. PageSize
  BY DEF IInv, Typed, CachePages, Pg
<1> QED
  BY <1>1, UnitsAre DEF IInv, Valids, Data, MemIs, Pg

LEMMA NewValidIs ==
  ASSUME IInv, NEW u \in Users, at[u].pc \in {"thru", "mark"}
  PROVE  /\ NewValid(u) \in Pg(u).valid .. PageSize /\ NewValid(u) % BlockSize = 0
         /\ at[u].mode = "EX" \/ NewValid(u) = Pg(u).valid
         /\ \A x \in old[at[u].key].mem : x >= NewValid(u)
         /\ Span(at[u].range) \subseteq 0 .. NewValid(u) - 1
<1>1. /\ at[u] \in Places /\ Local(at[u]) /\ at[u].pc # "out" /\ at[u].key \in Keys
      /\ at[u].range \in Ranges /\ ValidAt(at[u], Pg(u).valid)
  BY Where DEF Local, IInv, Valids
<1>2. /\ at[u].range[1] \in Nat /\ at[u].range[2] \in Nat /\ at[u].range[2] <= PageSize
      /\ Span(at[u].range) \subseteq 0 .. PageSize - 1
  BY <1>1, UnitsAre
<1>3. /\ Pg(u).valid \in 0 .. PageSize /\ PageSize \in Nat
      /\ Pg(u).valid \in Pg(u).valid .. PageSize /\ Pg(u).valid % BlockSize = 0
      /\ \A x \in old[at[u].key].mem : x >= Pg(u).valid
  BY <1>1, RaiseTrivially, UnitsAre DEF IInv, Typed, CachePages, Pg
<1>4. CASE at[u].op = "pfmap"
  <2>1. NewValid(u) = Pg(u).valid
    BY <1>4 DEF NewValid
  <2>2. at[u].pc = "thru"
    BY <1>1, <1>4 DEF Local, Writes
  <2>3. Pg(u).valid = PageSize
    BY <1>1, <1>4, <2>2 DEF ValidAt
  <2> QED
    BY <1>2, <1>3, <2>1, <2>3
<1>5. CASE at[u].op # "pfmap"
  <2>1. at[u].op \in Writes
    BY <1>1, <1>5 DEF Local, Writes, Through
  <2>2. at[u].mode = "EX"
    BY <1>1, <2>1 DEF Local
  <2>3. \/ at[u].range[2] <= Pg(u).valid
        \/ at[u].range[1] <= Pg(u).valid /\ at[u].range[2] % BlockSize = 0
    <3>1. Covered(at[u].op, Pg(u).valid, at[u].range)
      BY <1>1, <2>1 DEF ValidAt
    <3> QED
      BY <2>1, <3>1 DEF Covered, Writes
  <2>4. CASE at[u].range[2] <= Pg(u).valid
    <3>1. NewValid(u) = Pg(u).valid
      BY <1>2, <1>3, <2>4 DEF NewValid
    <3>2. Span(at[u].range) \subseteq 0 .. Pg(u).valid - 1
      BY <1>2, <1>3, <2>4 DEF Span
    <3> QED
      BY <1>3, <2>2, <3>1, <3>2
  <2>5. CASE Pg(u).valid < at[u].range[2]
    <3>1. NewValid(u) = at[u].range[2]
      BY <1>5, <2>5 DEF NewValid
    <3>2. at[u].range[1] <= Pg(u).valid /\ at[u].range[2] % BlockSize = 0
      BY <1>2, <1>3, <2>3, <2>5
    <3>3. Span(at[u].range) \subseteq 0 .. at[u].range[2] - 1
      BY <1>2 DEF Span
    <3>4. \A x \in old[at[u].key].mem : x >= at[u].range[2]
      <4>1. \A x \in old[at[u].key].mem : x \in Int /\ x \notin Span(at[u].range)
        <5>1. old[at[u].key].mem \subseteq Units
          BY <1>1 DEF IInv, Typed, PageData
        <5> QED
          BY <2>1, <5>1, UnitsAre DEF IInv, Data, Copied
      <4> QED
        BY <1>2, <1>3, <3>2, <4>1 DEF Span
    <3>5. at[u].range[2] \in Pg(u).valid .. PageSize
      BY <1>2, <1>3, <2>5
    <3> QED
      BY <2>2, <3>1, <3>2, <3>3, <3>4, <3>5
  <2> QED
    BY <1>2, <1>3, <2>4, <2>5
<1> QED
  BY <1>4, <1>5

LEMMA SetValidKeeps ==
  ASSUME IInv, NEW u \in Users, SetValid(u)
  PROVE  IInv'
<1>0. PICK n : n = NewValid(u)
  OBVIOUS
<1> DEFINE l == [at[u] EXCEPT !.pc = "switch"]
<1>1. /\ at[u] \in Places /\ Local(at[u]) /\ at[u].pc = "mark"
      /\ at[u].key \in Keys /\ at[u].key # None
  BY Where DEF SetValid
<1>2. at' = [at EXCEPT ![u] = l]
  BY <1>1 DEF SetValid, GoTo, IInv, Typed
<1>3. /\ l.pc = "switch" /\ l.op = at[u].op /\ l.key = at[u].key /\ l.range = at[u].range
      /\ l.mode = at[u].mode /\ l.want = at[u].want /\ l.status = at[u].status /\ l.rd = at[u].rd
      /\ l \in Places
  BY <1>1 DEF Places, Labels
<1> HIDE DEF l
<1>4. Local(l)
  BY <1>1, <1>3 DEF Local, Waits
<1>5. at[u].status = "none"
  BY <1>1 DEF Local, Waits
<1>6. ValidAt(l, n)
  BY <1>3 DEF ValidAt, Waits
<1>7. GoesTo(u, l)
  BY <1>2, <1>3, <1>4, <1>5 DEF GoesTo, Moves
<1>8. Raises(u, l, n)
  BY <1>0, <1>1, <1>3, <1>5, <1>6, <1>7, NewValidIs DEF SetValid, Raises
<1>9. UNCHANGED <<io, old, dirties, writer, term, counts>> /\ counts \in Tallies
  BY DEF SetValid, data, writing, IInv, Typed
<1> QED
  BY <1>1, <1>3, <1>8, <1>9, RaisedKeeps DEF Waits

LEMMA ReadEndsKeeps ==
  ASSUME IInv, NEW u \in Users, at[u].pc \in Waits, at[u].status # "pending", at[u].rd,
         ReadEnds(u), UNCHANGED <<io, old, dirties, writer, term>>
  PROVE  IInv'
<1>1. /\ at[u] \in Places /\ Local(at[u]) /\ at[u].pc # "out" /\ at[u].key \in Keys
      /\ at[u].key # None /\ at[u].mode = "EX" /\ at[u].op \in Asked
  BY Where DEF Waits, Local
<1>2. at[u].status \in {"good", "bad"}
  BY <1>1 DEF Local, Places
<1>0. PICK pc, rd, n :
        /\ pc = IF at[u].status = "good" THEN Ready(at[u])
                ELSE IF at[u].op \in {"readw", "writew", "writethru", "prefetch"} THEN "drop"
                ELSE "stuck"
        /\ rd = (at[u].op \notin Sync)
        /\ n = IF at[u].status = "good" THEN PageSize ELSE Pg(u).valid
  OBVIOUS
<1>3. /\ pc \in {"modify", "lower", "mapped", "drop", "stuck"}
      /\ pc = "modify" => at[u].op \in Writes
      /\ pc = "lower" => at[u].mode = "EX" /\ at[u].op \in {"readw", "pfmap"}
      /\ pc # "mapped"
      /\ pc \in {"modify", "lower"} => at[u].status = "good"
  BY <1>0, <1>1, ReadyIs
<1> DEFINE l == [at[u] EXCEPT !.rd = rd, !.status = "none", !.waited = FALSE, !.pc = pc]
<1>4. at' = [at EXCEPT ![u] = l]
  <2>1. at' = [at EXCEPT ![u] = [[at[u] EXCEPT !.rd = rd, !.status = "none", !.waited = FALSE]
                                   EXCEPT !.pc = pc]]
    BY <1>0 DEF ReadEnds
  <2> QED
    BY <1>1, <2>1 DEF Places
<1>5. /\ l.pc = pc /\ l.op = at[u].op /\ l.key = at[u].key /\ l.range = at[u].range
      /\ l.mode = at[u].mode /\ l.want = at[u].want /\ l.status = "none" /\ l.rd = rd
      /\ l \in Places
  <2>1. rd \in BOOLEAN /\ pc \in Labels
    BY <1>0, <1>3 DEF Labels
  <2> QED
    BY <1>1, <2>1 DEF Places
<1>6. dcpage' = [dcpage EXCEPT ![at[u].key].valid = n]
  BY <1>0, <1>1 DEF ReadEnds, IInv, Typed, CachePages, Pg
<1>7. counts' \in Tallies /\ counts'.dirty = counts.dirty
  <2>1. counts \in Tallies
    BY DEF IInv, Typed
  <2>2. PICK b \in Int : b = counts.rd - IF at[u].op \in Sync THEN 1 ELSE 0
    BY <2>1 DEF Tallies
  <2>3. counts' = [counts EXCEPT !.rd = b]
    BY <2>2 DEF ReadEnds
  <2> QED
    BY <2>1, <2>3 DEF Tallies
<1> HIDE DEF l
<1>8. Local(l)
  BY <1>1, <1>3, <1>5 DEF Local, Waits
<1>9. GoesTo(u, l)
  BY <1>4, <1>5, <1>8 DEF GoesTo, Moves
<1>10. n \in Pg(u).valid .. PageSize /\ n % BlockSize = 0 /\ \A x \in old[at[u].key].mem : x >= n
  <2>1. CASE at[u].status = "good"
    <3>1. Pg(u).valid \in 0 .. PageSize
      BY <1>1 DEF IInv, Typed, CachePages, Pg
    <3>2. old[at[u].key].mem = {}
      BY <2>1 DEF IInv, Data, ReadIn
    <3> QED
      BY <1>0, <2>1, <3>1, <3>2, UnitsAre
  <2>2. CASE at[u].status # "good"
    BY <1>0, <1>1, <2>2, RaiseTrivially
  <2> QED
    BY <2>1, <2>2
<1>11. ValidAt(l, n)
  <2>1. CASE pc \in {"modify", "lower"}
    <3>1. n = PageSize
      BY <1>0, <1>3, <2>1
    <3>2. at[u].range \in Ranges
      BY <1>1 DEF Local
    <3>3. at[u].range[2] <= PageSize
      BY <3>2, UnitsAre
    <3>4. l.op \in Writes => Covered(l.op, n, l.range)
      BY <1>5, <3>1, <3>3 DEF Covered, Writes
    <3> QED
      BY <1>5, <2>1, <3>1, <3>4 DEF ValidAt, Waits
  <2>2. CASE pc \in {"drop", "stuck"}
    BY <1>5, <2>2 DEF ValidAt, Waits
  <2> QED
    BY <1>3, <2>1, <2>2
<1>12. Raises(u, l, n)
  BY <1>1, <1>3, <1>5, <1>6, <1>9, <1>10, <1>11 DEF Raises, Waits
<1> QED
  BY <1>3, <1>5, <1>7, <1>12, RaisedKeeps DEF Waits

(* The end of a write that a request waits for *)
LEMMA WriteEndsKeeps ==
  ASSUME IInv, NEW u \in Users, at[u].pc \in Waits, at[u].status # "pending", ~at[u].rd,
         NEW l \in Places, at' = [at EXCEPT ![u] = l],
         l.pc = "drop" \/ (l.pc = "mapped" /\ at[u].op = "pfmap"),
         l.op = at[u].op, l.key = at[u].key,
         l.range = at[u].range, l.mode = at[u].mode, l.status = "none",
         counts' = [counts EXCEPT !.wt = @ - 1],
         UNCHANGED <<dcpage, io, old, dirties, writer, term>>
  PROVE  IInv'
<1>1. Local(at[u]) /\ at[u].key \in Keys /\ at[u].key # None /\ at[u].pc # "out"
  BY Where DEF Waits
<1>2. Local(l)
  BY <1>1 DEF Local, Waits
<1>3. ValidAt(at[u], Pg(u).valid)
  BY <1>1 DEF IInv, Valids
<1>4. ValidAt(l, Pg(u).valid)
  BY <1>3 DEF ValidAt, Waits
<1>5. at[u].pc \notin {"out", "thru", "mark", "switch", "keep"} /\ l.pc \notin Waits
      /\ l.pc \notin {"out", "keep", "thru", "mark"}
  BY DEF Waits
<1>6. counts' \in Tallies /\ counts'.dirty = counts.dirty
  BY DEF IInv, Typed, Tallies
<1> QED
  BY <1>2, <1>4, <1>5, <1>6, AtKeeps

LEMMA SyncEndsKeeps ==
  ASSUME IInv, NEW u \in Users, SyncEnds(u)
  PROVE  IInv'
<1>1. /\ at[u] \in Places /\ Local(at[u]) /\ at[u].pc = "test" /\ at[u].status # "pending"
      /\ at[u].pc \in Waits
  BY Where DEF SyncEnds, Waits
<1>2. UNCHANGED <<io, old, dirties, writer, term>>
  BY DEF SyncEnds, writing
<1>3. CASE at[u].rd
  <2>1. ReadEnds(u)
    BY <1>3 DEF SyncEnds
  <2> QED
    BY <1>1, <1>2, <1>3, <2>1, ReadEndsKeeps
<1>4. CASE ~at[u].rd
  <2>1. PICK pc : pc = IF at[u].op = "pfmap" THEN "mapped" ELSE "drop"
    OBVIOUS
  <2> DEFINE l == [at[u] EXCEPT !.pc = pc, !.status = "none", !.waited = FALSE]
  <2>2. /\ counts' = [counts EXCEPT !.wt = @ - 1] /\ dcpage' = dcpage
        /\ at' = [at EXCEPT ![u].pc = pc, ![u].status = "none", ![u].waited = FALSE]
    BY <1>4, <2>1 DEF SyncEnds
  <2>3. at' = [at EXCEPT ![u] = l]
    BY <1>1, <2>2 DEF IInv, Typed
  <2>4. /\ l.pc = pc /\ l.op = at[u].op /\ l.key = at[u].key /\ l.range = at[u].range
        /\ l.mode = at[u].mode /\ l.status = "none"
        /\ l \in Places
    BY <1>1, <2>1 DEF Places, Labels
  <2> HIDE DEF l
  <2>5. l.pc = "drop" \/ (l.pc = "mapped" /\ at[u].op = "pfmap")
    BY <2>1, <2>4
  <2> QED
    BY <1>1, <1>2, <1>4, <2>2, <2>3, <2>4, <2>5, WriteEndsKeeps
<1> QED
  BY <1>3, <1>4

LEMMA AsyncEndsKeeps ==
  ASSUME IInv, NEW u \in Users, AsyncEnds(u)
  PROVE  IInv'
<1>1. /\ at[u] \in Places /\ Local(at[u]) /\ at[u].pc = "callback" /\ at[u].status # "pending"
      /\ at[u].pc \in Waits
  BY Where DEF AsyncEnds, Waits
<1>2. UNCHANGED <<io, old, dirties, writer, term>>
  BY DEF AsyncEnds, writing
<1>3. CASE at[u].rd
  <2>1. ReadEnds(u)
    BY <1>3 DEF AsyncEnds
  <2> QED
    BY <1>1, <1>2, <1>3, <2>1, ReadEndsKeeps
<1>4. CASE ~at[u].rd
  <2>1. at[u].op \in Through
    BY <1>1, <1>4 DEF Local, Sync
  <2> DEFINE l == [at[u] EXCEPT !.pc = "drop", !.status = "none"]
  <2>2. /\ counts' = [counts EXCEPT !.wt = @ - 1] /\ dcpage' = dcpage
        /\ at' = [at EXCEPT ![u].pc = "drop", ![u].status = "none"]
    BY <1>4, <2>1 DEF AsyncEnds
  <2>3. at' = [at EXCEPT ![u] = l]
    BY <1>1, <2>2 DEF IInv, Typed
  <2>4. /\ l.pc = "drop" /\ l.op = at[u].op /\ l.key = at[u].key /\ l.range = at[u].range
        /\ l.mode = at[u].mode /\ l.status = "none"
        /\ l \in Places
    BY <1>1 DEF Places, Labels
  <2> HIDE DEF l
  <2> QED
    BY <1>1, <1>2, <1>4, <2>2, <2>3, <2>4, WriteEndsKeeps
<1> QED
  BY <1>3, <1>4

-----------------------------------------------------------------------------
(* A request goes down from EX to the mode it wants in the end.             *)
LEMMA LoweredLocks ==
  ASSUME IInv, NEW u \in Users, at[u].mode = "EX", at[u].key \in Keys,
         \A v \in Users \ {u} : at'[v] = at[v],
         at'[u].key = at[u].key, NEW m \in {"NL", "PR"}, at'[u].mode = m,
         dcpage'[at[u].key].lock = Locked(0, m),
         \A k \in Keys \ {at[u].key} : dcpage'[k].lock = dcpage[k].lock
  PROVE  Locks'
<1>0. PICK j \in Keys : j = at[u].key
  OBVIOUS
<1>1. \A k \in Keys : k # j => \A n : HeldBy(k, n)' = HeldBy(k, n)
  BY <1>0 DEF HeldBy
<1>2. \A v \in Users \ {u} : at[v].key = j => at[v].mode = "NL"
  BY <1>0, Alone
<1>3. HeldBy(j, "EX")' = {}
  BY <1>0, <1>2 DEF HeldBy
<1>4. LockIs(j)'
  <2>1. CASE m = "NL"
    <3>1. HeldBy(j, "PR")' = {}
      BY <1>0, <1>2, <2>1 DEF HeldBy
    <3>2. dcpage'[j].lock = 0
      BY <1>0, <2>1 DEF Locked
    <3> QED
      BY <1>3, <3>1, <3>2, FS_EmptySet DEF LockIs
  <2>2. CASE m = "PR"
    <3>1. HeldBy(j, "PR")' = {u}
      BY <1>0, <1>2, <2>2 DEF HeldBy
    <3>2. dcpage'[j].lock = 1
      BY <1>0, <2>2 DEF Locked
    <3> QED
      BY <1>3, <3>1, <3>2, FS_Singleton, ZenonT(40) DEF LockIs
  <2> QED
    BY <2>1, <2>2
<1>5. \A k \in Keys : LockIs(k)'
  BY <1>0, <1>1, <1>4 DEF IInv, Locks, LockIs
<1>6. OneWriter'
  BY DEF IInv, Locks, OneWriter
<1> QED
  BY <1>5, <1>6 DEF Locks

LEMMA LowerKeeps ==
  ASSUME IInv, NEW u \in Users, Lower(u)
  PROVE  IInv'
<1>0. PICK m, pc : m = OpMode(at[u].op) /\ pc = Ready([at[u] EXCEPT !.mode = m])
  OBVIOUS
<1> DEFINE l == [at[u] EXCEPT !.mode = m, !.pc = pc]
           p == [Pg(u) EXCEPT !.lock = Locked(0, m)]
<1>1. /\ at[u] \in Places /\ Local(at[u]) /\ at[u].pc = "lower" /\ at[u].mode = "EX"
      /\ at[u].op \in {"readw", "pfmap"} /\ at[u].op \in Asked
      /\ at[u].key \in Keys /\ at[u].key # None /\ Pg(u) \in CachePages
  BY Where DEF Lower, Pg, Local
<1>2. m \in {"NL", "PR"} /\ (at[u].op = "pfmap" => m = "NL")
  BY <1>0, <1>1 DEF OpMode, Writes
<1>3. pc \in {"mapped", "drop"} /\ (pc = "mapped" => at[u].op = "pfmap")
  <2>1. PICK q : q = [at[u] EXCEPT !.mode = m]
    OBVIOUS
  <2>2. q.op = at[u].op /\ q.mode = m
    BY <1>1, <2>1 DEF Places
  <2>3. /\ pc \in {"modify", "lower", "mapped", "drop"}
        /\ pc = "modify" => at[u].op \in Writes
        /\ pc = "lower" => m = "EX"
        /\ pc = "mapped" => at[u].op = "pfmap"
    BY <1>0, <1>1, <2>1, <2>2, ReadyIs
  <2> QED
    BY <1>1, <1>2, <2>3 DEF Writes
<1>4. at' = [at EXCEPT ![u] = l] /\ dcpage' = [dcpage EXCEPT ![at[u].key] = p]
  <2>1. /\ at' = [at EXCEPT ![u].mode = m, ![u].pc = pc]
        /\ dcpage' = [dcpage EXCEPT ![at[u].key].lock = Locked(0, m)]
    BY <1>0 DEF Lower
  <2> QED
    BY <1>1, <2>1 DEF IInv, Typed, Pg
<1>5. /\ l.pc = pc /\ l.op = at[u].op /\ l.key = at[u].key /\ l.range = at[u].range
      /\ l.mode = m /\ l.want = at[u].want /\ l.status = at[u].status /\ l.rd = at[u].rd
      /\ l \in Places
  BY <1>1, <1>2, <1>3 DEF Places, Labels, LockModes
<1>6. /\ p \in CachePages /\ p.lock = Locked(0, m)
      /\ p.refs = Pg(u).refs /\ p.valid = Pg(u).valid /\ p.state = Pg(u).state
  BY <1>1, <1>2 DEF CachePages, Locked
<1> HIDE DEF l, p
<1>7. Local(l)
  BY <1>1, <1>2, <1>3, <1>5 DEF Local, Waits, Writes
<1>8. at'[u] = l /\ \A v \in Users \ {u} : at'[v] = at[v]
  BY <1>4, AtIs DEF IInv
<1>9. /\ dcpage'[at[u].key] = p /\ (\A j \in Keys \ {at[u].key} : dcpage'[j] = dcpage[j])
      /\ dcpage' \in [Keys -> CachePages]
  BY <1>1, <1>4, <1>6, PageIs DEF IInv
<1>10. at[u].status = "none"
  BY <1>1 DEF Local, Waits
<1>11. GoesTo(u, l) /\ SamePages
  BY <1>4, <1>5, <1>6, <1>7, <1>9, <1>10 DEF GoesTo, Moves, SamePages, Pg
<1>12. Locks'
  <2>1. at'[u].mode = m /\ at'[u].key = at[u].key /\ dcpage'[at[u].key].lock = Locked(0, m)
    BY <1>5, <1>6, <1>8, <1>9
  <2>2. \A k \in Keys \ {at[u].key} : dcpage'[k].lock = dcpage[k].lock
    BY <1>9
  <2> QED
    BY <1>1, <1>2, <1>8, <2>1, <2>2, LoweredLocks
<1>14. counts' = counts /\ UNCHANGED <<io, old, dirties, writer, term>> /\ counts \in Tallies
  BY DEF Lower, writing, IInv, Typed
<1>13. Refs'
  <2>1. \A v \in Users : at'[v].key = at[v].key /\ (at'[v].pc = "keep" <=> at[v].pc = "keep")
    BY <1>1, <1>3, <1>5, <1>8
  <2>2. \A k \in Keys : dcpage'[k].refs = dcpage[k].refs /\ dcpage'[k].state = dcpage[k].state
    BY <1>6, <1>9 DEF Pg
  <2> QED
    BY <1>14, <2>1, <2>2, RefsStay
<1>15. ValidAt(l, dcpage[l.key].valid)
  <2>1. ValidAt(at[u], Pg(u).valid)
    BY <1>1 DEF IInv, Valids
  <2> QED
    BY <1>1, <1>3, <1>5, <2>1 DEF ValidAt, Waits, Writes, Pg
<1> QED
  BY <1>1, <1>3, <1>5, <1>9, <1>11, <1>12, <1>13, <1>14, <1>15, StepKeeps DEF Waits

LEMMA MarkedKeeps ==
  ASSUME IInv, NEW u \in Users, Marked(u)
  PROVE  IInv'
<1>1. /\ at[u] \in Places /\ Local(at[u]) /\ at[u].pc \in {"keep", "unmark"}
      /\ at[u].key \in Keys /\ at[u].key # None /\ Pg(u) \in CachePages
  BY Where DEF Marked, Pg
<1>2. at[u].op \in Writes /\ at[u].op # "pfmap" /\ at[u].mode = "EX" /\ at[u].status = "none"
  BY <1>1 DEF Local, Writes, Waits
<1>3. at' = [at EXCEPT ![u] = Out]
  BY <1>2 DEF Marked
<1>4. counts' \in Tallies /\ counts'.dirty = counts.dirty
  BY UnreadIs DEF Marked
<1>5. UNCHANGED <<io, old, dirties, writer, term>>
  BY DEF Marked, writing
<1>6. CASE at[u].pc = "unmark"
  <2>1. Release(u, "EX") /\ "EX" \in LockModes
    BY <1>6 DEF Marked, LockModes
  <2> QED
    BY <1>2, <1>3, <1>4, <1>5, <1>6, <2>1, LeaveKeeps DEF Waits
<1>7. CASE at[u].pc = "keep"
  <2> DEFINE p == [Pg(u) EXCEPT !.lock = 0]
  <2>1. dcpage' = [dcpage EXCEPT ![at[u].key] = p]
    BY <1>1, <1>7 DEF Marked, IInv, Typed, Pg
  <2>2. /\ p \in CachePages /\ p.lock = 0
        /\ p.refs = Pg(u).refs /\ p.valid = Pg(u).valid /\ p.state = Pg(u).state
    BY <1>1 DEF CachePages
  <2> HIDE DEF p
  <2>3. at'[u] = Out /\ \A v \in Users \ {u} : at'[v] = at[v]
    BY <1>3, AtIs DEF IInv
  <2>4. /\ dcpage'[at[u].key] = p /\ (\A j \in Keys \ {at[u].key} : dcpage'[j] = dcpage[j])
        /\ dcpage' \in [Keys -> CachePages]
    BY <1>1, <2>1, <2>2, PageIs DEF IInv
  <2>5. GoesTo(u, Out) /\ SamePages
    BY <1>2, <1>3, <2>2, <2>4, OutIs DEF GoesTo, Moves, SamePages, Pg
  <2>6. Locks'
    <3>1. dcpage'[at[u].key].lock = Unlocked(dcpage[at[u].key].lock, at[u].mode)
      BY <1>2, <2>2, <2>4 DEF Unlocked
    <3>2. \A k \in Keys \ {at[u].key} : dcpage'[k].lock = dcpage[k].lock
      BY <2>4
    <3> QED
      BY <1>1, <2>3, <3>1, <3>2, OutIs, UnlockedKeeps
  <2>7. Refs'
    <3>1. \A k \in Keys : Using(k)' = Using(k)
      BY <1>7, <2>3, OutIs, KeysAssumption DEF Using
    <3>2. \A k \in Keys : /\ dcpage'[k].state = dcpage[k].state
                          /\ dcpage'[k].refs = dcpage[k].refs
      BY <2>2, <2>4 DEF Pg
    <3>3. \A k \in Keys : dcpage[k].refs \in Int /\ Cardinality(Using(k)) \in Nat
      BY Finite DEF IInv, Typed, CachePages
    <3>4. \A k \in Keys : /\ dcpage'[k].state = dcpage[k].state
                          /\ dcpage'[k].refs \in Int /\ Cardinality(Using(k)') \in Nat
                          /\ dcpage'[k].refs - Cardinality(Using(k)')
                               >= dcpage[k].refs - Cardinality(Using(k))
      BY <3>1, <3>2, <3>3
    <3> QED
      BY <1>5, <3>4, RefsChange
  <2> QED
    BY <1>4, <1>5, <1>7, <2>4, <2>5, <2>6, <2>7, OutIs, StepKeeps DEF Waits
<1> QED
  BY <1>1, <1>6, <1>7

-----------------------------------------------------------------------------
(* A request starts a transfer q, and waits for it.                         *)

Starts(u, l, n, q) ==
  /\ Raises(u, l, n) /\ io' = io \cup {q}
  /\ q \in Transfers /\ q.by = u /\ q.key = at[u].key /\ q.done = "no"
  /\ l.pc \in Waits /\ l.status = "pending" /\ (q.op = "read" <=> l.rd)
  /\ q.op = "read" => q.from = n /\ q.to = PageSize /\ at[u].pc = "look"
  /\ q.op = "write" => q.from = 0 /\ q.to = n
  /\ at[u].pc \in {"look", "thru"}

LEMMA StartUserIo ==
  ASSUME IInv, NEW u \in Users, NEW l, NEW n, NEW q, Starts(u, l, n, q)
  PROVE  UserIo'
<1>1. /\ at'[u] = l /\ \A v \in Users \ {u} : at'[v] = at[v]
      /\ l.key = at[u].key /\ at[u].status # "pending" /\ dcpage'[at[u].key].valid = n
  <2>1. Raises(u, l, n)
    BY DEF Starts
  <2>2. dcpage'[at[u].key].valid = n
    BY <2>1, RaisedPage
  <2> QED
    BY <2>1, <2>2, AtIs DEF IInv, Raises, GoesTo, Moves
<1>2. \A r \in io : r.by \in Users => r.by # u
  BY <1>1 DEF IInv, UserIo
<1>3. ASSUME NEW r \in io', r.by \in Users
      PROVE  LET m == at'[r.by]
                 j == dcpage'[r.key].valid IN
             /\ m.pc \in Waits /\ m.status = "pending" /\ r.key = m.key /\ r.done \in {"no", "moved"}
             /\ r.op = "read" <=> m.rd
             /\ r.op = "read" => r.from = j /\ r.to = PageSize
             /\ r.op = "write" => r.from = 0 /\ r.to = j
  <2>1. CASE r \in io
    <3>1. at'[r.by] = at[r.by]
      BY <1>1, <1>2, <1>3, <2>1
    <3>2. dcpage'[r.key].valid = dcpage[r.key].valid
      BY <1>3, <2>1, RaisedUserIo DEF Starts
    <3> QED
      BY <1>3, <2>1, <3>1, <3>2 DEF IInv, UserIo
  <2>2. CASE r = q
    BY <1>1, <2>2 DEF Starts
  <2> QED
    BY <1>3, <2>1, <2>2 DEF Starts
<1>4. \A r, s \in io' : r.by \in Users /\ r.by = s.by => r = s
  BY <1>2 DEF Starts, IInv, UserIo
<1> QED
  BY <1>3, <1>4 DEF UserIo

LEMMA StartData ==
  ASSUME IInv, NEW u \in Users, NEW l, NEW n, NEW q, Starts(u, l, n, q),
         UNCHANGED <<old, dirties, writer, term>>
  PROVE  Data'
<1>1. /\ at'[u] = l /\ (\A v \in Users \ {u} : at'[v] = at[v]) /\ l.key = at[u].key
      /\ at[u].status # "pending"
  BY AtIs DEF IInv, Starts, Raises, GoesTo, Moves
<1>2. \A k \in Keys : Modifying(k) => Modifying(k)'
  <2> SUFFICES ASSUME NEW k \in Keys, NEW v \in Users, at[v].key = k, Modifies(v)
               PROVE  at'[v].key = k /\ Modifies(v)'
    BY DEF Modifying
  <2>1. CASE v = u
    <3>1. at[u].pc = "thru"
      <4>1. \A r \in io : r.by # u
        BY <1>1 DEF IInv, UserIo
      <4> QED
        BY <2>1, <4>1 DEF Modifies, Starts
    <3>2. q.op = "write"
      BY <3>1 DEF Starts, Transfers
    <3> QED
      BY <1>1, <2>1, <3>2 DEF Modifies, Starts
  <2>2. CASE v # u
    BY <1>1, <2>2 DEF Modifies, Starts
  <2> QED
    BY <2>1, <2>2
<1>3. ASSUME NEW k \in Keys PROVE DiskIs(k)'
  <2>1. \A x \in old'[k].disk : x < dcpage'[k].valid \/ Extends(k, x)'
    BY RaisedDisk DEF Starts
  <2>2. Writing(k) \subseteq Writing(k)'
    <3>1. dcpage'[k].valid \in dcpage[k].valid .. PageSize /\ dcpage[k].valid \in 0 .. PageSize
      BY RaisedPage DEF Grows, IInv, Typed, CachePages, Starts
    <3>2. 0 .. dcpage[k].valid - 1 \subseteq 0 .. dcpage'[k].valid - 1
      BY <3>1, UnitsAre
    <3> QED
      BY <3>2 DEF Writing, Starts
  <2>3. dcpage'[k].state = dcpage[k].state
    BY RaisedPage DEF Starts, SameStates
  <2>4. Modifying(k)' \/ dcpage'[k].state \in {1, 3} \/ old'[k].disk \subseteq Writing(k)'
    BY <1>2, <2>2, <2>3 DEF IInv, Data, DiskIs
  <2> QED
    BY <2>1, <2>4 DEF DiskIs
<1>4. ReadIn'
  <2>1. \A r \in io' : r.op = "read" /\ r.done = "moved" => r \in io
    BY DEF Starts
  <2> QED
    BY <1>1, <2>1 DEF IInv, Data, ReadIn, Starts
<1>5. Copied'
  BY <1>1 DEF IInv, Data, Copied, Starts, Waits
<1> QED
  BY <1>3, <1>4, <1>5, RaisedMem DEF Data, Starts

LEMMA StartKeeps ==
  ASSUME IInv, NEW u \in Users, NEW l, NEW n, NEW q, Starts(u, l, n, q),
         UNCHANGED <<old, dirties, writer, term>>, counts' \in Tallies, counts'.dirty = counts.dirty
  PROVE  IInv'
<1>1. at'[u] = l /\ (\A v \in Users \ {u} : at'[v] = at[v]) /\ l \in Places /\ Local(l)
  BY AtIs DEF IInv, Starts, Raises, GoesTo, Moves
<1>2. Typed'
  <2>1. io' \subseteq Transfers /\ IsFiniteSet(io')
    BY FS_AddElement DEF Starts, IInv, Typed
  <2> QED
    BY <2>1, AtIs, RaisedPage DEF IInv, Typed, Starts, Raises, GoesTo, Moves
<1>3. \A v \in Users : Local(at'[v])
  BY LocalStays DEF Starts, Raises, GoesTo, Moves
<1>4. /\ SameStates /\ Grows /\ GoesTo(u, l) /\ dcpage'[l.key].valid = n /\ ValidAt(l, n)
      /\ at[u].pc # "out" /\ l.key = at[u].key /\ l.mode = at[u].mode
      /\ l.pc # "keep" /\ at[u].pc # "keep"
  <2>1. Raises(u, l, n) /\ at[u].pc # "out"
    BY DEF Starts
  <2>2. SameStates /\ Grows /\ dcpage'[at[u].key].valid = n
    BY <2>1, RaisedPage
  <2> QED
    BY <2>1, <2>2 DEF Raises
<1>5. /\ \A r : Over(r) => (r \in io' <=> r \in io)
      /\ \A r \in io' : r \in io \/ (r.by \in Users /\ ~Over(r))
  BY DEF Starts, Over
<1>6. FlusherIo' /\ Queues' /\ Terms' /\ Valids'
  BY <1>4, <1>5, FlusherIoStays, QueuesStay, TermsStay, ValidsStay DEF GoesTo
<1>7. /\ \A k \in Keys : dcpage'[k].lock = dcpage[k].lock
      /\ \A k \in Keys : dcpage'[k].refs = dcpage[k].refs /\ dcpage'[k].state = dcpage[k].state
  BY RaisedPage DEF Starts, SameStates
<1>8. \A v \in Users : /\ at'[v].key = at[v].key /\ at'[v].mode = at[v].mode
                       /\ at'[v].pc = "keep" <=> at[v].pc = "keep"
  BY <1>1, <1>4
<1>9. Locks' /\ Refs'
  BY <1>5, <1>7, <1>8, LocksStay, RefsStay
<1> QED
  BY <1>2, <1>3, <1>6, <1>9, StartUserIo, StartData DEF IInv

LEMMA StartReadKeeps ==
  ASSUME IInv, NEW u \in Users, StartRead(u)
  PROVE  IInv'
<1>0. PICK pc, n, q : /\ pc = IF at[u].op \in Sync THEN "test" ELSE "callback"
                      /\ n = Pg(u).valid /\ q = Request("read", at[u].key, n, PageSize, u)
  OBVIOUS
<1> DEFINE l == [at[u] EXCEPT !.pc = pc, !.status = "pending", !.waited = FALSE, !.rd = TRUE]
<1>1. /\ at[u] \in Places /\ Local(at[u]) /\ at[u].pc = "look" /\ at[u].mode = "EX"
      /\ at[u].key \in Keys /\ at[u].key # None /\ Pg(u) \in CachePages
  BY Where DEF StartRead, Pg
<1>2. at' = [at EXCEPT ![u] = l]
  <2>1. at' = [at EXCEPT ![u].pc = pc, ![u].status = "pending", ![u].waited = FALSE, ![u].rd = TRUE]
    BY <1>0 DEF StartRead
  <2> QED
    BY <1>1, <2>1 DEF IInv, Typed
<1>3. /\ l.pc = pc /\ l.op = at[u].op /\ l.key = at[u].key /\ l.range = at[u].range
      /\ l.mode = at[u].mode /\ l.want = at[u].want /\ l.status = "pending" /\ l.rd = TRUE
      /\ l \in Places
  BY <1>0, <1>1 DEF Places, Labels, Waits
<1> HIDE DEF l
<1>4. Local(l)
  BY <1>0, <1>1, <1>3 DEF Local, Waits
<1>5. at[u].status = "none"
  BY <1>1 DEF Local, Waits
<1>6. ValidAt(l, n)
  BY <1>0, <1>3 DEF ValidAt, Waits
<1>7. GoesTo(u, l)
  BY <1>2, <1>3, <1>4, <1>5 DEF GoesTo, Moves
<1>8. dcpage' = [dcpage EXCEPT ![at[u].key].valid = n]
  <2>1. dcpage' = dcpage
    BY DEF StartRead, data
  <2>2. [dcpage[at[u].key] EXCEPT !.valid = n] = dcpage[at[u].key]
    BY <1>0, <1>1 DEF Pg, CachePages
  <2> QED
    BY <1>1, <2>1, <2>2 DEF IInv, Typed
<1>9. Raises(u, l, n)
  BY <1>0, <1>1, <1>3, <1>5, <1>6, <1>7, <1>8, RaiseTrivially, <1>4 DEF Raises, Waits
<1>10. /\ q.op = "read" /\ q.key = at[u].key /\ q.from = n /\ q.to = PageSize /\ q.by = u
       /\ q.done = "no"
  BY <1>0 DEF Request
<1>11. q \in Transfers
  BY <1>0, <1>1, UnitsAre DEF Request, Transfers, CachePages
<1>12. io' = io \cup {q} /\ UNCHANGED <<old, dirties, writer, term>>
  BY <1>0 DEF StartRead, data, writing
<1>13. counts' \in Tallies /\ counts'.dirty = counts.dirty
  BY DEF StartRead, IInv, Typed, Tallies
<1>14. l.pc \in Waits
  BY <1>0, <1>3 DEF Waits
<1>15. Starts(u, l, n, q)
  BY <1>1, <1>3, <1>9, <1>10, <1>11, <1>12, <1>14 DEF Starts
<1> QED
  BY <1>12, <1>13, <1>15, StartKeeps

LEMMA WriteThruKeeps ==
  ASSUME IInv, NEW u \in Users, WriteThru(u)
  PROVE  IInv'
<1>0. PICK pc, n, q, w :
        /\ pc = IF at[u].op \in Sync THEN "test" ELSE "callback"
        /\ n = NewValid(u) /\ q = Request("write", at[u].key, 0, n, u)
        /\ w = (at[u].op = "pfmap")
  OBVIOUS
<1> DEFINE l == [at[u] EXCEPT !.pc = pc, !.status = "pending", !.rd = FALSE, !.waited = w]
<1>1. /\ at[u] \in Places /\ Local(at[u]) /\ at[u].pc = "thru"
      /\ at[u].key \in Keys /\ at[u].key # None /\ Pg(u) \in CachePages
      /\ at[u].op \in Through \cup {"pfmap"}
  BY Where DEF WriteThru, Pg, Local
<1>2. at' = [at EXCEPT ![u] = l]
  <2>1. at' = [at EXCEPT ![u].pc = pc, ![u].status = "pending", ![u].rd = FALSE, ![u].waited = w]
    BY <1>0 DEF WriteThru
  <2> QED
    BY <1>1, <2>1 DEF IInv, Typed
<1>3. /\ l.pc = pc /\ l.op = at[u].op /\ l.key = at[u].key /\ l.range = at[u].range
      /\ l.mode = at[u].mode /\ l.want = at[u].want /\ l.status = "pending" /\ l.rd = FALSE
      /\ l \in Places
  <2>1. w \in BOOLEAN
    BY <1>0
  <2> QED
    BY <1>0, <1>1, <2>1, ZenonT(40) DEF Places, Labels, Waits
<1> HIDE DEF l
<1>4. Local(l)
  BY <1>0, <1>1, <1>3 DEF Local, Waits
<1>5. at[u].status = "none"
  BY <1>1 DEF Local, Waits
<1>6. n \in Pg(u).valid .. PageSize /\ Pg(u).valid \in 0 .. PageSize
  BY <1>0, <1>1, NewValidIs DEF CachePages
<1>61. ValidAt(l, n)
  <2>1. at[u].op = "pfmap" => Pg(u).valid = PageSize
    BY <1>1 DEF IInv, Valids, ValidAt
  <2>2. at[u].op = "pfmap" => n = PageSize
    BY <1>6, <2>1, UnitsAre
  <2> QED
    BY <1>0, <1>3, <2>2 DEF ValidAt, Waits
<1>7. GoesTo(u, l)
  BY <1>2, <1>3, <1>4, <1>5 DEF GoesTo, Moves
<1>8. dcpage' = [dcpage EXCEPT ![at[u].key].valid = n]
  BY <1>0 DEF WriteThru
<1>14. l.pc \in Waits
  BY <1>0, <1>3 DEF Waits
<1>9. Raises(u, l, n)
  BY <1>0, <1>1, <1>14, <1>3, <1>5, <1>61, <1>7, <1>8, NewValidIs DEF Raises, Waits
<1>10. /\ q.op = "write" /\ q.key = at[u].key /\ q.from = 0 /\ q.to = n /\ q.by = u
       /\ q.done = "no"
  BY <1>0 DEF Request
<1>11. q \in Transfers
  <2>1. n \in 0 .. PageSize /\ 0 \in 0 .. PageSize
    BY <1>6, UnitsAre
  <2> QED
    BY <1>0, <1>1, <2>1 DEF Request, Transfers
<1>12. io' = io \cup {q} /\ UNCHANGED <<old, dirties, writer, term>>
  BY <1>0 DEF WriteThru, writing
<1>13. counts' \in Tallies /\ counts'.dirty = counts.dirty
  <2>1. Unread(u, 0) \in Tallies /\ Unread(u, 0).dirty = counts.dirty
    BY UnreadIs
  <2>2. PICK t \in Tallies : t = Unread(u, 0)
    BY <2>1
  <2>3. counts' = [t EXCEPT !.wt = @ + 1]
    BY <2>2 DEF WriteThru
  <2> QED
    BY <2>1, <2>2, <2>3 DEF Tallies
<1>15. Starts(u, l, n, q)
  BY <1>1, <1>3, <1>9, <1>10, <1>11, <1>12, <1>14 DEF Starts
<1> QED
  BY <1>12, <1>13, <1>15, StartKeeps

-----------------------------------------------------------------------------
(* A request copies to its page, and notes that the page is dirty.          *)

LEMMA CopyIs ==
  ASSUME IInv, NEW u \in Users, Modify(u)
  PROVE  LET s == Span(at[u].range) IN
         /\ old' \in [Keys -> PageData]
         /\ \A k \in Keys : old'[k].mem \subseteq old[k].mem
         /\ \A k \in Keys \ {at[u].key} : old'[k] = old[k]
         /\ old'[at[u].key].disk = old[at[u].key].disk \cup s
         /\ old'[at[u].key].mem = old[at[u].key].mem \ s
<1> DEFINE s == Span(at[u].range)
<1>1. /\ at[u].pc \in {"modify", "mapped"}
      /\ at[u].key \in Keys /\ at[u].range \in Ranges
  BY Where DEF Modify, Local
<1>2. s \subseteq Units
  BY <1>1, UnitsAre
<1> HIDE DEF s
<1>3. PICK o \in PageData : o = old[at[u].key]
  BY <1>1 DEF IInv, Typed
<1> DEFINE p == [o EXCEPT !.mem = o.mem \ s, !.disk = o.disk \cup s]
<1>4. p \in PageData /\ p.mem = o.mem \ s /\ p.disk = o.disk \cup s
  BY <1>2 DEF PageData
<1>5. old' = [old EXCEPT ![at[u].key] = p]
  BY <1>1, <1>3 DEF Modify, IInv, Typed, s
<1> HIDE DEF p
<1>6. old \in [Keys -> PageData]
  BY DEF IInv, Typed
<1>7. /\ old' \in [Keys -> PageData] /\ old'[at[u].key] = p
      /\ \A k \in Keys \ {at[u].key} : old'[k] = old[k]
  BY <1>1, <1>4, <1>5, <1>6
<1>8. \A k \in Keys : old'[k].mem \subseteq old[k].mem
  BY <1>1, <1>3, <1>4, <1>7
<1> QED
  BY <1>3, <1>4, <1>7, <1>8 DEF s

LEMMA ModifyTyped ==
  ASSUME IInv, NEW u \in Users, Modify(u)
  PROVE  Typed'
<1>1. PICK pc \in {"thru", "mark"} : GoTo(u, pc)
  BY DEF Modify
<1> DEFINE l == [at[u] EXCEPT !.pc = pc]
<1>2. at[u] \in Places
  BY Where
<1>3. at' = [at EXCEPT ![u] = l]
  BY <1>1 DEF GoTo, IInv, Typed
<1>4. l \in Places
  BY <1>2 DEF Places, Labels
<1> HIDE DEF l
<1>5. UNCHANGED <<dcpage, io, dirties, writer, counts>>
  BY DEF Modify, writing
<1> QED
  BY <1>3, <1>4, <1>5, CopyIs, AtIs DEF IInv, Typed

LEMMA ModifyKeeps ==
  ASSUME IInv, NEW u \in Users, Modify(u), ~spoilt'
  PROVE  IInv'
<1>0. PICK pc \in {"thru", "mark"} :
        /\ GoTo(u, pc)
        /\ pc = "thru" => at[u].op \in Through \/ at[u].pc = "mapped"
        /\ pc = "mark" => at[u].op \in Writes \ Through
  BY DEF Modify
<1> DEFINE l == [at[u] EXCEPT !.pc = pc]
           s == Span(at[u].range)
<1>1. /\ at[u] \in Places /\ Local(at[u]) /\ at[u].pc \in {"modify", "mapped"}
      /\ at[u].key \in Keys /\ at[u].key # None /\ at[u].range \in Ranges
  BY Where DEF Modify, Local
<1>2. at' = [at EXCEPT ![u] = l]
  BY <1>0, <1>1 DEF GoTo, IInv, Typed
<1>3. /\ l.pc = pc /\ l.op = at[u].op /\ l.key = at[u].key /\ l.range = at[u].range
      /\ l.mode = at[u].mode /\ l.want = at[u].want /\ l.status = at[u].status /\ l.rd = at[u].rd
      /\ l \in Places
  BY <1>1 DEF Places, Labels
<1> HIDE DEF l
<1>4. Local(l)
  BY <1>0, <1>1, <1>3 DEF Local, Waits, Writes, Through
<1>5. at[u].status = "none"
  BY <1>1 DEF Local, Waits
<1>6. GoesTo(u, l)
  BY <1>2, <1>3, <1>4, <1>5 DEF GoesTo, Moves
<1>7. UNCHANGED <<dcpage, io, dirties, writer, term, counts>>
  BY DEF Modify, writing
<1>8. at'[u] = l /\ \A v \in Users \ {u} : at'[v] = at[v]
  BY <1>2, AtIs DEF IInv
<1>9. /\ old' \in [Keys -> PageData]
      /\ \A k \in Keys : old'[k].mem \subseteq old[k].mem
      /\ \A k \in Keys \ {at[u].key} : old'[k] = old[k]
      /\ old'[at[u].key].disk = old[at[u].key].disk \cup s
      /\ old'[at[u].key].mem = old[at[u].key].mem \ s
  BY CopyIs
<1> HIDE DEF s
<1>10. SameStates /\ SamePages /\ Grows
  BY <1>7, SameGrows DEF SamePages
<1>11. ValidAt(l, dcpage[l.key].valid)
  <2>1. ValidAt(at[u], dcpage[l.key].valid)
    BY <1>1, <1>3 DEF IInv, Valids, Pg
  <2>2. l.op \in Writes => at[u].pc = "modify"
    BY <1>1, <1>3 DEF Local, Writes
  <2>3. l.op = "pfmap" => at[u].pc = "mapped"
    BY <1>1, <1>3 DEF Local, Writes
  <2> QED
    BY <1>0, <1>3, <2>1, <2>2, <2>3 DEF ValidAt, Waits
<1>12. Typed'
  BY <1>2, <1>3, <1>7, <1>9, AtIs DEF IInv, Typed
<1>13. \A v \in Users : Local(at'[v])
  BY <1>2, <1>3, <1>4, LocalStays
<1>14. UserIo' /\ FlusherIo' /\ Queues'
  BY <1>6, <1>7, <1>10, UserIoStays, FlusherIoStays, QueuesStay
<1>15. Valids' /\ Terms'
  <2>1. at[u].pc # "out"
    BY <1>1
  <2>2. ValidAt(l, dcpage'[l.key].valid)
    BY <1>7, <1>11
  <2> QED
    BY <1>6, <1>7, <1>10, <2>1, <2>2, ValidsStay, TermsStay DEF GoesTo
<1>16. Locks' /\ Refs'
  <2>1. \A v \in Users : /\ at'[v].key = at[v].key /\ at'[v].mode = at[v].mode
                         /\ at'[v].pc = "keep" <=> at[v].pc = "keep"
    BY <1>0, <1>1, <1>3, <1>8
  <2> QED
    BY <1>7, <2>1, LocksStay, RefsStay
<1>17. \A k : Modifying(k) => Modifying(k)'
  <2>1. \A v \in Users : Modifies(v) => Modifies(v)'
    BY <1>0, <1>1, <1>3, <1>7, <1>8 DEF Modifies
  <2>2. \A v \in Users : at'[v].key = at[v].key
    BY <1>3, <1>8
  <2> QED
    BY <2>1, <2>2 DEF Modifying
<1>18. \A k : k = at[u].key => Modifying(k)'
  BY <1>0, <1>3, <1>8 DEF Modifying, Modifies
<1>19. ASSUME NEW k \in Keys PROVE MemIs(k)' /\ DiskIs(k)'
  <2>1. MemIs(k)'
    BY <1>7, <1>9 DEF IInv, Data, MemIs
  <2>2. \A x : Extends(k, x) => Extends(k, x)'
    BY <1>0, <1>1, <1>3, <1>8 DEF Extends
  <2>3. ASSUME NEW x \in old'[k].disk PROVE x < dcpage'[k].valid \/ Extends(k, x)'
    <3>1. CASE x \in old[k].disk
      BY <1>7, <2>2, <3>1 DEF IInv, Data, DiskIs
    <3>2. CASE x \notin old[k].disk
      <4>1. k = at[u].key /\ x \in Span(at[u].range)
        BY <1>9, <2>3, <3>2 DEF s
      <4> QED
        BY <1>0, <1>3, <1>8, <4>1 DEF Extends
    <3> QED
      BY <3>1, <3>2
  <2>4. Writing(k)' = Writing(k)
    BY <1>7, <1>10, WritingStays
  <2>5. Modifying(k)' \/ dcpage'[k].state \in {1, 3} \/ old'[k].disk \subseteq Writing(k)'
    <3>1. CASE k = at[u].key
      BY <1>18, <3>1
    <3>2. CASE k # at[u].key
      BY <1>7, <1>9, <1>17, <2>4, <3>2 DEF IInv, Data, DiskIs
    <3> QED
      BY <3>1, <3>2
  <2> QED
    BY <2>1, <2>3, <2>5 DEF DiskIs
<1>20. ReadIn'
  <2>1. \A k \in Keys : old[k].mem = {} => old'[k].mem = {}
    BY <1>9
  <2>2. \A r \in io : r.key \in Keys
    BY DEF IInv, Typed, Transfers
  <2>3. \A v \in Users : at[v].pc \in Waits => at[v].key \in Keys
    BY Where DEF Waits
  <2>4. \A v \in Users : at'[v].pc \in Waits => at'[v] = at[v]
    BY <1>3, <1>8 DEF Waits
  <2> QED
    BY <1>7, <2>1, <2>2, <2>3, <2>4 DEF IInv, Data, ReadIn
<1>21. Copied'
  <2> SUFFICES ASSUME NEW v \in Users, at'[v].pc \in {"thru", "mark"}, at'[v].op \in Writes,
                      NEW x \in old'[at'[v].key].mem
               PROVE  x \notin Span(at'[v].range)
    BY DEF Copied
  <2>1. CASE v = u
    <3>1. x \notin s
      BY <1>3, <1>8, <1>9, <2>1
    <3> QED
      BY <1>3, <1>8, <2>1, <3>1 DEF s
  <2>2. CASE v # u
    <3>1. at'[v] = at[v] /\ at[v].key \in Keys
      BY <1>8, <2>2, Where
    <3>2. x \in old[at[v].key].mem
      BY <1>9, <3>1
    <3> QED
      BY <3>1, <3>2 DEF IInv, Data, Copied
  <2> QED
    BY <2>1, <2>2
<1> QED
  BY <1>12, <1>13, <1>14, <1>15, <1>16, <1>19, <1>20, <1>21 DEF IInv, Data

(* mark_page_dirty with the queue locked *)
LEMMA MarkKeeps ==
  ASSUME IInv, NEW u \in Users, Mark(u)
  PROVE  IInv'
<1>1. /\ at[u] \in Places /\ Local(at[u]) /\ at[u].pc = "switch"
      /\ at[u].key \in Keys /\ at[u].key # None /\ Pg(u) \in CachePages
  BY Where DEF Mark, Pg
<1>0. PICK k \in Keys, s \in 0 .. 3, t \in 0 .. 3, pc \in {"keep", "unmark"}, b \in {0, 1} :
        /\ k = at[u].key /\ s = dcpage[k].state
        /\ t = CASE s = 0 -> 1 [] s = 2 -> 3 [] OTHER -> s
        /\ pc = IF s \in {0, 2} THEN "keep" ELSE "unmark"
        /\ b = IF s = 0 THEN 1 ELSE 0
  <2>1. dcpage[at[u].key].state \in 0 .. 3
    BY <1>1 DEF Pg, CachePages
  <2>2. PICK s \in 0 .. 3 : s = dcpage[at[u].key].state
    BY <2>1
  <2>3. (CASE s = 0 -> 1 [] s = 2 -> 3 [] OTHER -> s) \in 0 .. 3
    OBVIOUS
  <2> QED
    BY <1>1, <2>2, <2>3
<1> DEFINE l == [at[u] EXCEPT !.pc = pc]
           p == [Pg(u) EXCEPT !.state = t]
<1>2. at' = [at EXCEPT ![u] = l] /\ dcpage' = [dcpage EXCEPT ![k] = p]
  <2>1. /\ at' = [at EXCEPT ![u].pc = pc]
        /\ dcpage' = [dcpage EXCEPT ![k].state = t]
    BY <1>0 DEF Mark, GoTo
  <2> QED
    BY <1>0, <1>1, <2>1 DEF IInv, Typed, Pg
<1>3. /\ l.pc = pc /\ l.op = at[u].op /\ l.key = k /\ l.range = at[u].range
      /\ l.mode = at[u].mode /\ l.want = at[u].want /\ l.status = at[u].status /\ l.rd = at[u].rd
      /\ l \in Places
  BY <1>0, <1>1 DEF Places, Labels
<1>4. /\ p \in CachePages /\ p.lock = Pg(u).lock
      /\ p.refs = Pg(u).refs /\ p.valid = Pg(u).valid /\ p.state = t
  BY <1>1 DEF CachePages
<1> HIDE DEF l, p
<1>5. Local(l)
  BY <1>0, <1>1, <1>3 DEF Local, Waits
<1>6. at[u].status = "none"
  BY <1>1 DEF Local, Waits
<1>7. GoesTo(u, l)
  BY <1>2, <1>3, <1>5, <1>6 DEF GoesTo, Moves
<1>8. at'[u] = l /\ \A v \in Users \ {u} : at'[v] = at[v]
  BY <1>2, AtIs DEF IInv
<1>9. /\ dcpage'[k] = p /\ (\A j \in Keys \ {k} : dcpage'[j] = dcpage[j])
      /\ dcpage' \in [Keys -> CachePages]
  BY <1>2, <1>4, PageIs DEF IInv
<1>10. \A j \in Keys : /\ dcpage'[j].valid = dcpage[j].valid /\ dcpage'[j].lock = dcpage[j].lock
                       /\ dcpage'[j].refs = dcpage[j].refs
  BY <1>0, <1>4, <1>9 DEF Pg
<1>11. Grows
  <2>1. \A j \in Keys : dcpage[j].valid \in 0 .. PageSize
    BY DEF IInv, Typed, CachePages
  <2> QED
    BY <1>10, <2>1, UnitsAre DEF IInv, Valids, Grows
<1>12. /\ dcpage'[k].state = t /\ \A j \in Keys \ {k} : dcpage'[j].state = dcpage[j].state
       /\ t # 0 /\ (s = 0 => t = 1) /\ (s = 2 => t = 3) /\ (s \notin {0, 2} => t = s)
  BY <1>0, <1>4, <1>9
<1>13. UNCHANGED <<io, old, writer, term>>
  BY DEF Mark
<1>14. /\ dirties' = IF s = 0 THEN Append(dirties, k) ELSE dirties
       /\ counts' = [counts EXCEPT !.dirty = @ + b]
  BY <1>0 DEF Mark
<1>15. counts' \in Tallies /\ counts'.dirty = counts.dirty + b /\ b \in Int /\ counts.dirty \in Int
  <2>1. b \in Int /\ counts \in Tallies
    BY <1>0 DEF IInv, Typed
  <2> QED
    BY <1>14, <2>1 DEF Tallies
<1>16. Typed'
  <2>1. dirties' \in Seq(Keys)
    BY <1>14 DEF IInv, Typed
  <2> QED
    BY <1>2, <1>3, <1>9, <1>13, <1>15, <2>1, AtIs DEF IInv, Typed
<1>17. \A v \in Users : Local(at'[v])
  BY <1>2, <1>3, <1>5, LocalStays
<1>18. UserIo'
  <2>1. \A r \in io : r.key \in Keys
    BY DEF IInv, Typed, Transfers
  <2> QED
    BY <1>7, <1>10, <1>13, <2>1, UserIoStays
<1>19. FlusherIo'
  <2>1. \A r \in io : r.key \in Keys
    BY DEF IInv, Typed, Transfers
  <2>2. \A r \in io : Active(r) => dcpage'[r.key].state \in {2, 3}
    <3> SUFFICES ASSUME NEW r \in io, Active(r) PROVE dcpage'[r.key].state \in {2, 3}
      OBVIOUS
    <3>1. dcpage[r.key].state \in {2, 3}
      BY DEF IInv, FlusherIo
    <3> QED
      BY <1>0, <1>12, <2>1, <3>1
  <2> QED
    BY <1>10, <1>13, <2>1, <2>2 DEF IInv, FlusherIo, Active, Over, AtIssue
<1>20. Locks'
  BY <1>0, <1>3, <1>8, <1>10, LocksStay
<1>21. Valids'
  <2>1. ValidAt(l, dcpage'[l.key].valid)
    BY <1>0, <1>3 DEF ValidAt, Waits
  <2> QED
    BY <1>7, <1>11, <2>1, ValidsStay DEF GoesTo
<1>22. /\ ReadIn' /\ Copied'
  BY <1>0, <1>3, <1>8, <1>13 DEF IInv, Data, ReadIn, Copied, Waits
<1>23. ASSUME NEW j \in Keys PROVE MemIs(j)' /\ DiskIs(j)'
  <2>1. MemIs(j)'
    BY <1>10, <1>13 DEF IInv, Data, MemIs
  <2>2. \A x : Extends(j, x) => Extends(j, x)'
    BY <1>1, <1>8 DEF Extends
  <2>3. \A x \in old'[j].disk : x < dcpage'[j].valid \/ Extends(j, x)'
    BY <1>10, <1>13, <2>2 DEF IInv, Data, DiskIs
  <2>4. CASE j = k
    BY <1>0, <1>12, <2>1, <2>3, <2>4 DEF DiskIs
  <2>5. CASE j # k
    <3>1. Modifying(j) => Modifying(j)'
      <4> SUFFICES ASSUME NEW v \in Users, at[v].key = j, Modifies(v)
                   PROVE  at'[v].key = j /\ Modifies(v)'
        BY DEF Modifying
      <4>1. v # u
        BY <1>0, <2>5
      <4> QED
        BY <1>8, <1>13, <4>1 DEF Modifies
    <3>2. Writing(j)' = Writing(j)
      BY <1>10, <1>13 DEF Writing
    <3> QED
      BY <1>12, <1>13, <2>1, <2>3, <2>5, <3>1, <3>2 DEF IInv, Data, DiskIs
  <2> QED
    BY <2>4, <2>5
<1>24. Queues'
  <2>1. Queued(k) <=> s = 1
    BY <1>0 DEF IInv, Queues
  <2>2. CASE s = 0
    <3>1. k \notin Range(dirties) /\ k \notin Range(writer.batch)
      <4>1. dcpage[k].state = 0 /\ k \in Keys
        BY <1>0, <2>2
      <4>2. ~Queued(k) /\ ~AtIssue(k)
        BY <4>1 DEF IInv, Queues
      <4> QED
        BY <4>2 DEF Queued, AtIssue
    <3>2. dirties \in Seq(Keys) /\ dirties' = Append(dirties, k)
      BY <1>14, <2>2 DEF IInv, Typed
    <3>3. Range(Append(dirties, k)) = Range(dirties) \cup {k} /\ Once(Append(dirties, k))
      <4>1. \A i, j \in 1 .. Len(dirties) : dirties[i] = dirties[j] => i = j
        BY DEF IInv, Queues, Once
      <4> QED
        BY <3>1, <3>2, <4>1, AppendOnce DEF Once
    <3>4. Range(dirties') = Range(dirties) \cup {k} /\ Once(dirties')
      BY <3>2, <3>3
    <3>5. \A j \in Keys : Queued(j)' <=> Queued(j) \/ j = k
      BY <1>13, <3>1, <3>4 DEF Queued
    <3>6. \A j \in Keys : Queued(j)' <=> dcpage'[j].state = 1
      <4>1. dcpage'[k].state = 1 /\ \A j \in Keys \ {k} : dcpage'[j].state = dcpage[j].state
        BY <1>12, <2>2
      <4> QED
        BY <3>5, <4>1 DEF IInv, Queues
    <3>7. \A j \in Keys : AtIssue(j)' => dcpage'[j].state \in {2, 3}
      <4>1. ~AtIssue(k)
        <5>1. dcpage[k].state = 0 /\ k \in Keys
          BY <1>0, <2>2
        <5> QED
          BY <5>1 DEF IInv, Queues
      <4> QED
        BY <1>12, <1>13, <4>1 DEF IInv, Queues, AtIssue
    <3> QED
      BY <1>13, <3>1, <3>4, <3>6, <3>7 DEF IInv, Queues, Once
  <2>3. CASE s # 0
    <3>1. dirties' = dirties
      BY <1>14, <2>3
    <3>2. \A j \in Keys : Queued(j)' <=> Queued(j)
      BY <1>13, <3>1 DEF Queued
    <3>3. \A j \in Keys : Queued(j)' <=> dcpage'[j].state = 1
      BY <1>0, <1>12, <2>3, <3>2 DEF IInv, Queues
    <3>4. \A j \in Keys : AtIssue(j)' => dcpage'[j].state \in {2, 3}
      BY <1>0, <1>12, <1>13, <2>3 DEF IInv, Queues, AtIssue
    <3> QED
      BY <1>13, <3>1, <3>3, <3>4 DEF IInv, Queues, Once
  <2> QED
    BY <2>2, <2>3
<1>25. Refs'
  <2>1. ASSUME NEW j \in Keys PROVE dcpage'[j].refs >= Referenced(j)'
    <3>1. Dropping(j)' = Dropping(j)
      BY <1>13 DEF Dropping
    <3>2. dcpage[j].refs >= Cardinality(Using(j)) + (IF dcpage[j].state # 0 THEN 1 ELSE 0)
                              + Cardinality(Dropping(j))
      BY ReferencedIs DEF IInv, Refs
    <3>3. Referenced(j)' = Cardinality(Using(j)') + (IF dcpage'[j].state # 0 THEN 1 ELSE 0)
                             + Cardinality(Dropping(j))
      BY <3>1 DEF Referenced, Using, Dropping
    <3>4. /\ Cardinality(Using(j)) \in Nat /\ Cardinality(Dropping(j)) \in Nat /\ dcpage[j].refs \in Int
          /\ dcpage'[j].refs = dcpage[j].refs /\ IsFiniteSet(Using(j))
      BY <1>10, Finite DEF IInv, Typed, CachePages
    <3>5. CASE j = k /\ pc = "keep"
      <4>1. Using(j)' = Using(j) \ {u} /\ u \in Using(j)
        BY <1>0, <1>1, <1>3, <1>8, <3>5 DEF Using
      <4>2. Cardinality(Using(j)') = Cardinality(Using(j)) - 1
        <5>1. PICK S : S = Using(j)'
          OBVIOUS
        <5> QED
          BY <3>4, <4>1, <5>1, OneLess
      <4> QED
        BY <3>2, <3>3, <3>4, <4>2
    <3>6. CASE ~(j = k /\ pc = "keep")
      <4>1. Using(j)' = Using(j)
        BY <1>0, <1>1, <1>3, <1>8, <3>6 DEF Using
      <4>2. dcpage'[j].state # 0 <=> dcpage[j].state # 0
        BY <1>0, <1>12, <3>6
      <4> QED
        BY <3>2, <3>3, <3>4, <4>1, <4>2
    <3> QED
      BY <3>5, <3>6
  <2> QED
    BY <2>1 DEF Refs
<1>26. Terms'
  <2>1. term = "no" /\ writer.by # "term"
    BY <1>1 DEF IInv, Terms
  <2>2. counts.dirty = Cardinality(Dirty) + Cardinality({r \in io : Over(r)})
    BY DEF IInv, Terms
  <2>3. IsFiniteSet(Dirty) /\ Cardinality(Dirty) \in Nat /\ Cardinality({r \in io : Over(r)}) \in Nat
    BY Finite DEF IInv
  <2>4. Cardinality(Dirty') = Cardinality(Dirty) + b
    <3>1. CASE s = 0
      <4>1. Dirty' = Dirty \cup {k} /\ k \notin Dirty
        BY <1>0, <1>12, <3>1 DEF Dirty
      <4>2. PICK S : S = Dirty'
        OBVIOUS
      <4> QED
        BY <1>0, <2>3, <3>1, <4>1, <4>2, OneMore
    <3>2. CASE s # 0
      <4>1. Dirty' = Dirty
        BY <1>0, <1>12, <3>2 DEF Dirty
      <4> QED
        BY <1>0, <2>3, <3>2, <4>1
    <3> QED
      BY <3>1, <3>2
  <2>5. counts'.dirty = Cardinality(Dirty') + Cardinality({r \in io : Over(r)})
    BY <1>15, <2>2, <2>3, <2>4
  <2> QED
    BY <1>13, <2>1, <2>5 DEF Terms, Over
<1> QED
  BY <1>16, <1>17, <1>18, <1>19, <1>20, <1>21, <1>22, <1>23, <1>24, <1>25, <1>26 DEF IInv, Data

-----------------------------------------------------------------------------
(* The steps of the flush timer, of spread_timer and of oz_knl_dcache_term  *)

(* A step that at most moves pages from the queue to the writer's batch.    *)
LEMMA QuietKeeps ==
  ASSUME IInv, UNCHANGED <<dcpage, old, counts, io, at>>,
         writer' \in Writers, dirties' \in Seq(Keys),
         \A k : AtIssue(k)' <=> AtIssue(k), Queues',
         writer'.by = "term" => term' # "no",
         term' # "no" => \A u \in Users : at[u].pc = "out",
         term' = "freed" => counts.dirty = 0
  PROVE  IInv'
<1>1. Typed' /\ \A u \in Users : Local(at'[u])
  BY DEF IInv, Typed
<1>2. UserIo' /\ FlusherIo'
  BY DEF IInv, UserIo, FlusherIo, Active, Over
<1>3. Locks' /\ Valids'
  BY DEF IInv, Locks, LockIs, HeldBy, OneWriter, Valids, Pg
<1>4. Refs'
  BY DEF IInv, Refs, Referenced
<1>5. \A k : Writing(k)' = Writing(k)
  BY DEF Writing, AtIssue
<1>6. \A k : (Modifying(k)' <=> Modifying(k)) /\ \A x : Extends(k, x)' <=> Extends(k, x)
  BY DEF Modifying, Modifies, Extends
<1>7. Data'
  BY <1>5, <1>6 DEF IInv, Data, MemIs, DiskIs, ReadIn, Copied
<1>8. Terms'
  BY DEF IInv, Terms, Dirty, Over
<1> QED
  BY <1>1, <1>2, <1>3, <1>4, <1>7, <1>8 DEF IInv

LEMMA QueuesAlike ==
  ASSUME IInv, dcpage' = dcpage, dirties' = dirties, writer'.batch = writer.batch,
         \A k : AtIssue(k)' <=> AtIssue(k),
         writer'.batch = <<>> <=> writer'.pc \in {"free", "take"}
  PROVE  Queues'
<1>1. \A k : Queued(k)' <=> Queued(k)
  BY DEF Queued, AtIssue
<1> QED
  BY <1>1 DEF IInv, Queues, Once

LEMMA EmptyWriter ==
  ASSUME NEW pc \in {"free", "take"}, NEW by \in {"none", "flush", "spread", "term"}
  PROVE  [pc |-> pc, by |-> by, batch |-> <<>>] \in Writers
  BY DEF Writers

LEMMA FlushTickKeeps ==
  ASSUME IInv, FlushTick
  PROVE  IInv'
<1>1. UNCHANGED <<dcpage, old, counts, io, at, dirties, term>>
  BY DEF FlushTick, data
<1>2. writer' = writer \/ (writer.pc = "free" /\ writer' = [pc |-> "take", by |-> "flush", batch |-> <<>>])
  BY DEF FlushTick
<1>3. writer \in Writers /\ (writer.batch = <<>> <=> writer.pc \in {"free", "take"})
  BY DEF IInv, Typed, Queues
<1>4. writer' \in Writers
  BY <1>2, <1>3, EmptyWriter
<1>5. /\ writer'.batch = writer.batch /\ (writer'.batch = <<>> <=> writer'.pc \in {"free", "take"})
      /\ writer'.by = "term" => writer'.by = writer.by
  BY <1>2, <1>3
<1>6. \A k : AtIssue(k)' <=> AtIssue(k)
  BY <1>2, <1>3 DEF AtIssue
<1>7. Queues'
  BY <1>1, <1>5, <1>6, QueuesAlike
<1>8. dirties' \in Seq(Keys)
  BY <1>1 DEF IInv, Typed
<1> QED
  BY <1>1, <1>4, <1>5, <1>6, <1>7, <1>8, QuietKeeps DEF IInv, Terms

LEMMA SpreadTickKeeps ==
  ASSUME IInv, SpreadTick
  PROVE  IInv'
<1>1. UNCHANGED <<dcpage, old, counts, io, at, dirties, term>>
  BY DEF SpreadTick, data
<1>2. writer.pc = "spread" /\ writer' = [writer EXCEPT !.pc = "state"]
  BY DEF SpreadTick
<1>3. writer \in Writers /\ (writer.batch = <<>> <=> writer.pc \in {"free", "take"})
  BY DEF IInv, Typed, Queues
<1>4. /\ writer' \in Writers /\ writer'.pc = "state" /\ writer'.by = writer.by
      /\ writer'.batch = writer.batch
  BY <1>2, <1>3 DEF Writers
<1>6. \A k : AtIssue(k)' <=> AtIssue(k)
  BY <1>2, <1>4 DEF AtIssue
<1>7. Queues'
  BY <1>1, <1>2, <1>3, <1>4, <1>6, QueuesAlike
<1>8. dirties' \in Seq(Keys)
  BY <1>1 DEF IInv, Typed
<1> QED
  BY <1>1, <1>4, <1>6, <1>7, <1>8, QuietKeeps DEF IInv, Terms

(* The term steps but TermStart and TermWrite leave the writer alone.       *)
LEMMA TermStepKeeps ==
  ASSUME IInv, UNCHANGED <<dcpage, old, counts, io, at, dirties, writer>>,
         term' # "no", term # "no", term' = "freed" => counts.dirty = 0
  PROVE  IInv'
<1>1. Queues'
  BY DEF IInv, Queues, Once, Queued, AtIssue
<1>2. writer' \in Writers /\ dirties' \in Seq(Keys) /\ \A k : AtIssue(k)' <=> AtIssue(k)
  BY DEF IInv, Typed, AtIssue
<1> QED
  BY <1>1, <1>2, QuietKeeps DEF IInv, Terms

LEMMA TermStartKeeps ==
  ASSUME IInv, TermStart
  PROVE  IInv'
<1>0. /\ UNCHANGED <<dcpage, old, counts, io, at, dirties, writer>>
      /\ term' = "timer" /\ \A u \in Users : at[u].pc = "out"
  BY DEF TermStart, data, writing
<1>1. Queues'
  BY <1>0 DEF IInv, Queues, Once, Queued, AtIssue
<1>2. writer' \in Writers /\ dirties' \in Seq(Keys) /\ \A k : AtIssue(k)' <=> AtIssue(k)
  BY <1>0 DEF IInv, Typed, AtIssue
<1> QED
  BY <1>0, <1>1, <1>2, QuietKeeps DEF IInv, Terms

LEMMA TermWriteKeeps ==
  ASSUME IInv, TermWrite
  PROVE  IInv'
<1>1. /\ UNCHANGED <<dcpage, old, counts, io, at, dirties>> /\ term # "no"
      /\ term' \notin {"no", "freed"}
  BY DEF TermWrite, data
<1>2. writer' = writer \/ (writer.pc = "free" /\ writer' = [pc |-> "take", by |-> "term", batch |-> <<>>])
  BY DEF TermWrite
<1>3. writer \in Writers /\ (writer.batch = <<>> <=> writer.pc \in {"free", "take"})
  BY DEF IInv, Typed, Queues
<1>4. writer' \in Writers
  BY <1>2, <1>3, EmptyWriter
<1>5. writer'.batch = writer.batch /\ (writer'.batch = <<>> <=> writer'.pc \in {"free", "take"})
  BY <1>2, <1>3
<1>6. \A k : AtIssue(k)' <=> AtIssue(k)
  BY <1>2, <1>3 DEF AtIssue
<1>7. Queues'
  BY <1>1, <1>5, <1>6, QueuesAlike
<1>8. dirties' \in Seq(Keys)
  BY <1>1 DEF IInv, Typed
<1> QED
  BY <1>1, <1>4, <1>6, <1>7, <1>8, QuietKeeps DEF IInv, Terms

LEMMA TermKeeps ==
  ASSUME IInv, Term
  PROVE  IInv'
<1>1. CASE TermWrite
  BY <1>1, TermWriteKeeps
<1>2. CASE TermTimer \/ TermWait \/ TermLink \/ TermWoken \/ TermTest
  <2>1. UNCHANGED <<dcpage, old, counts, io, at, dirties, writer>>
    BY <1>2 DEF TermTimer, TermWait, TermLink, TermWoken, TermTest, data, writing
  <2>2. term # "no" /\ term' # "no"
    BY <1>2 DEF TermTimer, TermWait, TermLink, TermWoken, TermTest
  <2>3. term' = "freed" => counts.dirty = 0
    BY <1>2 DEF TermTimer, TermWait, TermLink, TermWoken, TermTest
  <2> QED
    BY <2>1, <2>2, <2>3, TermStepKeeps
<1> QED
  BY <1>1, <1>2 DEF Term

(* What startwriting takes off the queue *)
LEMMA TakeSplits ==
  ASSUME NEW s \in Seq(Keys), Once(s), NEW n \in 1 .. Len(s), NEW b \in InKeyOrder(SubSeq(s, 1, n))
  PROVE  /\ b \in Seq(Keys) /\ b # <<>> /\ Once(b)
         /\ SubSeq(s, n + 1, Len(s)) \in Seq(Keys) /\ Once(SubSeq(s, n + 1, Len(s)))
         /\ Range(b) \cap Range(SubSeq(s, n + 1, Len(s))) = {}
         /\ Range(s) = Range(b) \cup Range(SubSeq(s, n + 1, Len(s)))
<1> DEFINE p == SubSeq(s, 1, n)
           q == SubSeq(s, n + 1, Len(s))
<1>1. /\ p \in Seq(Keys) /\ Len(p) = n /\ \A i \in 1 .. n : p[i] = s[i]
      /\ q \in Seq(Keys) /\ Len(q) = Len(s) - n /\ \A i \in 1 .. Len(s) - n : q[i] = s[n + i]
      /\ Len(s) \in Nat /\ n \in Nat /\ n >= 1 /\ n <= Len(s)
  OBVIOUS
<1> HIDE DEF p, q
<1>2. DOMAIN p = 1 .. n
  BY <1>1
<1>3. Range(p) = {s[i] : i \in 1 .. n} /\ Range(q) = {s[n + i] : i \in 1 .. Len(s) - n}
      /\ Range(s) = {s[i] : i \in 1 .. Len(s)} /\ Range(p) \subseteq Keys
  <2>1. \A t \in Seq(Keys) : Range(t) = {t[i] : i \in 1 .. Len(t)} /\ Range(t) \subseteq Keys
    BY DEF Range
  <2>2. Range(p) = {p[i] : i \in 1 .. n} /\ Range(p) \subseteq Keys
    BY <1>1, <2>1
  <2>3. Range(q) = {q[i] : i \in 1 .. Len(s) - n}
    BY <1>1, <2>1
  <2>4. Range(s) = {s[i] : i \in 1 .. Len(s)}
    BY <2>1
  <2>5. Range(p) = {s[i] : i \in 1 .. n}
    BY <1>1, <2>2
  <2>6. Range(q) = {s[n + i] : i \in 1 .. Len(s) - n}
    <3>1. \A i \in 1 .. Len(s) - n : q[i] = s[n + i]
      BY <1>1
    <3>2. \A x \in {q[i] : i \in 1 .. Len(s) - n} : x \in {s[n + i] : i \in 1 .. Len(s) - n}
      BY <3>1, Zenon
    <3>3. \A x \in {s[n + i] : i \in 1 .. Len(s) - n} : x \in {q[i] : i \in 1 .. Len(s) - n}
      BY <3>1, Zenon
    <3> QED
      BY <2>3, <3>2, <3>3, Zenon
  <2> QED
    BY <2>2, <2>4, <2>5, <2>6
<1>4. /\ b \in [1 .. n -> Range(p)] /\ Range(b) = Range(p)
      /\ \A i, j \in 1 .. n : i < j => b[i] < b[j]
  <2>1. b \in InKeyOrder(p)
    BY DEF p
  <2> QED
    <3>1. /\ b \in [DOMAIN p -> Range(p)] /\ Range(b) = Range(p)
          /\ \A i, j \in DOMAIN p : i < j => b[i] < b[j]
      BY <2>1 DEF InKeyOrder
    <3>2. /\ b \in [1 .. n -> Range(p)] /\ \A i, j \in 1 .. n : i < j => b[i] < b[j]
      BY <1>2, <3>1, Zenon
    <3> QED
      BY <3>1, <3>2
<1>5. b \in Seq(Keys) /\ Len(b) = n
  <2>1. b \in [1 .. n -> Keys] /\ n \in Nat
    BY <1>1, <1>3, <1>4
  <2> QED
    BY <2>1
<1>6. b # <<>>
  BY <1>1, <1>5
<1>7. Once(b)
  <2>1. \A i \in 1 .. n : b[i] \in Int
    BY <1>3, <1>4, KeysAssumption
  <2>2. \A i, j \in 1 .. n : b[i] = b[j] => i = j
    BY <1>1, <1>4, <2>1
  <2> QED
    BY <1>5, <2>2 DEF Once
<1>8. Once(q)
  <2>1. ASSUME NEW i \in 1 .. Len(q), NEW j \in 1 .. Len(q), q[i] = q[j] PROVE i = j
    <3>1. s[n + i] = s[n + j] /\ n + i \in 1 .. Len(s) /\ n + j \in 1 .. Len(s) /\ i \in Int /\ j \in Int
      BY <1>1, <2>1
    <3>2. n + i = n + j
      BY <3>1 DEF Once
    <3> QED
      BY <1>1, <3>1, <3>2
  <2> QED
    BY <2>1 DEF Once
<1>9. Range(p) \cap Range(q) = {}
  <2> SUFFICES ASSUME NEW i \in 1 .. n, NEW j \in 1 .. Len(s) - n, s[i] = s[n + j]
               PROVE  FALSE
    BY <1>3
  <2>1. i \in 1 .. Len(s) /\ n + j \in 1 .. Len(s) /\ i # n + j
    BY <1>1
  <2> QED
    BY <2>1 DEF Once
<1>10. Range(s) = Range(p) \cup Range(q)
  <2>1. ASSUME NEW i \in 1 .. Len(s) PROVE s[i] \in Range(p) \cup Range(q)
    <3>1. CASE i <= n
      <4>1. i \in 1 .. n
        BY <1>1, <3>1
      <4> QED
        BY <1>3, <4>1
    <3>2. CASE i > n
      <4>1. i - n \in 1 .. Len(s) - n /\ n + (i - n) = i
        BY <1>1, <3>2
      <4> QED
        BY <1>3, <4>1
    <3> QED
      BY <1>1, <3>1, <3>2
  <2>2. \A i \in 1 .. n : i \in 1 .. Len(s)
    BY <1>1
  <2>3. \A i \in 1 .. Len(s) - n : n + i \in 1 .. Len(s)
    BY <1>1
  <2> QED
    BY <1>3, <2>1, <2>2, <2>3
<1> QED
  BY <1>1, <1>4, <1>5, <1>6, <1>7, <1>8, <1>9, <1>10 DEF q

LEMMA TakeKeeps ==
  ASSUME IInv, Take
  PROVE  IInv'
<1>1. UNCHANGED <<dcpage, old, counts, io, at>> /\ writer.pc = "take"
  BY DEF Take, data
<1>2. /\ writer \in Writers /\ (writer.batch = <<>> <=> writer.pc \in {"free", "take"})
      /\ dirties \in Seq(Keys) /\ Once(dirties)
  BY DEF IInv, Typed, Queues
<1>3. term' # term => writer.by = "term" /\ term' \in {"test", "wait"}
  BY DEF Take, Return
<1>4. writer'.by = "term" => writer.by = "term"
  <2>1. writer' = Free \/ \E b : writer' = [writer EXCEPT !.pc = "state", !.batch = b]
    BY DEF Take
  <2>2. CASE writer' = Free
    BY <2>2 DEF Free
  <2>3. CASE \E b : writer' = [writer EXCEPT !.pc = "state", !.batch = b]
    BY <1>2, <2>3 DEF Writers
  <2> QED
    BY <2>1, <2>2, <2>3
<1>5. /\ writer'.by = "term" => term' # "no"
      /\ term' # "no" => \A u \in Users : at[u].pc = "out"
      /\ term' = "freed" => counts.dirty = 0
  BY <1>3, <1>4 DEF IInv, Terms
<1>6. writer' \in Writers /\ dirties' \in Seq(Keys) /\ Queues' /\ \A k : ~AtIssue(k) /\ ~AtIssue(k)'
  <2>1. CASE dirties = <<>>
    <3>1. writer' = Free /\ dirties' = dirties
      BY <2>1 DEF Take
    <3>2. writer' \in Writers /\ writer'.batch = <<>> /\ writer'.pc = "free"
      BY <3>1, EmptyWriter DEF Free
    <3>3. \A k : ~AtIssue(k) /\ ~AtIssue(k)'
      BY <1>1, <3>2 DEF AtIssue
    <3> QED
      BY <1>1, <1>2, <3>1, <3>2, <3>3, QueuesAlike
  <2>2. CASE dirties # <<>>
    <3>1. PICK n \in Min({MinRate, Len(dirties)}) .. Len(dirties) :
            /\ \E b \in InKeyOrder(SubSeq(dirties, 1, n)) :
                 writer' = [writer EXCEPT !.pc = "state", !.batch = b]
            /\ dirties' = SubSeq(dirties, n + 1, Len(dirties))
      BY <2>2 DEF Take
    <3>2. n \in 1 .. Len(dirties)
      <4>1. Len(dirties) \in Nat /\ Len(dirties) >= 1 /\ MinRate \in Nat /\ MinRate >= 1
        BY <1>2, <2>2 DEF MinRate
      <4>2. Min({MinRate, Len(dirties)}) \in {MinRate, Len(dirties)}
        BY <4>1 DEF Min
      <4> QED
        BY <3>1, <4>1, <4>2
    <3>3. PICK b \in InKeyOrder(SubSeq(dirties, 1, n)) :
            writer' = [writer EXCEPT !.pc = "state", !.batch = b]
      BY <3>1
    <3>4. /\ b \in Seq(Keys) /\ b # <<>> /\ Once(b)
          /\ dirties' \in Seq(Keys) /\ Once(dirties')
          /\ Range(b) \cap Range(dirties') = {}
          /\ Range(dirties) = Range(b) \cup Range(dirties')
      BY <1>2, <3>1, <3>2, TakeSplits
    <3>5. /\ writer' \in Writers /\ writer'.pc = "state" /\ writer'.batch = b
      BY <1>2, <3>3, <3>4 DEF Writers
    <3>6. \A k : ~AtIssue(k) /\ ~AtIssue(k)'
      BY <1>1, <3>5 DEF AtIssue
    <3>7. writer.batch = <<>>
      BY <1>1, <1>2
    <3>8. \A k : Queued(k)' <=> Queued(k)
      <4>1. Range(writer.batch) = {}
        BY <3>7 DEF Range
      <4> QED
        BY <1>1, <3>4, <3>5, <4>1 DEF Queued
    <3>9. \A k \in Keys : Queued(k)' <=> dcpage'[k].state = 1
      BY <1>1, <3>8 DEF IInv, Queues
    <3>10. Queues'
      BY <3>4, <3>5, <3>6, <3>9 DEF Queues, Once
    <3> QED
      BY <3>4, <3>5, <3>6, <3>10
  <2> QED
    BY <2>1, <2>2
<1>7. \A k : AtIssue(k)' <=> AtIssue(k)
  BY <1>6
<1> QED
  BY <1>1, <1>5, <1>6, <1>7, QuietKeeps

-----------------------------------------------------------------------------
(* The page cache takes a page that nobody uses.                            *)
LEMMA ReclaimKeeps ==
  ASSUME IInv, NEW k \in Keys, Reclaim(k)
  PROVE  Typed' /\ (~spoilt' => IInv')
<1>1. /\ dcpage[k].refs = 0 /\ UNCHANGED <<counts, io, at, dirties, writer, term>>
      /\ dcpage' = [dcpage EXCEPT ![k] = NoPage] /\ old' = [old EXCEPT ![k].mem = Units]
  BY DEF Reclaim, writing
<1>2. dcpage[k].state = 0 /\ Using(k) = {} /\ Dropping(k) = {}
  <2>1. 0 >= Cardinality(Using(k)) + (IF dcpage[k].state # 0 THEN 1 ELSE 0) + Cardinality(Dropping(k))
    BY <1>1, ReferencedIs DEF IInv, Refs
  <2>2. /\ IsFiniteSet(Using(k)) /\ Cardinality(Using(k)) \in Nat
        /\ IsFiniteSet(Dropping(k)) /\ Cardinality(Dropping(k)) \in Nat
    BY Finite DEF IInv
  <2>3. dcpage[k].state = 0 /\ Cardinality(Using(k)) = 0 /\ Cardinality(Dropping(k)) = 0
    BY <2>1, <2>2
  <2> QED
    BY <2>2, <2>3, FS_EmptySet
<1>4. /\ NoPage \in CachePages /\ NoPage.refs = 0 /\ NoPage.lock = 0 /\ NoPage.valid = 0
      /\ NoPage.state = 0
  BY UnitsAre DEF NoPage, CachePages
<1>5. /\ dcpage'[k] = NoPage /\ (\A j \in Keys \ {k} : dcpage'[j] = dcpage[j])
      /\ dcpage' \in [Keys -> CachePages]
  BY <1>1, <1>4, PageIs DEF IInv
<1>6. /\ old' \in [Keys -> PageData] /\ (\A j \in Keys \ {k} : old'[j] = old[j])
      /\ old'[k].mem = Units /\ old'[k].disk = old[k].disk
  <2>1. PICK o \in PageData : o = old[k]
    BY DEF IInv, Typed
  <2> DEFINE p == [o EXCEPT !.mem = Units]
  <2>2. p \in PageData /\ p.mem = Units /\ p.disk = o.disk
    BY DEF PageData
  <2>3. old' = [old EXCEPT ![k] = p]
    BY <1>1, <2>1 DEF IInv, Typed
  <2> HIDE DEF p
  <2> QED
    BY <2>1, <2>2, <2>3 DEF IInv, Typed
<1>7. Typed' /\ \A u \in Users : Local(at'[u])
  BY <1>1, <1>5, <1>6 DEF IInv, Typed
<1> SUFFICES ASSUME ~spoilt' PROVE IInv'
  BY <1>7
<1>3. \A u \in Users : at[u].key # k
  <2> SUFFICES ASSUME NEW u \in Users, at[u].key = k PROVE FALSE
    OBVIOUS
  <2>1. at[u].pc = "keep"
    BY <1>2 DEF Using
  <2> QED
    BY <2>1 DEF Reclaim
<1>8. \A r \in io : r.by \in Users => r.key \in Keys /\ r.key # k
  BY <1>3 DEF IInv, UserIo, Typed, Transfers
<1>9. \A r \in io : Active(r) => r.key \in Keys /\ r.key # k
  <2>1. \A r \in io : r.key \in Keys
    BY DEF IInv, Typed, Transfers
  <2> QED
    BY <1>2, <2>1 DEF IInv, FlusherIo
<1>10. UserIo' /\ FlusherIo'
  <2>1. UserIo'
    BY <1>1, <1>5, <1>8 DEF IInv, UserIo
  <2>2. FlusherIo'
    BY <1>1, <1>5, <1>9 DEF IInv, FlusherIo, Active, Over, AtIssue
  <2> QED
    BY <2>1, <2>2
<1>11. SameStates
  BY <1>2, <1>4, <1>5 DEF SameStates
<1>12. Queues'
  BY <1>1, <1>11, QueuesStay
<1>13. Locks'
  <2>1. \A j, m : HeldBy(j, m)' = HeldBy(j, m)
    BY <1>1 DEF HeldBy
  <2>2. HeldBy(k, "EX") = {} /\ HeldBy(k, "PR") = {}
    BY <1>3 DEF HeldBy
  <2>3. LockIs(k)'
    BY <1>4, <1>5, <2>1, <2>2, FS_EmptySet DEF LockIs
  <2>4. \A j \in Keys : LockIs(j)'
    BY <1>5, <2>1, <2>3 DEF IInv, Locks, LockIs
  <2> QED
    BY <1>1, <2>4 DEF IInv, Locks, OneWriter
<1>14. Refs'
  <2>1. \A j \in Keys : dcpage'[j].refs = dcpage[j].refs /\ dcpage'[j].state = dcpage[j].state
    BY <1>1, <1>2, <1>4, <1>5
  <2> QED
    BY <1>1, <2>1, RefsStay
<1>15. Valids'
  <2>1. \A u \in Users : at[u].pc # "out" => dcpage'[at[u].key] = dcpage[at[u].key]
    BY <1>3, <1>5, Where
  <2>2. 0 % BlockSize = 0
    BY SizesAssumption
  <2> QED
    BY <1>1, <1>4, <1>5, <2>1, <2>2 DEF IInv, Valids, Pg
<1>16. old[k].disk = {}
  <2>1. ~Modifying(k)
    BY <1>3 DEF Modifying
  <2>2. old[k].disk \subseteq Writing(k)
    BY <1>2, <2>1 DEF IInv, Data, DiskIs
  <2>3. ~AtIssue(k)
    BY <1>2 DEF IInv, Queues
  <2>4. \A r \in io : ~(r.key = k /\ r.op = "write" /\ r.done = "no")
    <3>1. \A r \in io : r.by \in Users \cup {Flusher}
      BY DEF IInv, Typed, Transfers
    <3> QED
      BY <1>8, <1>9, <3>1 DEF Active
  <2>5. Writing(k) = {}
    BY <2>3, <2>4 DEF Writing, AtIssue
  <2> QED
    BY <2>2, <2>5
<1>17. ASSUME NEW j \in Keys PROVE MemIs(j)' /\ DiskIs(j)'
  <2>1. CASE j = k
    <3>1. MemIs(k)'
      BY <1>4, <1>5, <1>6, UnitsAre DEF MemIs
    <3>2. DiskIs(k)'
      BY <1>6, <1>16 DEF DiskIs
    <3> QED
      BY <2>1, <3>1, <3>2
  <2>2. CASE j # k
    <3>1. Modifying(j)' = Modifying(j) /\ \A x : Extends(j, x)' = Extends(j, x)
      BY <1>1 DEF Modifying, Modifies, Extends
    <3>2. Writing(j)' = Writing(j)
      BY <1>1, <1>5, <2>2 DEF Writing
    <3> QED
      BY <1>5, <1>6, <2>2, <3>1, <3>2 DEF IInv, Data, MemIs, DiskIs
  <2> QED
    BY <2>1, <2>2
<1>18. ReadIn' /\ Copied'
  <2>1. \A u \in Users : at[u].pc # "out" => old'[at[u].key] = old[at[u].key]
    BY <1>3, <1>6, Where
  <2>2. \A r \in io : r.op = "read" => old'[r.key] = old[r.key]
    <3>1. \A r \in io : r.op = "read" => r.by \in Users
      BY DEF IInv, FlusherIo, Typed, Transfers
    <3> QED
      BY <1>6, <1>8, <3>1
  <2> QED
    BY <1>1, <2>1, <2>2, ZenonT(40) DEF IInv, Data, ReadIn, Copied, Waits
<1>19. Terms'
  BY <1>1, <1>11 DEF IInv, Terms, Dirty, SameStates, Over
<1> QED
  BY <1>7, <1>10, <1>12, <1>13, <1>14, <1>15, <1>17, <1>18, <1>19 DEF IInv, Data

(* What is being written, element by element                                *)
Brought(S, k) ==
  UNION {r.from .. r.to - 1 : r \in {q \in S : q.key = k /\ q.op = "write" /\ q.done = "no"}}

LEMMA WritingIs ==
  \A k, x :
    /\ x \in Writing(k) <=>
         \/ \E q \in io : q.key = k /\ q.op = "write" /\ q.done = "no" /\ x \in q.from .. q.to - 1
         \/ AtIssue(k) /\ x \in 0 .. dcpage[k].valid - 1
    /\ x \in Writing(k)' <=>
         \/ \E q \in io' : q.key = k /\ q.op = "write" /\ q.done = "no" /\ x \in q.from .. q.to - 1
         \/ AtIssue(k)' /\ x \in 0 .. dcpage'[k].valid - 1
<1>1. \A S, k, x : x \in Brought(S, k) <=>
        \E q \in S : q.key = k /\ q.op = "write" /\ q.done = "no" /\ x \in q.from .. q.to - 1
  BY DEF Brought
<1>2. ASSUME NEW k
      PROVE  Writing(k) = Brought(io, k) \cup IF AtIssue(k) THEN 0 .. dcpage[k].valid - 1 ELSE {}
  BY Zenon DEF Writing, Brought, AtIssue
<1>3. ASSUME NEW k
      PROVE  Writing(k)' = Brought(io', k) \cup IF AtIssue(k)' THEN 0 .. dcpage'[k].valid - 1 ELSE {}
  BY Zenon DEF Writing, Brought, AtIssue
<1> QED
  BY <1>1, <1>2, <1>3

(* start_write takes the next page: first its state                         *)
LEMMA SetStateKeeps ==
  ASSUME IInv, SetState
  PROVE  IInv'
<1>1. /\ writer \in Writers /\ writer.pc = "state" /\ writer.batch # <<>> /\ writer.batch \in Seq(Keys)
  BY DEF SetState, IInv, Typed, Queues, Writers
<1>0. PICK k \in Keys : k = Head(writer.batch) /\ k \in Range(writer.batch)
  BY <1>1 DEF Range
<1>2. /\ UNCHANGED <<counts, io, at, dirties, term, old>>
      /\ dcpage' = [dcpage EXCEPT ![k].state = 2] /\ writer' = [writer EXCEPT !.pc = "issue"]
  BY <1>0 DEF SetState
<1>3. dcpage[k].state = 1
  <2>1. Queued(k)
    BY <1>0, <1>1 DEF Queued
  <2> QED
    BY <2>1 DEF IInv, Queues
<1>4. /\ writer' \in Writers /\ writer'.pc = "issue" /\ writer'.batch = writer.batch
      /\ writer'.by = writer.by
  BY <1>1, <1>2 DEF Writers
<1> DEFINE p == [dcpage[k] EXCEPT !.state = 2]
<1>5. dcpage[k] \in CachePages
  BY DEF IInv, Typed
<1>6. /\ p \in CachePages /\ p.refs = dcpage[k].refs /\ p.lock = dcpage[k].lock
      /\ p.valid = dcpage[k].valid /\ p.state = 2
  BY <1>5 DEF CachePages
<1>7. dcpage' = [dcpage EXCEPT ![k] = p]
  BY <1>2 DEF IInv, Typed
<1> HIDE DEF p
<1>8. /\ dcpage'[k] = p /\ (\A j \in Keys \ {k} : dcpage'[j] = dcpage[j])
      /\ dcpage' \in [Keys -> CachePages]
  BY <1>6, <1>7, PageIs DEF IInv
<1>9. /\ dcpage'[k].state = 2 /\ \A j \in Keys \ {k} : dcpage'[j].state = dcpage[j].state
      /\ \A j \in Keys : /\ dcpage'[j].valid = dcpage[j].valid /\ dcpage'[j].lock = dcpage[j].lock
                         /\ dcpage'[j].refs = dcpage[j].refs
  BY <1>6, <1>8
<1>10. Typed' /\ \A u \in Users : Local(at'[u])
  BY <1>2, <1>4, <1>8 DEF IInv, Typed
<1>11. \A j : ~AtIssue(j) /\ (AtIssue(j)' <=> j = k)
  BY <1>0, <1>1, <1>4 DEF AtIssue
<1>12. \A r \in io : r.key \in Keys /\ (Active(r) => r.key # k)
  <2>1. \A r \in io : r.key \in Keys
    BY DEF IInv, Typed, Transfers
  <2> QED
    BY <1>3, <2>1 DEF IInv, FlusherIo
<1>13. UserIo'
  BY <1>2, <1>9, <1>12 DEF IInv, UserIo
<1>14. FlusherIo'
  <2>1. \A r \in io : Active(r) => /\ dcpage'[r.key].state \in {2, 3} /\ ~AtIssue(r.key)'
                                   /\ r.to <= dcpage'[r.key].valid
    BY <1>9, <1>11, <1>12 DEF IInv, FlusherIo
  <2> QED
    BY <1>2, <2>1 DEF IInv, FlusherIo, Active, Over
<1>15. Queues'
  <2>1. k \notin Range(dirties)
    BY <1>0 DEF IInv, Queues
  <2>2. \A j \in Keys : Queued(j)' <=> Queued(j) /\ j # k
    BY <1>0, <1>1, <1>2, <1>4, <2>1 DEF Queued
  <2>3. \A j \in Keys : Queued(j)' <=> dcpage'[j].state = 1
    BY <1>9, <2>2 DEF IInv, Queues
  <2> QED
    BY <1>1, <1>2, <1>4, <1>9, <1>11, <2>3 DEF IInv, Queues, Once
<1>16. Locks'
  BY <1>2, <1>9, LocksStay
<1>17. Refs'
  <2>1. \A j \in Keys : Referenced(j)' = Referenced(j)
    BY <1>2, <1>3, <1>9 DEF Referenced
  <2> QED
    BY <1>2, <1>9, <2>1 DEF IInv, Refs
<1>18. Valids'
  BY <1>2, <1>9, Where DEF IInv, Valids, Pg
<1>19. ASSUME NEW j \in Keys PROVE MemIs(j)' /\ DiskIs(j)'
  <2>1. Modifying(j)' = Modifying(j) /\ \A x : Extends(j, x)' = Extends(j, x)
    BY <1>2 DEF Modifying, Modifies, Extends
  <2>2. MemIs(j)' /\ \A x \in old'[j].disk : x < dcpage'[j].valid \/ Extends(j, x)'
    BY <1>2, <1>9, <2>1 DEF IInv, Data, MemIs, DiskIs
  <2>3. CASE j = k
    <3>1. CASE Modifying(k)
      BY <2>1, <2>2, <2>3, <3>1 DEF DiskIs
    <3>2. CASE ~Modifying(k)
      <4>1. \A x : ~Extends(k, x)
        BY <3>2 DEF Extends, Modifying, Modifies
      <4>2. \A x \in old[k].disk : x < dcpage[k].valid /\ x \in Nat
        <5>1. old[k].disk \subseteq Units
          BY DEF IInv, Typed, PageData
        <5> QED
          BY <4>1, <5>1, UnitsAre DEF IInv, Data, DiskIs
      <4>3. dcpage[k].valid \in Int
        BY <1>5 DEF CachePages
      <4>4. old[k].disk \subseteq 0 .. dcpage[k].valid - 1
        BY <4>2, <4>3
      <4>5. 0 .. dcpage[k].valid - 1 \subseteq Writing(k)'
        <5>1. AtIssue(k)' /\ dcpage'[k].valid = dcpage[k].valid
          BY <1>9, <1>11
        <5> QED
          BY <5>1, WritingIs
      <4>6. old'[k].disk \subseteq Writing(k)'
        BY <1>2, <4>4, <4>5
      <4> QED
        BY <2>2, <2>3, <4>6 DEF DiskIs
    <3> QED
      BY <3>1, <3>2
  <2>4. CASE j # k
    <3>1. Writing(j)' = Writing(j)
      <4>1. ~AtIssue(j) /\ ~AtIssue(j)'
        BY <1>11, <2>4
      <4> QED
        BY <1>2, <4>1 DEF Writing, AtIssue
    <3>2. Modifying(j)' \/ dcpage'[j].state \in {1, 3} \/ old'[j].disk \subseteq Writing(j)'
      BY <1>2, <1>9, <2>1, <2>4, <3>1 DEF IInv, Data, DiskIs
    <3> QED
      BY <2>2, <3>2 DEF DiskIs
  <2> QED
    BY <2>3, <2>4
<1>20. ReadIn' /\ Copied'
  BY <1>2 DEF IInv, Data, ReadIn, Copied
<1>21. Terms'
  <2>1. Dirty' = Dirty
    BY <1>3, <1>9 DEF Dirty
  <2> QED
    BY <1>2, <1>4, <2>1 DEF IInv, Terms, Over
<1> QED
  BY <1>10, <1>13, <1>14, <1>15, <1>16, <1>17, <1>18, <1>19, <1>20, <1>21 DEF IInv, Data

(* and then its transfer.                                                   *)
LEMMA IssueWriter ==
  ASSUME IInv, Issue
  PROVE  /\ writer.pc = "issue" /\ Head(writer.batch) \in Keys
         /\ writer' \in Writers /\ writer'.pc # "issue" /\ Once(writer'.batch)
         /\ Range(writer'.batch) = Range(writer.batch) \ {Head(writer.batch)}
         /\ writer'.batch = <<>> <=> writer'.pc \in {"free", "take"}
         /\ writer'.by = "term" => writer.by = "term"
         /\ term' # term => writer.by = "term" /\ term' \in {"test", "wait"}
<1>1. /\ writer \in Writers /\ writer.pc = "issue" /\ writer.batch # <<>> /\ writer.batch \in Seq(Keys)
      /\ Once(writer.batch)
  BY DEF Issue, IInv, Typed, Queues, Writers
<1>2. PICK rest : rest = Tail(writer.batch)
  OBVIOUS
<1>3. /\ rest \in Seq(Keys) /\ Range(rest) = Range(writer.batch) \ {Head(writer.batch)}
      /\ Head(writer.batch) \in Keys
      /\ \A i, j \in 1 .. Len(writer.batch) : writer.batch[i] = writer.batch[j] => i = j
  <2>1. \A i, j \in 1 .. Len(writer.batch) : writer.batch[i] = writer.batch[j] => i = j
    BY <1>1 DEF Once
  <2> QED
    BY <1>1, <1>2, <2>1, TailThins
<1>4. Once(rest)
  <2>1. /\ Len(rest) = Len(writer.batch) - 1 /\ Len(writer.batch) \in Nat
        /\ \A j \in 1 .. Len(writer.batch) - 1 : rest[j] = writer.batch[j + 1]
    BY <1>1, <1>2
  <2>2. ASSUME NEW i \in 1 .. Len(rest), NEW j \in 1 .. Len(rest), rest[i] = rest[j] PROVE i = j
    <3>1. /\ writer.batch[i + 1] = writer.batch[j + 1]
          /\ i + 1 \in 1 .. Len(writer.batch) /\ j + 1 \in 1 .. Len(writer.batch)
          /\ i \in Int /\ j \in Int
      BY <2>1, <2>2
    <3>2. i + 1 = j + 1
      BY <1>3, <3>1
    <3> QED
      BY <3>1, <3>2
  <2> QED
    BY <2>2 DEF Once
<1>5. \/ rest # <<>> /\ writer' = [pc |-> "state", by |-> writer.by, batch |-> rest] /\ term' = term
      \/ /\ rest # <<>> /\ writer' = [pc |-> "spread", by |-> "spread", batch |-> rest]
         /\ Return(writer.by)
      \/ rest = <<>> /\ writer' = [pc |-> "take", by |-> writer.by, batch |-> rest] /\ term' = term
      \/ rest = <<>> /\ writer' = [pc |-> "free", by |-> "none", batch |-> rest] /\ Return(writer.by)
  BY <1>2 DEF Issue, Free
<1>6. \A pc \in {"free", "take", "state", "spread"}, by \in {"none", "flush", "spread", "term"} :
        [pc |-> pc, by |-> by, batch |-> rest] \in Writers
  BY <1>3 DEF Writers
<1>7. writer.by \in {"none", "flush", "spread", "term"}
  BY <1>1 DEF Writers
<1>8. /\ writer' \in Writers /\ writer'.batch = rest /\ writer'.pc \in {"free", "take", "state", "spread"}
      /\ rest = <<>> <=> writer'.pc \in {"free", "take"}
      /\ writer'.by = "term" => writer.by = "term"
  BY <1>5, <1>6, <1>7
<1>9. term' # term => writer.by = "term" /\ term' \in {"test", "wait"}
  BY <1>5 DEF Return
<1> QED
  BY <1>1, <1>3, <1>4, <1>8, <1>9

LEMMA IssueKeeps ==
  ASSUME IInv, Issue
  PROVE  IInv'
<1> PICK k \in Keys : k = Head(writer.batch)
  BY IssueWriter
<1>0. PICK q : k = Head(writer.batch) /\ q = Request("write", k, 0, dcpage[k].valid, Flusher)
  OBVIOUS
<1>1. /\ io' = io \cup {q} /\ counts' = [counts EXCEPT !.wt = @ + 1]
      /\ UNCHANGED <<dcpage, old, dirties, at>>
  BY <1>0 DEF Issue, data
<1>2. AtIssue(k) /\ \A j : (AtIssue(j) <=> j = k) /\ ~AtIssue(j)'
  BY <1>0, IssueWriter DEF AtIssue
<1>3. dcpage[k].state \in {2, 3} /\ dcpage[k] \in CachePages /\ dcpage[k].valid \in 0 .. PageSize
  BY <1>2 DEF IInv, Queues, Typed, CachePages
<1>4. /\ q.op = "write" /\ q.key = k /\ q.from = 0 /\ q.to = dcpage[k].valid /\ q.by = Flusher
      /\ q.done = "no"
  BY <1>0 DEF Request
<1>5. q \in Transfers
  <2>1. 0 \in 0 .. PageSize
    BY UnitsAre
  <2> QED
    BY <1>0, <1>3, <2>1 DEF Request, Transfers
<1>6. counts' \in Tallies /\ counts'.dirty = counts.dirty
  BY <1>1 DEF IInv, Typed, Tallies
<1>7. Typed' /\ \A u \in Users : Local(at'[u])
  <2>1. io' \subseteq Transfers /\ IsFiniteSet(io')
    BY <1>1, <1>5, FS_AddElement DEF IInv, Typed
  <2> QED
    BY <1>1, <1>6, <2>1, IssueWriter DEF IInv, Typed
<1>8. q.by \notin Users
  BY <1>4, UsersAssumption DEF Flusher
<1>9. UserIo'
  BY <1>1, <1>8 DEF IInv, UserIo
<1>10. FlusherIo'
  <2>1. \A r \in io' : r.by = Flusher => r.op = "write" /\ r.from = 0
    BY <1>1, <1>4 DEF IInv, FlusherIo
  <2>2. \A r \in io' : Active(r) => /\ dcpage'[r.key].state \in {2, 3} /\ ~AtIssue(r.key)'
                                    /\ r.to <= dcpage'[r.key].valid
    BY <1>1, <1>2, <1>3, <1>4 DEF IInv, FlusherIo
  <2>3. \A r \in io : Active(r) => r.key # k
    BY <1>2 DEF IInv, FlusherIo
  <2>4. ~Over(q)
    BY <1>4 DEF Over
  <2>5. \A r, s \in io' : Active(r) /\ Active(s) /\ r.key = s.key => r = s
    BY <1>1, <1>4, <2>3 DEF IInv, FlusherIo
  <2>6. \A r, s \in io' : Over(r) /\ Over(s) /\ r.key = s.key => r = s
    BY <1>1, <2>4 DEF IInv, FlusherIo
  <2> QED
    BY <2>1, <2>2, <2>5, <2>6 DEF FlusherIo, Active, Over
<1>11. Queues'
  <2>1. \A j : Queued(j)' <=> Queued(j)
    BY <1>0, <1>1, <1>2, IssueWriter DEF Queued, AtIssue
  <2>2. Range(dirties') \cap Range(writer'.batch) = {}
    BY <1>1, IssueWriter DEF IInv, Queues
  <2> QED
    BY <1>1, <1>2, <2>1, <2>2, IssueWriter DEF IInv, Queues, Once
<1>12. Locks' /\ Valids'
  BY <1>1 DEF IInv, Locks, LockIs, HeldBy, OneWriter, Valids, Pg
<1>13. \A r : Over(r) => (r \in io' <=> r \in io)
  BY <1>1, <1>4 DEF Over
<1>14. Refs'
  BY <1>1, <1>13, RefsStay
<1>15. ASSUME NEW j \in Keys PROVE MemIs(j)' /\ DiskIs(j)'
  <2>1. Modifying(j) => Modifying(j)'
    BY <1>1 DEF Modifying, Modifies
  <2>2. \A x : Extends(j, x)' <=> Extends(j, x)
    BY <1>1 DEF Extends
  <2>3. Writing(j) \subseteq Writing(j)'
    <3> SUFFICES ASSUME NEW x \in Writing(j) PROVE x \in Writing(j)'
      OBVIOUS
    <3>1. CASE \E r \in io : r.key = j /\ r.op = "write" /\ r.done = "no" /\ x \in r.from .. r.to - 1
      BY <1>1, <3>1, WritingIs
    <3>2. CASE AtIssue(j) /\ x \in 0 .. dcpage[j].valid - 1
      <4>1. q \in io' /\ q.key = j /\ q.op = "write" /\ q.done = "no" /\ x \in q.from .. q.to - 1
        BY <1>1, <1>2, <1>4, <3>2
      <4> QED
        BY <4>1, WritingIs
    <3> QED
      BY <3>1, <3>2, WritingIs
  <2> QED
    BY <1>1, <2>1, <2>2, <2>3 DEF IInv, Data, MemIs, DiskIs
<1>16. ReadIn' /\ Copied'
  BY <1>1, <1>4 DEF IInv, Data, ReadIn, Copied
<1>17. Terms'
  <2>1. {r \in io' : Over(r)} = {r \in io : Over(r)}
    BY <1>13
  <2>2. writer'.by = "term" => term' # "no"
    BY IssueWriter DEF IInv, Terms
  <2>3. /\ term' # "no" => \A u \in Users : at'[u].pc = "out"
        /\ term' = "freed" => counts'.dirty = 0
    BY <1>1, <1>6, IssueWriter DEF IInv, Terms
  <2>4. counts'.dirty = Cardinality(Dirty') + Cardinality({r \in io' : Over(r)})
    BY <1>1, <1>6, <2>1 DEF IInv, Terms, Dirty
  <2> QED
    BY <2>2, <2>3, <2>4 DEF Terms, Over
<1> QED
  BY <1>7, <1>9, <1>10, <1>11, <1>12, <1>14, <1>15, <1>16, <1>17 DEF IInv, Data

-----------------------------------------------------------------------------
(* write_done, which leaves the requests alone                              *)

LEMMA MovedIs ==
  ASSUME NEW r \in Transfers, NEW d \in {"no", "moved", "drop", "count"}
  PROVE  LET q == [r EXCEPT !.done = d] IN
         /\ q \in Transfers /\ q.op = r.op /\ q.key = r.key /\ q.from = r.from /\ q.to = r.to
         /\ q.by = r.by /\ q.done = d
  BY DEF Transfers

LEMMA IoReplaced ==
  ASSUME Typed, NEW r \in io, NEW q \in Transfers
  PROVE  /\ (io \ {r}) \cup {q} \subseteq Transfers /\ IsFiniteSet((io \ {r}) \cup {q})
         /\ io \ {r} \subseteq Transfers /\ IsFiniteSet(io \ {r})
<1>1. IsFiniteSet(io \ {r})
  BY FS_RemoveElement DEF Typed
<1> QED
  BY <1>1, FS_AddElement DEF Typed

LEMMA StateIs ==
  ASSUME Typed, NEW k \in Keys, NEW t \in 0 .. 3, dcpage' = [dcpage EXCEPT ![k].state = t]
  PROVE  /\ dcpage' \in [Keys -> CachePages] /\ dcpage'[k].state = t
         /\ \A j \in Keys \ {k} : dcpage'[j].state = dcpage[j].state
         /\ \A j \in Keys : /\ dcpage'[j].valid = dcpage[j].valid /\ dcpage'[j].lock = dcpage[j].lock
                            /\ dcpage'[j].refs = dcpage[j].refs
<1> DEFINE p == [dcpage[k] EXCEPT !.state = t]
<1>1. dcpage[k] \in CachePages
  BY DEF Typed
<1>2. /\ p \in CachePages /\ p.refs = dcpage[k].refs /\ p.lock = dcpage[k].lock
      /\ p.valid = dcpage[k].valid /\ p.state = t
  BY <1>1 DEF CachePages
<1>3. dcpage' = [dcpage EXCEPT ![k] = p]
  BY DEF Typed
<1> HIDE DEF p
<1>4. /\ dcpage'[k] = p /\ (\A j \in Keys \ {k} : dcpage'[j] = dcpage[j])
      /\ dcpage' \in [Keys -> CachePages]
  BY <1>2, <1>3, PageIs
<1> QED
  BY <1>2, <1>4

LEMMA ServedKeeps ==
  ASSUME IInv, Typed', UNCHANGED <<at, old, writer, term>>,
         \A s \in io \cup io' : s.by \in Users \/ s.done = "no" => s \in io /\ s \in io',
         \A j \in Keys : dcpage'[j].valid = dcpage[j].valid /\ dcpage'[j].lock = dcpage[j].lock,
         \A j \in Keys : dcpage[j].state \in {1, 3} => dcpage'[j].state \in {1, 3},
         FlusherIo', Queues', Refs',
         counts'.dirty = Cardinality(Dirty') + Cardinality({s \in io' : Over(s)}),
         term = "freed" => counts'.dirty = 0
  PROVE  IInv'
<1>1. \A u \in Users : Local(at'[u])
  BY DEF IInv
<1>2. UserIo'
  <2>1. \A r \in io : r.key \in Keys
    BY DEF IInv, Typed, Transfers
  <2> QED
    BY <2>1 DEF IInv, UserIo
<1>3. Locks' /\ Valids'
  <2>1. Locks'
    BY ZenonT(40) DEF IInv, Locks, LockIs, HeldBy, OneWriter
  <2>2. Valids'
    BY Where DEF IInv, Valids, Pg
  <2> QED
    BY <2>1, <2>2
<1>4. ASSUME NEW j \in Keys PROVE MemIs(j)' /\ DiskIs(j)'
  <2>1. Modifying(j) => Modifying(j)'
    BY DEF Modifying, Modifies
  <2>2. \A x : Extends(j, x)' <=> Extends(j, x)
    BY DEF Extends
  <2>3. Writing(j) \subseteq Writing(j)'
    <3> SUFFICES ASSUME NEW x \in Writing(j) PROVE x \in Writing(j)'
      OBVIOUS
    <3>1. CASE \E r \in io : r.key = j /\ r.op = "write" /\ r.done = "no" /\ x \in r.from .. r.to - 1
      BY <3>1, WritingIs
    <3>2. CASE AtIssue(j) /\ x \in 0 .. dcpage[j].valid - 1
      <4>1. AtIssue(j)' /\ x \in 0 .. dcpage'[j].valid - 1
        BY <3>2 DEF AtIssue
      <4> QED
        BY <4>1, WritingIs
    <3> QED
      BY <3>1, <3>2, WritingIs
  <2>4. MemIs(j)'
    BY DEF IInv, Data, MemIs
  <2>5. \A x \in old'[j].disk : x < dcpage'[j].valid \/ Extends(j, x)'
    BY <2>2 DEF IInv, Data, DiskIs
  <2>6. Modifying(j)' \/ dcpage'[j].state \in {1, 3} \/ old'[j].disk \subseteq Writing(j)'
    BY <2>1, <2>3 DEF IInv, Data, DiskIs
  <2> QED
    BY <2>4, <2>5, <2>6 DEF DiskIs
<1>5. ReadIn' /\ Copied'
  <2>1. \A r \in io' : r.op = "read" => r \in io
    <3>1. \A r \in io' : r.by \in Users \cup {Flusher}
      BY DEF Typed, Transfers
    <3>2. \A r \in io' : r.by = Flusher => r.op = "write"
      BY DEF FlusherIo
    <3> QED
      BY <3>1, <3>2
  <2> QED
    BY <2>1 DEF IInv, Data, ReadIn, Copied
<1>6. Terms'
  BY DEF IInv, Terms, Over
<1> QED
  BY <1>1, <1>2, <1>3, <1>4, <1>5, <1>6 DEF IInv, Data

(* What is known of a transfer of the flusher that write_done is called for *)
LEMMA FlusherDone ==
  ASSUME IInv, NEW r \in io, r.done # "no", r.by = Flusher
  PROVE  /\ r \in Transfers /\ r.key \in Keys /\ r.by \notin Users /\ r.op = "write" /\ r.from = 0
         /\ r.done = "moved" => ~AtIssue(r.key) /\ r.to <= dcpage[r.key].valid
                                /\ \A s \in io : Active(s) /\ s.key = r.key => s = r
         /\ Over(r) => \A s \in io : Over(s) /\ s.key = r.key => s = r
<1>1. r \in Transfers /\ r.key \in Keys
  BY DEF IInv, Typed, Transfers
<1>2. r.done = "moved" => Active(r)
  BY DEF Active
<1> QED
  BY <1>1, <1>2, UsersAssumption DEF IInv, FlusherIo, Flusher

LEMMA OverIsFlusher ==
  ASSUME IInv, NEW r \in io, Over(r)
  PROVE  r.by = Flusher
<1>1. r.by \in Users \cup {Flusher}
  BY DEF IInv, Typed, Transfers
<1>2. r.by \notin Users
  BY DEF IInv, UserIo, Over
<1> QED
  BY <1>1, <1>2

(* The page has not been made dirty again.                                  *)
LEMMA DoneCleanKeeps ==
  ASSUME IInv, NEW r \in io, r.by = Flusher, r.done = "moved",
         NEW q, q = [r EXCEPT !.done = "drop"], NEW k, k = r.key,
         \A s \in io : s.key = k => ~Over(s),
         dcpage[k].state = 2, dcpage' = [dcpage EXCEPT ![k].state = 0],
         io' = (io \ {r}) \cup {q}, UNCHANGED <<dirties, counts, old, writer, at, term>>
  PROVE  IInv'
<1>1. /\ r \in Transfers /\ k \in Keys /\ r.by \notin Users /\ ~AtIssue(k)
      /\ \A s \in io : Active(s) /\ s.key = k => s = r
  BY FlusherDone
<1>2. /\ q \in Transfers /\ q.op = r.op /\ q.key = k /\ q.from = r.from /\ q.to = r.to
      /\ q.by = r.by /\ q.done = "drop"
  BY <1>1, MovedIs
<1>3. /\ dcpage' \in [Keys -> CachePages] /\ dcpage'[k].state = 0
      /\ \A j \in Keys \ {k} : dcpage'[j].state = dcpage[j].state
      /\ \A j \in Keys : /\ dcpage'[j].valid = dcpage[j].valid /\ dcpage'[j].lock = dcpage[j].lock
                         /\ dcpage'[j].refs = dcpage[j].refs
  <2>1. 0 \in 0 .. 3 /\ Typed
    BY DEF IInv
  <2> QED
    BY <1>1, <2>1, StateIs
<1>4. Typed'
  BY <1>2, <1>3, IoReplaced DEF IInv, Typed
<1>5. \A s \in io \cup io' : s.by \in Users \/ s.done = "no" => s \in io /\ s \in io'
  BY <1>1, <1>2
<1>6. Over(q) /\ ~Active(q) /\ ~Over(r) /\ Active(r) /\ q \notin io
  BY <1>2 DEF Over, Active
<1>7. FlusherIo'
  <2>1. \A s \in io' : Active(s) => s \in io /\ s.key \in Keys \ {k}
    <3>1. \A s \in io : s.key \in Keys
      BY DEF IInv, Typed, Transfers
    <3> QED
      BY <1>1, <1>6, <3>1
  <2>2. \A s \in io' : Active(s) => /\ dcpage'[s.key].state \in {2, 3} /\ ~AtIssue(s.key)'
                                    /\ s.to <= dcpage'[s.key].valid
    BY <1>3, <2>1 DEF IInv, FlusherIo, AtIssue
  <2>3. \A s, t \in io' : Active(s) /\ Active(t) /\ s.key = t.key => s = t
    BY <2>1 DEF IInv, FlusherIo
  <2>4. \A s, t \in io' : Over(s) /\ Over(t) /\ s.key = t.key => s = t
    <3>1. \A s \in io : Over(s) => s.key # k
      OBVIOUS
    <3>2. \A s, t \in io : Over(s) /\ Over(t) /\ s.key = t.key => s = t
      BY DEF IInv, FlusherIo
    <3>3. q.key = k /\ \A s \in io' : s \in io \/ s = q
      BY <1>2
    <3> QED
      BY <3>1, <3>2, <3>3
  <2>5. \A s \in io' : s.by = Flusher => s.op = "write" /\ s.from = 0
    BY <1>2 DEF IInv, FlusherIo
  <2> QED
    BY <2>2, <2>3, <2>4, <2>5 DEF FlusherIo, Active, Over
<1>8. Queues'
  <2>1. \A j : Queued(j)' <=> Queued(j)
    BY DEF Queued
  <2>2. \A j \in Keys : Queued(j)' <=> dcpage'[j].state = 1
    BY <1>3, <2>1 DEF IInv, Queues
  <2>3. \A j \in Keys : AtIssue(j)' => dcpage'[j].state \in {2, 3}
    BY <1>1, <1>3 DEF IInv, Queues, AtIssue
  <2> QED
    BY <2>2, <2>3 DEF IInv, Queues, Once
<1>9. Refs'
  <2>1. ASSUME NEW j \in Keys PROVE dcpage'[j].refs >= Referenced(j)'
    <3>1. Referenced(j)' = Cardinality(Using(j)) + (IF dcpage'[j].state # 0 THEN 1 ELSE 0)
                             + Cardinality(Dropping(j)')
      BY DEF Referenced, Using, Dropping
    <3>2. dcpage[j].refs >= Cardinality(Using(j)) + (IF dcpage[j].state # 0 THEN 1 ELSE 0)
                              + Cardinality(Dropping(j))
      BY ReferencedIs DEF IInv, Refs
    <3>3. Cardinality(Using(j)) \in Nat /\ Cardinality(Dropping(j)) \in Nat /\ dcpage[j].refs \in Int
          /\ IsFiniteSet(Dropping(j))
      BY Finite DEF IInv, Typed, CachePages
    <3>4. CASE j = k
      <4>1. Dropping(j)' = Dropping(j) \cup {q} /\ q \notin Dropping(j)
        BY <1>2, <1>6, <3>4 DEF Dropping
      <4>2. Cardinality(Dropping(j)') = Cardinality(Dropping(j)) + 1
        <5>1. PICK S : S = Dropping(j)'
          OBVIOUS
        <5> QED
          BY <3>3, <4>1, <5>1, OneMore
      <4> QED
        BY <1>3, <3>1, <3>2, <3>3, <3>4, <4>2
    <3>5. CASE j # k
      <4>1. Dropping(j)' = Dropping(j)
        BY <1>2, <3>5 DEF Dropping
      <4> QED
        BY <1>3, <3>1, <3>2, <3>3, <3>5, <4>1
    <3> QED
      BY <3>4, <3>5
  <2> QED
    BY <2>1 DEF Refs
<1>10. counts'.dirty = Cardinality(Dirty') + Cardinality({s \in io' : Over(s)})
  <2>1. Dirty' = Dirty \ {k} /\ k \in Dirty
    BY <1>1, <1>3 DEF Dirty
  <2>2. PICK D : D = Dirty'
    OBVIOUS
  <2>3. Cardinality(D) = Cardinality(Dirty) - 1 /\ Cardinality(Dirty) \in Nat
    BY <2>1, <2>2, OneLess, Finite DEF IInv
  <2>4. PICK O, P : O = {s \in io : Over(s)} /\ P = {s \in io' : Over(s)}
    OBVIOUS
  <2>5. P = O \cup {q} /\ q \notin O
    BY <1>6, <2>4
  <2>6. Cardinality(P) = Cardinality(O) + 1 /\ Cardinality(O) \in Nat
    BY <2>4, <2>5, OneMore, Finite DEF IInv
  <2>7. counts.dirty = Cardinality(Dirty) + Cardinality(O)
    BY <2>4 DEF IInv, Terms
  <2> QED
    BY <2>2, <2>3, <2>4, <2>6, <2>7
<1>11. term = "freed" => counts'.dirty = 0
  BY DEF IInv, Terms
<1>12. \A j \in Keys : dcpage[j].state \in {1, 3} => dcpage'[j].state \in {1, 3}
  BY <1>3
<1> QED
  BY <1>3, <1>4, <1>5, <1>7, <1>8, <1>9, <1>10, <1>11, <1>12, ServedKeeps

(* The page has been made dirty again, and is queued again.                 *)
LEMMA DoneDirtyKeeps ==
  ASSUME IInv, NEW r \in io, r.by = Flusher, r.done = "moved", NEW k, k = r.key,
         dcpage[k].state = 3, dcpage' = [dcpage EXCEPT ![k].state = 1],
         dirties' = Append(dirties, k), io' = io \ {r},
         counts' \in Tallies, counts'.dirty = counts.dirty,
         UNCHANGED <<old, writer, at, term>>
  PROVE  IInv'
<1>1. /\ r \in Transfers /\ k \in Keys /\ r.by \notin Users /\ ~AtIssue(k)
      /\ \A s \in io : Active(s) /\ s.key = k => s = r
  BY FlusherDone
<1>2. ~Over(r) /\ Active(r)
  BY DEF Over, Active
<1>3. /\ dcpage' \in [Keys -> CachePages] /\ dcpage'[k].state = 1
      /\ \A j \in Keys \ {k} : dcpage'[j].state = dcpage[j].state
      /\ \A j \in Keys : /\ dcpage'[j].valid = dcpage[j].valid /\ dcpage'[j].lock = dcpage[j].lock
                         /\ dcpage'[j].refs = dcpage[j].refs
  <2>1. 1 \in 0 .. 3 /\ Typed
    BY DEF IInv
  <2> QED
    BY <1>1, <2>1, StateIs
<1>4. k \notin Range(dirties) /\ k \notin Range(writer.batch)
  <2>1. ~Queued(k)
    BY <1>1 DEF IInv, Queues
  <2> QED
    BY <1>1, <2>1 DEF Queued, AtIssue
<1>5. dirties' \in Seq(Keys) /\ Range(dirties') = Range(dirties) \cup {k} /\ Once(dirties')
  <2>1. dirties \in Seq(Keys) /\ \A i, j \in 1 .. Len(dirties) : dirties[i] = dirties[j] => i = j
    BY DEF IInv, Typed, Queues, Once
  <2>2. PICK d : d = dirties'
    OBVIOUS
  <2>3. d \in Seq(Keys) /\ Range(d) = Range(dirties) \cup {k} /\ Once(d)
    BY <1>1, <1>4, <2>1, <2>2, AppendOnce DEF Once
  <2> QED
    BY <2>2, <2>3 DEF Once
<1>6. Typed'
  BY <1>1, <1>3, <1>5, IoReplaced DEF IInv, Typed
<1>7. \A s \in io \cup io' : s.by \in Users \/ s.done = "no" => s \in io /\ s \in io'
  BY <1>1
<1>8. FlusherIo'
  <2>1. \A s \in io' : Active(s) => s \in io /\ s.key \in Keys \ {k}
    <3>1. \A s \in io : s.key \in Keys
      BY DEF IInv, Typed, Transfers
    <3> QED
      BY <1>1, <3>1
  <2>2. \A s \in io' : Active(s) => /\ dcpage'[s.key].state \in {2, 3} /\ ~AtIssue(s.key)'
                                    /\ s.to <= dcpage'[s.key].valid
    BY <1>3, <2>1 DEF IInv, FlusherIo, AtIssue
  <2> QED
    BY <2>2 DEF IInv, FlusherIo, Active, Over
<1>9. Queues'
  <2>1. \A j \in Keys : Queued(j)' <=> Queued(j) \/ j = k
    BY <1>4, <1>5 DEF Queued
  <2>2. \A j \in Keys : Queued(j)' <=> dcpage'[j].state = 1
    BY <1>3, <2>1 DEF IInv, Queues
  <2>3. \A j \in Keys : AtIssue(j)' => dcpage'[j].state \in {2, 3}
    BY <1>1, <1>3 DEF IInv, Queues, AtIssue
  <2> QED
    BY <1>4, <1>5, <2>2, <2>3 DEF IInv, Queues, Once
<1>10. \A s : Over(s) => (s \in io' <=> s \in io)
  BY <1>2
<1>11. Refs'
  <2>1. \A j : Dropping(j)' = Dropping(j)
    BY <1>10, DroppingStays
  <2>2. \A j \in Keys : Referenced(j)' = Cardinality(Using(j)) + (IF dcpage'[j].state # 0 THEN 1 ELSE 0)
                                           + Cardinality(Dropping(j))
    BY <2>1 DEF Referenced, Using, Dropping
  <2>3. \A j \in Keys : dcpage'[j].state # 0 <=> dcpage[j].state # 0
    BY <1>3
  <2>4. \A j \in Keys : Referenced(j)' = Referenced(j)
    BY <2>2, <2>3, ReferencedIs
  <2> QED
    BY <1>3, <2>4 DEF IInv, Refs
<1>12. counts'.dirty = Cardinality(Dirty') + Cardinality({s \in io' : Over(s)})
  <2>1. Dirty' = Dirty
    BY <1>3 DEF Dirty
  <2>2. {s \in io' : Over(s)} = {s \in io : Over(s)}
    BY <1>10
  <2> QED
    BY <2>1, <2>2 DEF IInv, Terms
<1>13. /\ term = "freed" => counts'.dirty = 0
       /\ \A j \in Keys : dcpage[j].state \in {1, 3} => dcpage'[j].state \in {1, 3}
  BY <1>3 DEF IInv, Terms
<1> QED
  BY <1>3, <1>6, <1>7, <1>8, <1>9, <1>11, <1>12, <1>13, ServedKeeps

LEMMA WriteDoneKeeps ==
  ASSUME IInv, NEW r \in io, WriteDone(r)
  PROVE  IInv'
<1>1. /\ r.by = Flusher /\ r.done = "moved" /\ UNCHANGED <<old, writer, at, term>>
      /\ \A s \in io : s.key = r.key => ~Over(s)
  BY DEF WriteDone, Prompt, Over
<1>2. CASE /\ dcpage[r.key].state = 2 /\ dcpage' = [dcpage EXCEPT ![r.key].state = 0]
           /\ io' = (io \ {r}) \cup {[r EXCEPT !.done = "drop"]} /\ UNCHANGED <<dirties, counts>>
  BY <1>1, <1>2, DoneCleanKeeps
<1>3. CASE /\ dcpage[r.key].state = 3 /\ dcpage' = [dcpage EXCEPT ![r.key].state = 1]
           /\ dirties' = Append(dirties, r.key) /\ Written(r, 1)
  <2>1. io' = io \ {r} /\ counts' = [counts EXCEPT !.wt = @ - 1, !.dirty = @ + 1 - 1]
    BY <1>3 DEF Written
  <2>2. counts' \in Tallies /\ counts'.dirty = counts.dirty
    <3>1. counts \in Tallies
      BY DEF IInv, Typed
    <3>2. PICK a \in Int, b \in Int, c \in Tallies :
            a = counts.wt - 1 /\ b = counts.dirty + 1 - 1 /\ c = counts
      BY <3>1 DEF Tallies
    <3>3. counts' = [c EXCEPT !.wt = a, !.dirty = b]
      BY <2>1, <3>2
    <3>4. counts' \in Tallies /\ counts'.dirty = b
      BY <3>3 DEF Tallies
    <3>5. b = counts.dirty
      BY <3>1, <3>2 DEF Tallies
    <3> QED
      BY <3>4, <3>5
  <2> QED
    BY <1>1, <1>3, <2>1, <2>2, DoneDirtyKeeps
<1> QED
  BY <1>2, <1>3 DEF WriteDone

(* write_done gives the page back ...                                       *)
LEMMA WriteDropKeeps ==
  ASSUME IInv, NEW r \in io, WriteDrop(r)
  PROVE  IInv'
<1>0. PICK k, q : k = r.key /\ q = [r EXCEPT !.done = "count"]
  OBVIOUS
<1>1. /\ r.done = "drop" /\ io' = (io \ {r}) \cup {q} /\ dcpage' = [dcpage EXCEPT ![k].refs = @ - 1]
      /\ UNCHANGED <<old, dirties, counts, writer, at, term>>
  BY <1>0 DEF WriteDrop, writing
<1>2. Over(r) /\ ~Active(r)
  BY <1>1 DEF Over, Active
<1>3. /\ r \in Transfers /\ k \in Keys /\ r.by = Flusher /\ r.by \notin Users /\ r.op = "write"
      /\ r.from = 0 /\ \A s \in io : Over(s) /\ s.key = k => s = r
  BY <1>0, <1>1, <1>2, FlusherDone, OverIsFlusher
<1>4. /\ q \in Transfers /\ q.op = r.op /\ q.key = k /\ q.from = r.from /\ q.to = r.to
      /\ q.by = r.by /\ q.done = "count"
  BY <1>0, <1>3, MovedIs
<1>5. Over(q) /\ ~Active(q) /\ q \notin io
  BY <1>1, <1>3, <1>4 DEF Over, Active
<1> DEFINE p == [dcpage[k] EXCEPT !.refs = dcpage[k].refs - 1]
<1>6. /\ p \in CachePages /\ p.refs = dcpage[k].refs - 1 /\ p.lock = dcpage[k].lock
      /\ p.valid = dcpage[k].valid /\ p.state = dcpage[k].state
  <2>1. PICK c \in CachePages : c = dcpage[k]
    BY <1>3 DEF IInv, Typed
  <2>2. PICK a \in Int : a = c.refs - 1
    BY DEF CachePages
  <2>3. p = [c EXCEPT !.refs = a]
    BY <2>1, <2>2
  <2> HIDE DEF p
  <2> QED
    BY <2>1, <2>2, <2>3 DEF CachePages
<1>7. dcpage' = [dcpage EXCEPT ![k] = p]
  BY <1>1, <1>3 DEF IInv, Typed
<1> HIDE DEF p
<1>8. /\ dcpage'[k] = p /\ (\A j \in Keys \ {k} : dcpage'[j] = dcpage[j])
      /\ dcpage' \in [Keys -> CachePages]
  BY <1>3, <1>6, <1>7, PageIs DEF IInv
<1>9. /\ \A j \in Keys : /\ dcpage'[j].valid = dcpage[j].valid /\ dcpage'[j].lock = dcpage[j].lock
                         /\ dcpage'[j].state = dcpage[j].state
      /\ dcpage'[k].refs = dcpage[k].refs - 1 /\ \A j \in Keys \ {k} : dcpage'[j].refs = dcpage[j].refs
  BY <1>6, <1>8
<1>10. Typed'
  BY <1>1, <1>4, <1>8, IoReplaced DEF IInv, Typed
<1>11. \A s \in io \cup io' : s.by \in Users \/ s.done = "no" => s \in io /\ s \in io'
  BY <1>1, <1>3, <1>4
<1>12. FlusherIo'
  <2>1. \A s \in io' : Active(s) => s \in io /\ s.key \in Keys
    <3>1. \A s \in io : s.key \in Keys
      BY DEF IInv, Typed, Transfers
    <3> QED
      BY <1>1, <1>5, <3>1
  <2>2. \A s \in io' : Active(s) => /\ dcpage'[s.key].state \in {2, 3} /\ ~AtIssue(s.key)'
                                    /\ s.to <= dcpage'[s.key].valid
    BY <1>1, <1>9, <2>1 DEF IInv, FlusherIo, AtIssue
  <2>3. \A s, t \in io' : Active(s) /\ Active(t) /\ s.key = t.key => s = t
    BY <2>1 DEF IInv, FlusherIo
  <2>4. \A s, t \in io' : Over(s) /\ Over(t) /\ s.key = t.key => s = t
    <3>1. \A s, t \in io : Over(s) /\ Over(t) /\ s.key = t.key => s = t
      BY DEF IInv, FlusherIo
    <3>2. q.key = k /\ \A s \in io' : (s \in io /\ s # r) \/ s = q
      BY <1>1, <1>4, <1>5
    <3> QED
      BY <1>3, <3>1, <3>2
  <2>5. \A s \in io' : s.by = Flusher => s.op = "write" /\ s.from = 0
    BY <1>1, <1>3, <1>4 DEF IInv, FlusherIo
  <2> QED
    BY <2>2, <2>3, <2>4, <2>5 DEF FlusherIo, Active, Over
<1>13. Queues'
  BY <1>1, <1>9, QueuesStay DEF SameStates
<1>14. Refs'
  <2>1. ASSUME NEW j \in Keys PROVE dcpage'[j].refs >= Referenced(j)'
    <3>1. Referenced(j)' = Cardinality(Using(j)) + (IF dcpage[j].state # 0 THEN 1 ELSE 0)
                             + Cardinality(Dropping(j)')
      BY <1>1, <1>9 DEF Referenced, Using, Dropping
    <3>2. dcpage[j].refs >= Cardinality(Using(j)) + (IF dcpage[j].state # 0 THEN 1 ELSE 0)
                              + Cardinality(Dropping(j))
      BY ReferencedIs DEF IInv, Refs
    <3>3. Cardinality(Using(j)) \in Nat /\ Cardinality(Dropping(j)) \in Nat /\ dcpage[j].refs \in Int
          /\ IsFiniteSet(Dropping(j))
      BY Finite DEF IInv, Typed, CachePages
    <3>4. CASE j = k
      <4>1. Dropping(j)' = Dropping(j) \ {r} /\ r \in Dropping(j)
        BY <1>0, <1>1, <1>4, <3>4 DEF Dropping
      <4>2. Cardinality(Dropping(j)') = Cardinality(Dropping(j)) - 1
        <5>1. PICK S : S = Dropping(j)'
          OBVIOUS
        <5> QED
          BY <3>3, <4>1, <5>1, OneLess
      <4> QED
        BY <1>9, <3>1, <3>2, <3>3, <3>4, <4>2
    <3>5. CASE j # k
      <4>1. Dropping(j)' = Dropping(j)
        BY <1>0, <1>1, <1>4, <3>5 DEF Dropping
      <4> QED
        BY <1>9, <3>1, <3>2, <3>3, <3>5, <4>1
    <3> QED
      BY <3>4, <3>5
  <2> QED
    BY <2>1 DEF Refs
<1>15. counts'.dirty = Cardinality(Dirty') + Cardinality({s \in io' : Over(s)})
  <2>1. Dirty' = Dirty
    BY <1>9 DEF Dirty
  <2>2. PICK O, P, Q : O = {s \in io : Over(s)} /\ P = {s \in io' : Over(s)} /\ Q = O \ {r}
    OBVIOUS
  <2>3. P = Q \cup {q} /\ q \notin Q /\ r \in O
    BY <1>1, <1>2, <1>5, <2>2
  <2>4. Cardinality(Q) = Cardinality(O) - 1 /\ Cardinality(O) \in Nat /\ IsFiniteSet(Q)
    BY <2>2, <2>3, OneLess, Finite DEF IInv
  <2>5. Cardinality(P) = Cardinality(Q) + 1 /\ Cardinality(Q) \in Nat
    BY <2>3, <2>4, OneMore
  <2>6. counts.dirty = Cardinality(Dirty) + Cardinality(O)
    BY <2>2 DEF IInv, Terms
  <2> QED
    BY <1>1, <2>1, <2>2, <2>4, <2>5, <2>6
<1>16. term = "freed" => counts'.dirty = 0
  BY <1>1 DEF IInv, Terms
<1> QED
  BY <1>1, <1>9, <1>10, <1>11, <1>12, <1>13, <1>14, <1>15, <1>16, ServedKeeps

(* ... and counts it.                                                       *)
LEMMA WriteCountKeeps ==
  ASSUME IInv, NEW r \in io, WriteCount(r)
  PROVE  IInv'
<1>1. /\ r.done = "count" /\ io' = io \ {r} /\ counts' = [counts EXCEPT !.wt = @ - 1, !.dirty = @ + 0 - 1]
      /\ UNCHANGED <<dcpage, old, dirties, writer, at, term>>
  BY DEF WriteCount, Written, writing, data
<1>2. Over(r) /\ ~Active(r)
  BY <1>1 DEF Over, Active
<1>3. r \in Transfers /\ r.by = Flusher /\ r.by \notin Users
  BY <1>1, <1>2, FlusherDone, OverIsFlusher
<1>4. counts' \in Tallies /\ counts'.dirty = counts.dirty - 1
  <2>1. counts \in Tallies
    BY DEF IInv, Typed
  <2>2. PICK a \in Int, b \in Int, c \in Tallies :
          a = counts.wt - 1 /\ b = counts.dirty + 0 - 1 /\ c = counts
    BY <2>1 DEF Tallies
  <2>3. counts' = [c EXCEPT !.wt = a, !.dirty = b]
    BY <1>1, <2>2
  <2>4. counts' \in Tallies /\ counts'.dirty = b
    BY <2>3 DEF Tallies
  <2>5. b = counts.dirty - 1
    BY <2>1, <2>2 DEF Tallies
  <2> QED
    BY <2>4, <2>5
<1>5. Typed'
  BY <1>1, <1>3, <1>4, IoReplaced DEF IInv, Typed
<1>6. \A s \in io \cup io' : s.by \in Users \/ s.done = "no" => s \in io /\ s \in io'
  BY <1>1, <1>3
<1>7. FlusherIo' /\ Queues'
  <2>1. FlusherIo'
    BY <1>1 DEF IInv, FlusherIo, Active, Over, AtIssue
  <2>2. Queues'
    BY <1>1, QueuesStay DEF SameStates
  <2> QED
    BY <2>1, <2>2
<1>8. Refs'
  <2>1. \A j : Dropping(j)' = Dropping(j)
    BY <1>1 DEF Dropping
  <2>2. \A j \in Keys : Referenced(j)' = Cardinality(Using(j)) + (IF dcpage[j].state # 0 THEN 1 ELSE 0)
                                           + Cardinality(Dropping(j))
    BY <1>1, <2>1 DEF Referenced, Using, Dropping
  <2>3. \A j \in Keys : Referenced(j)' = Referenced(j)
    BY <2>2, ReferencedIs
  <2> QED
    BY <1>1, <2>3 DEF IInv, Refs
<1>9. PICK O, P : O = {s \in io : Over(s)} /\ P = {s \in io' : Over(s)}
  OBVIOUS
<1>10. P = O \ {r} /\ r \in O
  BY <1>1, <1>2, <1>9
<1>11. /\ Cardinality(P) = Cardinality(O) - 1 /\ Cardinality(O) \in Nat /\ Cardinality(P) \in Nat
       /\ Cardinality(Dirty) \in Nat /\ counts.dirty = Cardinality(Dirty) + Cardinality(O)
  <2>1. /\ Cardinality(P) = Cardinality(O) - 1 /\ Cardinality(O) \in Nat /\ IsFiniteSet(P)
        /\ Cardinality(Dirty) \in Nat
    BY <1>9, <1>10, OneLess, Finite DEF IInv
  <2> QED
    BY <1>9, <2>1, FS_CardinalityType DEF IInv, Terms
<1>12. counts'.dirty = Cardinality(Dirty') + Cardinality({s \in io' : Over(s)})
  <2>1. Dirty' = Dirty
    BY <1>1 DEF Dirty
  <2> QED
    BY <1>4, <1>9, <1>11, <2>1
<1>13. term # "freed"
  <2>1. term = "freed" => counts.dirty = 0
    BY DEF IInv, Terms
  <2> QED
    BY <1>11, <2>1
<1> QED
  BY <1>1, <1>5, <1>6, <1>7, <1>8, <1>12, <1>13, ServedKeeps

-----------------------------------------------------------------------------
(* The disk transfers the data.                                             *)

(* A read covers all that memory can be behind in, and the disk is not      *)
(* behind there: whoever extends the page would have to hold its lock.      *)
LEMMA ReadsLatest ==
  ASSUME IInv, NEW r \in io, r.op = "read"
  PROVE  /\ r.by \in Users /\ r.key \in Keys
         /\ \A x \in old[r.key].mem : x \in r.from .. r.to - 1
         /\ \A x \in old[r.key].disk : x \notin r.from .. r.to - 1
<1>1. r.by \in Users /\ r.key \in Keys
  BY DEF IInv, Typed, Transfers, FlusherIo
<1>0. PICK u \in Users, k \in Keys : u = r.by /\ k = r.key
  BY <1>1
<1>2. /\ at[u].pc \in Waits /\ at[u].key = k /\ at[u].rd
      /\ r.from = dcpage[k].valid /\ r.to = PageSize
  BY <1>0 DEF IInv, UserIo
<1>3. at[u].mode = "EX"
  BY <1>2, Where DEF Local
<1>4. /\ old[k].mem \subseteq Units /\ old[k].disk \subseteq Units
      /\ dcpage[k].valid \in 0 .. PageSize
  BY DEF IInv, Typed, PageData, CachePages
<1>5. \A x \in old[k].mem : x \in r.from .. r.to - 1
  BY <1>2, <1>4, UnitsAre DEF IInv, Data, MemIs
<1>6. ASSUME NEW x \in old[k].disk, x \in r.from .. r.to - 1 PROVE FALSE
  <2>1. ~(x < dcpage[k].valid) /\ x < PageSize
    BY <1>2, <1>4, <1>6, UnitsAre
  <2>2. PICK v \in Users : at[v].key = k /\ at[v].pc \in {"thru", "mark"}
    BY <2>1 DEF IInv, Data, DiskIs, Extends
  <2>3. v # u /\ at[v].mode = "NL"
    BY <1>2, <1>3, <2>2, Alone DEF Waits
  <2>4. Local(at[v]) /\ at[v].pc # "out"
    BY <2>2, Where
  <2>5. at[v].op \notin Writes
    BY <2>2, <2>3, <2>4 DEF Local
  <2>6. at[v].op = "pfmap" /\ at[v].pc = "thru"
    BY <2>2, <2>4, <2>5 DEF Local, Through, Writes
  <2>7. dcpage[k].valid = PageSize
    BY <2>2, <2>4, <2>6 DEF IInv, Valids, ValidAt, Pg
  <2> QED
    BY <2>1, <2>7
<1> QED
  BY <1>0, <1>1, <1>5, <1>6

(* The mem and disk of the page after the transfer                          *)
LEMMA TransferIs ==
  ASSUME IInv, NEW r \in io, Transfer(r), NEW k \in Keys, k = r.key
  PROVE  /\ old' \in [Keys -> PageData] /\ \A j \in Keys \ {k} : old'[j] = old[j]
         /\ r.op = "read" => old'[k].mem = {} /\ old'[k].disk = old[k].disk
         /\ r.op = "write" => /\ old'[k].mem = old[k].mem
                              /\ old'[k].disk = old[k].disk \ (0 .. r.to - 1)
<1>0. PICK span, o, n :
        /\ span = r.from .. r.to - 1 /\ o = old[k]
        /\ n = IF r.op = "read" THEN [o EXCEPT !.mem = (o.mem \ span) \cup (o.disk \cap span)]
               ELSE [o EXCEPT !.disk = (o.disk \ span) \cup (o.mem \cap span)]
  OBVIOUS
<1>1. o \in PageData /\ o.mem \subseteq Units /\ o.disk \subseteq Units
  BY <1>0 DEF IInv, Typed, PageData
<1>2. old' = [old EXCEPT ![k] = n]
  <2>1. old[k] = o /\ old \in [Keys -> PageData]
    BY <1>0 DEF IInv, Typed
  <2>2. CASE r.op = "read"
    <3>1. old' = [old EXCEPT ![k].mem = (o.mem \ span) \cup (o.disk \cap span)]
      BY <1>0, <2>1, <2>2 DEF Transfer
    <3> QED
      BY <1>0, <2>1, <2>2, <3>1
  <2>3. CASE r.op # "read"
    <3>1. old' = [old EXCEPT ![k].disk = (o.disk \ span) \cup (o.mem \cap span)]
      BY <1>0, <2>1, <2>3 DEF Transfer
    <3> QED
      BY <1>0, <2>1, <2>3, <3>1
  <2> QED
    BY <2>2, <2>3
<1>3. /\ n \in PageData
      /\ r.op = "read" => n.mem = (o.mem \ span) \cup (o.disk \cap span) /\ n.disk = o.disk
      /\ r.op # "read" => n.disk = (o.disk \ span) \cup (o.mem \cap span) /\ n.mem = o.mem
  <2>1. PICK m, d : /\ m = (o.mem \ span) \cup (o.disk \cap span)
                    /\ d = (o.disk \ span) \cup (o.mem \cap span)
    OBVIOUS
  <2>2. m \in SUBSET Units /\ d \in SUBSET Units
    BY <1>1, <2>1
  <2>3. n = IF r.op = "read" THEN [o EXCEPT !.mem = m] ELSE [o EXCEPT !.disk = d]
    BY <1>0, <2>1
  <2>4. /\ n \in PageData
        /\ r.op = "read" => n.mem = m /\ n.disk = o.disk
        /\ r.op # "read" => n.disk = d /\ n.mem = o.mem
    BY <1>1, <2>2, <2>3 DEF PageData
  <2> QED
    BY <2>1, <2>4
<1>4. /\ old' \in [Keys -> PageData] /\ (\A j \in Keys \ {k} : old'[j] = old[j])
      /\ old'[k] = n
  BY <1>2, <1>3 DEF IInv, Typed
<1>5. ASSUME r.op = "read" PROVE n.mem = {}
  BY <1>0, <1>3, <1>5, ReadsLatest
<1>6. ASSUME r.op = "write" PROVE n.disk = o.disk \ (0 .. r.to - 1)
  <2>1. r.from = 0 /\ r.to \in 0 .. PageSize /\ r.to <= dcpage[k].valid
    <3>1. r \in Transfers /\ r.to \in 0 .. PageSize
      BY DEF IInv, Typed, Transfers
    <3>2. dcpage[k].valid \in 0 .. PageSize
      BY DEF IInv, Typed, CachePages
    <3>3. CASE r.by \in Users
      <4>1. r.from = 0 /\ r.to = dcpage[k].valid
        BY <1>6, <3>3 DEF IInv, UserIo
      <4> QED
        BY <3>1, <3>2, <4>1, UnitsAre
    <3>4. CASE r.by = Flusher
      <4>1. Active(r)
        BY <3>4 DEF Active, Transfer
      <4> QED
        BY <3>1, <3>4, <4>1 DEF IInv, FlusherIo
    <3> QED
      BY <3>1, <3>3, <3>4 DEF Transfers
  <2>2. dcpage[k].valid \in 0 .. PageSize
    BY DEF IInv, Typed, CachePages
  <2>3. \A x \in o.mem : x \in Int /\ x >= dcpage[k].valid
    BY <1>0, <1>1, UnitsAre DEF IInv, Data, MemIs
  <2>4. \A x \in o.mem : x \notin span
    BY <1>0, <2>1, <2>2, <2>3, UnitsAre
  <2>5. n.disk = o.disk \ span
    BY <1>3, <1>6, <2>4
  <2> QED
    BY <1>0, <2>1, <2>5
<1> QED
  BY <1>0, <1>3, <1>4, <1>5, <1>6

LEMMA TransferKeeps ==
  ASSUME IInv, NEW r \in io, Transfer(r)
  PROVE  IInv'
<1>0. PICK k, q : k = r.key /\ q = [r EXCEPT !.done = "moved"]
  OBVIOUS
<1>1. /\ r.done = "no" /\ io' = (io \ {r}) \cup {q}
      /\ UNCHANGED <<dcpage, dirties, writer, counts, at, term>>
  BY <1>0 DEF Transfer, writing
<1>2. r \in Transfers /\ k \in Keys /\ r.op \in {"read", "write"}
  BY <1>0 DEF IInv, Typed, Transfers
<1>3. /\ q \in Transfers /\ q.op = r.op /\ q.key = k /\ q.from = r.from /\ q.to = r.to
      /\ q.by = r.by /\ q.done = "moved"
  BY <1>0, <1>2, MovedIs
<1>4. /\ old' \in [Keys -> PageData] /\ \A j \in Keys \ {k} : old'[j] = old[j]
      /\ r.op = "read" => old'[k].mem = {} /\ old'[k].disk = old[k].disk
      /\ r.op = "write" => /\ old'[k].mem = old[k].mem
                           /\ old'[k].disk = old[k].disk \ (0 .. r.to - 1)
  BY <1>0, <1>2, TransferIs
<1>5. \A j \in Keys : old'[j].mem \subseteq old[j].mem /\ old'[j].disk \subseteq old[j].disk
  BY <1>2, <1>4
<1>6. Typed' /\ \A u \in Users : Local(at'[u])
  BY <1>1, <1>3, <1>4, IoReplaced DEF IInv, Typed
<1>7. UserIo'
  <2>1. \A s \in io' : s.by \in Users =>
          LET l == at[s.by]
              n == dcpage[s.key].valid IN
            /\ l.pc \in Waits /\ l.status = "pending" /\ s.key = l.key /\ s.done \in {"no", "moved"}
            /\ s.op = "read" <=> l.rd
            /\ s.op = "read" => s.from = n /\ s.to = PageSize
            /\ s.op = "write" => s.from = 0 /\ s.to = n
    <3>1. ASSUME NEW s \in io, s.by \in Users
          PROVE  LET l == at[s.by]
                     n == dcpage[s.key].valid IN
                   /\ l.pc \in Waits /\ l.status = "pending" /\ s.key = l.key /\ s.done \in {"no", "moved"}
                   /\ s.op = "read" <=> l.rd
                   /\ s.op = "read" => s.from = n /\ s.to = PageSize
                   /\ s.op = "write" => s.from = 0 /\ s.to = n
      BY <3>1 DEF IInv, UserIo
    <3>2. \A s \in io' : s \in io \/ s = q
      BY <1>1
    <3>3. /\ q.by = r.by /\ q.key = r.key /\ q.op = r.op /\ q.from = r.from /\ q.to = r.to
          /\ q.done = "moved"
      BY <1>0, <1>3
    <3> QED
      BY <3>1, <3>2, <3>3
  <2>2. \A s, t \in io' : s.by \in Users /\ s.by = t.by => s = t
    <3>1. \A s, t \in io : s.by \in Users /\ s.by = t.by => s = t
      BY DEF IInv, UserIo
    <3> QED
      BY <1>1, <1>3, <3>1
  <2> QED
    BY <1>1, <2>1, <2>2 DEF UserIo
<1>8. Active(q) <=> Active(r)
  BY <1>1, <1>3 DEF Active
<1>9. ~Over(q) /\ ~Over(r)
  BY <1>1, <1>3 DEF Over
<1>10. \A s : Over(s) => (s \in io' <=> s \in io)
  BY <1>1, <1>9
<1>11. FlusherIo'
  <2>1. \A s \in io' : s.by = Flusher => s.op = "write" /\ s.from = 0
    BY <1>1, <1>3 DEF IInv, FlusherIo
  <2>2. \A s \in io' : Active(s) => /\ dcpage[s.key].state \in {2, 3} /\ ~AtIssue(s.key)
                                    /\ s.to <= dcpage[s.key].valid
    BY <1>0, <1>1, <1>3, <1>8 DEF IInv, FlusherIo
  <2>3. \A s, t \in io' : Active(s) /\ Active(t) /\ s.key = t.key => s = t
    <3>1. \A s, t \in io : Active(s) /\ Active(t) /\ s.key = t.key => s = t
      BY DEF IInv, FlusherIo
    <3>2. \A s \in io' : (s \in io /\ s # r) \/ s = q
      BY <1>1
    <3>3. \A s \in io : Active(s) /\ Active(q) /\ s.key = q.key => s = r
      BY <1>0, <1>3, <1>8, <3>1
    <3> QED
      BY <3>1, <3>2, <3>3
  <2>4. \A s, t \in io' : Over(s) /\ Over(t) /\ s.key = t.key => s = t
    BY <1>10 DEF IInv, FlusherIo
  <2> QED
    BY <1>1, <2>1, <2>2, <2>3, <2>4 DEF FlusherIo, Active, Over, AtIssue
<1>12. Queues'
  BY <1>1, QueuesStay DEF SameStates
<1>13. Locks' /\ Valids'
  BY <1>1 DEF IInv, Locks, LockIs, HeldBy, OneWriter, Valids, Pg
<1>14. Refs'
  BY <1>1, <1>10, RefsStay
<1>15. Terms'
  <2>1. {s \in io' : Over(s)} = {s \in io : Over(s)}
    BY <1>10
  <2> QED
    BY <1>1, <2>1 DEF IInv, Terms, Over, Dirty
<1>16. ASSUME NEW j \in Keys PROVE MemIs(j)' /\ DiskIs(j)'
  <2>1. \A x : Extends(j, x)' <=> Extends(j, x)
    BY <1>1 DEF Extends
  <2>2. MemIs(j)'
    BY <1>1, <1>5 DEF IInv, Data, MemIs
  <2>3. \A x \in old'[j].disk : x < dcpage'[j].valid \/ Extends(j, x)'
    BY <1>1, <1>5, <2>1 DEF IInv, Data, DiskIs
  <2>4. ASSUME NEW x \in Writing(j), ~(r.op = "write" /\ j = k /\ x \in r.from .. r.to - 1)
        PROVE  x \in Writing(j)'
    <3>1. CASE \E s \in io : s.key = j /\ s.op = "write" /\ s.done = "no" /\ x \in s.from .. s.to - 1
      BY <1>0, <1>1, <2>4, <3>1, WritingIs
    <3>2. CASE AtIssue(j) /\ x \in 0 .. dcpage[j].valid - 1
      <4>1. AtIssue(j)' /\ x \in 0 .. dcpage'[j].valid - 1
        BY <1>1, <3>2 DEF AtIssue
      <4> QED
        BY <4>1, WritingIs
    <3> QED
      BY <2>4, <3>1, <3>2, WritingIs
  <2>5. ASSUME NEW v \in Users, at[v].key = j, Modifies(v), ~(r.op = "write" /\ r.by = v)
        PROVE  Modifying(j)'
    <3>1. CASE at[v].pc \in {"thru", "mark", "switch"}
      BY <1>1, <2>5, <3>1 DEF Modifying, Modifies
    <3>2. CASE \E s \in io : s.by = v /\ s.op = "write" /\ s.done = "no"
      <4>1. PICK s \in io : s.by = v /\ s.op = "write" /\ s.done = "no"
        BY <3>2
      <4>2. s # r
        BY <2>5, <4>1
      <4> QED
        BY <1>1, <2>5, <4>1, <4>2 DEF Modifying, Modifies
    <3> QED
      BY <2>5, <3>1, <3>2 DEF Modifies
  <2>6. CASE dcpage[j].state \in {1, 3}
    BY <1>1, <2>2, <2>3, <2>6 DEF DiskIs
  <2>7. CASE old[j].disk \subseteq Writing(j)
    <3>1. ASSUME NEW x \in old'[j].disk PROVE x \in Writing(j)'
      <4>1. x \in old[j].disk
        BY <1>5, <3>1
      <4>2. ~(r.op = "write" /\ j = k /\ x \in r.from .. r.to - 1)
        <5> SUFFICES ASSUME r.op = "write", j = k, x \in r.from .. r.to - 1 PROVE FALSE
          OBVIOUS
        <5>1. r.from = 0
          BY DEF IInv, UserIo, FlusherIo, Typed, Transfers
        <5> QED
          BY <1>4, <3>1, <5>1
      <4> QED
        BY <2>4, <2>7, <4>1, <4>2
    <3> QED
      BY <2>2, <2>3, <3>1 DEF DiskIs
  <2>8. CASE Modifying(j)
    <3>1. PICK v \in Users : at[v].key = j /\ Modifies(v)
      BY <2>8 DEF Modifying
    <3>2. CASE ~(r.op = "write" /\ r.by = v)
      BY <2>2, <2>3, <2>5, <3>1, <3>2 DEF DiskIs
    <3>3. CASE r.op = "write" /\ r.by = v
      <4>1. j = k /\ r.to = dcpage[k].valid
        BY <1>0, <3>1, <3>3 DEF IInv, UserIo
      <4>2. old'[k].disk = old[k].disk \ (0 .. dcpage[k].valid - 1)
        BY <1>4, <3>3, <4>1
      <4>3. CASE old'[k].disk = {}
        BY <2>2, <2>3, <4>1, <4>3 DEF DiskIs
      <4>4. CASE old'[k].disk # {}
        <5>1. PICK x : x \in old[k].disk /\ x \notin 0 .. dcpage[k].valid - 1
          BY <4>2, <4>4
        <5>2. x \in Units /\ dcpage[k].valid \in 0 .. PageSize
          BY <1>2, <5>1 DEF IInv, Typed, PageData, CachePages
        <5>3. ~(x < dcpage[k].valid)
          BY <5>1, <5>2, UnitsAre
        <5>4. Extends(k, x)
          BY <1>2, <5>1, <5>3 DEF IInv, Data, DiskIs
        <5>5. Modifying(k)'
          BY <1>1, <5>4 DEF Extends, Modifying, Modifies
        <5> QED
          BY <2>2, <2>3, <4>1, <5>5 DEF DiskIs
      <4> QED
        BY <4>3, <4>4
    <3> QED
      BY <3>2, <3>3
  <2> QED
    BY <2>6, <2>7, <2>8 DEF IInv, Data, DiskIs
<1>17. \A j \in Keys : old[j].mem = {} => old'[j].mem = {}
  BY <1>5
<1>18. ReadIn'
  <2>1. \A s \in io' : s.op = "read" /\ s.done = "moved" => old'[s.key].mem = {}
    <3> SUFFICES ASSUME NEW s \in io', s.op = "read", s.done = "moved" PROVE old'[s.key].mem = {}
      OBVIOUS
    <3>1. CASE s = q
      BY <1>3, <1>4, <3>1
    <3>2. CASE s \in io
      <4>1. s.key \in Keys /\ old[s.key].mem = {}
        BY <3>2 DEF IInv, Typed, Transfers, Data, ReadIn
      <4> QED
        BY <1>17, <4>1
    <3> QED
      BY <1>1, <3>1, <3>2
  <2>2. \A u \in Users : at[u].pc \in Waits => at[u].key \in Keys
    BY Where DEF Waits
  <2>3. \A u \in Users : at[u].pc \in Waits /\ at[u].rd /\ at[u].status = "good" => old'[at[u].key].mem = {}
    BY <1>17, <2>2 DEF IInv, Data, ReadIn
  <2> QED
    BY <1>1, <2>1, <2>3 DEF ReadIn
<1>19. Copied'
  <2>1. \A u \in Users : at[u].pc # "out" => at[u].key \in Keys
    BY Where
  <2> QED
    BY <1>1, <1>5, <2>1 DEF IInv, Data, Copied
<1> QED
  BY <1>6, <1>7, <1>11, <1>12, <1>13, <1>14, <1>15, <1>16, <1>18, <1>19 DEF IInv, Data

(* The disk completes the transfer of a request, or fails to read.          *)
LEMMA AnswerKeeps ==
  ASSUME IInv, NEW r \in io, NEW status \in {"good", "bad"}, Answer(r, status),
         status = "good" => r.done = "moved", status = "bad" => r.op = "read"
  PROVE  IInv'
<1>0. PICK u \in Users : u = r.by
  BY DEF Answer
<1> DEFINE l == [at[u] EXCEPT !.status = status]
<1>1. /\ r.by = u /\ r \in Transfers /\ r.key \in Keys /\ at[u].pc \in Waits
      /\ at[u].status = "pending" /\ r.key = at[u].key /\ r.done \in {"no", "moved"}
      /\ r.op = "read" <=> at[u].rd
  BY <1>0 DEF IInv, UserIo, Typed, Transfers
<1>2. at[u] \in Places /\ Local(at[u]) /\ at[u].pc # "out"
  BY <1>1, Where DEF Waits
<1>3. /\ UNCHANGED <<dcpage, old, dirties, writer, counts, term>> /\ io' = io \ {r}
      /\ at' = [at EXCEPT ![u] = l]
  <2>1. at' = [at EXCEPT ![u].status = status]
    BY <1>0 DEF Answer
  <2> QED
    BY <2>1 DEF Answer, data, writing, IInv, Typed
<1>4. /\ l.pc = at[u].pc /\ l.op = at[u].op /\ l.key = at[u].key /\ l.range = at[u].range
      /\ l.mode = at[u].mode /\ l.want = at[u].want /\ l.status = status /\ l.rd = at[u].rd
      /\ l \in Places
  BY <1>2 DEF Places
<1> HIDE DEF l
<1>5. Local(l)
  BY <1>1, <1>2, <1>4 DEF Local
<1>6. Moves(u, l)
  BY <1>3, <1>4, <1>5 DEF Moves
<1>7. at'[u] = l /\ \A v \in Users \ {u} : at'[v] = at[v]
  BY <1>3, AtIs DEF IInv
<1>8. Typed' /\ \A v \in Users : Local(at'[v])
  <2>1. io' \subseteq Transfers /\ IsFiniteSet(io')
    BY <1>1, <1>3, IoReplaced DEF IInv
  <2>2. at' \in [Users -> Places]
    BY <1>3, <1>4, AtIs DEF IInv
  <2>3. \A v \in Users : Local(at'[v])
    BY <1>5, <1>7 DEF IInv
  <2> QED
    BY <1>3, <2>1, <2>2, <2>3 DEF IInv, Typed
<1>9. SameStates /\ Grows
  BY <1>3, SameGrows DEF SamePages
<1>10. UserIo'
  <2>1. \A s \in io' : s \in io /\ (s.by \in Users => s.by # u)
    <3>1. \A s \in io : s.by \in Users /\ s.by = r.by => s = r
      BY <1>0 DEF IInv, UserIo
    <3> QED
      BY <1>1, <1>3, <3>1
  <2> QED
    BY <1>3, <1>7, <2>1 DEF IInv, UserIo
<1>11. \A s : Over(s) => (s \in io' <=> s \in io)
  BY <1>1, <1>3 DEF Over
<1>12. FlusherIo' /\ Queues' /\ Terms' /\ Valids'
  <2>1. FlusherIo' /\ Queues'
    BY <1>3, <1>9, FlusherIoStays, QueuesStay
  <2>2. ValidAt(at[u], dcpage[l.key].valid)
    BY <1>2, <1>4 DEF IInv, Valids, Pg
  <2>3. ValidAt(l, dcpage'[l.key].valid)
    BY <1>3, <1>4, <2>2 DEF ValidAt
  <2>4. Valids'
    BY <1>6, <1>9, <2>3, ValidsStay
  <2>5. counts'.dirty = counts.dirty
    BY <1>3
  <2>6. Terms'
    BY <1>2, <1>3, <1>6, <1>9, <1>11, <2>5, TermsStay
  <2> QED
    BY <2>1, <2>4, <2>6
<1>13. Locks' /\ Refs'
  <2>1. \A v \in Users : /\ at'[v].key = at[v].key /\ at'[v].mode = at[v].mode
                         /\ at'[v].pc = "keep" <=> at[v].pc = "keep"
    BY <1>4, <1>7
  <2> QED
    BY <1>3, <1>11, <2>1, LocksStay, RefsStay
<1>14. ASSUME NEW j \in Keys PROVE MemIs(j)' /\ DiskIs(j)'
  <2>1. ~(r.op = "write" /\ r.done = "no")
    OBVIOUS
  <2>2. Modifying(j) => Modifying(j)'
    <3> SUFFICES ASSUME NEW v \in Users, at[v].key = j, Modifies(v)
                 PROVE  at'[v].key = j /\ Modifies(v)'
      BY DEF Modifying
    <3>1. at'[v].key = at[v].key /\ at'[v].pc = at[v].pc
      BY <1>4, <1>7
    <3> QED
      BY <1>3, <2>1, <3>1 DEF Modifies
  <2>3. \A x : Extends(j, x) => Extends(j, x)'
    <3>1. \A v \in Users : /\ at'[v].key = at[v].key /\ at'[v].pc = at[v].pc
                           /\ at'[v].range = at[v].range
      BY <1>4, <1>7
    <3> QED
      BY <3>1 DEF Extends
  <2>4. Writing(j) \subseteq Writing(j)'
    <3> SUFFICES ASSUME NEW x \in Writing(j) PROVE x \in Writing(j)'
      OBVIOUS
    <3>1. CASE \E s \in io : s.key = j /\ s.op = "write" /\ s.done = "no" /\ x \in s.from .. s.to - 1
      BY <1>3, <2>1, <3>1, WritingIs
    <3>2. CASE AtIssue(j) /\ x \in 0 .. dcpage[j].valid - 1
      <4>1. AtIssue(j)' /\ x \in 0 .. dcpage'[j].valid - 1
        BY <1>3, <3>2 DEF AtIssue
      <4> QED
        BY <4>1, WritingIs
    <3> QED
      BY <3>1, <3>2, WritingIs
  <2> QED
    BY <1>3, <2>2, <2>3, <2>4 DEF IInv, Data, MemIs, DiskIs
<1>15. ReadIn'
  <2>1. \A s \in io' : s.op = "read" /\ s.done = "moved" => old'[s.key].mem = {}
    BY <1>3 DEF IInv, Data, ReadIn
  <2>2. l.rd /\ l.status = "good" => old[l.key].mem = {}
    BY <1>1, <1>4 DEF IInv, Data, ReadIn
  <2>3. \A v \in Users \ {u} :
          at[v].pc \in Waits /\ at[v].rd /\ at[v].status = "good" => old[at[v].key].mem = {}
    BY DEF IInv, Data, ReadIn
  <2> QED
    BY <1>3, <1>7, <2>1, <2>2, <2>3, SMTT(20) DEF ReadIn
<1>16. Copied'
  BY <1>1, <1>3, <1>4, <1>7 DEF IInv, Data, Copied, Waits
<1> QED
  BY <1>8, <1>10, <1>12, <1>13, <1>14, <1>15, <1>16 DEF IInv, Data

(* A write fails.                                                           *)
LEMMA FailTyped ==
  ASSUME IInv, NEW r \in io, Fail(r)
  PROVE  Typed'
<1>1. CASE Answer(r, "bad")
  <2>1. /\ r.by \in Users /\ io' = io \ {r} /\ at' = [at EXCEPT ![r.by].status = "bad"]
        /\ UNCHANGED <<dcpage, old, dirties, writer, counts>>
    BY <1>1 DEF Answer, data, writing
  <2> DEFINE l == [at[r.by] EXCEPT !.status = "bad"]
  <2>2. at' = [at EXCEPT ![r.by] = l]
    BY <2>1 DEF IInv, Typed
  <2>3. l \in Places
    BY <2>1, Where DEF Places
  <2> HIDE DEF l
  <2>4. io' \subseteq Transfers /\ IsFiniteSet(io')
    BY <2>1, FS_RemoveElement DEF IInv, Typed
  <2> QED
    BY <2>1, <2>2, <2>3, <2>4, AtIs DEF IInv, Typed
<1>2. CASE ~Answer(r, "bad")
  <2>1. /\ io' = (io \ {r}) \cup {[r EXCEPT !.done = "moved"]}
        /\ UNCHANGED <<dcpage, old, dirties, writer, counts, at>>
    BY <1>2 DEF Fail, data, writing
  <2>2. [r EXCEPT !.done = "moved"] \in Transfers
    BY DEF IInv, Typed, Transfers
  <2>3. io' \subseteq Transfers /\ IsFiniteSet(io')
    BY <2>1, <2>2, FS_RemoveElement, FS_AddElement DEF IInv, Typed
  <2> QED
    BY <2>1, <2>3 DEF IInv, Typed
<1> QED
  BY <1>1, <1>2

LEMMA FailKeeps ==
  ASSUME IInv, NEW r \in io, Fail(r)
  PROVE  Typed' /\ (~spoilt' => IInv')
<1>1. CASE r.op = "read"
  BY <1>1, FailTyped, AnswerKeeps DEF Fail
<1>2. CASE r.op # "read"
  BY <1>2, FailTyped DEF Fail
<1> QED
  BY <1>1, <1>2

LEMMA DiskKeeps ==
  ASSUME IInv, NEW r \in io, Disk(r)
  PROVE  IInv'
<1>1. CASE Complete(r)
  BY <1>1, AnswerKeeps DEF Complete
<1> QED
  BY <1>1, TransferKeeps, WriteDoneKeeps, WriteDropKeeps, WriteCountKeeps DEF Disk

-----------------------------------------------------------------------------
(* The invariant is one.                                                    *)

LEMMA InitKeeps ==
  ASSUME Init
  PROVE  IInv
<1>1. /\ dcpage = [k \in Keys |-> NoPage] /\ old = [k \in Keys |-> [mem |-> Units, disk |-> {}]]
      /\ dirties = <<>> /\ writer = [pc |-> "free", by |-> "none", batch |-> <<>>]
      /\ counts = [rd |-> 0, wt |-> 0, dirty |-> 0] /\ io = {} /\ at = [u \in Users |-> Out]
      /\ term = "no"
  BY DEF Init
<1>2. /\ NoPage \in CachePages /\ NoPage.refs = 0 /\ NoPage.lock = 0 /\ NoPage.valid = 0
      /\ NoPage.state = 0
  BY UnitsAre DEF NoPage, CachePages
<1>3. \A k \in Keys : /\ dcpage[k] = NoPage
                      /\ old[k] \in PageData /\ old[k].mem = Units /\ old[k].disk = {}
  BY <1>1 DEF PageData
<1>4. \A u \in Users : at[u] = Out
  BY <1>1
<1>5. writer \in Writers /\ writer.pc = "free" /\ writer.batch = <<>> /\ writer.by = "none"
  BY <1>1, EmptyWriter
<1>6. Typed
  <2>1. counts \in Tallies
    BY <1>1 DEF Tallies
  <2>2. dirties \in Seq(Keys)
    BY <1>1
  <2>3. io \subseteq Transfers /\ IsFiniteSet(io)
    BY <1>1, FS_EmptySet
  <2>4. dcpage \in [Keys -> CachePages] /\ old \in [Keys -> PageData]
    BY <1>1, <1>2, <1>3
  <2>5. at \in [Users -> Places]
    BY <1>1, OutIs
  <2> QED
    BY <1>5, <2>1, <2>2, <2>3, <2>4, <2>5 DEF Typed
<1>7. (\A u \in Users : Local(at[u])) /\ UserIo /\ FlusherIo
  BY <1>1, <1>4, OutIs DEF UserIo, FlusherIo
<1>8. Queues
  <2>1. Range(dirties) = {} /\ Range(writer.batch) = {}
    BY <1>1, <1>5 DEF Range
  <2> QED
    BY <1>1, <1>2, <1>3, <1>5, <2>1 DEF Queues, Once, Queued, AtIssue
<1>9. Locks
  <2>1. \A k \in Keys : HeldBy(k, "EX") = {} /\ HeldBy(k, "PR") = {}
    BY <1>4, OutIs DEF HeldBy
  <2> QED
    BY <1>2, <1>3, <1>4, <2>1, OutIs, FS_EmptySet DEF Locks, LockIs, OneWriter
<1>10. Refs
  <2>1. \A k \in Keys : Using(k) = {} /\ Dropping(k) = {}
    BY <1>1, <1>4, OutIs, KeysAssumption DEF Using, Dropping
  <2>2. Cardinality({}) = 0
    BY FS_EmptySet
  <2>3. ASSUME NEW k \in Keys PROVE Referenced(k) = 0 /\ dcpage[k].refs = 0
    <3>1. /\ Cardinality(Using(k)) = 0 /\ Cardinality(Dropping(k)) = 0
          /\ dcpage[k].state = 0 /\ dcpage[k].refs = 0
      BY <1>2, <1>3, <2>1, <2>2
    <3>2. Referenced(k) = Cardinality(Using(k)) + (IF dcpage[k].state # 0 THEN 1 ELSE 0)
                            + Cardinality(Dropping(k))
      BY ReferencedIs
    <3> QED
      BY <3>1, <3>2
  <2> QED
    BY <1>4, <2>3, OutIs DEF Refs
<1>11. Valids
  <2>1. 0 % BlockSize = 0
    BY SizesAssumption
  <2> QED
    BY <1>2, <1>3, <1>4, <2>1, OutIs DEF Valids
<1>12. Data
  BY <1>1, <1>2, <1>3, <1>4, OutIs, UnitsAre DEF Data, MemIs, DiskIs, ReadIn, Copied, Waits
<1>13. Terms
  <2>1. Dirty = {} /\ {r \in io : Over(r)} = {}
    BY <1>1, <1>2, <1>3 DEF Dirty
  <2> QED
    BY <1>1, <1>4, <1>5, <2>1, OutIs, FS_EmptySet DEF Terms
<1> QED
  BY <1>6, <1>7, <1>8, <1>9, <1>10, <1>11, <1>12, <1>13 DEF IInv

(* A step that changes nothing of what the invariant is about.              *)
LEMMA SameKeeps ==
  ASSUME IInv, UNCHANGED <<dcpage, old, dirties, writer, counts, io, at, term>>
  PROVE  IInv'
<1>1. Queues'
  BY QueuesStay DEF SameStates
<1>2. writer' \in Writers /\ dirties' \in Seq(Keys) /\ \A k : AtIssue(k)' <=> AtIssue(k)
  BY DEF IInv, Typed, AtIssue
<1> QED
  BY <1>1, <1>2, QuietKeeps DEF IInv, Terms

LEMMA LinkKeeps ==
  ASSUME IInv, NEW u \in Users, Link(u)
  PROVE  IInv'
  BY SameKeeps DEF Link, data, writing

LEMMA UserKeeps ==
  ASSUME IInv, NEW u \in Users, Goes(u)
  PROVE  IInv'
<1>1. CASE Lock(u) \/ Drop(u) \/ Have(u) \/ Raise(u) \/ Lower(u) \/ StartRead(u)
  BY <1>1, LockKeeps, DropKeeps, HaveKeeps, RaiseKeeps, LowerKeeps, StartReadKeeps
<1>2. CASE Sleep(u) \/ Wait(u) \/ Link(u) \/ Woken(u) \/ SyncEnds(u) \/ AsyncEnds(u)
  BY <1>2, SleepKeeps, LinkKeeps, WokenKeeps, SyncEndsKeeps, AsyncEndsKeeps
<1>3. CASE WriteThru(u) \/ SetValid(u) \/ Mark(u) \/ Marked(u)
  BY <1>3, WriteThruKeeps, SetValidKeeps, MarkKeeps, MarkedKeeps
<1>4. CASE Modify(u)
  BY <1>4, ModifyKeeps DEF Goes, Sound
<1> QED
  BY <1>1, <1>2, <1>3, <1>4 DEF Goes

SoFar == Typed /\ (~spoilt => IInv)

LEMMA UpToKeeps ==
  ASSUME IInv, ~spoilt, Next
  PROVE  SoFar'
<1>1. CASE \E u \in Users : Goes(u) \/ (Sound /\ (Find(u) \/ PfRel(u)))
  BY <1>1, UserKeeps, FindKeeps, PfRelKeeps DEF SoFar, IInv
<1>2. CASE \E r \in io : Disk(r)
  BY <1>2, DiskKeeps DEF SoFar, IInv
<1>3. CASE Flush \/ (Sound /\ TermStart) \/ Term
  BY <1>3, FlushTickKeeps, TermStartKeeps, TermKeeps DEF Flush, SoFar, IInv
<1>4. CASE Writer
  BY <1>4, TakeKeeps, SetStateKeeps, IssueKeeps, SpreadTickKeeps DEF Writer, SoFar, IInv
<1>5. CASE \E u \in Users : at[u].pc = "mapped" /\ Modify(u)
  BY <1>5, ModifyTyped, ModifyKeeps DEF SoFar
<1>6. CASE \E r \in io : Fail(r)
  BY <1>6, FailKeeps DEF SoFar
<1>7. CASE \E k \in Keys : Reclaim(k)
  BY <1>7, ReclaimKeeps DEF SoFar
<1> QED
  BY <1>1, <1>2, <1>3, <1>4, <1>5, <1>6, <1>7 DEF Next

LEMMA NextKeeps ==
  ASSUME SoFar, [Next]_vars
  PROVE  SoFar'
<1>1. CASE Next
  <2>1. ~spoilt
    BY <1>1 DEF Next, Goes, Disk, Flush, Writer, Term, Sound
  <2> QED
    BY <1>1, <2>1, UpToKeeps DEF SoFar
<1>2. CASE UNCHANGED vars
  <2>1. UNCHANGED <<dcpage, old, dirties, writer, counts, io, at, term, spoilt>>
    BY <1>2 DEF vars, data, writing
  <2>2. Typed'
    BY <2>1 DEF SoFar, Typed
  <2> QED
    BY <2>1, <2>2, SameKeeps DEF SoFar
<1> QED
  BY <1>1, <1>2

LEMMA Invariance == Spec => []SoFar
<1>1. Init => SoFar
  BY InitKeeps DEF SoFar, IInv
<1>2. SoFar /\ [Next]_vars => SoFar'
  BY NextKeeps
<1> QED
  BY <1>1, <1>2, PTL DEF Spec

-----------------------------------------------------------------------------
(* The theorems *)

(* The rest of the variables have types that each step keeps by itself.     *)
Sleepers == Users \cup {Terminator}

Stages == {"no", "timer", "timerwait", "timerwoken", "start", "starting", "test", "again",
           "restarting", "wait", "woken", "freed"}

Rest ==
  /\ collision \in BOOLEAN /\ flush \in {"queued", "running", "gone"}
  /\ event \in {0, 1} /\ asleep \subseteq Sleepers /\ linking \in Sleepers \cup {None}
  /\ term \in Stages /\ spoilt \in BOOLEAN

LEMMA ReturnTyped ==
  ASSUME Rest, NEW by, Return(by)
  PROVE  flush' \in {"queued", "running", "gone"} /\ term' \in Stages
  BY DEF Rest, Return, Stages

LEMMA EventTyped ==
  ASSUME Rest
  PROVE  LET good == event' \in {0, 1} /\ asleep' \subseteq Sleepers
                       /\ linking' \in Sleepers \cup {None} IN
         /\ SetEvent => good
         /\ UNCHANGED events => good
         /\ \A w \in Sleepers : TestEvent(w) \/ LinkEvent(w) \/ ClearEvent(w) => good
  BY DEF Rest, SetEvent, TestEvent, LinkEvent, ClearEvent, events

LEMMA NextRest ==
  ASSUME Rest, [Next]_vars
  PROVE  Rest'
<1> DEFINE Stay == /\ collision' \in BOOLEAN /\ flush' \in {"queued", "running", "gone"}
                   /\ term' \in Stages
           Woke == /\ event' \in {0, 1} /\ asleep' \subseteq Sleepers
                   /\ linking' \in Sleepers \cup {None}
<1>1. UNCHANGED <<collision, flush, term>> => Stay
  BY DEF Rest
<1>2. SetEvent \/ UNCHANGED events => Woke
  BY EventTyped
<1>3. ASSUME NEW u \in Users, Goes(u) \/ (Sound /\ (Find(u) \/ PfRel(u)))
      PROVE  Stay /\ Woke /\ spoilt' \in BOOLEAN
  <2>1. UNCHANGED <<collision, flush, term>> /\ spoilt' \in BOOLEAN
    BY <1>3 DEF Goes, Sound, Lock, Drop, Have, Raise, Lower, StartRead, Sleep, Wait, Link, Woken,
                SyncEnds, AsyncEnds, WriteThru, SetValid, Mark, Marked, Modify, Find, PfRel, writing
  <2>2. CASE Wait(u) \/ Link(u) \/ Woken(u)
    BY <1>1, <2>1, <2>2, EventTyped DEF Wait, Link, Woken, Sleepers
  <2>3. CASE SyncEnds(u)
    BY <1>1, <1>2, <2>1, <2>3 DEF SyncEnds, PassOn
  <2>4. CASE ~(Wait(u) \/ Link(u) \/ Woken(u) \/ SyncEnds(u))
    BY <1>1, <1>2, <1>3, <2>1, <2>4 DEF Goes, Lock, Drop, Have, Raise, Lower, StartRead, Sleep, AsyncEnds,
                            WriteThru, SetValid, Mark, Marked, Modify, Find, PfRel
  <2> QED
    BY <1>1, <2>1, <2>2, <2>3, <2>4
<1>4. ASSUME NEW r \in io, Disk(r) \/ Fail(r)
      PROVE  Stay /\ Woke /\ (spoilt \in BOOLEAN => spoilt' \in BOOLEAN)
  <2>1. ASSUME Answer(r, "good") \/ Answer(r, "bad")
        PROVE  UNCHANGED <<collision, flush, term>> /\ (SetEvent \/ UNCHANGED events)
    BY <2>1 DEF Answer, writing
  <2>2. UNCHANGED <<collision, flush, term>> /\ (SetEvent \/ UNCHANGED events)
    BY <1>4, <2>1 DEF Disk, Transfer, Complete, WriteDone, WriteDrop, WriteCount, Written, Fail,
                      writing
  <2>3. spoilt \in BOOLEAN => spoilt' \in BOOLEAN
    BY <1>4 DEF Disk, Sound, Fail
  <2> QED
    BY <1>1, <1>2, <2>2, <2>3
<1>5. ASSUME Flush \/ (Sound /\ TermStart) \/ Term
      PROVE  Stay /\ Woke /\ spoilt' \in BOOLEAN
  <2>1. spoilt' \in BOOLEAN
    BY <1>5 DEF Flush, Term, Sound
  <2>2. CASE Flush
    BY <1>2, <2>1, <2>2 DEF Flush, FlushTick, Rest
  <2>3. CASE TermStart
    BY <2>1, <2>3 DEF TermStart, writing, Rest, Stages
  <2>4. CASE TermTimer \/ TermTest \/ TermWrite
    BY <1>2, <2>1, <2>4 DEF TermTimer, TermTest, TermWrite, writing, Rest, Stages
  <2>5. CASE TermWait \/ TermLink \/ TermWoken
    <3>1. Woke
      BY <2>5, EventTyped DEF TermWait, TermLink, TermWoken, Sleepers
    <3> QED
      BY <2>1, <2>5, <3>1 DEF TermWait, TermLink, TermWoken, writing, Rest, Stages
  <2> QED
    BY <1>5, <2>1, <2>2, <2>3, <2>4, <2>5 DEF Term
<1>6. ASSUME Writer
      PROVE  Stay /\ Woke /\ spoilt' \in BOOLEAN
  <2>1. spoilt' \in BOOLEAN
    BY <1>6 DEF Writer, Sound
  <2>2. CASE Take \/ SetState \/ SpreadTick
    <3>1. SetEvent \/ UNCHANGED events
      BY <2>2 DEF Take, SetState, SpreadTick
    <3>2. (UNCHANGED <<flush, term>> \/ Return(writer.by)) /\ collision' = collision
      BY <2>2 DEF Take, SetState, SpreadTick
    <3> QED
      BY <1>2, <2>1, <3>1, <3>2, ReturnTyped DEF Rest
  <2>3. CASE Issue
    <3>1. SetEvent \/ UNCHANGED events
      BY <2>3 DEF Issue
    <3>2. (UNCHANGED <<flush, term>> \/ Return(writer.by)) /\ collision' \in BOOLEAN
      BY <2>3 DEF Issue, Rest
    <3> QED
      BY <1>2, <2>1, <3>1, <3>2, ReturnTyped DEF Rest
  <2> QED
    BY <1>6, <2>2, <2>3 DEF Writer
<1>7. ASSUME (\E u \in Users : Modify(u)) \/ (\E k \in Keys : Reclaim(k))
      PROVE  Stay /\ Woke /\ (spoilt \in BOOLEAN => spoilt' \in BOOLEAN)
  <2>1. UNCHANGED <<collision, flush, term, events>>
    BY <1>7 DEF Modify, Reclaim, writing
  <2>2. spoilt \in BOOLEAN => spoilt' \in BOOLEAN
    BY <1>7 DEF Modify, Reclaim
  <2> QED
    BY <1>1, <1>2, <2>1, <2>2
<1>8. CASE Next
  <2>1. Stay /\ Woke /\ spoilt' \in BOOLEAN
    BY <1>3, <1>4, <1>5, <1>6, <1>7, <1>8 DEF Next, Rest
  <2> QED
    BY <2>1 DEF Rest
<1>9. CASE UNCHANGED vars
  BY <1>9 DEF vars, writing, events, Rest
<1> QED
  BY <1>8, <1>9

(* The variables keep their types, after the first of the faults too: what  *)
(* is valid of a page never exceeds the page, the state is one of the four, *)
(* the queues hold pages of the disk, and only a request's thread or term   *)
(* is in the list of the event flag.                                        *)
THEOREM TypeCorrect == Spec => [](Typed /\ Rest)
<1>1. Init => Rest
  BY DEF Init, Rest, Stages, Sleepers
<1>2. Rest /\ [Next]_vars => Rest'
  BY NextRest
<1>3. SoFar => Typed
  BY DEF SoFar
<1> QED
  BY <1>1, <1>2, <1>3, Invariance, PTL DEF Spec

(* Up to the first reclaim of a page under the routine that has just queued *)
(* it, the first pfupd and the first write that fails: a page that requests *)
(* use, or that is queued or is being written, is referenced for each of    *)
(* these, so that it is not reclaimed; and its lock count is what the       *)
(* requests hold (oz_knl_cache_find, _conv and _done as oz_knl_dcache.c     *)
(* calls them).  A request that has left its reference to the queue, and    *)
(* not unlocked the page yet, is not among them.                           *)
THEOREM Held == Spec => []PagesHeld
<1>1. SoFar => PagesHeld
  <2>1. SoFar /\ ~spoilt => \A k \in Keys : dcpage[k].refs >= Referenced(k) /\ LockIs(k)
    BY DEF SoFar, IInv, Refs, Locks
  <2> QED
    BY <2>1 DEF PagesHeld, LockIs, HeldBy
<1> QED
  BY <1>1, Invariance, PTL

(* Up to the first of the same three faults, and whatever else of reads,    *)
(* writes, reads that fail and the timers meets, nothing that was written   *)
(* to the cache is lost: what is valid of a page is the latest; where the   *)
(* disk is behind, a request is about to note it, or the page is queued, or *)
(* a write under way brings it; and when oz_knl_dcache_term is done, the    *)
(* disk has everything.                                                    *)
THEOREM Kept == Spec => []NothingLost
<1>1. ASSUME IInv PROVE NothingLost
  <2>1. ASSUME NEW k \in Keys
        PROVE  LET p == dcpage[k] IN
               /\ p.valid % BlockSize = 0
               /\ old[k].mem \cap 0..p.valid - 1 = {}
               /\ \/ \E u \in Users : at[u].key = k /\ Modifies(u)
                  \/ /\ old[k].disk \subseteq 0..p.valid - 1
                     /\ old[k].disk = {} \/ p.state \in {1, 3} \/ old[k].disk \subseteq Writing(k)
               /\ p.state = 1 => Queued(k)
    <3>1. /\ dcpage[k].valid \in 0 .. PageSize /\ old[k].mem \subseteq Units
          /\ old[k].disk \subseteq Units
      BY <1>1 DEF IInv, Typed, CachePages, PageData
    <3>2. dcpage[k].valid % BlockSize = 0 /\ (dcpage[k].state = 1 => Queued(k))
      BY <1>1 DEF IInv, Valids, Queues
    <3>3. MemIs(k) /\ DiskIs(k)
      BY <1>1 DEF IInv, Data
    <3>4. old[k].mem \cap 0..dcpage[k].valid - 1 = {}
      BY <3>1, <3>3, UnitsAre DEF MemIs
    <3>5. CASE Modifying(k)
      BY <3>2, <3>4, <3>5 DEF Modifying
    <3>6. CASE ~Modifying(k)
      <4>1. \A x : ~Extends(k, x)
        BY <3>6 DEF Extends, Modifying, Modifies
      <4>2. \A x \in old[k].disk : x < dcpage[k].valid
        BY <3>3, <4>1 DEF DiskIs
      <4>3. old[k].disk \subseteq 0..dcpage[k].valid - 1
        BY <3>1, <4>2, UnitsAre
      <4>4. dcpage[k].state \in {1, 3} \/ old[k].disk \subseteq Writing(k)
        BY <3>3, <3>6 DEF DiskIs
      <4> QED
        BY <3>2, <3>4, <4>3, <4>4
    <3> QED
      BY <3>5, <3>6
  <2>2. ASSUME term = "freed", NEW k \in Keys PROVE old[k].disk = {}
    <3>1. /\ counts.dirty = 0 /\ counts.dirty = Cardinality(Dirty) + Cardinality({r \in io : Over(r)})
          /\ \A u \in Users : at[u].pc = "out"
      BY <1>1, <2>2 DEF IInv, Terms
    <3>2. /\ IsFiniteSet(Dirty) /\ Cardinality(Dirty) \in Nat /\ Cardinality({r \in io : Over(r)}) \in Nat
      BY <1>1, Finite DEF IInv
    <3>3. Cardinality(Dirty) = 0
      BY <3>1, <3>2
    <3>4. Dirty = {}
      BY <3>2, <3>3, FS_EmptySet
    <3>5. dcpage[k].state = 0
      BY <3>4 DEF Dirty
    <3>6. \A r \in io : r.by \notin Users
      BY <1>1, <3>1 DEF IInv, UserIo, Waits
    <3>7. ~Modifying(k)
      BY <3>1, <3>6 DEF Modifying, Modifies
    <3>8. old[k].disk \subseteq Writing(k)
      BY <1>1, <3>5, <3>7 DEF IInv, Data, DiskIs
    <3>9. ASSUME NEW x \in Writing(k) PROVE FALSE
      <4>1. ~AtIssue(k)
        BY <1>1, <3>5 DEF IInv, Queues
      <4>2. PICK r \in io : r.key = k /\ r.done = "no"
        BY <4>1, <3>9, WritingIs
      <4>3. r.by = Flusher
        BY <1>1, <3>6 DEF IInv, Typed, Transfers
      <4>4. Active(r)
        BY <4>2, <4>3 DEF Active
      <4> QED
        BY <1>1, <3>5, <4>2, <4>4 DEF IInv, FlusherIo
    <3> QED
      BY <3>8, <3>9
  <2> QED
    BY <2>1, <2>2 DEF NothingLost
<1>2. SoFar => NothingLost
  BY <1>1 DEF SoFar, NothingLost
<1> QED
  BY <1>2, Invariance, PTL
=============================================================================
