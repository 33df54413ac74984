--------------------------- MODULE MutexDevProofs ---------------------------
(***************************************************************************)
(* Proofs about MutexDev for any finite set of channels and all six modes, *)
(* when the users keep to one request at a time: the counters are exact,   *)
(* the modes held are compatible, no oz_crash is reached, and the device   *)
(* implements LockTable.                                                   *)
(***************************************************************************)
EXTENDS MutexDev, QueueLemmas, FiniteSetTheorems, TLAPS

-----------------------------------------------------------------------------
(* The tables *)

(* The table of compatible modes says the same as the four rights that     *)
(* trytoconvert tests.                                                     *)
LEMMA CompatByRights ==
  ASSUME NEW a \in Modes, NEW b \in Modes
  PROVE  b \in Compat(a) <=> /\ a \in SelfRead => b \in OthersRead
                             /\ a \in SelfWrite => b \in OthersWrite
                             /\ a \notin OthersRead => b \notin SelfRead
                             /\ a \notin OthersWrite => b \notin SelfWrite
  BY DEF Modes, Compat, SelfRead, SelfWrite, OthersRead, OthersWrite

LEMMA CompatSymmetric ==
  ASSUME NEW a \in Modes, NEW b \in Modes, b \in Compat(a)
  PROVE  a \in Compat(b)
  BY CompatByRights

-----------------------------------------------------------------------------
(* Counting *)

LEMMA AtFinite ==
  ASSUME NEW S
  PROVE  IsFiniteSet(At(S)) /\ Cardinality(At(S)) \in Nat
<1>1. IsFiniteSet(At(S))
  BY ChansAssumption, FS_Subset DEF At
<1> QED
  BY <1>1, FS_CardinalityType

(* What a conversion of one channel does to the number of channels whose   *)
(* mode is in a set.                                                       *)
LEMMA CountConverted ==
  ASSUME curmode \in [Chans -> Modes], NEW c \in Chans, NEW m \in Modes, NEW S,
         curmode' = [curmode EXCEPT ![c] = m]
  PROVE  Cardinality(At(S)') = Cardinality(At(S)) - One(curmode[c] \in S) + One(m \in S)
<1> DEFINE Rest == {d \in Chans \ {c} : curmode[d] \in S}
<1>1. IsFiniteSet(Rest) /\ c \notin Rest
  BY ChansAssumption, FS_Subset
<1>2. Cardinality(Rest) \in Nat /\ Cardinality(Rest \cup {c}) = Cardinality(Rest) + 1
  BY <1>1, FS_CardinalityType, FS_AddElement
<1>3. At(S) = IF curmode[c] \in S THEN Rest \cup {c} ELSE Rest
  BY DEF At
<1>4. At(S)' = IF m \in S THEN Rest \cup {c} ELSE Rest
  BY DEF At
<1> QED
  BY <1>2, <1>3, <1>4 DEF One

(* If nobody is counted once c's own mode is taken off, no other channel   *)
(* has such a mode.                                                        *)
LEMMA NoOther ==
  ASSUME NEW c \in Chans, NEW S, Cardinality(At(S)) - One(curmode[c] \in S) = 0
  PROVE  \A d \in Chans \ {c} : curmode[d] \notin S
<1> SUFFICES ASSUME NEW d \in Chans \ {c}, curmode[d] \in S PROVE FALSE
  OBVIOUS
<1>1. IsFiniteSet(At(S)) /\ IsFiniteSet(At(S) \ {d}) /\ d \in At(S)
  BY AtFinite, FS_RemoveElement DEF At
<1>2. Cardinality(At(S)) \in Nat /\ Cardinality(At(S)) = Cardinality(At(S) \ {d}) + 1
      /\ Cardinality(At(S) \ {d}) \in Nat
  BY <1>1, FS_CardinalityType, FS_RemoveElement
<1>3. CASE curmode[c] \in S
  <2>1. c \in At(S) \ {d}
    BY <1>3 DEF At
  <2>2. Cardinality(At(S) \ {d}) # 0
    BY <1>1, <2>1, FS_EmptySet
  <2> QED
    BY <1>2, <1>3, <2>2 DEF One
<1>4. CASE curmode[c] \notin S
  BY <1>2, <1>4 DEF One
<1> QED
  BY <1>3, <1>4

-----------------------------------------------------------------------------
(* The inductive invariant.  What keeps the counters exact is that a       *)
(* waiting request still names the mode its channel has, which is why no   *)
(* channel may have two of them.                                           *)

QueueFresh ==
  /\ \A i \in 1 .. Len(waiters) :
       waiters[i].chan \in opened /\ waiters[i].oldmode = curmode[waiters[i].chan]
  /\ \A i, j \in 1 .. Len(waiters) : waiters[i].chan = waiters[j].chan => i = j

ClosedNull == \A c \in Chans \ opened : curmode[c] = "NL"

CloseReady ==
  op.what = "close" =>
    op.chan \in opened /\ curmode[op.chan] = "NL" /\ ~Outstanding(op.chan)

UnblockersOpen == \A b \in unblockers : b.chan \in opened

IInv ==
  /\ TypeOK /\ CountsExact /\ HoldersCompatible /\ NeverCrashes
  /\ QueueFresh /\ ClosedNull /\ CloseReady /\ UnblockersOpen

LEMMA InitIInv == Init => IInv
<1> SUFFICES ASSUME Init PROVE IInv
  OBVIOUS
<1>1. TypeOK
  <2>1. waiters \in Seq(Requests) /\ Len(waiters) = 0
    BY DEF Init
  <2>2. crashed \in BOOLEAN
    BY DEF Init
  <2>3. curmode \in [Chans -> Modes] /\ opened \in SUBSET Chans
    BY DEF Init, Modes
  <2>4. op \in [what : {"idle", "grant", "close", "abort"}, chan : Chans \cup {None}]
    BY DEF Init, Idle
  <2>5. counts \in Counts /\ pos \in 1 .. Len(waiters) + 1
    BY <2>1 DEF Init, NoCounts, Counts
  <2>6. unblockers \in SUBSET [chan : Chans, oldmode : Modes]
    BY DEF Init
  <2> QED
    BY <2>1, <2>2, <2>3, <2>4, <2>5, <2>6 DEF TypeOK
<1>2. CountsExact
  <2>1. At(SelfRead) = {} /\ At(SelfWrite) = {} /\ At(Modes \ OthersRead) = {}
        /\ At(Modes \ OthersWrite) = {}
    BY DEF Init, At, SelfRead, SelfWrite, OthersRead, OthersWrite
  <2> QED
    BY <2>1, FS_EmptySet DEF Init, CountsExact, NoCounts
<1>3. HoldersCompatible
  <2>1. "NL" \in Compat("NL")
    BY CompatByRights DEF Modes, SelfRead, SelfWrite, OthersRead, OthersWrite
  <2> QED
    BY <2>1 DEF Init, HoldersCompatible
<1> QED
  BY <1>1, <1>2, <1>3 DEF Init, IInv, NeverCrashes, QueueFresh, ClosedNull, CloseReady,
     UnblockersOpen, Idle

(* A conversion that trytoconvert allows. *)
LEMMA Converting ==
  ASSUME TypeOK, CountsExact, HoldersCompatible, NEW c \in Chans, NEW new \in Modes,
         MayConvert(curmode[c], new), counts' = Converted(curmode[c], new),
         curmode' = [curmode EXCEPT ![c] = new]
  PROVE  /\ counts' \in Counts /\ CountsExact' /\ HoldersCompatible'
         /\ Abstract!SetMode(c, new)
<1> DEFINE old == curmode[c]
<1>1. old \in Modes /\ curmode \in [Chans -> Modes] /\ counts \in Counts
  BY DEF TypeOK
<1>2. \A m \in Modes : One(m \in SelfRead) \in Int /\ One(m \in SelfWrite) \in Int
                      /\ One(m \notin OthersRead) \in Int /\ One(m \notin OthersWrite) \in Int
  BY DEF One
<1>3. /\ counts'.ar = counts.ar - One(old \in SelfRead) + One(new \in SelfRead)
      /\ counts'.aw = counts.aw - One(old \in SelfWrite) + One(new \in SelfWrite)
      /\ counts'.br = counts.br - One(old \notin OthersRead) + One(new \notin OthersRead)
      /\ counts'.bw = counts.bw - One(old \notin OthersWrite) + One(new \notin OthersWrite)
      /\ counts' \in Counts
  BY <1>1, <1>2 DEF Converted, With, Without, Counts
<1>4. \A m \in Modes : /\ One(m \in Modes \ OthersRead) = One(m \notin OthersRead)
                      /\ One(m \in Modes \ OthersWrite) = One(m \notin OthersWrite)
  BY DEF One
<1>5. CountsExact'
  <2>1. /\ Cardinality(At(SelfRead)') = counts'.ar
        /\ Cardinality(At(SelfWrite)') = counts'.aw
    BY <1>1, <1>3, CountConverted, ZenonT(60) DEF CountsExact
  <2>2. Cardinality(At(Modes \ OthersRead)') = counts'.br
    <3>1. Cardinality(At(Modes \ OthersRead)')
            = counts.br - One(old \in Modes \ OthersRead) + One(new \in Modes \ OthersRead)
      BY <1>1, CountConverted DEF CountsExact
    <3> QED
      BY <1>1, <1>3, <1>4, <3>1
  <2>3. Cardinality(At(Modes \ OthersWrite)') = counts'.bw
    <3>1. Cardinality(At(Modes \ OthersWrite)')
            = counts.bw - One(old \in Modes \ OthersWrite) + One(new \in Modes \ OthersWrite)
      BY <1>1, CountConverted DEF CountsExact
    <3> QED
      BY <1>1, <1>3, <1>4, <3>1
  <2> QED
    BY <2>1, <2>2, <2>3 DEF CountsExact, At, SelfRead, SelfWrite, OthersRead, OthersWrite, Modes
<1>6. \A d \in Chans \ {c} : curmode[d] \in Compat(new)
  <2> SUFFICES ASSUME NEW d \in Chans \ {c} PROVE curmode[d] \in Compat(new)
    OBVIOUS
  <2>1. curmode[d] \in Modes
    BY <1>1
  <2>2. new \in SelfRead => curmode[d] \in OthersRead
    <3>1. new \in SelfRead => counts.br - One(old \notin OthersRead) = 0
      BY DEF MayConvert, CanHave, Without
    <3> QED
      BY <1>1, <1>4, <2>1, <3>1, NoOther DEF CountsExact
  <2>3. new \in SelfWrite => curmode[d] \in OthersWrite
    <3>1. new \in SelfWrite => counts.bw - One(old \notin OthersWrite) = 0
      BY DEF MayConvert, CanHave, Without
    <3> QED
      BY <1>1, <1>4, <2>1, <3>1, NoOther DEF CountsExact
  <2>4. new \notin OthersRead => curmode[d] \notin SelfRead
    <3>1. new \notin OthersRead => counts.ar - One(old \in SelfRead) = 0
      BY DEF MayConvert, CanHave, Without
    <3> QED
      BY <3>1, NoOther DEF CountsExact
  <2>5. new \notin OthersWrite => curmode[d] \notin SelfWrite
    <3>1. new \notin OthersWrite => counts.aw - One(old \in SelfWrite) = 0
      BY DEF MayConvert, CanHave, Without
    <3> QED
      BY <3>1, NoOther DEF CountsExact
  <2> QED
    BY <2>1, <2>2, <2>3, <2>4, <2>5, CompatByRights
<1>7. HoldersCompatible'
  <2> SUFFICES ASSUME NEW d \in Chans, NEW e \in Chans, d # e
               PROVE  curmode'[d] \in Compat(curmode'[e])
    BY DEF HoldersCompatible
  <2>1. CASE d # c /\ e # c
    BY <1>1, <2>1 DEF HoldersCompatible
  <2>2. CASE e = c
    BY <1>1, <1>6, <2>2
  <2>3. CASE d = c
    <3>1. curmode[e] \in Compat(new)
      BY <1>6, <2>3
    <3> QED
      BY <1>1, <2>3, <3>1, CompatSymmetric
  <2> QED
    BY <2>1, <2>2, <2>3
<1>8. Abstract!SetMode(c, new)
  BY <1>6 DEF Abstract!SetMode, Abstract!Compat, Compat, Modes, Abstract!Modes
<1> QED
  BY <1>3, <1>5, <1>7, <1>8

-----------------------------------------------------------------------------
(* Each action preserves the invariant. *)

(* A step that converts nothing leaves the modes and the counters right. *)
LEMMA ModesKept ==
  ASSUME CountsExact, HoldersCompatible, UNCHANGED <<curmode, counts>>
  PROVE  CountsExact' /\ HoldersCompatible'
  BY DEF CountsExact, HoldersCompatible, At

(* An open channel with no request outstanding is granted a mode at once. *)
LEMMA GrantIInv ==
  ASSUME IInv, NEW c \in opened, NEW new \in Modes, NEW then \in {"grant", "close"},
         MayConvert(curmode[c], new), Grant(c, new, then),
         \A i \in 1 .. Len(waiters) : waiters[i].chan # c,
         then = "close" => new = "NL" /\ ~Outstanding(c)
  PROVE  IInv' /\ Abstract!SetMode(c, new)
<1>1. c \in Chans /\ curmode \in [Chans -> Modes] /\ waiters \in Seq(Requests)
  BY DEF IInv, TypeOK
<1>2. /\ counts' \in Counts /\ CountsExact' /\ HoldersCompatible'
      /\ Abstract!SetMode(c, new)
  BY <1>1, Converting DEF IInv, Grant
<1>3. curmode' = [curmode EXCEPT ![c] = new] /\ UNCHANGED <<opened, waiters, unblockers>>
      /\ pos' = 1
  BY DEF Grant
<1>4. TypeOK'
  <2>1. op' \in [what : {"idle", "grant", "close", "abort"}, chan : Chans \cup {None}]
    BY <1>1 DEF Grant, Idle
  <2>2. crashed' \in BOOLEAN
    BY Zenon DEF Grant, IInv, TypeOK
  <2>3. pos' \in 1 .. Len(waiters') + 1
    BY <1>1, <1>3
  <2>4. curmode' \in [Chans -> Modes]
    BY <1>1, <1>3
  <2>5. opened' \in SUBSET Chans /\ waiters' \in Seq(Requests)
        /\ unblockers' \in SUBSET [chan : Chans, oldmode : Modes]
    BY <1>3 DEF IInv, TypeOK
  <2> QED
    BY <1>2, <2>1, <2>2, <2>3, <2>4, <2>5 DEF TypeOK
<1>5. NeverCrashes'
  BY DEF IInv, NeverCrashes, Grant
<1>6. QueueFresh'
  <2>1. \A i \in 1 .. Len(waiters) : waiters[i].chan \in Chans \ {c}
    BY DEF IInv, QueueFresh, TypeOK
  <2> QED
    BY <1>1, <1>3, <2>1 DEF IInv, QueueFresh
<1>7. ClosedNull'
  BY <1>1, <1>3 DEF IInv, ClosedNull
<1>8. CloseReady'
  <2> SUFFICES ASSUME op'.what = "close"
               PROVE  op'.chan = c /\ then = "close"
    BY <1>1, <1>3 DEF CloseReady, Outstanding
  <2> QED
    BY DEF Grant, Idle
<1>9. UnblockersOpen'
  BY <1>3 DEF IInv, UnblockersOpen
<1> QED
  BY <1>2, <1>4, <1>5, <1>6, <1>7, <1>8, <1>9 DEF IInv

LEMMA CreateIInv ==
  ASSUME IInv, NEW c \in Chans, Create(c) \/ Lookup(c)
  PROVE  IInv'
<1>1. /\ op = Idle /\ opened' = opened \cup {c} /\ UNCHANGED <<curmode, op, pos, crashed>>
      /\ \/ opened = {} /\ counts' = NoCounts /\ waiters' = <<>> /\ unblockers' = {}
         \/ UNCHANGED <<counts, waiters, unblockers>>
  BY DEF Create, Lookup, Unlocked
<1>2. ASSUME opened = {}
      PROVE  waiters = <<>> /\ unblockers = {} /\ counts = NoCounts
  <2>1. waiters \in Seq(Requests) /\ Len(waiters) = 0
    BY <1>2 DEF IInv, TypeOK, QueueFresh
  <2>2. unblockers = {}
    BY <1>2 DEF IInv, UnblockersOpen
  <2>3. /\ At(SelfRead) = {} /\ At(SelfWrite) = {}
        /\ At(Modes \ OthersRead) = {} /\ At(Modes \ OthersWrite) = {}
    BY <1>2 DEF IInv, ClosedNull, At, SelfRead, SelfWrite, OthersRead, OthersWrite
  <2>4. counts.ar = 0 /\ counts.aw = 0 /\ counts.br = 0 /\ counts.bw = 0
    BY <2>3, FS_EmptySet DEF IInv, CountsExact
  <2>5. counts = NoCounts
    BY <2>4 DEF IInv, TypeOK, Counts, NoCounts
  <2> QED
    BY <2>1, <2>2, <2>5
<1>3. UNCHANGED <<counts, waiters, unblockers, curmode, op, pos>>
  BY <1>1, <1>2
<1>4. TypeOK'
  <2>1. crashed' \in BOOLEAN
    BY <1>1, Zenon DEF IInv, TypeOK
  <2> QED
    BY <1>1, <1>3, <2>1 DEF IInv, TypeOK
<1>5. CountsExact' /\ HoldersCompatible'
  BY <1>3, ModesKept DEF IInv
<1>6. NeverCrashes'
  BY <1>1 DEF IInv, NeverCrashes
<1>7. QueueFresh' /\ ClosedNull' /\ UnblockersOpen'
  BY <1>1, <1>3 DEF IInv, QueueFresh, ClosedNull, UnblockersOpen
<1>8. CloseReady'
  BY <1>1, <1>3 DEF CloseReady, Idle
<1> QED
  BY <1>4, <1>5, <1>6, <1>7, <1>8 DEF IInv

LEMMA EnqueueIInv ==
  ASSUME IInv, NEW c \in opened, NEW new \in Modes, NEW express \in BOOLEAN, op = Idle,
         Enqueue(c, new, express), \A i \in 1 .. Len(waiters) : waiters[i].chan # c
  PROVE  IInv'
<1> DEFINE w == [chan |-> c, oldmode |-> curmode[c], newmode |-> new, express |-> express]
<1>1. c \in Chans /\ curmode \in [Chans -> Modes] /\ waiters \in Seq(Requests)
      /\ pos \in 1 .. Len(waiters) + 1 /\ Len(waiters) \in Nat
  BY DEF IInv, TypeOK
<1>2. w \in Requests /\ w.chan = c /\ w.oldmode = curmode[c]
  <2>1. w.express \in BOOLEAN
    BY Zenon
  <2> QED
    BY <1>1, <2>1 DEF Requests
<1>3. waiters' = Append(waiters, w) /\ unblockers' \subseteq unblockers
      /\ UNCHANGED <<opened, curmode, counts, op, pos, crashed>>
  BY DEF Enqueue
<1> HIDE DEF w
<1>4. /\ waiters' \in Seq(Requests) /\ Len(waiters') = Len(waiters) + 1
      /\ waiters'[Len(waiters) + 1] = w
      /\ \A j \in 1 .. Len(waiters) : waiters'[j] = waiters[j]
  BY <1>1, <1>2, <1>3, AppendElements
<1>5. TypeOK'
  <2>1. crashed' \in BOOLEAN
    BY <1>3, Zenon DEF IInv, TypeOK
  <2>2. pos' \in 1 .. Len(waiters') + 1
    BY <1>1, <1>3, <1>4
  <2> QED
    BY <1>3, <1>4, <2>1, <2>2 DEF IInv, TypeOK
<1>6. CountsExact' /\ HoldersCompatible'
  BY <1>3, ModesKept DEF IInv
<1>7. NeverCrashes'
  BY <1>3 DEF IInv, NeverCrashes
<1>8. QueueFresh'
  <2>1. \A i \in 1 .. Len(waiters') : i \in 1 .. Len(waiters) \/ i = Len(waiters) + 1
    BY <1>1, <1>4
  <2> QED
    BY <1>2, <1>3, <1>4, <2>1 DEF IInv, QueueFresh
<1>9. ClosedNull' /\ UnblockersOpen' /\ CloseReady'
  BY <1>3 DEF IInv, ClosedNull, UnblockersOpen, CloseReady, Idle
<1> QED
  BY <1>5, <1>6, <1>7, <1>8, <1>9 DEF IInv

(* Removing the request at a position leaves the others, in their order. *)
LEMMA QueueShortened ==
  ASSUME waiters \in Seq(Requests), NEW i \in 1 .. Len(waiters), waiters' = RemoveAt(waiters, i)
  PROVE  /\ waiters' \in Seq(Requests) /\ Len(waiters') = Len(waiters) - 1
         /\ \A j \in 1 .. Len(waiters') :
              \E k \in 1 .. Len(waiters) : k # i /\ waiters'[j] = waiters[k]
         /\ QueueFresh =>
              \A j, l \in 1 .. Len(waiters') : waiters'[j].chan = waiters'[l].chan => j = l
<1>1. /\ waiters' \in Seq(Requests) /\ Len(waiters') = Len(waiters) - 1
      /\ \A j \in 1 .. Len(waiters) - 1 :
           waiters'[j] = IF j < i THEN waiters[j] ELSE waiters[j + 1]
  BY RemoveAtElements
<1>2. Len(waiters) \in Nat
  OBVIOUS
<1> DEFINE from(j) == IF j < i THEN j ELSE j + 1
<1>3. ASSUME NEW j \in 1 .. Len(waiters')
      PROVE  from(j) \in 1 .. Len(waiters) /\ from(j) # i /\ waiters'[j] = waiters[from(j)]
  BY <1>1, <1>2
<1>4. ASSUME QueueFresh, NEW j \in 1 .. Len(waiters'), NEW l \in 1 .. Len(waiters'),
             waiters'[j].chan = waiters'[l].chan
      PROVE  j = l
  <2>1. from(j) = from(l)
    <3> HIDE DEF from
    <3> QED
      BY <1>3, <1>4, SMTT(60) DEF QueueFresh
  <2> QED
    BY <1>2, <2>1
<1>5. \A j \in 1 .. Len(waiters') :
        \E k \in 1 .. Len(waiters) : k # i /\ waiters'[j] = waiters[k]
  <2> HIDE DEF from
  <2> QED
    BY <1>3
<1> QED
  BY <1>1, <1>4, <1>5

(* The loop grants a request: it names the mode its channel really has. *)
LEMMA GrantWaiterIInv ==
  ASSUME IInv, GrantWaiter
  PROVE  /\ IInv'
         /\ \/ \E c \in Chans, m \in Modes : Abstract!SetMode(c, m)
            \/ UNCHANGED curmode
<1> DEFINE w == waiters[pos]
<1>1. waiters \in Seq(Requests) /\ Len(waiters) \in Nat /\ pos \in 1 .. Len(waiters)
      /\ curmode \in [Chans -> Modes]
  BY DEF IInv, TypeOK, GrantWaiter
<1>2. w \in Requests /\ w.chan \in Chans /\ w.newmode \in Modes
  <2>1. w \in Requests
    BY <1>1
  <2> HIDE DEF w
  <2> QED
    BY <2>1, Zenon DEF Requests
<1>3. w.chan \in opened /\ w.oldmode = curmode[w.chan]
  BY <1>1 DEF IInv, QueueFresh
<1>4. UNCHANGED <<opened, unblockers, op, crashed>>
  BY DEF GrantWaiter
<1>5. crashed' \in BOOLEAN
  BY <1>4, Zenon DEF IInv, TypeOK
<1>6. NeverCrashes' /\ UnblockersOpen'
  BY <1>4 DEF IInv, NeverCrashes, UnblockersOpen
<1>7. CASE MayConvert(w.oldmode, w.newmode)
  <2>1. /\ counts' = Converted(curmode[w.chan], w.newmode)
        /\ curmode' = [curmode EXCEPT ![w.chan] = w.newmode]
        /\ waiters' = RemoveAt(waiters, pos) /\ pos' = pos
    BY <1>3, <1>7 DEF GrantWaiter
  <2>2. /\ counts' \in Counts /\ CountsExact' /\ HoldersCompatible'
        /\ Abstract!SetMode(w.chan, w.newmode)
    BY <1>2, <1>3, <1>7, <2>1, Converting DEF IInv
  <2>3. /\ waiters' \in Seq(Requests) /\ Len(waiters') = Len(waiters) - 1
        /\ \A j \in 1 .. Len(waiters') :
             \E k \in 1 .. Len(waiters) : k # pos /\ waiters'[j] = waiters[k]
        /\ \A j, l \in 1 .. Len(waiters') : waiters'[j].chan = waiters'[l].chan => j = l
    BY <1>1, <2>1, QueueShortened DEF IInv
  <2>4. TypeOK'
    <3>1. curmode' \in [Chans -> Modes]
      BY <1>1, <1>2, <2>1
    <3>2. pos' \in 1 .. Len(waiters') + 1
      BY <1>1, <2>1, <2>3
    <3> QED
      BY <1>4, <1>5, <2>2, <2>3, <3>1, <3>2 DEF IInv, TypeOK
  <2>5. QueueFresh'
    <3> SUFFICES ASSUME NEW j \in 1 .. Len(waiters')
                 PROVE  waiters'[j].chan \in opened
                        /\ waiters'[j].oldmode = curmode'[waiters'[j].chan]
      BY <1>4, <2>3 DEF QueueFresh
    <3>1. PICK k \in 1 .. Len(waiters) : k # pos /\ waiters'[j] = waiters[k]
      BY <2>3
    <3>2. waiters[k].chan # w.chan /\ waiters[k].chan \in opened
          /\ waiters[k].oldmode = curmode[waiters[k].chan]
      BY <1>1, <3>1 DEF IInv, QueueFresh
    <3> QED
      BY <1>1, <2>1, <3>1, <3>2 DEF IInv, TypeOK
  <2>6. ClosedNull'
    BY <1>1, <1>3, <1>4, <2>1 DEF IInv, ClosedNull
  <2>7. CloseReady'
    <3> SUFFICES ASSUME op.what = "close"
                 PROVE  curmode'[op.chan] = "NL" /\ ~Outstanding(op.chan)'
      BY <1>4 DEF IInv, CloseReady
    <3>1. op.chan \in Chans /\ curmode[op.chan] = "NL" /\ ~Outstanding(op.chan)
      BY DEF IInv, CloseReady, TypeOK
    <3>2. w.chan # op.chan
      BY <1>1, <3>1 DEF Outstanding
    <3> QED
      BY <1>1, <1>4, <2>1, <2>3, <3>1, <3>2 DEF Outstanding
  <2> QED
    BY <1>2, <1>6, <2>2, <2>4, <2>5, <2>6, <2>7 DEF IInv
<1>8. CASE ~MayConvert(w.oldmode, w.newmode)
  <2>1. pos' = pos + 1 /\ UNCHANGED <<counts, curmode, waiters>>
    BY <1>8 DEF GrantWaiter
  <2>2. TypeOK'
    <3>1. pos' \in 1 .. Len(waiters') + 1
      BY <1>1, <2>1
    <3> QED
      BY <1>4, <1>5, <2>1, <3>1 DEF IInv, TypeOK
  <2>3. CountsExact' /\ HoldersCompatible'
    BY <2>1, ModesKept DEF IInv
  <2>4. QueueFresh' /\ ClosedNull' /\ CloseReady'
    BY <1>4, <2>1 DEF IInv, QueueFresh, ClosedNull, CloseReady, Outstanding
  <2> QED
    BY <1>6, <2>1, <2>2, <2>3, <2>4 DEF IInv
<1> QED
  BY <1>7, <1>8

(* A channel that is at null mode and has nothing outstanding is closed;   *)
(* if it is the last, nobody can be waiting.                               *)
LEMMA CloseChanIInv ==
  ASSUME IInv, NEW c \in opened, CloseChan(c), curmode[c] = "NL", ~Outstanding(c),
         UNCHANGED <<curmode, counts, waiters, unblockers>>,
         op' = Idle, pos' \in {1, pos}
  PROVE  IInv'
<1>1. opened' = opened \ {c} /\ waiters \in Seq(Requests) /\ Len(waiters) \in Nat
      /\ pos \in 1 .. Len(waiters) + 1
  BY DEF CloseChan, IInv, TypeOK
<1>2. NeverCrashes'
  <2> SUFFICES ASSUME opened = {c} PROVE waiters = <<>> /\ unblockers = {}
    BY DEF CloseChan, NeverCrashes
  <2>1. Len(waiters) = 0
    <3> SUFFICES ASSUME 1 \in 1 .. Len(waiters) PROVE FALSE
      BY <1>1
    <3> QED
      BY DEF IInv, QueueFresh, Outstanding
  <2>2. unblockers = {}
    BY DEF IInv, UnblockersOpen, Outstanding
  <2> QED
    BY <1>1, <2>1, <2>2
<1>3. TypeOK'
  <2>1. crashed' \in BOOLEAN
    BY Zenon DEF CloseChan
  <2>2. op' \in [what : {"idle", "grant", "close", "abort"}, chan : Chans \cup {None}]
    BY DEF Idle
  <2>3. pos' \in 1 .. Len(waiters') + 1
    BY <1>1
  <2> QED
    BY <1>1, <2>1, <2>2, <2>3 DEF IInv, TypeOK
<1>4. CountsExact' /\ HoldersCompatible'
  BY ModesKept DEF IInv
<1>5. QueueFresh' /\ UnblockersOpen'
  BY <1>1 DEF IInv, QueueFresh, UnblockersOpen, Outstanding
<1>6. ClosedNull' /\ CloseReady'
  BY <1>1 DEF IInv, ClosedNull, CloseReady, Idle
<1> QED
  BY <1>2, <1>3, <1>4, <1>5, <1>6 DEF IInv

(* Steps that change neither the modes, the queue nor who has the mutex    *)
(* open: the loops' bookkeeping and the unblock requests.                  *)
LEMMA QueueKept ==
  ASSUME IInv, UNCHANGED <<opened, curmode, counts, waiters, crashed>>,
         pos' \in 1 .. Len(waiters) + 1,
         op' \in [what : {"idle", "grant", "close", "abort"}, chan : Chans \cup {None}],
         op'.what # "close",
         unblockers' \in SUBSET [chan : Chans, oldmode : Modes],
         \A b \in unblockers' : b.chan \in opened
  PROVE  IInv'
<1>1. crashed' \in BOOLEAN
  BY Zenon DEF IInv, TypeOK
<1>2. TypeOK'
  BY <1>1 DEF IInv, TypeOK
<1>3. CountsExact' /\ HoldersCompatible'
  BY ModesKept DEF IInv
<1> QED
  BY <1>2, <1>3
  DEF IInv, NeverCrashes, QueueFresh, ClosedNull, CloseReady, UnblockersOpen

LEMMA AbortIInv ==
  ASSUME IInv, AbortWaiter \/ AbortUnblockers
  PROVE  IInv' /\ UNCHANGED curmode
<1>1. waiters \in Seq(Requests) /\ Len(waiters) \in Nat /\ pos \in 1 .. Len(waiters) + 1
  BY DEF IInv, TypeOK
<1>2. CASE AbortUnblockers
  <2>1. unblockers' \in SUBSET unblockers /\ op' = Idle /\ pos' = 1
        /\ UNCHANGED <<opened, curmode, counts, waiters, crashed>>
    BY <1>2 DEF AbortUnblockers
  <2>2. Idle \in [what : {"idle", "grant", "close", "abort"}, chan : Chans \cup {None}]
        /\ Idle.what # "close"
    BY DEF Idle
  <2> QED
    BY <1>1, <2>1, <2>2, QueueKept DEF IInv, TypeOK, UnblockersOpen
<1>3. CASE AbortWaiter /\ UNCHANGED waiters
  <2>1. pos' = pos + 1 \/ waiters' = RemoveAt(waiters, pos)
    BY <1>3 DEF AbortWaiter
  <2>2. op.what = "abort" /\ pos \in 1 .. Len(waiters)
        /\ UNCHANGED <<opened, curmode, counts, unblockers, op, crashed>>
    BY <1>1, <1>3 DEF AbortWaiter
  <2>3. pos' = pos + 1
    BY <1>1, <1>3, <2>1, <2>2, QueueShortened
  <2> QED
    BY <1>1, <1>3, <2>2, <2>3, QueueKept DEF IInv, TypeOK, UnblockersOpen
<1>4. CASE AbortWaiter /\ waiters' # waiters
  <2>1. /\ op.what = "abort" /\ pos \in 1 .. Len(waiters)
        /\ waiters' = RemoveAt(waiters, pos) /\ pos' = pos
        /\ UNCHANGED <<opened, curmode, counts, unblockers, op, crashed>>
    BY <1>1, <1>4 DEF AbortWaiter
  <2>2. /\ waiters' \in Seq(Requests) /\ Len(waiters') = Len(waiters) - 1
        /\ \A j \in 1 .. Len(waiters') :
             \E k \in 1 .. Len(waiters) : k # pos /\ waiters'[j] = waiters[k]
        /\ \A j, l \in 1 .. Len(waiters') : waiters'[j].chan = waiters'[l].chan => j = l
    BY <1>1, <2>1, QueueShortened DEF IInv
  <2>3. TypeOK'
    <3>1. crashed' \in BOOLEAN
      BY <2>1, Zenon DEF IInv, TypeOK
    <3>2. pos' \in 1 .. Len(waiters') + 1
      BY <1>1, <2>1, <2>2
    <3> QED
      BY <2>1, <2>2, <3>1, <3>2 DEF IInv, TypeOK
  <2>4. CountsExact' /\ HoldersCompatible'
    BY <2>1, ModesKept DEF IInv
  <2>5. QueueFresh'
    BY <2>1, <2>2, SMTT(60) DEF IInv, QueueFresh
  <2> QED
    BY <2>1, <2>3, <2>4, <2>5 DEF IInv, NeverCrashes, ClosedNull, CloseReady, UnblockersOpen
<1> QED
  BY <1>2, <1>3, <1>4

(* Every step keeps the invariant, and is a step of the lock table or      *)
(* changes no mode.                                                        *)
LEMMA NextIInv ==
  ASSUME OneAtATime, IInv, [Next]_vars
  PROVE  IInv' /\ [Abstract!Next]_curmode
<1> DEFINE Good == IInv' /\ [Abstract!Next]_curmode
<1>0. opened \subseteq Chans /\ curmode \in [Chans -> Modes] /\ Modes = Abstract!Modes
      /\ "NL" \in Modes
  BY DEF IInv, TypeOK, Modes, Abstract!Modes
<1>1. ASSUME NEW c \in Chans, Create(c) \/ Lookup(c) PROVE Good
  BY <1>1, CreateIInv DEF Create, Lookup
<1>2. ASSUME NEW c \in Chans, SetMode(c) PROVE Good
  <2>1. op = Idle /\ c \in opened /\ \A i \in 1 .. Len(waiters) : waiters[i].chan # c
    BY <1>2 DEF SetMode, Unlocked
  <2>2. PICK new \in Asked, express \in Expresses :
          IF MustWait(c, new, express) THEN Enqueue(c, new, express) ELSE Grant(c, new, "grant")
    BY <1>2 DEF SetMode
  <2>3. new \in Modes /\ express \in BOOLEAN
    BY ModesAssumption
  <2>4. CASE MustWait(c, new, express)
    BY <2>1, <2>2, <2>3, <2>4, EnqueueIInv DEF Enqueue
  <2>5. CASE ~MustWait(c, new, express)
    <3>1. MayConvert(curmode[c], new)
      BY <2>5 DEF MustWait
    <3>2. IInv' /\ Abstract!SetMode(c, new)
      BY <2>1, <2>2, <2>3, <2>5, <3>1, GrantIInv
    <3> QED
      BY <1>0, <2>3, <3>2 DEF Abstract!Next
  <2> QED
    BY <2>4, <2>5
<1>3. ASSUME NEW c \in Chans, Close(c) PROVE Good
  <2>1. op = Idle /\ ~Outstanding(c)
    BY <1>3 DEF Close, Unlocked
  <2>2. \A i \in 1 .. Len(waiters) : waiters[i].chan # c
    BY <2>1 DEF Outstanding
  <2>3. CASE c \in opened /\ Grant(c, "NL", "close")
    <3>1. MayConvert(curmode[c], "NL")
      BY DEF MayConvert, CanHave, SelfRead, SelfWrite, OthersRead, OthersWrite
    <3>2. IInv' /\ Abstract!SetMode(c, "NL")
      BY <1>0, <2>1, <2>2, <2>3, <3>1, GrantIInv
    <3> QED
      BY <1>0, <3>2 DEF Abstract!Next
  <2>4. CASE c \notin opened /\ curmode[c] # "NL"
    BY <2>4 DEF IInv, ClosedNull
  <2>5. CASE /\ curmode[c] = "NL" /\ c \in opened /\ CloseChan(c)
             /\ UNCHANGED <<curmode, counts, waiters, unblockers, op, pos>>
    BY <2>1, <2>5, CloseChanIInv
  <2> QED
    BY <1>3, <2>3, <2>4, <2>5 DEF Close
<1>4. ASSUME NEW c \in Chans, Unblock(c) PROVE Good
  <2>1. /\ op = Idle /\ c \in opened
        /\ unblockers' = unblockers \cup {[chan |-> c, oldmode |-> curmode[c]]}
        /\ UNCHANGED <<opened, curmode, counts, waiters, op, pos, crashed>>
    BY <1>4 DEF Unblock, Unlocked
  <2>2. unblockers' \in SUBSET [chan : Chans, oldmode : Modes]
        /\ \A b \in unblockers' : b.chan \in opened
    BY <1>0, <2>1 DEF IInv, TypeOK, UnblockersOpen
  <2> QED
    BY <2>1, <2>2, QueueKept DEF IInv, TypeOK, Idle
<1>5. ASSUME NEW c \in Chans, AbortStart(c) PROVE Good
  <2>1. /\ op' = [what |-> "abort", chan |-> c] /\ pos' = 1
        /\ UNCHANGED <<opened, curmode, counts, waiters, unblockers, crashed>>
    BY <1>5 DEF AbortStart
  <2>2. Len(waiters) \in Nat
    BY DEF IInv, TypeOK
  <2>3. pos' \in 1 .. Len(waiters) + 1
    BY <2>1, <2>2
  <2> QED
    BY <2>1, <2>3, QueueKept DEF IInv, TypeOK, UnblockersOpen
<1>6. CASE GrantWaiter
  BY <1>0, <1>6, GrantWaiterIInv DEF Abstract!Next
<1>7. CASE GrantsDone
  <2>1. /\ op.what \in {"grant", "close"} /\ op' = Idle /\ pos' = 1
        /\ UNCHANGED <<curmode, counts, waiters, unblockers>>
        /\ IF op.what = "close" THEN CloseChan(op.chan) ELSE UNCHANGED <<opened, crashed>>
    BY <1>7 DEF GrantsDone, Granting
  <2>2. CASE op.what = "close"
    BY <2>1, <2>2, CloseChanIInv DEF IInv, CloseReady
  <2>3. CASE op.what # "close"
    <3>1. Len(waiters) \in Nat
      BY DEF IInv, TypeOK
    <3>2. pos' \in 1 .. Len(waiters) + 1
      BY <2>1, <3>1
    <3>3. Idle \in [what : {"idle", "grant", "close", "abort"}, chan : Chans \cup {None}]
          /\ Idle.what # "close"
      BY DEF Idle
    <3> QED
      BY <2>1, <2>3, <3>2, <3>3, QueueKept DEF IInv, TypeOK, UnblockersOpen
  <2> QED
    BY <2>1, <2>2, <2>3
<1>8. CASE AbortWaiter \/ AbortUnblockers
  BY <1>8, AbortIInv
<1>9. CASE UNCHANGED vars
  <2>1. crashed' \in BOOLEAN
    BY <1>9, Zenon DEF IInv, TypeOK, vars
  <2>2. TypeOK'
    BY <1>9, <2>1 DEF IInv, TypeOK, vars
  <2>3. CountsExact' /\ HoldersCompatible'
    BY <1>9, ModesKept DEF IInv, vars
  <2> QED
    BY <1>9, <2>2, <2>3 DEF IInv, NeverCrashes, QueueFresh, ClosedNull, CloseReady,
       UnblockersOpen, Outstanding, vars
<1>10. CASE PassOver
  BY <1>9, <1>10 DEF PassOver
<1> QED
  BY <1>1, <1>2, <1>3, <1>4, <1>5, <1>6, <1>7, <1>8, <1>9, <1>10 DEF Next, Loop, Request

-----------------------------------------------------------------------------
(* The theorems *)

LEMMA Invariance == OneAtATime => (Spec => []IInv)
<1> SUFFICES ASSUME OneAtATime PROVE Spec => []IInv
  OBVIOUS
<1>1. IInv /\ [Next]_vars => IInv'
  BY NextIInv
<1> QED
  BY InitIInv, <1>1, PTL DEF Spec

(* Every variable keeps its type; in particular *lwaiter always points     *)
(* into the queue or at its end.                                           *)
THEOREM TypeCorrect == OneAtATime => (Spec => []TypeOK)
<1>1. IInv => TypeOK
  BY DEF IInv
<1> QED
  BY Invariance, <1>1, PTL

(* The four counters always are what the channels hold.                    *)
THEOREM ExactCounts == OneAtATime => (Spec => []CountsExact)
<1>1. IInv => CountsExact
  BY DEF IInv
<1> QED
  BY Invariance, <1>1, PTL

(* Modes held at a time are compatible by oz_lock_compat.                  *)
THEOREM Compatible == OneAtATime => (Spec => []HoldersCompatible)
<1>1. IInv => HoldersCompatible
  BY DEF IInv
<1> QED
  BY Invariance, <1>1, PTL

(* No oz_crash is reached: nobody waits for a mutex that is closed by the  *)
(* last channel, and setting a closing channel's mode to null never fails. *)
THEOREM NoCrash == OneAtATime => (Spec => []NeverCrashes)
<1>1. IInv => NeverCrashes
  BY DEF IInv
<1> QED
  BY Invariance, <1>1, PTL

(* The device implements the lock table.                                   *)
THEOREM Refinement == OneAtATime => (Spec => ImplementsLockTable)
<1> SUFFICES ASSUME OneAtATime PROVE Spec => ImplementsLockTable
  OBVIOUS
<1>1. Init => Abstract!Init
  BY DEF Init, Abstract!Init
<1>2. IInv /\ [Next]_vars => [Abstract!Next]_curmode
  BY NextIInv
<1>3. Spec => []IInv
  BY Invariance
<1> QED
  BY <1>1, <1>2, <1>3, PTL DEF Spec, ImplementsLockTable, Abstract!Spec
=============================================================================
