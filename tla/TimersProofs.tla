---------------------------- MODULE TimersProofs ----------------------------
(***************************************************************************)
(* Proofs about the timer queue for any timers, any number of cpus and any *)
(* times: the lowipl struct is neither lost nor called twice, the hardware *)
(* timer is set for the first request or an earlier time, requests are     *)
(* called in order of time and once, and i/o requests completed once.      *)
(* Then, of the interval timer of an event flag: it has one owner and is   *)
(* freed once, whatever the threads that drop references do.               *)
(***************************************************************************)
EXTENDS TimerQueue, EventTimer, QueueLemmas, FiniteSetTheorems, TLAPS

Holders == {c \in Callers : holding[c]}

Struct(free) == IF free THEN 1 ELSE 0

(* The inductive invariant: the struct is in one place, and only a         *)
(* timer_call that runs has it.                                            *)
HoldersRun == \A c \in Callers : holding[c] => calling[c] = "loop"

IInv ==
  /\ calls \in Nat
  /\ holding = [c \in Callers |-> holding[c]]
  /\ calling = [c \in Callers |-> calling[c]]
  /\ HoldersRun
  /\ LowiplOnce

LEMMA HoldersFinite == IsFiniteSet(Holders) /\ Cardinality(Holders) \in Nat
<1>1. IsFiniteSet(Holders)
  BY CallersAssumption, FS_Subset DEF Holders
<1> QED
  BY <1>1, FS_CardinalityType

(* One caller gives its struct away. *)
LEMMA GivenAway ==
  ASSUME NEW c \in Callers, holding = [d \in Callers |-> holding[d]],
         holding' = [holding EXCEPT ![c] = FALSE]
  PROVE  Cardinality(Holders') = Cardinality(Holders) - Struct(holding[c])
<1>1. Holders' = Holders \ {c}
  BY DEF Holders
<1>2. holding[c] => c \in Holders
  BY DEF Holders
<1>3. ~holding[c] => c \notin Holders
  BY DEF Holders
<1> QED
  BY <1>1, <1>2, <1>3, HoldersFinite, FS_RemoveElement, SMTT(60) DEF Struct

(* One caller is given it. *)
LEMMA Given ==
  ASSUME NEW c \in Callers, holding = [d \in Callers |-> holding[d]], ~holding[c],
         holding' = [holding EXCEPT ![c] = TRUE]
  PROVE  Cardinality(Holders') = Cardinality(Holders) + 1
<1>1. Holders' = Holders \cup {c} /\ c \notin Holders
  BY DEF Holders
<1> QED
  BY <1>1, HoldersFinite, FS_AddElement

(* Setting the hardware timer puts a free struct in timer_lowipl or on the *)
(* list.                                                                   *)
LEMMA SetEventKeeps ==
  ASSUME NEW when, NEW free, calls \in Nat, SetEvent(when, free)
  PROVE  calls' \in Nat /\ Struct(spare') + calls' = Struct(free) + calls
  BY DEF SetEvent, TimeIsUp, Struct

LEMMA SetEventGives ==
  ASSUME NEW when, calls \in Nat, SetEvent(when, TRUE)
  PROVE  calls' \in Nat /\ Struct(spare') + calls' = 1 + calls
  BY DEF SetEvent, TimeIsUp, Struct

LEMMA DisposeGives ==
  ASSUME NEW rest, calls \in Nat, ~spare, Dispose(rest)
  PROVE  calls' \in Nat /\ Struct(spare') + calls' = 1 + calls
<1>1. CASE rest = <<>> /\ spare' = TRUE /\ UNCHANGED <<now, calls, armed>>
  BY <1>1 DEF Struct
<1>2. CASE calls' = calls + 1 /\ UNCHANGED <<now, spare, armed>>
  BY <1>2 DEF Struct
<1>3. CASE SetEvent(datebin[Head(rest)], TRUE)
  BY <1>3, SetEventGives
<1> QED
  BY <1>1, <1>2, <1>3 DEF Dispose

LEMMA OnceBy ==
  LowiplOnce <=> Struct(spare) + calls + Cardinality(Holders) = 1
  BY DEF LowiplOnce, Struct, Holders

LEMMA OnceByPrime ==
  LowiplOnce' <=> Struct(spare') + calls' + Cardinality(Holders') = 1
  BY DEF LowiplOnce, Struct, Holders

LEMMA InitIInv == Init => IInv
<1> SUFFICES ASSUME Init PROVE IInv
  OBVIOUS
<1>1. Holders = {} /\ Struct(spare) = 1 /\ calls = 0
  BY DEF Init, Holders, Struct
<1>2. LowiplOnce
  BY <1>1, OnceBy, FS_EmptySet
<1> QED
  BY <1>2 DEF Init, IInv, HoldersRun

(* Steps of the requests' users and of the clock *)
LEMMA OthersIInv ==
  ASSUME IInv, UNCHANGED <<calling, holding>>,
         calls' \in Nat, Struct(spare') + calls' = Struct(spare) + calls
  PROVE  IInv'
<1>1. Holders' = Holders
  BY DEF Holders
<1>2. Struct(spare) \in Nat /\ Struct(spare') \in Nat
  BY DEF Struct
<1>3. LowiplOnce'
  BY <1>1, <1>2, OnceBy, OnceByPrime, HoldersFinite DEF IInv
<1> QED
  BY <1>3 DEF IInv, HoldersRun

LEMMA NextIInv ==
  ASSUME IInv, [Next]_vars
  PROVE  IInv'
<1>1. ASSUME NEW t \in Timers, Insert(t), UNCHANGED <<calling, holding>> PROVE IInv'
  <2>1. CASE UNCHANGED <<now, spare, calls, armed>>
    BY <1>1, <2>1, OthersIInv DEF IInv
  <2>2. ASSUME NEW when, SetEvent(when, spare) PROVE IInv'
    BY <1>1, <2>2, SetEventKeeps, OthersIInv DEF IInv
  <2> QED
    BY <1>1, <2>1, <2>2 DEF Insert
<1>2. CASE Interrupt
  <2>1. calls' \in Nat /\ Struct(spare') + calls' = Struct(spare) + calls
    BY <1>2 DEF Interrupt, TimeIsUp, Struct, IInv
  <2> QED
    BY <1>2, <2>1, OthersIInv DEF Interrupt
<1>3. CASE Tick \/ IoAbort \/ (\E t \in Timers : KnlRemove(t)) \/ UNCHANGED vars
  <2>1. UNCHANGED <<calling, holding, calls, spare>>
    BY <1>3 DEF Tick, IoAbort, KnlRemove, vars
  <2> QED
    BY <2>1, OthersIInv DEF IInv
<1>4. CASE \E t \in Timers : KnlInsert(t) \/ IoStart(t)
  BY <1>1, <1>4 DEF KnlInsert, IoStart, Insert
<1>5. ASSUME NEW c \in Callers, Enter(c) PROVE IInv'
  <2>1. ~holding[c] /\ holding' = [holding EXCEPT ![c] = TRUE]
        /\ calling' = [calling EXCEPT ![c] = "loop"]
        /\ calls' = calls - 1 /\ calls > 0 /\ spare' = spare
    BY <1>5 DEF Enter, IInv, HoldersRun
  <2>2. Cardinality(Holders') = Cardinality(Holders) + 1
    BY <2>1, Given DEF IInv
  <2>3. Struct(spare) \in Nat
    BY DEF Struct
  <2>4. LowiplOnce' /\ calls' \in Nat
    BY <2>1, <2>2, <2>3, OnceBy, OnceByPrime, HoldersFinite DEF IInv
  <2> QED
    BY <2>1, <2>4 DEF IInv, HoldersRun
<1>6. ASSUME NEW c \in Callers, Call(c) \/ Leave(c) PROVE IInv'
  <2>1. /\ holding' = [holding EXCEPT ![c] = FALSE]
        /\ calling' = [calling EXCEPT ![c] = calling'[c]]
    BY <1>6 DEF Call, Leave, IInv
  <2>2. Cardinality(Holders') = Cardinality(Holders) - Struct(holding[c])
    BY <2>1, GivenAway DEF IInv
  <2>3. Struct(spare) \in Nat /\ calls \in Nat /\ Cardinality(Holders') \in Nat
        /\ Struct(spare) + calls + Cardinality(Holders) = 1
    <3>1. Cardinality(Holders') \in Nat
      BY <2>1, HoldersFinite, FS_Subset, FS_CardinalityType, CallersAssumption DEF Holders
    <3> QED
      BY <3>1, OnceBy DEF Struct, IInv
  <2>4. CASE ~holding[c]
    <3>1. UNCHANGED <<spare, calls>> /\ Struct(holding[c]) = 0
      BY <1>6, <2>4 DEF Call, Leave, Struct
    <3>2. LowiplOnce' /\ calls' \in Nat
      BY <2>2, <2>3, <3>1, OnceByPrime, HoldersFinite
    <3> QED
      BY <2>1, <3>2 DEF IInv, HoldersRun
  <2>5. CASE holding[c]
    <3>1. Struct(holding[c]) = 1 /\ Cardinality(Holders) = Cardinality(Holders') + 1
      BY <2>2, <2>5, HoldersFinite DEF Struct
    <3>2. ~spare /\ calls = 0 /\ Cardinality(Holders') = 0
      BY <2>3, <3>1 DEF Struct
    <3>3. calls' \in Nat /\ Struct(spare') + calls' = 1
      <4>1. CASE Call(c)
        BY <2>3, <2>5, <3>2, <4>1, DisposeGives DEF Call
      <4>2. CASE Leave(c)
        <5>1. CASE SetEvent(datebin[Head(queue)], TRUE)
          <6>1. calls \in Nat
            BY <2>3
          <6>2. calls' \in Nat /\ Struct(spare') + calls' = 1 + calls
            BY <5>1, <6>1, SetEventGives
          <6> QED
            BY <3>2, <6>2
        <5>2. CASE spare' = TRUE /\ UNCHANGED <<now, calls, armed>>
          BY <3>2, <5>2 DEF Struct
        <5> QED
          BY <2>5, <4>2, <5>1, <5>2 DEF Leave
      <4> QED
        BY <1>6, <4>1, <4>2
    <3>4. LowiplOnce'
      <4>1. Struct(spare') \in Nat
        BY DEF Struct
      <4> QED
        BY <3>2, <3>3, <4>1, OnceByPrime
    <3> QED
      BY <2>1, <3>3, <3>4 DEF IInv, HoldersRun
  <2> QED
    BY <2>4, <2>5
<1>7. ASSUME NEW c \in Callers, Return(c) PROVE IInv'
  <2>1. UNCHANGED <<holding, calls, spare>> /\ calling' = [calling EXCEPT ![c] = "loop"]
    BY <1>7 DEF Return
  <2>2. LowiplOnce'
    BY <2>1 DEF IInv, LowiplOnce
  <2> QED
    BY <2>1, <2>2 DEF IInv, HoldersRun
<1> QED
  BY <1>2, <1>3, <1>4, <1>5, <1>6, <1>7 DEF Next

(* The lowipl struct of the timers is always in exactly one place: free,   *)
(* on the list of calls once, or with the one timer_call that is to give   *)
(* it back.                                                                *)
THEOREM OneStruct == Spec => []LowiplOnce
<1>1. IInv /\ [Next]_vars => IInv'
  BY NextIInv
<1>2. IInv => LowiplOnce
  BY DEF IInv
<1> QED
  BY InitIInv, <1>1, <1>2, PTL DEF Spec

-----------------------------------------------------------------------------
(* The queue of requests *)

(* No request is queued twice, and they are in order of time. *)
Once(q) == \A i, j \in 1 .. Len(q) : q[i] = q[j] => i = j
InOrder(q, date) == \A i, j \in 1 .. Len(q) : i < j => date[q[i]] <= date[q[j]]

QueueTyped ==
  /\ now \in Nat /\ armed \in Nat /\ datebin \in [Timers -> Nat]
  /\ queue \in Seq(Timers)
  /\ calling \in [Callers -> Timers \cup {"out", "loop"}]
  /\ ioqueue \in SUBSET IoTimers

(* The inductive invariant for what becomes of the requests *)
QInv ==
  /\ IInv /\ QueueTyped
  /\ Once(queue) /\ InOrder(queue, datebin)
  /\ IoCompletedOnce /\ AlarmSet

Running == [t \in Timers |-> Cardinality({c \in Callers : calling[c] = t})]

seen == <<now, Range(queue), datebin, Running>>

Keeps == QInv' /\ [Abstract!Next]_seen

LEMMA QueueRange ==
  ASSUME NEW q \in Seq(Timers)
  PROVE  /\ Len(q) \in Nat
         /\ Range(q) = {q[i] : i \in 1 .. Len(q)}
         /\ q # <<>> => Len(q) > 0 /\ Head(q) = q[1] /\ Head(q) \in Range(q)
<1>1. Len(q) \in Nat /\ Range(q) = {q[i] : i \in 1 .. Len(q)}
  BY DEF Range
<1>2. q # <<>> => Len(q) > 0 /\ Head(q) = q[1]
  OBVIOUS
<1> QED
  BY <1>1, <1>2

LEMMA QueuedRange ==
  ASSUME QueueTyped, NEW t
  PROVE  Queued(t) <=> t \in Range(queue)
  BY QueueRange DEF QueueTyped, Queued

(* A queue that has lost requests is in order too, and its first request is *)
(* not before the first one that was.                                      *)
LEMMA Thinned ==
  ASSUME NEW q \in Seq(Timers), NEW r \in Seq(Timers), NEW date \in [Timers -> Nat],
         Thins(r, q), Range(r) \subseteq Range(q), Once(q), InOrder(q, date)
  PROVE  /\ Once(r) /\ InOrder(r, date)
         /\ r # <<>> => q # <<>> /\ date[Head(q)] <= date[Head(r)]
<1>1. Len(q) \in Nat /\ Len(r) \in Nat
  OBVIOUS
<1>2. ASSUME NEW i \in 1 .. Len(r), NEW j \in 1 .. Len(r), i < j
      PROVE  r[i] # r[j] /\ date[r[i]] <= date[r[j]]
  <2>1. PICK a \in 1 .. Len(q), b \in 1 .. Len(q) : a < b /\ q[a] = r[i] /\ q[b] = r[j]
    BY <1>2 DEF Thins
  <2>2. q[a] # q[b]
    BY <1>1, <2>1 DEF Once
  <2>3. date[q[a]] <= date[q[b]]
    BY <2>1 DEF InOrder
  <2> QED
    BY <2>1, <2>2, <2>3
<1>3. Once(r)
  BY <1>1, <1>2 DEF Once
<1>4. InOrder(r, date)
  BY <1>2 DEF InOrder
<1>5. ASSUME r # <<>>
      PROVE  q # <<>> /\ date[Head(q)] <= date[Head(r)]
  <2>1. Head(r) \in Range(q)
    BY <1>5, QueueRange
  <2>2. PICK i \in 1 .. Len(q) : q[i] = Head(r)
    BY <2>1, QueueRange
  <2>3. q # <<>> /\ Head(q) = q[1] /\ 1 \in 1 .. Len(q) /\ q[1] \in Timers
    BY <1>1, <2>2
  <2>4. CASE i = 1
    BY <2>2, <2>3, <2>4
  <2>5. CASE i # 1
    <3>1. 1 < i
      BY <1>1, <2>5
    <3> QED
      BY <2>2, <2>3, <3>1 DEF InOrder
  <2> QED
    BY <2>3, <2>4, <2>5
<1> QED
  BY <1>3, <1>4, <1>5

LEMMA SetEventTimes ==
  ASSUME QueueTyped, NEW when \in Nat, NEW free, SetEvent(when, free)
  PROVE  now' \in Nat /\ now' >= now /\ armed' \in Nat /\ (spare' => armed' = when)
<1>1. PICK later \in Later :
        /\ now' = later
        /\ \/ when > later /\ armed' = when
           \/ spare' = FALSE /\ armed' = IF armed = Never THEN Never ELSE when
  BY DEF SetEvent, TimeIsUp
<1>2. later \in Nat /\ later >= now /\ Never \in Nat
  BY TimesAssumption DEF Later, Times, Never, QueueTyped
<1> QED
  BY <1>1, <1>2

-----------------------------------------------------------------------------
(* Steps that leave the requests alone *)

LEMMA Quiet ==
  ASSUME QInv, IInv', UNCHANGED <<queue, datebin, ioqueue>>,
         now' \in Nat, now' >= now, armed' \in Nat,
         calling' \in [Callers -> Timers \cup {"out", "loop"}],
         \A c \in Callers, t \in Timers : calling'[c] = t <=> calling[c] = t,
         AlarmSet'
  PROVE  Keeps
<1>1. QueueTyped' /\ Once(queue)' /\ InOrder(queue, datebin)'
  BY DEF QInv, QueueTyped, Once, InOrder
<1>2. \A t \in IoTimers : (Called(t)' <=> Called(t)) /\ (Queued(t)' <=> Queued(t))
  BY TimersAssumption DEF Called, Queued
<1>3. IoCompletedOnce'
  BY <1>2, TimersAssumption DEF QInv, IoCompletedOnce
<1>4. \A t \in Timers : {c \in Callers : calling'[c] = t} = {c \in Callers : calling[c] = t}
  OBVIOUS
<1>5. Running' = Running
  BY <1>4 DEF Running
<1>6. Range(queue)' = Range(queue)
  OBVIOUS
<1>7. Abstract!Next
  BY <1>5, <1>6 DEF Abstract!Next, Abstract!TimePasses, Running
<1> QED
  BY <1>1, <1>3, <1>7 DEF Keeps, QInv

LEMMA InterruptKeeps ==
  ASSUME QInv, IInv', Interrupt
  PROVE  Keeps
<1>1. armed' \in Nat
  BY TimesAssumption DEF Interrupt, Never
<1>2. AlarmSet'
  BY DEF Interrupt, TimeIsUp, AlarmSet
<1> QED
  BY <1>1, <1>2, Quiet DEF Interrupt, QInv, QueueTyped

LEMMA TickKeeps ==
  ASSUME QInv, IInv', Tick
  PROVE  Keeps
<1>1. AlarmSet' /\ now' \in Nat /\ now' >= now
  BY DEF Tick, QInv, AlarmSet, QueueTyped
<1> QED
  BY <1>1, Quiet DEF Tick, QInv, QueueTyped

LEMMA EnterKeeps ==
  ASSUME QInv, IInv', NEW c \in Callers, Enter(c)
  PROVE  Keeps
<1>1. AlarmSet'
  BY DEF Enter, QInv, AlarmSet
<1>2. /\ calling' \in [Callers -> Timers \cup {"out", "loop"}]
      /\ \A d \in Callers, t \in Timers : calling'[d] = t <=> calling[d] = t
  BY TimersAssumption DEF Enter, QInv, QueueTyped
<1> QED
  BY <1>1, <1>2, Quiet DEF Enter, QInv, QueueTyped

LEMMA LeaveKeeps ==
  ASSUME QInv, IInv', NEW c \in Callers, Leave(c)
  PROVE  Keeps
<1>1. /\ calling' \in [Callers -> Timers \cup {"out", "loop"}]
      /\ \A d \in Callers, t \in Timers : calling'[d] = t <=> calling[d] = t
  BY TimersAssumption DEF Leave, QInv, QueueTyped
<1>2. UNCHANGED <<queue, datebin, ioqueue>>
  BY DEF Leave
<1>3. AlarmSet' /\ now' \in Nat /\ now' >= now /\ armed' \in Nat
  <2>1. CASE queue # <<>> /\ SetEvent(datebin[Head(queue)], TRUE)
    <3>1. datebin[Head(queue)] \in Nat
      BY <2>1 DEF QInv, QueueTyped
    <3>2. QueueTyped
      BY DEF QInv
    <3>3. now' \in Nat /\ now' >= now /\ armed' \in Nat
          /\ (spare' => armed' = datebin[Head(queue)])
      BY <2>1, <3>1, <3>2, SetEventTimes
    <3>4. AlarmSet'
      BY <1>2, <3>1, <3>3 DEF AlarmSet
    <3> QED
      BY <3>3, <3>4
  <2>2. CASE queue = <<>> /\ UNCHANGED <<now, armed>>
    BY <1>2, <2>2 DEF AlarmSet, QInv, QueueTyped
  <2>3. CASE UNCHANGED <<now, spare, armed>>
    BY <1>2, <2>3 DEF AlarmSet, QInv, QueueTyped
  <2> QED
    BY <2>1, <2>2, <2>3 DEF Leave
<1> QED
  BY <1>1, <1>2, <1>3, Quiet

-----------------------------------------------------------------------------
(* Requests are taken back *)

LEMMA Removes ==
  ASSUME QInv, IInv', NEW ts \in SUBSET Timers, ts \subseteq Range(queue),
         queue' \in Seq(Timers), Range(queue') = Range(queue) \ ts, Thins(queue', queue),
         ioqueue' = ioqueue \ ts, UNCHANGED <<now, datebin, spare, armed, calling>>
  PROVE  Keeps
<1>1. /\ Once(queue') /\ InOrder(queue', datebin)
      /\ queue' # <<>> => queue # <<>> /\ datebin[Head(queue)] <= datebin[Head(queue')]
  BY Thinned DEF QInv, QueueTyped
<1>2. QueueTyped' /\ Once(queue)' /\ InOrder(queue, datebin)'
  BY <1>1 DEF QInv, QueueTyped, Once, InOrder
<1>3. AlarmSet'
  <2> SUFFICES ASSUME queue' # <<>>, spare
               PROVE  armed <= datebin[Head(queue')]
    BY DEF AlarmSet
  <2>1. queue # <<>> /\ datebin[Head(queue)] <= datebin[Head(queue')]
    BY <1>1
  <2>2. armed <= datebin[Head(queue)]
    BY <2>1 DEF QInv, AlarmSet
  <2>3. datebin[Head(queue)] \in Nat /\ datebin[Head(queue')] \in Nat /\ armed \in Nat
    BY <2>1 DEF QInv, QueueTyped
  <2> QED
    BY <2>1, <2>2, <2>3
<1>4. IoCompletedOnce'
  <2>1. \A t : (Queued(t) <=> t \in Range(queue)) /\ (Queued(t)' <=> t \in Range(queue) \ ts)
    <3>1. \A t : Queued(t)' <=> t \in Range(queue')
      BY QueueRange DEF Queued
    <3> QED
      BY <3>1, QueuedRange DEF QInv
  <2>2. \A t : Called(t)' <=> Called(t)
    BY DEF Called
  <2> QED
    BY <2>1, <2>2 DEF QInv, IoCompletedOnce
<1>5. Running' = Running /\ Range(queue)' = Range(queue) \ ts
  BY DEF Running
<1>6. Abstract!Remove(ts)
  BY <1>5 DEF Abstract!Remove, Running
<1>7. now' \in Nat /\ now' >= now
  BY DEF QInv, QueueTyped
<1>8. Abstract!Next
  BY <1>6, <1>7 DEF Abstract!Next
<1> QED
  BY <1>2, <1>3, <1>4, <1>8 DEF Keeps, QInv

LEMMA KnlRemoveKeeps ==
  ASSUME QInv, IInv', NEW t \in Timers, KnlRemove(t)
  PROVE  Keeps
<1>1. /\ queue' = RemoveFirst(queue, t) /\ t \notin IoTimers /\ Queued(t)
      /\ UNCHANGED <<now, datebin, spare, armed, calling, ioqueue>>
  BY DEF KnlRemove
<1>2. queue \in Seq(Timers) /\ \A i, j \in 1 .. Len(queue) : queue[i] = queue[j] => i = j
  BY DEF QInv, QueueTyped, Once
<1>3. queue' \in Seq(Timers) /\ Range(queue') = Range(queue) \ {t}
  BY <1>1, <1>2, RemoveFirstOnce
<1>4. Thins(queue', queue)
  BY <1>1, <1>2, RemoveFirstThins
<1>5. ioqueue' = ioqueue \ {t}
  BY <1>1 DEF QInv, QueueTyped
<1>6. {t} \subseteq Range(queue) /\ {t} \in SUBSET Timers
  BY <1>1, QueuedRange DEF QInv
<1> QED
  BY <1>1, <1>3, <1>4, <1>5, <1>6, Removes

LEMMA WithoutThins ==
  ASSUME QueueTyped, NEW ts, NEW q \in Without(ts)
  PROVE  q \in Seq(Timers) /\ Range(q) = Range(queue) \ ts /\ Thins(q, queue)
<1> DEFINE left == {i \in 1 .. Len(queue) : queue[i] \notin ts}
           n == Cardinality(left)
<1>1. PICK f \in Bijection(1 .. n, left) :
        /\ \A i, j \in DOMAIN f : i < j => f[i] < f[j]
        /\ q = [i \in DOMAIN f |-> queue[f[i]]]
  BY DEF Without
<1>2. n \in Nat
  <2>1. Len(queue) \in Nat
    BY DEF QueueTyped
  <2>2. IsFiniteSet(1 .. Len(queue))
    BY <2>1, FS_Interval
  <2>3. left \in SUBSET (1 .. Len(queue))
    OBVIOUS
  <2> QED
    BY <2>2, <2>3, FS_Subset, FS_CardinalityType
<1> HIDE DEF left, n
<1>3. f \in [1 .. n -> left] /\ \A i \in left : \E j \in 1 .. n : f[j] = i
  BY DEF Bijection, Surjection
<1>4. q = [i \in 1 .. n |-> queue[f[i]]]
  BY <1>1, <1>3
<1>5. \A i \in 1 .. n : f[i] \in 1 .. Len(queue) /\ queue[f[i]] \notin ts /\ queue[f[i]] \in Timers
  BY <1>3 DEF left, QueueTyped
<1>6. q \in Seq(Timers) /\ Len(q) = n
  BY <1>2, <1>4, <1>5
<1>7. Thins(q, queue)
  <2> SUFFICES ASSUME NEW i \in 1 .. n, NEW j \in 1 .. n, i < j
               PROVE  \E a, b \in 1 .. Len(queue) : a < b /\ queue[a] = q[i] /\ queue[b] = q[j]
    BY <1>6 DEF Thins
  <2>1. f[i] < f[j]
    BY <1>1, <1>3
  <2> QED
    BY <1>4, <1>5, <2>1
<1>8. Range(q) = Range(queue) \ ts
  <2>1. Range(q) = {q[i] : i \in 1 .. n} /\ Range(queue) = {queue[i] : i \in 1 .. Len(queue)}
    BY <1>6, QueueRange DEF QueueTyped
  <2>2. \A x \in Range(q) : x \in Range(queue) \ ts
    BY <1>4, <1>5, <2>1
  <2>3. ASSUME NEW x \in Range(queue) \ ts
        PROVE  x \in Range(q)
    <3>1. PICK i \in 1 .. Len(queue) : queue[i] = x
      BY <2>1
    <3>2. PICK j \in 1 .. n : f[j] = i
      BY <1>3, <3>1 DEF left
    <3> QED
      BY <1>4, <2>1, <3>1, <3>2
  <2> QED
    BY <2>2, <2>3
<1> QED
  BY <1>6, <1>7, <1>8

LEMMA IoAbortKeeps ==
  ASSUME QInv, IInv', IoAbort
  PROVE  Keeps
<1>1. PICK ts \in SUBSET {t \in ioqueue : Queued(t)} :
        /\ queue' \in Without(ts) /\ ioqueue' = ioqueue \ ts
        /\ UNCHANGED <<now, datebin, spare, armed, calling>>
  BY DEF IoAbort
<1>2. ts \in SUBSET Timers /\ ts \subseteq Range(queue)
  BY QueuedRange, TimersAssumption DEF QInv, QueueTyped
<1>3. queue' \in Seq(Timers) /\ Range(queue') = Range(queue) \ ts /\ Thins(queue', queue)
  BY <1>1, WithoutThins DEF QInv
<1> QED
  BY <1>1, <1>2, <1>3, Removes

-----------------------------------------------------------------------------
(* timer_call calls the routine of the first request. *)

LEMMA HolderAlone ==
  ASSUME IInv, NEW c \in Callers, holding[c]
  PROVE  ~spare
<1>1. c \in Holders
  BY DEF Holders
<1>2. Cardinality(Holders) # 0 /\ Cardinality(Holders) \in Nat
  BY <1>1, HoldersFinite, FS_EmptySet
<1>3. Struct(spare) + calls + Cardinality(Holders) = 1 /\ calls \in Nat
  BY OnceBy DEF IInv
<1> QED
  BY <1>2, <1>3 DEF Struct

LEMMA CallSets ==
  ASSUME QInv, NEW c \in Callers, Call(c),
         queue' # <<>> => queue # <<>> /\ datebin[Head(queue)] <= datebin[Head(queue')],
         queue' \in Seq(Timers)
  PROVE  now' \in Nat /\ now' >= now /\ armed' \in Nat /\ AlarmSet'
<1>1. /\ queue' = Tail(queue) /\ UNCHANGED datebin /\ queue # <<>>
      /\ IF holding[c] THEN Dispose(queue') ELSE UNCHANGED <<now, spare, armed>>
  BY DEF Call, Due
<1>2. QueueTyped /\ now \in Nat /\ armed \in Nat
  BY DEF QInv, QueueTyped
<1>3. datebin[Head(queue)] \in Nat /\ (queue' # <<>> => datebin[Head(queue')] \in Nat)
  BY <1>1 DEF QInv, QueueTyped
<1>4. CASE ~holding[c]
  <2>1. UNCHANGED <<now, spare, armed>>
    BY <1>1, <1>4
  <2>2. spare => armed <= datebin[Head(queue)]
    BY <1>1 DEF QInv, AlarmSet
  <2>3. AlarmSet'
    BY <1>1, <1>2, <1>3, <2>1, <2>2 DEF AlarmSet
  <2> QED
    BY <1>2, <2>1, <2>3
<1>5. CASE holding[c]
  <2>1. ~spare
    BY <1>5, HolderAlone DEF QInv
  <2>2. Dispose(queue')
    BY <1>1, <1>5
  <2>3. CASE queue' = <<>> /\ UNCHANGED <<now, armed>>
    BY <1>2, <2>3 DEF AlarmSet
  <2>4. CASE UNCHANGED <<now, spare, armed>>
    BY <1>2, <2>1, <2>4 DEF AlarmSet
  <2>5. CASE queue' # <<>> /\ SetEvent(datebin[Head(queue')], TRUE)
    <3>1. now' \in Nat /\ now' >= now /\ armed' \in Nat
          /\ (spare' => armed' = datebin[Head(queue')])
      BY <1>2, <1>3, <2>5, SetEventTimes
    <3>2. AlarmSet'
      BY <1>1, <1>3, <2>5, <3>1 DEF AlarmSet
    <3> QED
      BY <3>1, <3>2
  <2> QED
    BY <2>2, <2>3, <2>4, <2>5 DEF Dispose
<1> QED
  BY <1>4, <1>5

LEMMA CallKeeps ==
  ASSUME QInv, IInv', NEW c \in Callers, Call(c)
  PROVE  Keeps
<1>1. PICK h : h = Head(queue)
  OBVIOUS
<1>2. /\ queue # <<>> /\ datebin[h] <= now /\ queue' = Tail(queue)
      /\ calling[c] = "loop" /\ calling' = [calling EXCEPT ![c] = h]
      /\ UNCHANGED <<datebin, ioqueue>>
  BY <1>1 DEF Call, Due
<1>3. QueueTyped /\ queue \in Seq(Timers) /\ datebin \in [Timers -> Nat]
      /\ calling \in [Callers -> Timers \cup {"out", "loop"}] /\ now \in Nat
  BY DEF QInv, QueueTyped
<1>4. /\ queue' \in Seq(Timers) /\ Thins(queue', queue) /\ Range(queue') = Range(queue) \ {h}
      /\ h \in Timers /\ h = queue[1] /\ 1 \in 1 .. Len(queue) /\ h \in Range(queue)
  <2>1. \A i, j \in 1 .. Len(queue) : queue[i] = queue[j] => i = j
    BY DEF QInv, Once
  <2> QED
    BY <1>1, <1>2, <1>3, <2>1, TailThins, QueueRange
<1>5. /\ Once(queue') /\ InOrder(queue', datebin)
      /\ queue' # <<>> => queue # <<>> /\ datebin[Head(queue)] <= datebin[Head(queue')]
  BY <1>3, <1>4, Thinned DEF QInv
<1>6. now' \in Nat /\ now' >= now /\ armed' \in Nat /\ AlarmSet'
  BY <1>4, <1>5, CallSets
<1>7. QueueTyped' /\ Once(queue)' /\ InOrder(queue, datebin)'
  BY <1>2, <1>4, <1>5, <1>6 DEF QInv, QueueTyped, Once, InOrder
<1>8. \A t \in Timers : {d \in Callers : calling'[d] = t} =
                        {d \in Callers : calling[d] = t} \cup (IF t = h THEN {c} ELSE {})
  BY <1>2, <1>3, <1>4, TimersAssumption
<1>9. IoCompletedOnce'
  <2>1. \A t : (Queued(t) <=> t \in Range(queue)) /\ (Queued(t)' <=> t \in Range(queue) \ {h})
    <3>1. \A t : Queued(t)' <=> t \in Range(queue')
      BY <1>4, QueueRange DEF Queued
    <3> QED
      BY <1>3, <1>4, <3>1, QueuedRange
  <2>2. \A t \in Timers, d \in Callers : calling'[d] = t <=> calling[d] = t \/ (t = h /\ d = c)
    BY <1>8
  <2>3. \A t \in Timers : Called(t)' <=> Called(t) \/ t = h
    BY <2>2 DEF Called
  <2>4. ASSUME NEW t \in IoTimers
        PROVE  /\ Queued(t)' => t \in ioqueue' /\ ~Called(t)'
               /\ t \in ioqueue' => Queued(t)' \/ Called(t)'
               /\ Called(t)' => t \in ioqueue' /\ \A a, b \in Callers :
                                                   calling'[a] = t /\ calling'[b] = t => a = b
    <3>1. /\ t \in Timers
          /\ Queued(t) => t \in ioqueue /\ ~Called(t)
          /\ t \in ioqueue => Queued(t) \/ Called(t)
          /\ Called(t) => t \in ioqueue /\ \A a, b \in Callers :
                                             calling[a] = t /\ calling[b] = t => a = b
      BY TimersAssumption DEF QInv, IoCompletedOnce
    <3>2. CASE t = h
      <4>1. Queued(t) /\ t \in ioqueue /\ ~Called(t) /\ ~Queued(t)'
        BY <1>4, <2>1, <3>1, <3>2
      <4>2. \A a \in Callers : calling[a] # t
        BY <4>1 DEF Called
      <4>3. \A a \in Callers : calling'[a] = t => a = c
        BY <2>2, <3>1, <4>2
      <4>4. Called(t)' /\ t \in ioqueue'
        BY <1>2, <2>3, <3>1, <3>2, <4>1
      <4> QED
        BY <4>1, <4>3, <4>4
    <3>3. CASE t # h
      <4>1. (Queued(t)' <=> Queued(t)) /\ (Called(t)' <=> Called(t))
        BY <2>1, <2>3, <3>1, <3>3
      <4>2. \A a \in Callers : calling'[a] = t <=> calling[a] = t
        BY <2>2, <3>1, <3>3
      <4> QED
        BY <1>2, <3>1, <4>1, <4>2
    <3> QED
      BY <3>2, <3>3
  <2> QED
    BY <2>4 DEF IoCompletedOnce
<1>10. Running' = [Running EXCEPT ![h] = Running[h] + 1]
  <2>1. PICK S : S = {d \in Callers : calling[d] = h}
    OBVIOUS
  <2>2. IsFiniteSet(S) /\ c \notin S
    BY <1>2, <1>4, <2>1, CallersAssumption, FS_Subset, TimersAssumption
  <2>3. Cardinality(S \cup {c}) = Cardinality(S) + 1
    BY <2>2, FS_AddElement
  <2>4. \A t \in Timers : Running'[t] = IF t = h THEN Running[h] + 1 ELSE Running[t]
    <3>1. Running'[h] = Cardinality(S \cup {c}) /\ Running[h] = Cardinality(S)
      BY <1>4, <1>8, <2>1 DEF Running
    <3>2. \A t \in Timers : t # h => Running'[t] = Running[t]
      BY <1>8 DEF Running
    <3> QED
      BY <2>3, <3>1, <3>2
  <2> QED
    BY <1>4, <2>4 DEF Running
<1>11. datebin[h] <= now' /\ \A u \in Range(queue) : datebin[h] <= datebin[u]
  <2>1. datebin[h] <= now'
    BY <1>2, <1>3, <1>4, <1>6
  <2>2. ASSUME NEW u \in Range(queue)
        PROVE  datebin[h] <= datebin[u]
    <3>1. PICK i \in 1 .. Len(queue) : queue[i] = u
      BY <1>3, QueueRange
    <3>2. CASE i = 1
      BY <1>3, <1>4, <3>1, <3>2
    <3>3. CASE i # 1
      <4>1. 1 < i
        BY <3>3
      <4>2. datebin[queue[1]] <= datebin[queue[i]]
        BY <1>4, <4>1 DEF QInv, InOrder
      <4> QED
        BY <1>4, <3>1, <4>2
    <3> QED
      BY <3>2, <3>3
  <2> QED
    BY <2>1, <2>2
<1>12. Abstract!Expire(h)
  BY <1>2, <1>4, <1>10, <1>11 DEF Abstract!Expire, Running
<1>13. Abstract!Next
  BY <1>4, <1>6, <1>12 DEF Abstract!Next
<1> QED
  BY <1>6, <1>7, <1>9, <1>13 DEF Keeps, QInv

-----------------------------------------------------------------------------
(* A routine returns. *)

LEMMA ReturnKeeps ==
  ASSUME QInv, IInv', NEW c \in Callers, Return(c)
  PROVE  Keeps
<1>1. PICK h \in Timers : h = calling[c]
  BY DEF Return
<1>2. /\ calling' = [calling EXCEPT ![c] = "loop"] /\ ioqueue' = ioqueue \ {h}
      /\ UNCHANGED <<now, datebin, queue, spare, armed>>
  BY <1>1 DEF Return
<1>3. QueueTyped
  BY DEF QInv
<1>4. QueueTyped' /\ Once(queue)' /\ InOrder(queue, datebin)' /\ AlarmSet'
  BY <1>2 DEF QInv, QueueTyped, Once, InOrder, AlarmSet
<1>5. \A t \in Timers, d \in Callers : calling'[d] = t <=> calling[d] = t /\ d # c
  BY <1>2, <1>3, TimersAssumption DEF QueueTyped
<1>6. \A t : Queued(t)' <=> Queued(t)
  BY <1>2 DEF Queued
<1>7. IoCompletedOnce'
  <2>1. ASSUME NEW t \in IoTimers
        PROVE  /\ Queued(t)' => t \in ioqueue' /\ ~Called(t)'
               /\ t \in ioqueue' => Queued(t)' \/ Called(t)'
               /\ Called(t)' => t \in ioqueue' /\ \A a, b \in Callers :
                                                   calling'[a] = t /\ calling'[b] = t => a = b
    <3>1. /\ t \in Timers
          /\ Queued(t) => t \in ioqueue /\ ~Called(t)
          /\ t \in ioqueue => Queued(t) \/ Called(t)
          /\ Called(t) => t \in ioqueue /\ \A a, b \in Callers :
                                             calling[a] = t /\ calling[b] = t => a = b
      BY TimersAssumption DEF QInv, IoCompletedOnce
    <3>2. CASE t = h
      <4>1. Called(t) /\ ~Queued(t) /\ \A a \in Callers : calling[a] = t => a = c
        <5>1. Called(t)
          BY <1>1, <3>2 DEF Called
        <5> QED
          BY <1>1, <3>1, <3>2, <5>1
      <4>2. \A a \in Callers : calling'[a] # t
        BY <1>5, <3>1, <4>1
      <4>3. ~Called(t)' /\ ~Queued(t)' /\ t \notin ioqueue'
        BY <1>2, <1>6, <3>2, <4>1, <4>2 DEF Called
      <4> QED
        BY <4>2, <4>3
    <3>3. CASE t # h
      <4>1. \A a \in Callers : calling'[a] = t <=> calling[a] = t
        BY <1>1, <1>5, <3>1, <3>3
      <4>2. (Called(t)' <=> Called(t)) /\ (Queued(t)' <=> Queued(t))
            /\ (t \in ioqueue' <=> t \in ioqueue)
        BY <1>2, <1>6, <3>3, <4>1 DEF Called
      <4> QED
        BY <3>1, <4>1, <4>2
    <3> QED
      BY <3>2, <3>3
  <2> QED
    BY <2>1 DEF IoCompletedOnce
<1>8. Running[h] > 0 /\ Running' = [Running EXCEPT ![h] = Running[h] - 1]
  <2>1. PICK S : S = {d \in Callers : calling[d] = h}
    OBVIOUS
  <2>2. IsFiniteSet(S) /\ c \in S
    BY <1>1, <2>1, CallersAssumption, FS_Subset
  <2>3. Cardinality(S \ {c}) = Cardinality(S) - 1 /\ Cardinality(S) \in Nat /\ Cardinality(S) # 0
    <3>1. S # {}
      BY <2>2
    <3>2. Cardinality(S) \in Nat /\ Cardinality(S) # 0
      BY <2>2, <3>1, FS_CardinalityType, FS_EmptySet
    <3>3. Cardinality(S \ {c}) = Cardinality(S) - 1
      BY <2>2, FS_RemoveElement
    <3> QED
      BY <3>2, <3>3
  <2>4. {d \in Callers : calling'[d] = h} = S \ {c}
    BY <1>5, <2>1
  <2>5. Running'[h] = Running[h] - 1 /\ Running[h] > 0
    <3>1. Running'[h] = Cardinality(S \ {c}) /\ Running[h] = Cardinality(S)
      BY <2>1, <2>4 DEF Running
    <3> QED
      BY <2>3, <3>1
  <2>6. ASSUME NEW t \in Timers, t # h
        PROVE  Running'[t] = Running[t]
    <3>1. {d \in Callers : calling'[d] = t} = {d \in Callers : calling[d] = t}
      BY <1>1, <1>5, <2>6
    <3> QED
      BY <3>1 DEF Running
  <2> QED
    BY <2>5, <2>6 DEF Running
<1>9. Abstract!Return(h)
  BY <1>2, <1>8 DEF Abstract!Return, Running
<1>10. now' \in Nat /\ now' >= now
  BY <1>2, <1>3 DEF QueueTyped
<1>11. Abstract!Next
  BY <1>9, <1>10 DEF Abstract!Next
<1> QED
  BY <1>4, <1>7, <1>11 DEF Keeps, QInv

-----------------------------------------------------------------------------
(* A request is made. *)

(* q is rest with t at place i, the place for a request of time when. *)
Placed(q, rest, i, t) ==
  /\ Len(q) = Len(rest) + 1
  /\ \A j \in 1 .. Len(rest) + 1 :
       q[j] = IF j < i THEN rest[j] ELSE IF j = i THEN t ELSE rest[j - 1]

Place(rest, date, i, when) ==
  /\ \A j \in 1 .. i - 1 : date[rest[j]] <= when
  /\ i <= Len(rest) => date[rest[i]] > when

(* What stands at place j of q then. *)
Stands(q, rest, i, t, j) ==
  \/ j = i /\ q[j] = t
  \/ j < i /\ j \in 1 .. i - 1 /\ j \in 1 .. Len(rest) /\ q[j] = rest[j]
  \/ i < j /\ j - 1 \in 1 .. Len(rest) /\ q[j] = rest[j - 1]
           /\ i \in 1 .. Len(rest) /\ i <= j - 1

LEMMA Places ==
  ASSUME NEW rest \in Seq(Timers), NEW t \in Timers, NEW q \in Seq(Timers),
         NEW i \in 1 .. Len(rest) + 1, Placed(q, rest, i, t), NEW j \in 1 .. Len(q)
  PROVE  Stands(q, rest, i, t, j)
<1>1. /\ Len(rest) \in Nat /\ i \in Nat /\ i >= 1 /\ i <= Len(rest) + 1
      /\ Len(q) = Len(rest) + 1
  BY DEF Placed
<1>2. j \in Nat /\ j >= 1 /\ j <= Len(rest) + 1 /\ j \in 1 .. Len(rest) + 1
  BY <1>1
<1>3. q[j] = IF j < i THEN rest[j] ELSE IF j = i THEN t ELSE rest[j - 1]
  BY <1>2 DEF Placed
<1>4. CASE j = i
  BY <1>3, <1>2, <1>4 DEF Stands
<1>5. CASE j < i
  <2>1. q[j] = rest[j]
    BY <1>3, <1>5
  <2>2. j \in 1 .. i - 1 /\ j \in 1 .. Len(rest)
    BY <1>1, <1>2, <1>5
  <2> QED
    BY <1>5, <2>1, <2>2 DEF Stands
<1>6. CASE i < j
  <2>1. q[j] = rest[j - 1]
    BY <1>1, <1>2, <1>3, <1>6
  <2>2. j - 1 \in 1 .. Len(rest) /\ i \in 1 .. Len(rest) /\ i <= j - 1
    BY <1>1, <1>2, <1>6
  <2> QED
    BY <1>6, <2>1, <2>2 DEF Stands
<1> QED
  BY <1>1, <1>2, <1>4, <1>5, <1>6

(* Such a queue is in order. *)
LEMMA InsertedInOrder ==
  ASSUME NEW rest \in Seq(Timers), NEW date \in [Timers -> Nat],
         NEW later \in [Timers -> Nat], NEW t \in Timers, NEW q \in Seq(Timers),
         NEW i \in 1 .. Len(rest) + 1, Placed(q, rest, i, t), Place(rest, date, i, later[t]),
         Once(rest), InOrder(rest, date), t \notin Range(rest),
         \A u \in Range(rest) : later[u] = date[u]
  PROVE  Once(q) /\ InOrder(q, later)
<1>1. Len(rest) \in Nat /\ i \in Nat /\ later[t] \in Nat /\ Len(q) \in Nat
  OBVIOUS
<1>2. \A j \in 1 .. Len(rest) : rest[j] \in Range(rest) /\ rest[j] \in Timers
  BY QueueRange
<1>3. \A j \in 1 .. Len(rest) : /\ rest[j] # t /\ later[rest[j]] = date[rest[j]]
                                /\ date[rest[j]] \in Nat
  BY <1>2
<1>4. ASSUME NEW a \in 1 .. Len(rest), NEW b \in 1 .. Len(rest), a < b
      PROVE  rest[a] # rest[b] /\ date[rest[a]] <= date[rest[b]]
  <2>1. date[rest[a]] <= date[rest[b]]
    BY <1>4 DEF InOrder
  <2>2. a # b
    BY <1>1, <1>4
  <2> QED
    BY <2>1, <2>2 DEF Once
<1>5. ASSUME NEW j \in 1 .. Len(q), NEW l \in 1 .. Len(q), j < l
      PROVE  q[j] # q[l] /\ later[q[j]] <= later[q[l]]
  <2>0. Stands(q, rest, i, t, j) /\ Stands(q, rest, i, t, l)
    BY Places
  <2>1. \/ j = i /\ q[j] = t
        \/ j < i /\ j \in 1 .. i - 1 /\ j \in 1 .. Len(rest) /\ q[j] = rest[j]
        \/ i < j /\ j - 1 \in 1 .. Len(rest) /\ q[j] = rest[j - 1]
    BY <2>0, Zenon DEF Stands
  <2>2. \/ l = i /\ q[l] = t
        \/ l < i /\ l \in 1 .. Len(rest) /\ q[l] = rest[l]
        \/ i < l /\ l - 1 \in 1 .. Len(rest) /\ q[l] = rest[l - 1]
                 /\ i \in 1 .. Len(rest) /\ i <= l - 1
    BY <2>0, Zenon DEF Stands
  <2>3. j \in Nat /\ l \in Nat
    BY <1>1
  <2>4. CASE j = i
    <3>1. PICK b \in 1 .. Len(rest) : i \in 1 .. Len(rest) /\ i <= b /\ q[l] = rest[b]
      BY <1>1, <1>5, <2>2, <2>3, <2>4
    <3>2. date[rest[i]] <= date[rest[b]]
      <4>1. CASE i = b
        <5>1. rest[i] = rest[b]
          BY <4>1
        <5>2. date[rest[b]] \in Nat
          BY <1>3
        <5> QED
          BY <5>1, <5>2, SMTT(60)
      <4>2. CASE i < b
        BY <1>4, <3>1, <4>2
      <4> QED
        BY <1>1, <3>1, <4>1, <4>2
    <3>3. date[rest[i]] > later[t]
      BY <1>1, <3>1 DEF Place
    <3>4. later[rest[b]] = date[rest[b]] /\ rest[b] # t /\ date[rest[b]] \in Nat
          /\ date[rest[i]] \in Nat
      BY <1>3, <3>1
    <3>5. q[j] = t
      BY <1>1, <2>1, <2>3, <2>4
    <3>6. later[t] <= date[rest[b]]
      <4>1. \A x, y, z \in Nat : x > y /\ x <= z => y <= z
        OBVIOUS
      <4> QED
        BY <1>1, <3>2, <3>3, <3>4, <4>1, Zenon
    <3>7. later[q[j]] = later[t] /\ later[q[l]] = date[rest[b]] /\ q[j] # q[l]
      BY <3>1, <3>4, <3>5
    <3> QED
      BY <3>6, <3>7
  <2>5. CASE l = i
    <3>1. PICK a \in 1 .. Len(rest) : a \in 1 .. i - 1 /\ q[j] = rest[a]
      <4>1. j # i /\ ~(i < j)
        BY <1>1, <1>5, <2>3, <2>5
      <4> QED
        BY <2>1, <4>1, Zenon
    <3>2. date[rest[a]] <= later[t]
      BY <3>1 DEF Place
    <3>3. later[rest[a]] = date[rest[a]] /\ rest[a] # t
      BY <1>3
    <3>4. q[l] = t
      BY <1>1, <2>2, <2>3, <2>5
    <3> QED
      BY <3>1, <3>2, <3>3, <3>4
  <2>6. CASE j # i /\ l # i
    <3>1. PICK a \in 1 .. Len(rest), b \in 1 .. Len(rest) :
            a < b /\ q[j] = rest[a] /\ q[l] = rest[b]
      <4>1. CASE l < i
        <5>1. j \in 1 .. Len(rest) /\ q[j] = rest[j] /\ l \in 1 .. Len(rest) /\ q[l] = rest[l]
          BY <1>1, <1>5, <2>1, <2>2, <2>3, <4>1
        <5> QED
          BY <1>5, <5>1
      <4>2. CASE j < i /\ i < l
        <5>1. j \in 1 .. Len(rest) /\ q[j] = rest[j] /\ l - 1 \in 1 .. Len(rest)
              /\ q[l] = rest[l - 1] /\ j < l - 1
          BY <1>1, <1>5, <2>1, <2>2, <2>3, <4>2
        <5> QED
          BY <5>1
      <4>3. CASE i < j
        <5>1. j - 1 \in 1 .. Len(rest) /\ q[j] = rest[j - 1] /\ l - 1 \in 1 .. Len(rest)
              /\ q[l] = rest[l - 1] /\ j - 1 < l - 1
          BY <1>1, <1>5, <2>1, <2>2, <2>3, <4>3
        <5> QED
          BY <5>1
      <4>4. l < i \/ (j < i /\ i < l) \/ i < j
        BY <1>1, <2>3, <2>6
      <4> QED
        BY <4>1, <4>2, <4>3, <4>4
    <3>2. rest[a] # rest[b] /\ date[rest[a]] <= date[rest[b]]
      BY <1>4, <3>1
    <3>3. later[rest[a]] = date[rest[a]] /\ later[rest[b]] = date[rest[b]]
      BY <1>3
    <3> QED
      BY <3>1, <3>2, <3>3
  <2> QED
    BY <2>4, <2>5, <2>6
<1>6. Once(q)
  <2> SUFFICES ASSUME NEW j \in 1 .. Len(q), NEW l \in 1 .. Len(q), q[j] = q[l]
               PROVE  j = l
    BY DEF Once
  <2>1. j \in Nat /\ l \in Nat
    BY <1>1
  <2>2. ~(j < l) /\ ~(l < j)
    BY <1>5
  <2> QED
    BY <2>1, <2>2
<1>7. InOrder(q, later)
  BY <1>5 DEF InOrder
<1> QED
  BY <1>6, <1>7

LEMMA InsertAtPlaces ==
  ASSUME NEW rest \in Seq(Timers), NEW i \in 1 .. Len(rest) + 1, NEW t \in Timers
  PROVE  /\ InsertAt(rest, i, t) \in Seq(Timers)
         /\ Placed(InsertAt(rest, i, t), rest, i, t)
         /\ Range(InsertAt(rest, i, t)) = Range(rest) \cup {t}
  BY InsertAtElements DEF Placed

LEMMA InsertKeeps ==
  ASSUME QInv, IInv', NEW t \in Timers, Insert(t),
         t \in IoTimers => t \notin ioqueue,
         ioqueue' = IF t \in IoTimers THEN ioqueue \cup {t} ELSE ioqueue
  PROVE  Keeps
<1>1. /\ QueueTyped /\ queue \in Seq(Timers) /\ datebin \in [Timers -> Nat]
      /\ now \in Nat /\ armed \in Nat
  BY DEF QInv, QueueTyped
<1>2. PICK rest \in Seq(Timers) :
        /\ rest = RemoveFirst(queue, t)
        /\ Range(rest) = Range(queue) \ {t} /\ Thins(rest, queue)
  <2>1. \A i, j \in 1 .. Len(queue) : queue[i] = queue[j] => i = j
    BY DEF QInv, Once
  <2>2. /\ RemoveFirst(queue, t) \in Seq(Timers)
        /\ Range(RemoveFirst(queue, t)) = Range(queue) \ {t}
    BY <1>1, <2>1, RemoveFirstOnce
  <2>3. Thins(RemoveFirst(queue, t), queue)
    BY <1>1, <2>1, RemoveFirstThins
  <2> QED
    BY <2>2, <2>3
<1>3. Range(rest) = Range(queue) \ {t} /\ Thins(rest, queue)
  BY <1>2
<1>4. /\ Once(rest) /\ InOrder(rest, datebin)
      /\ rest # <<>> => queue # <<>> /\ datebin[Head(queue)] <= datebin[Head(rest)]
  <2>1. Range(rest) \subseteq Range(queue)
    BY <1>3
  <2> QED
    BY <1>1, <1>3, <2>1, Thinned DEF QInv
<1>5. PICK when \in Nat, i \in 1 .. Len(rest) + 1 :
        /\ GoesAt(rest, i, when)
        /\ datebin' = [datebin EXCEPT ![t] = when]
        /\ queue' = InsertAt(rest, i, t)
        /\ IF i = 1 THEN SetEvent(when, spare) ELSE UNCHANGED <<now, spare, armed>>
  <2>1. PICK when \in {now + d : d \in Delays} \cap Times, i \in 1 .. Len(rest) + 1 :
          /\ GoesAt(rest, i, when)
          /\ datebin' = [datebin EXCEPT ![t] = when]
          /\ queue' = InsertAt(rest, i, t)
          /\ IF i = 1 THEN SetEvent(when, spare) ELSE UNCHANGED <<now, spare, calls, armed>>
    BY <1>2, Zenon DEF Insert
  <2>2. when \in Nat
    BY TimesAssumption DEF Times
  <2>3. IF i = 1 THEN SetEvent(when, spare) ELSE UNCHANGED <<now, spare, armed>>
    BY <2>1
  <2> QED
    BY <2>1, <2>2, <2>3
<1>6. UNCHANGED <<calling, holding>>
  BY DEF Insert
<1>7. /\ queue' \in Seq(Timers) /\ Len(queue') = Len(rest) + 1
      /\ \A j \in 1 .. Len(rest) + 1 :
           queue'[j] = IF j < i THEN rest[j] ELSE IF j = i THEN t ELSE rest[j - 1]
      /\ Range(queue') = Range(rest) \cup {t}
  <2>1. queue' = InsertAt(rest, i, t)
    BY <1>5
  <2>2. queue' \in Seq(Timers) /\ Placed(queue', rest, i, t) /\ Range(queue') = Range(rest) \cup {t}
    BY <2>1, InsertAtPlaces
  <2> QED
    BY <2>2 DEF Placed
<1>8. datebin' \in [Timers -> Nat] /\ datebin'[t] = when
      /\ \A u \in Timers : u # t => datebin'[u] = datebin[u]
  BY <1>1, <1>5
<1>9. Once(queue') /\ InOrder(queue', datebin')
  <2>1. Place(rest, datebin, i, datebin'[t])
    BY <1>5, <1>8 DEF GoesAt, Place
  <2>2. t \notin Range(rest)
    BY <1>3
  <2>3. \A u \in Range(rest) : datebin'[u] = datebin[u]
    BY <1>2, <1>8, <2>2, QueueRange
  <2>4. Placed(queue', rest, i, t)
    BY <1>7 DEF Placed
  <2>5. PICK q \in Seq(Timers), new \in [Timers -> Nat] : q = queue' /\ new = datebin'
    BY <1>7, <1>8
  <2>6. Once(q) /\ InOrder(q, new)
    BY <1>1, <1>4, <2>1, <2>2, <2>3, <2>4, <2>5, InsertedInOrder
  <2> QED
    BY <2>5, <2>6
<1>10. now' \in Nat /\ now' >= now /\ armed' \in Nat /\ AlarmSet'
  <2>1. Len(rest) \in Nat /\ queue' # <<>> /\ Head(queue') = queue'[1] /\ 1 \in 1 .. Len(rest) + 1
    <3>1. Len(rest) \in Nat
      BY <1>3
    <3> QED
      BY <1>7, <3>1
  <2>2. CASE i = 1
    <3>1. now' \in Nat /\ now' >= now /\ armed' \in Nat /\ (spare' => armed' = when)
      BY <1>1, <1>5, <2>2, SetEventTimes
    <3>2. Head(queue') = t
      BY <1>7, <2>1, <2>2
    <3>3. AlarmSet'
      BY <1>8, <3>1, <3>2 DEF AlarmSet
    <3> QED
      BY <3>1, <3>3
  <2>3. CASE i # 1
    <3>1. UNCHANGED <<now, spare, armed>>
      BY <1>5, <2>3
    <3>2. 1 < i /\ Len(rest) >= 1
      BY <2>1, <2>3
    <3>3. rest # <<>> /\ Head(queue') = rest[1] /\ Head(rest) = rest[1] /\ rest[1] \in Timers
      BY <1>3, <1>7, <2>1, <3>2
    <3>4. rest[1] # t
      <4>1. rest[1] \in Range(rest)
        BY <1>3, <3>3, QueueRange
      <4> QED
        BY <1>3, <4>1
    <3>5. queue # <<>> /\ datebin[Head(queue)] <= datebin[rest[1]]
      BY <1>4, <3>3
    <3>6. spare => armed <= datebin[Head(queue)]
      BY <3>5 DEF QInv, AlarmSet
    <3>7. datebin[Head(queue)] \in Nat /\ datebin'[rest[1]] = datebin[rest[1]]
          /\ datebin[rest[1]] \in Nat
      BY <1>1, <1>8, <3>3, <3>4, <3>5
    <3>8. spare' => armed' <= datebin'[Head(queue')]
      BY <1>1, <3>1, <3>3, <3>5, <3>6, <3>7
    <3>9. AlarmSet'
      BY <3>8 DEF AlarmSet
    <3> QED
      BY <1>1, <3>1, <3>9
  <2> QED
    BY <2>2, <2>3
<1>11. QueueTyped' /\ Once(queue)' /\ InOrder(queue, datebin)'
  <2>1. ioqueue' \in SUBSET IoTimers /\ calling' \in [Callers -> Timers \cup {"out", "loop"}]
    BY <1>1, <1>6 DEF QueueTyped
  <2> QED
    BY <1>7, <1>8, <1>9, <1>10, <2>1 DEF QueueTyped, Once, InOrder
<1>12. IoCompletedOnce'
  <2>1. \A u : (Queued(u) <=> u \in Range(queue)) /\ (Queued(u)' <=> u \in Range(queue) \cup {t})
    <3>1. \A u : Queued(u)' <=> u \in Range(queue')
      BY <1>7, QueueRange DEF Queued
    <3> QED
      BY <1>1, <1>3, <1>7, <3>1, QueuedRange
  <2>2. \A u : Called(u)' <=> Called(u)
    BY <1>6 DEF Called
  <2>3. t \in IoTimers => ~Called(t)
    BY DEF QInv, IoCompletedOnce
  <2> QED
    BY <1>6, <2>1, <2>2, <2>3 DEF QInv, IoCompletedOnce
<1>13. Abstract!Insert(t)
  <2>1. Range(queue)' = Range(queue) \cup {t}
    BY <1>3, <1>7
  <2>2. Running' = Running
    BY <1>6 DEF Running
  <2>3. datebin'[t] \in Nat /\ datebin' = [datebin EXCEPT ![t] = datebin'[t]]
    BY <1>5, <1>8
  <2> QED
    BY <2>1, <2>2, <2>3 DEF Abstract!Insert, Running
<1>14. Abstract!Next
  BY <1>10, <1>13 DEF Abstract!Next
<1> QED
  BY <1>10, <1>11, <1>12, <1>14 DEF Keeps, QInv

-----------------------------------------------------------------------------
LEMMA InitQInv == Init => QInv /\ Abstract!Init
<1> SUFFICES ASSUME Init PROVE QInv /\ Abstract!Init
  OBVIOUS
<1>1. queue = <<>> /\ queue \in Seq(Timers) /\ Len(queue) = 0
  BY DEF Init
<1>2. QueueTyped
  BY <1>1, TimesAssumption DEF Init, QueueTyped, Never
<1>3. Once(queue) /\ InOrder(queue, datebin) /\ AlarmSet
  BY <1>1 DEF Once, InOrder, AlarmSet
<1>4. \A t \in Timers : {c \in Callers : calling[c] = t} = {}
  BY TimersAssumption DEF Init
<1>5. IoCompletedOnce
  BY <1>1, <1>4, TimersAssumption DEF IoCompletedOnce, Queued, Called, Init
<1>6. Range(queue) = {}
  <2>1. Range(queue) = {queue[i] : i \in 1 .. Len(queue)}
    BY <1>1, QueueRange
  <2> QED
    BY <1>1, <2>1
<1>7. Abstract!Init
  BY <1>4, <1>6, FS_EmptySet DEF Init, Abstract!Init
<1> QED
  BY <1>2, <1>3, <1>5, <1>7, InitIInv DEF QInv

LEMMA NextKeeps ==
  ASSUME QInv, [Next]_vars
  PROVE  Keeps
<1>1. IInv'
  BY NextIInv DEF QInv
<1>2. ASSUME NEW t \in Timers, KnlInsert(t) \/ IoStart(t)
      PROVE  Keeps
  <2>1. /\ Insert(t) /\ (t \in IoTimers => t \notin ioqueue)
        /\ ioqueue' = IF t \in IoTimers THEN ioqueue \cup {t} ELSE ioqueue
    BY <1>2 DEF KnlInsert, IoStart
  <2> QED
    BY <1>1, <2>1, InsertKeeps
<1>3. CASE UNCHANGED vars
  <2>1. QInv'
    BY <1>1, <1>3 DEF QInv, vars, QueueTyped, Once, InOrder, IoCompletedOnce, AlarmSet,
                      Queued, Called
  <2>2. UNCHANGED seen
    BY <1>3 DEF vars, seen, Running
  <2> QED
    BY <2>1, <2>2 DEF Keeps
<1> QED
  BY <1>1, <1>2, <1>3, InterruptKeeps, TickKeeps, IoAbortKeeps, KnlRemoveKeeps, EnterKeeps,
     CallKeeps, LeaveKeeps, ReturnKeeps DEF Next

(* The hardware timer is set for the first request of a queue that waits,  *)
(* or for an earlier time, whenever no timer_call is on its way: none of   *)
(* oz_knl_timer_insert, oz_knl_timer_remove, the interrupt routine and     *)
(* timer_call leaves a request to nobody.                                  *)
THEOREM AlarmIsSet == Spec => []AlarmSet
<1>1. QInv /\ [Next]_vars => QInv'
  BY NextKeeps DEF Keeps
<1>2. QInv => AlarmSet
  BY DEF QInv
<1> QED
  BY InitQInv, <1>1, <1>2, PTL DEF Spec

(* An i/o request of the timer device is completed by oz_dev_timer_abort   *)
(* or by iotimerisup and never by both.                                    *)
THEOREM IoOnce == Spec => []IoCompletedOnce
<1>1. QInv /\ [Next]_vars => QInv'
  BY NextKeeps DEF Keeps
<1>2. QInv => IoCompletedOnce
  BY DEF QInv
<1> QED
  BY InitQInv, <1>1, <1>2, PTL DEF Spec

(* The queue, the hardware timer and timer_call together call requests in  *)
(* the order of their times, none too early, none twice and none that was  *)
(* taken back: the abstract requests, whatever cpus and timers there are.  *)
THEOREM Refinement == Spec => ImplementsTimerRequests
<1>1. QInv /\ [Next]_vars => QInv' /\ [Abstract!Next]_seen
  BY NextKeeps DEF Keeps
<1>2. [Abstract!Next]_seen
      => [Abstract!Next]_<<now, Range(queue), datebin,
                           [t \in Timers |-> Cardinality({c \in Callers : calling[c] = t})]>>
  BY DEF seen, Running
<1> QED
  BY InitQInv, <1>1, <1>2, PTL DEF Spec, ImplementsTimerRequests, Abstract!Spec

-----------------------------------------------------------------------------
(* The interval timer of an event flag.                                     *)

(* Who has a reference, who is about to free the flag, who sets an interval. *)
Refers(u) == user[u] \in {"free", "save", "state", "insert"}
Dropping(u) == user[u] \in {"clear", "look", "kill"}
SettingNow(u) == user[u] \in {"save", "state", "insert"}

(* Who has the timer: the timer queue (queued), an event_timer that runs, or *)
(* a setimint that is about to queue it.                                    *)
Expiring(c) == expirer[c] # "out"
Inserting(u) == user[u] = "insert"
Owned == queued \/ (\E c \in Expirers : Expiring(c)) \/ (\E u \in Users : Inserting(u))

IntervalTyped ==
  /\ refcount \in Nat /\ sets \in Nat /\ freed \in {0, 1}
  /\ queued \in BOOLEAN
  /\ timerstate \in {"dead", "idle", "qued", "kill"}
  /\ user \in [Users -> {"free", "save", "state", "insert", "clear", "look", "kill", "gone"}]
  /\ expirer \in [Expirers -> {"out", "look", "test", "divide", "insert", "stop"}]

(* The count of references is that of the threads that have one.            *)
Counted == refcount = Cardinality({u \in Users : Refers(u)})

(* The last reference is dropped once, by one thread, and when nobody else   *)
(* refers to the flag.                                                      *)
DroppedOnce ==
  /\ \A u \in Users : Dropping(u) => refcount = 0 /\ freed = 0 /\ timerstate # "kill"
  /\ \A u, v \in Users : Dropping(u) /\ Dropping(v) => u = v
  /\ freed > 0 \/ timerstate = "kill" => refcount = 0

(* One interval is set, and the timer has not been used before.              *)
SetOnce ==
  /\ sets = 0 => timerstate = "dead"
  /\ \A u \in Users : SettingNow(u) => sets > 0
  /\ \A u, v \in Users : SettingNow(u) /\ SettingNow(v) => u = v
  /\ \A u \in Users : user[u] \in {"save", "state"} => timerstate = "dead"

(* The timer has one owner from the time the state says so until it goes     *)
(* idle or is freed.                                                        *)
OwnedOnce ==
  /\ queued => (\A c \in Expirers : ~Expiring(c)) /\ (\A u \in Users : ~Inserting(u))
  /\ \A c, d \in Expirers : Expiring(c) /\ Expiring(d) => c = d
  /\ \A c \in Expirers, u \in Users : ~(Expiring(c) /\ Inserting(u))
  /\ Owned <=> timerstate \in {"qued", "kill"} /\ freed = 0

IntervalInv ==
  IntervalTyped /\ Counted /\ DroppedOnce /\ SetOnce /\ OwnedOnce /\ crashed # "state"

(* Nobody refers to the flag when the count says so.                        *)
LEMMA NobodyRefers ==
  ASSUME Counted, refcount = 0
  PROVE  \A u \in Users : ~Refers(u)
<1>1. IsFiniteSet({u \in Users : Refers(u)})
  BY FS_Subset, UsersAssumption
<1>2. {u \in Users : Refers(u)} = {}
  BY <1>1, FS_EmptySet DEF Counted
<1>. QED
  BY <1>2

LEMMA CountKept ==
  ASSUME Counted, refcount' = refcount, \A u \in Users : Refers(u)' <=> Refers(u)
  PROVE  Counted'
<1>1. {u \in Users : Refers(u)'} = {u \in Users : Refers(u)}
  OBVIOUS
<1>. QED
  BY <1>1 DEF Counted

LEMMA InitIntervalInv == IntervalInit => IntervalInv
<1>. SUFFICES ASSUME IntervalInit PROVE IntervalInv
  OBVIOUS
<1>. USE DEF IntervalInit, Refers, Dropping, SettingNow, Expiring, Inserting
<1>1. IntervalTyped
  BY UsersAssumption, FS_CardinalityType DEF IntervalTyped
<1>2. Counted
  <2>1. {u \in Users : Refers(u)} = Users
    OBVIOUS
  <2>. QED
    BY <2>1 DEF Counted
<1>3. DroppedOnce /\ SetOnce /\ OwnedOnce
  BY DEF DroppedOnce, SetOnce, OwnedOnce, Owned
<1>. QED
  BY <1>1, <1>2, <1>3 DEF IntervalInv

(* setimint begins: no other call of it was made before.                    *)
LEMMA SetKeeps ==
  ASSUME MaxSets <= 1, IntervalInv, NEW u \in Users, Set(u)
  PROVE  IntervalInv'
<1>. USE DEF IntervalInv, Set, User, Refers, Dropping, SettingNow, Expiring, Inserting
<1>1. IntervalTyped' /\ (crashed # "state")'
  BY DEF IntervalTyped
<1>2. Counted'
  <2>1. refcount' = refcount /\ \A x \in Users : Refers(x)' <=> Refers(x)
    BY DEF IntervalTyped
  <2>. QED
    BY <2>1, CountKept
<1>3. DroppedOnce'
  BY DEF DroppedOnce
<1>4. SetOnce'
  BY SetsAssumption DEF IntervalTyped, SetOnce
<1>5. OwnedOnce'
  BY DEF OwnedOnce, Owned
<1>. QED
  BY <1>1, <1>2, <1>3, <1>4, <1>5

LEMMA SaveIntervalKeeps ==
  ASSUME MaxSets <= 1, IntervalInv, NEW u \in Users, SaveInterval(u)
  PROVE  IntervalInv'
<1>. USE DEF IntervalInv, SaveInterval, User, Refers, Dropping, SettingNow, Expiring, Inserting
<1>1. IntervalTyped' /\ (crashed # "state")'
  BY DEF IntervalTyped
<1>2. Counted'
  <2>1. refcount' = refcount /\ \A x \in Users : Refers(x)' <=> Refers(x)
    BY DEF IntervalTyped
  <2>. QED
    BY <2>1, CountKept
<1>3. DroppedOnce'
  BY DEF DroppedOnce
<1>4. SetOnce'
  BY DEF SetOnce
<1>5. OwnedOnce'
  BY DEF OwnedOnce, Owned
<1>. QED
  BY <1>1, <1>2, <1>3, <1>4, <1>5

(* The timer gets an owner: the thread that is going to queue it.           *)
LEMMA SetStateKeeps ==
  ASSUME MaxSets <= 1, IntervalInv, NEW u \in Users, SetState(u)
  PROVE  IntervalInv'
<1>. USE DEF IntervalInv, SetState, User, Refers, Dropping, SettingNow, Expiring, Inserting
<1>1. IntervalTyped' /\ (crashed # "state")'
  BY DEF IntervalTyped, SetOnce
<1>2. Counted'
  <2>1. refcount' = refcount /\ \A x \in Users : Refers(x)' <=> Refers(x)
    BY DEF IntervalTyped
  <2>. QED
    BY <2>1, CountKept
<1>3. DroppedOnce'
  BY DEF DroppedOnce
<1>4. SetOnce'
  BY DEF IntervalTyped, SetOnce
<1>5. OwnedOnce'
  <2>1. ~queued /\ \A c \in Expirers : ~Expiring(c)
    BY DEF OwnedOnce, Owned, SetOnce
  <2>2. \A x \in Users : Inserting(x)' <=> x = u
    BY DEF SetOnce, IntervalTyped
  <2>3. timerstate' = "qued" /\ freed' = 0
    BY NobodyRefers DEF DroppedOnce, IntervalTyped, SetOnce
  <2>. QED
    BY <2>1, <2>2, <2>3 DEF OwnedOnce, Owned
<1>. QED
  BY <1>1, <1>2, <1>3, <1>4, <1>5

LEMMA InsertTimerKeeps ==
  ASSUME MaxSets <= 1, IntervalInv, NEW u \in Users, InsertTimer(u)
  PROVE  IntervalInv'
<1>. USE DEF IntervalInv, InsertTimer, User, Refers, Dropping, SettingNow, Expiring, Inserting
<1>1. IntervalTyped' /\ (crashed # "state")'
  BY DEF IntervalTyped
<1>2. Counted'
  <2>1. refcount' = refcount /\ \A x \in Users : Refers(x)' <=> Refers(x)
    BY DEF IntervalTyped
  <2>. QED
    BY <2>1, CountKept
<1>3. DroppedOnce'
  BY DEF DroppedOnce
<1>4. SetOnce'
  BY DEF SetOnce
<1>5. OwnedOnce'
  BY DEF IntervalTyped, SetOnce, OwnedOnce, Owned
<1>. QED
  BY <1>1, <1>2, <1>3, <1>4, <1>5

(* A reference is dropped, the last one when nobody else has any.            *)
LEMMA ReleaseKeeps ==
  ASSUME MaxSets <= 1, IntervalInv, NEW u \in Users, Release(u)
  PROVE  IntervalInv'
<1>. USE DEF IntervalInv, Release, User, Dropping, SettingNow, Expiring, Inserting
<1>. DEFINE before == {x \in Users : Refers(x)}
            after  == {x \in Users : Refers(x)'}
<1>1. after = before \ {u} /\ u \in before
  BY DEF IntervalTyped, Refers
<1>2. IsFiniteSet(before)
  BY FS_Subset, UsersAssumption
<1>3. refcount = Cardinality(before)
  BY DEF Counted
<1>4. Cardinality(after) = Cardinality(before) - 1
  BY <1>1, <1>2, FS_RemoveElement
<1>5. refcount # 0
  BY NobodyRefers DEF Refers
<1>6. freed = 0 /\ timerstate # "kill" /\ \A x \in Users : ~Dropping(x)
  BY <1>5 DEF DroppedOnce, IntervalTyped
<1>7. IntervalTyped' /\ (crashed # "state")'
  BY <1>5 DEF IntervalTyped
<1>8. Counted'
  BY <1>3, <1>4 DEF Counted
<1>9. DroppedOnce'
  BY <1>6 DEF DroppedOnce, IntervalTyped
<1>10. SetOnce'
  BY DEF SetOnce, IntervalTyped
<1>11. OwnedOnce'
  BY DEF OwnedOnce, Owned, IntervalTyped
<1>. QED
  BY <1>7, <1>8, <1>9, <1>10, <1>11

LEMMA ClearIntervalKeeps ==
  ASSUME MaxSets <= 1, IntervalInv, NEW u \in Users, ClearInterval(u)
  PROVE  IntervalInv'
<1>. USE DEF IntervalInv, ClearInterval, User, Refers, Dropping, SettingNow, Expiring, Inserting
<1>1. IntervalTyped' /\ (crashed # "state")'
  BY DEF IntervalTyped
<1>2. Counted'
  <2>1. refcount' = refcount /\ \A x \in Users : Refers(x)' <=> Refers(x)
    BY DEF IntervalTyped
  <2>. QED
    BY <2>1, CountKept
<1>3. DroppedOnce'
  BY DEF DroppedOnce
<1>4. SetOnce'
  BY DEF SetOnce
<1>5. OwnedOnce'
  BY DEF OwnedOnce, Owned
<1>. QED
  BY <1>1, <1>2, <1>3, <1>4, <1>5

(* The last reference is gone: the thread that dropped it is alone, and     *)
(* frees the flag only when the timer has no owner or is taken out of the   *)
(* queue.                                                                   *)
LEMMA FreeOrKillKeeps ==
  ASSUME MaxSets <= 1, IntervalInv, NEW u \in Users, FreeOrKill(u)
  PROVE  IntervalInv'
<1>. USE DEF IntervalInv, FreeOrKill, User, Refers, Dropping, SettingNow, Expiring, Inserting
<1>1. IntervalTyped' /\ (crashed # "state")'
  <2>1. freed = 0 /\ timerstate # "kill"
    BY DEF DroppedOnce, IntervalTyped
  <2>2. freed' \in {0, 1} /\ (crashed # "state")'
    BY <2>1
  <2>3. queued' \in BOOLEAN
    BY DEF IntervalTyped
  <2>4. user' \in [Users -> {"free", "save", "state", "insert", "clear", "look", "kill",
                            "gone"}]
    BY DEF IntervalTyped
  <2>. QED
    BY <2>2, <2>3, <2>4 DEF IntervalTyped
<1>2. Counted'
  <2>1. refcount' = refcount /\ \A x \in Users : Refers(x)' <=> Refers(x)
    BY DEF IntervalTyped
  <2>. QED
    BY <2>1, CountKept
<1>3. DroppedOnce'
  BY DEF IntervalTyped, DroppedOnce
<1>4. SetOnce'
  BY DEF IntervalTyped, SetOnce
<1>5. OwnedOnce'
  BY DEF IntervalTyped, OwnedOnce, Owned
<1>. QED
  BY <1>1, <1>2, <1>3, <1>4, <1>5

LEMMA KillKeeps ==
  ASSUME MaxSets <= 1, IntervalInv, NEW u \in Users, Kill(u)
  PROVE  IntervalInv'
<1>. USE DEF IntervalInv, Kill, User, Refers, Dropping, SettingNow, Expiring, Inserting
<1>1. IntervalTyped' /\ (crashed # "state")'
  BY DEF IntervalTyped
<1>2. Counted'
  <2>1. refcount' = refcount /\ \A x \in Users : Refers(x)' <=> Refers(x)
    BY DEF IntervalTyped
  <2>. QED
    BY <2>1, CountKept
<1>3. DroppedOnce'
  BY DEF IntervalTyped, DroppedOnce
<1>4. SetOnce'
  BY DEF SetOnce
<1>5. OwnedOnce'
  BY DEF OwnedOnce, Owned
<1>. QED
  BY <1>1, <1>2, <1>3, <1>4, <1>5

LEMMA ExpireKeeps ==
  ASSUME MaxSets <= 1, IntervalInv, NEW c \in Expirers, Expire(c)
  PROVE  IntervalInv'
<1>. USE DEF IntervalInv, Expire, Expirer, Refers, Dropping, SettingNow, Expiring, Inserting
<1>1. IntervalTyped' /\ (crashed # "state")'
  BY DEF IntervalTyped
<1>2. Counted'
  <2>1. refcount' = refcount /\ \A x \in Users : Refers(x)' <=> Refers(x)
    BY DEF IntervalTyped
  <2>. QED
    BY <2>1, CountKept
<1>3. DroppedOnce'
  BY DEF DroppedOnce
<1>4. SetOnce'
  BY DEF SetOnce
<1>5. OwnedOnce'
  BY DEF IntervalTyped, OwnedOnce, Owned
<1>. QED
  BY <1>1, <1>2, <1>3, <1>4, <1>5

(* event_timer owns the timer, so the flag is not freed, and if it was      *)
(* killed nobody else is going to free it.                                  *)
LEMMA LookKeeps ==
  ASSUME MaxSets <= 1, IntervalInv, NEW c \in Expirers, Look(c)
  PROVE  IntervalInv'
<1>. USE DEF IntervalInv, Look, Expirer, Refers, Dropping, SettingNow, Expiring, Inserting
<1>1. IntervalTyped' /\ (crashed # "state")'
  BY DEF IntervalTyped, OwnedOnce, Owned
<1>2. Counted'
  <2>1. refcount' = refcount /\ \A x \in Users : Refers(x)' <=> Refers(x)
    BY DEF IntervalTyped
  <2>. QED
    BY <2>1, CountKept
<1>3. DroppedOnce'
  BY DEF DroppedOnce
<1>4. SetOnce'
  BY DEF SetOnce
<1>5. OwnedOnce'
  BY DEF IntervalTyped, OwnedOnce, Owned
<1>. QED
  BY <1>1, <1>2, <1>3, <1>4, <1>5

LEMMA TestIntervalKeeps ==
  ASSUME MaxSets <= 1, IntervalInv, NEW c \in Expirers, TestInterval(c)
  PROVE  IntervalInv'
<1>. USE DEF IntervalInv, TestInterval, Expirer, Refers, Dropping, SettingNow, Expiring, Inserting
<1>1. IntervalTyped' /\ (crashed # "state")'
  BY DEF IntervalTyped
<1>2. Counted'
  <2>1. refcount' = refcount /\ \A x \in Users : Refers(x)' <=> Refers(x)
    BY DEF IntervalTyped
  <2>. QED
    BY <2>1, CountKept
<1>3. DroppedOnce'
  BY DEF DroppedOnce
<1>4. SetOnce'
  BY DEF SetOnce
<1>5. OwnedOnce'
  BY DEF OwnedOnce, Owned
<1>. QED
  BY <1>1, <1>2, <1>3, <1>4, <1>5

LEMMA DivideKeeps ==
  ASSUME MaxSets <= 1, IntervalInv, NEW c \in Expirers, Divide(c)
  PROVE  IntervalInv'
<1>. USE DEF IntervalInv, Divide, Expirer, Refers, Dropping, SettingNow, Expiring, Inserting
<1>1. IntervalTyped' /\ (crashed # "state")'
  BY DEF IntervalTyped
<1>2. Counted'
  <2>1. refcount' = refcount /\ \A x \in Users : Refers(x)' <=> Refers(x)
    BY DEF IntervalTyped
  <2>. QED
    BY <2>1, CountKept
<1>3. DroppedOnce'
  BY DEF DroppedOnce
<1>4. SetOnce'
  BY DEF SetOnce
<1>5. OwnedOnce'
  BY DEF OwnedOnce, Owned
<1>. QED
  BY <1>1, <1>2, <1>3, <1>4, <1>5

LEMMA InsertAgainKeeps ==
  ASSUME MaxSets <= 1, IntervalInv, NEW c \in Expirers, InsertAgain(c)
  PROVE  IntervalInv'
<1>. USE DEF IntervalInv, InsertAgain, Expirer, Refers, Dropping, SettingNow, Expiring, Inserting
<1>1. IntervalTyped' /\ (crashed # "state")'
  BY DEF IntervalTyped
<1>2. Counted'
  <2>1. refcount' = refcount /\ \A x \in Users : Refers(x)' <=> Refers(x)
    BY DEF IntervalTyped
  <2>. QED
    BY <2>1, CountKept
<1>3. DroppedOnce'
  BY DEF DroppedOnce
<1>4. SetOnce'
  BY DEF SetOnce
<1>5. OwnedOnce'
  BY DEF IntervalTyped, OwnedOnce, Owned
<1>. QED
  BY <1>1, <1>2, <1>3, <1>4, <1>5

LEMMA StopKeeps ==
  ASSUME MaxSets <= 1, IntervalInv, NEW c \in Expirers, Stop(c)
  PROVE  IntervalInv'
<1>. USE DEF IntervalInv, Stop, Expirer, Refers, Dropping, SettingNow, Expiring, Inserting
<1>1. IntervalTyped' /\ (crashed # "state")'
  BY DEF IntervalTyped
<1>2. Counted'
  <2>1. refcount' = refcount /\ \A x \in Users : Refers(x)' <=> Refers(x)
    BY DEF IntervalTyped
  <2>. QED
    BY <2>1, CountKept
<1>3. DroppedOnce'
  BY DEF DroppedOnce
<1>4. SetOnce'
  BY DEF SetOnce
<1>5. OwnedOnce'
  BY DEF IntervalTyped, OwnedOnce, Owned
<1>. QED
  BY <1>1, <1>2, <1>3, <1>4, <1>5

LEMMA NextIntervalInv ==
  ASSUME MaxSets <= 1
  PROVE  IntervalInv /\ [IntervalNext]_intervalVars => IntervalInv'
<1>. SUFFICES ASSUME IntervalInv, [IntervalNext]_intervalVars PROVE IntervalInv'
  OBVIOUS
<1>1. ASSUME NEW u \in Users, Setting(u) \/ Release(u) \/ Releasing(u)
      PROVE  IntervalInv'
  BY <1>1, SetKeeps, SaveIntervalKeeps, SetStateKeeps, InsertTimerKeeps, ReleaseKeeps,
     ClearIntervalKeeps, FreeOrKillKeeps, KillKeeps DEF Setting, Releasing
<1>2. ASSUME NEW c \in Expirers, Expire(c) \/ Expired(c)
      PROVE  IntervalInv'
  BY <1>2, ExpireKeeps, LookKeeps, TestIntervalKeeps, DivideKeeps, InsertAgainKeeps,
     StopKeeps DEF Expired
<1>3. CASE UNCHANGED intervalVars
  BY <1>3 DEF intervalVars, IntervalInv, IntervalTyped, Counted, DroppedOnce, SetOnce,
     OwnedOnce, Owned, Refers, Dropping, SettingNow, Expiring, Inserting
<1>. QED
  BY <1>1, <1>2, <1>3 DEF IntervalNext

(* If an interval is set once, the timer of an event flag and the flag have  *)
(* one owner until they are freed, and they are freed once, whatever the     *)
(* threads that drop references and the calls of event_timer do meanwhile:   *)
(* oz_knl_event_increfc and event_timer hand them over without a lock.       *)
THEOREM TimerHandedOver ==
  ASSUME MaxSets <= 1
  PROVE  IntervalSpec => []TimerOwned
<1>1. IntervalInit => IntervalInv
  BY InitIntervalInv
<1>2. IntervalInv /\ [IntervalNext]_intervalVars => IntervalInv'
  BY NextIntervalInv
<1>3. IntervalInv => TimerOwned
  BY DEF IntervalInv, IntervalTyped, DroppedOnce, OwnedOnce, Owned, Expiring, Inserting,
     TimerOwned, FreedUnused, TimerHasOwner
<1>. QED
  BY <1>1, <1>2, <1>3, PTL DEF IntervalSpec
=============================================================================
