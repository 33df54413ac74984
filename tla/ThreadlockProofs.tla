-------------------------- MODULE ThreadlockProofs --------------------------
(***************************************************************************)
(* Proofs about Threadlock, for any finite set of threads and any sizes of *)
(* the fields of the lock word: the inductive invariant, the safety        *)
(* properties that follow from it, and that a thread lock implements       *)
(* RWLock.                                                                 *)
(***************************************************************************)
EXTENDS Threadlock, FiniteSetTheorems, TLAPS

Waiting == {t \in Threads : waitinc[t] = 1}

(* What a thread's place in the lock routines says about its locals. *)
Acquiring == {"sample", "clear", "saywait", "check", "link", "waiting", "take"}

LocalInv ==
  \A t \in Threads :
    /\ pc[t] \in {"clear", "saywait"} => InUse(want[t], oldflag[t])
    /\ pc[t] = "take" => ~InUse(want[t], oldflag[t])
    /\ pc[t] \in Acquiring => holds[t] = "NL"
    /\ waitinc[t] = 1 => pc[t] \in Acquiring

IInv == TypeOK /\ LocalInv /\ WordIsExact /\ MutualExclusion /\ WakeOwed

-----------------------------------------------------------------------------
(* Counting *)

LEMMA HoldingFinite ==
  ASSUME NEW m
  PROVE  /\ IsFiniteSet(Holding(m))
         /\ Cardinality(Holding(m)) \in Nat
         /\ Cardinality(Holding(m)) = 0 <=> Holding(m) = {}
<1>1. IsFiniteSet(Holding(m))
  BY ThreadsAssumption, FS_Subset DEF Holding
<1> QED
  BY <1>1, FS_CardinalityType, FS_EmptySet

LEMMA WaitingFinite ==
  /\ IsFiniteSet(Waiting)
  /\ Cardinality(Waiting) \in Nat
  /\ Cardinality(Waiting) = 0 <=> Waiting = {}
  /\ Cardinality(Waiting) <= MaxWaitc
<1>1. /\ IsFiniteSet(Waiting)
      /\ Cardinality(Waiting) <= Cardinality(Threads)
  BY ThreadsAssumption, FS_Subset DEF Waiting
<1>2. Cardinality(Threads) \in Nat
  BY ThreadsAssumption, FS_CardinalityType
<1> QED
  BY <1>1, <1>2, FS_CardinalityType, FS_EmptySet, MaxWaitcAssumption

(* Adding or removing one thread moves a counter by one. *)
LEMMA CountAdd ==
  ASSUME NEW S, IsFiniteSet(S), NEW t, t \notin S
  PROVE  Cardinality(S \cup {t}) = Cardinality(S) + 1
  BY FS_AddElement

LEMMA CountRemove ==
  ASSUME NEW S, IsFiniteSet(S), NEW t, t \in S
  PROVE  /\ Cardinality(S \ {t}) = Cardinality(S) - 1
         /\ Cardinality(S) \in Nat /\ Cardinality(S) >= 1
<1>1. Cardinality(S) \in Nat /\ Cardinality(S) # 0
  BY FS_CardinalityType, FS_EmptySet
<1> QED
  BY <1>1, FS_RemoveElement

-----------------------------------------------------------------------------
(* The invariant holds initially *)

THEOREM InitIInv == Init => IInv
<1> SUFFICES ASSUME Init PROVE IInv
  OBVIOUS
<1> USE MaxReadcAssumption DEF Init
<1>1. TypeOK
  BY DEF TypeOK, Flags, FreeFlag, Pcs
<1>2. LocalInv
  BY DEF LocalInv, Acquiring
<1>3. WordIsExact
  <2>1. Holding("EX") = {} /\ Holding("PR") = {}
    BY DEF Holding
  <2>2. {t \in Threads : waitinc[t] = 1} = {}
    OBVIOUS
  <2> QED
    BY <2>1, <2>2, FS_EmptySet DEF WordIsExact, FreeFlag
<1>4. MutualExclusion
  BY DEF MutualExclusion
<1>5. WakeOwed
  BY DEF WakeOwed, FreeFlag
<1> QED
  BY <1>1, <1>2, <1>3, <1>4, <1>5 DEF IInv

-----------------------------------------------------------------------------
(* Every step keeps it *)

(* A step that leaves the lock word and who holds or waits alone keeps     *)
(* what the word says about them.                                          *)
LEMMA WordFrame ==
  ASSUME WordIsExact, MutualExclusion, UNCHANGED <<flag, holds, waitinc>>
  PROVE  WordIsExact' /\ MutualExclusion'
  BY DEF WordIsExact, MutualExclusion, Holding

(* Exclusive access to the lock word: when the bit is set nobody reads,    *)
(* and when nothing is set nobody holds the lock.                          *)
LEMMA WordMeaning ==
  ASSUME TypeOK, WordIsExact, MutualExclusion
  PROVE  /\ flag.exbit => flag.readc = 0
         /\ ~flag.exbit => \A t \in Threads : holds[t] # "EX"
         /\ flag.readc = 0 => \A t \in Threads : holds[t] # "PR"
         /\ \A t \in Threads : holds[t] = "EX" => flag.exbit
         /\ \A t \in Threads : holds[t] = "PR" => flag.readc >= 1
         /\ \A t \in Threads : waitinc[t] = 1 => flag.waitc >= 1
         /\ flag.waitc <= MaxWaitc
<1>1. flag.exbit <=> \E t \in Threads : holds[t] = "EX"
  BY DEF WordIsExact, Holding
<1>2. flag.readc = 0 <=> ~ \E t \in Threads : holds[t] = "PR"
  <2>1. flag.readc = 0 <=> Holding("PR") = {}
    BY HoldingFinite DEF WordIsExact
  <2> QED
    BY <2>1 DEF Holding
<1>3. flag.exbit => flag.readc = 0
  BY <1>1, <1>2 DEF MutualExclusion
<1>4. flag.readc \in Nat /\ flag.waitc \in Nat
  BY MaxReadcAssumption DEF TypeOK, Flags
<1>5. flag.waitc = 0 <=> Waiting = {}
  BY WaitingFinite DEF WordIsExact, Waiting
<1>6. flag.waitc <= MaxWaitc
  BY WaitingFinite DEF WordIsExact, Waiting
<1> QED
  BY <1>1, <1>2, <1>3, <1>4, <1>5, <1>6 DEF Waiting

LEMMA CallStep ==
  ASSUME IInv, NEW t \in Threads, NEW mode \in {"PR", "EX"}, Call(t, mode)
  PROVE  IInv'
<1> USE DEF Call, GoTo, IInv
<1>1. TypeOK'
  BY DEF TypeOK, Pcs
<1>2. LocalInv'
  BY DEF LocalInv, TypeOK, Acquiring
<1>3. UNCHANGED waitinc
  BY DEF TypeOK, LocalInv, Acquiring
<1>4. WordIsExact' /\ MutualExclusion'
  BY <1>3, WordFrame
<1>5. WakeOwed'
  BY DEF WakeOwed, InLoop, TypeOK
<1> QED
  BY <1>1, <1>2, <1>4, <1>5

LEMMA SampleStep ==
  ASSUME IInv, NEW t \in Threads, Sample(t)
  PROVE  IInv'
<1> USE DEF Sample, GoTo, IInv
<1>1. TypeOK'
  BY DEF TypeOK, Pcs
<1>2. LocalInv'
  BY DEF LocalInv, TypeOK, Acquiring, InUse
<1>3. WordIsExact' /\ MutualExclusion'
  BY WordFrame
<1>4. WakeOwed'
  BY DEF WakeOwed, InLoop, TypeOK
<1> QED
  BY <1>1, <1>2, <1>3, <1>4

(* The clearing of the event flag is safe because the thread that clears   *)
(* it is on its way around the loop.                                       *)
LEMMA ClearEventStep ==
  ASSUME IInv, NEW t \in Threads, ClearEvent(t)
  PROVE  IInv'
<1> USE DEF ClearEvent, GoTo, IInv
<1>1. TypeOK'
  BY DEF TypeOK, Pcs
<1>2. LocalInv'
  BY DEF LocalInv, TypeOK, Acquiring, InUse
<1>3. WordIsExact' /\ MutualExclusion'
  BY WordFrame
<1>4. WakeOwed'
  BY DEF WakeOwed, InLoop, TypeOK
<1> QED
  BY <1>1, <1>2, <1>3, <1>4

(* A compare-and-swap that says "waiting" can only succeed while the lock  *)
(* is in use.                                                              *)
LEMMA SayWaitingStep ==
  ASSUME IInv, NEW t \in Threads, SayWaiting(t)
  PROVE  IInv'
<1> USE DEF GoTo, Forget, IInv
<1>1. CASE flag # oldflag[t]
  <2>1. TypeOK'
    BY <1>1, MaxReadcAssumption DEF SayWaiting, TypeOK, Pcs, FreeFlag, Flags
  <2>2. LocalInv'
    BY <1>1 DEF SayWaiting, LocalInv, TypeOK, Acquiring, InUse
  <2>3. WordIsExact' /\ MutualExclusion'
    BY <1>1, WordFrame DEF SayWaiting
  <2>4. WakeOwed'
    BY <1>1 DEF SayWaiting, WakeOwed, InLoop, TypeOK
  <2> QED
    BY <2>1, <2>2, <2>3, <2>4
<1>2. CASE flag = oldflag[t]
  <2>0. /\ flag' = [flag EXCEPT !.waitc = flag.waitc - waitinc[t] + 1]
        /\ waitinc' = [waitinc EXCEPT ![t] = 1]
        /\ pc' = [pc EXCEPT ![t] = "check"]
        /\ oldflag' = [oldflag EXCEPT ![t] = FreeFlag]
        /\ pc[t] = "saywait"
        /\ UNCHANGED <<evvalue, evlist, state, want, holds>>
    BY <1>2 DEF SayWaiting
  <2>1. TypeOK'
    <3>1. flag.waitc - waitinc[t] + 1 \in Nat
      BY WordMeaning DEF TypeOK, Flags
    <3>2. flag' \in Flags
      BY <2>0, <3>1 DEF TypeOK, Flags
    <3> QED
      BY <2>0, <3>2, MaxReadcAssumption DEF TypeOK, Pcs, FreeFlag, Flags
  <2>2. LocalInv'
    BY <2>0 DEF LocalInv, TypeOK, Acquiring, InUse
  <2>3. WordIsExact'
    <3>1. /\ Holding("EX")' = Holding("EX")
          /\ Holding("PR")' = Holding("PR")
      BY <2>0 DEF Holding
    <3>2. /\ flag'.exbit = flag.exbit
          /\ flag'.readc = flag.readc
          /\ flag'.waitc = flag.waitc - waitinc[t] + 1
      BY <2>0 DEF TypeOK, Flags
    <3>3. Waiting' = Waiting \cup {t}
      BY <2>0 DEF Waiting, TypeOK
    <3>4. Cardinality(Waiting)' = Cardinality(Waiting) - waitinc[t] + 1
      <4>1. CASE waitinc[t] = 1
        <5>1. Waiting' = Waiting
          BY <3>3, <4>1 DEF Waiting
        <5> QED
          BY <5>1, <4>1, WaitingFinite
      <4>2. CASE waitinc[t] = 0
        BY <3>3, <4>2, WaitingFinite, CountAdd DEF Waiting
      <4> QED
        BY <4>1, <4>2 DEF TypeOK
    <3> QED
      BY <3>1, <3>2, <3>4 DEF WordIsExact, Waiting
  <2>4. MutualExclusion'
    BY <2>0 DEF MutualExclusion
  <2>5. WakeOwed'
    <3>1. ~ Free(flag)
      BY <1>2, <2>0, MaxReadcAssumption DEF LocalInv, InUse, Free, TypeOK
    <3>2. ~ Free(flag)'
      BY <2>0, <3>1 DEF Free, TypeOK, Flags
    <3> QED
      BY <3>2 DEF WakeOwed
  <2> QED
    BY <2>1, <2>2, <2>3, <2>4, <2>5
<1> QED
  BY <1>1, <1>2
(* A compare-and-swap that takes the lock succeeds only if nobody held it  *)
(* in a mode that conflicts.                                               *)
LEMMA TakeStep ==
  ASSUME IInv, NEW t \in Threads, Take(t)
  PROVE  IInv'
<1> USE DEF GoTo, Forget, IInv
<1>1. CASE flag # oldflag[t]
  <2>1. TypeOK'
    BY <1>1, MaxReadcAssumption DEF Take, TypeOK, Pcs, FreeFlag, Flags
  <2>2. LocalInv'
    BY <1>1 DEF Take, LocalInv, TypeOK, Acquiring, InUse
  <2>3. WordIsExact' /\ MutualExclusion'
    BY <1>1, WordFrame DEF Take
  <2>4. WakeOwed'
    BY <1>1 DEF Take, WakeOwed, InLoop, TypeOK
  <2> QED
    BY <2>1, <2>2, <2>3, <2>4
<1>2. CASE flag = oldflag[t]
  <2>0. /\ flag' = Taken(want[t], flag, waitinc[t])
        /\ holds' = [holds EXCEPT ![t] = want[t]]
        /\ waitinc' = [waitinc EXCEPT ![t] = 0]
        /\ pc' = [pc EXCEPT ![t] = "out"]
        /\ oldflag' = [oldflag EXCEPT ![t] = FreeFlag]
        /\ pc[t] = "take"
        /\ UNCHANGED <<evvalue, evlist, state, want>>
    BY <1>2 DEF Take
  <2>1. /\ ~flag.exbit
        /\ want[t] = "EX" => flag.readc = 0
        /\ want[t] = "PR" => flag.readc # MaxReadc
        /\ holds[t] = "NL"
    BY <1>2, <2>0 DEF LocalInv, InUse, Acquiring
  <2>2. /\ flag'.readc = IF want[t] = "PR" THEN flag.readc + 1 ELSE flag.readc
        /\ flag'.exbit = (want[t] = "EX")
        /\ flag'.waitc = flag.waitc - waitinc[t]
    BY <2>0 DEF Taken
  <2>3. flag' \in Flags
    <3>1. flag.waitc - waitinc[t] \in Nat
      BY WordMeaning DEF TypeOK, Flags
    <3>2. (IF want[t] = "PR" THEN flag.readc + 1 ELSE flag.readc) \in 0 .. MaxReadc
      <4>1. flag.readc \in 0 .. MaxReadc /\ MaxReadc \in Nat
        BY MaxReadcAssumption DEF TypeOK, Flags
      <4>2. CASE want[t] = "PR"
        <5>1. flag.readc + 1 \in 0 .. MaxReadc
          BY <2>1, <4>1, <4>2
        <5> QED
          BY <4>2, <5>1
      <4>3. CASE want[t] # "PR"
        BY <4>1, <4>3
      <4> QED
        BY <4>2, <4>3
    <3>3. (want[t] = "EX") \in BOOLEAN
      OBVIOUS
    <3> DEFINE r == IF want[t] = "PR" THEN flag.readc + 1 ELSE flag.readc
               e == want[t] = "EX"
               w == flag.waitc - waitinc[t]
    <3>4. flag' = [readc |-> r, exbit |-> e, waitc |-> w]
      BY <2>0 DEF Taken
    <3>5. r \in 0 .. MaxReadc /\ e \in BOOLEAN /\ w \in Nat
      BY <3>1, <3>2, <3>3
    <3> HIDE DEF r, e, w
    <3> QED
      BY <3>4, <3>5 DEF Flags
  <2>4. TypeOK'
    BY <2>0, <2>3, MaxReadcAssumption DEF TypeOK, Pcs, FreeFlag, Flags
  <2>5. LocalInv'
    BY <2>0 DEF LocalInv, TypeOK, Acquiring, InUse
  <2>6. WordIsExact'
    <3>1. Holding("EX")' # {} <=> want[t] = "EX"
      <4>1. \A u \in Threads : holds[u] # "EX"
        BY <2>1, WordMeaning
      <4> QED
        BY <2>0, <4>1 DEF Holding, TypeOK
    <3>2. flag'.readc = Cardinality(Holding("PR")')
      <4>1. CASE want[t] = "PR"
        <5>1. Holding("PR")' = Holding("PR") \cup {t} /\ t \notin Holding("PR")
          BY <2>0, <2>1, <4>1 DEF Holding, TypeOK
        <5> QED
          BY <2>2, <4>1, <5>1, HoldingFinite, CountAdd DEF WordIsExact
      <4>2. CASE want[t] = "EX"
        <5>1. Holding("PR")' = Holding("PR")
          BY <2>0, <2>1, <4>2 DEF Holding, TypeOK
        <5> QED
          BY <2>2, <4>2, <5>1 DEF WordIsExact
      <4> QED
        BY <4>1, <4>2 DEF TypeOK
    <3>3. flag'.waitc = Cardinality(Waiting')
      <4>1. Waiting' = Waiting \ {t}
        BY <2>0 DEF Waiting, TypeOK
      <4>2. CASE waitinc[t] = 1
        BY <2>2, <4>1, <4>2, WaitingFinite, CountRemove DEF WordIsExact, Waiting
      <4>3. CASE waitinc[t] = 0
        <5>1. Waiting' = Waiting
          BY <4>1, <4>3 DEF Waiting
        <5>2. flag.waitc = Cardinality(Waiting)
          BY DEF WordIsExact, Waiting
        <5> QED
          BY <2>2, <4>3, <5>1, <5>2, WaitingFinite
      <4> QED
        BY <4>2, <4>3 DEF TypeOK
    <3> QED
      BY <2>2, <3>1, <3>2, <3>3 DEF WordIsExact, Waiting
  <2>7. MutualExclusion'
    <3>1. \A u \in Threads : holds[u] # "EX"
      BY <2>1, WordMeaning
    <3>2. want[t] = "EX" => \A u \in Threads : holds[u] = "NL"
      BY <2>1, <3>1, WordMeaning DEF TypeOK
    <3> QED
      BY <2>0, <3>1, <3>2 DEF MutualExclusion, TypeOK
  <2>8. WakeOwed'
    <3>1. flag.readc \in Nat
      BY MaxReadcAssumption DEF TypeOK, Flags
    <3>2. flag'.readc # 0 \/ flag'.exbit
      <4>1. CASE want[t] = "PR"
        BY <2>2, <3>1, <4>1
      <4>2. CASE want[t] = "EX"
        BY <2>2, <4>2
      <4> QED
        BY <4>1, <4>2 DEF TypeOK
    <3>3. ~ Free(flag)'
      BY <3>2 DEF Free
    <3> QED
      BY <3>3 DEF WakeOwed
  <2> QED
    BY <2>4, <2>5, <2>6, <2>7, <2>8
<1> QED
  BY <1>1, <1>2

(* A thread goes to sleep only if the event flag is clear, and then the    *)
(* wake-up is owed by somebody else.                                       *)
LEMMA WaitStep ==
  ASSUME IInv, NEW t \in Threads,
         CheckEvent(t) \/ LinkEvent(t) \/ Woken(t) \/ AstWake(t)
  PROVE  IInv'
<1> USE DEF CheckEvent, LinkEvent, Woken, AstWake, GoTo, IInv
<1>1. TypeOK'
  BY DEF TypeOK, Pcs
<1>2. LocalInv'
  BY DEF LocalInv, TypeOK, Acquiring, InUse
<1>3. WordIsExact' /\ MutualExclusion'
  BY WordFrame
<1>4. WakeOwed'
  BY DEF WakeOwed, InLoop, TypeOK
<1> QED
  BY <1>1, <1>2, <1>3, <1>4

LEMMA SetEventStep ==
  ASSUME IInv, NEW t \in Threads, SetEvent(t) \/ WakeThreads(t)
  PROVE  IInv'
<1> USE DEF SetEvent, WakeThreads, GoTo, IInv
<1>1. TypeOK'
  BY DEF TypeOK, Pcs
<1>2. LocalInv'
  BY DEF LocalInv, TypeOK, Acquiring, InUse
<1>3. WordIsExact' /\ MutualExclusion'
  BY WordFrame
<1>4. WakeOwed'
  BY DEF WakeOwed, InLoop, TypeOK
<1> QED
  BY <1>1, <1>2, <1>3, <1>4
(* A release that finds WAITC owes the event flag; one that does not       *)
(* leaves nobody behind.                                                   *)
LEMMA UnlockExStep ==
  ASSUME IInv, NEW t \in Threads, UnlockEx(t)
  PROVE  IInv'
<1> USE DEF IInv
<1>0. /\ flag' = [flag EXCEPT !.exbit = FALSE]
      /\ holds' = [holds EXCEPT ![t] = "NL"]
      /\ pc' = [pc EXCEPT ![t] = IF flag.waitc # 0 THEN "setev" ELSE "out"]
      /\ pc[t] = "out" /\ holds[t] = "EX"
      /\ UNCHANGED <<evvalue, evlist, state, want, oldflag, waitinc>>
  BY DEF UnlockEx, AfterRelease, GoTo
<1>1. /\ flag'.exbit = FALSE
      /\ flag'.readc = flag.readc
      /\ flag'.waitc = flag.waitc
      /\ flag' \in Flags
  BY <1>0 DEF TypeOK, Flags
<1>2. TypeOK'
  BY <1>0, <1>1 DEF TypeOK, Pcs
<1>3. LocalInv'
  BY <1>0 DEF LocalInv, TypeOK, Acquiring, InUse
<1>4. WordIsExact'
  <2>1. Holding("EX")' = {}
    BY <1>0 DEF MutualExclusion, Holding, TypeOK
  <2>2. Holding("PR")' = Holding("PR")
    BY <1>0 DEF Holding, TypeOK
  <2> QED
    BY <1>0, <1>1, <2>1, <2>2 DEF WordIsExact
<1>5. MutualExclusion'
  BY <1>0 DEF MutualExclusion, TypeOK
<1>6. WakeOwed'
  BY <1>0, <1>1 DEF WakeOwed, TypeOK
<1> QED
  BY <1>2, <1>3, <1>4, <1>5, <1>6

LEMMA UnlockPrStep ==
  ASSUME IInv, NEW t \in Threads, UnlockPr(t)
  PROVE  IInv'
<1> USE DEF IInv
<1>0. /\ flag' = [flag EXCEPT !.readc = flag.readc - 1]
      /\ holds' = [holds EXCEPT ![t] = "NL"]
      /\ pc' = [pc EXCEPT ![t] = IF flag.waitc # 0 THEN "setev" ELSE "out"]
      /\ pc[t] = "out" /\ holds[t] = "PR"
      /\ UNCHANGED <<evvalue, evlist, state, want, oldflag, waitinc>>
  BY DEF UnlockPr, AfterRelease, GoTo
<1>1. flag.readc - 1 \in 0 .. MaxReadc
  BY <1>0, WordMeaning, MaxReadcAssumption DEF TypeOK, Flags
<1>2. /\ flag'.exbit = flag.exbit
      /\ flag'.readc = flag.readc - 1
      /\ flag'.waitc = flag.waitc
      /\ flag' \in Flags
  BY <1>0, <1>1 DEF TypeOK, Flags
<1>3. TypeOK'
  BY <1>0, <1>2 DEF TypeOK, Pcs
<1>4. LocalInv'
  BY <1>0 DEF LocalInv, TypeOK, Acquiring, InUse
<1>5. WordIsExact'
  <2>1. Holding("EX")' = Holding("EX")
    BY <1>0 DEF Holding, TypeOK
  <2>2. /\ Holding("PR")' = Holding("PR") \ {t}
        /\ t \in Holding("PR")
    BY <1>0 DEF Holding, TypeOK
  <2>3. Cardinality(Holding("PR")') = Cardinality(Holding("PR")) - 1
    BY <2>2, HoldingFinite, CountRemove
  <2> QED
    BY <1>0, <1>2, <2>1, <2>3 DEF WordIsExact
<1>6. MutualExclusion'
  BY <1>0 DEF MutualExclusion, TypeOK
<1>7. WakeOwed'
  BY <1>0, <1>2 DEF WakeOwed, TypeOK
<1> QED
  BY <1>3, <1>4, <1>5, <1>6, <1>7

LEMMA ExToPrStep ==
  ASSUME IInv, NEW t \in Threads, ExToPr(t)
  PROVE  IInv'
<1> USE DEF IInv
<1>0. /\ flag' = [flag EXCEPT !.exbit = FALSE, !.readc = flag.readc + 1]
      /\ holds' = [holds EXCEPT ![t] = "PR"]
      /\ pc' = [pc EXCEPT ![t] = IF flag.waitc # 0 THEN "setev" ELSE "out"]
      /\ pc[t] = "out" /\ holds[t] = "EX"
      /\ UNCHANGED <<evvalue, evlist, state, want, oldflag, waitinc>>
  BY DEF ExToPr, AfterRelease, GoTo
<1>1. flag.readc = 0
  BY <1>0, WordMeaning
<1>2. /\ flag'.exbit = FALSE
      /\ flag'.readc = 1
      /\ flag'.waitc = flag.waitc
      /\ flag' \in Flags
  <2>1. flag' = [flag EXCEPT !.exbit = FALSE, !.readc = 1]
    BY <1>0, <1>1
  <2>2. 1 \in 0 .. MaxReadc
    BY MaxReadcAssumption
  <2> QED
    BY <2>1, <2>2 DEF TypeOK, Flags
<1>3. TypeOK'
  BY <1>0, <1>2 DEF TypeOK, Pcs
<1>4. LocalInv'
  BY <1>0 DEF LocalInv, TypeOK, Acquiring, InUse
<1>5. WordIsExact'
  <2>1. Holding("EX")' = {}
    BY <1>0 DEF MutualExclusion, Holding, TypeOK
  <2>2. Holding("PR")' = {t}
    BY <1>0 DEF MutualExclusion, Holding, TypeOK
  <2> QED
    BY <1>0, <1>2, <2>1, <2>2, FS_Singleton DEF WordIsExact
<1>6. MutualExclusion'
  BY <1>0 DEF MutualExclusion, TypeOK
<1>7. WakeOwed'
  BY <1>2 DEF WakeOwed, Free
<1> QED
  BY <1>3, <1>4, <1>5, <1>6, <1>7

THEOREM NextIInv == IInv /\ [Next]_vars => IInv'
<1> SUFFICES ASSUME IInv, [Next]_vars PROVE IInv'
  OBVIOUS
<1>1. ASSUME NEW t \in Threads, Start(t) PROVE IInv'
  BY <1>1, CallStep DEF Start
<1>2. ASSUME NEW t \in Threads, Release(t) PROVE IInv'
  BY <1>2, UnlockExStep, UnlockPrStep, ExToPrStep DEF Release
<1>3. ASSUME NEW t \in Threads, Run(t) PROVE IInv'
  BY <1>3, SampleStep, ClearEventStep, SayWaitingStep, TakeStep, WaitStep, SetEventStep DEF Run
<1>4. ASSUME NEW t \in Threads, AstWake(t) PROVE IInv'
  BY <1>4, WaitStep
<1>5. CASE UNCHANGED vars
  <2> USE <1>5 DEF vars, IInv
  <2>1. TypeOK'
    BY DEF TypeOK
  <2>2. LocalInv'
    BY DEF LocalInv
  <2>3. WordIsExact' /\ MutualExclusion'
    BY WordFrame
  <2>4. WakeOwed'
    BY DEF WakeOwed, InLoop
  <2> QED
    BY <2>1, <2>2, <2>3, <2>4
<1> QED
  BY <1>1, <1>2, <1>3, <1>4, <1>5 DEF Next

-----------------------------------------------------------------------------
(* The theorems *)

(* The strengthened invariant holds in every reachable state of a thread   *)
(* lock, for any number of threads.                                        *)
THEOREM Inductive == Spec => []IInv
  BY InitIInv, NextIInv, PTL DEF Spec

(* The lock word, the event flag and the locals of oz_knl_threadlock.c     *)
(* keep their types; in particular the reader count never passes           *)
(* FLAG_M_READC.                                                           *)
THEOREM TypeCorrect == Spec => []TypeOK
<1>1. IInv => TypeOK
  BY DEF IInv
<1> QED
  BY <1>1, Inductive, PTL

(* A thread in exclusive mode is alone with the resource.                  *)
THEOREM Exclusion == Spec => []MutualExclusion
<1>1. IInv => MutualExclusion
  BY DEF IInv
<1> QED
  BY <1>1, Inductive, PTL

(* The lock word counts exactly the readers and the waiters.               *)
THEOREM ExactWord == Spec => []WordIsExact
<1>1. IInv => WordIsExact
  BY DEF IInv
<1> QED
  BY <1>1, Inductive, PTL

(* WAITC never carries out of the lock word.                               *)
THEOREM WaitcFits == Spec => [](flag.waitc <= MaxWaitc)
<1>1. IInv => flag.waitc <= MaxWaitc
  BY WordMeaning DEF IInv
<1> QED
  BY <1>1, Inductive, PTL

(* A free lock that threads wait for always has its event flag set or      *)
(* somebody who will set it.                                               *)
THEOREM NoForgottenWaiter == Spec => []WakeOwed
<1>1. IInv => WakeOwed
  BY DEF IInv
<1> QED
  BY <1>1, Inductive, PTL

-----------------------------------------------------------------------------
(* A thread lock implements the abstract lock *)

LEMMA TakeIsLock ==
  ASSUME IInv, NEW t \in Threads, Take(t)
  PROVE  Abstract!LockEx(t) \/ Abstract!LockPr(t) \/ UNCHANGED holds
<1> USE DEF IInv
<1>1. CASE flag # oldflag[t]
  BY <1>1 DEF Take
<1>2. CASE flag = oldflag[t]
  <2>1. /\ holds' = [holds EXCEPT ![t] = want[t]]
        /\ ~InUse(want[t], flag)
        /\ holds[t] = "NL"
    BY <1>2 DEF Take, LocalInv, Acquiring
  <2>2. \A u \in Threads : holds[u] # "EX"
    BY <2>1, WordMeaning DEF InUse
  <2>3. CASE want[t] = "EX"
    <3>1. \A u \in Threads : holds[u] # "PR"
      BY <2>1, <2>3, WordMeaning DEF InUse
    <3>2. Abstract!Holding("NL") = Threads
      BY <2>2, <3>1 DEF Abstract!Holding, TypeOK
    <3> QED
      BY <2>1, <2>3, <3>2 DEF Abstract!LockEx
  <2>4. CASE want[t] = "PR"
    <3>1. Abstract!Holding("EX") = {}
      BY <2>2 DEF Abstract!Holding
    <3> QED
      BY <2>1, <2>4, <3>1 DEF Abstract!LockPr
  <2>5. want[t] \in {"PR", "EX"}
    BY DEF TypeOK
  <2> QED
    BY <2>3, <2>4, <2>5
<1> QED
  BY <1>1, <1>2

(* Every behaviour of the code is a behaviour of the abstract lock.        *)
THEOREM Refinement == Spec => ImplementsRWLock
<1>1. Init => Abstract!Init
  BY DEF Init, Abstract!Init
<1>2. IInv /\ [Next]_vars => [Abstract!Next]_holds
  <2> SUFFICES ASSUME IInv, [Next]_vars PROVE [Abstract!Next]_holds
    OBVIOUS
  <2>1. ASSUME NEW t \in Threads, Take(t) PROVE [Abstract!Next]_holds
    BY <2>1, TakeIsLock DEF Abstract!Next
  <2>2. ASSUME NEW t \in Threads, UnlockEx(t) \/ UnlockPr(t)
        PROVE  [Abstract!Next]_holds
    BY <2>2 DEF UnlockEx, UnlockPr, Abstract!Unlock, Abstract!Next
  <2>3. ASSUME NEW t \in Threads, ExToPr(t) PROVE [Abstract!Next]_holds
    BY <2>3 DEF ExToPr, Abstract!ExToPr, Abstract!Next
  <2>4. ASSUME NEW t \in Threads, Start(t) \/ AstWake(t)
        PROVE  UNCHANGED holds
    BY <2>4 DEF Start, Call, AstWake
  <2>5. ASSUME NEW t \in Threads, Run(t), ~Take(t) PROVE UNCHANGED holds
    BY <2>5 DEF Run, Sample, ClearEvent, SayWaiting, CheckEvent, LinkEvent, Woken, SetEvent, WakeThreads
  <2>6. CASE UNCHANGED vars
    BY <2>6 DEF vars
  <2> QED
    BY <2>1, <2>2, <2>3, <2>4, <2>5, <2>6 DEF Next, Release
<1> QED
  BY <1>1, <1>2, Inductive, PTL DEF Spec, ImplementsRWLock, Abstract!Spec
=============================================================================
