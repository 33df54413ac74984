---------------------------- MODULE QueueLemmas -----------------------------
(***************************************************************************)
(* What taking an element off a queue, by its position, and putting one at  *)
(* its end do to the others.                                               *)
(***************************************************************************)
EXTENDS SequencesExt, Integers, SequenceTheorems, TLAPS

LEMMA RemoveAtElements ==
  ASSUME NEW R, NEW s \in Seq(R), NEW i \in 1 .. Len(s)
  PROVE  /\ RemoveAt(s, i) \in Seq(R)
         /\ Len(RemoveAt(s, i)) = Len(s) - 1
         /\ \A j \in 1 .. Len(s) - 1 :
              RemoveAt(s, i)[j] = IF j < i THEN s[j] ELSE s[j + 1]
<1> DEFINE a == SubSeq(s, 1, i - 1)  b == SubSeq(s, i + 1, Len(s))
<1>1. a \in Seq(R) /\ Len(a) = i - 1 /\ \A j \in 1 .. i - 1 : a[j] = s[j]
  OBVIOUS
<1>2. b \in Seq(R) /\ Len(b) = Len(s) - i /\ \A j \in 1 .. Len(s) - i : b[j] = s[i + j]
  OBVIOUS
<1>3. RemoveAt(s, i) = a \o b
  BY DEF RemoveAt
<1>4. i \in Nat /\ i >= 1 /\ i <= Len(s) /\ Len(s) \in Nat
  OBVIOUS
<1> HIDE DEF a, b
<1>5. /\ a \o b \in Seq(R) /\ Len(a \o b) = Len(a) + Len(b)
      /\ \A j \in 1 .. Len(a) + Len(b) :
           (a \o b)[j] = IF j <= Len(a) THEN a[j] ELSE b[j - Len(a)]
  BY <1>1, <1>2, ConcatProperties
<1>6. ASSUME NEW j \in 1 .. Len(s) - 1
      PROVE  RemoveAt(s, i)[j] = IF j < i THEN s[j] ELSE s[j + 1]
  <2>1. CASE j < i
    BY <1>1, <1>2, <1>3, <1>4, <1>5, <2>1
  <2>2. CASE j >= i
    <3>1. j - (i - 1) \in 1 .. Len(s) - i /\ i + (j - (i - 1)) = j + 1
      BY <1>4, <2>2
    <3>2. RemoveAt(s, i)[j] = b[j - (i - 1)]
      BY <1>1, <1>2, <1>3, <1>4, <1>5, <2>2
    <3>3. b[j - (i - 1)] = s[i + (j - (i - 1))]
      BY <1>2, <3>1
    <3> QED
      BY <2>2, <3>1, <3>2, <3>3
  <2> QED
    BY <1>4, <2>1, <2>2
<1> QED
  BY <1>1, <1>2, <1>3, <1>4, <1>5, <1>6

LEMMA AppendElements ==
  ASSUME NEW R, NEW s \in Seq(R), NEW e \in R
  PROVE  /\ Append(s, e) \in Seq(R)
         /\ Len(Append(s, e)) = Len(s) + 1
         /\ Append(s, e)[Len(s) + 1] = e
         /\ \A j \in 1 .. Len(s) : Append(s, e)[j] = s[j]
  OBVIOUS

-----------------------------------------------------------------------------
(* Queues in which nothing is twice. *)

LEMMA RemoveAtOnce ==
  ASSUME NEW R, NEW s \in Seq(R), NEW i \in 1 .. Len(s),
         \A j, l \in 1 .. Len(s) : s[j] = s[l] => j = l
  PROVE  /\ RemoveAt(s, i) \in Seq(R)
         /\ Range(RemoveAt(s, i)) = Range(s) \ {s[i]}
         /\ \A j, l \in 1 .. Len(RemoveAt(s, i)) :
              RemoveAt(s, i)[j] = RemoveAt(s, i)[l] => j = l
<1> DEFINE r == RemoveAt(s, i)
           from(j) == IF j < i THEN j ELSE j + 1
<1>1. /\ r \in Seq(R) /\ Len(r) = Len(s) - 1 /\ Len(s) \in Nat
      /\ \A j \in 1 .. Len(s) - 1 : r[j] = s[from(j)]
  <2>1. /\ r \in Seq(R) /\ Len(r) = Len(s) - 1
        /\ \A j \in 1 .. Len(s) - 1 : r[j] = IF j < i THEN s[j] ELSE s[j + 1]
    BY RemoveAtElements
  <2>2. Len(s) \in Nat
    OBVIOUS
  <2> HIDE DEF r
  <2>3. \A j \in 1 .. Len(s) - 1 : r[j] = s[from(j)]
    BY <2>1
  <2> QED
    BY <2>1, <2>2, <2>3
<1>2. \A j \in 1 .. Len(s) - 1 : from(j) \in 1 .. Len(s) /\ from(j) # i
  BY <1>1
<1>3. \A j, l \in 1 .. Len(s) - 1 : from(j) = from(l) => j = l
  BY <1>1
<1>4. \A k \in 1 .. Len(s) : k # i => \E j \in 1 .. Len(s) - 1 : from(j) = k
  <2> SUFFICES ASSUME NEW k \in 1 .. Len(s), k # i
               PROVE  \E j \in 1 .. Len(s) - 1 : from(j) = k
    OBVIOUS
  <2>1. CASE k < i
    BY <1>1, <2>1
  <2>2. CASE k > i
    <3>1. k - 1 \in 1 .. Len(s) - 1 /\ from(k - 1) = k
      BY <1>1, <2>2
    <3> QED
      BY <3>1
  <2> QED
    BY <2>1, <2>2
<1> HIDE DEF r, from
<1>5. \A j, l \in 1 .. Len(r) : r[j] = r[l] => j = l
  BY <1>1, <1>2, <1>3
<1>6. Range(r) = {r[j] : j \in 1 .. Len(s) - 1} /\ Range(s) = {s[j] : j \in 1 .. Len(s)}
  BY <1>1 DEF Range
<1>7. ASSUME NEW j \in 1 .. Len(s) - 1
      PROVE  r[j] \in Range(s) \ {s[i]}
  BY <1>1, <1>2, <1>6
<1>8. ASSUME NEW k \in 1 .. Len(s), k # i
      PROVE  s[k] \in Range(r)
  <2>1. PICK j \in 1 .. Len(s) - 1 : from(j) = k
    BY <1>4, <1>8
  <2> QED
    BY <1>1, <1>6, <2>1
<1>9. Range(r) = Range(s) \ {s[i]}
  <2>1. \A x \in Range(r) : x \in Range(s) \ {s[i]}
    BY <1>6, <1>7
  <2>2. \A x \in Range(s) \ {s[i]} : x \in Range(r)
    BY <1>6, <1>8
  <2> QED
    BY <2>1, <2>2
<1> QED
  BY <1>1, <1>5, <1>9 DEF r

LEMMA AppendOnce ==
  ASSUME NEW R, NEW s \in Seq(R), NEW e \in R, e \notin Range(s),
         \A j, l \in 1 .. Len(s) : s[j] = s[l] => j = l
  PROVE  /\ Append(s, e) \in Seq(R)
         /\ Range(Append(s, e)) = Range(s) \cup {e}
         /\ \A j, l \in 1 .. Len(Append(s, e)) : Append(s, e)[j] = Append(s, e)[l] => j = l
<1> DEFINE a == Append(s, e)
<1>1. /\ a \in Seq(R) /\ Len(a) = Len(s) + 1 /\ Len(s) \in Nat
      /\ a[Len(s) + 1] = e /\ \A j \in 1 .. Len(s) : a[j] = s[j]
  BY AppendElements
<1> HIDE DEF a
<1>2. Range(a) = {a[j] : j \in 1 .. Len(s) + 1} /\ Range(s) = {s[j] : j \in 1 .. Len(s)}
  BY <1>1 DEF Range
<1>3. \A j \in 1 .. Len(s) : s[j] # e
  BY <1>2
<1>4. \A j \in 1 .. Len(s) + 1 : j \in 1 .. Len(s) \/ j = Len(s) + 1
  BY <1>1
<1>5. \A j, l \in 1 .. Len(a) : a[j] = a[l] => j = l
  BY <1>1, <1>3, <1>4
<1>6. Range(a) = Range(s) \cup {e}
  BY <1>1, <1>2, <1>4
<1> QED
  BY <1>1, <1>5, <1>6 DEF a

(* The first occurrence of an element that is there only once. *)
LEMMA RemoveFirstOnce ==
  ASSUME NEW R, NEW s \in Seq(R), NEW e,
         \A j, l \in 1 .. Len(s) : s[j] = s[l] => j = l
  PROVE  /\ RemoveFirst(s, e) \in Seq(R)
         /\ Range(RemoveFirst(s, e)) = Range(s) \ {e}
         /\ \A j, l \in 1 .. Len(RemoveFirst(s, e)) :
              RemoveFirst(s, e)[j] = RemoveFirst(s, e)[l] => j = l
<1>1. CASE \E i \in 1 .. Len(s) : s[i] = e
  <2> DEFINE I == {i \in 1 .. Len(s) : s[i] = e}
  <2>1. PICK i \in 1 .. Len(s) : s[i] = e
    BY <1>1
  <2>2. I = {i}
    BY <2>1
  <2>3. Min(I) = i
    BY <2>1, <2>2 DEF Min
  <2>4. RemoveFirst(s, e) = RemoveAt(s, i)
    BY <1>1, <2>1, <2>2, <2>3 DEF RemoveFirst, SelectInSeq
  <2>5. /\ RemoveAt(s, i) \in Seq(R)
        /\ Range(RemoveAt(s, i)) = Range(s) \ {s[i]}
        /\ \A j, l \in 1 .. Len(RemoveAt(s, i)) :
             RemoveAt(s, i)[j] = RemoveAt(s, i)[l] => j = l
    BY RemoveAtOnce
  <2> QED
    BY <2>1, <2>4, <2>5
<1>2. CASE ~(\E i \in 1 .. Len(s) : s[i] = e)
  BY <1>2 DEF RemoveFirst, Range
<1> QED
  BY <1>1, <1>2

-----------------------------------------------------------------------------
(* Queues that lose elements keep the others in their order. *)

(* What stands before what in r does so in s. *)
Thins(r, s) ==
  \A j, l \in 1 .. Len(r) :
    j < l => \E a, b \in 1 .. Len(s) : a < b /\ s[a] = r[j] /\ s[b] = r[l]

LEMMA RemoveAtThins ==
  ASSUME NEW R, NEW s \in Seq(R), NEW i \in 1 .. Len(s)
  PROVE  Thins(RemoveAt(s, i), s)
<1> DEFINE r == RemoveAt(s, i)
           from(j) == IF j < i THEN j ELSE j + 1
<1>1. /\ r \in Seq(R) /\ Len(r) = Len(s) - 1 /\ Len(s) \in Nat
      /\ \A j \in 1 .. Len(s) - 1 : r[j] = s[from(j)]
  <2>1. /\ r \in Seq(R) /\ Len(r) = Len(s) - 1
        /\ \A j \in 1 .. Len(s) - 1 : r[j] = IF j < i THEN s[j] ELSE s[j + 1]
    BY RemoveAtElements
  <2>2. Len(s) \in Nat
    OBVIOUS
  <2> HIDE DEF r
  <2>3. \A j \in 1 .. Len(s) - 1 : r[j] = s[from(j)]
    BY <2>1
  <2> QED
    BY <2>1, <2>2, <2>3
<1>2. \A j \in 1 .. Len(s) - 1 : from(j) \in 1 .. Len(s)
  BY <1>1
<1>3. \A j, l \in 1 .. Len(s) - 1 : j < l => from(j) < from(l)
  BY <1>1
<1> HIDE DEF r, from
<1>4. ASSUME NEW j \in 1 .. Len(r), NEW l \in 1 .. Len(r), j < l
      PROVE  \E a, b \in 1 .. Len(s) : a < b /\ s[a] = r[j] /\ s[b] = r[l]
  <2>1. from(j) \in 1 .. Len(s) /\ from(l) \in 1 .. Len(s) /\ from(j) < from(l)
    BY <1>1, <1>2, <1>3, <1>4
  <2>2. s[from(j)] = r[j] /\ s[from(l)] = r[l]
    BY <1>1
  <2> QED
    BY <2>1, <2>2
<1>5. Thins(r, s)
  BY <1>4 DEF Thins
<1> QED
  BY <1>5 DEF r

LEMMA RemoveFirstThins ==
  ASSUME NEW R, NEW s \in Seq(R), NEW e,
         \A j, l \in 1 .. Len(s) : s[j] = s[l] => j = l
  PROVE  Thins(RemoveFirst(s, e), s)
<1>1. CASE \E i \in 1 .. Len(s) : s[i] = e
  <2> DEFINE I == {i \in 1 .. Len(s) : s[i] = e}
  <2>1. PICK i \in 1 .. Len(s) : s[i] = e
    BY <1>1
  <2>2. I = {i}
    BY <2>1
  <2>3. Min(I) = i
    BY <2>1, <2>2 DEF Min
  <2>4. RemoveFirst(s, e) = RemoveAt(s, i)
    BY <1>1, <2>1, <2>2, <2>3 DEF RemoveFirst, SelectInSeq
  <2> QED
    BY <2>4, RemoveAtThins
<1>2. CASE ~(\E i \in 1 .. Len(s) : s[i] = e)
  <2>1. RemoveFirst(s, e) = s
    BY <1>2 DEF RemoveFirst
  <2> QED
    BY <2>1 DEF Thins
<1> QED
  BY <1>1, <1>2

LEMMA TailThins ==
  ASSUME NEW R, NEW s \in Seq(R), s # <<>>,
         \A j, l \in 1 .. Len(s) : s[j] = s[l] => j = l
  PROVE  /\ Tail(s) \in Seq(R) /\ Thins(Tail(s), s)
         /\ Range(Tail(s)) = Range(s) \ {Head(s)}
         /\ Head(s) \in R /\ Head(s) = s[1] /\ 1 \in 1 .. Len(s)
<1>1. /\ Tail(s) \in Seq(R) /\ Len(s) \in Nat /\ Len(s) > 0 /\ Len(Tail(s)) = Len(s) - 1
      /\ \A j \in 1 .. Len(s) - 1 : Tail(s)[j] = s[j + 1]
      /\ Head(s) = s[1] /\ s[1] \in R
  OBVIOUS
<1>2. Thins(Tail(s), s)
  <2> SUFFICES ASSUME NEW j \in 1 .. Len(s) - 1, NEW l \in 1 .. Len(s) - 1, j < l
               PROVE  \E a, b \in 1 .. Len(s) : a < b /\ s[a] = Tail(s)[j] /\ s[b] = Tail(s)[l]
    BY <1>1 DEF Thins
  <2>1. j + 1 \in 1 .. Len(s) /\ l + 1 \in 1 .. Len(s) /\ j + 1 < l + 1
    BY <1>1
  <2> QED
    BY <1>1, <2>1
<1>3. Range(Tail(s)) = {Tail(s)[j] : j \in 1 .. Len(s) - 1}
  <2> DEFINE r == Tail(s)
  <2>1. r \in Seq(R) /\ Len(r) = Len(s) - 1
    BY <1>1
  <2> HIDE DEF r
  <2>2. Range(r) = {r[j] : j \in 1 .. Len(r)}
    BY <2>1 DEF Range
  <2> QED
    BY <2>1, <2>2 DEF r
<1>4. Range(s) = {s[j] : j \in 1 .. Len(s)}
  BY <1>1 DEF Range
<1>5. ASSUME NEW j \in 1 .. Len(s) - 1
      PROVE  s[j + 1] \in Range(s) \ {s[1]}
  BY <1>1, <1>4
<1>6. ASSUME NEW k \in 1 .. Len(s), k # 1
      PROVE  s[k] \in Range(Tail(s))
  <2>1. k - 1 \in 1 .. Len(s) - 1 /\ (k - 1) + 1 = k
    BY <1>1, <1>6
  <2>2. Tail(s)[k - 1] = s[k]
    BY <1>1, <2>1
  <2> QED
    BY <1>3, <2>1, <2>2
<1>7. Range(Tail(s)) = Range(s) \ {s[1]}
  <2>1. \A x \in Range(Tail(s)) : x \in Range(s) \ {s[1]}
    BY <1>1, <1>3, <1>5
  <2>2. \A x \in Range(s) \ {s[1]} : x \in Range(Tail(s))
    BY <1>4, <1>6
  <2> QED
    BY <2>1, <2>2
<1> QED
  BY <1>1, <1>2, <1>7

LEMMA InsertAtElements ==
  ASSUME NEW R, NEW s \in Seq(R), NEW i \in 1 .. Len(s) + 1, NEW e \in R
  PROVE  /\ InsertAt(s, i, e) \in Seq(R)
         /\ Len(InsertAt(s, i, e)) = Len(s) + 1
         /\ \A j \in 1 .. Len(s) + 1 :
              InsertAt(s, i, e)[j] = IF j < i THEN s[j] ELSE IF j = i THEN e ELSE s[j - 1]
         /\ Range(InsertAt(s, i, e)) = Range(s) \cup {e}
<1> DEFINE a == SubSeq(s, 1, i - 1)  b == SubSeq(s, i, Len(s))  m == a \o <<e>>  r == m \o b
<1>1. i \in Nat /\ i >= 1 /\ i <= Len(s) + 1 /\ Len(s) \in Nat
  OBVIOUS
<1>2. a \in Seq(R) /\ Len(a) = i - 1 /\ \A j \in 1 .. i - 1 : a[j] = s[j]
  BY <1>1
<1>3. b \in Seq(R) /\ Len(b) = Len(s) - i + 1 /\ \A j \in 1 .. Len(s) - i + 1 : b[j] = s[i + j - 1]
  BY <1>1
<1> HIDE DEF a, b
<1>4. <<e>> \in Seq(R) /\ Len(<<e>>) = 1 /\ <<e>>[1] = e
  OBVIOUS
<1>5. /\ m \in Seq(R) /\ Len(m) = Len(a) + 1
      /\ \A j \in 1 .. Len(a) + 1 : m[j] = IF j <= Len(a) THEN a[j] ELSE <<e>>[j - Len(a)]
  BY <1>2, <1>4, ConcatProperties
<1> HIDE DEF m
<1>6. /\ r \in Seq(R) /\ Len(r) = Len(m) + Len(b)
      /\ \A j \in 1 .. Len(m) + Len(b) : r[j] = IF j <= Len(m) THEN m[j] ELSE b[j - Len(m)]
  BY <1>3, <1>5, ConcatProperties
<1>7. InsertAt(s, i, e) = r
  BY DEF InsertAt, a, b, m
<1> HIDE DEF r
<1>8. Len(r) = Len(s) + 1
  BY <1>1, <1>2, <1>3, <1>5, <1>6
<1>9. ASSUME NEW j \in 1 .. Len(s) + 1
      PROVE  r[j] = IF j < i THEN s[j] ELSE IF j = i THEN e ELSE s[j - 1]
  <2>1. CASE j < i
    BY <1>1, <1>2, <1>3, <1>5, <1>6, <2>1
  <2>2. CASE j = i
    BY <1>1, <1>2, <1>3, <1>4, <1>5, <1>6, <2>2
  <2>3. CASE j > i
    <3>1. j - i \in 1 .. Len(s) - i + 1 /\ i + (j - i) - 1 = j - 1
      BY <1>1, <2>3
    <3>2. r[j] = b[j - i]
      BY <1>1, <1>2, <1>3, <1>5, <1>6, <2>3
    <3> QED
      BY <1>3, <2>3, <3>1, <3>2
  <2> QED
    BY <1>1, <2>1, <2>2, <2>3
<1>10. Range(r) = Range(s) \cup {e}
  <2>1. Range(r) = {r[j] : j \in 1 .. Len(s) + 1} /\ Range(s) = {s[j] : j \in 1 .. Len(s)}
    BY <1>6, <1>8, SMTT(60) DEF Range
  <2>2. ASSUME NEW j \in 1 .. Len(s) + 1
        PROVE  r[j] \in Range(s) \cup {e}
    <3>1. CASE j = i
      BY <1>9, <3>1
    <3>2. CASE j < i
      BY <1>1, <1>9, <2>1, <3>2
    <3>3. CASE j > i
      <4>1. j - 1 \in 1 .. Len(s) /\ r[j] = s[j - 1]
        BY <1>1, <1>9, <3>3
      <4> QED
        BY <2>1, <4>1
    <3> QED
      BY <1>1, <3>1, <3>2, <3>3
  <2>3. ASSUME NEW k \in 1 .. Len(s)
        PROVE  s[k] \in Range(r)
    <3>1. CASE k < i
      <4>1. k \in 1 .. Len(s) + 1 /\ r[k] = s[k]
        BY <1>1, <1>9, <3>1
      <4> QED
        BY <2>1, <4>1
    <3>2. CASE k >= i
      <4>1. k + 1 \in 1 .. Len(s) + 1 /\ r[k + 1] = s[k]
        <5>1. k + 1 \in 1 .. Len(s) + 1 /\ ~(k + 1 < i) /\ k + 1 # i /\ (k + 1) - 1 = k
          BY <1>1, <3>2
        <5> QED
          BY <1>9, <5>1
      <4> QED
        BY <2>1, <4>1
    <3> QED
      BY <1>1, <3>1, <3>2
  <2>4. e \in Range(r)
    BY <1>1, <1>9, <2>1
  <2>5. \A x \in Range(r) : x \in Range(s) \cup {e}
    BY <2>1, <2>2
  <2>6. \A x \in Range(s) \cup {e} : x \in Range(r)
    BY <2>1, <2>3, <2>4
  <2> QED
    BY <2>5, <2>6
<1> QED
  BY <1>6, <1>7, <1>8, <1>9, <1>10
=============================================================================
