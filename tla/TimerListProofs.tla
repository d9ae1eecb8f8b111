--------------------------- MODULE TimerListProofs ----------------------------
(***************************************************************************)
(* Proofs about TimerList, for any number of timers and of deadlines: the  *)
(* pointers are one sorted doubly linked list of the timers in use, and    *)
(* every operation does to it what TimerQueue says.                        *)
(***************************************************************************)
EXTENDS TimerList, SequenceFacts, FiniteSetTheorems, SequenceTheorems, TLAPS

Has(s, u) == \E i \in 1..Len(s) : s[i] = u

Distinct(s) == \A i, j \in 1..Len(s) : s[i] = s[j] => i = j

(* The links nxt and prv are those of the sequence s.                      *)
Chain(s, nxt, prv) ==
    /\ \A i \in 1..Len(s) :
           nxt[s[i]] = IF i = Len(s) THEN NULL ELSE s[i + 1]
    /\ \A i \in 1..Len(s) : prv[s[i]] = IF i = 1 THEN NULL ELSE s[i - 1]

Ascending(s, deadline) ==
    \A i, j \in 1..Len(s) : i <= j => deadline[s[i]] <= deadline[s[j]]

Ends(s, first, last) ==
    /\ first = IF Len(s) = 0 THEN NULL ELSE s[1]
    /\ last = IF Len(s) = 0 THEN NULL ELSE s[Len(s)]

(* The list is s, and timers that are not in it lead nowhere.              *)
Lists(s) ==
    /\ s \in Seq(Timers)
    /\ Distinct(s)
    /\ \A u \in Timers : u \in allocated <=> Has(s, u)
    /\ Ends(s, head, tail)
    /\ Chain(s, next, prev)
    /\ Ascending(s, expire)
    /\ \A u \in Timers \ allocated : next[u] = NULL /\ prev[u] = NULL

IInv == TypeOK /\ \E s \in Seq(Timers) : Lists(s)
-----------------------------------------------------------------------------
(***************************************************************************)
(* Sequences without their k-th element, and with t in the k-th place.     *)
(***************************************************************************)
Removed(s, k) ==
    [i \in 1..(Len(s) - 1) |-> IF i < k THEN s[i] ELSE s[i + 1]]

Inserted(s, k, t) ==
    [i \in 1..(Len(s) + 1) |->
        IF i < k THEN s[i] ELSE IF i = k THEN t ELSE s[i - 1]]

LEMMA AsSeq ==
    ASSUME NEW S, NEW n \in Nat, NEW f \in [1..n -> S]
    PROVE  f \in Seq(S) /\ Len(f) = n
OBVIOUS

LEMMA RemovedFacts ==
    ASSUME NEW s \in Seq(Timers), NEW k \in 1..Len(s)
    PROVE  /\ Removed(s, k) \in Seq(Timers)
           /\ Len(s) \in Nat /\ Len(Removed(s, k)) = Len(s) - 1
           /\ \A i \in 1..(Len(s) - 1) :
                  Removed(s, k)[i] = IF i < k THEN s[i] ELSE s[i + 1]
<1>1. Len(s) \in Nat /\ Len(s) - 1 \in Nat /\ s \in [1..Len(s) -> Timers]
  BY LenProperties
<1>2. Removed(s, k) \in [1..(Len(s) - 1) -> Timers]
  BY <1>1 DEF Removed
<1>3. Removed(s, k) \in Seq(Timers) /\ Len(Removed(s, k)) = Len(s) - 1
  BY <1>1, <1>2, AsSeq
<1> QED
  BY <1>1, <1>3 DEF Removed

LEMMA InsertedFacts ==
    ASSUME NEW s \in Seq(Timers), NEW k \in 1..(Len(s) + 1), NEW t \in Timers
    PROVE  /\ Inserted(s, k, t) \in Seq(Timers)
           /\ Len(s) \in Nat /\ Len(Inserted(s, k, t)) = Len(s) + 1
           /\ \A i \in 1..(Len(s) + 1) :
                  Inserted(s, k, t)[i] =
                      IF i < k THEN s[i] ELSE IF i = k THEN t ELSE s[i - 1]
<1>1. Len(s) \in Nat /\ Len(s) + 1 \in Nat /\ s \in [1..Len(s) -> Timers]
  BY LenProperties
<1>2. Inserted(s, k, t) \in [1..(Len(s) + 1) -> Timers]
  BY <1>1 DEF Inserted
<1>3. Inserted(s, k, t) \in Seq(Timers) /\ Len(Inserted(s, k, t)) = Len(s) + 1
  BY <1>1, <1>2, AsSeq
<1> QED
  BY <1>1, <1>3 DEF Inserted

LEMMA InsertedFirst ==
    ASSUME NEW s \in Seq(Timers), NEW t \in Timers
    PROVE  /\ 1 \in 1..(Len(s) + 1)
           /\ Len(Inserted(s, 1, t)) = Len(s) + 1
           /\ \A i \in 1..(Len(s) + 1) :
                  Inserted(s, 1, t)[i] = IF i = 1 THEN t ELSE s[i - 1]
<1> DEFINE r == Inserted(s, 1, t)
<1>1. Len(s) \in Nat /\ 1 \in 1..(Len(s) + 1)
  BY LenProperties
<1>2. /\ Len(r) = Len(s) + 1
      /\ \A i \in 1..(Len(s) + 1) :
             r[i] = IF i < 1 THEN s[i] ELSE IF i = 1 THEN t ELSE s[i - 1]
  BY <1>1, InsertedFacts
<1> HIDE DEF r
<1>3. \A i \in 1..(Len(s) + 1) : ~(i < 1)
  BY <1>1
<1>4. \A i \in 1..(Len(s) + 1) : r[i] = IF i = 1 THEN t ELSE s[i - 1]
  BY <1>2, <1>3
<1> QED
  BY <1>1, <1>2, <1>4 DEF r

(* They are RemoveAt and InsertAt of SequencesExt.                         *)
LEMMA RemovedIsRemoveAt ==
    ASSUME NEW s \in Seq(Timers), NEW k \in 1..Len(s)
    PROVE  TQ!RemoveAt(s, k) = Removed(s, k)
<1> DEFINE a == SubSeq(s, 1, k - 1)
           b == SubSeq(s, k + 1, Len(s))
           r == Removed(s, k)
<1>1. /\ r \in Seq(Timers) /\ Len(s) \in Nat /\ Len(r) = Len(s) - 1
      /\ \A i \in 1..(Len(s) - 1) : r[i] = IF i < k THEN s[i] ELSE s[i + 1]
  BY RemovedFacts
<1>2. /\ \A i \in 1..(k - 1) : s[i] \in Timers
      /\ \A i \in (k + 1)..Len(s) : s[i] \in Timers
      /\ k - 1 \in Int /\ k + 1 \in Int /\ Len(s) \in Int /\ 1 \in Int
  BY <1>1, ElementOfSeq
<1>3. /\ a \in Seq(Timers)
      /\ Len(a) = IF 1 <= k - 1 THEN (k - 1) - 1 + 1 ELSE 0
      /\ \A i \in 1..((k - 1) - 1 + 1) : a[i] = s[1 + i - 1]
  BY <1>2, SubSeqProperties
<1>4. /\ b \in Seq(Timers)
      /\ Len(b) = IF k + 1 <= Len(s) THEN Len(s) - (k + 1) + 1 ELSE 0
      /\ \A i \in 1..(Len(s) - (k + 1) + 1) : b[i] = s[k + 1 + i - 1]
  BY <1>2, SubSeqProperties
<1>5. TQ!RemoveAt(s, k) = a \o b
  BY DEF TQ!RemoveAt
<1> HIDE DEF a, b, r
<1>6. /\ Len(a) = k - 1 /\ \A i \in 1..(k - 1) : a[i] = s[i]
      /\ Len(b) = Len(s) - k /\ \A i \in 1..(Len(s) - k) : b[i] = s[k + i]
  BY <1>1, <1>3, <1>4
<1> DEFINE q == a \o b
<1>7. /\ q \in Seq(Timers) /\ Len(q) = Len(a) + Len(b)
      /\ \A i \in 1..Len(a) : q[i] = a[i]
      /\ \A i \in 1..Len(b) : q[Len(a) + i] = b[i]
  <2>1. a \in Seq(Timers) /\ b \in Seq(Timers)
    BY <1>3, <1>4
  <2> QED
    BY <2>1, Parts
<1> HIDE DEF q
<1>8. Len(q) = Len(r) /\ \A i \in 1..Len(q) : q[i] = r[i]
  <2>1. Len(q) = Len(s) - 1
    BY <1>1, <1>6, <1>7
  <2> SUFFICES ASSUME NEW i \in 1..(Len(s) - 1) PROVE q[i] = r[i]
    BY <1>1, <2>1
  <2>2. CASE i < k
    BY <1>1, <1>6, <1>7, <2>2
  <2>3. CASE i >= k
    <3>1. i - (k - 1) \in 1..(Len(s) - k) /\ i = (k - 1) + (i - (k - 1))
          /\ k + (i - (k - 1)) = i + 1
      BY <1>1, <2>3
    <3>2. q[i] = b[i - (k - 1)] /\ b[i - (k - 1)] = s[i + 1]
      BY <1>6, <1>7, <3>1
    <3> QED
      BY <1>1, <2>3, <3>2
  <2> QED
    BY <1>1, <2>2, <2>3
<1>9. q = r
  BY <1>1, <1>7, <1>8, SeqEqual
<1> QED
  BY <1>5, <1>9 DEF q, r

LEMMA InsertedIsInsertAt ==
    ASSUME NEW s \in Seq(Timers), NEW k \in 1..(Len(s) + 1), NEW t \in Timers
    PROVE  TQ!InsertAt(s, k, t) = Inserted(s, k, t)
<1> DEFINE a == SubSeq(s, 1, k - 1)
           b == SubSeq(s, k, Len(s))
           r == Inserted(s, k, t)
<1>1. /\ r \in Seq(Timers) /\ Len(s) \in Nat /\ Len(r) = Len(s) + 1
      /\ \A i \in 1..(Len(s) + 1) :
             r[i] = IF i < k THEN s[i] ELSE IF i = k THEN t ELSE s[i - 1]
  BY InsertedFacts
<1>2. /\ \A i \in 1..(k - 1) : s[i] \in Timers
      /\ \A i \in k..Len(s) : s[i] \in Timers
      /\ k - 1 \in Int /\ k \in Int /\ Len(s) \in Int /\ 1 \in Int
  BY <1>1, ElementOfSeq
<1>3. /\ a \in Seq(Timers)
      /\ Len(a) = IF 1 <= k - 1 THEN (k - 1) - 1 + 1 ELSE 0
      /\ \A i \in 1..((k - 1) - 1 + 1) : a[i] = s[1 + i - 1]
  BY <1>2, SubSeqProperties
<1>4. /\ b \in Seq(Timers)
      /\ Len(b) = IF k <= Len(s) THEN Len(s) - k + 1 ELSE 0
      /\ \A i \in 1..(Len(s) - k + 1) : b[i] = s[k + i - 1]
  BY <1>2, SubSeqProperties
<1> DEFINE d == a \o <<t>>
<1>5. TQ!InsertAt(s, k, t) = d \o b
  BY DEF TQ!InsertAt
<1>6. <<t>> \in Seq(Timers) /\ Len(<<t>>) = 1 /\ <<t>>[1] = t
  OBVIOUS
<1> DEFINE one == <<t>>
<1> HIDE DEF a, b, r, one
<1>7. /\ Len(a) = k - 1 /\ \A i \in 1..(k - 1) : a[i] = s[i]
      /\ Len(b) = Len(s) - k + 1
      /\ \A i \in 1..(Len(s) - k + 1) : b[i] = s[k + i - 1]
  BY <1>1, <1>3, <1>4
<1>8. d = a \o one /\ one \in Seq(Timers) /\ Len(one) = 1 /\ one[1] = t
  BY <1>6 DEF one
<1>9. /\ d \in Seq(Timers) /\ Len(d) = Len(a) + 1
      /\ \A i \in 1..Len(a) : d[i] = a[i]
      /\ d[Len(a) + 1] = t
  <2>1. /\ a \o one \in Seq(Timers) /\ Len(a \o one) = Len(a) + Len(one)
        /\ \A i \in 1..Len(a) : (a \o one)[i] = a[i]
        /\ \A i \in 1..Len(one) : (a \o one)[Len(a) + i] = one[i]
    <3>1. a \in Seq(Timers) /\ one \in Seq(Timers)
      BY <1>3, <1>8
    <3> QED
      BY <3>1, Parts
  <2>2. 1 \in 1..Len(one)
    BY <1>8
  <2> HIDE DEF d
  <2> QED
    BY <1>8, <2>1, <2>2
<1> HIDE DEF d
<1>10. Len(d) = k /\ d[k] = t /\ \A i \in 1..(k - 1) : d[i] = s[i]
  BY <1>7, <1>9
<1> DEFINE q == d \o b
<1>11. /\ q \in Seq(Timers) /\ Len(q) = Len(d) + Len(b)
       /\ \A i \in 1..Len(d) : q[i] = d[i]
       /\ \A i \in 1..Len(b) : q[Len(d) + i] = b[i]
  <2>1. d \in Seq(Timers) /\ b \in Seq(Timers)
    BY <1>4, <1>9
  <2> QED
    BY <2>1, Parts
<1> HIDE DEF q
<1>12. Len(q) = Len(r) /\ \A i \in 1..Len(q) : q[i] = r[i]
  <2>1. Len(q) = Len(s) + 1
    BY <1>1, <1>7, <1>10, <1>11
  <2> SUFFICES ASSUME NEW i \in 1..(Len(s) + 1) PROVE q[i] = r[i]
    BY <1>1, <2>1
  <2>2. CASE i < k
    <3>1. i \in 1..(k - 1) /\ i \in 1..Len(d)
      BY <1>10, <2>2
    <3>2. q[i] = s[i] /\ r[i] = s[i]
      BY <1>1, <1>10, <1>11, <2>2, <3>1
    <3> QED
      BY <3>2
  <2>3. CASE i = k
    <3>1. k \in 1..Len(d)
      BY <1>10
    <3>2. q[k] = t /\ r[k] = t
      BY <1>1, <1>10, <1>11, <2>3, <3>1
    <3> QED
      BY <2>3, <3>2
  <2>4. CASE i > k
    <3>1. i - k \in 1..(Len(s) - k + 1) /\ i = k + (i - k)
          /\ k + (i - k) - 1 = i - 1
      BY <1>1, <2>4
    <3>2. q[i] = b[i - k] /\ b[i - k] = s[i - 1]
      BY <1>7, <1>10, <1>11, <3>1
    <3> QED
      BY <1>1, <2>4, <3>2
  <2> QED
    BY <1>1, <2>2, <2>3, <2>4
<1>13. q = r
  BY <1>1, <1>11, <1>12, SeqEqual
<1> QED
  BY <1>5, <1>13 DEF q, r
-----------------------------------------------------------------------------
(***************************************************************************)
(* What a removal and an insertion leave of the list.                      *)
(***************************************************************************)
LEMMA Elements ==
    ASSUME NEW s \in Seq(Timers)
    PROVE  /\ Len(s) \in Nat
           /\ \A i \in 1..Len(s) : s[i] \in Timers /\ s[i] # NULL
  BY LenProperties, ElementOfSeq, TimerAssumption

LEMMA RemovedHas ==
    ASSUME NEW s \in Seq(Timers), Distinct(s), NEW k \in 1..Len(s), NEW u
    PROVE  Has(Removed(s, k), u) <=> Has(s, u) /\ u # s[k]
<1> DEFINE r == Removed(s, k)
<1>1. /\ Len(s) \in Nat /\ Len(r) = Len(s) - 1
      /\ \A i \in 1..(Len(s) - 1) : r[i] = IF i < k THEN s[i] ELSE s[i + 1]
  BY RemovedFacts
<1> HIDE DEF r
<1>2. ASSUME NEW i \in 1..Len(r)
      PROVE  \E j \in 1..Len(s) : r[i] = s[j] /\ j # k
  <2>1. i \in 1..(Len(s) - 1) /\ i \in 1..Len(s) /\ i + 1 \in 1..Len(s)
    BY <1>1
  <2>2. CASE i < k
    BY <1>1, <2>1, <2>2
  <2>3. CASE i >= k
    BY <1>1, <2>1, <2>3
  <2> QED
    BY <1>1, <2>2, <2>3
<1>3. ASSUME NEW j \in 1..Len(s), j # k
      PROVE  \E i \in 1..Len(r) : r[i] = s[j]
  <2>1. CASE j < k
    <3>1. j \in 1..Len(r) /\ r[j] = s[j]
      BY <1>1, <2>1
    <3> QED
      BY <3>1
  <2>2. CASE j > k
    <3>1. j - 1 \in 1..Len(r) /\ ~(j - 1 < k) /\ (j - 1) + 1 = j
      BY <1>1, <2>2
    <3>2. r[j - 1] = s[j]
      BY <1>1, <3>1
    <3> QED
      BY <3>1, <3>2
  <2> QED
    BY <1>1, <1>3, <2>1, <2>2
<1>4. ASSUME NEW j \in 1..Len(s) PROVE s[j] = s[k] <=> j = k
  BY DEF Distinct
<1> QED
  BY <1>2, <1>3, <1>4 DEF Has, r

LEMMA RemovedKeeps ==
    ASSUME NEW s \in Seq(Timers), Distinct(s), NEW k \in 1..Len(s)
    PROVE  /\ Distinct(Removed(s, k))
           /\ \A d : Ascending(s, d) => Ascending(Removed(s, k), d)
<1> DEFINE r == Removed(s, k)
           At(i) == IF i < k THEN i ELSE i + 1
<1>1. /\ Len(s) \in Nat /\ Len(r) = Len(s) - 1
      /\ \A i \in 1..Len(r) : r[i] = s[At(i)]
  BY RemovedFacts
<1>2. \A i \in 1..Len(r) : At(i) \in 1..Len(s)
  BY <1>1
<1>3. \A i, j \in 1..Len(r) : /\ At(i) = At(j) => i = j
                              /\ i <= j => At(i) <= At(j)
  BY <1>1
<1> HIDE DEF r, At
<1>4. Distinct(r)
  BY <1>1, <1>2, <1>3 DEF Distinct
<1>5. ASSUME NEW d, Ascending(s, d) PROVE Ascending(r, d)
  <2> SUFFICES ASSUME NEW i \in 1..Len(r), NEW j \in 1..Len(r), i <= j
               PROVE  d[r[i]] <= d[r[j]]
    BY DEF Ascending
  <2>1. r[i] = s[At(i)] /\ r[j] = s[At(j)] /\ At(i) <= At(j)
        /\ At(i) \in 1..Len(s) /\ At(j) \in 1..Len(s)
    BY <1>1, <1>2, <1>3
  <2> QED
    BY <1>5, <2>1 DEF Ascending
<1> QED
  BY <1>4, <1>5 DEF r

(* The links are closed over the gap that s[k] leaves.                     *)
LEMMA RemovedChain ==
    ASSUME NEW s \in Seq(Timers), Distinct(s), NEW k \in 1..Len(s),
           NEW nxt, NEW prv, NEW nxt2, NEW prv2, Chain(s, nxt, prv),
           \A j \in 1..Len(s) : j # k =>
               /\ nxt2[s[j]] = IF j = k - 1 THEN nxt[s[k]] ELSE nxt[s[j]]
               /\ prv2[s[j]] = IF j = k + 1 THEN prv[s[k]] ELSE prv[s[j]]
    PROVE  Chain(Removed(s, k), nxt2, prv2)
<1> DEFINE r == Removed(s, k)
<1>1. /\ Len(s) \in Nat /\ Len(r) = Len(s) - 1
      /\ \A i \in 1..(Len(s) - 1) : r[i] = IF i < k THEN s[i] ELSE s[i + 1]
  BY RemovedFacts
<1> HIDE DEF r
<1>2. /\ \A i \in 1..Len(s) :
             nxt[s[i]] = IF i = Len(s) THEN NULL ELSE s[i + 1]
      /\ \A i \in 1..Len(s) : prv[s[i]] = IF i = 1 THEN NULL ELSE s[i - 1]
  BY DEF Chain
<1>3. ASSUME NEW i \in 1..Len(r)
      PROVE  /\ nxt2[r[i]] = IF i = Len(r) THEN NULL ELSE r[i + 1]
             /\ prv2[r[i]] = IF i = 1 THEN NULL ELSE r[i - 1]
  <2>1. i \in 1..(Len(s) - 1) /\ i \in 1..Len(s) /\ i + 1 \in 1..Len(s)
    BY <1>1
  <2>2. CASE i < k
    <3>1. r[i] = s[i] /\ i # k
      BY <1>1, <2>1, <2>2
    <3>2. nxt2[r[i]] = IF i = Len(r) THEN NULL ELSE r[i + 1]
      <4>1. CASE i = k - 1
        BY <1>1, <1>2, <2>1, <2>2, <3>1, <4>1
      <4>2. CASE i < k - 1
        <5>1. i # Len(r) /\ i # Len(s) /\ i + 1 < k /\ i + 1 \in 1..(Len(s) - 1)
          BY <1>1, <2>1, <4>2
        <5>2. r[i + 1] = s[i + 1] /\ nxt[s[i]] = s[i + 1]
          BY <1>1, <1>2, <2>1, <5>1
        <5> QED
          BY <2>1, <3>1, <4>2, <5>1, <5>2
      <4> QED
        BY <2>2, <4>1, <4>2
    <3>3. prv2[r[i]] = IF i = 1 THEN NULL ELSE r[i - 1]
      <4>1. i # k + 1
        BY <2>2
      <4>2. i # 1 => r[i - 1] = s[i - 1]
        BY <1>1, <2>1, <2>2
      <4> QED
        BY <1>2, <2>1, <3>1, <4>1, <4>2
    <3> QED
      BY <3>2, <3>3
  <2>3. CASE i >= k
    <3>1. r[i] = s[i + 1] /\ i + 1 # k /\ i + 1 # k - 1
      BY <1>1, <2>1, <2>3
    <3>2. nxt2[r[i]] = IF i = Len(r) THEN NULL ELSE r[i + 1]
      <4>1. i # Len(r) => r[i + 1] = s[(i + 1) + 1]
        BY <1>1, <2>1, <2>3
      <4>2. i = Len(r) <=> i + 1 = Len(s)
        BY <1>1
      <4> QED
        BY <1>2, <2>1, <3>1, <4>1, <4>2
    <3>3. prv2[r[i]] = IF i = 1 THEN NULL ELSE r[i - 1]
      <4>1. CASE i = k
        <5>1. prv2[r[i]] = prv[s[k]]
          BY <2>1, <3>1, <4>1
        <5>2. i # 1 => r[i - 1] = s[i - 1]
          BY <1>1, <2>1, <4>1
        <5> QED
          BY <1>2, <4>1, <5>1, <5>2
      <4>2. CASE i > k
        <5>1. prv2[r[i]] = prv[s[i + 1]] /\ i # 1
          BY <2>1, <3>1, <4>2
        <5>2. r[i - 1] = s[i] /\ prv[s[i + 1]] = s[i]
          BY <1>1, <1>2, <2>1, <4>2
        <5> QED
          BY <5>1, <5>2
      <4> QED
        BY <2>3, <4>1, <4>2
    <3> QED
      BY <3>2, <3>3
  <2> QED
    BY <1>1, <2>2, <2>3
<1> QED
  BY <1>3 DEF Chain, r

LEMMA InsertedHas ==
    ASSUME NEW s \in Seq(Timers), NEW k \in 1..(Len(s) + 1),
           NEW t \in Timers, NEW u
    PROVE  Has(Inserted(s, k, t), u) <=> Has(s, u) \/ u = t
<1> DEFINE r == Inserted(s, k, t)
<1>1. /\ Len(s) \in Nat /\ Len(r) = Len(s) + 1
      /\ \A i \in 1..(Len(s) + 1) :
             r[i] = IF i < k THEN s[i] ELSE IF i = k THEN t ELSE s[i - 1]
  BY InsertedFacts
<1> HIDE DEF r
<1>2. ASSUME NEW i \in 1..Len(r)
      PROVE  r[i] = t \/ \E j \in 1..Len(s) : r[i] = s[j]
  <2>1. CASE i < k
    <3>1. i \in 1..Len(s) /\ r[i] = s[i]
      BY <1>1, <2>1
    <3> QED
      BY <3>1
  <2>2. CASE i = k
    BY <1>1, <2>2
  <2>3. CASE i > k
    <3>1. i - 1 \in 1..Len(s) /\ r[i] = s[i - 1]
      BY <1>1, <2>3
    <3> QED
      BY <3>1
  <2> QED
    BY <1>1, <2>1, <2>2, <2>3
<1>3. ASSUME NEW j \in 1..Len(s) PROVE \E i \in 1..Len(r) : r[i] = s[j]
  <2>1. CASE j < k
    <3>1. j \in 1..Len(r) /\ r[j] = s[j]
      BY <1>1, <2>1
    <3> QED
      BY <3>1
  <2>2. CASE j >= k
    <3>1. j + 1 \in 1..Len(r) /\ r[j + 1] = s[(j + 1) - 1] /\ (j + 1) - 1 = j
      BY <1>1, <2>2
    <3> QED
      BY <3>1
  <2> QED
    BY <1>1, <2>1, <2>2
<1>4. k \in 1..Len(r) /\ r[k] = t
  BY <1>1
<1> QED
  BY <1>2, <1>3, <1>4 DEF Has, r

(* The deadlines in front of the k-th place are at most e, those from it   *)
(* on are later.                                                           *)
Belongs(s, k, e, d) ==
    /\ \A j \in 1..(k - 1) : d[s[j]] <= e
    /\ \A j \in k..Len(s) : e < d[s[j]]

LEMMA InsertedKeeps ==
    ASSUME NEW s \in Seq(Timers), Distinct(s), NEW k \in 1..(Len(s) + 1),
           NEW t \in Timers, ~Has(s, t), NEW e \in Nat, NEW d, NEW d2,
           \A j \in 1..Len(s) : d2[s[j]] = d[s[j]], d2[t] = e,
           Ascending(s, d), Belongs(s, k, e, d)
    PROVE  /\ Distinct(Inserted(s, k, t))
           /\ (\A u \in Timers : d[u] \in Nat) => Ascending(Inserted(s, k, t), d2)
<1> DEFINE r == Inserted(s, k, t)
           At(i) == IF i < k THEN i ELSE i - 1
<1>1. /\ Len(s) \in Nat /\ Len(r) = Len(s) + 1
      /\ \A i \in 1..Len(r) : r[i] = IF i = k THEN t ELSE s[At(i)]
  BY InsertedFacts
<1>2. /\ \A i \in 1..Len(r) : i # k => At(i) \in 1..Len(s)
      /\ \A i \in 1..Len(r) : i < k => At(i) \in 1..(k - 1)
      /\ \A i \in 1..Len(r) : i > k => At(i) \in k..Len(s)
  BY <1>1
<1>3. \A i, j \in 1..Len(r) : i # k /\ j # k => /\ At(i) = At(j) => i = j
                                                /\ i <= j => At(i) <= At(j)
  BY <1>1
<1> HIDE DEF r, At
<1>4. Distinct(r)
  BY <1>1, <1>2, <1>3 DEF Distinct, Has
<1>5. ASSUME \A u \in Timers : d[u] \in Nat PROVE Ascending(r, d2)
  <2> SUFFICES ASSUME NEW i \in 1..Len(r), NEW j \in 1..Len(r), i <= j
               PROVE  d2[r[i]] <= d2[r[j]]
    BY DEF Ascending
  <2>1. CASE i = k /\ j = k
    BY <1>1, <2>1
  <2>2. CASE i = k /\ j > k
    <3>1. r[i] = t /\ r[j] = s[At(j)] /\ At(j) \in 1..Len(s)
          /\ At(j) \in k..Len(s) /\ s[At(j)] \in Timers
      BY <1>1, <1>2, <2>2, Elements
    <3>2. e < d[s[At(j)]]
      BY <3>1 DEF Belongs
    <3> QED
      BY <1>5, <3>1, <3>2
  <2>3. CASE i < k /\ j = k
    <3>1. r[j] = t /\ r[i] = s[At(i)] /\ At(i) \in 1..Len(s)
          /\ At(i) \in 1..(k - 1)
      BY <1>1, <1>2, <2>3
    <3>2. d[s[At(i)]] <= e
      BY <3>1 DEF Belongs
    <3> QED
      BY <3>1, <3>2
  <2>4. CASE i # k /\ j # k
    <3>1. r[i] = s[At(i)] /\ r[j] = s[At(j)] /\ At(i) <= At(j)
          /\ At(i) \in 1..Len(s) /\ At(j) \in 1..Len(s)
      BY <1>1, <1>2, <1>3, <2>4
    <3>2. d[s[At(i)]] <= d[s[At(j)]]
      BY <3>1 DEF Ascending
    <3> QED
      BY <3>1, <3>2
  <2> QED
    BY <1>1, <2>1, <2>2, <2>3, <2>4
<1> QED
  BY <1>4, <1>5 DEF r

(* The links lead to t and on from it.                                     *)
LEMMA InsertedChain ==
    ASSUME NEW s \in Seq(Timers), Distinct(s), NEW k \in 1..(Len(s) + 1),
           NEW t \in Timers,
           NEW nxt, NEW prv, NEW nxt2, NEW prv2, Chain(s, nxt, prv),
           \A j \in 1..Len(s) :
               /\ nxt2[s[j]] = IF j = k - 1 THEN t ELSE nxt[s[j]]
               /\ prv2[s[j]] = IF j = k THEN t ELSE prv[s[j]],
           nxt2[t] = IF k = Len(s) + 1 THEN NULL ELSE s[k],
           prv2[t] = IF k = 1 THEN NULL ELSE s[k - 1]
    PROVE  Chain(Inserted(s, k, t), nxt2, prv2)
<1> DEFINE r == Inserted(s, k, t)
<1>1. /\ Len(s) \in Nat /\ Len(r) = Len(s) + 1
      /\ \A i \in 1..(Len(s) + 1) :
             r[i] = IF i < k THEN s[i] ELSE IF i = k THEN t ELSE s[i - 1]
  BY ONLY InsertedFacts, s \in Seq(Timers), t \in Timers, k \in 1..(Len(s) + 1)
<1> HIDE DEF r
<1>2. /\ \A i \in 1..Len(s) :
             nxt[s[i]] = IF i = Len(s) THEN NULL ELSE s[i + 1]
      /\ \A i \in 1..Len(s) : prv[s[i]] = IF i = 1 THEN NULL ELSE s[i - 1]
  BY DEF Chain
<1>3. ASSUME NEW i \in 1..Len(r)
      PROVE  /\ nxt2[r[i]] = IF i = Len(r) THEN NULL ELSE r[i + 1]
             /\ prv2[r[i]] = IF i = 1 THEN NULL ELSE r[i - 1]
  <2>1. i \in 1..(Len(s) + 1)
    BY <1>1
  <2>2. CASE i < k
    <3>1. i \in 1..Len(s) /\ r[i] = s[i] /\ i # Len(r) /\ i # k
      BY <1>1, <2>1, <2>2
    <3>2. r[i + 1] = IF i = k - 1 THEN t ELSE s[i + 1]
      BY <1>1, <2>1, <2>2
    <3>3. i # k - 1 => i # Len(s)
      BY <1>1, <2>1, <2>2
    <3>4. i # 1 => r[i - 1] = s[i - 1]
      BY <1>1, <2>1, <2>2
    <3> QED
      BY <1>2, <3>1, <3>2, <3>3, <3>4
  <2>3. CASE i = k
    <3>1. r[i] = t
      BY <1>1, <2>1, <2>3
    <3>2. i # Len(r) => r[i + 1] = s[i]
      BY <1>1, <2>1, <2>3
    <3>3. i # 1 => r[i - 1] = s[i - 1]
      BY <1>1, <2>1, <2>3
    <3> QED
      BY <1>1, <2>3, <3>1, <3>2, <3>3
  <2>4. CASE i > k
    <3>1. i - 1 \in 1..Len(s) /\ r[i] = s[i - 1] /\ i # 1 /\ i - 1 # k - 1
      BY <1>1, <2>1, <2>4
    <3>2. nxt2[r[i]] = IF i = Len(r) THEN NULL ELSE r[i + 1]
      <4>1. i # Len(r) => r[i + 1] = s[i]
        BY <1>1, <2>1, <2>4
      <4>2. nxt2[r[i]] = IF i - 1 = Len(s) THEN NULL ELSE s[(i - 1) + 1]
        BY <1>2, <3>1
      <4> QED
        BY <1>1, <2>1, <4>1, <4>2
    <3>3. prv2[r[i]] = r[i - 1]
      <4>1. CASE i - 1 = k
        BY <1>1, <3>1, <4>1
      <4>2. CASE i - 1 # k
        <5>1. prv2[r[i]] = s[(i - 1) - 1]
          BY <1>2, <2>4, <3>1, <4>2
        <5>2. r[i - 1] = s[(i - 1) - 1]
          BY <1>1, <2>1, <2>4, <4>2
        <5> QED
          BY <5>1, <5>2
      <4> QED
        BY <4>1, <4>2
    <3> QED
      BY <3>1, <3>2, <3>3
  <2> QED
    BY <2>1, <2>2, <2>3, <2>4
<1> QED
  BY <1>3 DEF Chain, r
-----------------------------------------------------------------------------
(***************************************************************************)
(* Where the loop of Add_Timer stops.                                      *)
(***************************************************************************)
LEMMA PlaceExists ==
    ASSUME NEW s \in Seq(Timers), Len(s) # 0, NEW e \in Nat, NEW d,
           \A u \in Timers : d[u] \in Nat, Ascending(s, d), d[s[1]] <= e
    PROVE  \E k \in 2..(Len(s) + 1) : Belongs(s, k, e, d)
<1> DEFINE Later == {k \in 1..Len(s) : e < d[s[k]]}
<1>1. Len(s) \in Nat /\ \A i \in 1..Len(s) : s[i] \in Timers
  BY Elements
<1>2. CASE Later = {}
  <2>1. Belongs(s, Len(s) + 1, e, d)
    <3>1. ASSUME NEW j \in 1..Len(s) PROVE d[s[j]] <= e
      <4>1. s[j] \in Timers /\ d[s[j]] \in Nat /\ ~(e < d[s[j]])
        BY <1>1, <1>2
      <4> QED
        BY <4>1
    <3> QED
      BY <1>1, <3>1 DEF Belongs
  <2> QED
    BY <1>1, <2>1
<1>3. CASE Later # {}
  <2>1. Later \in SUBSET Nat
    BY <1>1
  <2>2. PICK k \in Later : \A m \in Later : k <= m
    BY <1>3, <2>1, LeastExists
  <2>3. k \in 1..Len(s) /\ k # 1
    <3>1. 1 \in 1..Len(s) /\ d[s[1]] \in Nat
      BY <1>1
    <3> QED
      BY <1>1, <2>2, <3>1
  <2>4. ASSUME NEW j \in 1..(k - 1) PROVE d[s[j]] <= e
    <3>1. j \in 1..Len(s) /\ ~(k <= j) /\ d[s[j]] \in Nat
      BY <1>1, <2>3
    <3> QED
      BY <2>2, <3>1
  <2>5. ASSUME NEW j \in k..Len(s) PROVE e < d[s[j]]
    <3>1. j \in 1..Len(s) /\ k <= j /\ d[s[j]] \in Nat /\ d[s[k]] \in Nat
      BY <1>1, <2>3
    <3>2. d[s[k]] <= d[s[j]]
      BY <2>3, <3>1 DEF Ascending
    <3> QED
      BY <2>2, <3>1, <3>2
  <2> QED
    BY <1>1, <2>3, <2>4, <2>5 DEF Belongs
<1> QED
  BY <1>2, <1>3

(* It stops behind all that expire no later: the timer in front of the     *)
(* k-th place.                                                             *)
LEMMA WalkTo ==
    ASSUME NEW s \in Seq(Timers), Distinct(s), NEW k \in 2..(Len(s) + 1),
           NEW e \in Nat, \A u \in Timers : expire[u] \in Nat,
           NEW nxt, NEW prv, Chain(s, nxt, prv), Belongs(s, k, e, expire),
           \A u \in Timers : nxt[u] = NULL \/ Has(s, nxt[u])
    PROVE  InsertionPoint(s[1], e, nxt) = s[k - 1]
<1> DEFINE Stops(u) == nxt[u] = NULL \/ e < expire[nxt[u]]
           Loop(w) == [p \in Timers |-> IF nxt[p] = NULL THEN p
                                        ELSE IF e < expire[nxt[p]] THEN p
                                        ELSE w[nxt[p]]]
           walk == CHOOSE w : w = Loop(w)
           F == [u \in Timers |-> IF Stops(u) THEN u ELSE s[k - 1]]
<1>1. /\ Len(s) \in Nat /\ k - 1 \in 1..Len(s)
      /\ \A i \in 1..Len(s) : s[i] \in Timers /\ s[i] # NULL
  BY Elements
<1>2. InsertionPoint(s[1], e, nxt) = walk[s[1]]
  BY DEF InsertionPoint
<1>3. \A i \in 1..Len(s) : nxt[s[i]] = IF i = Len(s) THEN NULL ELSE s[i + 1]
  BY DEF Chain
<1>4. ASSUME NEW i \in 1..Len(s) PROVE Stops(s[i]) <=> i >= k - 1
  <2>1. CASE i = Len(s)
    BY <1>1, <1>3, <2>1
  <2>2. CASE i # Len(s) /\ i >= k - 1
    <3>1. i + 1 \in k..Len(s) /\ nxt[s[i]] = s[i + 1]
      BY <1>1, <1>3, <2>2
    <3> QED
      BY <2>2, <3>1 DEF Belongs
  <2>3. CASE i < k - 1
    <3>1. i + 1 \in 1..(k - 1) /\ i + 1 \in 1..Len(s) /\ nxt[s[i]] = s[i + 1]
      BY <1>1, <1>3, <2>3
    <3>2. expire[s[i + 1]] <= e /\ expire[s[i + 1]] \in Nat
          /\ s[i + 1] # NULL
      BY <1>1, <3>1 DEF Belongs
    <3> QED
      BY <2>3, <3>1, <3>2
  <2> QED
    BY <1>1, <2>1, <2>2, <2>3
<1> HIDE DEF Stops
<1>5. F = Loop(F)
  <2> SUFFICES ASSUME NEW u \in Timers
               PROVE  F[u] = IF Stops(u) THEN u ELSE F[nxt[u]]
    BY DEF Stops
  <2>1. CASE Stops(u)
    BY <2>1
  <2>2. CASE ~Stops(u)
    <3>1. PICK i \in 1..Len(s) : s[i] = nxt[u]
      BY <2>2 DEF Stops, Has
    <3>2. ~(e < expire[s[i]]) /\ expire[s[i]] \in Nat
      BY <1>1, <2>2, <3>1 DEF Stops
    <3>3. i <= k - 1
      BY <1>1, <3>2 DEF Belongs
    <3>4. F[nxt[u]] = IF Stops(s[i]) THEN s[i] ELSE s[k - 1]
      BY <1>1, <3>1
    <3>5. Stops(s[i]) => i = k - 1
      BY <1>1, <1>4, <3>3
    <3> QED
      BY <2>2, <3>4, <3>5
  <2> QED
    BY <2>1, <2>2
<1>6. walk = Loop(walk)
  BY <1>5, Zenon
<1> HIDE DEF walk
<1>7. ASSUME NEW i \in 1..Len(s)
      PROVE  walk[s[i]] = IF Stops(s[i]) THEN s[i] ELSE walk[nxt[s[i]]]
  BY <1>1, <1>6 DEF Stops
<1> HIDE DEF F, Loop
<1> DEFINE Bad == {n \in Nat : n <= k - 2 /\ walk[s[k - 1 - n]] # s[k - 1]}
<1>8. Bad = {}
  <2> SUFFICES ASSUME Bad # {} PROVE FALSE
    OBVIOUS
  <2>1. Bad \in SUBSET Nat
    OBVIOUS
  <2>2. PICK n \in Bad : \A m \in Bad : n <= m
    BY <2>1, LeastExists
  <2>3. n \in Nat /\ n <= k - 2 /\ walk[s[k - 1 - n]] # s[k - 1]
    BY <2>2
  <2>4. k - 1 - n \in 1..Len(s)
    BY <1>1, <2>3
  <2>5. CASE n = 0
    BY <1>1, <1>4, <1>7, <2>3, <2>4, <2>5
  <2>6. CASE n # 0
    <3>1. n - 1 \in Nat /\ n - 1 <= k - 2 /\ ~(n <= n - 1)
          /\ k - 1 - (n - 1) = (k - 1 - n) + 1 /\ k - 1 - n # Len(s)
      BY <1>1, <2>3, <2>6
    <3>2. walk[s[(k - 1 - n) + 1]] = s[k - 1]
      BY <2>2, <3>1
    <3>3. ~Stops(s[k - 1 - n]) /\ nxt[s[k - 1 - n]] = s[(k - 1 - n) + 1]
      BY <1>1, <1>3, <1>4, <2>3, <2>4, <2>6, <3>1
    <3> QED
      BY <1>7, <2>3, <2>4, <3>2, <3>3
  <2> QED
    BY <2>5, <2>6
<1>9. k - 2 \in Nat /\ k - 1 - (k - 2) = 1
  BY <1>1
<1>10. walk[s[1]] = s[k - 1]
  <2>1. k - 2 \notin Bad
    BY <1>8
  <2>2. walk[s[k - 1 - (k - 2)]] = s[k - 1]
    BY <1>9, <2>1
  <2> QED
    BY <1>9, <2>2
<1> QED
  BY <1>2, <1>10

(* The links nxt and prv of s, and tail_, now lead to t in its place.      *)
LinksTo(s, t, e, nxt, prv) ==
    \E k \in 2..(Len(s) + 1) :
        /\ Belongs(s, k, e, expire)
        /\ Chain(Inserted(s, k, t), next', prev')
        /\ tail' = Inserted(s, k, t)[Len(s) + 1]
        /\ next' \in [Timers -> Pointer] /\ prev' \in [Timers -> Pointer]
        /\ \A u \in Timers : ~Has(s, u) /\ u # t =>
               next'[u] = nxt[u] /\ prev'[u] = prv[u]

(* AddBehind puts t into its place in the list s of the other timers.      *)
LEMMA AddBehindMakes ==
    ASSUME \A u \in Timers : expire[u] \in Nat,
           NEW s \in Seq(Timers), Len(s) # 0, Distinct(s),
           Ascending(s, expire), NEW t \in Timers, ~Has(s, t),
           NEW e \in Nat, expire[s[1]] <= e,
           NEW nxt \in [Timers -> Pointer], NEW prv \in [Timers -> Pointer],
           Chain(s, nxt, prv), \A u \in Timers : nxt[u] = NULL \/ Has(s, nxt[u]),
           tail = s[Len(s)], AddBehind(t, s[1], e, nxt, prv)
    PROVE  LinksTo(s, t, e, nxt, prv)
<1> USE DEF Pointer
<1>1. PICK k \in 2..(Len(s) + 1) : Belongs(s, k, e, expire)
  BY PlaceExists
<1> DEFINE p == s[k - 1]
           n == nxt[p]
           r == Inserted(s, k, t)
<1>2. InsertionPoint(s[1], e, nxt) = p
  BY <1>1, WalkTo
<1>3. /\ next' = [nxt EXCEPT ![p] = t, ![t] = n]
      /\ prev' = [u \in Timers |-> IF u = t THEN p
                                   ELSE IF u = n THEN t ELSE prv[u]]
      /\ tail' = IF n = NULL THEN t ELSE tail
  BY <1>2 DEF AddBehind
<1>4. /\ Len(s) \in Nat /\ k - 1 \in 1..Len(s)
      /\ \A i \in 1..Len(s) : s[i] \in Timers /\ s[i] # NULL
  BY Elements
<1>5. n = IF k = Len(s) + 1 THEN NULL ELSE s[k]
  <2>1. (k - 1) + 1 = k /\ (k - 1 = Len(s) <=> k = Len(s) + 1)
    BY <1>4
  <2> QED
    BY <1>4, <2>1 DEF Chain
<1>6. /\ \A i \in 1..Len(s) : s[i] # t
      /\ \A i \in 1..Len(s) : s[i] = p <=> i = k - 1
      /\ \A i \in 1..Len(s) : s[i] = n <=> i = k
      /\ p # t /\ p \in Timers /\ n \in Pointer
  <2>1. \A i \in 1..Len(s) : s[i] # t
    BY DEF Has
  <2>2. \A i, j \in 1..Len(s) : s[i] = s[j] <=> i = j
    BY DEF Distinct
  <2>3. \A i \in 1..Len(s) : s[i] = n <=> i = k
    <3>1. CASE k = Len(s) + 1
      BY <1>4, <1>5, <3>1
    <3>2. CASE k # Len(s) + 1
      <4>1. k \in 1..Len(s) /\ n = s[k]
        BY <1>4, <1>5, <3>2
      <4> QED
        BY <2>2, <4>1
    <3> QED
      BY <3>1, <3>2
  <2> QED
    BY <1>4, <2>1, <2>2, <2>3
<1> HIDE DEF p, n
<1>7. /\ Len(r) = Len(s) + 1
      /\ \A i \in 1..(Len(s) + 1) :
             r[i] = IF i < k THEN s[i] ELSE IF i = k THEN t ELSE s[i - 1]
  <2>1. k \in 1..(Len(s) + 1)
    BY <1>4
  <2> QED
    BY ONLY <2>1, InsertedFacts, s \in Seq(Timers), t \in Timers
<1> HIDE DEF r
<1>8. Chain(Inserted(s, k, t), next', prev')
  <2>1. \A j \in 1..Len(s) :
            /\ next'[s[j]] = IF j = k - 1 THEN t ELSE nxt[s[j]]
            /\ prev'[s[j]] = IF j = k THEN t ELSE prv[s[j]]
    BY <1>3, <1>4, <1>6
  <2>2. next'[t] = n /\ prev'[t] = p
    BY <1>3
  <2>3. /\ next'[t] = IF k = Len(s) + 1 THEN NULL ELSE s[k]
        /\ prev'[t] = IF k = 1 THEN NULL ELSE s[k - 1]
    BY <1>4, <1>5, <2>2 DEF p
  <2>4. k \in 1..(Len(s) + 1)
    BY <1>4
  <2> QED
    BY <2>1, <2>3, <2>4, InsertedChain
<1>9. tail' = r[Len(s) + 1]
  <2>1. CASE k = Len(s) + 1
    BY <1>3, <1>4, <1>5, <1>7, <2>1
  <2>2. CASE k # Len(s) + 1
    <3>1. r[Len(s) + 1] = s[Len(s)] /\ n # NULL
      BY <1>4, <1>5, <1>7, <2>2
    <3> QED
      BY <1>3, <3>1
  <2> QED
    BY <2>1, <2>2
<1>10. next' \in [Timers -> Pointer] /\ prev' \in [Timers -> Pointer]
  BY <1>3, <1>6
<1>11. ASSUME NEW u \in Timers, ~Has(s, u), u # t
       PROVE  next'[u] = nxt[u] /\ prev'[u] = prv[u]
  <2>1. u # p
    BY <1>4, <1>11 DEF Has, p
  <2>2. u # n
    <3>1. k # Len(s) + 1 => k \in 1..Len(s)
      BY <1>4
    <3>2. n = NULL \/ (n = s[k] /\ k \in 1..Len(s))
      BY <1>5, <3>1
    <3> QED
      BY <1>11, <3>2, TimerAssumption DEF Has
  <2> QED
    BY <1>3, <1>11, <2>1, <2>2
<1> QED
  BY <1>1, <1>8, <1>9, <1>10, <1>11 DEF r, LinksTo
-----------------------------------------------------------------------------
(***************************************************************************)
(* What the variables must be after a step for the list to be the other    *)
(* timers with t in its place, or without it.                              *)
(***************************************************************************)
LEMMA Joins ==
    ASSUME expire \in [Timers -> Nat],
           NEW s \in Seq(Timers), Distinct(s), Ascending(s, expire),
           NEW t \in Timers, ~Has(s, t), NEW e \in Nat,
           NEW k \in 1..(Len(s) + 1), Belongs(s, k, e, expire),
           Chain(Inserted(s, k, t), next', prev'),
           Ends(Inserted(s, k, t), head', tail'),
           expire' = [expire EXCEPT ![t] = e],
           \A u \in Timers : u \in allocated' <=> Has(s, u) \/ u = t,
           \A u \in Timers : ~Has(s, u) /\ u # t =>
               next'[u] = NULL /\ prev'[u] = NULL
    PROVE  Lists(Inserted(s, k, t))'
<1> DEFINE r == Inserted(s, k, t)
<1>1. r \in Seq(Timers)
  BY ONLY InsertedFacts, s \in Seq(Timers), t \in Timers, k \in 1..(Len(s) + 1)
<1>2. \A u : Has(r, u) <=> Has(s, u) \/ u = t
  BY ONLY InsertedHas, s \in Seq(Timers), t \in Timers, k \in 1..(Len(s) + 1)
<1>3. Distinct(r) /\ Ascending(r, expire')
  <2>1. /\ \A j \in 1..Len(s) : expire'[s[j]] = expire[s[j]]
        /\ expire'[t] = e /\ \A u \in Timers : expire[u] \in Nat
    BY Elements DEF Has
  <2> QED
    BY <2>1, InsertedKeeps
<1> HIDE DEF r
<1>4. Lists(r)'
  BY <1>1, <1>2, <1>3 DEF Lists, r
<1> QED
  BY <1>4 DEF r

LEMMA Leaves ==
    ASSUME expire \in [Timers -> Nat],
           NEW s \in Seq(Timers), Lists(s), NEW k \in 1..Len(s),
           Chain(Removed(s, k), next', prev'),
           Ends(Removed(s, k), head', tail'), Free(s[k]),
           \A u \in Timers : u = s[k] \/ u \notin allocated =>
               next'[u] = NULL /\ prev'[u] = NULL
    PROVE  Lists(Removed(s, k))'
<1> DEFINE r == Removed(s, k)
<1>1. Distinct(s) /\ Ascending(s, expire)
      /\ \A u \in Timers : u \in allocated <=> Has(s, u)
  BY DEF Lists
<1>2. r \in Seq(Timers)
  BY ONLY RemovedFacts, s \in Seq(Timers), k \in 1..Len(s)
<1>3. \A u : Has(r, u) <=> Has(s, u) /\ u # s[k]
  BY ONLY RemovedHas, <1>1, s \in Seq(Timers), k \in 1..Len(s)
<1>4. Distinct(r) /\ Ascending(r, expire)
  BY ONLY RemovedKeeps, <1>1, s \in Seq(Timers), k \in 1..Len(s)
<1> HIDE DEF r
<1>5. Ascending(r, expire')
  <2>1. \A i \in 1..Len(r) : r[i] \in Timers /\ r[i] # s[k]
    BY <1>2, <1>3, Elements DEF Has
  <2>2. \A i \in 1..Len(r) : expire'[r[i]] = expire[r[i]]
    BY <2>1, Elements DEF Free
  <2> QED
    BY <1>4, <2>2 DEF Ascending
<1>6. \A u \in Timers : u \in allocated' <=> Has(r, u)
  BY <1>1, <1>3 DEF Free
<1>7. \A u \in Timers \ allocated' : next'[u] = NULL /\ prev'[u] = NULL
  BY DEF Free
<1>8. Lists(r)'
  BY <1>2, <1>4, <1>5, <1>6, <1>7 DEF Lists, r
<1> QED
  BY <1>8 DEF r
-----------------------------------------------------------------------------
(***************************************************************************)
(* Every operation keeps the list and does to it what TimerQueue says.     *)
(***************************************************************************)

(* In the next state the list is s with t, which expires at e, in place.   *)
Placed(s, t, e) ==
    \E k \in 1..(Len(s) + 1) :
        Belongs(s, k, e, expire) /\ Lists(Inserted(s, k, t))'

LEMMA DeadlineTypes ==
    ASSUME TypeOK
    PROVE  /\ expire \in [Timers -> Nat]
           /\ \A u \in Timers : expire[u] \in Nat
           /\ \A e \in Deadlines : e \in Nat /\ e \in 0..MaxTime
BY TimerAssumption DEF TypeOK, Deadlines

LEMMA FirstMakes ==
    ASSUME TypeOK, NEW s \in Seq(Timers), Lists(s),
           NEW t \in Timers, NEW e \in Deadlines, AddFirst(t, e)
    PROVE  TypeOK' /\ ~Has(s, t) /\ Placed(s, t, e)
<1>1. Len(s) = 0
  BY Elements DEF AddFirst, Lists, Ends
<1>2. \A u : ~Has(s, u)
  BY <1>1 DEF Has
<1> DEFINE r == Inserted(s, 1, t)
<1>3. Len(r) = 1 /\ r[1] = t
  <2>1. /\ 1 \in 1..(Len(s) + 1) /\ Len(r) = Len(s) + 1
        /\ \A i \in 1..(Len(s) + 1) : r[i] = IF i = 1 THEN t ELSE s[i - 1]
    BY InsertedFirst
  <2> HIDE DEF r
  <2> QED
    BY <1>1, <2>1
<1> HIDE DEF r
<1>4. next'[t] = NULL /\ prev'[t] = NULL
  BY DEF AddFirst, Lists
<1>5. Chain(r, next', prev') /\ Ends(r, head', tail')
  BY <1>3, <1>4 DEF Chain, Ends, AddFirst
<1>6. Belongs(s, 1, e, expire)
  BY <1>1 DEF Belongs
<1>7. \A u \in Timers : u # t => next'[u] = NULL /\ prev'[u] = NULL
  BY <1>2 DEF AddFirst, Lists
<1>8. \A u \in Timers : u \in allocated' <=> u = t
  BY <1>2 DEF AddFirst, Lists
<1>9. TypeOK'
  BY DeadlineTypes DEF TypeOK, AddFirst, Pointer
<1>10. Lists(Inserted(s, 1, t))'
  <2>1. 1 \in 1..(Len(s) + 1) /\ e \in Nat /\ expire \in [Timers -> Nat]
    BY <1>1, DeadlineTypes
  <2> QED
    BY <1>2, <1>5, <1>6, <1>7, <1>8, <2>1, Joins DEF AddFirst, Lists, r
<1> QED
  BY <1>1, <1>2, <1>6, <1>9, <1>10 DEF Placed

LEMMA InFrontMakes ==
    ASSUME TypeOK, NEW s \in Seq(Timers), Lists(s),
           NEW t \in Timers, NEW e \in Deadlines, AddInFront(t, e)
    PROVE  TypeOK' /\ ~Has(s, t) /\ Placed(s, t, e)
<1>1. /\ Len(s) \in Nat /\ Len(s) # 0 /\ s[1] = head
      /\ \A i \in 1..Len(s) : s[i] \in Timers /\ s[i] # NULL
  BY Elements DEF AddInFront, Lists, Ends
<1>2. ~Has(s, t) /\ \A i \in 1..Len(s) : s[i] # t
  BY DEF AddInFront, Lists, Has
<1>3. \A i \in 1..Len(s) : s[i] = head <=> i = 1
  BY <1>1 DEF Lists, Distinct
<1> DEFINE r == Inserted(s, 1, t)
<1>4. /\ Len(r) = Len(s) + 1
      /\ \A i \in 1..(Len(s) + 1) : r[i] = IF i = 1 THEN t ELSE s[i - 1]
  BY InsertedFirst
<1> HIDE DEF r
<1>5. next \in [Timers -> Pointer] /\ prev \in [Timers -> Pointer]
      /\ head \in Timers
  BY <1>1 DEF TypeOK
<1>6. Chain(Inserted(s, 1, t), next', prev')
  <2>1. \A j \in 1..Len(s) :
            /\ next'[s[j]] = IF j = 1 - 1 THEN t ELSE next[s[j]]
            /\ prev'[s[j]] = IF j = 1 THEN t ELSE prev[s[j]]
    BY <1>1, <1>2, <1>3, <1>5 DEF AddInFront
  <2>2. /\ next'[t] = IF 1 = Len(s) + 1 THEN NULL ELSE s[1]
        /\ prev'[t] = IF 1 = 1 THEN NULL ELSE s[1 - 1]
    <3>1. next'[t] = s[1] /\ 1 # Len(s) + 1
      BY <1>1, <1>5 DEF AddInFront
    <3>2. prev'[t] = NULL
      BY <1>1, <1>2, <1>5 DEF AddInFront, Lists
    <3> QED
      BY <3>1, <3>2
  <2>3. Distinct(s) /\ Chain(s, next, prev) /\ 1 \in 1..(Len(s) + 1)
    BY <1>1 DEF Lists
  <2> QED
    BY <2>1, <2>2, <2>3, InsertedChain
<1>7. Ends(r, head', tail')
  <2>1. r[Len(s) + 1] = s[(Len(s) + 1) - 1] /\ (Len(s) + 1) - 1 = Len(s)
        /\ r[1] = t /\ Len(s) + 1 # 0
    BY <1>1, <1>4
  <2> QED
    BY <1>1, <1>4, <2>1 DEF Ends, Lists, AddInFront
<1>8. Belongs(s, 1, e, expire)
  <2>1. ASSUME NEW j \in 1..Len(s) PROVE e < expire[s[j]]
    <3>1. expire[s[1]] <= expire[s[j]] /\ s[1] \in Timers /\ s[j] \in Timers
      BY <1>1 DEF Lists, Ascending
    <3> QED
      BY <1>1, <3>1, DeadlineTypes DEF AddInFront
  <2> QED
    BY <2>1 DEF Belongs
<1>9. \A u \in Timers : ~Has(s, u) /\ u # t =>
          next'[u] = NULL /\ prev'[u] = NULL
  <2>1. Has(s, head)
    BY <1>1 DEF Has
  <2> QED
    BY <1>5, <2>1 DEF AddInFront, Lists
<1>10. \A u \in Timers : u \in allocated' <=> Has(s, u) \/ u = t
  BY DEF AddInFront, Lists
<1>11. TypeOK'
  BY <1>5, DeadlineTypes DEF TypeOK, AddInFront, Pointer
<1>12. Lists(Inserted(s, 1, t))'
  <2>1. /\ 1 \in 1..(Len(s) + 1) /\ e \in Nat /\ expire \in [Timers -> Nat]
        /\ Distinct(s) /\ Ascending(s, expire)
        /\ expire' = [expire EXCEPT ![t] = e]
    BY <1>1, DeadlineTypes DEF Lists, AddInFront
  <2> QED
    BY <1>2, <1>6, <1>7, <1>8, <1>9, <1>10, <2>1, Joins DEF r
<1> QED
  BY <1>1, <1>2, <1>8, <1>11, <1>12 DEF Placed

LEMMA FurtherMakes ==
    ASSUME TypeOK, NEW s \in Seq(Timers), Lists(s),
           NEW t \in Timers, NEW e \in Deadlines, AddFurther(t, e)
    PROVE  TypeOK' /\ ~Has(s, t) /\ Placed(s, t, e)
<1>1. /\ Len(s) \in Nat /\ Len(s) # 0 /\ s[1] = head /\ s[Len(s)] = tail
      /\ \A i \in 1..Len(s) : s[i] \in Timers /\ s[i] # NULL
  BY Elements DEF AddFurther, Lists, Ends
<1>2. ~Has(s, t)
  BY DEF AddFurther, Lists
<1>3. next \in [Timers -> Pointer] /\ prev \in [Timers -> Pointer]
  BY DEF TypeOK
<1>4. \A u \in Timers : next[u] = NULL \/ Has(s, next[u])
  <2> SUFFICES ASSUME NEW u \in Timers, next[u] # NULL
               PROVE  Has(s, next[u])
    OBVIOUS
  <2>1. PICK i \in 1..Len(s) : s[i] = u
    BY DEF Lists, Has
  <2>2. i # Len(s) /\ next[u] = s[i + 1] /\ i + 1 \in 1..Len(s)
    BY <1>1, <2>1 DEF Lists, Chain
  <2> QED
    BY <2>2 DEF Has
<1>5. /\ e \in Nat /\ expire \in [Timers -> Nat]
      /\ \A u \in Timers : expire[u] \in Nat
      /\ expire[s[1]] <= e /\ AddBehind(t, s[1], e, next, prev)
  <2>1. expire[s[1]] \in Nat /\ e \in Nat
    BY <1>1, DeadlineTypes
  <2> QED
    BY <1>1, <2>1, DeadlineTypes DEF AddFurther
<1>6. Distinct(s) /\ Ascending(s, expire) /\ Chain(s, next, prev)
  BY DEF Lists
<1>7. PICK k \in 2..(Len(s) + 1) :
          /\ Belongs(s, k, e, expire)
          /\ Chain(Inserted(s, k, t), next', prev')
          /\ tail' = Inserted(s, k, t)[Len(s) + 1]
          /\ next' \in [Timers -> Pointer] /\ prev' \in [Timers -> Pointer]
          /\ \A u \in Timers : ~Has(s, u) /\ u # t =>
                 next'[u] = next[u] /\ prev'[u] = prev[u]
  <2>1. Len(s) # 0 /\ tail = s[Len(s)]
    BY <1>1
  <2>2. LinksTo(s, t, e, next, prev)
    BY <1>2, <1>3, <1>4, <1>5, <1>6, <2>1, AddBehindMakes
  <2> QED
    BY <2>2 DEF LinksTo
<1> DEFINE r == Inserted(s, k, t)
<1>8. k \in 1..(Len(s) + 1) /\ 1 < k
  BY <1>1
<1>9. /\ r \in Seq(Timers) /\ Len(r) = Len(s) + 1
      /\ \A i \in 1..(Len(s) + 1) :
             r[i] = IF i < k THEN s[i] ELSE IF i = k THEN t ELSE s[i - 1]
  BY ONLY <1>8, InsertedFacts, s \in Seq(Timers), t \in Timers
<1> HIDE DEF r
<1>10. Ends(r, head', tail')
  <2>1. r[1] = s[1] /\ Len(r) # 0 /\ tail' = r[Len(r)]
    BY <1>1, <1>7, <1>8, <1>9 DEF r
  <2> QED
    BY <1>1, <2>1 DEF Ends, AddFurther
<1>11. /\ \A u \in Timers : u \in allocated' <=> Has(s, u) \/ u = t
       /\ \A u \in Timers : ~Has(s, u) /\ u # t =>
              next'[u] = NULL /\ prev'[u] = NULL
       /\ expire' = [expire EXCEPT ![t] = e]
  BY <1>7 DEF AddFurther, Lists
<1>12. Lists(Inserted(s, k, t))'
  BY <1>2, <1>5, <1>6, <1>7, <1>8, <1>10, <1>11, Joins DEF r
<1>13. TypeOK'
  <2>1. tail' \in Pointer
    BY <1>1, <1>7, <1>9, Elements DEF Pointer, r
  <2> QED
    BY <1>7, <2>1, DeadlineTypes DEF TypeOK, AddFurther
<1> QED
  BY <1>2, <1>7, <1>8, <1>12, <1>13 DEF Placed

LEMMA RemovedInserted ==
    ASSUME NEW s \in Seq(Timers), NEW k \in 1..Len(s),
           NEW o \in Seq(Timers), o = Removed(s, k),
           NEW t \in Timers, t = s[k]
    PROVE  Inserted(o, k, t) = s
<1> DEFINE r == Inserted(o, k, t)
<1>1. /\ Len(s) \in Nat /\ Len(o) = Len(s) - 1
      /\ \A i \in 1..(Len(s) - 1) : o[i] = IF i < k THEN s[i] ELSE s[i + 1]
  BY RemovedFacts
<1>2. k \in 1..(Len(o) + 1) /\ Len(o) + 1 = Len(s)
  BY <1>1
<1>3. /\ r \in Seq(Timers) /\ Len(r) = Len(o) + 1
      /\ \A i \in 1..(Len(o) + 1) :
             r[i] = IF i < k THEN o[i] ELSE IF i = k THEN t ELSE o[i - 1]
  BY ONLY <1>2, InsertedFacts, o \in Seq(Timers), t \in Timers
<1> HIDE DEF r
<1>4. ASSUME NEW i \in 1..Len(s) PROVE r[i] = s[i]
  <2>1. CASE i < k
    BY <1>1, <1>2, <1>3, <2>1
  <2>2. CASE i = k
    BY <1>2, <1>3, <2>2
  <2>3. CASE i > k
    <3>1. i - 1 \in 1..(Len(s) - 1) /\ ~(i - 1 < k) /\ (i - 1) + 1 = i
      BY <1>1, <2>3
    <3>2. r[i] = o[i - 1] /\ o[i - 1] = s[i]
      BY <1>1, <1>2, <1>3, <2>3, <3>1
    <3> QED
      BY <3>2
  <2> QED
    BY <1>1, <2>1, <2>2, <2>3
<1>5. r = s
  BY <1>2, <1>3, <1>4, SeqEqual
<1> QED
  BY <1>5 DEF r

(* A timer in use has a place in the list.                                 *)
LEMMA PlaceOf ==
    ASSUME TypeOK, NEW s \in Seq(Timers), Lists(s),
           NEW t \in Timers, t \in allocated
    PROVE  \E k \in 1..Len(s) :
              /\ s[k] = t
              /\ k = 1 <=> t = head
              /\ k = Len(s) <=> t = tail
              /\ next[t] = IF k = Len(s) THEN NULL ELSE s[k + 1]
              /\ prev[t] = IF k = 1 THEN NULL ELSE s[k - 1]
<1>1. Len(s) \in Nat
  BY Elements
<1>2. PICK k \in 1..Len(s) : s[k] = t
  BY DEF Lists, Has
<1>3. head = s[1] /\ tail = s[Len(s)] /\ 1 \in 1..Len(s) /\ Len(s) \in 1..Len(s)
  BY <1>1, <1>2 DEF Lists, Ends
<1>4. (k = 1 <=> t = head) /\ (k = Len(s) <=> t = tail)
  BY <1>2, <1>3 DEF Lists, Distinct
<1> QED
  BY <1>2, <1>4 DEF Lists, Chain

LEMMA StaysMakes ==
    ASSUME TypeOK, NEW s \in Seq(Timers), Lists(s),
           NEW t \in Timers, NEW e \in Deadlines, AdjustStays(t, e)
    PROVE  /\ TypeOK'
           /\ \E k \in 1..Len(s) : s[k] = t /\ Placed(Removed(s, k), t, e)
<1>1. PICK k \in 1..Len(s) :
          s[k] = t /\ next[t] = IF k = Len(s) THEN NULL ELSE s[k + 1]
  BY PlaceOf DEF AdjustStays
<1> DEFINE o == Removed(s, k)
<1>2. /\ Len(s) \in Nat /\ \A i \in 1..Len(s) : s[i] \in Timers /\ s[i] # NULL
      /\ Distinct(s) /\ Ascending(s, expire)
  BY Elements DEF Lists
<1>3. /\ e \in Nat /\ expire \in [Timers -> Nat]
      /\ \A u \in Timers : expire[u] \in Nat
      /\ expire[t] <= e /\ expire' = [expire EXCEPT ![t] = e]
  BY DeadlineTypes DEF AdjustStays
<1>4. /\ o \in Seq(Timers) /\ Len(o) = Len(s) - 1
      /\ \A i \in 1..(Len(s) - 1) : o[i] = IF i < k THEN s[i] ELSE s[i + 1]
  BY RemovedFacts
<1>5. Distinct(o) /\ Ascending(o, expire) /\ \A u : Has(o, u) <=> Has(s, u) /\ u # t
  BY ONLY <1>1, <1>2, RemovedKeeps, RemovedHas, s \in Seq(Timers), k \in 1..Len(s)
<1> HIDE DEF o
<1>6. k \in 1..(Len(o) + 1)
  BY <1>2, <1>4
<1>7. Inserted(o, k, t) = s
  <2>1. o = Removed(s, k)
    BY DEF o
  <2> QED
    BY <1>1, <1>4, <2>1, RemovedInserted
<1>8. Belongs(o, k, e, expire)
  <2>1. ASSUME NEW j \in 1..(k - 1) PROVE expire[o[j]] <= e
    <3>1. o[j] = s[j] /\ j \in 1..Len(s) /\ j <= k /\ s[j] \in Timers
      BY <1>2, <1>4
    <3>2. expire[s[j]] <= expire[t]
      BY <1>1, <1>2, <3>1 DEF Ascending
    <3> QED
      BY <1>3, <3>1, <3>2
  <2>2. ASSUME NEW j \in k..Len(o) PROVE e < expire[o[j]]
    <3>1. /\ o[j] = s[j + 1] /\ j + 1 \in 1..Len(s) /\ k + 1 <= j + 1
          /\ k + 1 \in 1..Len(s) /\ k # Len(s)
      BY <1>2, <1>4
    <3>2. e < expire[s[k + 1]]
      BY <1>1, <1>2, <3>1 DEF AdjustStays, InPlace
    <3>3. expire[s[k + 1]] <= expire[s[j + 1]]
      BY <1>2, <3>1 DEF Ascending
    <3>4. s[k + 1] \in Timers /\ s[j + 1] \in Timers
      BY <1>2, <3>1
    <3> QED
      BY <1>3, <3>1, <3>2, <3>3, <3>4
  <2> QED
    BY <2>1, <2>2 DEF Belongs
<1>9. Ascending(s, expire')
  <2>1. /\ \A j \in 1..Len(o) : expire'[o[j]] = expire[o[j]]
        /\ expire'[t] = e /\ ~Has(o, t)
    BY <1>3, <1>4, <1>5, Elements DEF Has
  <2>2. Ascending(Inserted(o, k, t), expire')
    BY <1>3, <1>4, <1>5, <1>6, <1>8, <2>1, InsertedKeeps
  <2> QED
    BY <1>7, <2>2
<1>10. Lists(s)'
  BY <1>9 DEF AdjustStays, Lists
<1>11. TypeOK'
  BY DeadlineTypes DEF AdjustStays, TypeOK
<1> QED
  BY <1>1, <1>6, <1>7, <1>8, <1>10, <1>11 DEF Placed, o

(* AddBehind puts s[k], taken out of the list, further behind.             *)
LEMMA MoveMakes ==
    ASSUME TypeOK, NEW s \in Seq(Timers), Lists(s), NEW k \in 1..Len(s),
           NEW e \in Deadlines,
           NEW o \in Seq(Timers), o = Removed(s, k), Len(o) # 0,
           NEW nxt \in [Timers -> Pointer], NEW prv \in [Timers -> Pointer],
           Chain(o, nxt, prv), \A u \in Timers : nxt[u] = NULL \/ Has(o, nxt[u]),
           \A u \in Timers \ allocated : nxt[u] = NULL /\ prv[u] = NULL,
           tail = o[Len(o)], head' = o[1], expire[o[1]] <= e,
           AddBehind(s[k], o[1], e, nxt, prv),
           expire' = [expire EXCEPT ![s[k]] = e], allocated' = allocated
    PROVE  TypeOK' /\ Placed(o, s[k], e)
<1> DEFINE t == s[k]
<1>1. /\ Len(o) \in Nat /\ t \in Timers /\ Distinct(s) /\ Ascending(s, expire)
      /\ \A u \in Timers : u \in allocated <=> Has(s, u)
  BY Elements DEF Lists
<1>2. Distinct(o) /\ Ascending(o, expire) /\ \A u : Has(o, u) <=> Has(s, u) /\ u # t
  BY ONLY <1>1, RemovedKeeps, RemovedHas, s \in Seq(Timers), k \in 1..Len(s),
          o = Removed(s, k)
<1>3. Has(s, t)
  BY DEF Has
<1> HIDE DEF t
<1>4. /\ e \in Nat /\ expire \in [Timers -> Nat]
      /\ \A u \in Timers : expire[u] \in Nat
  BY DeadlineTypes
<1>5. LinksTo(o, t, e, nxt, prv)
  <2>1. ~Has(o, t) /\ AddBehind(t, o[1], e, nxt, prv)
    BY <1>2 DEF t
  <2> QED
    BY <1>1, <1>2, <1>4, <2>1, AddBehindMakes
<1>6. PICK m \in 2..(Len(o) + 1) :
          /\ Belongs(o, m, e, expire)
          /\ Chain(Inserted(o, m, t), next', prev')
          /\ tail' = Inserted(o, m, t)[Len(o) + 1]
          /\ next' \in [Timers -> Pointer] /\ prev' \in [Timers -> Pointer]
          /\ \A u \in Timers : ~Has(o, u) /\ u # t =>
                 next'[u] = nxt[u] /\ prev'[u] = prv[u]
  BY <1>5 DEF LinksTo
<1> DEFINE r == Inserted(o, m, t)
<1>7. m \in 1..(Len(o) + 1) /\ 1 < m
  BY <1>1
<1>8. /\ r \in Seq(Timers) /\ Len(r) = Len(o) + 1
      /\ \A i \in 1..(Len(o) + 1) :
             r[i] = IF i < m THEN o[i] ELSE IF i = m THEN t ELSE o[i - 1]
  <2>1. o \in Seq(Timers) /\ t \in Timers /\ m \in 1..(Len(o) + 1)
    BY <1>1, <1>7
  <2> QED
    BY ONLY <2>1, InsertedFacts
<1> HIDE DEF r
<1>9. Ends(r, head', tail')
  <2>1. r[1] = o[1] /\ Len(r) # 0 /\ tail' = r[Len(r)]
    BY <1>1, <1>6, <1>7, <1>8 DEF r
  <2> QED
    BY <1>1, <2>1 DEF Ends
<1>10. /\ \A u \in Timers : u \in allocated' <=> Has(o, u) \/ u = t
       /\ \A u \in Timers : ~Has(o, u) /\ u # t =>
              next'[u] = NULL /\ prev'[u] = NULL
       /\ expire' = [expire EXCEPT ![t] = e]
  <2>1. \A u \in Timers : u \in allocated' <=> Has(o, u) \/ u = t
    BY <1>1, <1>2, <1>3
  <2>2. \A u \in Timers : ~Has(o, u) /\ u # t => u \in Timers \ allocated
    BY <1>1, <1>2
  <2> QED
    BY <1>6, <2>1, <2>2 DEF t
<1>11. Lists(Inserted(o, m, t))'
  <2>1. ~Has(o, t)
    BY <1>2
  <2> QED
    BY <1>1, <1>2, <1>4, <1>6, <1>7, <1>9, <1>10, <2>1, Joins DEF r
<1>12. TypeOK'
  <2>1. /\ tail' \in Pointer /\ head' \in Pointer
    BY <1>1, <1>6, <1>8, Elements DEF Pointer, r
  <2>2. expire' \in [Timers -> 0..MaxTime]
    BY <1>10, DeadlineTypes DEF TypeOK
  <2> QED
    BY <1>6, <2>1, <2>2 DEF TypeOK
<1> QED
  BY <1>6, <1>7, <1>11, <1>12 DEF Placed, t

LEMMA HeadMakes ==
    ASSUME TypeOK, NEW s \in Seq(Timers), Lists(s),
           NEW t \in Timers, NEW e \in Deadlines, AdjustHead(t, e)
    PROVE  /\ TypeOK'
           /\ \E k \in 1..Len(s) : s[k] = t /\ Placed(Removed(s, k), t, e)
<1>1. /\ Len(s) \in Nat /\ \A i \in 1..Len(s) : s[i] \in Timers /\ s[i] # NULL
      /\ Distinct(s) /\ Chain(s, next, prev)
      /\ \A u \in Timers : u \in allocated <=> Has(s, u)
      /\ \A u \in Timers \ allocated : next[u] = NULL /\ prev[u] = NULL
  BY Elements DEF Lists
<1>2. /\ 1 \in 1..Len(s) /\ s[1] = t /\ t = head /\ 1 # Len(s)
      /\ next[t] = s[2] /\ prev[t] = NULL /\ tail = s[Len(s)]
  <2>1. next[t] # NULL /\ t \in allocated /\ t = head
    BY DEF AdjustHead, InPlace
  <2>2. PICK k \in 1..Len(s) :
            /\ s[k] = t /\ k = 1 <=> t = head
            /\ next[t] = IF k = Len(s) THEN NULL ELSE s[k + 1]
            /\ prev[t] = IF k = 1 THEN NULL ELSE s[k - 1]
    BY <2>1, PlaceOf
  <2>3. tail = s[Len(s)]
    BY <1>1, <2>2 DEF Lists, Ends
  <2> QED
    BY <2>1, <2>2, <2>3
<1> DEFINE o == Removed(s, 1)
           nxt == [next EXCEPT ![t] = NULL]
           prv == [prev EXCEPT ![next[head]] = NULL]
<1>3. /\ o \in Seq(Timers) /\ Len(o) = Len(s) - 1
      /\ \A i \in 1..(Len(s) - 1) : o[i] = s[i + 1]
  BY <1>2, RemovedFacts
<1>4. /\ next \in [Timers -> Pointer] /\ prev \in [Timers -> Pointer]
      /\ NULL \in Pointer /\ head' = next[head] /\ allocated' = allocated
      /\ expire' = [expire EXCEPT ![t] = e]
      /\ AddBehind(t, next[head], e, nxt, prv)
  BY DEF TypeOK, Pointer, AdjustHead
<1> HIDE DEF o
<1>5. /\ Len(o) # 0 /\ o[1] = s[2] /\ o[Len(o)] = s[Len(s)]
      /\ 2 \in 1..Len(s) /\ \A i \in 1..Len(s) : s[i] = s[2] <=> i = 2
  BY <1>1, <1>2, <1>3 DEF Distinct
<1>6. /\ nxt \in [Timers -> Pointer] /\ prv \in [Timers -> Pointer]
      /\ \A u \in Timers : nxt[u] = IF u = t THEN NULL ELSE next[u]
      /\ \A u \in Timers : prv[u] = IF u = s[2] THEN NULL ELSE prev[u]
  BY <1>2, <1>4
<1>7. AddBehind(s[1], o[1], e, nxt, prv) /\ head' = o[1]
  BY <1>2, <1>4, <1>5
<1> HIDE DEF nxt, prv
<1>8. Chain(o, nxt, prv)
  <2>1. ASSUME NEW j \in 1..Len(s), j # 1
        PROVE  /\ nxt[s[j]] = IF j = 1 - 1 THEN next[s[1]] ELSE next[s[j]]
               /\ prv[s[j]] = IF j = 1 + 1 THEN prev[s[1]] ELSE prev[s[j]]
    <3>1. s[j] # t /\ (s[j] = s[2] <=> j = 2) /\ s[j] \in Timers
      BY <1>1, <1>2, <1>5, <2>1 DEF Distinct
    <3> QED
      BY <1>2, <1>6, <3>1
  <2> QED
    BY <1>1, <1>2, <2>1, RemovedChain DEF o
<1>9. \A u \in Timers : nxt[u] = NULL \/ Has(o, nxt[u])
  <2> SUFFICES ASSUME NEW u \in Timers, nxt[u] # NULL PROVE Has(o, nxt[u])
    OBVIOUS
  <2>1. nxt[u] = next[u] /\ u \in allocated
    BY <1>1, <1>6
  <2>2. PICK i \in 1..Len(s) : s[i] = u
    BY <1>1, <2>1 DEF Has
  <2>3. i \in 1..Len(o) /\ nxt[u] = s[i + 1]
    BY <1>1, <1>3, <2>1, <2>2 DEF Chain
  <2> QED
    BY <1>3, <2>3 DEF Has
<1>10. \A u \in Timers \ allocated : nxt[u] = NULL /\ prv[u] = NULL
  BY <1>1, <1>6
<1>11. expire[o[1]] <= e
  <2>1. ~(e < expire[s[2]]) /\ expire[s[2]] \in Nat /\ e \in Nat
    BY <1>1, <1>2, <1>5, DeadlineTypes DEF AdjustHead, InPlace
  <2> QED
    BY <1>5, <2>1
<1>12. o = Removed(s, 1) /\ tail = o[Len(o)]
  BY <1>2, <1>5 DEF o
<1>13. TypeOK' /\ Placed(o, s[1], e)
  BY <1>2, <1>3, <1>4, <1>5, <1>6, <1>7, <1>8, <1>9, <1>10, <1>11, <1>12,
     MoveMakes
<1> QED
  BY <1>2, <1>13 DEF o

LEMMA InnerMakes ==
    ASSUME TypeOK, NEW s \in Seq(Timers), Lists(s),
           NEW t \in Timers, NEW e \in Deadlines, AdjustInner(t, e)
    PROVE  /\ TypeOK'
           /\ \E k \in 1..Len(s) : s[k] = t /\ Placed(Removed(s, k), t, e)
<1>1. /\ Len(s) \in Nat /\ \A i \in 1..Len(s) : s[i] \in Timers /\ s[i] # NULL
      /\ Distinct(s) /\ Chain(s, next, prev)
      /\ \A u \in Timers : u \in allocated <=> Has(s, u)
      /\ \A u \in Timers \ allocated : next[u] = NULL /\ prev[u] = NULL
  BY Elements DEF Lists
<1>2. PICK k \in 1..Len(s) :
          /\ s[k] = t /\ k # 1 /\ k # Len(s)
          /\ next[t] = s[k + 1] /\ prev[t] = s[k - 1]
  <2>1. next[t] # NULL /\ t \in allocated /\ t # head
    BY DEF AdjustInner, InPlace
  <2> QED
    BY <2>1, PlaceOf
<1>3. /\ head = s[1] /\ tail = s[Len(s)] /\ 1 \in 1..Len(s)
      /\ k - 1 \in 1..Len(s) /\ k + 1 \in 1..Len(s)
  BY <1>1, <1>2 DEF Lists, Ends
<1> DEFINE o == Removed(s, k)
           nxt == [next EXCEPT ![prev[t]] = next[t]]
           prv == [prev EXCEPT ![next[t]] = prev[t]]
<1>4. /\ o \in Seq(Timers) /\ Len(o) = Len(s) - 1
      /\ \A i \in 1..(Len(s) - 1) : o[i] = IF i < k THEN s[i] ELSE s[i + 1]
  BY <1>2, RemovedFacts
<1>5. /\ next \in [Timers -> Pointer] /\ prev \in [Timers -> Pointer]
      /\ head' = head /\ allocated' = allocated
      /\ expire' = [expire EXCEPT ![t] = e]
      /\ AddBehind(t, head, e, nxt, prv)
  BY DEF TypeOK, AdjustInner
<1> HIDE DEF o
<1>6. Len(o) # 0 /\ o[1] = s[1] /\ o[Len(o)] = s[Len(s)]
  <2>1. /\ Len(s) - 1 \in 1..(Len(s) - 1) /\ 1 \in 1..(Len(s) - 1)
        /\ ~(Len(s) - 1 < k) /\ 1 < k /\ (Len(s) - 1) + 1 = Len(s)
    BY <1>1, <1>2
  <2> QED
    BY <1>4, <2>1
<1>7. \A i, j \in 1..Len(s) : s[i] = s[j] <=> i = j
  BY <1>1 DEF Distinct
<1>8. /\ nxt \in [Timers -> Pointer] /\ prv \in [Timers -> Pointer]
      /\ \A u \in Timers :
             nxt[u] = IF u = s[k - 1] THEN s[k + 1] ELSE next[u]
      /\ \A u \in Timers :
             prv[u] = IF u = s[k + 1] THEN s[k - 1] ELSE prev[u]
  BY <1>1, <1>2, <1>3, <1>5 DEF Pointer
<1>9. AddBehind(s[k], o[1], e, nxt, prv) /\ head' = o[1]
  BY <1>2, <1>3, <1>5, <1>6
<1> HIDE DEF nxt, prv
<1>10. Chain(o, nxt, prv)
  <2>1. ASSUME NEW j \in 1..Len(s), j # k
        PROVE  /\ nxt[s[j]] = IF j = k - 1 THEN next[s[k]] ELSE next[s[j]]
               /\ prv[s[j]] = IF j = k + 1 THEN prev[s[k]] ELSE prev[s[j]]
    <3>1. (s[j] = s[k - 1] <=> j = k - 1) /\ (s[j] = s[k + 1] <=> j = k + 1)
      BY <1>3, <1>7
    <3> QED
      BY <1>1, <1>2, <1>8, <3>1
  <2> QED
    BY <1>1, <2>1, RemovedChain DEF o
<1>11. \A u : Has(o, u) <=> Has(s, u) /\ u # t
  BY ONLY <1>1, <1>2, RemovedHas, s \in Seq(Timers), k \in 1..Len(s) DEF o
<1>12. \A u \in Timers : nxt[u] = NULL \/ Has(o, nxt[u])
  <2> SUFFICES ASSUME NEW u \in Timers, nxt[u] # NULL PROVE Has(o, nxt[u])
    OBVIOUS
  <2>1. CASE u = s[k - 1]
    <3>1. nxt[u] = s[k + 1] /\ s[k + 1] # t
      BY <1>2, <1>3, <1>7, <1>8, <2>1
    <3> QED
      BY <1>3, <1>11, <3>1 DEF Has
  <2>2. CASE u # s[k - 1]
    <3>1. nxt[u] = next[u] /\ u \in allocated
      BY <1>1, <1>8, <2>2
    <3>2. PICK i \in 1..Len(s) : s[i] = u
      BY <1>1, <3>1 DEF Has
    <3>3. i + 1 \in 1..Len(s) /\ nxt[u] = s[i + 1] /\ i + 1 # k
      BY <1>1, <2>2, <3>1, <3>2 DEF Chain
    <3>4. s[i + 1] # t
      BY <1>2, <1>7, <3>3
    <3> QED
      BY <1>11, <3>3, <3>4 DEF Has
  <2> QED
    BY <2>1, <2>2
<1>13. \A u \in Timers \ allocated : nxt[u] = NULL /\ prv[u] = NULL
  <2>1. s[k - 1] \in allocated /\ s[k + 1] \in allocated
    BY <1>1, <1>3 DEF Has
  <2> QED
    BY <1>1, <1>8, <2>1
<1>14. expire[o[1]] <= e
  <2>1. expire[s[1]] <= expire[s[k]]
    BY <1>1, <1>3 DEF Lists, Ascending
  <2>2. expire[s[1]] \in Nat /\ expire[t] \in Nat /\ e \in Nat
    BY <1>1, <1>3, DeadlineTypes
  <2>3. e >= expire[t]
    BY DEF AdjustInner
  <2> QED
    BY <1>2, <1>6, <2>1, <2>2, <2>3
<1>15. o = Removed(s, k) /\ tail = o[Len(o)]
  BY <1>3, <1>6 DEF o
<1>16. TypeOK' /\ Placed(o, s[k], e)
  BY <1>2, <1>4, <1>5, <1>6, <1>8, <1>9, <1>10, <1>12, <1>13, <1>14, <1>15,
     MoveMakes
<1> QED
  BY <1>2, <1>16 DEF o

LEMMA FreeTypes ==
    ASSUME TypeOK, NEW t \in Timers, Free(t)
    PROVE  expire' \in [Timers -> 0..MaxTime] /\ allocated' \subseteq Timers
<1>1. 0 \in 0..MaxTime
  BY TimerAssumption
<1> QED
  BY <1>1 DEF TypeOK, Free

LEMMA OnlyLeaves ==
    ASSUME TypeOK, NEW s \in Seq(Timers), Lists(s), NEW t \in Timers, DelOnly(t)
    PROVE  TypeOK' /\ \E k \in 1..Len(s) : s[k] = t /\ Lists(Removed(s, k))'
<1>1. PICK k \in 1..Len(s) :
          s[k] = t /\ (k = 1 <=> t = head) /\ (k = Len(s) <=> t = tail)
  BY PlaceOf DEF DelOnly
<1>2. /\ Len(s) = 1 /\ k = 1
      /\ next \in [Timers -> Pointer] /\ prev \in [Timers -> Pointer]
      /\ NULL \in Pointer
  BY <1>1, Elements DEF DelOnly, TypeOK, Pointer
<1> DEFINE o == Removed(s, k)
<1>3. Len(o) = 0
  <2>1. Len(o) = Len(s) - 1
    BY RemovedFacts
  <2> QED
    BY <1>2, <2>1
<1> HIDE DEF o
<1>4. Chain(o, next', prev') /\ Ends(o, head', tail')
  BY <1>3 DEF Chain, Ends, DelOnly
<1>5. \A u \in Timers : u = s[k] \/ u \notin allocated =>
          next'[u] = NULL /\ prev'[u] = NULL
  BY <1>1, <1>2 DEF DelOnly, Lists
<1>6. Lists(Removed(s, k))'
  BY <1>1, <1>4, <1>5, DeadlineTypes, Leaves DEF DelOnly, o
<1>7. TypeOK'
  BY <1>2, FreeTypes DEF DelOnly, TypeOK
<1> QED
  BY <1>1, <1>6, <1>7

LEMMA HeadLeaves ==
    ASSUME TypeOK, NEW s \in Seq(Timers), Lists(s), NEW t \in Timers, DelHead(t)
    PROVE  TypeOK' /\ \E k \in 1..Len(s) : s[k] = t /\ Lists(Removed(s, k))'
<1>1. /\ Len(s) \in Nat /\ \A i \in 1..Len(s) : s[i] \in Timers /\ s[i] # NULL
      /\ Distinct(s) /\ Chain(s, next, prev)
      /\ \A u \in Timers \ allocated : next[u] = NULL /\ prev[u] = NULL
      /\ next \in [Timers -> Pointer] /\ prev \in [Timers -> Pointer]
      /\ NULL \in Pointer
  BY Elements DEF Lists, TypeOK, Pointer
<1>2. PICK k \in 1..Len(s) :
          /\ s[k] = t /\ (k = 1 <=> t = head) /\ (k = Len(s) <=> t = tail)
          /\ next[t] = IF k = Len(s) THEN NULL ELSE s[k + 1]
          /\ prev[t] = IF k = 1 THEN NULL ELSE s[k - 1]
  BY PlaceOf DEF DelHead
<1>3. /\ k = 1 /\ 1 # Len(s) /\ 2 \in 1..Len(s) /\ next[t] = s[2]
      /\ prev[t] = NULL /\ t = head /\ tail = s[Len(s)]
  BY <1>1, <1>2 DEF DelHead, Lists, Ends
<1>4. \A i, j \in 1..Len(s) : s[i] = s[j] <=> i = j
  BY <1>1 DEF Distinct
<1> DEFINE o == Removed(s, 1)
<1>5. /\ o \in Seq(Timers) /\ Len(o) = Len(s) - 1
      /\ \A i \in 1..(Len(s) - 1) : o[i] = s[i + 1]
  BY <1>2, <1>3, RemovedFacts
<1> HIDE DEF o
<1>6. Len(o) # 0 /\ o[1] = s[2] /\ o[Len(o)] = s[Len(s)]
  BY <1>1, <1>3, <1>5
<1>7. /\ \A u \in Timers : next'[u] = IF u = t THEN NULL ELSE next[u]
      /\ \A u \in Timers :
             prev'[u] = IF u = t \/ u = s[2] THEN NULL ELSE prev[u]
      /\ next' \in [Timers -> Pointer] /\ prev' \in [Timers -> Pointer]
  BY <1>1, <1>3 DEF DelHead
<1>8. Chain(o, next', prev')
  <2>1. ASSUME NEW j \in 1..Len(s), j # 1
        PROVE  /\ next'[s[j]] = IF j = 1 - 1 THEN next[s[1]] ELSE next[s[j]]
               /\ prev'[s[j]] = IF j = 1 + 1 THEN prev[s[1]] ELSE prev[s[j]]
    <3>1. s[j] # t /\ (s[j] = s[2] <=> j = 2) /\ s[j] \in Timers
      BY <1>1, <1>2, <1>3, <1>4, <2>1
    <3> QED
      BY <1>2, <1>3, <1>7, <3>1
  <2> QED
    BY <1>1, <1>2, <1>3, <2>1, RemovedChain DEF o
<1>9. Ends(o, head', tail')
  BY <1>3, <1>6 DEF Ends, DelHead
<1>10. \A u \in Timers : u = t \/ u \notin allocated =>
           next'[u] = NULL /\ prev'[u] = NULL
  BY <1>1, <1>3, <1>7
<1>11. Lists(Removed(s, k))'
  BY <1>2, <1>3, <1>8, <1>9, <1>10, DeadlineTypes, Leaves DEF DelHead, o
<1>12. TypeOK'
  <2>1. head' \in Pointer
    BY <1>1, <1>3 DEF DelHead, Pointer
  <2> QED
    BY <1>7, <2>1, FreeTypes DEF DelHead, TypeOK
<1> QED
  BY <1>2, <1>11, <1>12

LEMMA TailLeaves ==
    ASSUME TypeOK, NEW s \in Seq(Timers), Lists(s), NEW t \in Timers, DelTail(t)
    PROVE  TypeOK' /\ \E k \in 1..Len(s) : s[k] = t /\ Lists(Removed(s, k))'
<1>1. /\ Len(s) \in Nat /\ \A i \in 1..Len(s) : s[i] \in Timers /\ s[i] # NULL
      /\ Distinct(s) /\ Chain(s, next, prev)
      /\ \A u \in Timers \ allocated : next[u] = NULL /\ prev[u] = NULL
      /\ next \in [Timers -> Pointer] /\ prev \in [Timers -> Pointer]
      /\ NULL \in Pointer
  BY Elements DEF Lists, TypeOK, Pointer
<1>2. PICK k \in 1..Len(s) :
          /\ s[k] = t /\ (k = 1 <=> t = head) /\ (k = Len(s) <=> t = tail)
          /\ next[t] = IF k = Len(s) THEN NULL ELSE s[k + 1]
          /\ prev[t] = IF k = 1 THEN NULL ELSE s[k - 1]
  BY PlaceOf DEF DelTail
<1>3. /\ k = Len(s) /\ k # 1 /\ k - 1 \in 1..Len(s) /\ next[t] = NULL
      /\ prev[t] = s[k - 1] /\ t = tail /\ head = s[1]
  BY <1>1, <1>2 DEF DelTail, Lists, Ends
<1>4. \A i, j \in 1..Len(s) : s[i] = s[j] <=> i = j
  BY <1>1 DEF Distinct
<1> DEFINE o == Removed(s, k)
<1>5. /\ o \in Seq(Timers) /\ Len(o) = Len(s) - 1
      /\ \A i \in 1..(Len(s) - 1) : o[i] = s[i]
  <2>1. /\ o \in Seq(Timers) /\ Len(o) = Len(s) - 1
        /\ \A i \in 1..(Len(s) - 1) : o[i] = IF i < k THEN s[i] ELSE s[i + 1]
    BY RemovedFacts
  <2> QED
    BY <1>1, <1>3, <2>1
<1> HIDE DEF o
<1>6. Len(o) # 0 /\ o[1] = s[1] /\ o[Len(o)] = s[k - 1]
  BY <1>1, <1>3, <1>5
<1>7. /\ \A u \in Timers :
             next'[u] = IF u = t \/ u = s[k - 1] THEN NULL ELSE next[u]
      /\ \A u \in Timers : prev'[u] = IF u = t THEN NULL ELSE prev[u]
      /\ next' \in [Timers -> Pointer] /\ prev' \in [Timers -> Pointer]
  BY <1>1, <1>3 DEF DelTail
<1>8. Chain(o, next', prev')
  <2>1. ASSUME NEW j \in 1..Len(s), j # k
        PROVE  /\ next'[s[j]] = IF j = k - 1 THEN next[s[k]] ELSE next[s[j]]
               /\ prev'[s[j]] = IF j = k + 1 THEN prev[s[k]] ELSE prev[s[j]]
    <3>1. /\ s[j] # t /\ (s[j] = s[k - 1] <=> j = k - 1) /\ s[j] \in Timers
          /\ j # k + 1
      BY <1>1, <1>2, <1>3, <1>4, <2>1
    <3> QED
      BY <1>2, <1>3, <1>7, <3>1
  <2> QED
    BY <1>1, <2>1, RemovedChain DEF o
<1>9. Ends(o, head', tail')
  BY <1>3, <1>6 DEF Ends, DelTail
<1>10. \A u \in Timers : u = t \/ u \notin allocated =>
           next'[u] = NULL /\ prev'[u] = NULL
  <2>1. \A u \in Timers : u \notin allocated =>
            next[u] = NULL /\ prev[u] = NULL
    BY <1>1
  <2> QED
    BY <1>7, <2>1
<1>11. Lists(Removed(s, k))'
  BY <1>2, <1>8, <1>9, <1>10, DeadlineTypes, Leaves DEF DelTail, o
<1>12. TypeOK'
  <2>1. tail' \in Pointer
    BY <1>1, <1>3 DEF DelTail, Pointer
  <2> QED
    BY <1>7, <2>1, FreeTypes DEF DelTail, TypeOK
<1> QED
  BY <1>2, <1>11, <1>12

LEMMA InnerLeaves ==
    ASSUME TypeOK, NEW s \in Seq(Timers), Lists(s), NEW t \in Timers, DelInner(t)
    PROVE  TypeOK' /\ \E k \in 1..Len(s) : s[k] = t /\ Lists(Removed(s, k))'
<1>1. /\ Len(s) \in Nat /\ \A i \in 1..Len(s) : s[i] \in Timers /\ s[i] # NULL
      /\ Distinct(s) /\ Chain(s, next, prev)
      /\ \A u \in Timers : u \in allocated <=> Has(s, u)
      /\ \A u \in Timers \ allocated : next[u] = NULL /\ prev[u] = NULL
      /\ next \in [Timers -> Pointer] /\ prev \in [Timers -> Pointer]
      /\ NULL \in Pointer
  BY Elements DEF Lists, TypeOK, Pointer
<1>2. PICK k \in 1..Len(s) :
          /\ s[k] = t /\ k # 1 /\ k # Len(s)
          /\ next[t] = s[k + 1] /\ prev[t] = s[k - 1]
  BY PlaceOf DEF DelInner
<1>3. /\ head = s[1] /\ tail = s[Len(s)] /\ 1 \in 1..Len(s)
      /\ k - 1 \in 1..Len(s) /\ k + 1 \in 1..Len(s)
  BY <1>1, <1>2 DEF Lists, Ends
<1>4. \A i, j \in 1..Len(s) : s[i] = s[j] <=> i = j
  BY <1>1 DEF Distinct
<1> DEFINE o == Removed(s, k)
<1>5. /\ o \in Seq(Timers) /\ Len(o) = Len(s) - 1
      /\ \A i \in 1..(Len(s) - 1) : o[i] = IF i < k THEN s[i] ELSE s[i + 1]
  BY <1>2, RemovedFacts
<1> HIDE DEF o
<1>6. Len(o) # 0 /\ o[1] = s[1] /\ o[Len(o)] = s[Len(s)]
  <2>1. /\ Len(s) - 1 \in 1..(Len(s) - 1) /\ 1 \in 1..(Len(s) - 1)
        /\ ~(Len(s) - 1 < k) /\ 1 < k /\ (Len(s) - 1) + 1 = Len(s)
    BY <1>1, <1>2
  <2> QED
    BY <1>5, <2>1
<1>7. /\ \A u \in Timers :
             next'[u] = IF u = t THEN NULL
                        ELSE IF u = s[k - 1] THEN s[k + 1] ELSE next[u]
      /\ \A u \in Timers :
             prev'[u] = IF u = t THEN NULL
                        ELSE IF u = s[k + 1] THEN s[k - 1] ELSE prev[u]
      /\ next' \in [Timers -> Pointer] /\ prev' \in [Timers -> Pointer]
  BY <1>1, <1>2, <1>3 DEF DelInner, Pointer
<1>8. Chain(o, next', prev')
  <2>1. ASSUME NEW j \in 1..Len(s), j # k
        PROVE  /\ next'[s[j]] = IF j = k - 1 THEN next[s[k]] ELSE next[s[j]]
               /\ prev'[s[j]] = IF j = k + 1 THEN prev[s[k]] ELSE prev[s[j]]
    <3>1. /\ s[j] # t /\ s[j] \in Timers
          /\ (s[j] = s[k - 1] <=> j = k - 1) /\ (s[j] = s[k + 1] <=> j = k + 1)
      BY <1>1, <1>2, <1>3, <1>4, <2>1
    <3> QED
      BY <1>2, <1>7, <3>1
  <2> QED
    BY <1>1, <2>1, RemovedChain DEF o
<1>9. Ends(o, head', tail')
  BY <1>3, <1>6 DEF Ends, DelInner
<1>10. \A u \in Timers : u = t \/ u \notin allocated =>
           next'[u] = NULL /\ prev'[u] = NULL
  <2>1. s[k - 1] \in allocated /\ s[k + 1] \in allocated
    BY <1>1, <1>3 DEF Has
  <2>2. \A u \in Timers : u \notin allocated =>
            next[u] = NULL /\ prev[u] = NULL
    BY <1>1
  <2> QED
    BY <1>7, <2>1, <2>2
<1>11. Lists(Removed(s, k))'
  BY <1>2, <1>8, <1>9, <1>10, DeadlineTypes, Leaves DEF DelInner, o
<1>12. TypeOK'
  BY <1>7, FreeTypes DEF DelInner, TypeOK
<1> QED
  BY <1>2, <1>11, <1>12
-----------------------------------------------------------------------------
(***************************************************************************)
(* Following the links of s gives s.                                       *)
(***************************************************************************)
LEMMA Counted ==
    ASSUME NEW S, IsFiniteSet(S), NEW s \in Seq(Timers), Distinct(s),
           \A u : u \in S <=> Has(s, u)
    PROVE  Cardinality(S) = Len(s)
<1>1. Len(s) \in Nat /\ DOMAIN s = 1..Len(s) /\ s \in [1..Len(s) -> Timers]
  BY LenProperties
<1>2. s \in [1..Len(s) -> S]
  BY <1>1 DEF Has
<1>3. s \in Injection(1..Len(s), S) /\ s \in Surjection(1..Len(s), S)
  BY <1>1, <1>2 DEF Injection, IsInjective, Surjection, Distinct, Has
<1>4. Cardinality(1..Len(s)) = Cardinality(S)
  BY <1>3, FS_Injection
<1> QED
  BY <1>1, <1>4, FS_Interval

(* What is left of s from u on, n elements of it at most.                  *)
From(s, n, u) ==
    LET i == CHOOSE i \in 1..Len(s) : s[i] = u
    IN [j \in 1..(IF n <= Len(s) + 1 - i THEN n ELSE Len(s) + 1 - i) |->
            s[i + j - 1]]

LEMMA FromFacts ==
    ASSUME NEW s \in Seq(Timers), Distinct(s), NEW n \in Nat,
           NEW i \in 1..Len(s)
    PROVE  /\ From(s, n, s[i]) \in Seq(Timers)
           /\ Len(From(s, n, s[i])) =
                  IF n <= Len(s) + 1 - i THEN n ELSE Len(s) + 1 - i
           /\ \A j \in 1..Len(From(s, n, s[i])) :
                  From(s, n, s[i])[j] = s[i + j - 1]
<1> DEFINE m == IF n <= Len(s) + 1 - i THEN n ELSE Len(s) + 1 - i
           f == [j \in 1..m |-> s[i + j - 1]]
<1>1. Len(s) \in Nat /\ \A j \in 1..Len(s) : s[j] \in Timers
  BY Elements
<1>2. (CHOOSE j \in 1..Len(s) : s[j] = s[i]) = i
  BY DEF Distinct
<1>3. From(s, n, s[i]) = f
  BY <1>2 DEF From
<1>4. m \in Nat /\ \A j \in 1..m : i + j - 1 \in 1..Len(s)
  BY <1>1
<1> HIDE DEF m
<1>5. f \in [1..m -> Timers]
  BY <1>1, <1>4
<1>6. f \in Seq(Timers) /\ Len(f) = m
  BY <1>4, <1>5, AsSeq
<1> QED
  BY <1>3, <1>6 DEF m

(* The first of these and what is left from its successor on.              *)
LEMMA FromStep ==
    ASSUME NEW s \in Seq(Timers), Distinct(s), NEW n \in Nat, n # 0,
           NEW i \in 1..Len(s)
    PROVE  From(s, n, s[i]) =
               IF i = Len(s) THEN <<s[i]>>
               ELSE <<s[i]>> \o From(s, n - 1, s[i + 1])
<1> DEFINE t == s[i]
           f == From(s, n, t)
           one == <<t>>
<1>1. Len(s) \in Nat /\ t \in Timers
  BY Elements
<1>2. one \in Seq(Timers) /\ Len(one) = 1 /\ one[1] = t
  BY <1>1
<1>3. /\ f \in Seq(Timers)
      /\ Len(f) = IF n <= Len(s) + 1 - i THEN n ELSE Len(s) + 1 - i
      /\ \A j \in 1..Len(f) : f[j] = s[i + j - 1]
  BY FromFacts
<1> HIDE DEF f, one
<1>4. Len(f) \in Nat /\ Len(f) >= 1 /\ f[1] = t
  BY <1>1, <1>3
<1>5. CASE i = Len(s)
  <2>1. Len(f) = 1
    BY <1>1, <1>3, <1>5
  <2>2. f = one
    BY <1>2, <1>3, <1>4, <2>1, SeqEqual
  <2> QED
    BY <1>5, <2>2 DEF f, one
<1>6. CASE i # Len(s)
  <2> DEFINE g == From(s, n - 1, s[i + 1])
             q == one \o g
  <2>1. n - 1 \in Nat /\ i + 1 \in 1..Len(s)
    BY <1>1, <1>6
  <2>2. /\ g \in Seq(Timers)
        /\ Len(g) = IF n - 1 <= Len(s) + 1 - (i + 1) THEN n - 1
                    ELSE Len(s) + 1 - (i + 1)
        /\ \A j \in 1..Len(g) : g[j] = s[(i + 1) + j - 1]
    BY <2>1, FromFacts
  <2> HIDE DEF g
  <2>3. /\ q \in Seq(Timers) /\ Len(q) = Len(one) + Len(g)
        /\ \A j \in 1..Len(one) : q[j] = one[j]
        /\ \A j \in 1..Len(g) : q[Len(one) + j] = g[j]
    <3>1. one \in Seq(Timers) /\ g \in Seq(Timers)
      BY <1>2, <2>2
    <3> QED
      BY <3>1, Parts
  <2> HIDE DEF q
  <2>4. Len(q) = Len(f)
    BY <1>1, <1>2, <1>3, <2>2, <2>3
  <2>5. ASSUME NEW j \in 1..Len(f) PROVE q[j] = f[j]
    <3>1. CASE j = 1
      BY <1>2, <1>4, <2>3, <3>1
    <3>2. CASE j # 1
      <4>1. /\ j - 1 \in 1..Len(g) /\ 1 + (j - 1) = j
            /\ (i + 1) + (j - 1) - 1 = i + j - 1
        BY <1>1, <1>2, <1>4, <2>2, <2>3, <2>4, <3>2
      <4>2. q[1 + (j - 1)] = g[j - 1] /\ g[j - 1] = s[(i + 1) + (j - 1) - 1]
        BY <1>2, <2>2, <2>3, <4>1
      <4> QED
        BY <1>3, <4>1, <4>2
    <3> QED
      BY <3>1, <3>2
  <2>6. q = f
    BY <1>3, <2>3, <2>4, <2>5, SeqEqual
  <2> QED
    BY <1>6, <2>6 DEF f, one, g, q
<1> QED
  BY <1>5, <1>6

LEMMA AlongChain ==
    ASSUME NEW s \in Seq(Timers), Distinct(s), NEW link \in [Timers -> Pointer],
           \A i \in 1..Len(s) :
               link[s[i]] = IF i = Len(s) THEN NULL ELSE s[i + 1],
           \A u \in Timers : ~Has(s, u) => link[u] = NULL,
           NEW p, p = IF Len(s) = 0 THEN NULL ELSE s[1],
           Len(s) <= Cardinality(Timers)
    PROVE  Along(p, link) = s
<1> DEFINE N == Cardinality(Timers)
           Body(n, rest) ==
               [u \in Pointer |-> IF n = 0 \/ u = NULL THEN <<>>
                                  ELSE <<u>> \o rest[link[u]]]
           Loop(f) == [n \in 0..N |-> Body(n, f[n - 1])]
           steps == CHOOSE f : f = Loop(f)
           Rest(n) == [u \in Pointer |-> IF n = 0 \/ u = NULL THEN <<>>
                                         ELSE IF Has(s, u) THEN From(s, n, u)
                                         ELSE <<u>>]
           F == [n \in 0..N |-> Rest(n)]
<1>1. N \in Nat
  BY TimerAssumption, FS_CardinalityType
<1>2. Along(p, link) = steps[N][p]
  BY DEF Along
<1> HIDE DEF N
<1>3. Len(s) \in Nat /\ \A i \in 1..Len(s) : s[i] \in Timers /\ s[i] # NULL
  BY Elements
<1>4. ASSUME NEW n \in 0..N, n # 0 PROVE Rest(n) = Body(n, Rest(n - 1))
  <2> SUFFICES ASSUME NEW u \in Timers
               PROVE  (IF Has(s, u) THEN From(s, n, u) ELSE <<u>>) =
                          <<u>> \o Rest(n - 1)[link[u]]
    BY <1>4, TimerAssumption DEF Pointer
  <2>1. n \in Nat /\ n - 1 \in Nat
    BY <1>1, <1>4
  <2>2. <<u>> \o <<>> = <<u>>
    OBVIOUS
  <2>3. Rest(n - 1)[NULL] = <<>>
    BY DEF Pointer
  <2>4. CASE ~Has(s, u)
    BY <2>2, <2>3, <2>4
  <2>5. CASE Has(s, u)
    <3>1. PICK i \in 1..Len(s) : s[i] = u
      BY <2>5 DEF Has
    <3>2. CASE i = Len(s)
      <4>1. link[u] = NULL /\ From(s, n, u) = <<u>>
        BY <1>4, <2>1, <3>1, <3>2, FromStep
      <4> QED
        BY <2>2, <2>3, <2>5, <4>1
    <3>3. CASE i # Len(s)
      <4>1. i + 1 \in 1..Len(s) /\ link[u] = s[i + 1]
        BY <1>3, <3>1, <3>3
      <4>2. From(s, n, u) = <<u>> \o From(s, n - 1, s[i + 1])
        BY <1>4, <2>1, <3>1, <3>3, FromStep
      <4>3. Rest(n - 1)[s[i + 1]] = From(s, n - 1, s[i + 1])
        <5>1. s[i + 1] \in Pointer /\ s[i + 1] # NULL /\ Has(s, s[i + 1])
          BY <1>3, <4>1 DEF Pointer, Has
        <5>2. n - 1 = 0 => From(s, n - 1, s[i + 1]) = <<>>
          <6>1. From(s, n - 1, s[i + 1]) \in Seq(Timers)
                /\ Len(From(s, n - 1, s[i + 1])) =
                       IF n - 1 <= Len(s) + 1 - (i + 1) THEN n - 1
                       ELSE Len(s) + 1 - (i + 1)
            BY <2>1, <4>1, FromFacts
          <6>2. n - 1 = 0 => Len(From(s, n - 1, s[i + 1])) = 0
            BY <1>3, <4>1, <6>1
          <6> QED
            BY <6>1, <6>2, EmptySeq
        <5> QED
          BY <5>1, <5>2
      <4> QED
        BY <2>5, <4>1, <4>2, <4>3
    <3> QED
      BY <3>2, <3>3
  <2> QED
    BY <2>4, <2>5
<1>5. Rest(0) = Body(0, F[0 - 1])
  OBVIOUS
<1> HIDE DEF Rest, Body
<1>6. F = Loop(F)
  <2> SUFFICES ASSUME NEW n \in 0..N PROVE Rest(n) = Body(n, F[n - 1])
    OBVIOUS
  <2>1. CASE n = 0
    BY <1>5, <2>1
  <2>2. CASE n # 0
    <3>1. n - 1 \in 0..N
      BY <1>1, <2>2
    <3> QED
      BY <1>4, <2>2, <3>1
  <2> QED
    BY <2>1, <2>2
<1>7. steps = Loop(steps)
  BY <1>6, Zenon
<1> HIDE DEF steps
<1>8. \A n \in 0..N : steps[n] = Body(n, steps[n - 1])
  BY <1>7
<1>9. Body(0, steps[0 - 1]) = Rest(0)
  BY DEF Body, Rest
<1> DEFINE Bad == {n \in 0..N : steps[n] # Rest(n)}
<1>10. Bad = {}
  <2> SUFFICES ASSUME Bad # {} PROVE FALSE
    OBVIOUS
  <2>1. Bad \in SUBSET Nat
    BY <1>1
  <2>2. PICK n \in Bad : \A m \in Bad : n <= m
    BY <2>1, LeastExists
  <2>3. n \in 0..N /\ steps[n] # Rest(n)
    BY <2>2
  <2>4. CASE n = 0
    BY <1>8, <1>9, <2>3, <2>4
  <2>5. CASE n # 0
    <3>1. n - 1 \in 0..N /\ ~(n <= n - 1)
      BY <1>1, <2>3, <2>5
    <3>2. steps[n - 1] = Rest(n - 1)
      BY <2>2, <3>1
    <3> QED
      BY <1>4, <1>8, <2>3, <2>5, <3>2
  <2> QED
    BY <2>4, <2>5
<1>11. Along(p, link) = Rest(N)[p]
  <2>1. N \in 0..N
    BY <1>1
  <2>2. steps[N] = Rest(N)
    BY <1>10, <2>1
  <2> QED
    BY <1>2, <2>2 DEF N
<1>12. CASE Len(s) = 0
  <2>1. s = <<>> /\ p = NULL
    BY <1>12, EmptySeq
  <2> QED
    BY <1>11, <2>1 DEF Rest, Pointer
<1>13. CASE Len(s) # 0
  <2>1. 1 \in 1..Len(s) /\ p = s[1] /\ N # 0 /\ Len(s) <= N
    BY <1>1, <1>3, <1>13 DEF N
  <2>2. Along(p, link) = From(s, N, s[1])
    BY <1>3, <1>11, <2>1 DEF Rest, Pointer, Has
  <2> DEFINE f == From(s, N, s[1])
  <2>3. /\ f \in Seq(Timers)
        /\ Len(f) = IF N <= Len(s) + 1 - 1 THEN N ELSE Len(s) + 1 - 1
        /\ \A j \in 1..Len(f) : f[j] = s[1 + j - 1]
    BY <1>1, <2>1, FromFacts
  <2> HIDE DEF f
  <2>4. Len(f) = Len(s)
    BY <1>1, <1>3, <2>1, <2>3
  <2>5. \A j \in 1..Len(f) : f[j] = s[j]
    BY <1>3, <2>3, <2>4
  <2>6. f = s
    BY <2>3, <2>4, <2>5, SeqEqual
  <2> QED
    BY <2>2, <2>6 DEF f
<1> QED
  BY <1>12, <1>13

LEMMA LenBounded ==
    ASSUME NEW s \in Seq(Timers), Distinct(s)
    PROVE  Len(s) <= Cardinality(Timers)
<1>1. Len(s) \in Nat /\ DOMAIN s = 1..Len(s) /\ s \in [1..Len(s) -> Timers]
  BY LenProperties
<1>2. s \in Injection(1..Len(s), Timers)
  BY <1>1 DEF Injection, IsInjective, Distinct
<1>3. Cardinality(1..Len(s)) <= Cardinality(Timers)
  BY <1>2, FS_Injection, TimerAssumption
<1>4. Cardinality(1..Len(s)) = Len(s)
  BY <1>1, FS_Interval
<1> QED
  BY <1>3, <1>4

LEMMA ForwardIs ==
    ASSUME TypeOK, NEW s \in Seq(Timers), Lists(s)
    PROVE  Forward = s
<1>1. next \in [Timers -> Pointer] /\ Distinct(s)
  BY DEF TypeOK, Lists
<1>2. /\ \A i \in 1..Len(s) :
             next[s[i]] = IF i = Len(s) THEN NULL ELSE s[i + 1]
      /\ \A u \in Timers : ~Has(s, u) => next[u] = NULL
      /\ head = IF Len(s) = 0 THEN NULL ELSE s[1]
  BY DEF Lists, Chain, Ends
<1> QED
  BY <1>1, <1>2, LenBounded, AlongChain DEF Forward

LEMMA ForwardNext ==
    ASSUME TypeOK', NEW s \in Seq(Timers), Lists(s)'
    PROVE  Forward' = s
<1>1. next' \in [Timers -> Pointer] /\ Distinct(s)
  BY DEF TypeOK, Lists, Pointer
<1>2. /\ \A i \in 1..Len(s) :
             next'[s[i]] = IF i = Len(s) THEN NULL ELSE s[i + 1]
      /\ \A u \in Timers : ~Has(s, u) => next'[u] = NULL
      /\ head' = IF Len(s) = 0 THEN NULL ELSE s[1]
  BY DEF Lists, Chain, Ends
<1> QED
  BY <1>1, <1>2, LenBounded, AlongChain DEF Forward

(* Along prev_ the same timers come in the opposite order.                 *)
LEMMA BackwardIs ==
    ASSUME TypeOK, NEW s \in Seq(Timers), Lists(s)
    PROVE  /\ Len(Backward) = Len(s)
           /\ \A i \in 1..Len(s) : Backward[i] = s[Len(s) + 1 - i]
<1> DEFINE b == [i \in 1..Len(s) |-> s[Len(s) + 1 - i]]
<1>1. /\ Len(s) \in Nat /\ \A i \in 1..Len(s) : s[i] \in Timers
      /\ prev \in [Timers -> Pointer] /\ Distinct(s)
  BY Elements DEF TypeOK, Lists
<1>2. b \in [1..Len(s) -> Timers]
  BY <1>1
<1>3. b \in Seq(Timers) /\ Len(b) = Len(s)
  BY <1>1, <1>2, AsSeq
<1>4. \A i \in 1..Len(s) : b[i] = s[Len(s) + 1 - i] /\ Len(s) + 1 - i \in 1..Len(s)
  BY <1>1
<1> HIDE DEF b
<1>5. Distinct(b)
  <2> SUFFICES ASSUME NEW i \in 1..Len(s), NEW j \in 1..Len(s), b[i] = b[j]
               PROVE  i = j
    BY <1>3 DEF Distinct
  <2>1. Len(s) + 1 - i = Len(s) + 1 - j
    BY <1>1, <1>4 DEF Distinct
  <2> QED
    BY <1>1, <2>1
<1>6. \A u : Has(b, u) <=> Has(s, u)
  <2>1. ASSUME NEW u, Has(b, u) PROVE Has(s, u)
    BY <1>3, <1>4, <2>1 DEF Has
  <2>2. ASSUME NEW u, Has(s, u) PROVE Has(b, u)
    <3>1. PICK i \in 1..Len(s) : s[i] = u
      BY <2>2 DEF Has
    <3>2. Len(s) + 1 - i \in 1..Len(s) /\ Len(s) + 1 - (Len(s) + 1 - i) = i
      BY <1>1
    <3>3. b[Len(s) + 1 - i] = u
      BY <1>4, <3>1, <3>2
    <3> QED
      BY <1>3, <3>2, <3>3 DEF Has
  <2> QED
    BY <2>1, <2>2
<1>7. ASSUME NEW i \in 1..Len(b)
      PROVE  prev[b[i]] = IF i = Len(b) THEN NULL ELSE b[i + 1]
  <2>1. /\ Len(s) + 1 - i \in 1..Len(s) /\ b[i] = s[Len(s) + 1 - i]
        /\ i \in 1..Len(s)
    BY <1>3, <1>4
  <2>2. prev[b[i]] = IF Len(s) + 1 - i = 1 THEN NULL
                     ELSE s[(Len(s) + 1 - i) - 1]
    BY <2>1 DEF Lists, Chain
  <2>3. CASE i = Len(s)
    BY <1>1, <1>3, <2>2, <2>3
  <2>4. CASE i # Len(s)
    <3>1. /\ i + 1 \in 1..Len(s) /\ Len(s) + 1 - i # 1
          /\ (Len(s) + 1 - i) - 1 = Len(s) + 1 - (i + 1)
      BY <1>1, <2>1, <2>4
    <3>2. b[i + 1] = s[Len(s) + 1 - (i + 1)]
      BY <1>4, <3>1
    <3> QED
      BY <1>3, <2>2, <2>4, <3>1, <3>2
  <2> QED
    BY <2>3, <2>4
<1>8. \A u \in Timers : ~Has(b, u) => prev[u] = NULL
  BY <1>6 DEF Lists
<1>9. tail = IF Len(b) = 0 THEN NULL ELSE b[1]
  <2>1. CASE Len(s) = 0
    BY <1>3, <2>1 DEF Lists, Ends
  <2>2. CASE Len(s) # 0
    <3>1. 1 \in 1..Len(s) /\ Len(s) + 1 - 1 = Len(s)
      BY <1>1, <2>2
    <3> QED
      BY <1>3, <1>4, <2>2, <3>1 DEF Lists, Ends
  <2> QED
    BY <2>1, <2>2
<1>10. Backward = b
  BY <1>1, <1>3, <1>5, <1>7, <1>8, <1>9, LenBounded, AlongChain DEF Backward
<1> QED
  BY <1>3, <1>4, <1>10
-----------------------------------------------------------------------------
(***************************************************************************)
(* The steps are those of TimerQueue.                                      *)
(***************************************************************************)
LEMMA InListIs ==
    ASSUME TypeOK, NEW s \in Seq(Timers), Lists(s), NEW t
    PROVE  TQ!InList(t) <=> Has(s, t)
<1>1. Forward = s /\ DOMAIN s = 1..Len(s)
  BY ForwardIs, LenProperties
<1> QED
  BY <1>1 DEF TQ!InList, Has

LEMMA PlacedImplements ==
    ASSUME TypeOK', NEW s \in Seq(Timers), NEW t \in Timers, NEW e,
           Placed(s, t, e)
    PROVE  IInv' /\ TQ!Place(t, e, s)
<1>1. PICK k \in 1..(Len(s) + 1) :
          Belongs(s, k, e, expire) /\ Lists(Inserted(s, k, t))'
  BY DEF Placed
<1>2. Inserted(s, k, t) \in Seq(Timers)
  BY ONLY InsertedFacts, s \in Seq(Timers), t \in Timers, k \in 1..(Len(s) + 1)
<1>3. Forward' = Inserted(s, k, t)
  BY <1>1, <1>2, ForwardNext
<1>4. Forward' = TQ!InsertAt(s, k, t)
  BY <1>3, InsertedIsInsertAt
<1>5. TQ!Place(t, e, s)
  BY <1>1, <1>4 DEF TQ!Place, Belongs
<1>6. IInv'
  BY <1>1, <1>2 DEF IInv
<1> QED
  BY <1>5, <1>6

LEMMA AddImplements ==
    ASSUME TypeOK, NEW s \in Seq(Timers), Lists(s),
           NEW t \in Timers, NEW e \in Deadlines, AddTimer(t, e)
    PROVE  IInv' /\ TQ!Add(t, e)
<1>1. TypeOK' /\ ~Has(s, t) /\ Placed(s, t, e)
  BY FirstMakes, InFrontMakes, FurtherMakes DEF AddTimer
<1>2. expire' = [expire EXCEPT ![t] = e]
  BY DEF AddTimer, AddFirst, AddInFront, AddFurther
<1>3. Forward = s /\ ~TQ!InList(t)
  BY <1>1, ForwardIs, InListIs
<1>4. IInv' /\ TQ!Place(t, e, Forward)
  BY <1>1, <1>3, PlacedImplements
<1> QED
  BY <1>2, <1>3, <1>4 DEF TQ!Add

LEMMA AdjustImplements ==
    ASSUME TypeOK, NEW s \in Seq(Timers), Lists(s),
           NEW t \in Timers, NEW e \in Deadlines, AdjustTimer(t, e)
    PROVE  IInv' /\ TQ!Adjust(t, e)
<1>1. TypeOK' /\ \E k \in 1..Len(s) : s[k] = t /\ Placed(Removed(s, k), t, e)
  BY StaysMakes, HeadMakes, InnerMakes DEF AdjustTimer
<1>2. expire' = [expire EXCEPT ![t] = e] /\ e >= expire[t]
  BY DEF AdjustTimer, AdjustStays, AdjustHead, AdjustInner
<1>3. PICK k \in 1..Len(s) : s[k] = t /\ Placed(Removed(s, k), t, e)
  BY <1>1
<1>4. Removed(s, k) \in Seq(Timers)
  BY RemovedFacts
<1>5. IInv' /\ TQ!Place(t, e, Removed(s, k))
  BY <1>1, <1>3, <1>4, PlacedImplements
<1>6. Forward = s /\ k \in DOMAIN s /\ TQ!RemoveAt(s, k) = Removed(s, k)
  BY ForwardIs, LenProperties, RemovedIsRemoveAt
<1> QED
  BY <1>2, <1>3, <1>5, <1>6 DEF TQ!Adjust

LEMMA DelImplements ==
    ASSUME TypeOK, NEW s \in Seq(Timers), Lists(s),
           NEW t \in Timers, DelTimer(t)
    PROVE  IInv' /\ TQ!Delete(t)
<1>1. TypeOK' /\ \E k \in 1..Len(s) : s[k] = t /\ Lists(Removed(s, k))'
  BY OnlyLeaves, HeadLeaves, TailLeaves, InnerLeaves DEF DelTimer
<1>2. expire' = [expire EXCEPT ![t] = 0]
  BY DEF DelTimer, DelOnly, DelHead, DelTail, DelInner, Free
<1>3. PICK k \in 1..Len(s) : s[k] = t /\ Lists(Removed(s, k))'
  BY <1>1
<1>4. Removed(s, k) \in Seq(Timers)
  BY RemovedFacts
<1>5. Forward' = Removed(s, k)
  BY <1>1, <1>3, <1>4, ForwardNext
<1>6. Forward = s /\ k \in DOMAIN s /\ TQ!RemoveAt(s, k) = Removed(s, k)
  BY ForwardIs, LenProperties, RemovedIsRemoveAt
<1>7. IInv'
  BY <1>1, <1>3, <1>4 DEF IInv
<1> QED
  BY <1>2, <1>3, <1>5, <1>6, <1>7 DEF TQ!Delete
-----------------------------------------------------------------------------
(***************************************************************************)
(* The theorems.                                                           *)
(***************************************************************************)

(* The list of some sequence of timers: it holds of the empty list, and    *)
(* every operation makes it the list of another sequence.                  *)
THEOREM ListInductive == (Init => IInv) /\ (IInv /\ [Next]_vars => IInv')
<1>1. ASSUME Init PROVE IInv
  <2>1. TypeOK
    BY <1>1, TimerAssumption DEF Init, TypeOK, Pointer
  <2>2. << >> \in Seq(Timers) /\ Len(<< >>) = 0
    OBVIOUS
  <2> DEFINE empty == << >>
  <2> HIDE DEF empty
  <2>3. empty \in Seq(Timers) /\ Len(empty) = 0
    BY <2>2 DEF empty
  <2>4. Lists(empty)
    BY <1>1, <2>3 DEF Init, Lists, Distinct, Has, Ends, Chain, Ascending
  <2> QED
    BY <2>1, <2>3, <2>4 DEF IInv
<1>2. ASSUME IInv, Next PROVE IInv'
  <2>1. TypeOK /\ \E s \in Seq(Timers) : Lists(s)
    BY <1>2 DEF IInv
  <2>2. PICK s \in Seq(Timers) : Lists(s)
    BY <2>1
  <2> QED
    BY <1>2, <2>1, <2>2, AddImplements, AdjustImplements, DelImplements DEF Next
<1>3. ASSUME IInv, UNCHANGED vars PROVE IInv'
  BY <1>3 DEF IInv, TypeOK, Lists, Ends, Chain, Ascending, vars
<1> QED
  BY <1>1, <1>2, <1>3

(* It holds of the list after any sequence of operations.                  *)
THEOREM ListInv == Spec => []IInv
BY ListInductive, PTL DEF Spec

(* Every variable has its type.                                            *)
THEOREM TypeCorrect == Spec => []TypeOK
<1>1. IInv => TypeOK
  BY DEF IInv
<1> QED
  BY <1>1, ListInv, PTL

(* No pointer of the list, and neither end, leads to freed memory.         *)
THEOREM Undangling == Spec => []NothingDangles
<1>1. ASSUME IInv PROVE NothingDangles
  <2>1. PICK s \in Seq(Timers) : Lists(s)
    BY <1>1 DEF IInv
  <2>2. /\ Len(s) \in Nat /\ \A i \in 1..Len(s) : s[i] \in Timers /\ s[i] # NULL
        /\ allocated \subseteq Timers
    BY <1>1, Elements DEF IInv, TypeOK
  <2>3. \A i \in 1..Len(s) : s[i] \in allocated
    BY <2>1, <2>2 DEF Lists, Has
  <2>4. \A t \in allocated : {next[t], prev[t]} \subseteq allocated \cup {NULL}
    <3> SUFFICES ASSUME NEW t \in allocated
                 PROVE  /\ next[t] \in allocated \cup {NULL}
                        /\ prev[t] \in allocated \cup {NULL}
      OBVIOUS
    <3>1. PICK k \in 1..Len(s) : s[k] = t
      BY <2>1, <2>2 DEF Lists, Has
    <3>2. /\ next[t] = IF k = Len(s) THEN NULL ELSE s[k + 1]
          /\ prev[t] = IF k = 1 THEN NULL ELSE s[k - 1]
      BY <2>1, <3>1 DEF Lists, Chain
    <3>3. (k # Len(s) => k + 1 \in 1..Len(s)) /\ (k # 1 => k - 1 \in 1..Len(s))
      BY <2>2
    <3> QED
      BY <2>3, <3>2, <3>3
  <2>5. CASE Len(s) = 0
    BY <2>1, <2>4, <2>5 DEF Lists, Ends, NothingDangles
  <2>6. CASE Len(s) # 0
    <3>1. 1 \in 1..Len(s) /\ Len(s) \in 1..Len(s)
      BY <2>2, <2>6
    <3>2. /\ head = s[1] /\ tail = s[Len(s)]
          /\ prev[s[1]] = NULL /\ next[s[Len(s)]] = NULL
      BY <2>1, <2>6, <3>1 DEF Lists, Ends, Chain
    <3> QED
      BY <2>3, <2>4, <3>1, <3>2 DEF NothingDangles
  <2> QED
    BY <2>5, <2>6
<1> QED
  BY <1>1, ListInv, PTL

(* A timer never expires later than the next one of the list.              *)
THEOREM StaysSorted == Spec => []Sorted
<1>1. ASSUME IInv PROVE Sorted
  <2>1. PICK s \in Seq(Timers) : Lists(s)
    BY <1>1 DEF IInv
  <2> SUFFICES ASSUME NEW t \in allocated, next[t] # NULL
               PROVE  expire[t] <= expire[next[t]]
    BY DEF Sorted
  <2>2. Len(s) \in Nat /\ t \in Timers
    BY <1>1, Elements DEF IInv, TypeOK
  <2>3. PICK k \in 1..Len(s) : s[k] = t
    BY <2>1, <2>2 DEF Lists, Has
  <2>4. next[t] = s[k + 1] /\ k + 1 \in 1..Len(s) /\ k <= k + 1
    BY <2>1, <2>2, <2>3 DEF Lists, Chain
  <2> QED
    BY <2>1, <2>3, <2>4 DEF Lists, Ascending
<1> QED
  BY <1>1, ListInv, PTL

(* From both ends the list is the timers in use, each of them once, in     *)
(* opposite orders.                                                        *)
THEOREM StaysLinked == Spec => []WellLinked
<1>1. ASSUME IInv PROVE WellLinked
  <2>1. PICK s \in Seq(Timers) : Lists(s)
    BY <1>1 DEF IInv
  <2>2. /\ Forward = s /\ DOMAIN s = 1..Len(s) /\ Len(Backward) = Len(s)
        /\ \A i \in 1..Len(s) : Backward[i] = s[Len(s) + 1 - i]
    BY <1>1, <2>1, ForwardIs, BackwardIs, LenProperties DEF IInv
  <2>3. Len(s) \in Nat /\ allocated \subseteq Timers /\ IsFiniteSet(allocated)
    BY <1>1, Elements, TimerAssumption, FS_Subset DEF IInv, TypeOK
  <2>4. \A u : u \in allocated <=> Has(s, u)
    <3>1. \A u : Has(s, u) => u \in Timers
      BY Elements DEF Has
    <3> QED
      BY <2>1, <2>3, <3>1 DEF Lists
  <2>5. Len(s) = Cardinality(allocated)
    BY <2>1, <2>3, <2>4, Counted DEF Lists
  <2>6. {s[i] : i \in DOMAIN s} = allocated
    BY <2>2, <2>4 DEF Has
  <2>7. \A i \in 1..Len(s) : s[i] = Backward[Len(s) + 1 - i]
    <3> SUFFICES ASSUME NEW i \in 1..Len(s)
                 PROVE  s[i] = Backward[Len(s) + 1 - i]
      OBVIOUS
    <3>1. Len(s) + 1 - i \in 1..Len(s) /\ Len(s) + 1 - (Len(s) + 1 - i) = i
      BY <2>3
    <3> QED
      BY <2>2, <3>1
  <2> QED
    BY <2>2, <2>5, <2>6, <2>7 DEF WellLinked
<1> QED
  BY <1>1, ListInv, PTL

(* Every operation does to the list, read along next_, what the abstract   *)
(* queue of timers does to its sequence: the refinement, step by step.     *)
THEOREM ListImplementsTimerQueue == Spec => ImplementsTimerQueue
<1>1. ASSUME Init PROVE TQ!Init
  <2>1. IInv /\ TypeOK
    BY <1>1, ListInductive DEF IInv
  <2>2. PICK s \in Seq(Timers) : Lists(s)
    BY <2>1 DEF IInv
  <2>3. Len(s) = 0
    BY <1>1, <2>2, Elements DEF Init, Lists, Ends
  <2>4. Forward = << >>
    BY <2>1, <2>2, <2>3, ForwardIs, EmptySeq
  <2> QED
    BY <1>1, <2>4 DEF Init, TQ!Init
<1>2. ASSUME IInv, [Next]_vars PROVE [TQ!Next]_TQ!vars
  <2>1. PICK s \in Seq(Timers) : Lists(s)
    BY <1>2 DEF IInv
  <2>2. TypeOK
    BY <1>2 DEF IInv
  <2>3. CASE Next
    <3>1. TQ!Next
      BY <2>1, <2>2, <2>3, AddImplements, AdjustImplements, DelImplements
         DEF Next, TQ!Next
    <3> QED
      BY <3>1
  <2>4. CASE UNCHANGED vars
    BY <2>4 DEF vars, TQ!vars, Forward, Along
  <2> QED
    BY <1>2, <2>3, <2>4
<1>3. IInv /\ [Next]_vars => [TQ!Next]_TQ!vars
  BY <1>2
<1> QED
  BY <1>1, <1>3, ListInv, PTL DEF Spec, ImplementsTimerQueue, TQ!Spec
=============================================================================
