--------------------------- MODULE EchoOrderProofs ----------------------------
(***************************************************************************)
(* Proofs about EchoServer, continued: a client whose messages are read    *)
(* whole reads its own echoes, each once and in order, and misses none     *)
(* before it reads one in two parts.                                       *)
(***************************************************************************)
EXTENDS EchoServerProofs

(***************************************************************************)
(* The order of the echoes: what c has read, what is on its way to c, the  *)
(* echo that is due and what is on its way to the server, one after the    *)
(* other, are messages of c in the order in which it sent them.            *)
(***************************************************************************)
DueEcho(c) == IF tpc[c] = "write" THEN Echo(recvBuf[c]) ELSE <<>>
Echoes(c) == got[c] \o toClient[c]
Stream(c) == Echoes(c) \o (DueEcho(c) \o toServer[c])

Whole(s) == Len(s) % 2 = 0

Ordered(s, c, m) ==
    /\ Whole(s)
    /\ InOrder(s, c)
    /\ \A i \in DOMAIN s : s[i].no <= m

Orderly(c) ==
    c \notin cut => /\ Whole(Echoes(c))
                    /\ Ordered(Stream(c), c, sent[c])

(* Until c reads an echo in two parts it has at most one message under     *)
(* way, so no read of its thread returns two, of which one is dropped.     *)
Numbered(s) == \A i \in DOMAIN s : s[i].no = (i + 1) \div 2

Complete(c) ==
    c \notin cut \cup halved =>
        /\ Numbered(Stream(c))
        /\ Whole(got[c])
        /\ Len(Stream(c)) <= Len(got[c]) + 2
        /\ ~Gone(c) => Len(Stream(c)) = 2 * sent[c]
        /\ cpc[c] \in {"start", "send"} => Len(Stream(c)) = Len(got[c])

OrderInv == \A c \in Clients : Orderly(c) /\ Complete(c)

-----------------------------------------------------------------------------
(***************************************************************************)
(* Sequences of pieces.                                                    *)
(***************************************************************************)
LEMMA Evens ==
    ASSUME NEW a \in Nat, NEW b \in Nat, a % 2 = 0
    PROVE  /\ b % 2 = 0 => (a + b) % 2 = 0
           /\ (a + b) % 2 = 0 => b % 2 = 0
           /\ (a + b) % 2 = b % 2
OBVIOUS

LEMMA Two ==
    2 % 2 = 0 /\ \A i \in Nat : i - 2 \in Nat /\ i % 2 = 0 => (i - 2) % 2 = 0
OBVIOUS

(* Nothing that comes first is out of order.                               *)
LEMMA OrderFront ==
    ASSUME NEW S, NEW s \in Seq(S), NEW t \in Seq(S), NEW c,
           InOrder(s \o t, c)
    PROVE  InOrder(s, c)
<1> DEFINE r == s \o t
<1>1. /\ Len(s) \in Nat /\ Len(t) \in Nat
      /\ DOMAIN s = 1..Len(s) /\ DOMAIN r = 1..(Len(s) + Len(t))
      /\ \A i \in 1..Len(s) : r[i] = s[i]
  BY Parts
<1> HIDE DEF r
<1>2. InOrder(r, c)
  BY DEF r
<1>3. 1..Len(s) \subseteq 1..(Len(s) + Len(t))
  BY <1>1
<1> QED
  BY <1>1, <1>2, <1>3 DEF InOrder

(* Where what is behind b in abd is in ad: A, B and D are their lengths.   *)
Behind(A, B, i) == IF i <= A THEN i ELSE i + B

LEMMA BehindAscends ==
    ASSUME NEW A \in Nat, NEW B \in Nat, NEW D \in Nat,
           A % 2 = 0, B % 2 = 0,
           NEW i \in 1..(A + D), NEW j \in 1..(A + D), i < j
    PROVE  /\ Behind(A, B, i) < Behind(A, B, j)
           /\ Behind(A, B, i) % 2 = 1
              /\ Behind(A, B, j) = Behind(A, B, i) + 1 =>
                  i % 2 = 1 /\ j = i + 1
<1>1. Behind(A, B, i) < Behind(A, B, j)
  BY DEF Behind
<1>2. ASSUME Behind(A, B, i) % 2 = 1, Behind(A, B, j) = Behind(A, B, i) + 1
      PROVE  i % 2 = 1 /\ j = i + 1
  <2>1. i % 2 = 1
    BY <1>2, Evens DEF Behind
  <2>2. i # A
    BY <2>1
  <2>3. j = i + 1
    BY <1>2, <2>2 DEF Behind
  <2> QED
    BY <2>1, <2>3
<1> QED
  BY <1>1, <1>2

(* Whole messages may be missing in the middle.                            *)
LEMMA OrderDrop ==
    ASSUME NEW S, NEW a \in Seq(S), NEW b \in Seq(S), NEW d \in Seq(S),
           NEW c, NEW m,
           Whole(a), Whole(b), Ordered(a \o (b \o d), c, m)
    PROVE  Ordered(a \o d, c, m)
<1> DEFINE e == b \o d
           r == a \o e
           q == a \o d
           A == Len(a)
           B == Len(b)
           D == Len(d)
           f(i) == Behind(A, B, i)
<1>1. /\ e \in Seq(S) /\ Len(e) = B + D
      /\ A \in Nat /\ B \in Nat /\ D \in Nat
      /\ \A i \in 1..D : e[B + i] = d[i]
  <2>1. A \in Nat
    BY LenProperties
  <2> QED
    BY <2>1, Parts
<1>2. Ordered(r, c, m) /\ A % 2 = 0 /\ B % 2 = 0
  BY DEF Whole
<1>3. /\ Len(q) = A + D /\ DOMAIN q = 1..(A + D)
      /\ \A i \in 1..A : q[i] = a[i]
      /\ \A i \in 1..D : q[A + i] = d[i]
  BY Parts
<1> HIDE DEF e
<1>4. /\ Len(r) = A + Len(e) /\ DOMAIN r = 1..(A + Len(e))
      /\ \A i \in 1..A : r[i] = a[i]
      /\ \A i \in 1..Len(e) : r[A + i] = e[i]
  <2>1. e \in Seq(S)
    BY <1>1
  <2> QED
    BY <2>1, Parts
<1> HIDE DEF r, q, A, B, D
<1>5. ASSUME NEW i \in DOMAIN q
      PROVE  /\ i \in 1..(A + D) /\ f(i) \in DOMAIN r
             /\ q[i] = r[f(i)] /\ f(i) % 2 = i % 2
  <2>1. i \in 1..(A + D)
    BY <1>3
  <2>2. /\ f(i) \in 1..(A + (B + D)) /\ f(i) % 2 = i % 2
        /\ i <= A => i \in 1..A /\ f(i) = i
        /\ i > A => /\ i - A \in 1..D /\ i = A + (i - A)
                    /\ B + (i - A) \in 1..(B + D)
                    /\ f(i) = A + (B + (i - A))
    <3>1. A \in Nat /\ B \in Nat /\ D \in Nat
      BY <1>1
    <3>2. B % 2 = 0
      BY <1>2
    <3>3. i - A \in Int /\ i + B = A + (B + (i - A))
      BY <3>1, <2>1
    <3>4. f(i) % 2 = i % 2
      BY <3>1, <3>2, <2>1, Evens DEF Behind
    <3>5. /\ f(i) \in 1..(A + (B + D))
          /\ i <= A => i \in 1..A /\ f(i) = i
      BY <3>1, <2>1 DEF Behind
    <3>6. i > A => /\ i - A \in 1..D /\ i = A + (i - A)
                   /\ B + (i - A) \in 1..(B + D)
                   /\ f(i) = A + (B + (i - A))
      BY <3>1, <3>3, <2>1 DEF Behind
    <3> QED
      BY <3>4, <3>5, <3>6, Zenon
  <2> HIDE DEF f
  <2>3. CASE i <= A
    BY <1>1, <1>3, <1>4, <2>1, <2>2, <2>3
  <2>4. CASE i > A
    <3>1. PICK j \in 1..D :
              i = A + j /\ B + j \in 1..(B + D) /\ f(i) = A + (B + j)
      BY <2>2, <2>4
    <3>2. r[A + (B + j)] = d[j] /\ q[A + j] = d[j]
      BY <1>1, <1>3, <1>4, <3>1
    <3> QED
      BY <1>1, <1>4, <2>1, <2>2, <3>1, <3>2
  <2> QED
    BY <1>1, <2>1, <2>3, <2>4
<1>6. ASSUME NEW i \in DOMAIN q, NEW j \in DOMAIN q, i < j
      PROVE  \/ q[i].no < q[j].no
             \/ q[i].no = q[j].no /\ i % 2 = 1 /\ j = i + 1
  <2>1. /\ i \in 1..(A + D) /\ j \in 1..(A + D)
        /\ f(i) \in DOMAIN r /\ f(j) \in DOMAIN r
        /\ q[i] = r[f(i)] /\ q[j] = r[f(j)]
    BY <1>5
  <2>2. /\ f(i) < f(j)
        /\ f(i) % 2 = 1 /\ f(j) = f(i) + 1 => i % 2 = 1 /\ j = i + 1
    BY <1>1, <1>2, <1>6, <2>1, BehindAscends
  <2> HIDE DEF f
  <2>3. \/ r[f(i)].no < r[f(j)].no
        \/ r[f(i)].no = r[f(j)].no /\ f(i) % 2 = 1 /\ f(j) = f(i) + 1
    BY <1>2, <2>1, <2>2 DEF Ordered, InOrder
  <2> QED
    BY <2>1, <2>2, <2>3
<1>7. \A i \in DOMAIN q : /\ q[i].of = c /\ (q[i].end <=> i % 2 = 0)
                          /\ q[i].no <= m
  <2> SUFFICES ASSUME NEW i \in DOMAIN q
               PROVE  q[i].of = c /\ (q[i].end <=> i % 2 = 0) /\ q[i].no <= m
    OBVIOUS
  <2>1. f(i) \in DOMAIN r /\ q[i] = r[f(i)] /\ f(i) % 2 = i % 2
    BY <1>5
  <2> HIDE DEF f
  <2> QED
    BY <1>2, <2>1 DEF Ordered, InOrder
<1>8. Whole(q)
  <2>1. (A + (B + D)) % 2 = 0 /\ B + D \in Nat
    BY <1>1, <1>2, <1>4 DEF Ordered, Whole
  <2>2. (B + D) % 2 = 0
    BY <1>1, <1>2, <2>1, Evens
  <2>3. D % 2 = 0
    BY <1>1, <1>2, <2>2, Evens
  <2> QED
    BY <1>1, <1>2, <1>3, <2>3, Evens DEF Whole
<1> QED
  BY <1>6, <1>7, <1>8 DEF Ordered, InOrder, q

(* The next message.                                                       *)
LEMMA OrderNext ==
    ASSUME NEW c \in Clients, NEW m \in Nat, NEW s \in Seq(Pieces),
           Ordered(s, c, m), m + 1 <= MaxMessages
    PROVE  /\ Ordered(s \o Message(c, m + 1), c, m + 1)
           /\ Numbered(s) /\ Len(s) = 2 * m =>
                  Numbered(s \o Message(c, m + 1))
<1> DEFINE t == Message(c, m + 1)
           r == s \o t
<1>1. /\ t \in Seq(Pieces) /\ Len(t) = 2
      /\ t[1] = Piece(c, m + 1, FALSE) /\ t[2] = Piece(c, m + 1, TRUE)
  BY EchoAssumption DEF Message, Piece, Pieces
<1>2. /\ t[1].of = c /\ t[1].no = m + 1 /\ ~t[1].end
      /\ t[2].of = c /\ t[2].no = m + 1 /\ t[2].end
  BY <1>1 DEF Piece
<1> HIDE DEF t
<1>3. /\ Len(s) \in Nat /\ DOMAIN s = 1..Len(s)
      /\ Len(r) = Len(s) + 2 /\ DOMAIN r = 1..(Len(s) + 2)
      /\ \A i \in 1..Len(s) : r[i] = s[i]
      /\ r[Len(s) + 1] = t[1] /\ r[Len(s) + 2] = t[2]
  <2>1. t \in Seq(Pieces)
    BY <1>1
  <2>2. /\ Len(s) \in Nat /\ DOMAIN s = 1..Len(s)
        /\ Len(r) = Len(s) + Len(t) /\ DOMAIN r = 1..(Len(s) + Len(t))
        /\ \A i \in 1..Len(s) : r[i] = s[i]
        /\ \A i \in 1..Len(t) : r[Len(s) + i] = t[i]
    BY <2>1, Parts
  <2> HIDE DEF r
  <2>3. Len(t) = 2
    BY <1>1
  <2> QED
    BY <2>2, <2>3
<1> HIDE DEF r
<1>4. Len(s) % 2 = 0 /\ (Len(s) + 1) % 2 = 1 /\ (Len(s) + 2) % 2 = 0
  BY <1>3, EvenFacts DEF Ordered, Whole
<1>5. \A i \in DOMAIN r : \/ i \in 1..Len(s) /\ r[i] = s[i]
                          \/ i = Len(s) + 1 /\ r[i] = t[1]
                          \/ i = Len(s) + 2 /\ r[i] = t[2]
  BY <1>3
<1>6. \A i \in DOMAIN r : /\ r[i].of = c /\ (r[i].end <=> i % 2 = 0)
                          /\ r[i].no <= m + 1
  <2>1. \A i \in DOMAIN s : /\ s[i].of = c /\ (s[i].end <=> i % 2 = 0)
                            /\ s[i].no <= m /\ s[i].no \in Nat
    <3>1. \A i \in DOMAIN s : s[i] \in Pieces
      BY <1>3, ElementOfSeq
    <3> QED
      BY <3>1, EchoAssumption DEF Ordered, InOrder, Pieces
  <2> QED
    BY <1>2, <1>3, <1>4, <1>5, <2>1
<1>7. ASSUME NEW i \in DOMAIN r, NEW j \in DOMAIN r, i < j
      PROVE  \/ r[i].no < r[j].no
             \/ r[i].no = r[j].no /\ i % 2 = 1 /\ j = i + 1
  <2>1. CASE j \in 1..Len(s)
    <3>1. i \in DOMAIN s /\ j \in DOMAIN s /\ r[i] = s[i] /\ r[j] = s[j]
      BY <1>3, <1>7, <2>1
    <3> QED
      BY <1>7, <3>1 DEF Ordered, InOrder
  <2>2. CASE j \notin 1..Len(s)
    <3>1. r[j].no = m + 1
      BY <1>2, <1>5, <2>2
    <3>2. CASE i \in 1..Len(s)
      <4>1. r[i].no <= m /\ r[i].no \in Nat
        <5>1. s[i] \in Pieces /\ i \in DOMAIN s
          BY <1>3, <3>2, ElementOfSeq
        <5> QED
          BY <1>3, <3>2, <5>1, EchoAssumption DEF Ordered, Pieces
      <4> QED
        BY <3>1, <4>1
    <3>3. CASE i \notin 1..Len(s)
      <4>1. i = Len(s) + 1 /\ j = Len(s) + 2
        BY <1>3, <1>5, <1>7, <2>2, <3>3
      <4> QED
        BY <1>2, <1>3, <1>4, <4>1
    <3> QED
      BY <3>2, <3>3
  <2> QED
    BY <2>1, <2>2
<1>8. ASSUME Numbered(s), Len(s) = 2 * m PROVE Numbered(r)
  <2>1. (Len(s) + 2) \div 2 = m + 1 /\ (Len(s) + 3) \div 2 = m + 1
    BY <1>8
  <2>2. \A i \in DOMAIN s : s[i].no = (i + 1) \div 2
    BY <1>8 DEF Numbered
  <2>3. r[Len(s) + 1].no = ((Len(s) + 1) + 1) \div 2
        /\ r[Len(s) + 2].no = ((Len(s) + 2) + 1) \div 2
    BY <1>2, <1>3, <2>1
  <2>4. \A i \in DOMAIN r : r[i].no = (i + 1) \div 2
    BY <1>3, <1>5, <2>2, <2>3
  <2> QED
    BY <2>4 DEF Numbered
<1>9. Ordered(r, c, m + 1)
  BY <1>3, <1>4, <1>6, <1>7 DEF Ordered, InOrder, Whole
<1> QED
  BY <1>8, <1>9 DEF r, t

LEMMA WholeSum ==
    ASSUME NEW S, NEW s \in Seq(S), NEW t \in Seq(S), Whole(s)
    PROVE  Whole(s \o t) <=> Whole(t)
<1>1. Len(s) \in Nat /\ Len(t) \in Nat /\ Len(s \o t) = Len(s) + Len(t)
  BY Parts
<1> QED
  BY <1>1, Evens DEF Whole

(* Concatenation as a symbol that the provers know no laws of.             *)
Cat(a, b) == a \o b

LEMMA CatFour ==
    \A S : \A a, b, d, e \in Seq(S) :
        Cat(a, Cat(b, Cat(d, e))) = Cat(Cat(a, Cat(b, d)), e)
<1>1. \A S : \A a, b \in Seq(S) : Cat(a, b) \in Seq(S)
  BY ConcatClosed DEF Cat
<1>2. \A S : \A a, b, d \in Seq(S) : Cat(Cat(a, b), d) = Cat(a, Cat(b, d))
  BY Associate DEF Cat
<1> SUFFICES ASSUME NEW S, NEW a \in Seq(S), NEW b \in Seq(S),
                    NEW d \in Seq(S), NEW e \in Seq(S)
             PROVE  Cat(a, Cat(b, Cat(d, e))) = Cat(Cat(a, Cat(b, d)), e)
  OBVIOUS
<1>3. Cat(b, d) \in Seq(S)
  BY <1>1
<1>4. Cat(Cat(b, d), e) = Cat(b, Cat(d, e))
  BY <1>2
<1>5. Cat(Cat(a, Cat(b, d)), e) = Cat(a, Cat(Cat(b, d), e))
  BY <1>2, <1>3
<1> QED
  BY <1>4, <1>5

(* An echo has the pieces of the buffer, or Junk; that of a message is it. *)
LEMMA EchoPieces ==
    ASSUME NEW S, Junk \in S, NEW buf \in Seq(S)
    PROVE  /\ Echo(buf) \in Seq(S)
           /\ Len(buf) >= 2 /\ ~buf[1].end /\ buf[2].end =>
                  Echo(buf) = SubSeq(buf, 1, 2)
<1> DEFINE ends == {i \in DOMAIN buf : buf[i].end}
<1>1. DOMAIN buf = 1..Len(buf) /\ Len(buf) \in Nat
  BY LenProperties
<1>2. CASE ends = {}
  <2>1. Append(buf, Junk) \in Seq(S)
    BY AppendProperties
  <2> QED
    BY <1>1, <1>2, <2>1 DEF Echo
<1>3. CASE ends # {}
  <2>1. ends \in SUBSET Nat
    BY <1>1
  <2>2. Min(ends) \in ends /\ \A i \in ends : Min(ends) <= i
    BY <1>3, <2>1, MinFacts
  <2>3. Echo(buf) = SubSeq(buf, 1, Min(ends))
    BY <1>3 DEF Echo
  <2>4. Min(ends) \in 1..Len(buf) /\ Min(ends) \in 0..Len(buf)
    BY <1>1, <2>2
  <2>5. Echo(buf) \in Seq(S)
    BY <2>3, <2>4, TakeFacts
  <2>6. ASSUME Len(buf) >= 2, ~buf[1].end, buf[2].end
        PROVE  Min(ends) = 2
    <3>1. 2 \in ends /\ 1 \notin ends
      BY <1>1, <2>6
    <3> HIDE DEF ends
    <3> QED
      BY <2>1, <2>2, <2>4, <3>1
  <2> QED
    BY <2>3, <2>5, <2>6
<1> QED
  BY <1>2, <1>3
(* What a read of n pieces returns: one message, which is echoed, and the  *)
(* others, which are not.                                                  *)
LEMMA ReadParts ==
    ASSUME NEW S, NEW s \in Seq(S), NEW n \in 2..Len(s)
    PROVE  /\ SubSeq(s, 1, 2) \in Seq(S) /\ Len(SubSeq(s, 1, 2)) = 2
           /\ SubSeq(s, 3, n) \in Seq(S) /\ Len(SubSeq(s, 3, n)) = n - 2
           /\ SubSeq(s, n + 1, Len(s)) \in Seq(S)
           /\ s = SubSeq(s, 1, 2)
                      \o (SubSeq(s, 3, n) \o SubSeq(s, n + 1, Len(s)))
<1>1. Len(s) \in Nat /\ 2 \in 0..Len(s) /\ n \in Nat /\ n \in Int
  BY LenProperties
<1>2. /\ SubSeq(s, 1, 2) \in Seq(S) /\ Len(SubSeq(s, 1, 2)) = 2
      /\ SubSeq(s, 1, 2) \o SubSeq(s, 2 + 1, Len(s)) = s
  BY <1>1, Split
<1>3. SubSeq(s, n + 1, Len(s)) \in Seq(S)
  BY <1>1, DropFacts
<1>4. SubSeq(s, 3, n) \in Seq(S) /\ Len(SubSeq(s, 3, n)) = n - 2
  <2>1. \A i \in 3..n : s[i] \in S
    BY <1>1, ElementOfSeq
  <2> QED
    BY <1>1, <2>1, SubSeqProperties
<1>5. SubSeq(s, 3, n) \o SubSeq(s, n + 1, Len(s)) = SubSeq(s, 3, Len(s))
  <2>1. /\ 3 \in 1..(Len(s) + 1) /\ n \in (3 - 1)..Len(s)
        /\ Len(s) \in n..Len(s)
    BY <1>1
  <2> QED
    BY <2>1, ConcatAdjacentSubSeq
<1>6. 2 + 1 = 3
  OBVIOUS
<1> QED
  BY <1>2, <1>3, <1>4, <1>5, <1>6

LEMMA ReadEcho ==
    ASSUME NEW S, Junk \in S, NEW s \in Seq(S), NEW old \in Seq(S),
           NEW n \in 2..Len(s), ~s[1].end, s[2].end
    PROVE  Echo(SubSeq(s, 1, n) \o old) = SubSeq(s, 1, 2)
<1> DEFINE front == SubSeq(s, 1, n)
           new == front \o old
<1>1. n \in 0..Len(s) /\ Len(s) \in Nat /\ 2 \in 0..Len(s) /\ n \in Nat
  BY LenProperties
<1>2. /\ front \in Seq(S) /\ Len(front) = n
      /\ \A i \in 1..n : front[i] = s[i]
  BY <1>1, TakeFacts
<1> HIDE DEF front
<1>3. /\ new \in Seq(S) /\ Len(new) = n + Len(old) /\ Len(old) \in Nat
      /\ \A i \in 1..n : new[i] = front[i]
  <2>1. front \in Seq(S)
    BY <1>2
  <2>2. /\ front \o old \in Seq(S)
        /\ Len(front \o old) = Len(front) + Len(old) /\ Len(old) \in Nat
        /\ \A i \in 1..Len(front) : (front \o old)[i] = front[i]
    BY <2>1, Parts
  <2> QED
    BY <1>2, <2>2
<1> HIDE DEF new
<1>4. Len(new) >= 2 /\ new[1] = s[1] /\ new[2] = s[2] /\ 2 \in 0..Len(new)
  BY <1>1, <1>2, <1>3
<1>5. Echo(new) = SubSeq(new, 1, 2)
  BY <1>3, <1>4, EchoPieces
<1>6. /\ SubSeq(new, 1, 2) \in Seq(S) /\ Len(SubSeq(new, 1, 2)) = 2
      /\ \A i \in 1..2 : SubSeq(new, 1, 2)[i] = new[i]
  BY <1>3, <1>4, TakeFacts
<1>7. /\ SubSeq(s, 1, 2) \in Seq(S) /\ Len(SubSeq(s, 1, 2)) = 2
      /\ \A i \in 1..2 : SubSeq(s, 1, 2)[i] = s[i]
  BY <1>1, TakeFacts
<1>8. \A i \in 1..2 : SubSeq(new, 1, 2)[i] = SubSeq(s, 1, 2)[i]
  BY <1>4, <1>6, <1>7
<1>9. SubSeq(new, 1, 2) = SubSeq(s, 1, 2)
  BY <1>6, <1>7, <1>8, SeqEqual
<1> QED
  BY <1>5, <1>9 DEF new, front
-----------------------------------------------------------------------------
(***************************************************************************)
(* The steps.                                                              *)
(***************************************************************************)
OrderOf(c) == Orderly(c) /\ Complete(c)

LEMMA OrderInit == Init => OrderInv
<1> SUFFICES ASSUME Init, NEW c \in Clients PROVE OrderOf(c)
  BY DEF OrderInv, OrderOf
<1>1. /\ got[c] = <<>> /\ toClient[c] = <<>> /\ toServer[c] = <<>>
      /\ recvBuf[c] = <<Junk>> /\ tpc[c] = "none" /\ cpc[c] = "start"
      /\ sent[c] = 0
  BY DEF Init
<1>2. Echoes(c) = <<>> /\ Stream(c) = <<>>
  <2>1. <<>> \in Seq(Pieces)
    BY EmptySeq
  <2>2. <<>> \o <<>> = <<>>
    BY <2>1, ConcatEmptySeq
  <2> QED
    BY <1>1, <2>2 DEF Echoes, Stream, DueEcho
<1>3. Len(<<>>) = 0 /\ DOMAIN <<>> = {}
  OBVIOUS
<1>4. Orderly(c)
  BY <1>1, <1>2, <1>3 DEF Orderly, Ordered, InOrder, Whole
<1>5. Complete(c)
  BY <1>1, <1>2, <1>3 DEF Complete, Numbered, Whole
<1> QED
  BY <1>4, <1>5 DEF OrderOf

(* Steps that move none of d's bytes.                                      *)
LEMMA OrderKept ==
    ASSUME NEW d \in Clients, OrderOf(d),
           /\ got'[d] = got[d] /\ toClient'[d] = toClient[d]
           /\ toServer'[d] = toServer[d] /\ sent'[d] = sent[d],
           tpc[d] = "write" => recvBuf'[d] = recvBuf[d],
           tpc'[d] = "write" <=> tpc[d] = "write",
           d \in cut => d \in cut',
           d \in halved => d \in halved',
           Gone(d) => Gone(d)',
           cpc'[d] \in {"start", "send"} => cpc[d] \in {"start", "send"}
    PROVE  OrderOf(d)'
<1>1. /\ Echoes(d)' = Echoes(d)
      /\ Stream(d)' = Stream(d)
  BY DEF Echoes, Stream, DueEcho
<1>2. Orderly(d)'
  BY <1>1 DEF OrderOf, Orderly, Ordered, InOrder, Whole
<1>3. Complete(d)'
  BY <1>1 DEF OrderOf, Complete, Numbered, Whole
<1> QED
  BY <1>2, <1>3 DEF OrderOf

(* The parts of c's stream.                                                *)
LEMMA StreamParts ==
    ASSUME StreamInv, NEW c \in Clients
    PROVE  /\ got[c] \in Seq(Pieces) /\ toClient[c] \in Seq(Pieces)
           /\ toServer[c] \in Seq(Pieces) /\ recvBuf[c] \in Seq(Pieces)
           /\ DueEcho(c) \in Seq(Pieces) /\ Echoes(c) \in Seq(Pieces)
           /\ Stream(c) \in Seq(Pieces)
           /\ DueEcho(c) \o toServer[c] \in Seq(Pieces)
           /\ Len(got[c]) \in Nat /\ Len(toClient[c]) \in Nat
           /\ Len(toServer[c]) \in Nat /\ Len(DueEcho(c)) \in Nat
           /\ Len(Echoes(c)) = Len(got[c]) + Len(toClient[c])
           /\ Len(Stream(c)) = Len(got[c]) + Len(toClient[c])
                                   + Len(DueEcho(c)) + Len(toServer[c])
           /\ sent[c] \in Nat
<1>1. /\ got[c] \in Seq(Pieces) /\ toClient[c] \in Seq(Pieces)
      /\ toServer[c] \in Seq(Pieces) /\ recvBuf[c] \in Seq(Pieces)
  BY DEF StreamInv, Streams
<1>2. DueEcho(c) \in Seq(Pieces)
  BY <1>1, EchoFacts, EmptySeq DEF DueEcho
<1>3. /\ Echoes(c) \in Seq(Pieces)
      /\ Len(Echoes(c)) = Len(got[c]) + Len(toClient[c])
  BY <1>1, Parts DEF Echoes
<1> DEFINE e == DueEcho(c)
           s == toServer[c]
           a == Echoes(c)
<1>4. s \in Seq(Pieces) /\ e \in Seq(Pieces) /\ a \in Seq(Pieces)
  BY <1>1, <1>2, <1>3
<1>5. Stream(c) = a \o (e \o s)
  BY DEF Stream
<1>6. /\ Len(got[c]) \in Nat /\ Len(toClient[c]) \in Nat
      /\ Len(s) \in Nat /\ Len(e) \in Nat
  BY <1>1, <1>2, LenProperties
<1> HIDE DEF e, s, a
<1>7. e \o s \in Seq(Pieces) /\ Len(e \o s) = Len(e) + Len(s)
  BY <1>4, ConcatProperties
<1> DEFINE b == e \o s
<1> HIDE DEF b
<1>8. a \o b \in Seq(Pieces) /\ Len(a \o b) = Len(a) + Len(b)
  <2>1. b \in Seq(Pieces)
    BY <1>7 DEF b
  <2> QED
    BY <1>4, <2>1, ConcatProperties
<1>9. Len(a) = Len(got[c]) + Len(toClient[c]) /\ Len(b) = Len(e) + Len(s)
  BY <1>3, <1>7 DEF a, b
<1>10. Stream(c) \in Seq(Pieces)
       /\ Len(Stream(c)) = Len(got[c]) + Len(toClient[c]) + Len(e) + Len(s)
  <2>1. Stream(c) = a \o b
    BY <1>5 DEF b
  <2>2. Stream(c) \in Seq(Pieces) /\ Len(Stream(c)) = Len(a) + Len(b)
    BY <1>8, <2>1, Zenon
  <2>3. Len(Stream(c)) = (Len(got[c]) + Len(toClient[c])) + (Len(e) + Len(s))
    BY <1>9, <2>2, Zenon
  <2> DEFINE L == Len(Stream(c))
             G == Len(got[c])
             T == Len(toClient[c])
             E == Len(e)
             Z == Len(s)
  <2>4. L = (G + T) + (E + Z) /\ G \in Nat /\ T \in Nat
        /\ E \in Nat /\ Z \in Nat
    BY <1>6, <2>3
  <2> HIDE DEF L, G, T, E, Z
  <2>5. L = G + T + E + Z
    BY <2>4
  <2> QED
    BY <2>2, <2>5 DEF L, G, T, E, Z
<1>11. sent[c] \in Nat
  BY Lengths
<1> QED
  BY <1>1, <1>2, <1>3, <1>6, <1>7, <1>10, <1>11 DEF e, s

(* The echo of a thread that is to write, unless a message was cut.        *)
LEMMA DueOne ==
    ASSUME StreamInv, NEW c \in Clients, c \notin cut, tpc[c] = "write"
    PROVE  DueEcho(c) = Echo(recvBuf[c]) /\ Len(DueEcho(c)) = 2
BY EchoFacts, StreamParts DEF StreamInv, Balanced, DueEcho

LEMMA SendOrder ==
    ASSUME IInv, StreamInv, NEW c \in Clients, Send(c), OrderOf(c)
    PROVE  OrderOf(c)'
<1> DEFINE a == Echoes(c)
           e == DueEcho(c)
           s == toServer[c]
           m == sent[c]
           t == Message(c, m + 1)
<1>1. /\ cpc[c] = "send" /\ m < MaxMessages
      /\ sent' = [sent EXCEPT ![c] = m + 1]
      /\ toServer' = [toServer EXCEPT ![c] = s \o t]
      /\ cpc' = [cpc EXCEPT ![c] = "read"]
      /\ UNCHANGED <<toClient, threads, got, halved, cut>>
  BY DEF Send
<1>2. sent'[c] = m + 1 /\ toServer'[c] = s \o t /\ cpc'[c] = "read"
  BY <1>1 DEF StreamInv, Streams, IInv, Types
<1>3. /\ a \in Seq(Pieces) /\ e \in Seq(Pieces) /\ s \in Seq(Pieces)
      /\ m \in Nat
  BY StreamParts
<1>4. t \in Seq(Pieces) /\ Len(t) = 2 /\ m + 1 <= MaxMessages
  BY <1>1, <1>3, EchoAssumption DEF Message, Piece, Pieces
<1>5. Echoes(c)' = a /\ DueEcho(c)' = e
  BY <1>1 DEF Echoes, DueEcho, threads
<1> HIDE DEF t
<1>6. Stream(c)' = Stream(c) \o t
  <2>1. Stream(c)' = a \o (e \o (s \o t))
    BY <1>2, <1>5 DEF Stream
  <2>2. Stream(c) = a \o (e \o s)
    BY DEF Stream
  <2> HIDE DEF a, e, s
  <2>3. a \o (e \o (s \o t)) = (a \o (e \o s)) \o t
    <3>1. /\ a \in Seq(Pieces) /\ e \in Seq(Pieces)
          /\ s \in Seq(Pieces) /\ t \in Seq(Pieces)
      BY <1>3, <1>4
    <3>2. Cat(a, Cat(e, Cat(s, t))) = Cat(Cat(a, Cat(e, s)), t)
      BY <3>1, CatFour
    <3> QED
      BY <3>2 DEF Cat
  <2> QED
    BY <2>1, <2>2, <2>3
<1>7. Orderly(c)'
  <2> SUFFICES ASSUME c \notin cut
               PROVE  Whole(a) /\ Ordered(Stream(c) \o t, c, m + 1)
    BY <1>1, <1>2, <1>5, <1>6 DEF Orderly, Ordered, InOrder, Whole
  <2>1. Whole(a) /\ Ordered(Stream(c), c, m)
    BY DEF OrderOf, Orderly
  <2> QED
    BY <1>3, <1>4, <2>1, OrderNext, StreamParts DEF t
<1>8. Complete(c)'
  <2> SUFFICES ASSUME c \notin cut \cup halved
               PROVE  /\ Numbered(Stream(c) \o t)
                      /\ Whole(got[c])
                      /\ Len(Stream(c) \o t) = Len(got[c]) + 2
                      /\ Len(Stream(c) \o t) = 2 * (m + 1)
    <3>1. Numbered(Stream(c))' <=> Numbered(Stream(c) \o t)
      BY <1>6 DEF Numbered
    <3>2. Whole(got[c])' <=> Whole(got[c])
      BY <1>1 DEF Whole
    <3> HIDE DEF t
    <3>3. /\ UNCHANGED <<got, cut, halved>>
          /\ sent'[c] = m + 1 /\ cpc'[c] = "read"
          /\ Len(Stream(c)') = Len(Stream(c) \o t)
      BY <1>1, <1>2, <1>6
    <3>4. Len(got[c]) + 2 <= Len(got[c]) + 2
      BY StreamParts
    <3> QED
      BY <3>1, <3>2, <3>3, <3>4 DEF Complete
  <2>1. /\ Numbered(Stream(c)) /\ Whole(got[c])
        /\ Len(Stream(c)) = 2 * m /\ Len(Stream(c)) = Len(got[c])
    BY <1>1 DEF OrderOf, Complete, Gone
  <2>2. Ordered(Stream(c), c, m)
    BY DEF OrderOf, Orderly
  <2>3. Numbered(Stream(c) \o t)
    BY <1>3, <1>4, <2>1, <2>2, OrderNext, StreamParts DEF t
  <2>4. Len(Stream(c) \o t) = Len(Stream(c)) + 2
    <3> DEFINE r == Stream(c)
    <3>1. r \in Seq(Pieces) /\ t \in Seq(Pieces) /\ Len(t) = 2
      BY <1>4, StreamParts
    <3> HIDE DEF r
    <3>2. Len(r \o t) = Len(r) + Len(t)
      BY <3>1, ConcatProperties
    <3> QED
      BY <3>1, <3>2 DEF r
  <2> QED
    BY <1>3, <2>1, <2>3, <2>4
<1> QED
  BY <1>7, <1>8 DEF OrderOf

(* Reading divides what is at hand: the stream remains the same.           *)
LEMMA ReceiveOrder ==
    ASSUME IInv, StreamInv, NEW c \in Clients, NEW n \in Nat, Receive(c, n),
           OrderOf(c)
    PROVE  OrderOf(c)'
<1> DEFINE g == got[c]
           t == toClient[c]
           front == SubSeq(t, 1, n)
           rest == SubSeq(t, n + 1, Len(t))
<1>1. /\ cpc[c] = "read" /\ n \in 1..Len(t)
      /\ got' = [got EXCEPT ![c] = g \o front]
      /\ toClient' = [toClient EXCEPT ![c] = rest]
      /\ cpc' = [cpc EXCEPT ![c] = "send"]
      /\ halved' = IF t[n].end THEN halved ELSE halved \cup {c}
      /\ UNCHANGED <<toServer, recvBuf, tpc, sent, cut>>
  BY DEF Receive, threads
<1>2. got'[c] = g \o front /\ toClient'[c] = rest /\ cpc'[c] = "send"
  BY <1>1 DEF StreamInv, Streams, IInv, Types
<1>3. /\ g \in Seq(Pieces) /\ t \in Seq(Pieces)
      /\ Len(g) \in Nat /\ Len(t) \in Nat
  BY StreamParts
<1>4. n \in 0..Len(t)
  BY <1>1
<1>5. /\ front \in Seq(Pieces) /\ rest \in Seq(Pieces)
      /\ Len(front) = n /\ front \o rest = t
  BY <1>3, <1>4, Split
<1> HIDE DEF front, rest
<1>6. Echoes(c)' = Echoes(c) /\ Stream(c)' = Stream(c)
  <2>1. (g \o front) \o rest = g \o t
    <3> HIDE DEF g, t
    <3>1. /\ g \in Seq(Pieces) /\ front \in Seq(Pieces)
          /\ rest \in Seq(Pieces)
      BY <1>3, <1>5
    <3>2. (g \o front) \o rest = g \o (front \o rest)
      BY <3>1, Associate
    <3> QED
      BY <1>5, <3>2
  <2>2. Echoes(c)' = Echoes(c)
    BY <1>2, <2>1 DEF Echoes
  <2>3. DueEcho(c)' = DueEcho(c)
    BY <1>1 DEF DueEcho
  <2> QED
    BY <1>1, <2>2, <2>3 DEF Stream
<1>7. Orderly(c)'
  BY <1>1, <1>6 DEF OrderOf, Orderly, Ordered, InOrder, Whole
<1>8. Complete(c)'
  <2> SUFFICES ASSUME c \notin cut \cup halved'
               PROVE  Complete(c)'
    BY <1>1 DEF Complete
  <2>1. c \notin cut \cup halved /\ t[n].end
    BY <1>1
  <2>2. /\ Numbered(Stream(c)) /\ Whole(g)
        /\ Len(Stream(c)) <= Len(g) + 2
        /\ Len(Stream(c)) = 2 * sent[c]
    BY <1>1, <2>1 DEF OrderOf, Complete, Gone
  <2>3. Len(g \o front) = Len(g) + n
    BY <1>3, <1>5, ConcatProperties
  <2>4. /\ Len(g) + n \in DOMAIN Stream(c)
        /\ Stream(c)[Len(g) + n] = t[n]
    <3>1. /\ Echoes(c) \in Seq(Pieces)
          /\ DueEcho(c) \o toServer[c] \in Seq(Pieces)
          /\ Len(Echoes(c)) = Len(g) + Len(t)
      BY StreamParts
    <3>2. Echoes(c)[Len(g) + n] = t[n]
      <4>1. Echoes(c) = g \o t /\ n \in 1..Len(t)
        BY <1>1 DEF Echoes
      <4> HIDE DEF g, t
      <4>2. \A i \in 1..Len(t) : (g \o t)[Len(g) + i] = t[i]
        BY <1>3, Parts
      <4> QED
        BY <4>1, <4>2
    <3>3. Len(g) + n \in 1..Len(Echoes(c))
      <4>1. n \in 1..Len(t)
        BY <1>1
      <4> HIDE DEF g, t
      <4> QED
        BY <1>3, <3>1, <4>1
    <3> DEFINE a == Echoes(c)
               b == DueEcho(c) \o toServer[c]
    <3>4. a \in Seq(Pieces) /\ b \in Seq(Pieces) /\ Stream(c) = a \o b
      BY <3>1 DEF Stream
    <3> HIDE DEF a, b
    <3>5. /\ \A i \in 1..Len(a) : (a \o b)[i] = a[i]
          /\ DOMAIN (a \o b) = 1..(Len(a) + Len(b))
          /\ Len(a) \in Nat /\ Len(b) \in Nat
      BY <3>4, Parts
    <3>6. \A i \in 1..Len(a) : i \in DOMAIN (a \o b)
      BY <3>5
    <3> QED
      BY <3>2, <3>3, <3>4, <3>5, <3>6 DEF a
  <2>5. (Len(g) + n) % 2 = 0
    BY <2>1, <2>4 DEF OrderOf, Orderly, Ordered, InOrder
  <2>6. n # 1
    <3>1. Len(g) % 2 = 0
      BY <2>2 DEF Whole
    <3> HIDE DEF g
    <3> QED
      BY <1>3, <2>5, <3>1, EvenFacts
  <2>7. /\ Len(Stream(c)) = Len(g) + Len(t) + Len(DueEcho(c))
                                + Len(toServer[c])
        /\ Len(DueEcho(c)) \in Nat /\ Len(toServer[c]) \in Nat
    BY StreamParts
  <2>8. n = 2 /\ Len(Stream(c)) = Len(g) + 2
    <3> DEFINE L == Len(Stream(c))
               G == Len(g)
               T == Len(t)
               E == Len(DueEcho(c))
               Z == Len(toServer[c])
    <3>1. /\ G \in Nat /\ T \in Nat /\ E \in Nat /\ Z \in Nat
          /\ L = G + T + E + Z /\ L <= G + 2 /\ n \in 1..T /\ n # 1
      BY <1>1, <1>3, <2>2, <2>6, <2>7
    <3> HIDE DEF L, G, T, E, Z
    <3>2. n = 2 /\ L = G + 2
      BY <3>1
    <3> QED
      BY <3>2 DEF L, G
  <2>9. Whole(got[c])'
    BY <1>2, <1>3, <2>2, <2>3, <2>8, EvenFacts DEF Whole
  <2>10. Len(Stream(c)') = Len(got'[c]) /\ Len(got'[c]) \in Nat
    BY <1>2, <1>3, <1>6, <2>3, <2>8
  <2> QED
    BY <1>1, <1>6, <2>2, <2>9, <2>10 DEF Complete, Numbered
<1> QED
  BY <1>7, <1>8 DEF OrderOf

(* Whole messages are read, of which the first is echoed and the others    *)
(* drop out of the stream; there are none as long as at most one message   *)
(* is under way.                                                           *)
LEMMA ThreadReadOrder ==
    ASSUME IInv, StreamInv, NEW c \in Clients, NEW n \in Nat,
           ThreadRead(c, n), OrderOf(c)
    PROVE  OrderOf(c)'
<1> DEFINE a == Echoes(c)
           s == toServer[c]
           b == recvBuf[c]
           front == SubSeq(s, 1, n)
           rest == SubSeq(s, n + 1, Len(s))
           old == SubSeq(b, n + 1, Len(b))
           first == SubSeq(s, 1, 2)
           others == SubSeq(s, 3, n)
           whole == c \notin cut /\ s[n].end
<1>1. Peer(c) = c
  BY PeerOwn DEF ThreadRead, ThreadAt, Running
<1>2. /\ tpc[c] = "read" /\ n \in 1..Len(s)
      /\ recvBuf' = [recvBuf EXCEPT ![c] = front \o old]
      /\ toServer' = [toServer EXCEPT ![c] = rest]
      /\ tpc' = [tpc EXCEPT ![c] = "write"]
      /\ cut' = IF s[n].end THEN cut ELSE cut \cup {c}
      /\ UNCHANGED <<toClient, got, sent, cpc, halved>>
  BY <1>1 DEF ThreadRead, ThreadAt, clients
<1>3. recvBuf'[c] = front \o old /\ toServer'[c] = rest /\ tpc'[c] = "write"
  BY <1>2 DEF StreamInv, Streams, IInv, Types
<1>4. /\ a \in Seq(Pieces) /\ s \in Seq(Pieces) /\ b \in Seq(Pieces)
      /\ Len(s) \in Nat
  BY StreamParts
<1>5. n \in 0..Len(s)
  BY <1>2
<1>6. /\ a' = a
      /\ Stream(c) = a \o s
  <2>1. Stream(c) = a \o (<<>> \o s)
    BY <1>2 DEF Stream, DueEcho
  <2>2. <<>> \o s = s
    BY <1>4, ConcatEmptySeq
  <2> QED
    BY <1>2, <2>1, <2>2 DEF Echoes
<1>7. whole => /\ n \in 2..Len(s) /\ ~s[1].end /\ s[2].end
               /\ n % 2 = 0
  <2> SUFFICES ASSUME whole
               PROVE  n \in 2..Len(s) /\ ~s[1].end /\ s[2].end /\ n % 2 = 0
    OBVIOUS
  <2>1. InPairs(s)
    BY DEF StreamInv, Balanced
  <2> HIDE DEF s
  <2>2. n >= 2 /\ ~s[1].end /\ s[2].end
    BY <1>2, <1>4, <2>1, PairsRest
  <2>3. n % 2 = 0
    BY <1>2, <2>1 DEF InPairs
  <2> QED
    BY <1>2, <1>4, <2>2, <2>3
<1>8. ASSUME whole
      PROVE  /\ first \in Seq(Pieces) /\ Len(first) = 2
             /\ others \in Seq(Pieces) /\ Len(others) = n - 2
             /\ rest \in Seq(Pieces)
             /\ s = first \o (others \o rest)
             /\ Stream(c)' = a \o (first \o rest)
  <2>1. /\ first \in Seq(Pieces) /\ Len(first) = 2
        /\ others \in Seq(Pieces) /\ Len(others) = n - 2
        /\ rest \in Seq(Pieces)
        /\ s = first \o (others \o rest)
    <3>1. s \in Seq(Pieces) /\ n \in 2..Len(s)
      BY <1>4, <1>7, <1>8
    <3> HIDE DEF s
    <3> QED
      BY <3>1, ReadParts
  <2>2. Junk \in Pieces
    BY EchoAssumption DEF Junk, Piece, Pieces
  <2>3. old \in Seq(Pieces)
    BY <1>4, DropFacts
  <2>4. DueEcho(c)' = first
    <3> HIDE DEF s, old
    <3>1. Echo(front \o old) = first
      BY <1>4, <1>7, <1>8, <2>2, <2>3, ReadEcho
    <3>2. DueEcho(c)' = Echo(recvBuf'[c])
      BY <1>3 DEF DueEcho, Echo
    <3> QED
      BY <1>3, <3>1, <3>2
  <2> QED
    BY <1>3, <1>6, <2>1, <2>4 DEF Stream
<1> HIDE DEF s, b, a, front, rest, old, first, others
<1>9. Orderly(c)'
  <2> SUFFICES ASSUME c \notin cut'
               PROVE  Whole(a) /\ Ordered(Stream(c)', c, sent[c])
    BY <1>2, <1>6 DEF Orderly, Ordered, InOrder, Whole, a
  <2>1. whole
    BY <1>2
  <2>2. Whole(a) /\ Ordered(Stream(c), c, sent[c])
    BY <2>1 DEF OrderOf, Orderly, a
  <2> DEFINE f == a \o first
  <2>3. /\ first \in Seq(Pieces) /\ others \in Seq(Pieces)
        /\ rest \in Seq(Pieces) /\ others \o rest \in Seq(Pieces)
        /\ f \in Seq(Pieces)
    BY <1>4, <1>8, <2>1, ConcatClosed
  <2>4. Whole(f) /\ Whole(others)
    <3>1. Whole(first)
      BY <1>8, <2>1, Two DEF Whole
    <3>2. Whole(f)
      BY <1>4, <2>2, <2>3, <3>1, WholeSum
    <3>3. Whole(others)
      <4>1. n % 2 = 0 /\ n - 2 \in Nat /\ Len(others) = n - 2
        BY <1>4, <1>7, <1>8, <2>1
      <4>2. (n - 2) % 2 = 0
        BY <4>1, Two
      <4> QED
        BY <4>1, <4>2 DEF Whole
    <3> QED
      BY <3>2, <3>3
  <2>5. Stream(c)' = f \o rest
    <3>1. Stream(c)' = a \o (first \o rest)
      BY <1>8, <2>1
    <3>2. a \in Seq(Pieces) /\ first \in Seq(Pieces) /\ rest \in Seq(Pieces)
      BY <1>4, <2>3
    <3>3. (a \o first) \o rest = a \o (first \o rest)
      BY <3>2, Associate
    <3> QED
      BY <3>1, <3>3
  <2>6. Stream(c) = f \o (others \o rest)
    <3> DEFINE p == others \o rest
    <3>1. Stream(c) = a \o (first \o p) /\ p \in Seq(Pieces)
      BY <1>6, <1>8, <2>1, <2>3
    <3> HIDE DEF p
    <3>2. a \in Seq(Pieces) /\ first \in Seq(Pieces) /\ p \in Seq(Pieces)
      BY <1>4, <2>3, <3>1
    <3>3. (a \o first) \o p = a \o (first \o p)
      BY <3>2, Associate
    <3> QED
      BY <3>1, <3>3 DEF p
  <2> HIDE DEF f
  <2>7. Ordered(f \o rest, c, sent[c])
    BY <2>2, <2>3, <2>4, <2>6, OrderDrop
  <2> QED
    BY <2>2, <2>5, <2>7
<1>10. Complete(c)'
  <2> SUFFICES ASSUME c \notin cut' \cup halved
               PROVE  Complete(c)'
    BY <1>2 DEF Complete
  <2>1. whole /\ c \notin cut \cup halved
    BY <1>2
  <2>2. Complete(c)
    BY DEF OrderOf
  <2>3. n = 2
    <3>1. Len(Stream(c)) <= Len(got[c]) + 2
      BY <2>1, <2>2 DEF Complete
    <3>2. /\ Len(Stream(c)) = Len(got[c]) + Len(toClient[c])
                                  + Len(DueEcho(c)) + Len(s)
          /\ Len(got[c]) \in Nat /\ Len(toClient[c]) \in Nat
          /\ Len(DueEcho(c)) \in Nat /\ Len(s) \in Nat
      BY StreamParts DEF s
    <3> DEFINE L == Len(Stream(c))
               G == Len(got[c])
               T == Len(toClient[c])
               E == Len(DueEcho(c))
               Z == Len(s)
    <3>3. Z <= 2
      <4>1. /\ L = G + T + E + Z /\ L <= G + 2
            /\ G \in Nat /\ T \in Nat /\ E \in Nat /\ Z \in Nat
        BY <3>1, <3>2
      <4> HIDE DEF L, G, T, E, Z
      <4> QED
        BY <4>1
    <3> QED
      BY <1>4, <1>7, <2>1, <3>3
  <2>4. Stream(c)' = Stream(c)
    <3>1. first \o rest = s
      BY <1>4, <1>5, <2>3, Split DEF first, rest
    <3> QED
      BY <1>6, <1>8, <2>1, <3>1
  <2> QED
    BY <1>2, <2>1, <2>2, <2>4 DEF Complete, Numbered, Whole, Gone
<1> QED
  BY <1>9, <1>10 DEF OrderOf

(* The echo moves on to its client, or is lost with it: what is left of    *)
(* the stream is in order, and if all messages but one have been answered, *)
(* nothing is left.                                                        *)
LEMMA ThreadWriteOrder ==
    ASSUME IInv, StreamInv, NEW c \in Clients, ThreadWrite(c), OrderOf(c)
    PROVE  OrderOf(c)'
<1> DEFINE g == got[c]
           t == toClient[c]
           e == Echo(recvBuf[c])
           s == toServer[c]
           a == Echoes(c)
<1>1. Peer(c) = c
  BY PeerOwn DEF ThreadWrite, ThreadAt, Running
<1>2. /\ tpc[c] = "write" /\ tpc' = [tpc EXCEPT ![c] = "read"]
      /\ toClient' = IF Gone(c) THEN toClient
                     ELSE [toClient EXCEPT ![c] = t \o e]
      /\ UNCHANGED <<toServer, recvBuf, cpc, sent, got, halved, cut>>
  BY <1>1 DEF ThreadWrite, ThreadAt, clients
<1>3. tpc'[c] = "read" /\ toClient'[c] = IF Gone(c) THEN t ELSE t \o e
  BY <1>2 DEF StreamInv, Streams, IInv, Types
<1>4. /\ g \in Seq(Pieces) /\ t \in Seq(Pieces) /\ e \in Seq(Pieces)
      /\ s \in Seq(Pieces) /\ a \in Seq(Pieces)
      /\ Stream(c) = a \o (e \o s) /\ a = g \o t
  <2>1. DueEcho(c) = e
    BY <1>2 DEF DueEcho
  <2> QED
    BY <2>1, StreamParts DEF Stream, Echoes
<1>5. Stream(c)' = IF Gone(c) THEN a \o s ELSE Stream(c)
  <2>1. DueEcho(c)' = <<>>
    BY <1>3 DEF DueEcho
  <2>2. Stream(c)' = (g \o toClient'[c]) \o (<<>> \o s)
    BY <1>2, <2>1 DEF Stream, Echoes
  <2>3. <<>> \o s = s
    BY <1>4, ConcatEmptySeq
  <2> HIDE DEF g, t, e, s, a
  <2>4. (g \o (t \o e)) \o s = a \o (e \o s)
    <3>1. g \in Seq(Pieces) /\ t \in Seq(Pieces) /\ e \in Seq(Pieces)
      BY <1>4
    <3>2. (g \o t) \o e = g \o (t \o e)
      BY <3>1, Associate
    <3>3. a \in Seq(Pieces) /\ e \in Seq(Pieces) /\ s \in Seq(Pieces)
      BY <1>4
    <3>4. (a \o e) \o s = a \o (e \o s)
      BY <3>3, Associate
    <3> QED
      BY <1>4, <3>2, <3>4
  <2> QED
    BY <1>3, <1>4, <2>2, <2>3, <2>4
<1>6. c \notin cut => Len(e) = 2
  BY <1>2, EchoFacts, StreamParts DEF StreamInv, Balanced
<1>7. Echoes(c)' = IF Gone(c) THEN a ELSE a \o e
  <2>1. Echoes(c)' = g \o toClient'[c]
    BY <1>2 DEF Echoes
  <2> HIDE DEF g, t, e, a
  <2>2. g \in Seq(Pieces) /\ t \in Seq(Pieces) /\ e \in Seq(Pieces)
    BY <1>4
  <2>3. (g \o t) \o e = g \o (t \o e)
    BY <2>2, Associate
  <2> QED
    BY <1>3, <1>4, <2>1, <2>3
<1>8. ASSUME c \notin cut
      PROVE  Whole(a) /\ Whole(e) /\ Ordered(Stream(c), c, sent[c])
  BY <1>6, <1>8, Two DEF OrderOf, Orderly, Whole
<1> HIDE DEF g, t, e, s, a
<1>9. Orderly(c)'
  <2> SUFFICES ASSUME c \notin cut
               PROVE  Whole(Echoes(c)') /\ Ordered(Stream(c)', c, sent[c])
    BY <1>2 DEF Orderly, Ordered, InOrder, Whole
  <2>1. Whole(a) /\ Whole(e) /\ Ordered(a \o (e \o s), c, sent[c])
    BY <1>4, <1>8
  <2>2. Whole(a \o e)
    BY <1>4, <2>1, WholeSum
  <2>3. Ordered(a \o s, c, sent[c])
    BY <1>4, <2>1, OrderDrop
  <2> QED
    BY <1>4, <1>5, <1>7, <2>1, <2>2, <2>3
<1>10. Complete(c)'
  <2> SUFFICES ASSUME c \notin cut \cup halved
               PROVE  Complete(c)'
    BY <1>2 DEF Complete
  <2>1. Complete(c)
    BY DEF OrderOf
  <2>2. CASE ~Gone(c)
    <3>1. Stream(c)' = Stream(c)
      BY <1>5, <2>2
    <3> QED
      BY <1>2, <2>1, <3>1 DEF Complete, Numbered, Whole, Gone
  <2>3. CASE Gone(c)
    <3>1. Numbered(Stream(c)) /\ Whole(got[c])
      BY <2>1 DEF Complete
    <3> DEFINE L == Len(Stream(c))
               G == Len(g)
               T == Len(t)
               E == Len(e)
               Z == Len(s)
    <3>2. /\ L = G + T + E + Z /\ L <= G + 2 /\ E = 2
          /\ G \in Nat /\ T \in Nat /\ Z \in Nat
      <4>1. DueEcho(c) = e
        BY <1>2 DEF DueEcho, e
      <4>2. Len(Stream(c)) <= Len(g) + 2
        BY <2>1 DEF Complete, g
      <4> QED
        BY <1>6, <4>1, <4>2, StreamParts DEF g, t, s
    <3> HIDE DEF L, G, T, E, Z
    <3>3. T = 0 /\ Z = 0
      BY <3>2
    <3>4. s = <<>> /\ t = <<>>
      BY <1>4, <3>3, EmptySeq DEF T, Z
    <3>5. Stream(c)' = a /\ a = g
      BY <1>4, <1>5, <2>3, <3>4, ConcatEmptySeq
    <3>6. Numbered(a)
      <4> DEFINE r == e \o s
      <4>1. r \in Seq(Pieces) /\ Stream(c) = a \o r
        BY <1>4, ConcatClosed
      <4> HIDE DEF r
      <4>2. /\ DOMAIN a = 1..Len(a)
            /\ DOMAIN (a \o r) = 1..(Len(a) + Len(r))
            /\ Len(a) \in Nat /\ Len(r) \in Nat
            /\ \A i \in 1..Len(a) : (a \o r)[i] = a[i]
        BY <1>4, <4>1, Parts
      <4>3. \A i \in DOMAIN a : i \in DOMAIN (a \o r)
        BY <4>2
      <4> QED
        BY <3>1, <4>1, <4>2, <4>3 DEF Numbered
    <3>7. got'[c] = g /\ Whole(g) /\ Len(g) \in Nat
      BY <1>2, <3>1, StreamParts DEF g
    <3>8. Gone(c)' /\ cpc'[c] \notin {"start", "send"}
      BY <1>2, <2>3 DEF Gone
    <3>9. Len(a) = Len(g) /\ Len(g) <= Len(g) + 2
      BY <3>5, <3>7
    <3> QED
      BY <1>2, <3>5, <3>6, <3>7, <3>8, <3>9 DEF Complete, Numbered, Whole
  <2> QED
    BY <2>2, <2>3
<1> QED
  BY <1>9, <1>10 DEF OrderOf

LEMMA OrderStep == IInv /\ StreamInv /\ OrderInv /\ [Next]_vars => OrderInv'
<1> SUFFICES ASSUME IInv, StreamInv, OrderInv, [Next]_vars,
                    NEW d \in Clients
             PROVE  OrderOf(d)'
  BY DEF OrderInv, OrderOf
<1>0. OrderOf(d)
  BY DEF OrderInv, OrderOf
<1>1. ASSUME NEW c \in Clients, Connect(c) \/ ServerGone(c) \/ Leave(c)
      PROVE  OrderOf(d)'
  <2>1. /\ UNCHANGED <<got, toClient, toServer, recvBuf, sent, tpc, cut,
                       halved>>
        /\ cpc[c] \in {"start", "send", "read"}
        /\ \E pc \in {"send", "left", "killed"} :
               /\ pc = "send" => cpc[c] = "start"
               /\ cpc' = [cpc EXCEPT ![c] = pc]
    BY <1>1 DEF Connect, ServerGone, Leave, kernel, threads, clients
  <2>2. /\ Gone(d) => Gone(d)'
        /\ cpc'[d] \in {"start", "send"} => cpc[d] \in {"start", "send"}
    BY <2>1 DEF Gone, IInv, Types
  <2> QED
    BY <1>0, <2>1, <2>2, OrderKept
<1>2. ASSUME NEW c \in Clients, Send(c) PROVE OrderOf(d)'
  <2>1. CASE d = c
    BY <1>0, <1>2, <2>1, SendOrder
  <2>2. CASE d # c
    <3>1. /\ UNCHANGED <<got, toClient, recvBuf, tpc, cut, halved>>
          /\ toServer'[d] = toServer[d] /\ sent'[d] = sent[d]
          /\ cpc'[d] = cpc[d]
      BY <1>2, <2>2 DEF Send, threads, StreamInv, Streams, IInv, Types
    <3> QED
      BY <1>0, <3>1, OrderKept DEF Gone
  <2> QED
    BY <2>1, <2>2
<1>3. ASSUME NEW c \in Clients, Reading(c) PROVE OrderOf(d)'
  <2>1. PICK n \in 1..(2 * MaxMessages) : Receive(c, n)
    BY <1>3 DEF Reading
  <2>2. n \in Nat
    BY EchoAssumption
  <2>3. CASE d = c
    BY <1>0, <2>1, <2>2, <2>3, ReceiveOrder
  <2>4. CASE d # c
    <3>1. /\ UNCHANGED <<toServer, recvBuf, tpc, sent, cut>>
          /\ got'[d] = got[d] /\ toClient'[d] = toClient[d]
          /\ cpc'[d] = cpc[d] /\ (d \in halved => d \in halved')
      BY <2>1, <2>4 DEF Receive, threads, StreamInv, Streams, IInv, Types
    <3> QED
      BY <1>0, <3>1, OrderKept DEF Gone
  <2> QED
    BY <2>3, <2>4
<1>4. ASSUME NEW fd \in Fds, Accept(fd) PROVE OrderOf(d)'
  <2>1. UNCHANGED <<got, toClient, toServer, recvBuf, sent, tpc, cut, halved,
                    cpc>>
    BY <1>4 DEF Accept, threads, clients
  <2> QED
    BY <1>0, <2>1, OrderKept DEF Gone
<1>5. ASSUME NEW i \in 1..MaxInfos, CreateThread(i) PROVE OrderOf(d)'
  <2>1. /\ UNCHANGED <<got, toClient, toServer, sent, cut, halved, cpc>>
        /\ tpc' = [tpc EXCEPT ![owner[cfd]] = "read"]
        /\ tpc[owner[cfd]] = "none"
        /\ \E old \in Leftovers :
               recvBuf' = [recvBuf EXCEPT ![owner[cfd]] = old]
    BY <1>5 DEF CreateThread, kernel, clients, IInv, Accepted
  <2>2. /\ tpc'[d] = "write" <=> tpc[d] = "write"
        /\ tpc[d] = "write" => recvBuf'[d] = recvBuf[d]
    BY <2>1 DEF IInv, Types, StreamInv, Streams
  <2> QED
    BY <1>0, <2>1, <2>2, OrderKept DEF Gone
<1>6. ASSUME NEW c \in Clients, NEW n \in 1..(2 * MaxMessages),
             ThreadRead(c, n)
      PROVE  OrderOf(d)'
  <2>1. n \in Nat
    BY EchoAssumption
  <2>2. CASE d = c
    BY <1>0, <1>6, <2>1, <2>2, ThreadReadOrder
  <2>3. CASE d # c
    <3>1. Peer(c) = c
      BY <1>6, PeerOwn DEF ThreadRead, ThreadAt, Running
    <3>2. /\ UNCHANGED <<got, toClient, sent, halved, cpc>>
          /\ toServer'[d] = toServer[d] /\ recvBuf'[d] = recvBuf[d]
          /\ tpc'[d] = tpc[d] /\ (d \in cut => d \in cut')
      BY <1>6, <2>3, <3>1
         DEF ThreadRead, clients, StreamInv, Streams, IInv, Types
    <3> QED
      BY <1>0, <3>2, OrderKept DEF Gone
  <2> QED
    BY <2>2, <2>3
<1>7. ASSUME NEW c \in Clients,
             ThreadEnd(c) \/ ThreadFails(c) \/ ThreadClose(c)
      PROVE  OrderOf(d)'
  <2>1. /\ UNCHANGED <<got, toClient, toServer, recvBuf, sent, cut, halved,
                       cpc>>
        /\ tpc[c] # "write"
        /\ \/ tpc' = tpc
           \/ \E pc \in {"close", "done"} : tpc' = [tpc EXCEPT ![c] = pc]
    BY <1>7 DEF ThreadEnd, ThreadFails, ThreadClose, ThreadAt, kernel,
                threads, clients
  <2>2. tpc'[d] = "write" <=> tpc[d] = "write"
    BY <2>1 DEF IInv, Types
  <2> QED
    BY <1>0, <2>1, <2>2, OrderKept DEF Gone
<1>8. ASSUME NEW c \in Clients, ThreadWrite(c) PROVE OrderOf(d)'
  <2>1. CASE d = c
    BY <1>0, <1>8, <2>1, ThreadWriteOrder
  <2>2. CASE d # c
    <3>1. Peer(c) = c
      BY <1>8, PeerOwn DEF ThreadWrite, ThreadAt, Running
    <3>2. /\ UNCHANGED <<got, toServer, recvBuf, sent, cut, halved, cpc>>
          /\ toClient'[d] = toClient[d] /\ tpc'[d] = tpc[d]
      BY <1>8, <2>2, <3>1
         DEF ThreadWrite, clients, StreamInv, Streams, IInv, Types
    <3> QED
      BY <1>0, <3>2, OrderKept DEF Gone
  <2> QED
    BY <2>1, <2>2
<1>9. CASE UNCHANGED vars
  <2>1. UNCHANGED <<got, toClient, toServer, recvBuf, sent, tpc, cut, halved,
                    cpc>>
    BY <1>9 DEF vars, kernel, threads, clients
  <2> QED
    BY <1>0, <2>1, OrderKept DEF Gone
<1> QED
  BY <1>1, <1>2, <1>3, <1>4, <1>5, <1>6, <1>7, <1>8, <1>9
     DEF Next, Client, Main, Thread

LEMMA OrderInductive == Spec => [](IInv /\ StreamInv /\ OrderInv)
BY StreamsInductive, OrderInit, OrderStep, PTL DEF Spec

(* EchoesOwn: until the server reads a message of its in two parts, a      *)
(* client reads its own echoes only, each once and in order, whatever its  *)
(* thread found in recvBuf; and until it reads an echo in two parts itself,*)
(* every one of them.                                                      *)
THEOREM EchoesStayOwn == Spec => []EchoesOwn
<1>1. StreamInv /\ OrderInv => EchoesOwn
  <2> SUFFICES ASSUME StreamInv, OrderInv, NEW c \in Clients
               PROVE  /\ c \notin cut => InOrder(got[c], c)
                      /\ c \notin cut \cup halved =>
                             \A i \in DOMAIN got[c] :
                                 got[c][i].no = (i + 1) \div 2
    BY DEF EchoesOwn
  <2> DEFINE g == got[c]
             t == toClient[c]
             a == Echoes(c)
             r == DueEcho(c) \o toServer[c]
  <2>1. /\ g \in Seq(Pieces) /\ t \in Seq(Pieces) /\ a \in Seq(Pieces)
        /\ r \in Seq(Pieces) /\ a = g \o t /\ Stream(c) = a \o r
    BY StreamParts DEF Echoes, Stream
  <2>2. ASSUME c \notin cut PROVE InOrder(g, c)
    <3>1. InOrder(Stream(c), c)
      BY <2>2 DEF OrderInv, Orderly, Ordered
    <3> HIDE DEF g, t, a, r
    <3>2. InOrder(a \o r, c)
      BY <2>1, <3>1
    <3>3. InOrder(a, c)
      BY <2>1, <3>2, OrderFront
    <3>4. InOrder(g \o t, c)
      BY <2>1, <3>3
    <3> QED
      BY <2>1, <3>4, OrderFront
  <2>3. ASSUME c \notin cut \cup halved
        PROVE  \A i \in DOMAIN g : g[i].no = (i + 1) \div 2
    <3>1. Numbered(Stream(c))
      BY <2>3 DEF OrderInv, Complete
    <3> HIDE DEF g, t, a, r
    <3>2. /\ DOMAIN a = 1..Len(a) /\ DOMAIN (a \o r) = 1..(Len(a) + Len(r))
          /\ Len(a) \in Nat /\ Len(r) \in Nat
          /\ \A i \in 1..Len(a) : (a \o r)[i] = a[i]
      BY <2>1, Parts
    <3>3. /\ DOMAIN g = 1..Len(g) /\ Len(a) = Len(g) + Len(t)
          /\ Len(g) \in Nat /\ Len(t) \in Nat
          /\ \A i \in 1..Len(g) : (g \o t)[i] = g[i]
      BY <2>1, Parts
    <3>4. \A i \in DOMAIN g : i \in DOMAIN Stream(c) /\ Stream(c)[i] = g[i]
      BY <2>1, <3>2, <3>3
    <3> QED
      BY <3>1, <3>4 DEF Numbered
  <2> QED
    BY <2>2, <2>3
<1> QED
  BY <1>1, OrderInductive, PTL
=============================================================================
