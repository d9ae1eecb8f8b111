-------------------------- MODULE HttpRequestProofs ---------------------------
(***************************************************************************)
(* Proofs about HttpRequest: for every set of request lines and of header  *)
(* lines, every number of headers, every length of a body, every piece in  *)
(* which a request arrives, and every number of requests of a connection.  *)
(***************************************************************************)
EXTENDS HttpRequest, SequenceFacts

Symbols == {CR, LF, NUL, "byte"} \cup RequestLines \cup HeaderLines

(* The lines of a request, the blank one being the last of them.           *)
Lines(r) == Len(r.headers) + 2

LineText(r, i) == IF i = 1 THEN r.line ELSE r.headers[i - 1]

LineSymbols(r, i) ==
    (CASE i = 1 -> <<r.line>>
       [] i = Lines(r) -> <<>>
       [] OTHER -> <<r.headers[i - 1]>>)
    \o (IF i = r.broken THEN <<r.ending>> ELSE <<CR, LF>>)

(* Where a head without a broken line ends.                                *)
HeadSize(r) == 3 * Len(r.headers) + 5

(* The lines in front of line i end as they should.                        *)
WholeBefore(r, i) == r.broken = 0 \/ i <= r.broken

(* What Parse_Head has taken from the first m headers.                     *)
Seen(m) ==
    /\ url = request.line
    /\ url \in DOMAIN Outcome
    /\ linger = (\E j \in 1..m : request.headers[j] = KEEP_ALIVE)
    /\ contentLength = IF \E j \in 1..m : request.headers[j] = NUMBER_FIRST
                       THEN BODY ELSE 0

(* The places the parser can be in: in front of the first line, of another *)
(* line of the head, or behind the head; a first line that is refused; and *)
(* a request that is read to its last byte.                                *)
AtFirstLine ==
    /\ check = "REQUESTLINE"
    /\ pc \in {"read", "parse"}
    /\ checked = 0
    /\ ~linger
    /\ contentLength = 0

AtLine(k) ==
    /\ check = "HEADER"
    /\ pc \in {"read", "parse"}
    /\ checked = 3 * k
    /\ WholeBefore(request, k + 1)
    /\ Seen(k - 1)

AtBody ==
    /\ check = "CONTENT"
    /\ pc \in {"read", "parse"}
    /\ request.broken = 0
    /\ request.body # <<>>
    /\ checked >= HeadSize(request)
    /\ Proper(request) => checked = HeadSize(request)
    /\ Seen(Len(request.headers))

Refused ==
    /\ pc \in {"respond", "write"}
    /\ request.line \notin DOMAIN Outcome
    /\ code = "BAD_REQUEST"
    /\ ~linger

AllRead ==
    /\ pc \in {"file", "respond", "write"}
    /\ stream = <<>>
    /\ Seen(Len(request.headers))
    /\ pc # "file" => code = Outcome[url]

Place ==
    \/ AtFirstLine
    \/ \E k \in 1..(Len(request.headers) + 1) : AtLine(k)
    \/ AtBody
    \/ Refused
    \/ AllRead

Live == pc \notin {"closed", "terminated"}

(* Between two requests.                                                   *)
Fresh ==
    /\ pc = "read"
    /\ read = <<>>
    /\ checked = 0
    /\ start = 0
    /\ check = "REQUESTLINE"
    /\ contentLength = 0
    /\ ~linger

ParserPlace ==
    Live => IF request = NoRequest THEN Fresh ELSE Place

AnswerMade ==
    pc = "write" => answer = [status |-> Status[code], keepAlive |-> linger]

(* The variables of the control, and what is left of the request.          *)
Control ==
    /\ request \in Requests \cup {NoRequest}
    /\ check \in {"REQUESTLINE", "HEADER", "CONTENT"}
    /\ lineOk \in BOOLEAN
    /\ contentLength \in {0, BODY}
    /\ url \in DOMAIN Outcome \cup {NONE}
    /\ linger \in BOOLEAN
    /\ code \in DOMAIN Status \cup {"NO_REQUEST"}
    /\ answer \in [status : Nat, keepAlive : BOOLEAN]
    /\ pc \in {"read", "parse", "file", "respond", "write", "closed",
               "terminated"}

Suffix ==
    \E n \in 0..Len(Wire(request)) :
        stream = SubSeq(Wire(request), n + 1, Len(Wire(request)))

(* No line end is left in what has been taken as lines.                    *)
Buffer ==
    /\ read \in Seq(Symbols)
    /\ start = checked
    /\ checked \in 0..Len(read)
    /\ \A i \in 1..checked : read[i] \notin {CR, LF}

(* What has been read and not taken is as it was sent, and what has not    *)
(* been read is still to be sent.                                          *)
Agrees ==
    pc # "closed" =>
        /\ Len(read) <= Len(Wire(request))
        /\ \A i \in (checked + 1)..Len(read) : read[i] = Wire(request)[i]
        /\ stream = SubSeq(Wire(request), Len(read) + 1, Len(Wire(request)))

(* A parser that waits, or that has tried what it can, is owed a byte.     *)
MoreToCome ==
    /\ Proper(request)
    /\ pc = "read" \/ (pc = "parse" /\ ~lineOk)
    => stream # <<>>

IInv ==
    /\ Control
    /\ Suffix
    /\ Buffer
    /\ Agrees
    /\ ParserPlace
    /\ AnswerMade
    /\ MoreToCome
-----------------------------------------------------------------------------
(***************************************************************************)
(* The symbols of a request.                                               *)
(***************************************************************************)

(* FlattenSeq, without its recursive function: a sequence of prefixes.     *)
PartialJoins(f, m, seqs) ==
    /\ f[1] = seqs[1]
    /\ \A i \in 2..m : f[i] = f[i - 1] \o seqs[i]

LEMMA PartialJoinsExist ==
    ASSUME NEW S, NEW seqs \in Seq(Seq(S))
    PROVE  \A m \in 1..Len(seqs) :
               \E f \in [1..m -> Seq(S)] : PartialJoins(f, m, seqs)
<1> DEFINE Has(m) == \E f \in [1..m -> Seq(S)] : PartialJoins(f, m, seqs)
           T == {m \in 1..Len(seqs) : ~Has(m)}
<1>1. Len(seqs) \in Nat /\ \A i \in 1..Len(seqs) : seqs[i] \in Seq(S)
  BY ElementOfSeq, LenProperties
<1>2. SUFFICES ASSUME T # {} PROVE FALSE
  OBVIOUS
<1>3. T \in SUBSET Nat
  BY <1>1
<1>4. PICK n \in T : \A m \in T : n <= m
  BY <1>2, <1>3, LeastExists
<1>5. n \in 1..Len(seqs) /\ ~Has(n)
  OBVIOUS
<1>6. CASE n = 1
  <2> DEFINE g == [i \in 1..1 |-> seqs[1]]
  <2>1. g \in [1..1 -> Seq(S)] /\ PartialJoins(g, 1, seqs)
    BY <1>1, <1>5, <1>6 DEF PartialJoins
  <2> QED
    BY <1>5, <1>6, <2>1
<1>7. CASE n # 1
  <2>1. n - 1 \in 1..Len(seqs)
    BY <1>1, <1>5, <1>7
  <2>2. Has(n - 1)
    <3> HIDE DEF Has
    <3> QED
      BY <1>1, <1>4, <1>5, <2>1
  <2>3. PICK f \in [1..(n - 1) -> Seq(S)] : PartialJoins(f, n - 1, seqs)
    BY <2>2
  <2> DEFINE last == f[n - 1] \o seqs[n]
             g == [i \in 1..n |-> IF i = n THEN last ELSE f[i]]
  <2>4. last \in Seq(S)
    BY <1>1, <1>5, <2>1, <2>3, ConcatClosed
  <2> HIDE DEF last
  <2>5. g \in [1..n -> Seq(S)]
    BY <1>1, <1>5, <2>1, <2>3, <2>4
  <2>6. g[1] = seqs[1]
    BY <1>1, <1>5, <1>7, <2>3 DEF PartialJoins
  <2>7. ASSUME NEW i \in 2..n PROVE g[i] = g[i - 1] \o seqs[i]
    <3>1. i \in 1..n /\ i - 1 \in 1..n /\ i - 1 # n
      BY <1>1, <1>5
    <3>2. g[i - 1] = f[i - 1]
      BY <3>1
    <3>3. CASE i = n
      BY <3>1, <3>2, <3>3 DEF last
    <3>4. CASE i # n
      <4>1. i \in 2..(n - 1)
        BY <1>1, <1>5, <3>4
      <4>2. f[i] = f[i - 1] \o seqs[i]
        BY <2>3, <4>1 DEF PartialJoins
      <4> QED
        BY <3>1, <3>2, <3>4, <4>2
    <3> QED
      BY <3>3, <3>4
  <2> QED
    BY <1>5, <2>5, <2>6, <2>7 DEF PartialJoins
<1> QED
  BY <1>5, <1>6, <1>7

LEMMA Flattened ==
    ASSUME NEW S, NEW seqs \in Seq(Seq(S)), seqs # <<>>
    PROVE  \E f \in [1..Len(seqs) -> Seq(S)] :
               /\ PartialJoins(f, Len(seqs), seqs)
               /\ FlattenSeq(seqs) = f[Len(seqs)]
<1> DEFINE n == Len(seqs)
           F(g) == [i \in 1..n |-> IF i = 1 THEN seqs[i]
                                   ELSE g[i - 1] \o seqs[i]]
           h == CHOOSE g : g = F(g)
<1>1. n \in Nat /\ n # 0
  BY EmptySeq, LenProperties
<1>2. PICK f \in [1..n -> Seq(S)] : PartialJoins(f, n, seqs)
  BY <1>1, PartialJoinsExist
<1>3. f = F(f)
  <2>1. ASSUME NEW i \in 1..n PROVE f[i] = F(f)[i]
    <3>1. CASE i = 1
      BY <1>2, <3>1 DEF PartialJoins
    <3>2. CASE i # 1
      <4>1. i \in 2..n
        BY <1>1, <3>2
      <4>2. f[i] = f[i - 1] \o seqs[i]
        BY <1>2, <4>1 DEF PartialJoins
      <4> QED
        BY <3>2, <4>2
    <3> QED
      BY <3>1, <3>2
  <2>2. DOMAIN f = 1..n /\ DOMAIN F(f) = 1..n
    BY <1>2
  <2> QED
    BY <1>2, <2>1, <2>2
<1>4. h = F(h)
  <2> HIDE DEF F
  <2> QED
    BY <1>3, Zenon
<1>5. FlattenSeq(seqs) = h[n]
  BY <1>1 DEF FlattenSeq
<1> HIDE DEF h
<1>6. \A i \in 1..n : h[i] = IF i = 1 THEN seqs[i] ELSE h[i - 1] \o seqs[i]
  <2>1. \A i \in 1..n :
            F(h)[i] = IF i = 1 THEN seqs[i] ELSE h[i - 1] \o seqs[i]
    OBVIOUS
  <2> HIDE DEF F
  <2> QED
    BY <1>4, <2>1
<1>7. \A i \in 1..n : h[i] = f[i]
  <2> DEFINE T == {i \in 1..n : h[i] # f[i]}
  <2>1. SUFFICES ASSUME T # {} PROVE FALSE
    OBVIOUS
  <2>2. T \in SUBSET Nat
    BY <1>1
  <2>3. PICK j \in T : \A m \in T : j <= m
    BY <2>1, <2>2, LeastExists
  <2>4. j \in 1..n /\ h[j] # f[j]
    OBVIOUS
  <2>5. j # 1
    BY <1>2, <1>6, <2>4 DEF PartialJoins
  <2>6. j - 1 \in 1..n /\ j - 1 \notin T
    BY <1>1, <2>3, <2>4, <2>5
  <2>7. h[j - 1] = f[j - 1]
    BY <2>6
  <2>8. j \in 2..n
    BY <1>1, <2>4, <2>5
  <2> QED
    BY <1>2, <1>6, <2>4, <2>5, <2>7, <2>8 DEF PartialJoins
<1>8. n \in 1..n
  BY <1>1
<1> QED
  BY <1>2, <1>5, <1>7, <1>8

(* A longer prefix begins with a shorter one.                              *)
LEMMA PartialJoinsExtend ==
    ASSUME NEW S, NEW m \in Nat, NEW seqs, NEW f \in [1..m -> Seq(S)],
           \A i \in 1..m : seqs[i] \in Seq(S),
           PartialJoins(f, m, seqs), NEW i \in 1..m, NEW k \in i..m
    PROVE  /\ Len(f[i]) <= Len(f[k])
           /\ \A p \in 1..Len(f[i]) : f[k][p] = f[i][p]
<1> DEFINE Good(q) == /\ Len(f[i]) <= Len(f[q])
                      /\ \A p \in 1..Len(f[i]) : f[q][p] = f[i][p]
           T == {q \in i..m : ~Good(q)}
<1>1. SUFFICES ASSUME T # {} PROVE FALSE
  OBVIOUS
<1>2. T \in SUBSET Nat
  OBVIOUS
<1>3. PICK q \in T : \A p \in T : q <= p
  BY <1>1, <1>2, LeastExists
<1>4. q \in i..m /\ ~Good(q)
  OBVIOUS
<1>5. Len(f[i]) \in Nat
  BY LenProperties
<1>6. q # i
  BY <1>4, <1>5
<1>7. q - 1 \in i..m /\ q - 1 \notin T /\ q \in 2..m /\ q - 1 \in 1..m
  BY <1>3, <1>4, <1>6
<1>8. Good(q - 1)
  BY <1>7
<1> DEFINE a == f[q - 1]
           b == seqs[q]
           d == f[q]
<1>9. a \in Seq(S) /\ b \in Seq(S) /\ d = a \o b
  <2>1. f[q] = f[q - 1] \o seqs[q]
    BY <1>7 DEF PartialJoins
  <2>2. f[q - 1] \in Seq(S) /\ seqs[q] \in Seq(S)
    BY <1>7
  <2> QED
    BY <2>1, <2>2
<1>10. d = f[q] /\ a = f[q - 1]
  OBVIOUS
<1> HIDE DEF a, b, d
<1>11. /\ Len(a) \in Nat /\ Len(b) \in Nat
       /\ Len(a \o b) = Len(a) + Len(b)
       /\ \A p \in 1..Len(a) : (a \o b)[p] = a[p]
  BY <1>9, Parts
<1>12. /\ Len(f[i]) <= Len(a)
       /\ \A p \in 1..Len(f[i]) : a[p] = f[i][p]
  BY <1>8, <1>10
<1>13. /\ Len(f[i]) <= Len(d)
       /\ \A p \in 1..Len(f[i]) : d[p] = f[i][p]
  BY <1>5, <1>9, <1>11, <1>12
<1> QED
  BY <1>4, <1>10, <1>13
-----------------------------------------------------------------------------
(* What the clients send is what the symbols are.                          *)
LEMMA RequestFacts ==
    ASSUME NEW r \in Requests
    PROVE  /\ Len(r.headers) \in 0..MaxHeaders
           /\ r.headers \in Seq(HeaderLines)
           /\ \A i \in 1..Len(r.headers) : r.headers[i] \in HeaderLines
           /\ r.line \in RequestLines
           /\ r.broken \in Nat /\ r.broken <= Lines(r)
           /\ r.ending \in {CR, LF}
           /\ r.body = <<>> \/ r.body \in Bodies
           /\ Contains(r.headers, NUMBER_FIRST) <=> r.body # <<>>
           /\ r # NoRequest
<1>1. /\ r \in [line : RequestLines,
                headers : BoundedSeq(HeaderLines, MaxHeaders),
                body : {<<>>} \cup Bodies,
                broken : 0..(MaxHeaders + 2), ending : {CR, LF}]
      /\ r.broken <= Len(r.headers) + 2
      /\ Contains(r.headers, NUMBER_FIRST) <=> r.body # <<>>
  BY DEF Requests
<1>2. PICK m \in 0..MaxHeaders : r.headers \in [1..m -> HeaderLines]
  BY <1>1 DEF BoundedSeq, SeqOf
<1>3. MaxHeaders \in Nat /\ NONE \notin RequestLines
  BY RequestAssumption
<1>4. r.headers \in Seq(HeaderLines) /\ Len(r.headers) = m
  BY <1>2, <1>3
<1>5. r # NoRequest
  BY <1>1, <1>3 DEF NoRequest
<1>6. /\ r.line \in RequestLines /\ r.body \in {<<>>} \cup Bodies
      /\ r.broken \in 0..(MaxHeaders + 2) /\ r.ending \in {CR, LF}
  BY <1>1
<1> QED
  BY <1>1, <1>2, <1>3, <1>4, <1>5, <1>6 DEF Lines

LEMMA BodyFacts ==
    ASSUME NEW b, b = <<>> \/ b \in Bodies
    PROVE  /\ b \in Seq(Symbols)
           /\ b # <<>> => Len(b) = BODY /\ b[1] # LF
           /\ b = <<>> => Len(b) = 0
<1>1. BODY \in Nat \ {0}
  BY RequestAssumption
<1>2. CASE b \in Bodies
  <2>1. /\ b \in [1..BODY -> Symbols]
        /\ b[1] # LF
    BY <1>1, <1>2 DEF Bodies, Symbols, CR, LF
  <2> QED
    BY <1>1, <2>1
<1>3. CASE b = <<>>
  BY <1>3
<1> QED
  BY <1>2, <1>3

LEMMA ShortSequences ==
    /\ \A x, y, z : <<x>> \o <<y, z>> = <<x, y, z>>
    /\ \A x, y : <<x>> \o <<y>> = <<x, y>>
    /\ \A S : \A x, y, z \in S : /\ <<x, y, z>> \in Seq(S)
                                 /\ Len(<<x, y, z>>) = 3
    /\ \A S : \A x, y \in S : <<x, y>> \in Seq(S) /\ Len(<<x, y>>) = 2
    /\ \A S : \A x \in S : <<x>> \in Seq(S) /\ Len(<<x>>) = 1
<1>1. ASSUME NEW x, NEW y, NEW z
      PROVE  <<x>> \o <<y, z>> = <<x, y, z>>
  <2> DEFINE S == {x, y, z}
             a == <<x>>
             b == <<y, z>>
             d == <<x, y, z>>
  <2>1. /\ a \in Seq(S) /\ Len(a) = 1 /\ a[1] = x
        /\ b \in Seq(S) /\ Len(b) = 2 /\ b[1] = y /\ b[2] = z
        /\ d \in Seq(S) /\ Len(d) = 3 /\ d[1] = x /\ d[2] = y /\ d[3] = z
    OBVIOUS
  <2> HIDE DEF S, a, b, d
  <2>2. /\ a \o b \in Seq(S) /\ Len(a \o b) = 3
        /\ (a \o b)[1] = x /\ (a \o b)[2] = y /\ (a \o b)[3] = z
    <3>1. /\ a \o b \in Seq(S) /\ Len(a \o b) = Len(a) + Len(b)
          /\ \A i \in 1..(Len(a) + Len(b)) :
               (a \o b)[i] = IF i <= Len(a) THEN a[i] ELSE b[i - Len(a)]
      BY <2>1, ConcatProperties, Zenon
    <3> QED
      BY <2>1, <3>1
  <2>3. a \o b = d
    BY <2>1, <2>2, SeqEqual
  <2> QED
    BY <2>3 DEF a, b, d
<1>2. ASSUME NEW x, NEW y
      PROVE  <<x>> \o <<y>> = <<x, y>>
  <2> DEFINE S == {x, y}
             a == <<x>>
             b == <<y>>
             d == <<x, y>>
  <2>1. /\ a \in Seq(S) /\ Len(a) = 1 /\ a[1] = x
        /\ b \in Seq(S) /\ Len(b) = 1 /\ b[1] = y
        /\ d \in Seq(S) /\ Len(d) = 2 /\ d[1] = x /\ d[2] = y
    OBVIOUS
  <2> HIDE DEF S, a, b, d
  <2>2. /\ a \o b \in Seq(S) /\ Len(a \o b) = 2
        /\ (a \o b)[1] = x /\ (a \o b)[2] = y
    <3>1. /\ a \o b \in Seq(S) /\ Len(a \o b) = Len(a) + Len(b)
          /\ \A i \in 1..(Len(a) + Len(b)) :
               (a \o b)[i] = IF i <= Len(a) THEN a[i] ELSE b[i - Len(a)]
      BY <2>1, ConcatProperties, Zenon
    <3> QED
      BY <2>1, <3>1
  <2>3. a \o b = d
    BY <2>1, <2>2, SeqEqual
  <2> QED
    BY <2>3 DEF a, b, d
<1>3. ASSUME NEW S, NEW x \in S, NEW y \in S, NEW z \in S
      PROVE  <<x, y, z>> \in Seq(S) /\ Len(<<x, y, z>>) = 3
  OBVIOUS
<1>4. ASSUME NEW S, NEW x \in S, NEW y \in S
      PROVE  <<x, y>> \in Seq(S) /\ Len(<<x, y>>) = 2
  OBVIOUS
<1>5. ASSUME NEW S, NEW x \in S
      PROVE  <<x>> \in Seq(S) /\ Len(<<x>>) = 1
  OBVIOUS
<1> QED
  BY <1>1, <1>2, <1>3, <1>4, <1>5

LEMMA LineSymbolsFacts ==
    ASSUME NEW r \in Requests, NEW i \in 1..Lines(r)
    PROVE  /\ LineSymbols(r, i) \in Seq(Symbols)
           /\ i < Lines(r) /\ i # r.broken =>
                /\ Len(LineSymbols(r, i)) = 3
                /\ LineSymbols(r, i)[1] = LineText(r, i)
                /\ LineSymbols(r, i)[2] = CR
                /\ LineSymbols(r, i)[3] = LF
           /\ i < Lines(r) /\ i = r.broken =>
                /\ Len(LineSymbols(r, i)) = 2
                /\ LineSymbols(r, i)[1] = LineText(r, i)
                /\ LineSymbols(r, i)[2] = r.ending
           /\ i = Lines(r) /\ i # r.broken =>
                /\ Len(LineSymbols(r, i)) = 2
                /\ LineSymbols(r, i)[1] = CR
                /\ LineSymbols(r, i)[2] = LF
           /\ i = Lines(r) /\ i = r.broken =>
                /\ Len(LineSymbols(r, i)) = 1
                /\ LineSymbols(r, i)[1] = r.ending
           /\ i < Lines(r) => /\ LineText(r, i) \notin {CR, LF}
                              /\ LineText(r, i) \in Symbols
<1>1. /\ Len(r.headers) \in Nat /\ MaxHeaders \in Nat
      /\ r.line \in RequestLines /\ r.ending \in {CR, LF}
      /\ \A j \in 1..Len(r.headers) : r.headers[j] \in HeaderLines
  BY RequestFacts, RequestAssumption
<1>2. Lines(r) = Len(r.headers) + 2
  BY DEF Lines
<1> DEFINE t == LineText(r, i)
<1>3. i < Lines(r) => t \in RequestLines \cup HeaderLines
  BY <1>1, <1>2 DEF LineText
<1>4. i < Lines(r) => t \notin {CR, LF} /\ t \in Symbols
  BY <1>3, RequestAssumption DEF Symbols
<1>5. {CR, LF, r.ending} \subseteq Symbols
  BY <1>1 DEF Symbols
<1>6. LineSymbols(r, i) =
        (IF i = Lines(r) THEN <<>> ELSE <<t>>)
        \o (IF i = r.broken THEN <<r.ending>> ELSE <<CR, LF>>)
  BY <1>1, <1>2 DEF LineSymbols, LineText
<1> DEFINE l == LineSymbols(r, i)
           e == r.ending
<1>7. e = r.ending
  OBVIOUS
<1> HIDE DEF t, e
<1>8. CASE i < Lines(r) /\ i # r.broken
  <2>1. l = <<t>> \o <<CR, LF>>
    BY <1>2, <1>1, <1>6, <1>8
  <2>2. l = <<t, CR, LF>>
    BY <2>1, ShortSequences, Zenon
  <2>3. l \in Seq(Symbols) /\ Len(l) = 3
    BY <1>4, <1>5, <1>8, <2>2, ShortSequences
  <2> QED
    BY <1>4, <1>5, <1>8, <2>2, <2>3 DEF t
<1>9. CASE i < Lines(r) /\ i = r.broken
  <2>1. l = <<t>> \o <<e>>
    BY <1>2, <1>1, <1>6, <1>7, <1>9
  <2>2. l = <<t, e>>
    BY <2>1, ShortSequences, Zenon
  <2>3. l \in Seq(Symbols) /\ Len(l) = 2
    BY <1>4, <1>5, <1>7, <1>9, <2>2, ShortSequences
  <2> QED
    BY <1>4, <1>5, <1>7, <1>9, <2>2, <2>3 DEF t
<1>10. CASE i = Lines(r) /\ i # r.broken
  <2>1. l = <<>> \o <<CR, LF>>
    BY <1>2, <1>1, <1>6, <1>10
  <2>2. l = <<CR, LF>>
    BY <2>1
  <2>3. l \in Seq(Symbols) /\ Len(l) = 2
    BY <1>5, <2>2, ShortSequences
  <2> QED
    BY <1>1, <1>2, <1>10, <2>2, <2>3
<1>11. CASE i = Lines(r) /\ i = r.broken
  <2>1. l = <<>> \o <<e>>
    BY <1>2, <1>1, <1>6, <1>7, <1>11
  <2>2. l = <<e>>
    BY <2>1
  <2>3. l \in Seq(Symbols) /\ Len(l) = 1
    BY <1>5, <1>7, <2>2, ShortSequences
  <2> QED
    BY <1>1, <1>2, <1>7, <1>11, <2>2, <2>3
<1> QED
  BY <1>1, <1>2, <1>8, <1>9, <1>10, <1>11
-----------------------------------------------------------------------------
(* Where the lines of a request are, up to the first broken one, which has *)
(* no CR LF behind its text; and the body of a request without one.        *)
WholeLines(r, w) ==
    \A i \in 1..(Lines(r) - 1) :
        WholeBefore(r, i + 1) => /\ 3 * i <= Len(w)
                                 /\ w[3 * i - 2] = LineText(r, i)
                                 /\ w[3 * i - 1] = CR
                                 /\ w[3 * i] = LF

BlankLine(r, w) ==
    r.broken = 0 => /\ HeadSize(r) <= Len(w)
                    /\ w[HeadSize(r) - 1] = CR
                    /\ w[HeadSize(r)] = LF

BodyBehind(r, w) ==
    r.broken = 0 =>
        /\ Len(w) = HeadSize(r) + Len(r.body)
        /\ \A j \in 1..Len(r.body) : w[HeadSize(r) + j] = r.body[j]

BrokenLine(r, w) ==
    r.broken \in 1..(Lines(r) - 1) =>
        /\ 3 * r.broken - 1 <= Len(w)
        /\ w[3 * r.broken - 2] = LineText(r, r.broken)
        /\ w[3 * r.broken - 1] = r.ending
        /\ 3 * r.broken <= Len(w) => w[3 * r.broken] # LF

BrokenEnd(r, w) ==
    r.broken = Lines(r) =>
        /\ 3 * r.broken - 2 <= Len(w)
        /\ w[3 * r.broken - 2] = r.ending
        /\ 3 * r.broken - 1 <= Len(w) => w[3 * r.broken - 1] # LF

WireShape(r, w) ==
    /\ w \in Seq(Symbols)
    /\ WholeLines(r, w)
    /\ BlankLine(r, w)
    /\ BodyBehind(r, w)
    /\ BrokenLine(r, w)
    /\ BrokenEnd(r, w)

(* The symbols of line i of the head h, if all lines before are whole.     *)
Stands(r, h, i) ==
    /\ Len(h) = 3 * (i - 1) + Len(LineSymbols(r, i))
    /\ \A j \in 1..Len(LineSymbols(r, i)) :
           h[3 * (i - 1) + j] = LineSymbols(r, i)[j]

LEMMA LinesStand ==
    ASSUME NEW r \in Requests,
           NEW f \in [1..Lines(r) -> Seq(Symbols)],
           NEW seqs, \A i \in 1..Lines(r) : seqs[i] = LineSymbols(r, i),
           PartialJoins(f, Lines(r), seqs)
    PROVE  \A i \in 1..Lines(r) : WholeBefore(r, i) => Stands(r, f[i], i)
<1> DEFINE T == {i \in 1..Lines(r) : WholeBefore(r, i) /\ ~Stands(r, f[i], i)}
<1>1. SUFFICES ASSUME T # {} PROVE FALSE
  OBVIOUS
<1>2. Lines(r) \in Nat /\ Lines(r) >= 2 /\ r.broken \in Nat
  BY RequestFacts DEF Lines
<1>3. T \in SUBSET Nat
  BY <1>2
<1>4. PICK i \in T : \A k \in T : i <= k
  BY <1>1, <1>3, LeastExists
<1>5. i \in 1..Lines(r) /\ WholeBefore(r, i) /\ ~Stands(r, f[i], i)
  OBVIOUS
<1>6. LineSymbols(r, i) \in Seq(Symbols)
  BY <1>5, LineSymbolsFacts
<1>7. i # 1
  <2>1. ASSUME i = 1 PROVE Stands(r, f[i], i)
    <3>1. f[1] = LineSymbols(r, 1)
      BY <1>2 DEF PartialJoins
    <3>2. Len(LineSymbols(r, 1)) \in Nat
      BY <1>6, <2>1, LenProperties
    <3> QED
      BY <2>1, <3>1, <3>2 DEF Stands
  <2> QED
    BY <1>5, <2>1
<1>8. i - 1 \in 1..Lines(r) /\ i - 1 < Lines(r) /\ i \in 2..Lines(r)
  BY <1>2, <1>5, <1>7
<1>9. WholeBefore(r, i - 1) /\ i - 1 # r.broken
  BY <1>2, <1>5, <1>8 DEF WholeBefore
<1>10. Stands(r, f[i - 1], i - 1)
  BY <1>4, <1>8, <1>9
<1>11. Len(LineSymbols(r, i - 1)) = 3
  BY <1>8, <1>9, LineSymbolsFacts
<1>12. Len(f[i - 1]) = 3 * (i - 1)
  <2>1. Len(f[i - 1]) = 3 * ((i - 1) - 1) + Len(LineSymbols(r, i - 1))
    BY <1>10 DEF Stands
  <2>2. i \in Int
    BY <1>2, <1>5
  <2>3. Len(f[i - 1]) = 3 * ((i - 1) - 1) + 3
    BY <1>11, <2>1, Zenon
  <2>4. 3 * ((i - 1) - 1) + 3 = 3 * (i - 1)
    BY <2>2
  <2> QED
    BY <2>3, <2>4, Zenon
<1> DEFINE a == f[i - 1]
           b == LineSymbols(r, i)
           d == f[i]
<1>13. a \in Seq(Symbols) /\ b \in Seq(Symbols) /\ d = a \o b
  BY <1>5, <1>6, <1>8 DEF PartialJoins
<1>14. Len(a) = 3 * (i - 1)
  BY <1>12
<1>15. Stands(r, d, i) <=> /\ Len(d) = 3 * (i - 1) + Len(b)
                           /\ \A j \in 1..Len(b) : d[3 * (i - 1) + j] = b[j]
  BY DEF Stands
<1>16. ~Stands(r, d, i)
  BY <1>5
<1> HIDE DEF a, b, d
<1>17. Stands(r, d, i)
  <2>1. /\ Len(b) \in Nat
        /\ Len(a \o b) = Len(a) + Len(b)
        /\ \A j \in 1..Len(b) : (a \o b)[Len(a) + j] = b[j]
    BY <1>13, Parts
  <2> QED
    BY <1>13, <1>14, <1>15, <2>1
<1> QED
  BY <1>16, <1>17

LEMMA WireFacts == \A r \in Requests : WireShape(r, Wire(r))
<1> SUFFICES ASSUME NEW r \in Requests PROVE WireShape(r, Wire(r))
  OBVIOUS
<1> DEFINE n == Lines(r)
           H == Len(r.headers)
           L == [i \in 1..n |-> LineSymbols(r, i)]
           w == Wire(r)
<1>1. /\ H \in Nat /\ n = H + 2 /\ HeadSize(r) = 3 * (n - 1) + 2
      /\ r.broken \in 0..n /\ r # NoRequest
      /\ r.body = <<>> \/ r.body \in Bodies
  BY RequestFacts, RequestAssumption DEF Lines, HeadSize
<1>2. \A i \in 1..n : LineSymbols(r, i) \in Seq(Symbols)
  BY LineSymbolsFacts
<1>3. L \in Seq(Seq(Symbols)) /\ Len(L) = n /\ L # <<>>
  <2>1. L \in [1..n -> Seq(Symbols)]
    BY <1>2
  <2>2. n \in Nat /\ n # 0
    BY <1>1
  <2> HIDE DEF L
  <2> QED
    BY <2>1, <2>2
<1>4. w = FlattenSeq(L) \o r.body
  BY <1>1 DEF Wire, LineSymbols, Lines
<1>5. \A i \in 1..n : L[i] = LineSymbols(r, i)
  OBVIOUS
<1> HIDE DEF L
<1>6. PICK f \in [1..n -> Seq(Symbols)] :
          PartialJoins(f, n, L) /\ FlattenSeq(L) = f[n]
  BY <1>3, Flattened
<1>7. \A i \in 1..n : WholeBefore(r, i) => Stands(r, f[i], i)
  BY <1>5, <1>6, LinesStand
<1>8. \A i \in 1..n : \A k \in i..n :
          /\ Len(f[i]) <= Len(f[k])
          /\ \A p \in 1..Len(f[i]) : f[k][p] = f[i][p]
  <2>1. n \in Nat /\ \A i \in 1..n : L[i] \in Seq(Symbols)
    BY <1>1, <1>2, <1>5
  <2>2. ASSUME NEW i \in 1..n, NEW k \in i..n
        PROVE  /\ Len(f[i]) <= Len(f[k])
               /\ \A p \in 1..Len(f[i]) : f[k][p] = f[i][p]
    <3> HIDE DEF n
    <3> QED
      BY <1>6, <2>1, PartialJoinsExtend
  <2> QED
    BY <2>2
<1> DEFINE h == f[n]
           b == r.body
<1>9. h \in Seq(Symbols) /\ b \in Seq(Symbols) /\ w = h \o b
  BY <1>1, <1>4, <1>6, BodyFacts
<1>10. \A i \in 1..n : /\ Len(f[i]) <= Len(h)
                       /\ \A p \in 1..Len(f[i]) : h[p] = f[i][p]
  BY <1>1, <1>8
<1>11. \A i \in 1..n : Len(f[i]) \in Nat
  BY <1>6, LenProperties
<1> HIDE DEF h, b, w
<1>12. /\ w \in Seq(Symbols)
       /\ Len(h) \in Nat /\ Len(b) \in Nat
       /\ Len(w) = Len(h) + Len(b)
       /\ \A p \in 1..Len(h) : w[p] = h[p]
       /\ \A p \in 1..Len(b) : w[Len(h) + p] = b[p]
  BY <1>9, Parts
<1>13. \A i \in 1..n : /\ Len(f[i]) <= Len(w)
                       /\ \A p \in 1..Len(f[i]) : w[p] = f[i][p]
  BY <1>10, <1>11, <1>12
<1>14. \A i \in 1..n : WholeBefore(r, i) =>
           /\ Len(f[i]) = 3 * (i - 1) + Len(LineSymbols(r, i))
           /\ Len(f[i]) <= Len(w)
           /\ \A j \in 1..Len(LineSymbols(r, i)) :
                  w[3 * (i - 1) + j] = LineSymbols(r, i)[j]
  <2> SUFFICES ASSUME NEW i \in 1..n, WholeBefore(r, i)
               PROVE  /\ Len(f[i]) = 3 * (i - 1) + Len(LineSymbols(r, i))
                      /\ Len(f[i]) <= Len(w)
                      /\ \A j \in 1..Len(LineSymbols(r, i)) :
                             w[3 * (i - 1) + j] = LineSymbols(r, i)[j]
    OBVIOUS
  <2>1. /\ Len(f[i]) = 3 * (i - 1) + Len(LineSymbols(r, i))
        /\ \A j \in 1..Len(LineSymbols(r, i)) :
               f[i][3 * (i - 1) + j] = LineSymbols(r, i)[j]
    BY <1>7 DEF Stands
  <2>2. Len(f[i]) <= Len(w) /\ \A p \in 1..Len(f[i]) : w[p] = f[i][p]
    BY <1>13
  <2>3. Len(LineSymbols(r, i)) \in Nat
    BY <1>2, LenProperties
  <2>4. \A j \in 1..Len(LineSymbols(r, i)) : 3 * (i - 1) + j \in 1..Len(f[i])
    BY <1>1, <2>1, <2>3
  <2> QED
    BY <2>1, <2>2, <2>4
<1>15. WholeLines(r, w)
  <2> SUFFICES ASSUME NEW i \in 1..(n - 1), WholeBefore(r, i + 1)
               PROVE  /\ 3 * i <= Len(w)
                      /\ w[3 * i - 2] = LineText(r, i)
                      /\ w[3 * i - 1] = CR
                      /\ w[3 * i] = LF
    BY DEF WholeLines
  <2>1. WholeBefore(r, i) /\ i # r.broken /\ i \in 1..n /\ i < n
    BY <1>1 DEF WholeBefore
  <2>2. /\ Len(LineSymbols(r, i)) = 3
        /\ LineSymbols(r, i)[1] = LineText(r, i)
        /\ LineSymbols(r, i)[2] = CR
        /\ LineSymbols(r, i)[3] = LF
    BY <2>1, LineSymbolsFacts
  <2>3. /\ 3 * (i - 1) + 3 <= Len(w)
        /\ \A j \in 1..3 : w[3 * (i - 1) + j] = LineSymbols(r, i)[j]
    BY <1>14, <2>1, <2>2
  <2>4. /\ w[3 * (i - 1) + 1] = LineText(r, i)
        /\ w[3 * (i - 1) + 2] = CR
        /\ w[3 * (i - 1) + 3] = LF
    BY <2>2, <2>3
  <2>5. /\ 3 * (i - 1) + 1 = 3 * i - 2
        /\ 3 * (i - 1) + 2 = 3 * i - 1
        /\ 3 * (i - 1) + 3 = 3 * i
    BY <1>1, <2>1
  <2> QED
    BY <2>3, <2>4, <2>5
<1>16. r.broken = 0 => Len(h) = HeadSize(r) /\ BlankLine(r, w)
  <2> SUFFICES ASSUME r.broken = 0
               PROVE  Len(h) = HeadSize(r) /\ BlankLine(r, w)
    OBVIOUS
  <2>1. WholeBefore(r, n) /\ n \in 1..n /\ n # r.broken
    BY <1>1 DEF WholeBefore
  <2>2. /\ Len(LineSymbols(r, n)) = 2
        /\ LineSymbols(r, n)[1] = CR
        /\ LineSymbols(r, n)[2] = LF
    BY <2>1, LineSymbolsFacts
  <2>3. /\ Len(f[n]) = 3 * (n - 1) + 2
        /\ Len(f[n]) <= Len(w)
        /\ \A j \in 1..2 : w[3 * (n - 1) + j] = LineSymbols(r, n)[j]
    BY <1>14, <2>1, <2>2
  <2>4. /\ w[3 * (n - 1) + 1] = CR
        /\ w[3 * (n - 1) + 2] = LF
    BY <2>2, <2>3
  <2>5. HeadSize(r) - 1 = 3 * (n - 1) + 1
    BY <1>1
  <2> QED
    BY <1>1, <2>3, <2>4, <2>5 DEF BlankLine, h
<1>17. BodyBehind(r, w)
  BY <1>12, <1>16 DEF BodyBehind, b
<1>18. BrokenLine(r, w)
  <2> DEFINE i == r.broken
  <2> SUFFICES ASSUME i \in 1..(n - 1)
               PROVE  /\ 3 * i - 1 <= Len(w)
                      /\ w[3 * i - 2] = LineText(r, i)
                      /\ w[3 * i - 1] = r.ending
                      /\ 3 * i <= Len(w) => w[3 * i] # LF
    BY DEF BrokenLine
  <2>1. WholeBefore(r, i) /\ i \in 1..n /\ i < n /\ i + 1 \in 1..n
    BY <1>1 DEF WholeBefore
  <2>2. /\ Len(LineSymbols(r, i)) = 2
        /\ LineSymbols(r, i)[1] = LineText(r, i)
        /\ LineSymbols(r, i)[2] = r.ending
    BY <2>1, LineSymbolsFacts
  <2>3. /\ Len(f[i]) = 3 * (i - 1) + 2
        /\ 3 * (i - 1) + 2 <= Len(w)
        /\ \A j \in 1..2 : w[3 * (i - 1) + j] = LineSymbols(r, i)[j]
    BY <1>14, <2>1, <2>2
  <2>4. /\ w[3 * (i - 1) + 1] = LineText(r, i)
        /\ w[3 * (i - 1) + 2] = r.ending
    BY <2>2, <2>3
  <2>5. /\ 3 * (i - 1) + 1 = 3 * i - 2
        /\ 3 * (i - 1) + 2 = 3 * i - 1
    BY <1>1, <2>1
  <2> DEFINE l == LineSymbols(r, i + 1)
             a == f[i]
             d == f[i + 1]
  <2>6. l \in Seq(Symbols) /\ Len(l) >= 1 /\ l[1] # LF
    <3>1. i + 1 # r.broken
      BY <1>1, <2>1
    <3>2. i + 1 < n \/ i + 1 = n
      BY <1>1, <2>1
    <3> QED
      BY <2>1, <3>1, <3>2, LineSymbolsFacts DEF CR, LF
  <2>7. a \in Seq(Symbols) /\ d = a \o l
    <3>1. i + 1 \in 2..n /\ (i + 1) - 1 = i
      BY <1>1, <2>1
    <3>2. f[i + 1] = f[(i + 1) - 1] \o L[i + 1]
      BY <1>6, <3>1 DEF PartialJoins
    <3> QED
      BY <1>5, <1>6, <2>1, <3>1, <3>2
  <2>8. Len(d) <= Len(w) /\ \A p \in 1..Len(d) : w[p] = d[p]
    BY <1>13, <2>1
  <2>9. Len(a) = 3 * (i - 1) + 2
    BY <2>3
  <2> HIDE DEF a, l, d
  <2>10. /\ Len(d) = Len(a) + Len(l) /\ Len(l) \in Nat
         /\ \A p \in 1..Len(l) : d[Len(a) + p] = l[p]
    BY <2>6, <2>7, Parts
  <2>11. Len(a) + 1 \in 1..Len(d) /\ d[Len(a) + 1] = l[1]
    <3>1. Len(a) \in Nat
      BY <1>1, <2>1, <2>9
    <3>2. 1 \in 1..Len(l)
      BY <2>6, <2>10
    <3> QED
      BY <2>10, <3>1, <3>2
  <2>12. Len(a) + 1 = 3 * i
    BY <1>1, <2>1, <2>9
  <2>13. w[3 * i] # LF
    BY <2>6, <2>8, <2>11, <2>12
  <2> QED
    BY <2>3, <2>4, <2>5, <2>13
<1>19. BrokenEnd(r, w)
  <2> SUFFICES ASSUME r.broken = n
               PROVE  /\ 3 * n - 2 <= Len(w)
                      /\ w[3 * n - 2] = r.ending
                      /\ 3 * n - 1 <= Len(w) => w[3 * n - 1] # LF
    BY DEF BrokenEnd
  <2>1. WholeBefore(r, n) /\ n \in 1..n
    BY <1>1 DEF WholeBefore
  <2>2. Len(LineSymbols(r, n)) = 1 /\ LineSymbols(r, n)[1] = r.ending
    BY <2>1, LineSymbolsFacts
  <2>3. /\ Len(f[n]) = 3 * (n - 1) + 1
        /\ 3 * (n - 1) + 1 <= Len(w)
        /\ \A j \in 1..1 : w[3 * (n - 1) + j] = LineSymbols(r, n)[j]
    BY <1>14, <2>1, <2>2
  <2>4. w[3 * (n - 1) + 1] = r.ending
    BY <2>2, <2>3
  <2>5. 3 * (n - 1) + 1 = 3 * n - 2 /\ 3 * n - 1 = (3 * (n - 1) + 1) + 1
    BY <1>1
  <2>6. Len(h) = 3 * (n - 1) + 1
    BY <2>3 DEF h
  <2>7. b = <<>> => Len(b) = 0
    OBVIOUS
  <2>8. b # <<>> => b[1] # LF
    BY <1>1, BodyFacts DEF b
  <2>9. 3 * n - 1 <= Len(w) => w[3 * n - 1] # LF
    <3> SUFFICES ASSUME 3 * n - 1 <= Len(w) PROVE w[3 * n - 1] # LF
      OBVIOUS
    <3>1. Len(b) >= 1
      BY <1>1, <1>12, <2>5, <2>6
    <3>2. w[Len(h) + 1] = b[1] /\ b # <<>>
      BY <1>12, <2>7, <3>1
    <3> QED
      BY <2>5, <2>6, <2>8, <3>2
  <2> QED
    BY <2>3, <2>4, <2>5, <2>9
<1> QED
  BY <1>12, <1>15, <1>16, <1>17, <1>18, <1>19
     DEF WireShape, w, BlankLine
-----------------------------------------------------------------------------
(***************************************************************************)
(* The line that Parse_Line finds.                                         *)
(***************************************************************************)
LEMMA WireType ==
    /\ \A r \in Requests \cup {NoRequest} : Wire(r) \in Seq(Symbols)
    /\ Wire(NoRequest) = <<>>
<1>1. Wire(NoRequest) = <<>>
  BY DEF Wire
<1>2. Wire(NoRequest) \in Seq(Symbols)
  BY <1>1, EmptySeq
<1>3. \A r \in Requests : Wire(r) \in Seq(Symbols)
  BY WireFacts DEF WireShape
<1> QED
  BY <1>1, <1>2, <1>3

(* What is still to be sent is as long as it should be.                    *)
LEMMA StreamFacts ==
    ASSUME Control, Buffer, Agrees, pc # "closed"
    PROVE  /\ Len(read) \in Nat /\ Len(stream) \in Nat
           /\ Len(Wire(request)) \in Nat
           /\ Len(read) + Len(stream) = Len(Wire(request))
           /\ stream \in Seq(Symbols)
           /\ stream = <<>> <=> Len(read) = Len(Wire(request))
           /\ \A i \in 1..Len(stream) :
                  stream[i] = Wire(request)[Len(read) + i]
<1> DEFINE w == Wire(request)
<1>1. w \in Seq(Symbols) /\ Len(w) \in Nat
  BY WireType, LenProperties DEF Control
<1>2. read \in Seq(Symbols) /\ Len(read) \in Nat
  BY LenProperties DEF Buffer
<1>3. Len(read) <= Len(w) /\ stream = SubSeq(w, Len(read) + 1, Len(w))
  BY DEF Agrees
<1> HIDE DEF w
<1>4. /\ stream \in Seq(Symbols)
      /\ Len(stream) = Len(w) - Len(read)
      /\ \A i \in 1..(Len(w) - Len(read)) : stream[i] = w[Len(read) + i]
  BY <1>1, <1>2, <1>3, DropFacts
<1>5. stream = <<>> <=> Len(stream) = 0
  BY <1>4, EmptySeq
<1>6. /\ Len(stream) \in Nat
      /\ Len(read) + Len(stream) = Len(w)
      /\ stream = <<>> <=> Len(read) = Len(w)
      /\ \A i \in 1..Len(stream) : stream[i] = w[Len(read) + i]
  BY <1>1, <1>2, <1>3, <1>4, <1>5
<1> QED
  BY <1>1, <1>2, <1>4, <1>6 DEF w

LEMMA LineEndFacts ==
    ASSUME Buffer, Ends # {}
    PROVE  /\ LineEnd \in Ends
           /\ LineEnd \in (checked + 1)..Len(read)
           /\ read[LineEnd] \in {CR, LF}
           /\ \A i \in (checked + 1)..(LineEnd - 1) : read[i] \notin {CR, LF}
           /\ \A i \in Ends : LineEnd <= i
<1>1. checked \in Nat /\ Len(read) \in Nat
  BY LenProperties DEF Buffer
<1>2. Ends \in SUBSET Nat
  BY <1>1 DEF Ends
<1>3. \E n \in Ends : \A m \in Ends : n <= m
  BY <1>2, LeastExists
<1>4. LineEnd \in Ends /\ \A m \in Ends : LineEnd <= m
  BY <1>3 DEF LineEnd, Min
<1>5. LineEnd \in (checked + 1)..Len(read) /\ read[LineEnd] \in {CR, LF}
  BY <1>4 DEF Ends
<1>6. ASSUME NEW i \in (checked + 1)..(LineEnd - 1), read[i] \in {CR, LF}
      PROVE  FALSE
  <2>1. i \in Ends /\ i < LineEnd
    BY <1>1, <1>5, <1>6 DEF Ends
  <2> QED
    BY <1>1, <1>4, <1>5, <2>1
<1> QED
  BY <1>4, <1>5, <1>6

(* What TakeLine makes of the buffer.                                      *)
LEMMA TakeLineFacts ==
    ASSUME Buffer, LineFound, TakeLine
    PROVE  /\ LineEnd \in (checked + 1)..(Len(read) - 1)
           /\ checked' = LineEnd + 1
           /\ checked' > checked
           /\ Len(read') = Len(read)
           /\ \A i \in (checked' + 1)..Len(read) : read'[i] = read[i]
           /\ Buffer'
<1> DEFINE e == LineEnd
<1>1. checked \in Nat /\ Len(read) \in Nat /\ DOMAIN read = 1..Len(read)
  BY LenProperties DEF Buffer
<1>2. e \in (checked + 1)..Len(read) /\ e < Len(read)
  BY LineEndFacts DEF LineFound
<1>3. \A i \in (checked + 1)..(e - 1) : read[i] \notin {CR, LF}
  BY LineEndFacts DEF LineFound
<1>4. /\ read' = [read EXCEPT ![e] = NUL, ![e + 1] = NUL]
      /\ checked' = e + 1 /\ start' = checked'
  BY DEF TakeLine
<1> HIDE DEF e
<1>5. e \in 1..Len(read) /\ e + 1 \in 1..Len(read) /\ NUL \in Symbols
  BY <1>1, <1>2 DEF Symbols
<1> DEFINE mid == [read EXCEPT ![e] = NUL]
<1>6. mid \in Seq(Symbols) /\ Len(mid) = Len(read)
  BY <1>5, ExceptSeq DEF Buffer
<1>7. read' = [mid EXCEPT ![e + 1] = NUL]
  BY <1>4
<1>8. read' \in Seq(Symbols) /\ Len(read') = Len(read)
  <2> HIDE DEF mid
  <2> QED
    BY <1>5, <1>6, <1>7, ExceptSeq
<1>9. \A i \in 1..Len(read) :
          read'[i] = IF i = e \/ i = e + 1 THEN NUL ELSE read[i]
  BY <1>1, <1>2, <1>4, <1>5
<1>10. \A i \in 1..checked' : read'[i] \notin {CR, LF}
  <2> SUFFICES ASSUME NEW i \in 1..checked' PROVE read'[i] \notin {CR, LF}
    OBVIOUS
  <2>1. i \in 1..Len(read)
    BY <1>1, <1>2, <1>4
  <2>2. CASE i \in {e, e + 1}
    BY <1>9, <2>1, <2>2 DEF CR, LF, NUL
  <2>3. CASE i \notin {e, e + 1}
    <3>1. i \in 1..checked \/ i \in (checked + 1)..(e - 1)
      BY <1>1, <1>2, <1>4, <2>3
    <3>2. read[i] \notin {CR, LF}
      BY <1>3, <3>1 DEF Buffer
    <3> QED
      BY <1>9, <2>1, <2>3, <3>2
  <2> QED
    BY <2>2, <2>3
<1>11. \A i \in (checked' + 1)..Len(read) : read'[i] = read[i]
  BY <1>1, <1>2, <1>4, <1>9
<1>12. checked' \in 0..Len(read') /\ checked' > checked
  BY <1>1, <1>2, <1>4, <1>8
<1>13. Buffer'
  BY <1>4, <1>8, <1>10, <1>12 DEF Buffer
<1> QED
  BY <1>1, <1>2, <1>4, <1>8, <1>11, <1>12, <1>13 DEF e

LEMMA OneElement ==
    ASSUME NEW S, NEW s \in Seq(S), NEW p \in 1..Len(s)
    PROVE  SubSeq(s, p, p) = <<s[p]>>
<1>1. Len(s) \in Nat /\ s[p] \in S
  BY ElementOfSeq, LenProperties
<1> DEFINE a == SubSeq(s, p, p)
           b == <<s[p]>>
<1>2. \A i \in p..p : s[i] \in S
  BY <1>1
<1>3. /\ a \in Seq(S)
      /\ Len(a) = IF p <= p THEN p - p + 1 ELSE 0
      /\ \A i \in 1..(p - p + 1) : a[i] = s[p + i - 1]
  BY <1>1, <1>2, SubSeqProperties
<1>4. b \in Seq(S) /\ Len(b) = 1 /\ b[1] = s[p]
  BY <1>1
<1> HIDE DEF a, b
<1>5. Len(a) = 1 /\ a[1] = s[p]
  BY <1>1, <1>3
<1>6. a = b
  BY <1>3, <1>4, <1>5, SeqEqual
<1> QED
  BY <1>6 DEF a, b

(* In front of a line of the head: a line is found only if it is whole,    *)
(* and its text is what it says.                                           *)
InFrontOf(k) ==
    /\ request \in Requests
    /\ pc # "closed"
    /\ k \in 1..Lines(request)
    /\ checked = 3 * (k - 1)
    /\ WholeBefore(request, k)

LEMMA LineIsWhole ==
    ASSUME Control, Buffer, Agrees, NEW k, InFrontOf(k), LineFound
    PROVE  /\ k # request.broken
           /\ k < Lines(request) => /\ LineEnd = 3 * k - 1
                                    /\ Text = <<LineText(request, k)>>
                                    /\ WholeBefore(request, k + 1)
           /\ k = Lines(request) => /\ request.broken = 0
                                    /\ LineEnd + 1 = HeadSize(request)
                                    /\ Text = <<>>
<1> DEFINE n == Lines(request)
           w == Wire(request)
           b == request.broken
           t == LineText(request, k)
           e == LineEnd
           m == Len(read)
<1>1. /\ n \in Nat /\ n >= 2 /\ b \in 0..n
      /\ HeadSize(request) = 3 * (n - 1) + 2
      /\ request.ending \in {CR, LF}
  BY RequestFacts, RequestAssumption DEF InFrontOf, Lines, HeadSize
<1>2. k \in 1..n /\ checked = 3 * (k - 1) /\ (b = 0 \/ k <= b)
  BY DEF InFrontOf, WholeBefore
<1>3. m \in Nat /\ Len(w) \in Nat /\ m <= Len(w)
  BY StreamFacts DEF InFrontOf, Agrees
<1>4. \A i \in (checked + 1)..m : read[i] = w[i]
  BY DEF InFrontOf, Agrees
<1>5. /\ e \in (checked + 1)..(m - 1)
      /\ \A i \in (checked + 1)..(e - 1) : read[i] \notin {CR, LF}
      /\ read[e] = CR /\ read[e + 1] = LF
  BY <1>3, LineEndFacts DEF LineFound, Buffer
<1>6. WireShape(request, w)
  BY WireFacts DEF InFrontOf
<1>7. k < n => t \notin {CR, LF}
  <2>1. request \in Requests /\ k \in 1..Lines(request)
    BY DEF InFrontOf
  <2> QED
    BY <2>1, LineSymbolsFacts
<1>8. start = checked
  BY DEF Buffer
<1>9. read \in Seq(Symbols) /\ \A i \in 1..m : read[i] \in Symbols
  BY ElementOfSeq DEF Buffer
<1>10. Text = SubSeq(read, checked + 1, e - 1)
  BY <1>8 DEF Text
<1> HIDE DEF w, t, e, m
<1>11. CASE k < n
  <2>1. CASE k # b
    <3>1. b = 0 \/ k + 1 <= b
      BY <1>1, <1>2, <2>1
    <3>2. k \in 1..(n - 1) /\ WholeBefore(request, k + 1)
      BY <1>1, <1>2, <1>11, <3>1 DEF WholeBefore
    <3>3. /\ 3 * k <= Len(w)
          /\ w[3 * k - 2] = t /\ w[3 * k - 1] = CR /\ w[3 * k] = LF
      BY <1>6, <3>2 DEF WireShape, WholeLines, t
    <3>4. e # 3 * k - 2
      BY <1>1, <1>2, <1>3, <1>4, <1>5, <1>7, <1>11, <3>3
    <3>5. ~(e > 3 * k - 1)
      <4> SUFFICES ASSUME e > 3 * k - 1 PROVE FALSE
        OBVIOUS
      <4>1. /\ 3 * k - 1 \in (checked + 1)..(e - 1)
            /\ 3 * k - 1 \in (checked + 1)..m
        BY <1>1, <1>2, <1>3, <1>5
      <4> QED
        BY <1>4, <1>5, <3>3, <4>1
    <3>6. e = 3 * k - 1 /\ checked + 1 = 3 * k - 2
      BY <1>1, <1>2, <1>3, <1>5, <3>4, <3>5
    <3>7. 3 * k - 2 \in 1..m /\ read[3 * k - 2] = t
      BY <1>1, <1>2, <1>3, <1>4, <1>5, <3>3, <3>6
    <3>8. Text = SubSeq(read, 3 * k - 2, 3 * k - 2)
      BY <1>1, <1>2, <1>10, <3>6
    <3>9. SubSeq(read, 3 * k - 2, 3 * k - 2) = <<t>>
      <4> DEFINE p == 3 * k - 2
      <4>1. p \in 1..m /\ read[p] = t
        BY <3>7
      <4> HIDE DEF p
      <4>2. SubSeq(read, p, p) = <<read[p]>>
        BY <4>1, OneElement DEF m, Buffer
      <4> QED
        BY <4>1, <4>2 DEF p
    <3> QED
      BY <1>11, <2>1, <3>2, <3>6, <3>8, <3>9 DEF e, t
  <2>2. CASE k = b
    <3>1. b \in 1..(n - 1)
      BY <1>1, <1>2, <1>11, <2>2
    <3>2. /\ w[3 * k - 2] = t /\ w[3 * k - 1] = request.ending
          /\ 3 * k <= Len(w) => w[3 * k] # LF
      BY <1>6, <2>2, <3>1 DEF WireShape, BrokenLine, t
    <3>3. e # 3 * k - 2
      <4>1. 3 * k - 2 = e => 3 * k - 2 \in (checked + 1)..m
        BY <1>3, <1>5
      <4> QED
        BY <1>4, <1>5, <1>7, <1>11, <3>2, <4>1
    <3>4. ~(e > 3 * k - 1)
      <4> SUFFICES ASSUME e > 3 * k - 1 PROVE FALSE
        OBVIOUS
      <4>1. /\ 3 * k - 1 \in (checked + 1)..(e - 1)
            /\ 3 * k - 1 \in (checked + 1)..m
        BY <1>1, <1>2, <1>3, <1>5
      <4> QED
        BY <1>1, <1>4, <1>5, <3>2, <4>1
    <3>5. e = 3 * k - 1
      BY <1>1, <1>2, <1>3, <1>5, <3>3, <3>4
    <3>6. e + 1 \in (checked + 1)..m /\ e + 1 = 3 * k
      BY <1>1, <1>2, <1>3, <1>5, <3>5
    <3>7. 3 * k <= Len(w) /\ read[3 * k] = w[3 * k]
      BY <1>1, <1>2, <1>3, <1>4, <3>6
    <3> QED
      BY <1>5, <3>2, <3>6, <3>7
  <2> QED
    BY <2>1, <2>2
<1>12. CASE k = n
  <2>1. CASE k # b
    <3>1. b = 0
      BY <1>1, <1>2, <1>12, <2>1
    <3>2. w[3 * k - 2] = CR /\ HeadSize(request) = 3 * k - 1
      <4>1. w[HeadSize(request) - 1] = CR
        BY <1>6, <3>1 DEF WireShape, BlankLine
      <4>2. HeadSize(request) = 3 * k - 1 /\ HeadSize(request) - 1 = 3 * k - 2
        BY <1>1, <1>2, <1>12
      <4> QED
        BY <4>1, <4>2
    <3>3. ~(e > 3 * k - 2)
      <4> SUFFICES ASSUME e > 3 * k - 2 PROVE FALSE
        OBVIOUS
      <4>1. /\ 3 * k - 2 \in (checked + 1)..(e - 1)
            /\ 3 * k - 2 \in (checked + 1)..m
        BY <1>1, <1>2, <1>3, <1>5
      <4> QED
        BY <1>4, <1>5, <3>2, <4>1
    <3>4. e = 3 * k - 2
      BY <1>1, <1>2, <1>3, <1>5, <3>3
    <3>5. checked \in 0..m
      BY <1>3, <1>2, <1>1, <1>5
    <3>6. Text = SubSeq(read, checked + 1, checked)
      BY <1>1, <1>2, <1>10, <3>4
    <3>7. Text = <<>>
      <4> DEFINE c == checked
      <4>1. c \in 0..m
        BY <3>5
      <4> HIDE DEF c
      <4>2. SubSeq(read, c + 1, c) = <<>>
        BY <1>3, <1>9, <4>1, SubSeqEmpty
      <4> QED
        BY <3>6, <4>2 DEF c
    <3> QED
      BY <1>1, <1>2, <1>12, <2>1, <3>1, <3>2, <3>4, <3>7 DEF e
  <2>2. CASE k = b
    <3>1. /\ w[3 * k - 2] = request.ending
          /\ 3 * k - 1 <= Len(w) => w[3 * k - 1] # LF
      BY <1>6, <1>12, <2>2 DEF WireShape, BrokenEnd
    <3>2. ~(e > 3 * k - 2)
      <4> SUFFICES ASSUME e > 3 * k - 2 PROVE FALSE
        OBVIOUS
      <4>1. /\ 3 * k - 2 \in (checked + 1)..(e - 1)
            /\ 3 * k - 2 \in (checked + 1)..m
        BY <1>1, <1>2, <1>3, <1>5
      <4> QED
        BY <1>1, <1>4, <1>5, <3>1, <4>1
    <3>3. e = 3 * k - 2
      BY <1>1, <1>2, <1>3, <1>5, <3>2
    <3>4. e + 1 \in (checked + 1)..m /\ e + 1 = 3 * k - 1
      BY <1>1, <1>2, <1>3, <1>5, <3>3
    <3> QED
      BY <1>1, <1>2, <1>3, <1>4, <1>5, <3>1, <3>4
  <2> QED
    BY <2>1, <2>2
<1> QED
  BY <1>1, <1>2, <1>11, <1>12

(* A request without a broken line that has been read is parsed: the line  *)
(* in front of the parser is found.                                        *)
LEMMA LineIsFound ==
    ASSUME Control, Buffer, Agrees, NEW k, InFrontOf(k),
           request.broken = 0, stream = <<>>
    PROVE  LineFound
<1> DEFINE n == Lines(request)
           w == Wire(request)
           t == LineText(request, k)
           e == LineEnd
           m == Len(read)
<1>1. /\ n \in Nat /\ n >= 2
      /\ HeadSize(request) = 3 * (n - 1) + 2
  BY RequestFacts, RequestAssumption DEF InFrontOf, Lines, HeadSize
<1>2. k \in 1..n /\ checked = 3 * (k - 1)
  BY DEF InFrontOf
<1>3. m \in Nat /\ m = Len(w)
  BY StreamFacts DEF InFrontOf
<1>4. \A i \in (checked + 1)..m : read[i] = w[i]
  BY DEF InFrontOf, Agrees
<1>5. WireShape(request, w)
  BY WireFacts DEF InFrontOf
<1>6. k < n => t \notin {CR, LF}
  <2>1. request \in Requests /\ k \in 1..Lines(request)
    BY DEF InFrontOf
  <2> QED
    BY <2>1, LineSymbolsFacts
<1>7. Ends # {} =>
        /\ e \in (checked + 1)..m /\ read[e] \in {CR, LF}
        /\ \A i \in Ends : e <= i
  BY LineEndFacts
<1>8. \A i \in (checked + 1)..m : read[i] \in {CR, LF} => i \in Ends
  BY DEF Ends
<1> HIDE DEF w, t, e, m
<1> SUFFICES ASSUME NEW c \in (checked + 1)..(m - 1),
                    read[c] = CR, read[c + 1] = LF,
                    \A i \in (checked + 1)..(c - 1) : read[i] \notin {CR, LF}
             PROVE  LineFound
  <2>1. CASE k < n
    <3>1. k \in 1..(n - 1) /\ WholeBefore(request, k + 1)
      BY <1>1, <1>2, <2>1 DEF WholeBefore
    <3>2. /\ 3 * k <= m
          /\ w[3 * k - 2] = t /\ w[3 * k - 1] = CR /\ w[3 * k] = LF
      BY <1>3, <1>5, <3>1 DEF WireShape, WholeLines, t
    <3> DEFINE c == 3 * k - 1
    <3>3. c \in (checked + 1)..(m - 1) /\ c - 1 = checked + 1
      BY <1>1, <1>2, <1>3, <3>2
    <3>4. read[c] = CR /\ read[c + 1] = LF
      <4>1. c + 1 = 3 * k /\ c + 1 \in (checked + 1)..m
        BY <1>1, <1>2, <1>3, <3>2
      <4> QED
        BY <1>3, <1>4, <3>2, <3>3, <4>1
    <3>5. ASSUME NEW i \in (checked + 1)..(c - 1)
          PROVE  read[i] \notin {CR, LF}
      <4>1. i = 3 * k - 2 /\ i \in (checked + 1)..m
        BY <1>1, <1>2, <1>3, <3>2, <3>3
      <4> QED
        BY <1>4, <1>6, <2>1, <3>2, <4>1
    <3> HIDE DEF c
    <3> QED
      BY <3>3, <3>4, <3>5
  <2>2. CASE k = n
    <3>1. /\ HeadSize(request) <= m
          /\ w[HeadSize(request) - 1] = CR /\ w[HeadSize(request)] = LF
      BY <1>3, <1>5 DEF WireShape, BlankLine
    <3> DEFINE c == HeadSize(request) - 1
    <3>2. c = checked + 1 /\ c + 1 = HeadSize(request)
      BY <1>1, <1>2, <2>2
    <3>3. c \in (checked + 1)..(m - 1) /\ c + 1 \in (checked + 1)..m
      BY <1>1, <1>2, <1>3, <3>1, <3>2
    <3>4. read[c] = CR /\ read[c + 1] = LF
      BY <1>3, <1>4, <3>1, <3>2, <3>3
    <3>5. \A i \in (checked + 1)..(c - 1) : read[i] \notin {CR, LF}
      BY <1>1, <1>2, <3>2
    <3> HIDE DEF c
    <3> QED
      BY <3>3, <3>4, <3>5
  <2> QED
    BY <1>1, <1>2, <2>1, <2>2
<1>9. checked \in Nat /\ c \in Ends
  BY <1>1, <1>2, <1>3, <1>8
<1>10. e = c
  BY <1>2, <1>3, <1>7, <1>9
<1> QED
  BY <1>3, <1>9, <1>10 DEF LineFound, e, m
-----------------------------------------------------------------------------
(***************************************************************************)
(* The invariant: the beginning, and the buffer.                           *)
(***************************************************************************)
LEMMA InitOK == Init => IInv
<1> SUFFICES ASSUME Init PROVE IInv
  OBVIOUS
<1> USE DEF Init
<1>1. Wire(request) = <<>> /\ Len(<<>>) = 0
  BY WireType
<1>2. Control
  BY DEF Control, NoAnswer
<1>3. Suffix
  <2>1. 0 \in 0..Len(Wire(request))
    BY <1>1
  <2>2. SubSeq(<<>>, 0 + 1, 0) = <<>>
    OBVIOUS
  <2> QED
    BY <1>1, <2>1, <2>2 DEF Suffix
<1>4. Buffer
  <2>1. <<>> \in Seq(Symbols)
    BY EmptySeq
  <2> QED
    BY <1>1, <2>1 DEF Buffer
<1>5. Agrees
  <2>1. SubSeq(<<>>, 0 + 1, 0) = <<>>
    OBVIOUS
  <2> QED
    BY <1>1, <2>1 DEF Agrees
<1>6. ParserPlace
  BY DEF ParserPlace, Live, Fresh
<1>7. AnswerMade
  BY DEF AnswerMade
<1>8. MoreToCome
  <2>1. ~Proper(request)
    BY RequestFacts DEF Proper
  <2> QED
    BY <2>1 DEF MoreToCome
<1> QED
  BY <1>2, <1>3, <1>4, <1>5, <1>6, <1>7, <1>8 DEF IInv

(* A line is taken out of what has been read.                              *)
LEMMA LineTaken ==
    ASSUME Buffer, Agrees, ParseLine, UNCHANGED client
    PROVE  Buffer' /\ Agrees' /\ checked' > checked
<1>1. LineFound /\ TakeLine /\ pc = "parse"
  BY DEF ParseLine
<1>2. /\ Len(read') = Len(read)
      /\ checked' > checked
      /\ \A i \in (checked' + 1)..Len(read) : read'[i] = read[i]
      /\ Buffer'
  BY <1>1, TakeLineFacts
<1>3. Wire(request)' = Wire(request)
  BY DEF client, Wire
<1>4. checked \in Nat /\ checked' \in Nat /\ Len(read) \in Nat
  BY <1>2, LenProperties DEF Buffer
<1>5. \A i \in (checked' + 1)..Len(read) : read[i] = Wire(request)[i]
  <2>1. \A i \in (checked + 1)..Len(read) : read[i] = Wire(request)[i]
    BY <1>1 DEF Agrees
  <2>2. checked' > checked
    BY <1>2
  <2>3. \A a, b, m \in Nat : b > a => (b + 1)..m \subseteq (a + 1)..m
    OBVIOUS
  <2>4. (checked' + 1)..Len(read) \subseteq (checked + 1)..Len(read)
    BY <1>4, <2>2, <2>3
  <2> QED
    BY <2>1, <2>4
<1>6. Agrees'
  BY <1>1, <1>2, <1>3, <1>4, <1>5 DEF Agrees, client
<1> QED
  BY <1>2, <1>6

(* A buffer that is left as it is.                                         *)
LEMMA BufferKept ==
    ASSUME Buffer, Agrees, pc # "closed" \/ pc' = "closed",
           UNCHANGED <<client, read, checked, start>>
    PROVE  Buffer' /\ Agrees'
<1>1. Wire(request)' = Wire(request)
  BY DEF client, Wire
<1> QED
  BY <1>1 DEF Buffer, Agrees, client

(* A parser without input for a client that has not asked.                 *)
LEMMA BufferReset ==
    ASSUME ResetParser, request' = NoRequest, stream' = <<>>
    PROVE  Buffer' /\ Agrees' /\ Suffix'
<1>1. Wire(request') = <<>> /\ Len(<<>>) = 0 /\ SubSeq(<<>>, 0 + 1, 0) = <<>>
  BY WireType
<1>2. <<>> \in Seq(Symbols)
  BY EmptySeq
<1>3. read' = <<>> /\ checked' = 0 /\ start' = 0
  BY DEF ResetParser
<1>4. Buffer'
  BY <1>1, <1>2, <1>3 DEF Buffer
<1>5. Agrees'
  BY <1>1, <1>3 DEF Agrees
<1>6. Suffix'
  <2>1. 0 \in 0..Len(Wire(request'))
    BY <1>1
  <2> QED
    BY <1>1, <2>1 DEF Suffix
<1> QED
  BY <1>4, <1>5, <1>6

LEMMA SuffixKept ==
    ASSUME Suffix, UNCHANGED client
    PROVE  Suffix'
<1>1. Wire(request)' = Wire(request)
  BY DEF client, Wire
<1> QED
  BY <1>1 DEF Suffix, client

(* With a response that was sent whole, all of the request was read.       *)
LEMMA LingersWhenRead ==
    ASSUME IInv, pc = "write", linger
    PROVE  stream = <<>>
<1>1. Place
  BY DEF IInv, ParserPlace, Live, Fresh
<1> QED
  BY <1>1 DEF Place, AtFirstLine, AtLine, AtBody, Refused, AllRead

LEMMA BufferRead ==
    ASSUME IInv, NEW n \in 1..Len(stream), Read(n)
    PROVE  Buffer' /\ Agrees' /\ Suffix'
<1> DEFINE w == Wire(request)
           m == Len(read)
           l == Len(w)
           piece == SubSeq(stream, 1, n)
<1>1. /\ m \in Nat /\ Len(stream) \in Nat /\ l \in Nat
      /\ m + Len(stream) = l
      /\ stream \in Seq(Symbols)
      /\ stream = SubSeq(w, m + 1, l)
      /\ \A i \in 1..Len(stream) : stream[i] = w[m + i]
      /\ w \in Seq(Symbols)
  <2>1. pc # "closed"
    BY DEF Read
  <2>2. w \in Seq(Symbols)
    BY WireType DEF IInv, Control
  <2>3. stream = SubSeq(w, m + 1, l)
    BY <2>1 DEF IInv, Agrees
  <2> QED
    BY <2>1, <2>2, <2>3, StreamFacts DEF IInv
<1>2. /\ read \in Seq(Symbols) /\ start = checked /\ checked \in 0..m
      /\ \A i \in 1..checked : read[i] \notin {CR, LF}
      /\ \A i \in (checked + 1)..m : read[i] = w[i]
  BY DEF IInv, Buffer, Agrees, Read
<1>3. /\ piece \in Seq(Symbols) /\ Len(piece) = n
      /\ \A i \in 1..n : piece[i] = stream[i]
  <2>1. n \in 0..Len(stream)
    BY <1>1
  <2> QED
    BY <1>1, <2>1, TakeFacts
<1>4. /\ read' = read \o piece
      /\ stream' = SubSeq(stream, n + 1, Len(stream))
      /\ checked' = checked /\ start' = start /\ request' = request
      /\ pc' = "parse"
  BY DEF Read
<1> HIDE DEF piece
<1>5. /\ read' \in Seq(Symbols) /\ Len(read') = m + n
      /\ \A i \in 1..m : read'[i] = read[i]
      /\ \A i \in 1..n : read'[m + i] = piece[i]
  <2>1. read \in Seq(Symbols) /\ piece \in Seq(Symbols)
    BY <1>2, <1>3
  <2>2. /\ read \o piece \in Seq(Symbols)
        /\ Len(read \o piece) = Len(read) + Len(piece)
        /\ \A i \in 1..Len(read) : (read \o piece)[i] = read[i]
        /\ \A i \in 1..Len(piece) : (read \o piece)[Len(read) + i] = piece[i]
    BY <2>1, Parts
  <2> QED
    BY <1>3, <1>4, <2>2
<1>6. Buffer'
  BY <1>1, <1>2, <1>4, <1>5 DEF Buffer
<1>7. ASSUME NEW i \in (checked + 1)..(m + n)
      PROVE  read'[i] = w[i]
  <2>1. CASE i <= m
    BY <1>1, <1>2, <1>5, <2>1
  <2>2. CASE i > m
    <3>1. i - m \in 1..n /\ i - m \in 1..Len(stream) /\ m + (i - m) = i
      BY <1>1, <1>2, <2>2
    <3>2. read'[m + (i - m)] = piece[i - m] /\ piece[i - m] = stream[i - m]
      BY <1>3, <1>5, <3>1
    <3>3. stream[i - m] = w[m + (i - m)]
      BY <1>1, <3>1
    <3> QED
      BY <3>1, <3>2, <3>3
  <2> QED
    BY <1>1, <1>2, <2>1, <2>2
<1>8. stream' = SubSeq(w, (m + n) + 1, l)
  <2> DEFINE a == stream'
             b == SubSeq(w, (m + n) + 1, l)
  <2>1. /\ a \in Seq(Symbols)
        /\ Len(a) = Len(stream) - n
        /\ \A i \in 1..(Len(stream) - n) : a[i] = stream[n + i]
    <3>1. stream \in Seq(Symbols) /\ n \in Nat /\ n <= Len(stream)
      BY <1>1
    <3>2. /\ SubSeq(stream, n + 1, Len(stream)) \in Seq(Symbols)
          /\ Len(SubSeq(stream, n + 1, Len(stream))) = Len(stream) - n
          /\ \A i \in 1..(Len(stream) - n) :
                 SubSeq(stream, n + 1, Len(stream))[i] = stream[n + i]
      BY <3>1, DropFacts, Zenon
    <3> QED
      BY <1>4, <3>2, Zenon
  <2>2. m + n \in Nat /\ m + n <= l /\ l - (m + n) = Len(stream) - n
    BY <1>1
  <2>3. /\ b \in Seq(Symbols)
        /\ Len(b) = l - (m + n)
        /\ \A i \in 1..(l - (m + n)) : b[i] = w[(m + n) + i]
    BY <1>1, <2>2, DropFacts
  <2>4. \A i \in 1..(Len(stream) - n) : stream[n + i] = w[(m + n) + i]
    <3> SUFFICES ASSUME NEW i \in 1..(Len(stream) - n)
                 PROVE  stream[n + i] = w[(m + n) + i]
      OBVIOUS
    <3>1. n + i \in 1..Len(stream) /\ m + (n + i) = (m + n) + i
      BY <1>1
    <3>2. stream[n + i] = w[m + (n + i)]
      BY <1>1, <3>1
    <3> QED
      BY <3>1, <3>2
  <2> HIDE DEF a, b
  <2>5. a = b
    BY <2>1, <2>2, <2>3, <2>4, SeqEqual
  <2> QED
    BY <2>5 DEF a, b
<1>9. Wire(request)' = w /\ m + n \in 0..l
  BY <1>1, <1>4 DEF Wire
<1>10. Agrees'
  <2>1. Len(read') = m + n /\ m + n <= Len(w)
    BY <1>5, <1>9
  <2>2. \A i \in (checked' + 1)..(m + n) : read'[i] = w[i]
    BY <1>4, <1>7
  <2> HIDE DEF w, m, l
  <2> QED
    BY <1>8, <1>9, <2>1, <2>2 DEF Agrees, l
<1>11. Suffix'
  BY <1>8, <1>9 DEF Suffix
<1> QED
  BY <1>6, <1>10, <1>11

LEMMA BufferAsk ==
    ASSUME IInv, NEW r \in Requests, Ask(r)
    PROVE  Buffer' /\ Agrees' /\ Suffix'
<1>1. /\ read = <<>> /\ checked = 0 /\ start = 0
      /\ read' = read /\ checked' = checked /\ start' = start
      /\ request' = r /\ stream' = Wire(r)
  BY DEF IInv, ParserPlace, Live, Fresh, Ask, parser
<1> DEFINE w == Wire(r)
<1>2. w \in Seq(Symbols) /\ Len(w) \in Nat /\ Len(<<>>) = 0
  BY WireType, LenProperties
<1>3. Wire(request)' = w
  BY <1>1
<1> HIDE DEF w
<1>4. SubSeq(w, 0 + 1, Len(w)) = w
  BY <1>2, SubSeqFull
<1>5. Buffer'
  BY <1>1 DEF IInv, Buffer
<1>6. Agrees'
  BY <1>1, <1>2, <1>3, <1>4 DEF Agrees, w
<1>7. Suffix'
  BY <1>1, <1>2, <1>3, <1>4 DEF Suffix, w
<1> QED
  BY <1>5, <1>6, <1>7

LEMMA BufferStep == IInv /\ [Next]_vars => Buffer' /\ Agrees' /\ Suffix'
<1> SUFFICES ASSUME IInv, [Next]_vars
             PROVE  Buffer' /\ Agrees' /\ Suffix'
  OBVIOUS
<1>1. Buffer /\ Agrees /\ Suffix
  BY DEF IInv
<1>2. ASSUME NEW r \in Requests, Ask(r) PROVE Buffer' /\ Agrees' /\ Suffix'
  BY <1>2, BufferAsk
<1>3. ASSUME NEW n \in 1..Len(stream), Read(n)
      PROVE  Buffer' /\ Agrees' /\ Suffix'
  BY <1>3, BufferRead
<1>4. CASE Hangup
  <2>1. UNCHANGED <<client, read, checked, start>> /\ pc' = "closed"
    BY <1>4 DEF Hangup, parser
  <2> QED
    BY <1>1, <2>1, BufferKept, SuffixKept
<1>5. CASE Reuse
  BY <1>5, BufferReset DEF Reuse
<1>6. CASE ProcessRead
  <2>1. UNCHANGED client
    BY <1>6 DEF ProcessRead, NoLine, RequestLine, BadRequestLine, HeadLine,
                EndOfHead, KeepAliveHead, LengthHead, NumberFirstHead,
                OtherHead, Content
  <2>2. \/ ParseLine
        \/ pc = "parse" /\ UNCHANGED <<read, checked, start>>
    BY <1>1, <1>6 DEF ProcessRead, NoLine, RequestLine, BadRequestLine,
                HeadLine, EndOfHead, KeepAliveHead, LengthHead,
                NumberFirstHead, OtherHead, Content, parser, Buffer
  <2>3. CASE ParseLine
    BY <1>1, <2>1, <2>3, LineTaken, SuffixKept
  <2>4. CASE pc = "parse" /\ UNCHANGED <<read, checked, start>>
    BY <1>1, <2>1, <2>4, BufferKept, SuffixKept
  <2> QED
    BY <2>2, <2>3, <2>4
<1>7. CASE DoResponse \/ ProcessWrite
  <2>1. /\ UNCHANGED client /\ UNCHANGED <<read, checked, start>>
        /\ pc # "closed"
    BY <1>7 DEF DoResponse, ProcessWrite, parser
  <2> QED
    BY <1>1, <2>1, BufferKept, SuffixKept
<1>8. CASE Sent
  <2>1. CASE linger
    <3>1. stream = <<>>
      BY <1>8, <2>1, LingersWhenRead DEF Sent
    <3> QED
      BY <1>8, <2>1, <3>1, BufferReset DEF Sent
  <2>2. CASE ~linger
    <3>1. UNCHANGED <<client, read, checked, start>> /\ pc' = "closed"
      BY <1>8, <2>2 DEF Sent, parser
    <3> QED
      BY <1>1, <3>1, BufferKept, SuffixKept
  <2> QED
    BY <2>1, <2>2
<1>9. CASE UNCHANGED vars
  <2>1. UNCHANGED client /\ UNCHANGED <<read, checked, start>> /\ pc' = pc
    BY <1>9 DEF vars, parser
  <2>2. Wire(request)' = Wire(request)
    BY <2>1 DEF client, Wire
  <2> QED
    BY <1>1, <2>1, <2>2, SuffixKept DEF Buffer, Agrees, client
<1> QED
  BY <1>2, <1>3, <1>4, <1>5, <1>6, <1>7, <1>8, <1>9 DEF Next
-----------------------------------------------------------------------------
(***************************************************************************)
(* The invariant: the place of the parser.                                 *)
(***************************************************************************)
LEMMA Busy ==
    ASSUME IInv, pc \in {"parse", "file", "respond", "write"}
    PROVE  request \in Requests /\ request # NoRequest /\ Place
BY DEF IInv, Control, ParserPlace, Live, Fresh

LEMMA TableFacts ==
    /\ \A l \in DOMAIN Outcome : Outcome[l] \in DOMAIN Status
    /\ \A c \in DOMAIN Status : Status[c] \in Nat
    /\ "BAD_REQUEST" \in DOMAIN Status
    /\ Status["BAD_REQUEST"] = 400
BY DEF Outcome, Status

(* One more header has been taken.                                         *)
LEMMA SeenStep ==
    ASSUME NEW k \in 1..Len(request.headers), Len(request.headers) \in Nat,
           Seen(k - 1),
           request' = request, url' = url,
           linger \in BOOLEAN, linger' \in BOOLEAN,
           linger' <=> linger \/ request.headers[k] = KEEP_ALIVE,
           contentLength' = IF request.headers[k] = NUMBER_FIRST
                            THEN BODY ELSE contentLength
    PROVE  Seen(k)'
<1>1. \A j : j \in 1..k <=> j \in 1..(k - 1) \/ j = k
  OBVIOUS
<1>2. linger' = (\E j \in 1..k : request.headers[j] = KEEP_ALIVE)
  BY <1>1 DEF Seen
<1>3. contentLength' = IF \E j \in 1..k : request.headers[j] = NUMBER_FIRST
                       THEN BODY ELSE 0
  BY <1>1 DEF Seen
<1> QED
  BY <1>2, <1>3 DEF Seen

(* Where a line of the head leads.                                         *)
LEMMA HeadLineFacts ==
    ASSUME IInv, NEW t, HeadLine(t)
    PROVE  \E k \in 1..(Len(request.headers) + 1) :
               /\ AtLine(k)
               /\ t = <<>> => /\ k = Len(request.headers) + 1
                              /\ request.broken = 0
                              /\ checked' = HeadSize(request)
               /\ t # <<>> => /\ k <= Len(request.headers)
                              /\ t = <<request.headers[k]>>
                              /\ checked' = 3 * (k + 1)
                              /\ WholeBefore(request, k + 2)
<1> DEFINE H == Len(request.headers)
<1>1. pc = "parse" /\ check = "HEADER" /\ LineFound /\ TakeLine /\ Text = t
  BY DEF HeadLine, ParseLine
<1>2. request \in Requests /\ Place
  BY <1>1, Busy
<1>3. H \in Nat /\ Lines(request) = H + 2
  BY <1>2, RequestFacts, RequestAssumption DEF Lines
<1>4. PICK k \in 1..(H + 1) : AtLine(k)
  BY <1>1, <1>2 DEF Place, AtFirstLine, AtBody, Refused, AllRead
<1>5. Control /\ Buffer /\ Agrees
  BY DEF IInv
<1>6. k \in Nat /\ k + 1 \in 1..Lines(request) /\ (k + 1) - 1 = k
  BY <1>3, <1>4
<1>7. checked = 3 * k /\ WholeBefore(request, k + 1)
  BY <1>4 DEF AtLine
<1>8. InFrontOf(k + 1)
  BY <1>1, <1>2, <1>6, <1>7 DEF InFrontOf
<1>9. checked' = LineEnd + 1
  BY <1>1 DEF TakeLine
<1>10. CASE k + 1 < Lines(request)
  <2>1. /\ LineEnd = 3 * (k + 1) - 1
        /\ t = <<LineText(request, k + 1)>>
        /\ WholeBefore(request, (k + 1) + 1)
    BY <1>1, <1>5, <1>8, <1>10, LineIsWhole
  <2>2. LineText(request, k + 1) = request.headers[k]
    BY <1>6, <1>4 DEF LineText
  <2>3. t # <<>> /\ t = <<request.headers[k]>>
    BY <2>1, <2>2
  <2>4. checked' = 3 * (k + 1) /\ (k + 1) + 1 = k + 2 /\ k <= H
    BY <1>3, <1>6, <1>9, <1>10, <2>1
  <2> QED
    BY <1>4, <2>1, <2>3, <2>4
<1>11. CASE k + 1 = Lines(request)
  <2>1. /\ request.broken = 0
        /\ LineEnd + 1 = HeadSize(request)
        /\ t = <<>>
    BY <1>1, <1>5, <1>8, <1>11, LineIsWhole
  <2> QED
    BY <1>3, <1>4, <1>6, <1>9, <1>11, <2>1
<1> QED
  BY <1>3, <1>6, <1>10, <1>11

(* What the step of an action must keep besides the buffer.                *)
Rest == Control /\ ParserPlace /\ AnswerMade /\ MoreToCome

LEMMA PlaceKept ==
    ASSUME Place, pc \in {"read", "parse"}, pc' \in {"read", "parse"},
           UNCHANGED <<request, check, checked, contentLength, url, linger>>
    PROVE  Place'
<1>1. ASSUME AtFirstLine PROVE AtFirstLine'
  BY <1>1 DEF AtFirstLine
<1>2. ASSUME NEW k, AtLine(k) PROVE AtLine(k)'
  BY <1>2 DEF AtLine, Seen
<1>3. ASSUME AtBody PROVE AtBody'
  BY <1>3 DEF AtBody, Seen
<1> QED
  BY <1>1, <1>2, <1>3 DEF Place, Refused, AllRead

LEMMA RestAsk ==
    ASSUME IInv, NEW r \in Requests, Ask(r) PROVE Rest'
<1>1. /\ pc' = "read" /\ request' = r /\ stream' = Wire(r)
      /\ UNCHANGED <<read, checked, start, check, contentLength, url, linger,
                     lineOk, code, answer>>
      /\ Fresh /\ r # NoRequest
  BY RequestFacts DEF Ask, IInv, ParserPlace, Live, parser, result
<1>2. Control'
  BY <1>1 DEF IInv, Control
<1>3. ParserPlace'
  <2>1. AtFirstLine'
    BY <1>1 DEF Fresh, AtFirstLine
  <2> QED
    BY <1>1, <2>1 DEF ParserPlace, Place
<1>4. AnswerMade'
  BY <1>1 DEF AnswerMade
<1>5. MoreToCome'
  <2> SUFFICES ASSUME Proper(r) PROVE Wire(r) # <<>>
    BY <1>1 DEF MoreToCome
  <2>1. HeadSize(r) <= Len(Wire(r))
    BY WireFacts DEF Proper, WireShape, BlankLine
  <2>2. HeadSize(r) > 0 /\ HeadSize(r) \in Nat
    BY RequestFacts, RequestAssumption DEF HeadSize
  <2>3. Len(<<>>) = 0
    OBVIOUS
  <2> HIDE DEF HeadSize
  <2> QED
    BY <2>1, <2>2, <2>3
<1> QED
  BY <1>2, <1>3, <1>4, <1>5 DEF Rest

LEMMA RestRead ==
    ASSUME IInv, NEW n \in 1..Len(stream), Read(n) PROVE Rest'
<1>1. /\ pc = "read" /\ pc' = "parse" /\ lineOk' = TRUE
      /\ UNCHANGED <<request, checked, start, check, contentLength, url,
                     linger, code, answer>>
  BY DEF Read, result
<1>2. request # NoRequest
  <2> SUFFICES ASSUME request = NoRequest PROVE FALSE
    OBVIOUS
  <2>1. Len(read) + Len(stream) = 0 /\ Len(read) \in Nat /\ Len(stream) \in Nat
    <3>1. Len(Wire(request)) = 0
      BY WireType
    <3> QED
      BY <1>1, <3>1, StreamFacts DEF IInv
  <2> QED
    BY <2>1
<1>3. Place
  BY <1>1, <1>2 DEF IInv, ParserPlace, Live
<1>4. Place'
  BY <1>1, <1>3, PlaceKept
<1>5. Control'
  BY <1>1 DEF IInv, Control
<1>6. ParserPlace' /\ AnswerMade' /\ MoreToCome'
  BY <1>1, <1>2, <1>4 DEF ParserPlace, AnswerMade, MoreToCome
<1> QED
  BY <1>5, <1>6 DEF Rest

LEMMA RestHangup ==
    ASSUME IInv, Hangup PROVE Rest'
BY DEF Hangup, client, parser, result, IInv, Control, ParserPlace, Live,
       AnswerMade, MoreToCome, Rest

(* The object is reset: for another client or for another request.         *)
LEMMA RestReset ==
    ASSUME IInv, ResetParser, request' = NoRequest, code' = "NO_REQUEST",
           answer' = NoAnswer, pc' = "read", UNCHANGED lineOk
    PROVE  Rest'
<1>1. ~Proper(NoRequest)
  BY RequestFacts DEF Proper
<1>2. Control'
  BY RequestAssumption DEF IInv, Control, ResetParser, NoAnswer
<1>3. ParserPlace' /\ AnswerMade'
  BY DEF ParserPlace, Fresh, ResetParser, AnswerMade
<1>4. MoreToCome'
  BY <1>1 DEF MoreToCome
<1> QED
  BY <1>2, <1>3, <1>4 DEF Rest

(* A parser that finds no line in a proper request has not read all of it. *)
LEMMA RestNoLine ==
    ASSUME IInv, NoLine PROVE Rest'
<1>1. /\ pc = "parse" /\ ~BodyDue /\ ~LineFound
      /\ lineOk' = FALSE /\ pc' = "read"
      /\ UNCHANGED <<request, stream, read, checked, start, check,
                     contentLength, url, linger, code, answer>>
  BY DEF NoLine, client, parser, result
<1>2. request \in Requests /\ request # NoRequest /\ Place
  BY <1>1, Busy
<1>3. Place'
  BY <1>1, <1>2, PlaceKept
<1>4. Control'
  BY <1>1 DEF IInv, Control
<1>5. ParserPlace' /\ AnswerMade'
  BY <1>1, <1>2, <1>3 DEF ParserPlace, AnswerMade
<1>6. MoreToCome'
  <2> SUFFICES ASSUME Proper(request), stream = <<>> PROVE FALSE
    BY <1>1 DEF MoreToCome
  <2>1. request.broken = 0 /\ Control /\ Buffer /\ Agrees
    BY DEF Proper, IInv
  <2>2. Len(request.headers) \in Nat
        /\ Lines(request) = Len(request.headers) + 2
    BY <1>2, RequestFacts, RequestAssumption DEF Lines
  <2>3. ASSUME AtFirstLine PROVE FALSE
    <3>1. InFrontOf(1)
      BY <1>1, <1>2, <2>1, <2>2, <2>3 DEF AtFirstLine, InFrontOf, WholeBefore
    <3> QED
      BY <1>1, <2>1, <3>1, LineIsFound
  <2>4. ASSUME NEW k \in 1..(Len(request.headers) + 1), AtLine(k) PROVE FALSE
    <3>1. InFrontOf(k + 1)
      BY <1>1, <1>2, <2>1, <2>2, <2>4 DEF AtLine, InFrontOf
    <3> QED
      BY <1>1, <2>1, <3>1, LineIsFound
  <2>5. ASSUME AtBody PROVE FALSE
    <3>1. ~lineOk
      BY <1>1, <2>5 DEF AtBody, BodyDue, IInv, Control
    <3> QED
      BY <1>1, <3>1 DEF IInv, MoreToCome
  <2> QED
    BY <1>1, <1>2, <2>3, <2>4, <2>5 DEF Place, Refused, AllRead
<1> QED
  BY <1>4, <1>5, <1>6 DEF Rest

LEMMA RestRequestLine ==
    ASSUME IInv, NEW l \in DOMAIN Outcome, RequestLine(l) PROVE Rest'
<1>1. /\ check = "REQUESTLINE" /\ pc = "parse" /\ LineFound /\ TakeLine
      /\ Text = <<l>> /\ check' = "HEADER" /\ url' = l
      /\ UNCHANGED <<request, stream, lineOk, contentLength, linger, code,
                     answer, pc>>
  BY DEF RequestLine, ParseLine, client, result
<1>2. request \in Requests /\ request # NoRequest /\ Place
  BY <1>1, Busy
<1>3. AtFirstLine
  BY <1>1, <1>2 DEF Place, AtLine, AtBody, Refused, AllRead
<1>4. Len(request.headers) \in Nat
      /\ Lines(request) = Len(request.headers) + 2
  BY <1>2, RequestFacts, RequestAssumption DEF Lines
<1>5. InFrontOf(1)
  <2>1. WholeBefore(request, 1)
    BY <1>2, RequestFacts DEF WholeBefore
  <2> QED
    BY <1>1, <1>2, <1>3, <1>4, <2>1 DEF AtFirstLine, InFrontOf
<1>6. /\ LineEnd = 3 * 1 - 1
      /\ Text = <<LineText(request, 1)>>
      /\ WholeBefore(request, 1 + 1)
  BY <1>1, <1>4, <1>5, LineIsWhole DEF IInv
<1>7. l = request.line /\ checked' = 3 * 1
  BY <1>1, <1>6 DEF LineText, TakeLine
<1>8. Seen(1 - 1)'
  <2>1. ~\E j \in 1..(1 - 1) : TRUE
    OBVIOUS
  <2>2. linger' = FALSE /\ contentLength' = 0
    BY <1>1, <1>3 DEF AtFirstLine, IInv, Control
  <2>3. url' = request'.line /\ url' \in DOMAIN Outcome
    BY <1>1, <1>7
  <2> QED
    BY <2>1, <2>2, <2>3 DEF Seen
<1>9. AtLine(1)'
  BY <1>1, <1>6, <1>7, <1>8 DEF AtLine, WholeBefore
<1>10. ParserPlace'
  BY <1>1, <1>2, <1>4, <1>9 DEF ParserPlace, Place
<1>11. Control' /\ AnswerMade' /\ MoreToCome'
  BY <1>1 DEF IInv, Control, AnswerMade, MoreToCome
<1> QED
  BY <1>10, <1>11 DEF Rest

LEMMA RestBadRequestLine ==
    ASSUME IInv, BadRequestLine PROVE Rest'
<1>1. /\ check = "REQUESTLINE" /\ pc = "parse" /\ LineFound /\ TakeLine
      /\ \A l \in DOMAIN Outcome : Text # <<l>>
      /\ code' = "BAD_REQUEST" /\ pc' = "respond"
      /\ UNCHANGED <<request, stream, lineOk, check, contentLength, url,
                     linger, answer>>
  BY DEF BadRequestLine, ParseLine, client
<1>2. request \in Requests /\ request # NoRequest /\ Place
  BY <1>1, Busy
<1>3. AtFirstLine
  BY <1>1, <1>2 DEF Place, AtLine, AtBody, Refused, AllRead
<1>4. Len(request.headers) \in Nat
      /\ Lines(request) = Len(request.headers) + 2
  BY <1>2, RequestFacts, RequestAssumption DEF Lines
<1>5. InFrontOf(1)
  <2>1. WholeBefore(request, 1)
    BY <1>2, RequestFacts DEF WholeBefore
  <2> QED
    BY <1>1, <1>2, <1>3, <1>4, <2>1 DEF AtFirstLine, InFrontOf
<1>6. Text = <<LineText(request, 1)>>
  BY <1>1, <1>4, <1>5, LineIsWhole DEF IInv
<1>7. request.line \notin DOMAIN Outcome
  BY <1>1, <1>6 DEF LineText
<1>8. Refused'
  BY <1>1, <1>3, <1>7 DEF Refused, AtFirstLine
<1>9. ParserPlace'
  BY <1>1, <1>2, <1>8 DEF ParserPlace, Place
<1>10. Control' /\ AnswerMade' /\ MoreToCome'
  BY <1>1, TableFacts DEF IInv, Control, AnswerMade, MoreToCome
<1> QED
  BY <1>9, <1>10 DEF Rest

(* Parse_Head: what every line of the head has in common.                  *)
LEMMA RestHeadLine ==
    ASSUME IInv, NEW t, HeadLine(t)
    PROVE  /\ request \in Requests /\ request # NoRequest
           /\ Len(request.headers) \in Nat
           /\ check = "HEADER" /\ pc = "parse"
           /\ UNCHANGED <<request, stream, lineOk, url, code, answer>>
<1>1. /\ pc = "parse" /\ check = "HEADER"
      /\ UNCHANGED <<request, stream, lineOk, url, code, answer>>
  BY DEF HeadLine, ParseLine, client, result
<1>2. request \in Requests /\ request # NoRequest
  BY <1>1, Busy
<1> QED
  BY <1>1, <1>2, RequestFacts, RequestAssumption

(* A header that has been taken.                                           *)
LEMMA RestHeader ==
    ASSUME IInv, NEW t, HeadLine(<<t>>), UNCHANGED <<check, pc>>,
           linger' \in BOOLEAN, linger' <=> linger \/ t = KEEP_ALIVE,
           contentLength' = IF t = NUMBER_FIRST THEN BODY ELSE contentLength
    PROVE  Rest'
<1>1. /\ request \in Requests /\ request # NoRequest
      /\ Len(request.headers) \in Nat
      /\ check = "HEADER" /\ pc = "parse"
      /\ UNCHANGED <<request, stream, lineOk, url, code, answer>>
  BY RestHeadLine
<1>2. <<t>> # <<>>
  OBVIOUS
<1>3. PICK k \in 1..(Len(request.headers) + 1) :
          /\ AtLine(k)
          /\ k <= Len(request.headers)
          /\ <<t>> = <<request.headers[k]>>
          /\ checked' = 3 * (k + 1)
          /\ WholeBefore(request, k + 2)
  BY <1>2, HeadLineFacts
<1>4. t = request.headers[k] /\ k \in 1..Len(request.headers)
  BY <1>1, <1>3
<1>5. Seen(k - 1) /\ linger \in BOOLEAN
  BY <1>3 DEF AtLine, IInv, Control
<1>6. Seen(k)'
  BY <1>1, <1>4, <1>5, SeenStep
<1>7. AtLine(k + 1)'
  <2>1. (k + 1) - 1 = k /\ (k + 1) + 1 = k + 2
    BY <1>1, <1>4
  <2>2. WholeBefore(request', (k + 1) + 1)
    BY <1>1, <1>3, <2>1
  <2> QED
    BY <1>1, <1>3, <1>6, <2>1, <2>2 DEF AtLine
<1>8. k + 1 \in 1..(Len(request'.headers) + 1)
  BY <1>1, <1>4
<1>9. ParserPlace'
  BY <1>1, <1>7, <1>8 DEF ParserPlace, Place
<1>10. Control' /\ AnswerMade' /\ MoreToCome'
  BY <1>1 DEF IInv, Control, AnswerMade, MoreToCome
<1> QED
  BY <1>9, <1>10 DEF Rest

LEMMA RestEndOfHead ==
    ASSUME IInv, EndOfHead PROVE Rest'
<1>1. /\ HeadLine(<<>>)
      /\ UNCHANGED <<contentLength, linger>>
      /\ IF contentLength # 0 THEN check' = "CONTENT" /\ pc' = pc
                              ELSE pc' = "file" /\ check' = check
  BY DEF EndOfHead
<1>2. /\ request \in Requests /\ request # NoRequest
      /\ Len(request.headers) \in Nat
      /\ check = "HEADER" /\ pc = "parse"
      /\ UNCHANGED <<request, stream, lineOk, url, code, answer>>
  BY <1>1, RestHeadLine
<1>3. PICK k \in 1..(Len(request.headers) + 1) :
          /\ AtLine(k)
          /\ k = Len(request.headers) + 1
          /\ request.broken = 0
          /\ checked' = HeadSize(request)
  BY <1>1, HeadLineFacts
<1>4. k - 1 = Len(request.headers)
  BY <1>2, <1>3
<1>5. Seen(Len(request.headers))
  BY <1>3, <1>4 DEF AtLine
<1>6. Seen(Len(request.headers))'
  BY <1>1, <1>2, <1>5 DEF Seen
<1>7. contentLength # 0 <=> request.body # <<>>
  BY <1>2, <1>5, RequestFacts, RequestAssumption DEF Seen, Contains
<1>8. ParserPlace'
  <2>1. CASE contentLength # 0
    <3>1. HeadSize(request) \in Nat /\ HeadSize(request') = HeadSize(request)
      BY <1>2 DEF HeadSize
    <3>2. AtBody'
      <4> HIDE DEF HeadSize
      <4> QED
        BY <1>1, <1>2, <1>3, <1>6, <1>7, <2>1, <3>1 DEF AtBody
    <3> QED
      BY <1>2, <3>2 DEF ParserPlace, Place
  <2>2. CASE contentLength = 0
    <3>1. Buffer' /\ Agrees'
      <4>1. [Next]_vars
        BY DEF Next, ProcessRead
      <4> QED
        BY <4>1, BufferStep
    <3>2. /\ checked' <= Len(read') /\ Len(read') \in Nat
          /\ Len(read') <= Len(Wire(request))
          /\ stream' = SubSeq(Wire(request), Len(read') + 1,
                              Len(Wire(request)))
      <4>1. pc' # "closed"
        BY <1>1, <2>2
      <4>2. Wire(request)' = Wire(request)
        BY <1>2 DEF Wire
      <4> QED
        BY <3>1, <4>1, <4>2, LenProperties DEF Buffer, Agrees
    <3>3. Len(Wire(request)) = HeadSize(request)
      <4>1. Len(Wire(request)) = HeadSize(request) + Len(<<>>)
        BY <1>2, <1>3, <1>7, <2>2, WireFacts DEF WireShape, BodyBehind
      <4> QED
        BY <1>2, <4>1 DEF HeadSize
    <3>4. stream' = <<>>
      <4> DEFINE w == Wire(request)
      <4>1. Len(read') = Len(w) /\ w \in Seq(Symbols)
        BY <1>2, <1>3, <3>2, <3>3, WireType DEF HeadSize
      <4>2. stream' = SubSeq(w, Len(w) + 1, Len(w))
        BY <3>2, <4>1
      <4> HIDE DEF w
      <4> QED
        BY <4>1, <4>2, DropFacts, LenProperties, EmptySeq
    <3>5. AllRead'
      BY <1>1, <1>6, <2>2, <3>4 DEF AllRead
    <3> QED
      BY <1>2, <3>5 DEF ParserPlace, Place
  <2> QED
    BY <2>1, <2>2
<1>9. Control' /\ AnswerMade' /\ MoreToCome'
  BY <1>1, <1>2 DEF IInv, Control, AnswerMade, MoreToCome
<1> QED
  BY <1>8, <1>9 DEF Rest

LEMMA RestHeaders ==
    ASSUME IInv, KeepAliveHead \/ LengthHead \/ NumberFirstHead \/ OtherHead
    PROVE  Rest'
<1>1. linger \in BOOLEAN
  BY DEF IInv, Control
<1>2. CASE KeepAliveHead
  <2>1. /\ HeadLine(<<KEEP_ALIVE>>) /\ linger' = TRUE
        /\ UNCHANGED <<check, contentLength, pc>>
    BY <1>2 DEF KeepAliveHead
  <2>2. KEEP_ALIVE # NUMBER_FIRST
    BY DEF KEEP_ALIVE, NUMBER_FIRST
  <2> QED
    BY <2>1, <2>2, RestHeader
<1>3. CASE LengthHead
  <2>1. /\ HeadLine(<<LENGTH>>) /\ pc' = "terminated"
        /\ UNCHANGED <<check, contentLength, linger>>
    BY <1>3 DEF LengthHead
  <2>2. UNCHANGED <<request, stream, lineOk, url, code, answer>>
    BY <2>1, RestHeadLine
  <2> QED
    BY <2>1, <2>2 DEF Rest, IInv, Control, ParserPlace, Live, AnswerMade,
                      MoreToCome
<1>4. CASE NumberFirstHead
  <2>1. /\ HeadLine(<<NUMBER_FIRST>>) /\ contentLength' = BODY
        /\ UNCHANGED <<check, linger, pc>>
    BY <1>4 DEF NumberFirstHead
  <2>2. KEEP_ALIVE # NUMBER_FIRST
    BY DEF KEEP_ALIVE, NUMBER_FIRST
  <2> QED
    BY <1>1, <2>1, <2>2, RestHeader
<1>5. CASE OtherHead
  <2>1. /\ HeadLine(Text)
        /\ Text \notin {<<>>, <<KEEP_ALIVE>>, <<LENGTH>>, <<NUMBER_FIRST>>}
        /\ UNCHANGED <<check, contentLength, linger, pc>>
    BY <1>5 DEF OtherHead
  <2>2. PICK k : Text = <<request.headers[k]>>
    BY <2>1, HeadLineFacts
  <2> DEFINE t == request.headers[k]
  <2>3. HeadLine(<<t>>)
    BY <2>1, <2>2
  <2>4. t # KEEP_ALIVE /\ t # NUMBER_FIRST
    BY <2>1, <2>2
  <2> HIDE DEF t
  <2> QED
    BY <1>1, <2>1, <2>3, <2>4, RestHeader
<1> QED
  BY <1>2, <1>3, <1>4, <1>5

(* No part of a proper body can be taken for a line.                       *)
LEMMA NoLineInBody ==
    ASSUME Control, Buffer, Agrees, Proper(request), pc # "closed",
           checked = HeadSize(request)
    PROVE  ~LineFound
<1> DEFINE w == Wire(request)
           h == HeadSize(request)
           b == request.body
<1>1. request \in Requests /\ request.broken = 0
  BY DEF Proper
<1>2. h \in Nat /\ Len(request.headers) \in Nat
  BY <1>1, RequestFacts, RequestAssumption DEF HeadSize
<1>3. /\ Len(w) = h + Len(b)
      /\ \A j \in 1..Len(b) : w[h + j] = b[j]
  BY <1>1, WireFacts DEF WireShape, BodyBehind
<1>4. b \in Seq(Symbols) /\ Len(b) \in Nat /\ DOMAIN b = 1..Len(b)
  BY <1>1, RequestFacts, BodyFacts, LenProperties
<1>5. \A j \in 1..Len(b) : b[j] \notin {CR, LF}
  BY <1>4 DEF Proper, CR, LF
<1>6. /\ Len(read) \in Nat /\ Len(read) <= Len(w)
      /\ \A i \in (checked + 1)..Len(read) : read[i] = w[i]
  BY StreamFacts DEF Agrees
<1> HIDE DEF w, h, b
<1>7. checked = h
  BY DEF h
<1>8. ASSUME NEW i \in (checked + 1)..Len(read) PROVE read[i] \notin {CR, LF}
  <2>1. i - h \in 1..Len(b) /\ h + (i - h) = i
    BY <1>2, <1>3, <1>4, <1>6, <1>7
  <2>2. w[h + (i - h)] = b[i - h] /\ b[i - h] \notin {CR, LF}
    BY <1>3, <1>5, <2>1
  <2> QED
    BY <1>6, <2>1, <2>2
<1>9. Ends = {}
  BY <1>8 DEF Ends
<1> QED
  BY <1>9 DEF LineFound

LEMMA RestContent ==
    ASSUME IInv, Content PROVE Rest'
<1> DEFINE h == HeadSize(request)
           w == Wire(request)
           m == Len(read)
<1>1. /\ check = "CONTENT" /\ pc = "parse"
      /\ UNCHANGED <<request, stream, check, contentLength, url, linger, code,
                     answer>>
  BY DEF Content, ParseLine, client, result
<1>2. checked' = checked \/ (LineFound /\ checked' > checked)
  BY LineTaken DEF Content, ParseLine, IInv
<1>3. IF m >= contentLength + checked'
      THEN pc' = "file" /\ lineOk' = lineOk
      ELSE lineOk' = FALSE /\ pc' = pc
  BY DEF Content
<1>4. request \in Requests /\ request # NoRequest /\ Place
  BY <1>1, Busy
<1>5. AtBody
  BY <1>1, <1>4 DEF Place, AtFirstLine, AtLine, Refused, AllRead
<1>6. h \in Nat /\ BODY \in Nat \ {0}
  BY <1>4, RequestFacts, RequestAssumption DEF HeadSize
<1>7. contentLength = BODY
  BY <1>4, <1>5, RequestFacts DEF AtBody, Seen, Contains
<1>8. Len(w) = h + BODY
  <2>1. Len(w) = h + Len(request.body)
    BY <1>4, <1>5, WireFacts DEF AtBody, WireShape, BodyBehind
  <2>2. Len(request.body) = BODY
    BY <1>4, <1>5, RequestFacts, BodyFacts DEF AtBody
  <2> QED
    BY <2>1, <2>2
<1>9. /\ m \in Nat /\ m <= Len(w)
      /\ stream = <<>> <=> m = Len(w)
  BY <1>1, StreamFacts DEF IInv, Agrees
<1>10. checked \in Nat
  BY LenProperties DEF IInv, Buffer
<1>11. checked >= h
  BY <1>5 DEF AtBody
<1>12. Proper(request) => checked = h /\ checked' = checked
  <2> SUFFICES ASSUME Proper(request) PROVE checked = h /\ checked' = checked
    OBVIOUS
  <2>1. checked = h
    BY <1>5 DEF AtBody
  <2>2. ~LineFound
    BY <1>1, <2>1, NoLineInBody DEF IInv
  <2> QED
    BY <1>2, <2>1, <2>2
<1>13. Seen(Len(request.headers))'
  BY <1>1, <1>5 DEF AtBody, Seen
<1>14. checked' >= h /\ h = HeadSize(request')
  <2>1. checked' = checked \/ checked' > checked
    BY <1>2
  <2>2. Buffer'
    <3>1. [Next]_vars
      BY DEF Next, ProcessRead
    <3> QED
      BY <3>1, BufferStep
  <2>3. checked' \in Nat
    BY <2>2, LenProperties DEF Buffer
  <2>4. h = HeadSize(request')
    BY <1>1
  <2> HIDE DEF h
  <2> QED
    BY <1>6, <1>10, <1>11, <2>1, <2>3, <2>4
<1> HIDE DEF h, w, m
<1>15. checked' \in Nat
  <2>1. [Next]_vars
    BY DEF Next, ProcessRead
  <2> QED
    BY <2>1, BufferStep, LenProperties DEF Buffer
<1>16. CASE m >= contentLength + checked'
  <2>1. m = Len(w)
    <3>1. m >= BODY + checked' /\ checked' >= h
      BY <1>7, <1>14, <1>16
    <3>2. m \in Nat /\ m <= h + BODY
      BY <1>8, <1>9
    <3>3. \A a, b, c, d \in Nat :
              a >= b + c /\ c >= d /\ a <= d + b => a = d + b
      OBVIOUS
    <3>4. m = h + BODY
      BY <1>6, <1>15, <3>1, <3>2, <3>3
    <3> QED
      BY <1>8, <3>4
  <2>2. pc' = "file" /\ lineOk' = lineOk /\ stream' = <<>>
    BY <1>1, <1>3, <1>9, <1>16, <2>1
  <2>3. AllRead'
    BY <1>13, <2>2 DEF AllRead
  <2>4. ParserPlace'
    BY <1>1, <1>4, <2>3 DEF ParserPlace, Place
  <2>5. Control' /\ AnswerMade' /\ MoreToCome'
    BY <1>1, <2>2 DEF IInv, Control, AnswerMade, MoreToCome
  <2> QED
    BY <2>4, <2>5 DEF Rest
<1>17. CASE ~(m >= contentLength + checked')
  <2>1. lineOk' = FALSE /\ pc' = pc
    BY <1>3, <1>17
  <2>2. AtBody'
    <3>1. Proper(request) => checked' = HeadSize(request)
      BY <1>12 DEF h
    <3> QED
      BY <1>1, <1>5, <1>13, <1>14, <2>1, <3>1 DEF AtBody
  <2>3. ParserPlace'
    BY <1>1, <1>4, <2>2 DEF ParserPlace, Place
  <2>4. Proper(request) => stream # <<>>
    BY <1>6, <1>7, <1>8, <1>9, <1>12, <1>17
  <2>5. Control' /\ AnswerMade' /\ MoreToCome'
    BY <1>1, <2>1, <2>4 DEF IInv, Control, AnswerMade, MoreToCome
  <2> QED
    BY <2>3, <2>5 DEF Rest
<1> QED
  BY <1>16, <1>17

LEMMA RestDoResponse ==
    ASSUME IInv, DoResponse PROVE Rest'
<1>1. /\ pc = "file" /\ code' = Outcome[url] /\ pc' = "respond"
      /\ UNCHANGED <<request, stream, lineOk, check, contentLength, url,
                     linger, answer>>
  BY DEF DoResponse, client, parser
<1>2. request \in Requests /\ request # NoRequest /\ Place
  BY <1>1, Busy
<1>3. AllRead
  BY <1>1, <1>2 DEF Place, AtFirstLine, AtLine, AtBody, Refused
<1>4. AllRead' /\ url \in DOMAIN Outcome
  BY <1>1, <1>3 DEF AllRead, Seen
<1>5. ParserPlace'
  BY <1>1, <1>2, <1>4 DEF ParserPlace, Place
<1>6. Control' /\ AnswerMade' /\ MoreToCome'
  BY <1>1, <1>4, TableFacts DEF IInv, Control, AnswerMade, MoreToCome
<1> QED
  BY <1>5, <1>6 DEF Rest

LEMMA RestProcessWrite ==
    ASSUME IInv, ProcessWrite PROVE Rest'
<1>1. /\ pc = "respond" /\ pc' = "write"
      /\ answer' = [status |-> Status[code], keepAlive |-> linger]
      /\ UNCHANGED <<request, stream, lineOk, check, contentLength, url,
                     linger, code>>
  BY DEF ProcessWrite, client, parser
<1>2. request \in Requests /\ request # NoRequest /\ Place
  BY <1>1, Busy
<1>3. Refused \/ AllRead
  BY <1>1, <1>2 DEF Place, AtFirstLine, AtLine, AtBody
<1>4. (Refused \/ AllRead)'
  BY <1>1, <1>3 DEF Refused, AllRead, Seen
<1>5. code \in DOMAIN Status
  <2>1. ASSUME Refused PROVE code \in DOMAIN Status
    BY <2>1, TableFacts DEF Refused
  <2>2. ASSUME AllRead PROVE code \in DOMAIN Status
    <3>1. code = Outcome[url] /\ url \in DOMAIN Outcome
      BY <1>1, <2>2 DEF AllRead, Seen
    <3> QED
      BY <3>1, TableFacts
  <2> QED
    BY <1>3, <2>1, <2>2
<1>6. ParserPlace'
  BY <1>1, <1>2, <1>4 DEF ParserPlace, Place
<1>7. Control' /\ AnswerMade' /\ MoreToCome'
  BY <1>1, <1>5, TableFacts DEF IInv, Control, AnswerMade, MoreToCome
<1> QED
  BY <1>6, <1>7 DEF Rest

LEMMA RestSent ==
    ASSUME IInv, Sent PROVE Rest'
<1>1. CASE linger
  BY <1>1, RestReset DEF Sent
<1>2. CASE ~linger
  <2>1. /\ pc' = "closed"
        /\ UNCHANGED <<request, stream, lineOk, check, contentLength, url,
                       linger, code, answer>>
    BY <1>2 DEF Sent, client, parser, result
  <2> QED
    BY <2>1 DEF Rest, IInv, Control, ParserPlace, Live, AnswerMade, MoreToCome
<1> QED
  BY <1>1, <1>2

LEMMA RestStep == IInv /\ [Next]_vars => Rest'
<1> SUFFICES ASSUME IInv, [Next]_vars PROVE Rest'
  OBVIOUS
<1>1. ASSUME NEW r \in Requests, Ask(r) PROVE Rest'
  BY <1>1, RestAsk
<1>2. ASSUME NEW n \in 1..Len(stream), Read(n) PROVE Rest'
  BY <1>2, RestRead
<1>3. CASE Hangup
  BY <1>3, RestHangup
<1>4. CASE Reuse
  BY <1>4, RestReset DEF Reuse
<1>5. CASE ProcessRead
  <2>1. ASSUME NEW l \in DOMAIN Outcome, RequestLine(l) PROVE Rest'
    BY <2>1, RestRequestLine
  <2> QED
    BY <1>5, <2>1, RestNoLine, RestBadRequestLine, RestEndOfHead, RestHeaders,
       RestContent DEF ProcessRead
<1>6. CASE DoResponse
  BY <1>6, RestDoResponse
<1>7. CASE ProcessWrite
  BY <1>7, RestProcessWrite
<1>8. CASE Sent
  BY <1>8, RestSent
<1>9. CASE UNCHANGED vars
  <2>1. UNCHANGED <<request, stream, read, checked, start, lineOk, check,
                    contentLength, url, linger, code, answer, pc>>
    BY <1>9 DEF vars, client, parser, result
  <2>2. ParserPlace'
    <3>1. CASE pc \in {"read", "parse"} /\ request # NoRequest
      <4>1. Place
        BY <3>1 DEF IInv, ParserPlace, Live
      <4> QED
        BY <2>1, <3>1, <4>1, PlaceKept DEF ParserPlace
    <3>2. CASE pc \notin {"read", "parse"} /\ request # NoRequest
      <4>1. Live => Refused \/ AllRead
        BY <3>2 DEF IInv, ParserPlace, Place, AtFirstLine, AtLine, AtBody
      <4> QED
        BY <2>1, <3>2, <4>1
           DEF ParserPlace, Live, Place, Refused, AllRead, Seen
    <3>3. CASE request = NoRequest
      BY <2>1, <3>3 DEF IInv, ParserPlace, Live, Fresh
    <3> QED
      BY <3>1, <3>2, <3>3
  <2> QED
    BY <2>1, <2>2 DEF Rest, IInv, Control, AnswerMade, MoreToCome
<1> QED
  BY <1>1, <1>2, <1>3, <1>4, <1>5, <1>6, <1>7, <1>8, <1>9 DEF Next

(* No pass of Process_Read, and nothing that happens between two passes,   *)
(* leaves the parser out of its place: the invariant is inductive.         *)
THEOREM Inductive == IInv /\ [Next]_vars => IInv'
<1>1. IInv /\ [Next]_vars => Buffer' /\ Agrees' /\ Suffix'
  BY BufferStep
<1>2. IInv /\ [Next]_vars => Rest'
  BY RestStep
<1> QED
  BY <1>1, <1>2 DEF IInv, Rest

(* It holds of every parser and response of the server, always.            *)
THEOREM Invariant == Spec => []IInv
BY InitOK, Inductive, PTL DEF Spec
-----------------------------------------------------------------------------
(***************************************************************************)
(* What follows from it.                                                   *)
(***************************************************************************)

(* Every variable of the model of Process_Read, Do_Response and            *)
(* Process_Write has its type.                                             *)
THEOREM TypeCorrect == Spec => []TypeOK
<1>1. IInv => TypeOK
  BY DEF IInv, TypeOK, Control, Suffix, Buffer
<1> QED
  BY <1>1, Invariant, PTL

(* Parse_Line never meets the CR or the LF of a line that was taken, and   *)
(* what it has yet to look at is what the client sent, to the last byte.   *)
THEOREM TakesLines == Spec => []LinesTaken
<1>1. IInv => LinesTaken
  <2> SUFFICES ASSUME IInv PROVE LinesTaken
    OBVIOUS
  <2>1. /\ start = checked
        /\ checked <= Len(read)
        /\ \A i \in 1..checked : read[i] \notin {CR, LF}
    BY LenProperties DEF IInv, Buffer
  <2>2. pc # "closed" =>
            /\ Len(read) + Len(stream) = Len(Wire(request))
            /\ \A i \in (checked + 1)..Len(read) : read[i] = Wire(request)[i]
    BY StreamFacts DEF IInv, Agrees
  <2> QED
    BY <2>1, <2>2 DEF LinesTaken
<1> QED
  BY <1>1, Invariant, PTL

(* However a request is cut into pieces, and whatever the object has       *)
(* served before, the answer is the one that is due, and the request has   *)
(* been read to its last byte unless its first line is refused.            *)
THEOREM AnswersAreDue == Spec => []AnswerDue
<1>1. IInv => AnswerDue
  <2> SUFFICES ASSUME IInv, Proper(request), pc = "write"
               PROVE  /\ answer = Due(request)
                      /\ request.line \in DOMAIN Outcome => stream = <<>>
    BY DEF AnswerDue
  <2>1. Place /\ answer = [status |-> Status[code], keepAlive |-> linger]
    BY Busy DEF IInv, AnswerMade
  <2>2. linger \in BOOLEAN
    BY DEF IInv, Control
  <2>3. Refused \/ AllRead
    BY <2>1 DEF Place, AtFirstLine, AtLine, AtBody
  <2>4. CASE Refused
    <3>1. linger = FALSE
      BY <2>2, <2>4 DEF Refused
    <3> QED
      BY <2>1, <2>4, <3>1, TableFacts DEF Refused, Due
  <2>5. CASE AllRead
    <3>1. /\ request.line \in DOMAIN Outcome /\ code = Outcome[request.line]
          /\ linger = Contains(request.headers, KEEP_ALIVE)
          /\ stream = <<>>
      BY <2>5 DEF AllRead, Seen, Contains
    <3>2. ASSUME NEW l \in DOMAIN Outcome
          PROVE  Status[Outcome[l]] = CASE l = "page" -> 200
                                        [] l = "private" -> 403
                                        [] l = "directory" -> 400
                                        [] l = "empty" -> 500
                                        [] OTHER -> 404
      BY DEF Outcome, Status
    <3> QED
      BY <2>1, <3>1, <3>2 DEF Due
  <2> QED
    BY <2>3, <2>4, <2>5
<1> QED
  BY <1>1, Invariant, PTL

(* A proper request that has come in whole is answered from what has been  *)
(* read: EPOLLIN is not watched for more of it.                            *)
THEOREM NoneIsLeftWaiting == Spec => []NoneWaits
<1>1. IInv => NoneWaits
  BY DEF IInv, MoreToCome, NoneWaits
<1> QED
  BY <1>1, Invariant, PTL
=============================================================================
