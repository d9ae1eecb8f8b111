--------------------------- MODULE EchoServerProofs ---------------------------
(***************************************************************************)
(* Proofs about EchoServer, for any number of clients, any length of       *)
(* infos[] and any number of messages: the types, that no thread uses      *)
(* another client's connection, and that a client which leaves quietly     *)
(* ends nothing.                                                           *)
(***************************************************************************)
EXTENDS EchoServer, SequenceFacts, FiniteSetTheorems, SequenceTheorems, TLAPS

(* The types of what the proof is about.                                   *)
Types ==
    /\ backlog \in Seq(Clients)
    /\ owner \in [Fds -> Clients \cup {NOBODY}]
    /\ mpc \in {"accept", "search"}
    /\ cfd \in Fds \cup {-1}
    /\ infos \in [1..MaxInfos -> Fds \cup {-1}]
    /\ slot \in [Clients -> 0..MaxInfos]
    /\ tpc \in [Clients -> {"none", "read", "write", "close", "done"}]
    /\ cpc \in [Clients -> {"start", "send", "read", "left", "killed"}]

(* A client has neither a connection nor a thread before it connects, and  *)
(* waits in listen's queue at most once, without a thread.                 *)
Queued(c) == \E i \in 1..Len(backlog) : backlog[i] = c

InTurn ==
    /\ \A c \in Clients : cpc[c] = "start" =>
           /\ tpc[c] = "none"
           /\ ~Queued(c)
           /\ \A fd \in Fds : owner[fd] # c
    /\ \A c \in Clients : Queued(c) => tpc[c] = "none"
    /\ \A i, j \in 1..Len(backlog) : backlog[i] = backlog[j] => i = j

(* The connection that main is about to give an element of infos[].        *)
Accepted ==
    mpc = "search" =>
        /\ cfd \in Fds
        /\ owner[cfd] \in Clients
        /\ tpc[owner[cfd]] = "none"
        /\ ~Queued(owner[cfd])
        /\ cpc[owner[cfd]] # "start"

(* The element of a running thread holds its client's open descriptor.     *)
Served ==
    \A c \in Clients : Running(c) =>
        /\ slot[c] \in 1..MaxInfos
        /\ infos[slot[c]] \in Fds
        /\ owner[infos[slot[c]]] = c

IInv == Types /\ InTurn /\ Accepted /\ Served
-----------------------------------------------------------------------------
USE DEF kernel, main, threads, clients

(* -1 is no descriptor.                                                    *)
LEMMA FdsPositive == \A fd \in Fds : fd \in Nat /\ fd # -1
<1>1. Cardinality(Clients) \in Nat
  BY EchoAssumption, FS_CardinalityType
<1> QED
  BY <1>1 DEF Fds

LEMMA InitHolds == Init => IInv
<1> SUFFICES ASSUME Init PROVE IInv
  OBVIOUS
<1>1. Types
  BY EchoAssumption, EmptySeq DEF Init, Types
<1>2. Len(backlog) = 0
  BY EmptySeq DEF Init
<1>3. InTurn
  BY <1>2, EchoAssumption DEF Init, InTurn, Queued
<1>4. Accepted /\ Served
  BY DEF Init, Accepted, Served, Running
<1> QED
  BY <1>1, <1>3, <1>4 DEF IInv

(* A client joins the end of listen's queue.                               *)
LEMMA ConnectKeeps ==
    ASSUME IInv, NEW c \in Clients, Connect(c)
    PROVE  IInv'
<1>1. /\ backlog \in Seq(Clients) /\ backlog' = Append(backlog, c)
      /\ cpc[c] = "start" /\ cpc' = [cpc EXCEPT ![c] = "send"]
      /\ UNCHANGED <<owner, main, tpc>>
  BY DEF Connect, IInv, Types
<1>2. /\ backlog' \in Seq(Clients)
      /\ Len(backlog') = Len(backlog) + 1 /\ Len(backlog) \in Nat
      /\ \A i \in 1..Len(backlog) : backlog'[i] = backlog[i]
      /\ backlog'[Len(backlog) + 1] = c
  BY <1>1
<1>3. \A d \in Clients : Queued(d)' <=> Queued(d) \/ d = c
  BY <1>2 DEF Queued
<1>4. Types'
  BY <1>1, <1>2 DEF IInv, Types
<1>5. /\ ~Queued(c) /\ tpc[c] = "none"
      /\ \A fd \in Fds : owner[fd] # c
  BY <1>1 DEF IInv, InTurn
<1>6. \A d \in Clients : cpc'[d] = IF d = c THEN "send" ELSE cpc[d]
  BY <1>1 DEF IInv, Types
<1>7. \A i, j \in 1..Len(backlog') : backlog'[i] = backlog'[j] => i = j
  BY <1>2, <1>5 DEF IInv, InTurn, Queued
<1>8. InTurn'
  BY <1>1, <1>3, <1>5, <1>6, <1>7 DEF IInv, InTurn
<1>9. Accepted'
  BY <1>1, <1>3, <1>5, <1>6 DEF IInv, Accepted
<1>10. Served'
  BY <1>1 DEF IInv, Served, Running
<1> QED
  BY <1>4, <1>8, <1>9, <1>10 DEF IInv

(* The first of the queue gets a descriptor that nobody has.               *)
LEMMA AcceptKeeps ==
    ASSUME IInv, NEW fd \in Fds, Accept(fd)
    PROVE  IInv'
<1>0. Head(backlog) \in Clients
  BY HeadTailProperties DEF Accept, IInv, Types
<1> PICK c \in Clients : c = Head(backlog)
  BY <1>0
<1>1. /\ backlog \in Seq(Clients) /\ backlog # <<>>
      /\ backlog' = Tail(backlog)
      /\ owner[fd] = NOBODY /\ owner' = [owner EXCEPT ![fd] = c]
      /\ cfd' = fd /\ mpc' = "search"
      /\ UNCHANGED <<infos, slot, tpc, cpc>>
  BY DEF Accept, IInv, Types
<1>2. /\ c \in Clients /\ c = backlog[1] /\ 1 \in 1..Len(backlog)
      /\ backlog' \in Seq(Clients)
      /\ Len(backlog') = Len(backlog) - 1 /\ Len(backlog) \in Nat
      /\ \A i \in 1..Len(backlog') : backlog'[i] = backlog[i + 1]
  BY <1>1, HeadTailProperties, EmptySeq
<1>3. Queued(c)
  BY <1>2 DEF Queued
<1>4. /\ \A d \in Clients : Queued(d)' => Queued(d)
      /\ ~Queued(c)'
  <2>1. \A i \in 1..Len(backlog') :
            i + 1 \in 1..Len(backlog) /\ i + 1 # 1
    BY <1>2
  <2>2. \A d \in Clients : Queued(d)' => Queued(d)
    BY <1>2, <2>1 DEF Queued
  <2>3. \A i, j \in 1..Len(backlog) : backlog[i] = backlog[j] => i = j
    BY DEF IInv, InTurn
  <2>4. \A i \in 1..Len(backlog') : backlog'[i] # c
    BY <1>2, <2>1, <2>3
  <2>5. ~Queued(c)'
    BY <2>4 DEF Queued
  <2> QED
    BY <2>2, <2>5
<1>5. Types'
  BY <1>1, <1>2 DEF IInv, Types
<1>6. /\ owner'[fd] = c /\ cpc[c] # "start" /\ tpc[c] = "none"
      /\ \A e \in Fds : e # fd => owner'[e] = owner[e]
  BY <1>1, <1>2, <1>3 DEF IInv, Types, InTurn
<1>7. \A i, j \in 1..Len(backlog') : backlog'[i] = backlog'[j] => i = j
  <2> SUFFICES ASSUME NEW i \in 1..Len(backlog'), NEW j \in 1..Len(backlog'),
                      backlog'[i] = backlog'[j]
               PROVE  i = j
    OBVIOUS
  <2>1. i + 1 \in 1..Len(backlog) /\ j + 1 \in 1..Len(backlog)
    BY <1>2
  <2>2. i + 1 = j + 1
    BY <1>2, <2>1 DEF IInv, InTurn
  <2> QED
    BY <2>2
<1>8. InTurn'
  BY <1>1, <1>4, <1>6, <1>7 DEF IInv, InTurn
<1>9. Accepted'
  <2>1. owner'[cfd'] = c /\ cfd' \in Fds
    BY <1>1, <1>6
  <2>2. c \in Clients /\ tpc'[c] = "none" /\ cpc'[c] # "start"
    BY <1>1, <1>2, <1>6
  <2> QED
    BY <1>4, <2>1, <2>2 DEF Accepted
<1>10. Served'
  <2> SUFFICES ASSUME NEW d \in Clients, Running(d)'
               PROVE  /\ slot'[d] \in 1..MaxInfos
                      /\ infos'[slot'[d]] \in Fds
                      /\ owner'[infos'[slot'[d]]] = d
    BY DEF Served
  <2>1. /\ slot[d] \in 1..MaxInfos /\ infos[slot[d]] \in Fds
        /\ owner[infos[slot[d]]] = d
    BY <1>1 DEF IInv, Served, Running
  <2>2. infos[slot[d]] # fd
    BY <1>1, <2>1, EchoAssumption
  <2> QED
    BY <1>1, <1>6, <2>1, <2>2
<1> QED
  BY <1>5, <1>8, <1>9, <1>10 DEF IInv

(* The new thread's element was free: no running thread had it.            *)
LEMMA CreateThreadKeeps ==
    ASSUME IInv, NEW i \in 1..MaxInfos, CreateThread(i)
    PROVE  IInv'
<1> DEFINE c == owner[cfd]
<1>1. /\ infos[i] = -1 /\ mpc = "search" /\ mpc' = "accept"
      /\ infos' = [infos EXCEPT ![i] = cfd]
      /\ slot' = [slot EXCEPT ![c] = i]
      /\ tpc' = [tpc EXCEPT ![c] = "read"]
      /\ UNCHANGED <<backlog, owner, cfd, cpc>>
  BY DEF CreateThread, Free
<1>2. /\ c \in Clients /\ cfd \in Fds /\ tpc[c] = "none" /\ ~Queued(c)
      /\ cpc[c] # "start"
  BY <1>1 DEF IInv, Accepted
<1>3. \A d \in Clients : Queued(d)' <=> Queued(d)
  BY <1>1 DEF Queued
<1>4. /\ infos'[i] = cfd /\ slot'[c] = i /\ tpc'[c] = "read"
      /\ \A j \in 1..MaxInfos : j # i => infos'[j] = infos[j]
      /\ \A d \in Clients : d # c => slot'[d] = slot[d] /\ tpc'[d] = tpc[d]
  BY <1>1, <1>2 DEF IInv, Types
<1>5. Types'
  BY <1>1, <1>2, EchoAssumption DEF IInv, Types
<1>6. InTurn'
  BY <1>1, <1>2, <1>3, <1>4 DEF IInv, InTurn
<1>7. Accepted'
  BY <1>1 DEF Accepted
<1>8. Served'
  <2> SUFFICES ASSUME NEW d \in Clients, Running(d)'
               PROVE  /\ slot'[d] \in 1..MaxInfos
                      /\ infos'[slot'[d]] \in Fds
                      /\ owner'[infos'[slot'[d]]] = d
    BY DEF Served
  <2>1. CASE d = c
    BY <1>1, <1>2, <1>4, <2>1
  <2>2. CASE d # c
    <3>1. /\ slot[d] \in 1..MaxInfos /\ infos[slot[d]] \in Fds
          /\ owner[infos[slot[d]]] = d
      BY <1>4, <2>2 DEF IInv, Served, Running
    <3>2. slot[d] # i
      BY <1>1, <3>1, FdsPositive
    <3> QED
      BY <1>1, <1>4, <2>2, <3>1, <3>2
  <2> QED
    BY <2>1, <2>2
<1> QED
  BY <1>5, <1>6, <1>7, <1>8 DEF IInv

(* close() frees the thread's own descriptor.                              *)
LEMMA ThreadCloseKeeps ==
    ASSUME IInv, NEW c \in Clients, ThreadClose(c)
    PROVE  IInv'
<1> DEFINE fd == infos[slot[c]]
<1>1. tpc[c] = "close" /\ Running(c)
  BY DEF ThreadClose, ThreadAt, Running
<1>2. slot[c] \in 1..MaxInfos /\ fd \in Fds /\ owner[fd] = c /\ fd # -1
  BY <1>1, FdsPositive DEF IInv, Served
<1>3. /\ tpc' = [tpc EXCEPT ![c] = "done"]
      /\ owner' = [owner EXCEPT ![fd] = NOBODY]
      /\ UNCHANGED <<backlog, mpc, cfd, infos, slot, cpc>>
  BY <1>2 DEF ThreadClose
<1> HIDE DEF fd
<1>4. /\ tpc'[c] = "done" /\ owner'[fd] = NOBODY
      /\ \A d \in Clients : d # c => tpc'[d] = tpc[d]
      /\ \A e \in Fds : e # fd => owner'[e] = owner[e]
  BY <1>2, <1>3 DEF IInv, Types
<1>5. \A d \in Clients : Queued(d)' <=> Queued(d)
  BY <1>3 DEF Queued
<1>6. Types'
  BY <1>3 DEF IInv, Types
<1>7. InTurn'
  BY <1>1, <1>3, <1>4, <1>5, EchoAssumption DEF IInv, InTurn
<1>8. Accepted'
  <2> SUFFICES ASSUME mpc = "search"
               PROVE  Accepted'
    BY <1>3 DEF Accepted
  <2>1. /\ cfd \in Fds /\ owner[cfd] \in Clients /\ tpc[owner[cfd]] = "none"
        /\ ~Queued(owner[cfd]) /\ cpc[owner[cfd]] # "start"
    BY DEF IInv, Accepted
  <2>2. cfd # fd /\ owner[cfd] # c
    BY <1>1, <1>2, <2>1
  <2> QED
    BY <1>3, <1>4, <1>5, <2>1, <2>2 DEF Accepted
<1>9. Served'
  <2> SUFFICES ASSUME NEW d \in Clients, Running(d)'
               PROVE  /\ slot'[d] \in 1..MaxInfos
                      /\ infos'[slot'[d]] \in Fds
                      /\ owner'[infos'[slot'[d]]] = d
    BY DEF Served
  <2>1. d # c
    BY <1>4 DEF Running
  <2>2. /\ slot[d] \in 1..MaxInfos /\ infos[slot[d]] \in Fds
        /\ owner[infos[slot[d]]] = d
    BY <1>4, <2>1 DEF IInv, Served, Running
  <2>3. infos[slot[d]] # fd
    BY <1>2, <2>1, <2>2
  <2> QED
    BY <1>3, <1>4, <2>2, <2>3
<1> QED
  BY <1>6, <1>7, <1>8, <1>9 DEF IInv

(* All other steps leave descriptors, elements and the queue as they are.  *)
LEMMA OthersKeep ==
    ASSUME IInv, UNCHANGED <<backlog, owner, main>>,
           NEW c \in Clients,
           \/ UNCHANGED <<tpc, cpc>>
           \/ /\ tpc[c] \in {"read", "write"}
              /\ \E pc \in {"read", "write", "close"} :
                     tpc' = [tpc EXCEPT ![c] = pc]
              /\ UNCHANGED cpc
           \/ /\ cpc[c] # "start"
              /\ \E pc \in {"send", "read", "left", "killed"} :
                     cpc' = [cpc EXCEPT ![c] = pc]
              /\ UNCHANGED tpc
    PROVE  IInv'
<1>1. \A d \in Clients : Queued(d)' <=> Queued(d)
  BY DEF Queued
<1>2. /\ Types'
      /\ \A d \in Clients : tpc'[d] = "none" <=> tpc[d] = "none"
      /\ \A d \in Clients : cpc'[d] = "start" <=> cpc[d] = "start"
      /\ \A d \in Clients : Running(d)' <=> Running(d)
  BY DEF IInv, Types, Running
<1>3. InTurn'
  BY <1>1, <1>2 DEF IInv, InTurn
<1>4. Accepted'
  BY <1>1, <1>2 DEF IInv, Accepted
<1>5. Served'
  BY <1>2 DEF IInv, Served
<1> QED
  BY <1>2, <1>3, <1>4, <1>5 DEF IInv

LEMMA StepKeeps == IInv /\ [Next]_vars => IInv'
<1> SUFFICES ASSUME IInv, [Next]_vars PROVE IInv'
  OBVIOUS
<1>1. ASSUME NEW c \in Clients, Connect(c) PROVE IInv'
  BY <1>1, ConnectKeeps
<1>2. ASSUME NEW c \in Clients,
             Send(c) \/ Reading(c) \/ ServerGone(c) \/ Leave(c)
      PROVE  IInv'
  <2>1. /\ UNCHANGED <<backlog, owner, main, tpc>>
        /\ cpc[c] # "start"
        /\ \E pc \in {"send", "read", "left", "killed"} :
               cpc' = [cpc EXCEPT ![c] = pc]
    BY <1>2 DEF Send, Reading, Receive, ServerGone, Leave
  <2> QED
    BY <2>1, OthersKeep
<1>3. ASSUME NEW fd \in Fds, Accept(fd) PROVE IInv'
  BY <1>3, AcceptKeeps
<1>4. ASSUME NEW i \in 1..MaxInfos, CreateThread(i) PROVE IInv'
  BY <1>4, CreateThreadKeeps
<1>5. ASSUME NEW c \in Clients, NEW n \in 1..(2 * MaxMessages),
             ThreadRead(c, n)
      PROVE  IInv'
  <2>1. /\ UNCHANGED <<backlog, owner, main, cpc>>
        /\ tpc[c] = "read" /\ tpc' = [tpc EXCEPT ![c] = "write"]
    BY <1>5 DEF ThreadRead, ThreadAt
  <2> QED
    BY <2>1, OthersKeep
<1>6. ASSUME NEW c \in Clients, ThreadEnd(c) \/ ThreadWrite(c)
      PROVE  IInv'
  <2>1. /\ UNCHANGED <<backlog, owner, main, cpc>>
        /\ tpc[c] \in {"read", "write"}
        /\ \E pc \in {"read", "write", "close"} :
               tpc' = [tpc EXCEPT ![c] = pc]
    BY <1>6 DEF ThreadEnd, ThreadWrite, ThreadAt
  <2> QED
    BY <2>1, OthersKeep
<1>7. ASSUME NEW c \in Clients, ThreadFails(c) PROVE IInv'
  BY <1>7, OthersKeep DEF ThreadFails
<1>8. ASSUME NEW c \in Clients, ThreadClose(c) PROVE IInv'
  BY <1>8, ThreadCloseKeeps
<1>9. CASE UNCHANGED vars
  BY <1>9
     DEF vars, IInv, Types, InTurn, Accepted, Served, Queued, Running
<1> QED
  BY <1>1, <1>2, <1>3, <1>4, <1>5, <1>6, <1>7, <1>8, <1>9
     DEF Next, Client, Main, Thread

LEMMA Inductive == Spec => []IInv
BY InitHolds, StepKeeps, PTL DEF Spec

(* ThreadsApart: no thread reads, answers or closes the connection of      *)
(* another thread's client, for any number of clients and of elements.     *)
THEOREM ThreadsStayApart == Spec => []ThreadsApart
<1>1. IInv => ThreadsApart
  BY FdsPositive DEF IInv, Served, ThreadsApart, Peer
<1> QED
  BY <1>1, Inductive, PTL
-----------------------------------------------------------------------------
(***************************************************************************)
(* The bytes: who goes quietly leaves nothing behind that could be written *)
(* to his closed connection.                                               *)
(***************************************************************************)
Streams ==
    /\ toServer \in [Clients -> Seq(Pieces)]
    /\ toClient \in [Clients -> Seq(Pieces)]
    /\ recvBuf \in [Clients -> Seq(Pieces)]
    /\ got \in [Clients -> Seq(Pieces)]
    /\ sent \in [Clients -> 0..MaxMessages]
    /\ reset \subseteq Clients
    /\ exited \in BOOLEAN
    /\ halved \subseteq Clients /\ cut \subseteq Clients

(* Whole messages: a text and its NUL, again and again.                    *)
InPairs(s) ==
    /\ Len(s) % 2 = 0
    /\ \A i \in 1..Len(s) : s[i].end <=> i % 2 = 0

(* The echo that is in recvBuf, if one is due.                             *)
Due(c) == IF tpc[c] = "write" THEN 2 ELSE 0

(* Until a message of c is read in two parts: a read returns whole         *)
(* messages, and a client is sent no more than it has sent, as what a read *)
(* returns is answered by one message, the first.                          *)
Balanced(c) ==
    c \notin cut =>
        /\ InPairs(toServer[c])
        /\ tpc[c] = "write" => /\ Len(recvBuf[c]) >= 2
                               /\ ~recvBuf[c][1].end /\ recvBuf[c][2].end
        /\ Len(got[c]) + Len(toClient[c]) + Len(toServer[c]) + Due(c)
               <= 2 * sent[c]

(* A client that has left quietly has nothing to be answered.              *)
LeftQuietly(c) ==
    cpc[c] = "left" =>
        exited \/ (Len(toServer[c]) = 0 /\ tpc[c] # "write")

ResetKilled == \A c \in reset : cpc[c] = "killed"

StreamInv ==
    /\ Streams
    /\ \A c \in Clients : Balanced(c)
    /\ \A c \in Clients : LeftQuietly(c)
    /\ ResetKilled
    /\ QuietLeavesHarmless
-----------------------------------------------------------------------------
LEMMA MinFacts ==
    ASSUME NEW T \in SUBSET Nat, T # {}
    PROVE  Min(T) \in T /\ \A n \in T : Min(T) <= n
<1>1. PICK x \in T : \A n \in T : x <= n
  BY LeastExists
<1> QED
  BY <1>1 DEF Min

(* An echo is a sequence of pieces; that of a whole message has two.       *)
LEMMA EchoFacts ==
    ASSUME NEW buf \in Seq(Pieces)
    PROVE  /\ Echo(buf) \in Seq(Pieces)
           /\ Len(buf) >= 2 /\ ~buf[1].end /\ buf[2].end => Len(Echo(buf)) = 2
<1> DEFINE ends == {i \in DOMAIN buf : buf[i].end}
<1>1. DOMAIN buf = 1..Len(buf) /\ Len(buf) \in Nat
  BY LenProperties
<1>2. CASE ends = {}
  <2>1. Junk \in Pieces
    BY EchoAssumption DEF Junk, Piece, Pieces
  <2>2. Append(buf, Junk) \in Seq(Pieces)
    BY <2>1, AppendProperties
  <2> QED
    BY <1>1, <1>2, <2>2 DEF Echo
<1>3. CASE ends # {}
  <2>1. ends \in SUBSET Nat
    BY <1>1
  <2>2. Min(ends) \in ends /\ \A i \in ends : Min(ends) <= i
    BY <1>3, <2>1, MinFacts
  <2>3. Echo(buf) = SubSeq(buf, 1, Min(ends))
    BY <1>3 DEF Echo
  <2>4. Min(ends) \in 1..Len(buf) /\ Min(ends) \in 0..Len(buf)
    BY <1>1, <2>2
  <2>5. Echo(buf) \in Seq(Pieces) /\ Len(Echo(buf)) = Min(ends)
    BY <2>3, <2>4, TakeFacts
  <2>6. ASSUME Len(buf) >= 2, ~buf[1].end, buf[2].end
        PROVE  Min(ends) = 2
    <3>1. 2 \in ends /\ 1 \notin ends
      BY <1>1, <2>6
    <3> HIDE DEF ends
    <3> QED
      BY <2>1, <2>2, <2>4, <3>1
  <2> QED
    BY <2>5, <2>6
<1> QED
  BY <1>2, <1>3

LEMMA EvenFacts ==
    ASSUME NEW m \in Nat, m % 2 = 0
    PROVE  (m + 1) % 2 = 1 /\ (m + 2) % 2 = 0
OBVIOUS

LEMMA EvenSum ==
    ASSUME NEW m \in Nat, NEW i \in Nat, m % 2 = 0
    PROVE  (m + i) % 2 = i % 2
OBVIOUS

(* What is left after a read that ends with a NUL is whole messages.       *)
LEMMA PairsRest ==
    ASSUME NEW s \in Seq(Pieces), InPairs(s),
           NEW n \in 1..Len(s), s[n].end
    PROVE  /\ InPairs(SubSeq(s, n + 1, Len(s)))
           /\ n >= 2 /\ ~s[1].end /\ s[2].end
<1> DEFINE r == SubSeq(s, n + 1, Len(s))
<1>1. Len(s) \in Nat /\ n \in Nat /\ n <= Len(s)
  BY LenProperties
<1>2. /\ Len(r) = Len(s) - n
      /\ \A i \in 1..(Len(s) - n) : r[i] = s[n + i]
  BY <1>1, DropFacts
<1> HIDE DEF r
<1>3. n % 2 = 0 /\ n >= 2
  BY <1>1 DEF InPairs
<1>4. \A i \in 1..Len(r) : n + i \in 1..Len(s) /\ (n + i) % 2 = i % 2
  <2> SUFFICES ASSUME NEW i \in 1..Len(r)
               PROVE  n + i \in 1..Len(s) /\ (n + i) % 2 = i % 2
    OBVIOUS
  <2>1. i \in Nat /\ n + i \in 1..Len(s)
    BY <1>1, <1>2
  <2> QED
    BY <1>1, <1>3, <2>1, EvenSum
<1>5. \A i \in 1..Len(r) : r[i].end <=> i % 2 = 0
  BY <1>2, <1>4 DEF InPairs
<1>6. Len(r) % 2 = 0
  <2>1. Len(r) \in Nat /\ n + Len(r) = Len(s) /\ Len(s) % 2 = 0
    BY <1>1, <1>2 DEF InPairs
  <2>2. (n + Len(r)) % 2 = Len(r) % 2
    BY <1>1, <1>3, <2>1, EvenSum
  <2> QED
    BY <2>1, <2>2
<1>7. ~s[1].end /\ s[2].end
  BY <1>1, <1>3 DEF InPairs
<1> QED
  BY <1>3, <1>5, <1>6, <1>7 DEF InPairs, r

(* A message is a pair.                                                    *)
LEMMA PairsMessage ==
    ASSUME NEW s \in Seq(Pieces), NEW c \in Clients, NEW m \in 0..MaxMessages
    PROVE  /\ s \o Message(c, m) \in Seq(Pieces)
           /\ Len(s \o Message(c, m)) = Len(s) + 2
           /\ InPairs(s) => InPairs(s \o Message(c, m))
<1> DEFINE t == Message(c, m)
           r == s \o t
<1>1. /\ t \in Seq(Pieces) /\ Len(t) = 2
      /\ ~t[1].end /\ t[2].end
  BY DEF Message, Piece, Pieces
<1>2. Len(s) \in Nat
  BY LenProperties
<1> HIDE DEF t
<1>3. /\ r \in Seq(Pieces) /\ Len(r) = Len(s) + 2
      /\ \A i \in 1..Len(s) : r[i] = s[i]
      /\ r[Len(s) + 1] = t[1] /\ r[Len(s) + 2] = t[2]
  <2>1. r \in Seq(Pieces) /\ Len(r) = Len(s) + Len(t)
    BY <1>1, ConcatProperties
  <2>2. \A i \in 1..(Len(s) + Len(t)) :
            r[i] = IF i <= Len(s) THEN s[i] ELSE t[i - Len(s)]
    BY <1>1, ConcatProperties, Zenon
  <2> HIDE DEF r
  <2> QED
    BY <1>1, <1>2, <2>1, <2>2
<1> HIDE DEF r
<1>4. ASSUME InPairs(s) PROVE InPairs(r)
  <2>1. Len(s) % 2 = 0 /\ \A i \in 1..Len(s) : s[i].end <=> i % 2 = 0
    BY <1>4 DEF InPairs
  <2>2. \A i \in 1..Len(r) : r[i].end <=> i % 2 = 0
    <3> SUFFICES ASSUME NEW i \in 1..Len(r) PROVE r[i].end <=> i % 2 = 0
      OBVIOUS
    <3>1. CASE i <= Len(s)
      BY <1>2, <1>3, <2>1, <3>1
    <3>2. CASE i = Len(s) + 1
      BY <1>1, <1>2, <1>3, <2>1, <3>2, EvenFacts
    <3>3. CASE i = Len(s) + 2
      BY <1>1, <1>2, <1>3, <2>1, <3>3, EvenFacts
    <3> QED
      BY <1>2, <1>3, <3>1, <3>2, <3>3
  <2> QED
    BY <1>2, <1>3, <2>1, <2>2, EvenFacts DEF InPairs
<1> QED
  BY <1>3, <1>4 DEF r, t
-----------------------------------------------------------------------------
LEMMA StreamInit == Init => StreamInv
<1> SUFFICES ASSUME Init PROVE StreamInv
  OBVIOUS
<1>1. <<>> \in Seq(Pieces) /\ Len(<<>>) = 0
  BY EmptySeq
<1>2. <<Junk>> \in Seq(Pieces)
  BY EchoAssumption DEF Junk, Piece, Pieces
<1>3. Streams
  <2>1. /\ toServer \in [Clients -> Seq(Pieces)]
        /\ toClient \in [Clients -> Seq(Pieces)]
        /\ got \in [Clients -> Seq(Pieces)]
    BY <1>1 DEF Init
  <2>2. recvBuf \in [Clients -> Seq(Pieces)]
    BY <1>2 DEF Init
  <2>3. /\ sent \in [Clients -> 0..MaxMessages]
        /\ reset \subseteq Clients /\ halved \subseteq Clients
        /\ cut \subseteq Clients
    BY EchoAssumption DEF Init
  <2>4. exited \in BOOLEAN
    BY DEF Init
  <2> QED
    BY <2>1, <2>2, <2>3, <2>4 DEF Streams
<1>4. \A c \in Clients : Balanced(c)
  BY <1>1 DEF Init, Balanced, InPairs, Due
<1>5. (\A c \in Clients : LeftQuietly(c)) /\ ResetKilled /\ QuietLeavesHarmless
  BY DEF Init, LeftQuietly, ResetKilled, QuietLeavesHarmless
<1> QED
  BY <1>3, <1>4, <1>5 DEF StreamInv

(* Steps that have nothing to do with the bytes of d.                      *)
LEMMA BalancedKept ==
    ASSUME NEW d \in Clients, Balanced(d),
           /\ toServer'[d] = toServer[d] /\ toClient'[d] = toClient[d]
           /\ recvBuf'[d] = recvBuf[d]
           /\ got'[d] = got[d] /\ sent'[d] = sent[d],
           tpc'[d] = "write" <=> tpc[d] = "write",
           d \in cut => d \in cut'
    PROVE  Balanced(d)'
BY DEF Balanced, Due, InPairs

(* Steps that have nothing to do with the bytes of anybody.                *)
LEMMA StreamKept ==
    ASSUME StreamInv,
           UNCHANGED <<toServer, toClient, recvBuf, got, sent, reset, exited,
                       halved, cut>>,
           \A d \in Clients : tpc'[d] = "write" <=> tpc[d] = "write",
           exited => UNCHANGED tpc,
           \A d \in Clients : cpc'[d] = "left" => cpc[d] = "left" \/ exited,
           \A d \in Clients : cpc[d] = "killed" => cpc'[d] = "killed"
    PROVE  StreamInv'
<1>1. Streams'
  BY DEF StreamInv, Streams
<1>2. \A d \in Clients : Balanced(d)'
  BY BalancedKept DEF StreamInv
<1>3. \A d \in Clients : LeftQuietly(d)'
  BY DEF StreamInv, LeftQuietly
<1>4. ResetKilled' /\ QuietLeavesHarmless'
  BY DEF StreamInv, Streams, ResetKilled, QuietLeavesHarmless
<1> QED
  BY <1>1, <1>2, <1>3, <1>4 DEF StreamInv

(* What is read, due, on its way and not yet read of k messages, when one  *)
(* more is sent and when n pieces move on.                                 *)
LEMMA Accounts ==
    ASSUME NEW g \in Nat, NEW t \in Nat, NEW s \in Nat, NEW d \in Nat,
           NEW k \in Nat, g + t + s + d <= 2 * k
    PROVE  /\ g + t + (s + 2) + d <= 2 * (k + 1)
           /\ \A n \in 0..t : (g + n) + (t - n) + s + d <= 2 * k
           /\ d = 0 => \A n \in 2..s : g + t + (s - n) + 2 <= 2 * k
           /\ g = 2 * k => t = 0 /\ s = 0 /\ d = 0
OBVIOUS

(* An echo that is sent is due no more.                                     *)
LEMMA Echoed ==
    ASSUME NEW g \in Nat, NEW t \in Nat, NEW s \in Nat, NEW k \in Nat,
           g + t + s + 2 <= 2 * k
    PROVE  g + (t + 2) + s + 0 <= 2 * k /\ g + t + s + 0 <= 2 * k
OBVIOUS

(* The next message is due an echo of its length.                          *)
LEMMA SendStream ==
    ASSUME IInv, StreamInv, NEW c \in Clients, Send(c)
    PROVE  StreamInv'
<1> DEFINE s == toServer[c]
           m == sent[c] + 1
<1>1. /\ ~exited /\ cpc[c] = "send" /\ sent[c] < MaxMessages
      /\ sent' = [sent EXCEPT ![c] = m]
      /\ toServer' = [toServer EXCEPT ![c] = s \o Message(c, m)]
      /\ cpc' = [cpc EXCEPT ![c] = "read"]
      /\ UNCHANGED <<toClient, reset, threads, exited, got, halved, cut>>
  BY DEF Send
<1>2. s \in Seq(Pieces) /\ sent[c] \in Nat /\ m \in 0..MaxMessages
  BY <1>1, EchoAssumption DEF StreamInv, Streams
<1>3. /\ s \o Message(c, m) \in Seq(Pieces)
      /\ Len(s \o Message(c, m)) = Len(s) + 2
      /\ InPairs(s) => InPairs(s \o Message(c, m))
  BY <1>2, PairsMessage
<1> DEFINE t == s \o Message(c, m)
<1>4. /\ toServer'[c] = t /\ sent'[c] = sent[c] + 1 /\ cpc'[c] = "read"
      /\ \A d \in Clients : d # c =>
             /\ toServer'[d] = toServer[d] /\ sent'[d] = sent[d]
             /\ cpc'[d] = cpc[d]
  BY <1>1 DEF StreamInv, Streams, IInv, Types
<1> HIDE DEF s, t, m
<1>5. Streams'
  BY <1>1, <1>2, <1>3 DEF StreamInv, Streams, t
<1>6. ASSUME NEW d \in Clients PROVE Balanced(d)'
  <2>1. CASE d # c
    BY <1>1, <1>4, <2>1, BalancedKept DEF StreamInv
  <2>2. CASE d = c
    <3>1. /\ Len(got[c]) \in Nat /\ Len(toClient[c]) \in Nat
          /\ Len(s) \in Nat /\ Due(c) \in Nat
      BY <1>2, LenProperties DEF StreamInv, Streams, Due
    <3>2. /\ UNCHANGED <<got, toClient, recvBuf, tpc, cut>>
          /\ Due(c)' = Due(c)
      BY <1>1 DEF Due
    <3>3. ASSUME c \notin cut
          PROVE  /\ InPairs(s)
                 /\ Len(got[c]) + Len(toClient[c]) + Len(s) + Due(c)
                        <= 2 * sent[c]
                 /\ tpc[c] = "write" =>
                        /\ Len(recvBuf[c]) >= 2
                        /\ ~recvBuf[c][1].end /\ recvBuf[c][2].end
      BY <3>3 DEF StreamInv, Balanced, s
    <3>4. c \notin cut => InPairs(toServer'[c])
      BY <1>3, <1>4, <3>3 DEF t
    <3>5. c \notin cut =>
              Len(got[c]) + Len(toClient[c]) + Len(toServer'[c]) + Due(c)
                  <= 2 * sent'[c]
      <4>1. Len(s) + 2 = Len(toServer'[c]) /\ sent[c] + 1 = sent'[c]
        BY <1>3, <1>4 DEF t
      <4>2. c \notin cut =>
                Len(got[c]) + Len(toClient[c]) + Len(s) + Due(c)
                    <= 2 * sent[c]
        BY <3>3
      <4>3. c \notin cut =>
                Len(got[c]) + Len(toClient[c]) + (Len(s) + 2) + Due(c)
                    <= 2 * (sent[c] + 1)
        BY <1>2, <3>1, <4>2, Accounts
      <4> QED
        BY <4>1, <4>3, Zenon
    <3>6. InPairs(toServer[c])' <=> InPairs(toServer'[c])
      BY DEF InPairs
    <3> QED
      BY <2>2, <3>2, <3>3, <3>4, <3>5, <3>6 DEF Balanced
  <2> QED
    BY <2>1, <2>2
<1>7. ASSUME NEW d \in Clients PROVE LeftQuietly(d)'
  BY <1>1, <1>4 DEF StreamInv, LeftQuietly
<1>8. ResetKilled' /\ QuietLeavesHarmless'
  BY <1>1, <1>4 DEF StreamInv, Streams, ResetKilled, QuietLeavesHarmless
<1> QED
  BY <1>5, <1>6, <1>7, <1>8 DEF StreamInv

(* The numbers of pieces, which are natural numbers.                       *)
LEMMA Lengths ==
    ASSUME StreamInv, NEW c \in Clients
    PROVE  /\ Len(got[c]) \in Nat /\ Len(toClient[c]) \in Nat
           /\ Len(toServer[c]) \in Nat /\ Due(c) \in Nat /\ sent[c] \in Nat
BY LenProperties, EchoAssumption DEF StreamInv, Streams, Due

(* What a client reads moves from one side of its account to another.      *)
LEMMA ReceiveStream ==
    ASSUME IInv, StreamInv, NEW c \in Clients, NEW n \in Nat, Receive(c, n)
    PROVE  StreamInv'
<1> DEFINE s == toClient[c]
           front == SubSeq(s, 1, n)
           rest == SubSeq(s, n + 1, Len(s))
<1>1. /\ cpc[c] = "read" /\ n \in 1..Len(s)
      /\ got' = [got EXCEPT ![c] = got[c] \o front]
      /\ toClient' = [toClient EXCEPT ![c] = rest]
      /\ cpc' = [cpc EXCEPT ![c] = "send"]
      /\ halved' \subseteq halved \cup {c}
      /\ UNCHANGED <<toServer, reset, threads, exited, sent, cut>>
  BY DEF Receive
<1>2. s \in Seq(Pieces) /\ got[c] \in Seq(Pieces) /\ Len(s) \in Nat
  BY Lengths DEF StreamInv, Streams
<1>3. /\ front \in Seq(Pieces) /\ Len(front) = n
      /\ rest \in Seq(Pieces) /\ Len(rest) = Len(s) - n
  BY <1>1, <1>2, TakeFacts, DropFacts
<1> HIDE DEF front, rest
<1>4. /\ got[c] \o front \in Seq(Pieces)
      /\ Len(got[c] \o front) = Len(got[c]) + n
  BY <1>2, <1>3, ConcatProperties
<1>5. /\ got'[c] = got[c] \o front /\ toClient'[c] = rest /\ cpc'[c] = "send"
      /\ \A d \in Clients : d # c =>
             /\ got'[d] = got[d] /\ toClient'[d] = toClient[d]
             /\ cpc'[d] = cpc[d]
  BY <1>1 DEF StreamInv, Streams, IInv, Types
<1>6. Streams'
  BY <1>1, <1>3, <1>4 DEF StreamInv, Streams
<1>7. ASSUME NEW d \in Clients PROVE Balanced(d)'
  <2>1. CASE d # c
    BY <1>1, <1>5, <2>1, BalancedKept DEF StreamInv
  <2>2. CASE d = c
    <3>1. ASSUME c \notin cut
          PROVE  Len(got[c]) + Len(s) + Len(toServer[c]) + Due(c)
                     <= 2 * sent[c]
      BY <3>1 DEF StreamInv, Balanced
    <3>2. ASSUME c \notin cut
          PROVE  (Len(got[c]) + n) + (Len(s) - n) + Len(toServer[c]) + Due(c)
                     <= 2 * sent[c]
      <4>1. n \in 0..Len(s)
        BY <1>1
      <4> HIDE DEF s
      <4> QED
        BY <3>1, <3>2, <4>1, <1>2, Lengths, Accounts
    <3>3. Len(got[c]) + n = Len(got'[c]) /\ Len(s) - n = Len(toClient'[c])
      BY <1>3, <1>4, <1>5
    <3>4. c \notin cut =>
              Len(got'[c]) + Len(toClient'[c]) + Len(toServer[c]) + Due(c)
                  <= 2 * sent[c]
      BY <3>2, <3>3, Zenon
    <3>5. UNCHANGED <<toServer, recvBuf, tpc, sent, cut>> /\ Due(c)' = Due(c)
          /\ (InPairs(toServer[c])' <=> InPairs(toServer[c]))
      BY <1>1 DEF Due, InPairs
    <3> QED
      BY <2>2, <3>4, <3>5 DEF StreamInv, Balanced
  <2> QED
    BY <2>1, <2>2
<1>8. ASSUME NEW d \in Clients PROVE LeftQuietly(d)'
  BY <1>1, <1>5 DEF StreamInv, LeftQuietly
<1>9. ResetKilled' /\ QuietLeavesHarmless'
  BY <1>1, <1>5 DEF StreamInv, Streams, ResetKilled, QuietLeavesHarmless
<1> QED
  BY <1>6, <1>7, <1>8, <1>9 DEF StreamInv

(* Whoever leaves quietly has nothing unread, so the kernel sends no RST,  *)
(* and nothing is on its way.                                              *)
LEMMA LeaveStream ==
    ASSUME IInv, StreamInv, NEW c \in Clients, Leave(c)
    PROVE  StreamInv'
<1>1. /\ cpc[c] \in {"send", "read"}
      /\ cpc' = [cpc EXCEPT ![c] = IF Quiet(c) THEN "left" ELSE "killed"]
      /\ reset' = IF toClient[c] # <<>> THEN reset \cup {c} ELSE reset
      /\ UNCHANGED <<toServer, toClient, threads, exited, sent, got, halved,
                     cut>>
  BY DEF Leave
<1>2. /\ cpc'[c] = IF Quiet(c) THEN "left" ELSE "killed"
      /\ \A d \in Clients : d # c => cpc'[d] = cpc[d]
  BY <1>1 DEF IInv, Types
<1>3. ASSUME Quiet(c)
      PROVE  /\ Len(toServer[c]) = 0 /\ tpc[c] # "write"
             /\ toClient[c] = <<>>
  <2>1. c \notin cut /\ Len(got[c]) = 2 * sent[c]
    BY <1>3 DEF Quiet
  <2>2. Len(got[c]) + Len(toClient[c]) + Len(toServer[c]) + Due(c)
            <= 2 * sent[c]
    BY <2>1 DEF StreamInv, Balanced
  <2>3. Len(toClient[c]) = 0 /\ Len(toServer[c]) = 0 /\ Due(c) = 0
    BY <2>1, <2>2, Lengths, Accounts
  <2>4. toClient[c] = <<>>
    BY <2>3, EmptySeq DEF StreamInv, Streams
  <2> QED
    BY <2>3, <2>4 DEF Due
<1>4. Streams'
  BY <1>1 DEF StreamInv, Streams
<1>5. ASSUME NEW d \in Clients PROVE Balanced(d)'
  BY <1>1, BalancedKept DEF StreamInv
<1>6. ASSUME NEW d \in Clients PROVE LeftQuietly(d)'
  BY <1>1, <1>2, <1>3 DEF StreamInv, LeftQuietly
<1>7. ResetKilled' /\ QuietLeavesHarmless'
  <2>1. \A d \in Clients : cpc[d] = "killed" => cpc'[d] = "killed"
    BY <1>1, <1>2
  <2>2. \A d \in reset' : d \in reset \/ (d = c /\ cpc'[c] = "killed")
    BY <1>1, <1>2, <1>3
  <2> QED
    BY <1>1, <2>1, <2>2
       DEF StreamInv, Streams, ResetKilled, QuietLeavesHarmless
<1> QED
  BY <1>4, <1>5, <1>6, <1>7 DEF StreamInv

LEMMA PeerOwn ==
    ASSUME IInv, NEW c \in Clients, Running(c)
    PROVE  Peer(c) = c /\ c # NOBODY
BY FdsPositive, EchoAssumption DEF IInv, Served, Peer

(* Whole messages are read, or c is cut.                                   *)
LEMMA ThreadReadStream ==
    ASSUME IInv, StreamInv, NEW c \in Clients, NEW n \in Nat, ThreadRead(c, n)
    PROVE  StreamInv'
<1> DEFINE s == toServer[c]
           b == recvBuf[c]
           front == SubSeq(s, 1, n)
           rest == SubSeq(s, n + 1, Len(s))
           old == SubSeq(b, n + 1, Len(b))
<1>1. Peer(c) = c
  BY PeerOwn DEF ThreadRead, ThreadAt, Running
<1>2. /\ ~exited /\ tpc[c] = "read" /\ n \in 1..Len(s)
      /\ recvBuf' = [recvBuf EXCEPT ![c] = front \o old]
      /\ toServer' = [toServer EXCEPT ![c] = rest]
      /\ tpc' = [tpc EXCEPT ![c] = "write"]
      /\ cut' = IF s[n].end THEN cut ELSE cut \cup {c}
      /\ UNCHANGED <<toClient, reset, exited, clients>>
  BY <1>1 DEF ThreadRead, ThreadAt
<1>3. s \in Seq(Pieces) /\ b \in Seq(Pieces) /\ Len(s) \in Nat
  BY Lengths DEF StreamInv, Streams
<1>4. /\ front \in Seq(Pieces) /\ Len(front) = n
      /\ \A i \in 1..n : front[i] = s[i]
  BY <1>2, <1>3, TakeFacts
<1>5. rest \in Seq(Pieces) /\ Len(rest) = Len(s) - n
  BY <1>2, <1>3, DropFacts
<1>6. old \in Seq(Pieces) /\ Len(old) \in Nat
  BY <1>3, DropFacts, LenProperties
<1>7. c \notin cut /\ s[n].end =>
          InPairs(rest) /\ n >= 2 /\ ~s[1].end /\ s[2].end
  BY <1>2, <1>3, PairsRest DEF StreamInv, Balanced
<1> DEFINE new == front \o old
<1> HIDE DEF front, rest, old
<1>8. /\ new \in Seq(Pieces) /\ Len(new) = n + Len(old)
      /\ \A i \in 1..n : new[i] = s[i]
  <2>1. new \in Seq(Pieces) /\ Len(new) = n + Len(old)
    BY <1>4, <1>6, ConcatProperties
  <2>2. \A i \in 1..(Len(front) + Len(old)) :
            new[i] = IF i <= Len(front) THEN front[i] ELSE old[i - Len(front)]
    BY <1>4, <1>6, ConcatProperties, Zenon
  <2> HIDE DEF new
  <2> QED
    BY <1>4, <1>6, <2>1, <2>2
<1>9. /\ recvBuf'[c] = new /\ toServer'[c] = rest /\ tpc'[c] = "write"
      /\ \A d \in Clients : d # c =>
             /\ recvBuf'[d] = recvBuf[d] /\ toServer'[d] = toServer[d]
             /\ tpc'[d] = tpc[d]
  BY <1>2 DEF StreamInv, Streams, IInv, Types
<1> HIDE DEF new, s, b
<1>10. Streams'
  BY <1>2, <1>5, <1>8 DEF StreamInv, Streams, new
<1>11. ASSUME NEW d \in Clients PROVE Balanced(d)'
  <2>1. CASE d # c
    BY <1>2, <1>9, <2>1, BalancedKept DEF StreamInv
  <2>2. CASE d = c
    <3> SUFFICES ASSUME c \notin cut'
                 PROVE  /\ InPairs(toServer[c])'
                        /\ /\ Len(recvBuf'[c]) >= 2
                           /\ ~recvBuf'[c][1].end /\ recvBuf'[c][2].end
                        /\ Len(got'[c]) + Len(toClient'[c])
                               + Len(toServer'[c]) + Due(c)' <= 2 * sent'[c]
      BY <2>2 DEF Balanced
    <3>1. c \notin cut /\ s[n].end
      BY <1>2
    <3>2. InPairs(rest) /\ n >= 2 /\ ~s[1].end /\ s[2].end
      BY <1>7, <3>1
    <3>3. InPairs(toServer[c])'
      BY <1>9, <3>2 DEF InPairs
    <3>4. Len(recvBuf'[c]) >= 2 /\ ~recvBuf'[c][1].end /\ recvBuf'[c][2].end
      BY <1>6, <1>8, <1>9, <3>2
    <3>5. Len(got[c]) + Len(toClient[c]) + Len(s) + Due(c) <= 2 * sent[c]
      BY <3>1 DEF StreamInv, Balanced, s
    <3>6. Due(c) = 0 /\ Due(c)' = 2
      BY <1>2, <1>9 DEF Due
    <3>7. /\ n \in 2..Len(s) /\ Len(s) \in Nat
          /\ Len(got[c]) \in Nat /\ Len(toClient[c]) \in Nat
          /\ sent[c] \in Nat /\ Due(c) \in Nat
      BY <1>2, <1>3, <3>2, Lengths
    <3>8. Len(got[c]) + Len(toClient[c]) + (Len(s) - n) + 2 <= 2 * sent[c]
      <4>1. Due(c) = 0 => \A m \in 2..Len(s) :
                Len(got[c]) + Len(toClient[c]) + (Len(s) - m) + 2
                    <= 2 * sent[c]
        BY <3>5, <3>7, Accounts
      <4> QED
        BY <3>6, <3>7, <4>1, Zenon
    <3>9. Len(s) - n = Len(toServer'[c]) /\ UNCHANGED <<got, toClient, sent>>
      BY <1>2, <1>5, <1>9
    <3> QED
      BY <3>3, <3>4, <3>6, <3>8, <3>9
  <2> QED
    BY <2>1, <2>2
<1>12. ASSUME NEW d \in Clients PROVE LeftQuietly(d)'
  <2>1. CASE d = c
    <3>1. Len(toServer[c]) # 0
      BY <1>2, <1>3 DEF s
    <3> QED
      BY <1>2, <2>1, <3>1 DEF StreamInv, LeftQuietly
  <2>2. CASE d # c
    BY <1>2, <1>9, <2>2 DEF StreamInv, LeftQuietly
  <2> QED
    BY <2>1, <2>2
<1>13. ResetKilled' /\ QuietLeavesHarmless'
  BY <1>2 DEF StreamInv, ResetKilled, QuietLeavesHarmless
<1> QED
  BY <1>10, <1>11, <1>12, <1>13 DEF StreamInv

(* An echo of one message, to a client that is there or was killed.        *)
LEMMA ThreadWriteStream ==
    ASSUME IInv, StreamInv, NEW c \in Clients, ThreadWrite(c)
    PROVE  StreamInv'
<1> DEFINE s == toClient[c]
           e == Echo(recvBuf[c])
<1>1. Peer(c) = c /\ c # NOBODY
  BY PeerOwn DEF ThreadWrite, ThreadAt, Running
<1>2. /\ ~exited /\ tpc[c] = "write"
      /\ tpc' = [tpc EXCEPT ![c] = "read"]
      /\ toClient' = IF Gone(c) THEN toClient
                     ELSE [toClient EXCEPT ![c] = s \o e]
      /\ reset' = IF Gone(c) THEN reset \cup {c} ELSE reset
      /\ exited' \in {FALSE, (c \in reset)}
      /\ UNCHANGED <<toServer, recvBuf, clients, cut>>
  BY <1>1 DEF ThreadWrite, ThreadAt
<1>3. /\ s \in Seq(Pieces) /\ recvBuf[c] \in Seq(Pieces)
      /\ e \in Seq(Pieces)
      /\ c \notin cut => Len(e) = 2
  BY <1>2, EchoFacts DEF StreamInv, Streams, Balanced
<1> HIDE DEF e
<1>4. s \o e \in Seq(Pieces) /\ (c \notin cut => Len(s \o e) = Len(s) + 2)
  <2> HIDE DEF s
  <2>1. s \in Seq(Pieces) /\ e \in Seq(Pieces)
    BY <1>3
  <2>2. s \o e \in Seq(Pieces) /\ Len(s \o e) = Len(s) + Len(e)
    BY <2>1, ConcatProperties
  <2>3. c \notin cut => Len(s \o e) = Len(s) + 2
    BY <2>2, <1>3, Zenon
  <2> QED
    BY <2>2, <2>3
<1>5. /\ tpc'[c] = "read"
      /\ toClient'[c] = IF Gone(c) THEN s ELSE s \o e
      /\ \A d \in Clients : d # c =>
             toClient'[d] = toClient[d] /\ tpc'[d] = tpc[d]
  BY <1>2 DEF StreamInv, Streams, IInv, Types
<1>6. Gone(c) => cpc[c] = "killed"
  BY <1>2 DEF StreamInv, LeftQuietly, Gone
<1>7. Streams'
  <2>1. /\ toClient' \in [Clients -> Seq(Pieces)]
        /\ reset' \subseteq Clients
    BY <1>2, <1>4 DEF StreamInv, Streams
  <2>2. exited' = FALSE \/ exited' = (c \in reset)
    BY <1>2
  <2>3. (c \in reset) \in BOOLEAN /\ FALSE \in BOOLEAN
    OBVIOUS
  <2>4. exited' \in BOOLEAN
    BY <2>2, <2>3, Zenon
  <2> QED
    BY <1>2, <2>1, <2>4 DEF StreamInv, Streams
<1>8. ASSUME NEW d \in Clients PROVE Balanced(d)'
  <2>1. CASE d # c
    BY <1>2, <1>5, <2>1, BalancedKept DEF StreamInv
  <2>2. CASE d = c
    <3>1. Due(c) = 2 /\ Due(c)' = 0
      BY <1>2, <1>5 DEF Due
    <3>2. ASSUME c \notin cut
          PROVE  /\ Len(got[c]) + (Len(s) + 2) + Len(toServer[c]) + 0
                        <= 2 * sent[c]
                 /\ Len(got[c]) + Len(s) + Len(toServer[c]) + 0 <= 2 * sent[c]
      <4>1. Len(got[c]) + Len(s) + Len(toServer[c]) + 2 <= 2 * sent[c]
        BY <3>1, <3>2 DEF StreamInv, Balanced
      <4>2. /\ Len(got[c]) \in Nat /\ Len(s) \in Nat
            /\ Len(toServer[c]) \in Nat /\ sent[c] \in Nat
        BY Lengths
      <4> HIDE DEF s
      <4> QED
        BY <4>1, <4>2, Echoed
    <3>3. c \notin cut => Len(toClient'[c]) \in {Len(s), Len(s) + 2}
      BY <1>4, <1>5
    <3>4. c \notin cut =>
              Len(got[c]) + Len(toClient'[c]) + Len(toServer[c]) + 0
                  <= 2 * sent[c]
      BY <3>2, <3>3, Zenon
    <3>5. UNCHANGED <<toServer, got, sent, cut>> /\ tpc'[c] # "write"
          /\ (InPairs(toServer[c])' <=> InPairs(toServer[c]))
      BY <1>2, <1>5 DEF InPairs
    <3> QED
      BY <2>2, <3>1, <3>4, <3>5 DEF StreamInv, Balanced
  <2> QED
    BY <2>1, <2>2
<1>9. ASSUME NEW d \in Clients PROVE LeftQuietly(d)'
  BY <1>2, <1>5 DEF StreamInv, LeftQuietly
<1>10. ResetKilled'
  BY <1>2, <1>6 DEF StreamInv, ResetKilled
<1>11. QuietLeavesHarmless'
  <2>1. exited' => c \in reset'
    BY <1>2
  <2> QED
    BY <1>2, <1>5, <1>10, <2>1 DEF ResetKilled, QuietLeavesHarmless
<1> QED
  BY <1>7, <1>8, <1>9, <1>10, <1>11 DEF StreamInv

(* Only the RST of a killed client makes a read fail.                      *)
LEMMA ThreadFailsStream ==
    ASSUME IInv, StreamInv, NEW c \in Clients, ThreadFails(c)
    PROVE  StreamInv'
<1>1. Peer(c) = c
  BY PeerOwn DEF ThreadFails, ThreadAt, Running
<1>2. /\ c \in reset /\ tpc[c] = "read" /\ exited' = TRUE
      /\ UNCHANGED <<kernel, threads, clients, cut>>
  BY <1>1 DEF ThreadFails, ThreadAt
<1>3. Streams'
  <2>1. exited' \in BOOLEAN
    BY <1>2
  <2> QED
    BY <1>2, <2>1 DEF StreamInv, Streams
<1>4. \A d \in Clients : Balanced(d)'
  BY <1>2, BalancedKept DEF StreamInv
<1>5. (\A d \in Clients : LeftQuietly(d)') /\ ResetKilled'
  BY <1>2 DEF StreamInv, LeftQuietly, ResetKilled
<1>6. QuietLeavesHarmless'
  BY <1>2 DEF StreamInv, ResetKilled, QuietLeavesHarmless
<1> QED
  BY <1>3, <1>4, <1>5, <1>6 DEF StreamInv

LEMMA StreamStep == IInv /\ StreamInv /\ [Next]_vars => StreamInv'
<1> SUFFICES ASSUME IInv, StreamInv, [Next]_vars PROVE StreamInv'
  OBVIOUS
<1>1. ASSUME NEW c \in Clients, Connect(c) PROVE StreamInv'
  <2>1. \A d \in Clients : cpc'[d] = IF d = c THEN "send" ELSE cpc[d]
    BY <1>1 DEF Connect, IInv, Types
  <2>2. cpc[c] = "start"
    BY <1>1 DEF Connect
  <2>3. UNCHANGED <<toServer, toClient, recvBuf, got, sent, reset, exited,
                    halved, cut, tpc>>
    BY <1>1 DEF Connect
  <2> QED
    BY <2>1, <2>2, <2>3, StreamKept
<1>2. ASSUME NEW c \in Clients, Send(c) PROVE StreamInv'
  BY <1>2, SendStream
<1>3. ASSUME NEW c \in Clients, Reading(c) PROVE StreamInv'
  <2>1. PICK n \in 1..(2 * MaxMessages) : Receive(c, n)
    BY <1>3 DEF Reading
  <2>2. n \in Nat
    BY EchoAssumption
  <2> QED
    BY <2>1, <2>2, ReceiveStream
<1>4. ASSUME NEW c \in Clients, ServerGone(c) PROVE StreamInv'
  <2>1. \A d \in Clients : cpc'[d] = IF d = c THEN "left" ELSE cpc[d]
    BY <1>4 DEF ServerGone, IInv, Types
  <2>2. exited /\ cpc[c] = "read"
    BY <1>4 DEF ServerGone
  <2>3. UNCHANGED <<toServer, toClient, recvBuf, got, sent, reset, exited,
                    halved, cut, tpc>>
    BY <1>4 DEF ServerGone
  <2> QED
    BY <2>1, <2>2, <2>3, StreamKept
<1>5. ASSUME NEW c \in Clients, Leave(c) PROVE StreamInv'
  BY <1>5, LeaveStream
<1>6. ASSUME NEW fd \in Fds, Accept(fd) PROVE StreamInv'
  BY <1>6, StreamKept DEF Accept
<1>7. ASSUME NEW i \in 1..MaxInfos, CreateThread(i) PROVE StreamInv'
  <2>1. owner[cfd] \in Clients /\ tpc[owner[cfd]] = "none"
    BY <1>7 DEF CreateThread, IInv, Accepted
  <2>2. \A d \in Clients :
            tpc'[d] = IF d = owner[cfd] THEN "read" ELSE tpc[d]
    BY <1>7 DEF CreateThread, IInv, Types
  <2>3. /\ UNCHANGED <<toServer, toClient, got, sent, reset, exited, halved,
                       cut, cpc>>
        /\ ~exited
    BY <1>7 DEF CreateThread
  <2>4. PICK old \in Leftovers :
            recvBuf' = [recvBuf EXCEPT ![owner[cfd]] = old]
    BY <1>7 DEF CreateThread
  <2>5. old \in Seq(Pieces)
    <3>1. <<Junk>> \in Seq(Pieces)
      BY EchoAssumption DEF Junk, Piece, Pieces
    <3>2. \A d \in Clients : recvBuf[d] \in Seq(Pieces)
      BY DEF StreamInv, Streams
    <3> QED
      BY <2>4, <3>1, <3>2 DEF Leftovers
  <2>6. Streams'
    BY <2>3, <2>4, <2>5 DEF StreamInv, Streams
  <2>7. ASSUME NEW d \in Clients PROVE Balanced(d)'
    <3>1. CASE d = owner[cfd]
      BY <2>1, <2>2, <2>3, <3>1 DEF StreamInv, Balanced, Due, InPairs
    <3>2. CASE d # owner[cfd]
      <4>1. recvBuf'[d] = recvBuf[d] /\ tpc'[d] = tpc[d]
        BY <2>1, <2>2, <2>4, <3>2 DEF StreamInv, Streams
      <4> QED
        BY <2>3, <4>1, BalancedKept DEF StreamInv
    <3> QED
      BY <3>1, <3>2
  <2>8. ASSUME NEW d \in Clients PROVE LeftQuietly(d)'
    BY <2>2, <2>3 DEF StreamInv, LeftQuietly
  <2>9. ResetKilled' /\ QuietLeavesHarmless'
    BY <2>3 DEF StreamInv, ResetKilled, QuietLeavesHarmless
  <2> QED
    BY <2>6, <2>7, <2>8, <2>9 DEF StreamInv
<1>8. ASSUME NEW c \in Clients, NEW n \in 1..(2 * MaxMessages),
             ThreadRead(c, n)
      PROVE  StreamInv'
  <2>1. n \in Nat
    BY EchoAssumption
  <2> QED
    BY <1>8, <2>1, ThreadReadStream
<1>9. ASSUME NEW c \in Clients, ThreadEnd(c) \/ ThreadClose(c)
      PROVE  StreamInv'
  <2>1. tpc[c] # "write" /\ \E pc \in {"close", "done"} :
                                tpc' = [tpc EXCEPT ![c] = pc]
    BY <1>9 DEF ThreadEnd, ThreadClose, ThreadAt
  <2>2. \A d \in Clients : tpc'[d] = "write" <=> tpc[d] = "write"
    BY <2>1 DEF IInv, Types
  <2>3. /\ UNCHANGED <<toServer, toClient, recvBuf, got, sent, reset, exited,
                       halved, cut, cpc>>
        /\ ~exited
    BY <1>9 DEF ThreadEnd, ThreadClose, ThreadAt
  <2> QED
    BY <2>2, <2>3, StreamKept
<1>10. ASSUME NEW c \in Clients, ThreadFails(c) PROVE StreamInv'
  BY <1>10, ThreadFailsStream
<1>11. ASSUME NEW c \in Clients, ThreadWrite(c) PROVE StreamInv'
  BY <1>11, ThreadWriteStream
<1>12. CASE UNCHANGED vars
  BY <1>12, StreamKept DEF vars
<1> QED
  BY <1>1, <1>2, <1>3, <1>4, <1>5, <1>6, <1>7, <1>8, <1>9, <1>10, <1>11,
     <1>12 DEF Next, Client, Main, Thread

LEMMA StreamsInductive == Spec => [](IInv /\ StreamInv)
BY Inductive, StreamInit, StreamStep, PTL DEF Spec

(* TypeOK: every variable keeps its type.                                  *)
THEOREM TypeCorrect == Spec => []TypeOK
<1>1. IInv /\ StreamInv => TypeOK
  BY DEF IInv, Types, StreamInv, Streams, TypeOK
<1> QED
  BY <1>1, StreamsInductive, PTL

(* QuietLeavesHarmless: the thread that ends the server with exit() or by  *)
(* SIGPIPE has met the RST of a client that went with an echo missing, or  *)
(* with a message that was read in two parts.                              *)
THEOREM QuietLeaveEndsNothing == Spec => []QuietLeavesHarmless
<1>1. StreamInv => QuietLeavesHarmless
  BY DEF StreamInv
<1> QED
  BY <1>1, StreamsInductive, PTL
=============================================================================
