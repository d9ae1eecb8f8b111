---------------------------- MODULE HttpIOProofs -----------------------------
(***************************************************************************)
(* Proofs about HttpIO, for every size of the buffer, of a request, of a   *)
(* head and of a file, and every way in which bytes arrive and leave.      *)
(***************************************************************************)
EXTENDS HttpIO, SequenceTheorems, TLAPS

ByteSeq == Seq({"head", "file"} \X Int)

(* No more bytes come than a request may have.                             *)
InputBounded == taken + pending <= MaxTaken

(* Between two responses nothing is sent.                                  *)
NothingSent ==
    pc \in {"epoll", "read", "process"} =>
        haveSent = 0 /\ sent = <<>> /\ calls = 0

(* m_iv_ as Process_Write left it until the first writev, which leaves the *)
(* second vector alone if there is no file; a single vector never describes*)
(* more than is to be sent.                                                *)
VectorsMatch ==
    Responding =>
        /\ writeIdx >= 1
        /\ iovCount \in {1, 2}
        /\ iovCount = 1 => len[1] <= toSend
        /\ calls = 0 => /\ base[1] = 0 /\ len[1] = writeIdx
                        /\ iovCount = 2 => base[2] = 0 /\ len[2] = statSize
                        /\ haveSent = 0
                        /\ sent = <<>>

(* The parts of the type: the flags, the bytes sent, and the rest.         *)
Flags ==
    /\ again \in BOOLEAN /\ inherited \in BOOLEAN
    /\ ended \in {"no", "closed", "reset"}

SentType == sent \in ByteSeq

Numbers ==
    /\ pending \in 0..MaxPending
    /\ readIdx \in -128..READ_BUFFER_SIZE
    /\ taken \in 0..MaxTaken /\ longest \in 0..taken
    /\ fileAddr \in -1..MaxFile
    /\ statSize \in 0..MaxFile
    /\ writeIdx \in 0..MaxHead
    /\ iovCount \in 0..2
    /\ base \in Int \X Int
    /\ len \in Nat \X Nat
    /\ toSend \in Nat /\ haveSent \in Nat /\ calls \in Nat
    /\ pc \in {"epoll", "read", "process", "out", "write", "sent", "closed"}

(* The inductive invariant.                                                *)
Core ==
    /\ Numbers
    /\ InputBounded
    /\ NothingSent
    /\ VectorsMatch
    /\ ShortReadsCounted
    /\ CountsAgree
    /\ MappedWhileSent

IInv == Flags /\ SentType /\ Core
-----------------------------------------------------------------------------
(* A count below 128 survives in the char, a larger one gets smaller.      *)
LEMMA SignedCharFacts ==
    ASSUME NEW n \in Nat
    PROVE  /\ SignedChar(n) \in -128..127
           /\ SignedChar(n) <= n
           /\ n <= 127 => SignedChar(n) = n
BY DEF SignedChar

(* recv never returns more than there is, nor more than it was offered.    *)
LEMMA LeastFacts ==
    ASSUME NEW m \in Nat, NEW n \in Nat
    PROVE  /\ Least(m, n) \in Nat
           /\ Least(m, n) <= m
           /\ Least(m, n) <= n
           /\ Least(m, n) \in {m, n}
BY DEF Least

(* An iovec of length n describes n bytes.                                 *)
LEMMA BytesFacts ==
    ASSUME NEW part \in {"head", "file"}, NEW from \in Int, NEW n \in Nat
    PROVE  /\ Bytes(part, from, n) \in ByteSeq
           /\ Len(Bytes(part, from, n)) = n
BY DEF Bytes, ByteSeq

(* writev is given the bytes of the vectors that count.                    *)
LEMMA DescribedFacts ==
    ASSUME Numbers
    PROVE  /\ Described \in ByteSeq
           /\ Len(Described) =
                  len[1] + (IF iovCount = 2 THEN len[2] ELSE 0)
<1>1. /\ base[1] \in Int /\ base[2] \in Int
      /\ len[1] \in Nat /\ len[2] \in Nat
  BY DEF Numbers
<1> DEFINE first == Bytes("head", base[1], len[1])
           second == Bytes("file", base[2], len[2])
<1>2. /\ first \in ByteSeq /\ Len(first) = len[1]
      /\ second \in ByteSeq /\ Len(second) = len[2]
  BY <1>1, BytesFacts
<1>3. <<>> \in ByteSeq /\ Len(<<>>) = 0
  BY EmptySeq DEF ByteSeq
<1> DEFINE rest == IF iovCount = 2 THEN second ELSE <<>>
<1>4. /\ rest \in ByteSeq
      /\ Len(rest) = IF iovCount = 2 THEN len[2] ELSE 0
  BY <1>2, <1>3
<1> HIDE DEF first, rest
<1>5. first \o rest \in ByteSeq /\ Len(first \o rest) = Len(first) + Len(rest)
  BY <1>2, <1>4, ConcatProperties DEF ByteSeq
<1> QED
  BY <1>2, <1>4, <1>5 DEF Described, first, rest
-----------------------------------------------------------------------------
USE DEF input, file, vectors, output

LEMMA TypeParts == TypeOK <=> Flags /\ SentType /\ Numbers
BY Zenon DEF TypeOK, Flags, SentType, Numbers, ByteSeq

LEMMA FlagsKept ==
    ASSUME Flags, Next
    PROVE  Flags'
<1>1. CloseConn \/ inherited' \in BOOLEAN
  BY Zenon
     DEF Flags, Next, Arrive, End, EpollIn, RecvNothing, RecvEnd, Recv,
         Incomplete, RespondError, RespondFile, EpollOut, NoRoom, WritevFails,
         WritevSome, Writev, Finish, Hangup, Reuse
<1>2. UNCHANGED ended \/ ended' \in {"no", "closed", "reset"}
  BY Zenon
     DEF Next, Arrive, End, EpollIn, RecvNothing, RecvEnd, Recv,
         Incomplete, RespondError, RespondFile, EpollOut, NoRoom, WritevFails,
         WritevSome, Writev, Finish, Hangup, Reuse
<1>3. UNCHANGED again \/ again' \in BOOLEAN
  BY Zenon
     DEF Next, Arrive, End, EpollIn, RecvNothing, RecvEnd, Recv,
         Incomplete, RespondError, RespondFile, EpollOut, NoRoom, WritevFails,
         WritevSome, Writev, Finish, Hangup, Reuse
<1>4. CloseConn => inherited' \in BOOLEAN
  BY DEF CloseConn
<1>5. again' \in BOOLEAN /\ ended' \in {"no", "closed", "reset"}
  BY <1>2, <1>3 DEF Flags
<1> QED
  BY <1>1, <1>4, <1>5 DEF Flags

LEMMA WritevSends ==
    ASSUME SentType, Numbers, NEW n \in 0..(MaxHead + MaxFile), Writev(n)
    PROVE  sent' \in ByteSeq /\ Len(sent') = Len(sent) + n
<1>1. n \in Nat /\ n <= Len(Described) /\ Described \in ByteSeq
  BY DescribedFacts, IOAssumption DEF Writev
<1>2. \A i \in 1..n : Described[i] \in {"head", "file"} \X Int
  BY <1>1, ElementOfSeq, LenProperties DEF ByteSeq
<1>3. SubSeq(Described, 1, n) \in ByteSeq /\ Len(SubSeq(Described, 1, n)) = n
  BY <1>1, <1>2, SubSeqProperties DEF ByteSeq
<1>4. sent \in ByteSeq /\ sent' = sent \o SubSeq(Described, 1, n)
  BY DEF Writev, SentType
<1> QED
  BY <1>3, <1>4, ConcatProperties DEF ByteSeq

LEMMA SentKept ==
    ASSUME SentType, Numbers, Next
    PROVE  SentType'
<1>1. <<>> \in ByteSeq
  BY EmptySeq DEF ByteSeq
<1>2. UNCHANGED sent \/ sent' = <<>> \/ WritevSome
  BY Zenon
     DEF Next, Arrive, End, EpollIn, RecvNothing, RecvEnd, Recv, Incomplete,
         RespondError, RespondFile, Describe, EpollOut, NoRoom, WritevFails,
         Finish, InitBuffers, Hangup, Reuse
<1>3. CASE WritevSome
  BY <1>3, WritevSends DEF WritevSome, SentType
<1> QED
  BY <1>1, <1>2, <1>3 DEF SentType

LEMMA InitHolds == Init => IInv
<1> SUFFICES ASSUME Init PROVE IInv
  OBVIOUS
<1>1. Flags
  BY DEF Init, Flags
<1>2. SentType
  BY EmptySeq DEF Init, SentType, ByteSeq
<1>3. Numbers
  BY IOAssumption DEF Init, Numbers, NULL
<1>4. /\ InputBounded /\ NothingSent /\ VectorsMatch
      /\ ShortReadsCounted /\ CountsAgree /\ MappedWhileSent
  BY IOAssumption
     DEF Init, InputBounded, NothingSent, VectorsMatch, ShortReadsCounted,
         CountsAgree, MappedWhileSent, Responding, NULL
<1> QED
  BY <1>1, <1>2, <1>3, <1>4 DEF IInv, Core

(* Steps that change neither m_iv_ and its counters nor the mapping, and do*)
(* not begin a response, keep what is said of responses.                   *)
LEMMA OutputKept ==
    ASSUME IInv,
           UNCHANGED <<fileAddr, statSize, output>>,
           pc' \in {"epoll", "read", "process", "closed"},
           (pc' = "closed" /\ inherited' = (fileAddr > 0))
           \/ (pc' # "closed" /\ UNCHANGED inherited
               /\ pc \in {"epoll", "read", "process"})
    PROVE  NothingSent' /\ VectorsMatch' /\ CountsAgree' /\ MappedWhileSent'
BY DEF IInv, Core, Numbers, NothingSent, VectorsMatch, CountsAgree, MappedWhileSent,
       Responding

(* recv and the char.                                                      *)
LEMMA RecvKeeps ==
    ASSUME IInv, Recv
    PROVE  Core'
<1> DEFINE n == Least(pending, READ_BUFFER_SIZE - readIdx)
           bytes_read == SignedChar(n)
<1>1. /\ pending \in Nat /\ readIdx \in Nat
      /\ READ_BUFFER_SIZE - readIdx \in Nat
      /\ taken \in Nat /\ longest \in 0..taken
      /\ taken + pending <= MaxTaken
      /\ READ_BUFFER_SIZE \in Nat /\ MaxTaken \in Nat /\ MaxPending \in Nat
  BY IOAssumption DEF Recv, IInv, Core, Numbers, InputBounded
<1>2. /\ n \in Nat /\ n <= pending /\ n <= READ_BUFFER_SIZE - readIdx
  BY <1>1, LeastFacts
<1>3. /\ bytes_read \in -128..127 /\ bytes_read <= n
      /\ n <= 127 => bytes_read = n
  BY <1>2, SignedCharFacts
<1>4. /\ pending' = pending - n
      /\ taken' = taken + n
      /\ longest' = IF n > longest THEN n ELSE longest
      /\ readIdx' = IF bytes_read \in {-1, 0} THEN readIdx
                    ELSE readIdx + bytes_read
      /\ UNCHANGED <<ended, again, fileAddr, statSize, output>>
      /\ pc = "read"
  BY Zenon DEF Recv
<1>5. \/ pc' = "closed" /\ inherited' = (fileAddr > 0)
      \/ pc' \in {"process", "read"} /\ UNCHANGED inherited
  BY <1>4 DEF Recv, CloseConn
<1> HIDE DEF n, bytes_read
<1>6. NothingSent' /\ VectorsMatch' /\ CountsAgree' /\ MappedWhileSent'
  BY <1>4, <1>5, OutputKept
<1>7. /\ pending' \in 0..MaxPending
      /\ readIdx' \in -128..READ_BUFFER_SIZE
      /\ taken' \in 0..MaxTaken /\ longest' \in 0..taken'
      /\ taken' + pending' <= MaxTaken
  BY <1>1, <1>2, <1>3, <1>4 DEF IInv, Core, Numbers
<1>8. Numbers' /\ InputBounded'
  BY <1>4, <1>5, <1>7 DEF IInv, Core, Numbers, InputBounded
<1>9. ShortReadsCounted'
  BY <1>1, <1>2, <1>3, <1>4 DEF IInv, Core, ShortReadsCounted
<1> QED
  BY <1>6, <1>8, <1>9 DEF IInv, Core

(* The end of Process_Write, whatever became of the file.                  *)
LEMMA DescribeKeeps ==
    ASSUME IInv,
           NEW count \in {1, 2}, Describe(count),
           statSize' \in 0..MaxFile, fileAddr' \in -1..MaxFile,
           UNCHANGED input, pc = "process", pc' = "out",
           MappedWhileSent'
    PROVE  Core'
<1>1. /\ haveSent = 0 /\ sent = <<>> /\ calls = 0
      /\ Len(sent) = 0
  BY EmptySeq DEF IInv, Core, NothingSent
<1>2. base \in Int \X Int /\ len \in Nat \X Nat
  BY DEF IInv, Core, Numbers
<1>3. PICK w \in 1..MaxHead, f \in 0..MaxFile : writeIdx' = w /\ statSize' = f
  BY DEF Describe
<1>4. /\ iovCount' = count
      /\ toSend' = w + (IF count = 2 THEN f ELSE 0)
      /\ UNCHANGED <<haveSent, sent, calls>>
      /\ w \in Nat /\ w >= 1 /\ f \in Nat
  BY <1>3, IOAssumption DEF Describe
<1>5. /\ base' \in Int \X Int /\ base'[1] = 0
      /\ count = 2 => base'[2] = 0
  <2>1. CASE count = 2
    BY <2>1 DEF Describe
  <2>2. CASE count = 1
    <3>1. base' = <<0, base[2]>>
      BY <1>2, <2>2 DEF Describe
    <3> QED
      BY <1>2, <2>2, <3>1
  <2> QED
    BY <2>1, <2>2
<1>6. /\ len' \in Nat \X Nat /\ len'[1] = w
      /\ count = 2 => len'[2] = f
  <2>1. CASE count = 2
    BY <1>3, <1>4, <2>1 DEF Describe
  <2>2. CASE count = 1
    <3>1. len' = <<w, len[2]>>
      BY <1>2, <1>3, <2>2 DEF Describe
    <3> QED
      BY <1>2, <1>4, <2>2, <3>1
  <2> QED
    BY <2>1, <2>2
<1>7. Numbers'
  <2>1. toSend' \in Nat /\ iovCount' \in 0..2 /\ writeIdx' \in 0..MaxHead
    BY <1>3, <1>4
  <2> QED
    BY <1>4, <1>5, <1>6, <2>1 DEF IInv, Core, Numbers
<1>8. VectorsMatch'
  <2>1. iovCount' = 1 => toSend' = w
    BY <1>4
  <2>2. w <= w /\ w >= 1
    BY <1>4
  <2>3. iovCount' \in {1, 2}
    BY <1>4
  <2> QED
    BY <1>1, <1>3, <1>4, <1>5, <1>6, <2>1, <2>2, <2>3 DEF VectorsMatch
<1>9. CountsAgree'
  BY <1>1, <1>3, <1>4, <1>6 DEF CountsAgree, fileSize
<1> QED
  BY <1>7, <1>8, <1>9
     DEF IInv, Core, InputBounded, NothingSent, ShortReadsCounted

(* writev and the counters.                                                *)
LEMMA WritevKeeps ==
    ASSUME IInv, NEW n \in 0..(MaxHead + MaxFile), Writev(n)
    PROVE  Core'
<1>1. /\ pc = "write" /\ Responding
      /\ base[1] \in Int /\ base[2] \in Int /\ base = <<base[1], base[2]>>
      /\ len[1] \in Nat /\ len[2] \in Nat /\ len = <<len[1], len[2]>>
      /\ toSend \in Nat /\ haveSent \in Nat /\ calls \in Nat
      /\ n \in Nat
  BY IOAssumption DEF Writev, IInv, Core, Numbers, Responding
<1>2. /\ Described \in ByteSeq
      /\ Len(Described) = len[1] + (IF iovCount = 2 THEN len[2] ELSE 0)
  BY DescribedFacts DEF IInv, Core
<1>3. n <= Len(Described) /\ (n = 0 => Described = <<>>)
  BY DEF Writev
<1>4. n <= toSend /\ (calls = 0 => n # 0)
  <2>1. Len(Described) <= toSend
    BY <1>1, <1>2 DEF IInv, Core, VectorsMatch, CountsAgree
  <2>2. ASSUME calls = 0 PROVE Len(Described) # 0
    BY <1>1, <1>2, <2>2 DEF IInv, Core, VectorsMatch, Numbers
  <2>3. n = 0 => Len(Described) = 0
    BY <1>3, EmptySeq
  <2> QED
    BY <1>1, <1>2, <1>3, <2>1, <2>2, <2>3
<1>5. Len(sent') = Len(sent) + n
  BY WritevSends DEF IInv, Core
<1>6. /\ toSend' = toSend - n
      /\ haveSent' = haveSent + n
      /\ calls' = IF n = 0 THEN calls ELSE calls + 1
      /\ pc' = IF toSend - n <= 0 THEN "sent" ELSE "write"
      /\ UNCHANGED <<input, file, writeIdx, iovCount>>
  BY DEF Writev
<1>7. /\ base' \in Int \X Int
      /\ len' \in Nat \X Nat
      /\ iovCount = 2 => len'[1] + len'[2] = toSend'
      /\ iovCount = 1 => len'[1] <= toSend'
  <2>0. /\ readIdx \in Int
        /\ iovCount = 2 => len[1] + len[2] = toSend
        /\ iovCount = 1 => len[1] <= toSend
    BY <1>1 DEF IInv, Core, Numbers, VectorsMatch, CountsAgree
  <2>1. CASE FirstIsSent(n)
    <3>1. /\ base' = <<base[1], haveSent + n - readIdx>>
          /\ len' = <<0, toSend - n>>
      BY <1>1, <2>1 DEF Writev, Advance
    <3> QED
      BY <1>1, <1>4, <1>6, <2>0, <3>1
  <2>2. CASE ~FirstIsSent(n)
    <3>1. /\ base' = <<haveSent + n, base[2]>>
          /\ len' = <<len[1] - n, len[2]>>
      BY <1>1, <2>2 DEF Writev, Advance
    <3>2. n < len[1]
      BY <1>1, <2>2 DEF FirstIsSent
    <3> QED
      BY <1>1, <1>4, <1>6, <2>0, <3>1, <3>2
  <2> QED
    BY <2>1, <2>2
<1>8. Numbers'
  BY <1>1, <1>4, <1>5, <1>6, <1>7 DEF IInv, Core, Numbers
<1>9. CountsAgree'
  <2>1. /\ toSend + haveSent = writeIdx + fileSize
        /\ Len(sent) = haveSent
    BY <1>1 DEF IInv, Core, CountsAgree
  <2>2. /\ toSend' + haveSent' = toSend + haveSent
        /\ fileSize' = fileSize
    BY <1>1, <1>6 DEF fileSize
  <2> QED
    BY <1>5, <1>6, <1>7, <2>1, <2>2 DEF CountsAgree
<1>10. VectorsMatch'
  <2>1. calls' # 0
    BY <1>1, <1>4, <1>6
  <2> QED
    BY <1>1, <1>6, <1>7, <2>1 DEF IInv, Core, VectorsMatch
<1> QED
  BY <1>1, <1>6, <1>8, <1>9, <1>10
     DEF IInv, Core, InputBounded, NothingSent, ShortReadsCounted, MappedWhileSent,
         Responding

LEMMA CoreKept == IInv /\ [Next]_vars => Core'
<1> SUFFICES ASSUME IInv, [Next]_vars PROVE Core'
  OBVIOUS
<1> USE DEF InputBounded
<1>1. ASSUME NEW n \in Arrivals, Arrive(n)
      PROVE  Core'
  <2>1. NothingSent' /\ VectorsMatch' /\ CountsAgree' /\ MappedWhileSent'
    BY <1>1, OutputKept DEF Arrive
  <2> QED
    BY <1>1, <2>1, IOAssumption DEF Arrive, IInv, Core, Numbers, ShortReadsCounted
<1>2. CASE EpollIn \/ RecvNothing \/ RecvEnd
  <2>1. NothingSent' /\ VectorsMatch' /\ CountsAgree' /\ MappedWhileSent'
    BY <1>2, OutputKept DEF EpollIn, RecvNothing, RecvEnd, CloseConn
  <2> QED
    BY <1>2, <2>1
       DEF EpollIn, RecvNothing, RecvEnd, CloseConn, IInv, Core, Numbers,
           ShortReadsCounted
<1>3. CASE Recv
  BY <1>3, RecvKeeps
<1>4. CASE Incomplete
  <2>1. NothingSent' /\ VectorsMatch' /\ CountsAgree' /\ MappedWhileSent'
    BY <1>4, OutputKept DEF Incomplete
  <2> QED
    BY <1>4, <2>1 DEF Incomplete, IInv, Core, Numbers, ShortReadsCounted
<1>5. CASE RespondError
  <2>1. /\ statSize' \in 0..MaxFile
        /\ fileAddr' \in -1..MaxFile
        /\ fileAddr' > 0 => fileAddr' = fileAddr
    BY <1>5, IOAssumption DEF RespondError, NoFile, IInv, Core, Numbers, FAILED
  <2>2. MappedWhileSent'
    BY <1>5, <2>1
       DEF RespondError, Describe, IInv, Core, MappedWhileSent, Responding
  <2> QED
    BY <1>5, <2>1, <2>2, DescribeKeeps DEF RespondError
<1>6. CASE RespondFile
  <2>1. statSize' \in 1..MaxFile /\ fileAddr' = statSize'
    BY <1>6 DEF RespondFile, MapFile
  <2>2. MappedWhileSent'
    BY <1>6, <2>1 DEF RespondFile, MappedWhileSent, Responding
  <2> QED
    BY <1>6, <2>1, <2>2, IOAssumption, DescribeKeeps DEF RespondFile
<1>7. CASE EpollOut \/ NoRoom
  <2>1. /\ UNCHANGED <<pending, readIdx, taken, longest, file, output>>
        /\ pc \in {"out", "write"} /\ pc' \in {"out", "write"}
    BY <1>7 DEF EpollOut, NoRoom
  <2>2. Numbers' /\ InputBounded' /\ ShortReadsCounted'
    BY <2>1 DEF IInv, Core, Numbers, ShortReadsCounted
  <2>3. NothingSent' /\ MappedWhileSent'
    BY <2>1 DEF IInv, Core, NothingSent, MappedWhileSent, Responding
  <2>4. VectorsMatch' /\ CountsAgree'
    BY <2>1 DEF IInv, Core, VectorsMatch, CountsAgree, Responding, fileSize
  <2> QED
    BY <2>2, <2>3, <2>4 DEF Core
<1>8. CASE WritevFails
  BY <1>8, IOAssumption
     DEF WritevFails, Unmap, CloseConn, NULL, IInv, Core, Numbers, NothingSent,
         VectorsMatch, ShortReadsCounted, CountsAgree, MappedWhileSent,
         Responding
<1>9. CASE WritevSome
  BY <1>9, WritevKeeps DEF WritevSome
<1>10. CASE Finish
  <2>1. fileAddr' = 0 /\ UNCHANGED <<pending, statSize>>
    BY <1>10 DEF Finish, Unmap, NULL
  <2>2. CASE InitBuffers /\ pc' = "epoll"
    BY <2>1, <2>2, IOAssumption
       DEF InitBuffers, IInv, Core, Numbers, NothingSent, VectorsMatch,
           ShortReadsCounted, CountsAgree, MappedWhileSent, Responding
  <2>3. CASE UNCHANGED <<input, output>> /\ pc' = "closed"
    BY <2>1, <2>3, IOAssumption
       DEF IInv, Core, Numbers, NothingSent, VectorsMatch, ShortReadsCounted,
           CountsAgree, MappedWhileSent, Responding
  <2> QED
    BY <1>10, <2>2, <2>3 DEF Finish, CloseConn
<1>11. CASE Hangup
  <2>1. NothingSent' /\ VectorsMatch' /\ CountsAgree' /\ MappedWhileSent'
    BY <1>11, OutputKept DEF Hangup, CloseConn
  <2> QED
    BY <1>11, <2>1 DEF Hangup, CloseConn, IInv, Core, Numbers, ShortReadsCounted
<1>12. CASE Reuse
  BY <1>12, IOAssumption, EmptySeq
     DEF Reuse, InitBuffers, IInv, Core, Numbers, NothingSent, VectorsMatch,
         ShortReadsCounted, CountsAgree, MappedWhileSent, Responding
<1>13. ASSUME NEW how \in {"closed", "reset"}, End(how)
       PROVE  Core'
  BY <1>13
     DEF End, IInv, Core, Numbers, NothingSent, VectorsMatch,
         ShortReadsCounted, CountsAgree, MappedWhileSent, Responding, fileSize
<1>14. CASE UNCHANGED vars
  BY <1>14
     DEF vars, IInv, Core, Numbers, NothingSent, VectorsMatch, ShortReadsCounted,
         CountsAgree, MappedWhileSent, Responding, fileSize
<1> QED
  BY <1>1, <1>2, <1>3, <1>4, <1>5, <1>6, <1>7, <1>8, <1>9, <1>10, <1>11,
     <1>12, <1>13, <1>14 DEF Next

LEMMA StepKeeps == IInv /\ [Next]_vars => IInv'
<1> SUFFICES ASSUME IInv, [Next]_vars PROVE IInv'
  OBVIOUS
<1>1. Core'
  BY CoreKept DEF IInv
<1>2. CASE Next
  BY <1>1, <1>2, FlagsKept, SentKept DEF IInv, Core
<1>3. CASE UNCHANGED vars
  BY <1>1, <1>3 DEF vars, IInv, Flags, SentType
<1> QED
  BY <1>2, <1>3

LEMMA Inductive == Spec => []IInv
BY InitHolds, StepKeeps, PTL DEF Spec
-----------------------------------------------------------------------------
(* TypeOK: every variable keeps its type; no count that recv's char holds  *)
(* takes m_read_idx_ past the end of the buffer.                           *)
THEOREM TypeCorrect == Spec => []TypeOK
<1>1. IInv => TypeOK
  BY TypeParts DEF IInv, Core
<1> QED
  BY <1>1, Inductive, PTL

(* ShortReadsCounted: bytes that arrive at most 127 at a time are counted  *)
(* exactly and fit the buffer.                                             *)
THEOREM ShortReadsExact == Spec => []ShortReadsCounted
<1>1. IInv => ShortReadsCounted
  BY DEF IInv, Core
<1> QED
  BY <1>1, Inductive, PTL

(* ShortReadsClosed: main turns such a client away for a full buffer, or   *)
(* when it has ended the connection itself; for nothing else.              *)
THEOREM ShortReadsStay == Spec => ShortReadsClosed
<1>1. ASSUME IInv, [Next]_vars, pc \in {"epoll", "read"}, pc' = "closed",
             longest' <= 127
      PROVE  taken = READ_BUFFER_SIZE \/ ended # "no"
  <2>1. EpollIn \/ Recv \/ RecvEnd \/ Hangup
    BY <1>1
       DEF Next, vars, Arrive, End, RecvNothing, Incomplete,
           RespondError, RespondFile, EpollOut, NoRoom, WritevFails,
           WritevSome, Writev, Finish, Reuse
  <2>2. CASE RecvEnd \/ Hangup
    BY <2>2 DEF RecvEnd, Hangup
  <2>3. CASE EpollIn
    <3>1. readIdx >= READ_BUFFER_SIZE /\ longest <= 127
      BY <1>1, <2>3 DEF EpollIn
    <3>2. readIdx = taken /\ taken <= READ_BUFFER_SIZE /\ taken \in Nat
      BY <1>1, <3>1 DEF IInv, Core, Numbers, ShortReadsCounted
    <3> QED
      BY <3>1, <3>2, IOAssumption
  <2>4. CASE Recv
    <3> DEFINE n == Least(pending, READ_BUFFER_SIZE - readIdx)
    <3>1. /\ pending \in Nat /\ readIdx \in Nat /\ taken \in Nat
          /\ longest \in Nat
          /\ READ_BUFFER_SIZE - readIdx \in Nat /\ READ_BUFFER_SIZE \in Nat
          /\ pending > 0
      BY <1>1, <2>4, IOAssumption DEF Recv, IInv, Core, Numbers
    <3>2. n \in Nat /\ n \in {pending, READ_BUFFER_SIZE - readIdx}
      BY <3>1, LeastFacts
    <3>3. longest' = IF n > longest THEN n ELSE longest
      BY <2>4 DEF Recv
    <3>4. SignedChar(n) = 0 \/ SignedChar(n) = -1
      BY <1>1, <2>4 DEF Recv
    <3> HIDE DEF n
    <3>5. n <= 127 /\ longest <= 127
      BY <1>1, <3>1, <3>2, <3>3
    <3>6. n = 0
      BY <3>2, <3>4, <3>5, SignedCharFacts
    <3>7. readIdx = taken
      BY <1>1, <3>5 DEF IInv, Core, ShortReadsCounted
    <3> QED
      BY <3>1, <3>2, <3>6, <3>7
  <2> QED
    BY <2>1, <2>2, <2>3, <2>4
<1>2. IInv /\ [Next]_vars =>
          [pc' = "closed" /\ pc \in {"epoll", "read"} /\ longest' <= 127 =>
               taken = READ_BUFFER_SIZE \/ ended # "no"]_vars
  BY <1>1
<1> QED
  BY <1>2, Inductive, PTL DEF Spec, ShortReadsClosed

(* CountsAgree: however writev cuts a response, the counters account for   *)
(* all of it, and m_iv_ for the rest of a response with a file.            *)
THEOREM CountersExact == Spec => []CountsAgree
<1>1. IInv => CountsAgree
  BY DEF IInv, Core
<1> QED
  BY <1>1, Inductive, PTL

(* MappedWhileSent: the file stays mapped while it is sent, and Unmap gets *)
(* the length that was mapped.                                             *)
THEOREM MappingHeld == Spec => []MappedWhileSent
<1>1. IInv => MappedWhileSent
  BY DEF IInv, Core
<1> QED
  BY <1>1, Inductive, PTL
-----------------------------------------------------------------------------
(* An iovec of length 0 describes nothing.                                 *)
LEMMA NoBytes ==
    ASSUME NEW part \in {"head", "file"}, NEW from \in Int
    PROVE  Bytes(part, from, 0) = <<>>
<1>1. Bytes(part, from, 0) \in ByteSeq /\ Len(Bytes(part, from, 0)) = 0
  BY BytesFacts
<1>2. \A s \in ByteSeq : s # <<>> => Len(s) # 0
  BY EmptySeq DEF ByteSeq
<1> QED
  BY <1>1, <1>2

(* Before the first writev m_iv_ describes the response.                   *)
LEMMA DescribedAtFirst ==
    ASSUME IInv, Responding, calls = 0
    PROVE  Described = Response
<1>1. /\ base[1] = 0 /\ len[1] = writeIdx
      /\ iovCount = 2 => base[2] = 0 /\ len[2] = fileSize
      /\ iovCount \in {1, 2}
  BY DEF IInv, Core, VectorsMatch, fileSize
<1>2. CASE iovCount = 2
  BY <1>1, <1>2 DEF Described, Response
<1>3. CASE iovCount = 1
  <2>1. Bytes("file", 0, fileSize) = <<>>
    BY <1>3, NoBytes DEF fileSize
  <2> QED
    BY <1>1, <1>3, <2>1 DEF Described, Response
<1> QED
  BY <1>1, <1>2, <1>3

LEMMA FirstWriteKept ==
    ASSUME IInv, FirstWriteRight, Next
    PROVE  FirstWriteRight'
<1> SUFFICES ASSUME Responding', calls' <= 1
             PROVE  (sent = SubSeq(Response, 1, haveSent))'
  BY DEF FirstWriteRight
<1>1. CASE RespondError \/ RespondFile
  <2>1. sent' = <<>> /\ haveSent' = 0
    BY <1>1
       DEF RespondError, RespondFile, Describe, IInv, Core, NothingSent
  <2> QED
    BY <2>1, SubSeqEmpty
<1>2. CASE EpollOut \/ NoRoom \/ \E how \in {"closed", "reset"} : End(how)
  <2>1. /\ UNCHANGED <<sent, haveSent, calls, writeIdx, fileSize>>
        /\ Responding
    BY <1>2 DEF EpollOut, NoRoom, End, Responding, fileSize
  <2>2. Response' = Response
    BY <2>1 DEF Response
  <2> QED
    BY <2>1, <2>2 DEF FirstWriteRight
<1>3. ASSUME NEW n \in 0..(MaxHead + MaxFile), Writev(n)
      PROVE  (sent = SubSeq(Response, 1, haveSent))'
  <2>1. /\ Responding
        /\ sent' = sent \o SubSeq(Described, 1, n)
        /\ haveSent' = haveSent + n
        /\ calls' = IF n = 0 THEN calls ELSE calls + 1
        /\ n = 0 => Described = <<>>
        /\ n \in Nat
    BY <1>3, IOAssumption DEF Writev, Responding
  <2>2. UNCHANGED <<writeIdx, fileSize>>
    BY <1>3 DEF Writev, fileSize
  <2>3. Response' = Response
    BY <2>2 DEF Response
  <2>4. /\ haveSent \in Nat /\ calls \in Nat
        /\ sent \in ByteSeq
        /\ Described \in ByteSeq
    BY DescribedFacts DEF IInv, Core, Numbers, SentType
  <2>5. CASE calls = 0
    <3>1. sent = <<>> /\ haveSent = 0
      BY <2>1, <2>5 DEF IInv, Core, VectorsMatch
    <3>2. Described = Response
      BY <2>1, <2>5, DescribedAtFirst
    <3>3. n <= Len(Described)
      BY <1>3 DEF Writev
    <3>4. SubSeq(Described, 1, n) \in ByteSeq
      <4>1. \A i \in 1..n : Described[i] \in {"head", "file"} \X Int
        BY <2>1, <2>4, <3>3, ElementOfSeq, LenProperties DEF ByteSeq
      <4> QED
        BY <2>1, <4>1, SubSeqProperties DEF ByteSeq
    <3>5. sent' = SubSeq(Response, 1, n)
      BY <2>1, <3>1, <3>2, <3>4, ConcatEmptySeq DEF ByteSeq
    <3>6. haveSent' = n
      BY <2>1, <3>1
    <3> QED
      BY <2>3, <3>5, <3>6
  <2>6. CASE calls # 0
    <3>1. n = 0 /\ calls <= 1
      BY <2>1, <2>4, <2>6
    <3>2. SubSeq(Described, 1, n) = <<>>
      BY <3>1, SubSeqEmpty
    <3>3. sent' = sent
      BY <2>1, <2>4, <3>2, ConcatEmptySeq DEF ByteSeq
    <3>4. haveSent' = haveSent
      BY <2>1, <2>4, <3>1
    <3> QED
      BY <2>1, <2>3, <3>1, <3>3, <3>4 DEF FirstWriteRight
  <2> QED
    BY <2>5, <2>6
<1> QED
  BY <1>1, <1>2, <1>3
     DEF Next, Arrive, EpollIn, RecvNothing, RecvEnd, Recv, Incomplete,
         WritevFails, WritevSome, Finish, Hangup, Reuse, CloseConn, Responding

(* FirstWriteRight: what the first writev of a response sends is right, and*)
(* so is all of a response that it sends at once, whatever the last one,   *)
(* perhaps of another client, has left in m_iv_.                           *)
THEOREM FirstWriteCorrect == Spec => []FirstWriteRight
<1>1. Init => FirstWriteRight
  BY DEF Init, FirstWriteRight, Responding
<1>2. IInv /\ FirstWriteRight /\ [Next]_vars => FirstWriteRight'
  <2> SUFFICES ASSUME IInv, FirstWriteRight, [Next]_vars
               PROVE  FirstWriteRight'
    OBVIOUS
  <2>1. CASE UNCHANGED vars
    BY <2>1 DEF vars, FirstWriteRight, Responding, Response, fileSize
  <2> QED
    BY <2>1, FirstWriteKept
<1> QED
  BY <1>1, <1>2, Inductive, PTL DEF Spec
=============================================================================
