------------------------------- MODULE HttpIO -------------------------------
(***************************************************************************)
(* The buffers of one object of users[], webserver/src/http_conn.cpp, at   *)
(* the level of their integers: Read() fills m_read_buf_, Do_Response()    *)
(* maps the file, Process_Write() describes the response in m_iv_, Write() *)
(* sends it and Unmap() releases the file; then Init() starts anew, for    *)
(* the next request or for the next client that is given the object.  Who  *)
(* calls these functions, and when, is in WebServer.                       *)
(*                                                                         *)
(* A byte of m_write_buf_ is <<"head", i>>, a byte reached from            *)
(* m_file_address_ is <<"file", i>>, whether or not i lies in the file.    *)
(***************************************************************************)
EXTENDS Integers, Sequences

CONSTANTS
    READ_BUFFER_SIZE,   \* READ_BUFFER_SIZE_
    Arrivals,           \* the numbers of bytes that may arrive at once
    MaxPending,         \* bound: the bytes the kernel holds
    MaxTaken,           \* bound: the bytes of one request
    MaxHead,            \* bound: the content of m_write_buf_
    MaxFile             \* bound: the size of a file

ASSUME IOAssumption ==
    /\ READ_BUFFER_SIZE \in Nat \ {0}
    /\ Arrivals \subseteq Nat \ {0}
    /\ MaxPending \in Nat
    /\ MaxTaken \in Nat
    /\ MaxHead \in Nat \ {0}
    /\ MaxFile \in Nat \ {0}

VARIABLES
    pending,    \* the bytes in the socket's receive buffer
    readIdx,    \* m_read_idx_
    taken,      \* the bytes recv has returned since Init()
    longest,    \* the most that one of these recv calls returned
    ended,      \* what the client has done: "no", "closed" (FIN), "reset"
    again,      \* errno is EAGAIN or EWOULDBLOCK
    fileAddr,   \* m_file_address_: NULL, FAILED or a mapping, which is
                \* named after the length it was mapped with
    statSize,   \* m_real_file_stat_.st_size
    inherited,  \* the mapping was left behind when a connection was closed
    writeIdx,   \* m_write_idx_
    iovCount,   \* m_iv_count_
    base,       \* iov_base of m_iv_[0] and m_iv_[1], as offsets
    len,        \* iov_len of m_iv_[0] and m_iv_[1]
    toSend,     \* m_bytes_to_send_
    haveSent,   \* m_bytes_have_send_
    sent,       \* what the kernel was given of the response, byte by byte
    calls,      \* how many writev calls have sent a part of it
    pc          \* "epoll": EPOLLIN is awaited, "read": in Read's loop,
                \* "process": with a worker, "out": EPOLLOUT is awaited,
                \* "write": in Write's loop, "sent": at its end, "closed"

input == <<pending, readIdx, taken, longest, ended, again>>
file == <<fileAddr, statSize, inherited>>
vectors == <<iovCount, base, len>>
output == <<writeIdx, vectors, toSend, haveSent, sent, calls>>
vars == <<input, file, output, pc>>

NULL == 0
FAILED == -1

(* A new object has no mapping: the memory of users[] is new and zero.     *)
Init ==
    /\ pending = 0 /\ readIdx = 0 /\ taken = 0 /\ longest = 0
    /\ ended = "no" /\ again \in BOOLEAN
    /\ fileAddr = NULL /\ statSize = 0 /\ inherited = FALSE
    /\ writeIdx = 0 /\ iovCount = 0 /\ base = <<0, 0>> /\ len = <<0, 0>>
    /\ toSend = 0 /\ haveSent = 0 /\ sent = <<>> /\ calls = 0
    /\ pc = "epoll"

(* Mutant of InitBuffers: m_read_idx_ is kept.                             *)
InitBuffersKeepsRead ==
    /\ taken' = 0 /\ longest' = 0
    /\ writeIdx' = 0 /\ toSend' = 0 /\ haveSent' = 0
    /\ sent' = <<>> /\ calls' = 0
    /\ UNCHANGED <<readIdx, vectors>>

(* Init().  m_iv_ and m_iv_count_ keep what the last response, perhaps of  *)
(* another client, has left in them; so do m_file_address_ and the stat.   *)
InitBuffers ==
    /\ readIdx' = 0 /\ taken' = 0 /\ longest' = 0
    /\ writeIdx' = 0 /\ toSend' = 0 /\ haveSent' = 0
    /\ sent' = <<>> /\ calls' = 0
    /\ UNCHANGED vectors

(* CloseConn(): it does not call Unmap().                                  *)
CloseConn ==
    /\ pc' = "closed"
    /\ inherited' = (fileAddr' > 0)
-----------------------------------------------------------------------------
(***************************************************************************)
(* Read().                                                                 *)
(***************************************************************************)
(* The value of a signed char that is assigned n: bytes_read is a char, 8  *)
(* bits wide and signed where the server is built (x86-64).                *)
SignedChar(n) == ((n + 128) % 256) - 128

Least(m, n) == IF m < n THEN m ELSE n

(* Bytes that come later than EPOLLIN was armed for are only looked at when*)
(* it is armed again: they come then.                                      *)
Arrive(n) ==
    /\ pc \in {"epoll", "read"}
    /\ ended = "no"
    /\ pending + n <= MaxPending
    /\ taken + pending + n <= MaxTaken
    /\ pending' = pending + n
    /\ UNCHANGED <<readIdx, taken, longest, ended, again, file, output, pc>>

(* The client closes its side, or its connection is reset.  What it sent   *)
(* before is still read.                                                   *)
End(how) ==
    /\ pc # "closed"
    /\ ended = "no"
    /\ ended' = how
    /\ UNCHANGED <<pending, readIdx, taken, longest, again, file, output, pc>>

(* EPOLLIN, without EPOLLRDHUP, which main would have looked at first:     *)
(* Read() is called and looks at m_read_idx_.  errno is whatever main's    *)
(* last call, for any connection, has left there.                          *)
EpollIn ==
    /\ pc = "epoll"
    /\ pending > 0
    /\ ended = "no"
    /\ again' \in BOOLEAN
    /\ UNCHANGED <<pending, readIdx, taken, longest, ended, fileAddr, statSize,
                   output>>
    /\ IF readIdx >= READ_BUFFER_SIZE THEN CloseConn
       ELSE pc' = "read" /\ UNCHANGED inherited

(* Mutant of RecvNothing: EAGAIN counts as a failure.                      *)
RecvNothingFails ==
    /\ pc = "read"
    /\ pending = 0
    /\ ended = "no"
    /\ again' = TRUE
    /\ UNCHANGED <<pending, readIdx, taken, longest, ended, fileAddr, statSize,
                   output>>
    /\ CloseConn

(* recv has nothing to return, and may be asked for 0 bytes: -1 with       *)
(* EAGAIN.                                                                 *)
RecvNothing ==
    /\ pc = "read"
    /\ pending = 0
    /\ ended = "no"
    /\ again' = TRUE
    /\ pc' = "process"
    /\ UNCHANGED <<pending, readIdx, taken, longest, ended, file, output>>

(* recv at the end of what the client sent: 0 after a FIN; -1 with another *)
(* errno than EAGAIN after a reset.                                        *)
RecvEnd ==
    /\ pc = "read"
    /\ pending = 0
    /\ ended # "no"
    /\ IF ended = "reset" THEN again' = FALSE ELSE UNCHANGED again
    /\ UNCHANGED <<pending, readIdx, taken, longest, ended, fileAddr, statSize,
                   output>>
    /\ CloseConn

(* recv returns n bytes, or 0 if it is asked for 0; what counts is the     *)
(* char.  Below 0 it would write in front of m_read_buf_: nothing is said  *)
(* of that.                                                                *)
Recv ==
    LET n == Least(pending, READ_BUFFER_SIZE - readIdx)
        bytes_read == SignedChar(n)
    IN /\ pc = "read"
       /\ readIdx >= 0
       /\ pending > 0
       /\ pending' = pending - n
       /\ taken' = taken + n
       /\ longest' = IF n > longest THEN n ELSE longest
       /\ readIdx' = IF bytes_read \in {-1, 0} THEN readIdx
                     ELSE readIdx + bytes_read
       /\ UNCHANGED <<ended, again, fileAddr, statSize, output>>
       /\ \/ /\ bytes_read = 0 \/ (bytes_read = -1 /\ ~again)
             /\ CloseConn
          \/ /\ bytes_read # 0
             /\ bytes_read = -1 => again
             /\ pc' = IF bytes_read = -1 THEN "process" ELSE "read"
             /\ UNCHANGED inherited
-----------------------------------------------------------------------------
(***************************************************************************)
(* Process(), by a worker.                                                 *)
(***************************************************************************)
(* NO_REQUEST: EPOLLIN is armed again.                                     *)
Incomplete ==
    /\ pc = "process"
    /\ pc' = "epoll"
    /\ UNCHANGED <<input, file, output>>

(* Do_Response(), or a parser that does not come so far, ends in an error: *)
(* with no stat of the file, with one, or with a mapping that failed; that *)
(* of an empty file always does.                                           *)
NoFile ==
    \/ UNCHANGED <<fileAddr, statSize>>
    \/ statSize' \in 0..MaxFile /\ UNCHANGED fileAddr
    \/ statSize' \in 0..MaxFile /\ fileAddr' = FAILED

MapFile ==
    \E size \in 1..MaxFile : statSize' = size /\ fileAddr' = size

(* Mutant of Describe: m_iv_[0].iov_base is set for a file only.           *)
DescribeKeepsPlace(count) ==
    /\ writeIdx' \in 1..MaxHead
    /\ iovCount' = count
    /\ base' = IF count = 2 THEN <<0, 0>> ELSE base
    /\ len' = IF count = 2 THEN <<writeIdx', statSize'>>
              ELSE [len EXCEPT ![1] = writeIdx']
    /\ toSend' = writeIdx' + (IF count = 2 THEN statSize' ELSE 0)
    /\ UNCHANGED <<haveSent, sent, calls>>

(* The end of Process_Write: m_iv_ describes the response.  m_write_buf_   *)
(* was empty, and no response is so long that it does not fit.  Without a  *)
(* file m_iv_[1] stays as it was.                                          *)
Describe(count) ==
    /\ writeIdx' \in 1..MaxHead
    /\ iovCount' = count
    /\ base' = IF count = 2 THEN <<0, 0>> ELSE [base EXCEPT ![1] = 0]
    /\ len' = IF count = 2 THEN <<writeIdx', statSize'>>
              ELSE [len EXCEPT ![1] = writeIdx']
    /\ toSend' = writeIdx' + (IF count = 2 THEN statSize' ELSE 0)
    /\ UNCHANGED <<haveSent, sent, calls>>

RespondError ==
    /\ pc = "process"
    /\ NoFile
    /\ Describe(1)
    /\ pc' = "out"
    /\ UNCHANGED <<input, inherited>>

RespondFile ==
    /\ pc = "process"
    /\ MapFile
    /\ inherited' = FALSE
    /\ Describe(2)
    /\ pc' = "out"
    /\ UNCHANGED input
-----------------------------------------------------------------------------
(***************************************************************************)
(* Write().                                                                *)
(***************************************************************************)
EpollOut ==
    /\ pc = "out"
    /\ ended = "no"
    /\ pc' = "write"
    /\ UNCHANGED <<input, file, output>>

Bytes(part, from, n) == [i \in 1..n |-> <<part, from + i - 1>>]

(* What m_iv_ describes to writev.                                         *)
Described ==
    Bytes("head", base[1], len[1])
        \o (IF iovCount = 2 THEN Bytes("file", base[2], len[2]) ELSE <<>>)

(* writev reports EAGAIN: Modfd asks for EPOLLOUT again.                   *)
NoRoom ==
    /\ pc = "write"
    /\ ended # "reset"
    /\ Described # <<>>
    /\ again' = TRUE
    /\ pc' = "out"
    /\ UNCHANGED <<pending, readIdx, taken, longest, ended, file, output>>

Unmap == fileAddr' = NULL

(* writev fails for another reason: the connection is reset.               *)
WritevFails ==
    /\ pc = "write"
    /\ ended = "reset"
    /\ Described # <<>>
    /\ Unmap
    /\ again' = FALSE
    /\ UNCHANGED <<pending, readIdx, taken, longest, ended, statSize, output>>
    /\ CloseConn

(* Mutant of FirstIsSent: the counter is added to behind the test.         *)
FirstIsSentBefore(n) == haveSent >= len[1]

(* m_iv_ after writev has taken n bytes.  The test compares all that was   *)
(* sent with what is left of the first vector, and the place in the file   *)
(* is counted from m_read_idx_.                                            *)
FirstIsSent(n) == haveSent + n >= len[1]

(* Mutant of Advance: the second vector is shortened by the bytes of the   *)
(* first as well.                                                          *)
AdvanceTwice(n) ==
    IF FirstIsSent(n)
    THEN /\ base' = [base EXCEPT ![2] = haveSent + n - readIdx]
         /\ len' = <<0, IF len[2] < n THEN 0 ELSE len[2] - n>>
    ELSE /\ base' = [base EXCEPT ![1] = haveSent + n]
         /\ len' = [len EXCEPT ![1] = @ - n]

Advance(n) ==
    IF FirstIsSent(n)
    THEN /\ base' = [base EXCEPT ![2] = haveSent + n - readIdx]
         /\ len' = <<0, toSend - n>>
    ELSE /\ base' = [base EXCEPT ![1] = haveSent + n]
         /\ len' = [len EXCEPT ![1] = @ - n]

(* writev takes n of the bytes described to it, at least one if there are  *)
(* any.  Of none it takes 0, whatever has become of the connection.        *)
Writev(n) ==
    /\ pc = "write"
    /\ n > 0 => ended # "reset"
    /\ n <= Len(Described)
    /\ n = 0 => Described = <<>>
    /\ sent' = sent \o SubSeq(Described, 1, n)
    /\ toSend' = toSend - n
    /\ haveSent' = haveSent + n
    /\ calls' = IF n = 0 THEN calls ELSE calls + 1
    /\ Advance(n)
    /\ pc' = IF toSend - n <= 0 THEN "sent" ELSE "write"
    /\ UNCHANGED <<input, file, writeIdx, iovCount>>

WritevSome == \E n \in 0..(MaxHead + MaxFile) : Writev(n)

(* Mutant of Finish: the file stays mapped.                                *)
FinishMapped ==
    /\ pc = "sent"
    /\ \/ /\ InitBuffers
          /\ pc' = "epoll"
          /\ UNCHANGED <<pending, ended, again, file>>
       \/ /\ UNCHANGED <<input, fileAddr, statSize, output>>
          /\ CloseConn

(* Nothing is left to send: Unmap, and the next request with keep-alive,   *)
(* the end of the connection without.                                      *)
Finish ==
    /\ pc = "sent"
    /\ Unmap
    /\ UNCHANGED statSize
    /\ \/ /\ InitBuffers
          /\ pc' = "epoll"
          /\ UNCHANGED <<pending, ended, again, inherited>>
       \/ /\ UNCHANGED <<input, output>>
          /\ CloseConn
-----------------------------------------------------------------------------
(* EPOLLRDHUP: main closes the connection, whatever it waits for.          *)
Hangup ==
    /\ pc \in {"epoll", "out"}
    /\ ended # "no"
    /\ UNCHANGED <<input, fileAddr, statSize, output>>
    /\ CloseConn

(* Init(fd, ...): the object is given to the next client.                  *)
Reuse ==
    /\ pc = "closed"
    /\ pending' = 0 /\ ended' = "no"
    /\ InitBuffers
    /\ pc' = "epoll"
    /\ UNCHANGED <<again, file>>

Next ==
    \/ \E n \in Arrivals : Arrive(n)
    \/ \E how \in {"closed", "reset"} : End(how)
    \/ EpollIn
    \/ RecvNothing
    \/ RecvEnd
    \/ Recv
    \/ Incomplete
    \/ RespondError
    \/ RespondFile
    \/ EpollOut
    \/ NoRoom
    \/ WritevFails
    \/ WritevSome
    \/ Finish
    \/ Hangup
    \/ Reuse

(* main goes on.  A client that stays reads: the socket does not stay full *)
(* for ever, so that the loop writes.                                      *)
Fairness ==
    /\ WF_vars(EpollOut \/ Hangup)
    /\ SF_vars(WritevSome)
    /\ WF_vars(WritevFails)

Spec == Init /\ [][Next]_vars
FairSpec == Spec /\ Fairness
-----------------------------------------------------------------------------
(* Every variable has its type.  In particular no count, however it is     *)
(* truncated, puts m_read_idx_ past the end of the buffer.                 *)
TypeOK ==
    /\ pending \in 0..MaxPending
    /\ readIdx \in -128..READ_BUFFER_SIZE
    /\ taken \in 0..MaxTaken /\ longest \in 0..taken
    /\ ended \in {"no", "closed", "reset"} /\ again \in BOOLEAN
    /\ fileAddr \in -1..MaxFile
    /\ statSize \in 0..MaxFile
    /\ inherited \in BOOLEAN
    /\ writeIdx \in 0..MaxHead
    /\ iovCount \in 0..2
    /\ base \in Int \X Int
    /\ len \in Nat \X Nat
    /\ toSend \in Nat /\ haveSent \in Nat /\ calls \in Nat
    /\ sent \in Seq({"head", "file"} \X Int)
    /\ pc \in {"epoll", "read", "process", "out", "write", "sent", "closed"}

(* A client whose bytes arrive at most 127 at a time is read correctly:    *)
(* m_read_idx_ is the number of its bytes, all of them in the buffer, also *)
(* after any number of requests and of earlier clients of the object.      *)
ShortReadsCounted ==
    longest <= 127 => readIdx = taken /\ taken <= READ_BUFFER_SIZE

(* Such a client is turned away before its request is answered only for    *)
(* filling the buffer, or when it has ended the connection itself.         *)
ShortReadsClosed ==
    [][pc' = "closed" /\ pc \in {"epoll", "read"} /\ longest' <= 127 =>
           taken = READ_BUFFER_SIZE \/ ended # "no"]_vars

Responding == pc \in {"out", "write", "sent"}

fileSize == IF iovCount = 2 THEN statSize ELSE 0

(* The response the client is to get: the headers, then the file.          *)
Response == Bytes("head", 0, writeIdx) \o Bytes("file", 0, fileSize)

(* Whatever writev takes, the two counters account for the whole response, *)
(* and a response with a file always has exactly the missing bytes         *)
(* described in m_iv_: it ends after Content-Length bytes and not before.  *)
CountsAgree ==
    Responding =>
        /\ toSend + haveSent = writeIdx + fileSize
        /\ Len(sent) = haveSent
        /\ iovCount = 2 => len[1] + len[2] = toSend

(* A response that the first writev takes at once, and what any first      *)
(* writev takes, is right, though Init() and Process_Write leave in m_iv_  *)
(* a part of the last response, which another client may have abandoned    *)
(* half sent.                                                              *)
FirstWriteRight ==
    Responding /\ calls <= 1 => sent = SubSeq(Response, 1, haveSent)

(* The file stays mapped while m_iv_ leads to it.  Nothing else stays      *)
(* mapped, but what a client has left behind that went in the middle of a  *)
(* response; and Unmap is given the length that was mapped.                *)
MappedWhileSent ==
    /\ Responding /\ iovCount = 2 => fileAddr = statSize /\ ~inherited
    /\ fileAddr > 0 => inherited \/ (Responding /\ fileAddr = statSize)

(* A response with a file is sent to its last byte, however writev cuts    *)
(* it, unless the client ends the connection: main's loop never spins on   *)
(* an empty m_iv_.                                                         *)
FileCompletes == pc = "out" /\ iovCount = 2 ~> pc \in {"sent", "closed"}

(* The client is sent the response: the vectors follow what was sent.      *)
SentIsResponse == sent = SubSeq(Response, 1, haveSent)

(* Read() reads all there is, in one go: it hands every byte that recv     *)
(* returned to a worker, or else the buffer is full or the client has      *)
(* ended the connection.                                                   *)
AllIsRead ==
    [][pc = "read" /\ pc' # "read" =>
           \/ pc' = "process" /\ readIdx' = taken'
           \/ taken = READ_BUFFER_SIZE
           \/ ended # "no"]_vars
=============================================================================
