----------------------------- MODULE EchoServer ------------------------------
(***************************************************************************)
(* server_thread_copy.c and its clients, client_copy.c: a server that      *)
(* gives every client a thread and every thread an element of infos[], and *)
(* clients that send a message, wait for its echo and send the next.       *)
(*                                                                         *)
(* A message is two pieces, its text and the bytes up to the terminating   *)
(* NUL: read() may return a part of what was written or more than one      *)
(* write's worth.  The thread of a client is named after the client.       *)
(***************************************************************************)
EXTENDS Integers, FiniteSetsExt, SequencesExt

CONSTANTS
    Clients,        \* the runs of client_copy
    MaxInfos,       \* the length of infos[], 128 in the code
    MaxMessages,    \* bound: the messages a client sends
    Brief,          \* bound: the clients that send one at most
    NOBODY          \* no client

ASSUME EchoAssumption ==
    /\ IsFiniteSet(Clients)
    /\ NOBODY \notin Clients
    /\ MaxInfos \in Nat \ {0}
    /\ MaxMessages \in Nat

VARIABLES
    \* the kernel
    backlog,    \* connections that accept() has not returned yet
    owner,      \* the client at the other end of each descriptor
    toServer,   \* from each client, not yet read
    toClient,   \* to each client, not yet read
    reset,      \* the clients whose end has answered with RST
    \* the server
    mpc,        \* main: "accept", or "search" for an element of infos[]
    cfd,        \* main's cfd
    infos,      \* infos[i].cfd
    slot,       \* the element each client's thread was given, 0 for none
    tpc,        \* where each thread is
    recvBuf,    \* the recvBuf of each thread
    exited,     \* the process has ended
    \* the clients
    cpc,        \* where each client is; "left": quietly, or "killed"
    sent,       \* the number of messages each client has sent
    got,        \* what each client has read
    halved,     \* the clients that have read an echo in two parts
    cut         \* the clients a message of which was read in two parts

kernel == <<backlog, owner, toServer, toClient, reset>>
main == <<mpc, cfd, infos, slot>>
threads == <<tpc, recvBuf>>
clients == <<cpc, sent, got, halved>>
vars == <<kernel, main, threads, exited, clients, cut>>

Fds == 1..Cardinality(Clients)

Piece(c, m, end) == [of |-> c, no |-> m, end |-> end]
Message(c, m) == <<Piece(c, m, FALSE), Piece(c, m, TRUE)>>

(* Bytes of a stack that are no part of any message.                       *)
Junk == Piece(NOBODY, 0, TRUE)

Init ==
    /\ backlog = <<>>
    /\ owner = [fd \in Fds |-> NOBODY]
    /\ toServer = [c \in Clients |-> <<>>]
    /\ toClient = [c \in Clients |-> <<>>]
    /\ reset = {}
    /\ mpc = "accept"
    /\ cfd = -1
    /\ infos = [i \in 1..MaxInfos |-> -1]
    /\ slot = [c \in Clients |-> 0]
    /\ tpc = [c \in Clients |-> "none"]
    /\ recvBuf = [c \in Clients |-> <<Junk>>]
    /\ exited = FALSE
    /\ cpc = [c \in Clients |-> "start"]
    /\ sent = [c \in Clients |-> 0]
    /\ got = [c \in Clients |-> <<>>]
    /\ halved = {}
    /\ cut = {}
-----------------------------------------------------------------------------
(***************************************************************************)
(* client_copy.c.                                                          *)
(***************************************************************************)
(* The connection is made before the server accepts it.                    *)
Connect(c) ==
    /\ ~exited
    /\ cpc[c] = "start"
    /\ cpc' = [cpc EXCEPT ![c] = "send"]
    /\ backlog' = Append(backlog, c)
    /\ UNCHANGED <<owner, toServer, toClient, reset, main, threads, exited,
                   sent, got, halved, cut>>

Send(c) ==
    /\ ~exited
    /\ cpc[c] = "send"
    /\ sent[c] < MaxMessages
    /\ c \in Brief => sent[c] = 0
    /\ sent' = [sent EXCEPT ![c] = @ + 1]
    /\ toServer' = [toServer EXCEPT ![c] = @ \o Message(c, sent[c] + 1)]
    /\ cpc' = [cpc EXCEPT ![c] = "read"]
    /\ UNCHANGED <<backlog, owner, toClient, reset, main, threads, exited, got,
                   halved, cut>>

Receive(c, n) ==
    /\ cpc[c] = "read"
    /\ n \in 1..Len(toClient[c])
    /\ got' = [got EXCEPT ![c] = @ \o SubSeq(toClient[c], 1, n)]
    /\ toClient' = [toClient EXCEPT ![c] = SubSeq(@, n + 1, Len(@))]
    /\ cpc' = [cpc EXCEPT ![c] = "send"]
    /\ halved' = IF toClient[c][n].end THEN halved ELSE halved \cup {c}
    /\ UNCHANGED <<backlog, owner, toServer, reset, main, threads, exited,
                   sent, cut>>

(* read() returns 0, or an error: the server has ended.                    *)
ServerGone(c) ==
    /\ exited
    /\ cpc[c] = "read"
    /\ toClient[c] = <<>>
    /\ cpc' = [cpc EXCEPT ![c] = "left"]
    /\ UNCHANGED <<kernel, main, threads, exited, sent, got, halved, cut>>

(* Somebody ends the client, which has no end of its own.  Quietly: while  *)
(* it sleeps and all of its echoes have come.  The kernel sends FIN, or    *)
(* RST if there is input that was not read.                                *)
Quiet(c) == cpc[c] = "send" /\ Len(got[c]) = 2 * sent[c] /\ c \notin cut

Leave(c) ==
    /\ cpc[c] \in {"send", "read"}
    /\ cpc' = [cpc EXCEPT ![c] = IF Quiet(c) THEN "left" ELSE "killed"]
    /\ reset' = IF toClient[c] # <<>> THEN reset \cup {c} ELSE reset
    /\ UNCHANGED <<backlog, owner, toServer, toClient, main, threads, exited,
                   sent, got, halved, cut>>

Gone(c) == cpc[c] \in {"left", "killed"}
-----------------------------------------------------------------------------
(***************************************************************************)
(* main.                                                                   *)
(***************************************************************************)
(* accept() returns the lowest descriptor that is free.                    *)
Accept(fd) ==
    /\ ~exited
    /\ mpc = "accept"
    /\ backlog # <<>>
    /\ owner[fd] = NOBODY
    /\ \A lower \in 1..(fd - 1) : owner[lower] # NOBODY
    /\ owner' = [owner EXCEPT ![fd] = Head(backlog)]
    /\ backlog' = Tail(backlog)
    /\ cfd' = fd
    /\ mpc' = "search"
    /\ UNCHANGED <<toServer, toClient, reset, infos, slot, threads, exited,
                   clients, cut>>

Free == {i \in 1..MaxInfos : infos[i] = -1}

(* recvBuf is not initialised.  The stack may be new, or that of a thread  *)
(* that has ended, with what is left there of another client's messages.   *)
Leftovers == {<<Junk>>} \cup {recvBuf[d] : d \in {e \in Clients : tpc[e] = "done"}}

(* Mutant of CreateThread: only the first element is looked at.            *)
CreateThreadFirst(i) ==
    /\ ~exited
    /\ mpc = "search"
    /\ i = 1 /\ infos[i] = -1
    /\ infos' = [infos EXCEPT ![i] = cfd]
    /\ slot' = [slot EXCEPT ![owner[cfd]] = i]
    /\ tpc' = [tpc EXCEPT ![owner[cfd]] = "read"]
    /\ \E old \in Leftovers : recvBuf' = [recvBuf EXCEPT ![owner[cfd]] = old]
    /\ mpc' = "accept"
    /\ UNCHANGED <<kernel, cfd, exited, clients, cut>>

(* The first free element of infos[] is filled in and a thread created.    *)
(* With none free main sleeps and looks again, for ever.                   *)
CreateThread(i) ==
    /\ ~exited
    /\ mpc = "search"
    /\ i \in Free
    /\ \A j \in Free : i <= j
    /\ infos' = [infos EXCEPT ![i] = cfd]
    /\ slot' = [slot EXCEPT ![owner[cfd]] = i]
    /\ tpc' = [tpc EXCEPT ![owner[cfd]] = "read"]
    /\ \E old \in Leftovers : recvBuf' = [recvBuf EXCEPT ![owner[cfd]] = old]
    /\ mpc' = "accept"
    /\ UNCHANGED <<kernel, cfd, exited, clients, cut>>
-----------------------------------------------------------------------------
(***************************************************************************)
(* working(), the thread of c.                                             *)
(***************************************************************************)
(* The client at the other end of pinfo->cfd.                              *)
Peer(c) ==
    LET fd == infos[slot[c]] IN IF fd = -1 THEN NOBODY ELSE owner[fd]

ThreadAt(c, where) ==
    /\ ~exited
    /\ tpc[c] = where

(* read() returns n pieces, over what recvBuf held before.                 *)
ThreadRead(c, n) ==
    LET input == toServer[Peer(c)]
    IN /\ ThreadAt(c, "read")
       /\ Peer(c) # NOBODY
       /\ n \in 1..Len(input)
       /\ recvBuf' = [recvBuf EXCEPT ![c] = SubSeq(input, 1, n)
                                              \o SubSeq(@, n + 1, Len(@))]
       /\ toServer' = [toServer EXCEPT ![Peer(c)] =
                                            SubSeq(@, n + 1, Len(@))]
       /\ tpc' = [tpc EXCEPT ![c] = "write"]
       /\ cut' = IF input[n].end THEN cut ELSE cut \cup {Peer(c)}
       /\ UNCHANGED <<backlog, owner, toClient, reset, main, exited, clients>>

EndOfInput(c) == Peer(c) # NOBODY /\ toServer[Peer(c)] = <<>> /\ Gone(Peer(c))

(* Mutant of ThreadEnd: the element is given back before close().          *)
ThreadEndFrees(c) ==
    /\ ThreadAt(c, "read")
    /\ EndOfInput(c)
    /\ tpc' = [tpc EXCEPT ![c] = "close"]
    /\ infos' = [infos EXCEPT ![slot[c]] = -1]
    /\ UNCHANGED <<kernel, mpc, cfd, slot, recvBuf, exited, clients, cut>>

(* read() returns 0.                                                       *)
ThreadEnd(c) ==
    /\ ThreadAt(c, "read")
    /\ EndOfInput(c)
    /\ tpc' = [tpc EXCEPT ![c] = "close"]
    /\ UNCHANGED <<kernel, main, recvBuf, exited, clients, cut>>

(* Mutant of ThreadFails: 0 is taken for a failure.                        *)
ThreadFailsAtEnd(c) ==
    /\ ThreadAt(c, "read")
    /\ EndOfInput(c)
    /\ exited' = TRUE
    /\ UNCHANGED <<kernel, main, threads, clients, cut>>

(* read() returns -1, the answer to a RST unless FIN came before it:       *)
(* exit(-1), which is the end of the whole server.                         *)
ThreadFails(c) ==
    /\ ThreadAt(c, "read")
    /\ EndOfInput(c)
    /\ Peer(c) \in reset
    /\ exited' = TRUE
    /\ UNCHANGED <<kernel, main, threads, clients, cut>>

(* Mutant of Echo: the NUL is not sent.                                    *)
EchoText(buf) == SelectSeq(buf, LAMBDA p : ~p.end)

(* The first strlen(recvBuf) + 1 bytes.  Nothing ends the string that is   *)
(* read, so strlen may go on into what the buffer held before.             *)
Echo(buf) ==
    LET ends == {i \in DOMAIN buf : buf[i].end}
    IN IF ends = {} THEN Append(buf, Junk) ELSE SubSeq(buf, 1, Min(ends))

(* write(), whose result nobody looks at.  The end of a client that is gone*)
(* answers RST; once that has come a write raises SIGPIPE, which nobody    *)
(* handles.                                                                *)
ThreadWrite(c) ==
    LET p == Peer(c)
    IN /\ ThreadAt(c, "write")
       /\ p # NOBODY
       /\ tpc' = [tpc EXCEPT ![c] = "read"]
       /\ toClient' = IF Gone(p) THEN toClient
                      ELSE [toClient EXCEPT ![p] = @ \o Echo(recvBuf[c])]
       /\ reset' = IF Gone(p) THEN reset \cup {p} ELSE reset
       /\ exited' \in {FALSE, (p \in reset)}
       /\ UNCHANGED <<backlog, owner, toServer, main, recvBuf, clients, cut>>

(* Mutant of ThreadClose: the element is marked with 0.                    *)
ThreadCloseZero(c) ==
    /\ ThreadAt(c, "close")
    /\ tpc' = [tpc EXCEPT ![c] = "done"]
    /\ owner' = [owner EXCEPT ![infos[slot[c]]] = NOBODY]
    /\ infos' = [infos EXCEPT ![slot[c]] = 0]
    /\ UNCHANGED <<backlog, toServer, toClient, reset, mpc, cfd, slot, recvBuf,
                   exited, clients, cut>>

(* close(): infos[] keeps the number, so the element is never free again.  *)
ThreadClose(c) ==
    LET fd == infos[slot[c]]
    IN /\ ThreadAt(c, "close")
       /\ tpc' = [tpc EXCEPT ![c] = "done"]
       /\ owner' = IF fd = -1 THEN owner ELSE [owner EXCEPT ![fd] = NOBODY]
       /\ UNCHANGED <<backlog, toServer, toClient, reset, main, recvBuf,
                      exited, clients, cut>>

Reading(c) == \E n \in 1..(2 * MaxMessages) : Receive(c, n)

Client(c) ==
    \/ Connect(c)
    \/ Send(c)
    \/ Reading(c)
    \/ ServerGone(c)
    \/ Leave(c)

Main ==
    \/ \E fd \in Fds : Accept(fd)
    \/ \E i \in 1..MaxInfos : CreateThread(i)

Thread(c) ==
    \/ \E n \in 1..(2 * MaxMessages) : ThreadRead(c, n)
    \/ ThreadEnd(c)
    \/ ThreadFails(c)
    \/ ThreadWrite(c)
    \/ ThreadClose(c)

Next ==
    \/ \E c \in Clients : Client(c)
    \/ Main
    \/ \E c \in Clients : Thread(c)

(* main and the threads go on while they can, and a client reads what it   *)
(* waits for.                                                              *)
Fairness ==
    /\ WF_vars(Main)
    /\ \A c \in Clients : /\ WF_vars(Thread(c))
                          /\ WF_vars(Reading(c))
                          /\ WF_vars(ServerGone(c))

Spec == Init /\ [][Next]_vars
FairSpec == Spec /\ Fairness
-----------------------------------------------------------------------------
Pieces == [of : Clients \cup {NOBODY}, no : 0..MaxMessages, end : BOOLEAN]

(* Every variable has its type.                                            *)
TypeOK ==
    /\ backlog \in Seq(Clients)
    /\ owner \in [Fds -> Clients \cup {NOBODY}]
    /\ toServer \in [Clients -> Seq(Pieces)]
    /\ toClient \in [Clients -> Seq(Pieces)]
    /\ reset \subseteq Clients
    /\ mpc \in {"accept", "search"}
    /\ cfd \in Fds \cup {-1}
    /\ infos \in [1..MaxInfos -> Fds \cup {-1}]
    /\ slot \in [Clients -> 0..MaxInfos]
    /\ tpc \in [Clients -> {"none", "read", "write", "close", "done"}]
    /\ recvBuf \in [Clients -> Seq(Pieces)]
    /\ exited \in BOOLEAN
    /\ cpc \in [Clients -> {"start", "send", "read", "left", "killed"}]
    /\ sent \in [Clients -> 0..MaxMessages]
    /\ got \in [Clients -> Seq(Pieces)]
    /\ halved \subseteq Clients /\ cut \subseteq Clients

Running(c) == tpc[c] \in {"read", "write", "close"}

(* A thread's pinfo->cfd is the descriptor of its own client as long as it *)
(* runs, though descriptors are used again and infos[] keeps the numbers   *)
(* of closed ones: no thread reads, answers or closes another's connection.*)
ThreadsApart == \A c \in Clients : Running(c) => Peer(c) = c

(* Texts and their NULs in turn, each message of c once, in order.         *)
InOrder(s, c) ==
    /\ \A i \in DOMAIN s : s[i].of = c /\ (s[i].end <=> i % 2 = 0)
    /\ \A i, j \in DOMAIN s :
           i < j => \/ s[i].no < s[j].no
                    \/ s[i].no = s[j].no /\ i % 2 = 1 /\ j = i + 1

(* Until the server reads a message of its in two parts, a client reads    *)
(* echoes of its own messages only, each once and in order, whatever the   *)
(* stack of its thread still holds of others'; and until it reads an echo  *)
(* in two parts itself, after which it sends a message too early, it       *)
(* misses none of them.                                                    *)
EchoesOwn ==
    \A c \in Clients :
        /\ c \notin cut => InOrder(got[c], c)
        /\ c \notin cut \cup halved =>
               \A i \in DOMAIN got[c] : got[c][i].no = (i + 1) \div 2

(* exit() and SIGPIPE in one thread end the server for all clients: the    *)
(* thread that does so met the RST of its own client, and that client went *)
(* while an echo was missing, or had a message that was read in two parts. *)
QuietLeavesHarmless ==
    exited => \E c \in reset : tpc[c] = "read" /\ cpc[c] = "killed"

(* A client that waits for an echo reads something, or finds the server    *)
(* gone, unless infos[] is used up.                                        *)
EveryEchoed ==
    \A c \in Clients :
        cpc[c] = "read" ~> cpc[c] # "read" \/ (slot[c] = 0 /\ Free = {})

(* What README.md says of infos[]: its length is the number of threads     *)
(* that can run at the same time.                                          *)
RoomWhileFewRun ==
    mpc = "search" /\ Cardinality({c \in Clients : Running(c)}) < MaxInfos
        => Free # {}
=============================================================================
