----------------------------- MODULE WebServer ------------------------------
(***************************************************************************)
(* The connection protocol of webserver/: the event loop of main.cpp, the  *)
(* HttpConn objects of users[], the EPOLLONESHOT registrations that pass a *)
(* connection between the loop and the pool's threads, and the clients.    *)
(*                                                                         *)
(* users[] is indexed by descriptor, so a descriptor f stands for both the *)
(* client socket f and the object users[f].  Requests are opaque: what the *)
(* parser tells apart is whether a complete one has been read, whether it  *)
(* maps a file and whether it keeps the connection alive.  A response is   *)
(* RESPONSE units long.  Write() sends all of it or, if it includes a      *)
(* file, may run into EAGAIN part of the way; a response that is only the  *)
(* write buffer, a few hundred bytes, fits in a socket that has room.      *)
(*                                                                         *)
(* A handler of the loop is one step: between two calls of epoll_wait main *)
(* is the only thread that touches the objects of its batch, which is what *)
(* SingleOwner below establishes.  A worker takes, processes and re-arms   *)
(* in three steps.                                                         *)
(***************************************************************************)
EXTENDS Integers, Sequences, FiniteSets

CONSTANTS
    Fds,                \* the descriptors accept() can return
    Workers,            \* the threads of the pool
    Requests,           \* complete requests a client may send
    FileRequests,       \* those for which Do_Response maps a file
    KeepAliveRequests,  \* those that set m_linger_
    MAX_FD,             \* main.cpp: the limit on clients
    MAX_EVENT_NUMBER,   \* main.cpp: the most events one epoll_wait returns
    MAX_REQUESTS,       \* the pool's m_max_requests_
    BACKLOG,            \* listen(): the length of the accept queue
    RESPONSE,           \* the length of a response
    WRITE_ROOM,         \* the responses m_write_buf_ has room for
    MayTerminate,       \* whether the process may receive SIGTERM
    AddfdMayFail,       \* whether epoll_ctl(EPOLL_CTL_ADD) may fail
    NULL                \* no descriptor

ASSUME ServerAssumption ==
    /\ IsFiniteSet(Fds)
    /\ Workers # {}
    /\ FileRequests \subseteq Requests
    /\ KeepAliveRequests \subseteq Requests
    /\ MAX_FD \in Nat
    /\ MAX_EVENT_NUMBER \in Nat \ {0} /\ MAX_REQUESTS \in Nat \ {0}
    /\ BACKLOG \in Nat \ {0} /\ RESPONSE \in Nat \ {0}
    /\ WRITE_ROOM \in Nat \ {0}
    /\ MayTerminate \in BOOLEAN
    /\ AddfdMayFail \in BOOLEAN
    /\ NULL \notin Fds
    /\ "none" \notin Requests /\ "part" \notin Requests

VARIABLES
    \* the kernel
    backlog,      \* the number of connections waiting in the accept queue
    acceptEdge,   \* the edge-triggered listenfd is on epoll's ready list
    openFds,      \* the client descriptors that are open
    interest,     \* what epoll watches of each descriptor
    rx,           \* what the socket's receive buffer holds
    peerGone,     \* the sockets whose client has sent FIN or RST
    sndFull,      \* the sockets whose send buffer has no room
    sigEdge,      \* SIGTERM is in the pipe, pipefd[0] is on the ready list
    \* main
    mpc,          \* where main is
    batch,        \* events[]: the event still to handle for each descriptor
    listenEvent,  \* events[] still holds one for listenfd
    sigEvent,     \* events[] still holds one for pipefd[0]
    stopServer,   \* stop_server
    userCount,    \* HttpConn::m_user_count_
    \* the objects users[f]
    attached,     \* those with m_sockfd_ # -1
    timer,        \* those with m_timer_ # nullptr, linked in timer_list
    buf,          \* what m_read_buf_ holds
    writeIdx,     \* the number of responses in m_write_buf_
    toSend,       \* m_bytes_to_send_
    mapped,       \* those with m_file_address_ # nullptr
    \* the pool
    queue,        \* m_workqueue_
    job,          \* the object each worker processes, or NULL
    stage         \* where each worker is

kernelVars == <<backlog, acceptEdge, openFds, interest, rx, peerGone, sndFull>>
signalVars == <<sigEdge, sigEvent, stopServer>>
connVars   == <<attached, timer, buf, writeIdx, toSend, mapped>>
poolVars   == <<queue, job, stage>>
vars == <<kernelVars, signalVars, mpc, batch, listenEvent, userCount,
          connVars, poolVars>>

Input == {"none", "part"} \cup Requests

Init ==
    /\ backlog = 0
    /\ acceptEdge = FALSE
    /\ openFds = {}
    /\ interest = [f \in Fds |-> "none"]
    /\ rx = [f \in Fds |-> "none"]
    /\ peerGone = {}
    /\ sndFull = {}
    /\ sigEdge = FALSE
    /\ mpc = "wait"
    /\ batch = [f \in Fds |-> "none"]
    /\ listenEvent = FALSE
    /\ sigEvent = FALSE
    /\ stopServer = FALSE
    /\ userCount = 0
    /\ attached = {}
    /\ timer = {}
    /\ buf = [f \in Fds |-> "none"]
    /\ writeIdx = [f \in Fds |-> 0]
    /\ toSend = [f \in Fds |-> 0]
    /\ mapped = {}
    /\ queue = <<>>
    /\ job = [w \in Workers |-> NULL]
    /\ stage = [w \in Workers |-> "idle"]
-----------------------------------------------------------------------------
(* epoll reports f once; then EPOLLONESHOT leaves it registered but "off"  *)
(* until Modfd watches it again.                                           *)
Interest == {"none", "off", "in", "out"}
Registered(f) == interest[f] # "none"
Armed(f) == interest[f] \in {"in", "out"}

(* Mutant of EventOf: a hangup is reported of a descriptor that is off.    *)
EventOfAnytime(f) ==
    IF Registered(f) /\ f \in peerGone THEN "hup"
    ELSE IF interest[f] = "in" /\ rx[f] # "none" THEN "in"
    ELSE IF interest[f] = "out" /\ f \notin sndFull THEN "out"
    ELSE "none"

(* The event epoll_wait would report now, classified as the if-else chain  *)
(* of main classifies it: EPOLLRDHUP, EPOLLHUP and EPOLLERR come first.    *)
EventOf(f) ==
    IF ~Armed(f) THEN "none"
    ELSE IF f \in peerGone THEN "hup"
    ELSE IF interest[f] = "in" /\ rx[f] # "none" THEN "in"
    ELSE IF interest[f] = "out" /\ f \notin sndFull THEN "out"
    ELSE "none"

Ready == {f \in Fds : EventOf(f) # "none"}

(* main is in its loop: epollfd, listenfd and the pipe are open.           *)
Serving == mpc \in {"wait", "dispatch"}

(* users[] has not been deleted.                                           *)
UsersLive == Serving \/ mpc = "closed"

(* The client has sent a complete request and not yet got all of the       *)
(* response.  Clients here do not pipeline: they wait for it.              *)
Outstanding(f) == Registered(f) /\ (rx[f] \in Requests \/ buf[f] \in Requests)

(***************************************************************************)
(* The clients and the network.                                            *)
(***************************************************************************)
Connect ==
    /\ Serving
    /\ backlog < BACKLOG
    /\ backlog' = backlog + 1
    /\ acceptEdge' = TRUE
    /\ UNCHANGED <<openFds, interest, rx, peerGone, sndFull, signalVars, mpc,
                   batch, listenEvent, userCount, connVars, poolVars>>

(* Some bytes arrive: a part of a request or what completes it.            *)
ClientSend(f, input) ==
    /\ Serving
    /\ f \in openFds \ peerGone
    /\ ~Outstanding(f)
    /\ input # rx[f]
    /\ rx' = [rx EXCEPT ![f] = input]
    /\ UNCHANGED <<backlog, acceptEdge, openFds, interest, peerGone, sndFull,
                   signalVars, mpc, batch, listenEvent, userCount,
                   connVars, poolVars>>

(* The client reads, which makes room in the send buffer.                  *)
ClientRead(f) ==
    /\ Serving
    /\ f \in sndFull
    /\ sndFull' = sndFull \ {f}
    /\ UNCHANGED <<backlog, acceptEdge, openFds, interest, rx, peerGone,
                   signalVars, mpc, batch, listenEvent, userCount,
                   connVars, poolVars>>

(* The client closes, shuts down its writing side or disappears.           *)
ClientLeave(f) ==
    /\ Serving
    /\ f \in openFds \ peerGone
    /\ peerGone' = peerGone \cup {f}
    /\ UNCHANGED <<backlog, acceptEdge, openFds, interest, rx, sndFull,
                   signalVars, mpc, batch, listenEvent, userCount,
                   connVars, poolVars>>

(* SIGTERM: sig_handler writes it into the pipe.  SIGALRM is not here: the *)
(* loop reads it and, comparing where it should assign, does nothing.      *)
Terminate ==
    /\ MayTerminate
    /\ Serving
    /\ sigEdge' = TRUE
    /\ UNCHANGED <<kernelVars, sigEvent, stopServer, mpc, batch, listenEvent,
                   userCount, connVars, poolVars>>
-----------------------------------------------------------------------------
(***************************************************************************)
(* What the handlers share.                                                *)
(***************************************************************************)
(* Mutant of ResetBuffers: m_write_idx_ is not reset.                      *)
ResetBuffersShort(f) ==
    /\ buf' = [buf EXCEPT ![f] = "none"]
    /\ toSend' = [toSend EXCEPT ![f] = 0]
    /\ UNCHANGED writeIdx

(* HttpConn::Init(): the buffers of users[f] start anew.                   *)
ResetBuffers(f) ==
    /\ buf' = [buf EXCEPT ![f] = "none"]
    /\ writeIdx' = [writeIdx EXCEPT ![f] = 0]
    /\ toSend' = [toSend EXCEPT ![f] = 0]

(* Mutant of CloseConn: the timer and the count are left.                  *)
CloseConnShort(f) ==
    /\ IF f \in attached /\ Registered(f)
       THEN /\ interest' = [interest EXCEPT ![f] = "none"]
            /\ openFds' = openFds \ {f}
            /\ rx' = [rx EXCEPT ![f] = "none"]
            /\ peerGone' = peerGone \ {f}
            /\ sndFull' = sndFull \ {f}
            /\ attached' = attached \ {f}
       ELSE UNCHANGED <<interest, openFds, rx, peerGone, sndFull, attached>>
    /\ UNCHANGED <<timer, userCount>>

(* CloseConn(): buffers and mapping are left as they are.  Without a       *)
(* descriptor, or with one epoll does not know, it changes nothing.        *)
CloseConn(f) ==
    IF f \in attached /\ Registered(f)
    THEN /\ interest' = [interest EXCEPT ![f] = "none"]
         /\ openFds' = openFds \ {f}
         /\ rx' = [rx EXCEPT ![f] = "none"]
         /\ peerGone' = peerGone \ {f}
         /\ sndFull' = sndFull \ {f}
         /\ attached' = attached \ {f}
         /\ timer' = timer \ {f}
         /\ userCount' = userCount - 1
    ELSE UNCHANGED <<interest, openFds, rx, peerGone, sndFull, attached,
                     timer, userCount>>

(* Modfd: epoll watches f again, for one event.                            *)
Modfd(f, event) == interest' = [interest EXCEPT ![f] = event]

(* The loop over events[] comes to the one of f.                           *)
Dispatch(f, event) ==
    /\ mpc = "dispatch"
    /\ batch[f] = event
    /\ batch' = [batch EXCEPT ![f] = "none"]

(* Append: the guard of threadpool.h is size() > m_max_requests_.          *)
QueueFull == Len(queue) > MAX_REQUESTS

-----------------------------------------------------------------------------
(***************************************************************************)
(* main: epoll_wait and the body of the loop over events[].                *)
(***************************************************************************)
Least(m, n) == IF m < n THEN m ELSE n
Bit(b) == IF b THEN 1 ELSE 0

(* epoll_wait returns the ready descriptors, or MAX_EVENT_NUMBER of them.  *)
(* A oneshot descriptor is off from here on; an edge is reported once.     *)
EpollWait ==
    /\ mpc = "wait"
    /\ \E S \in SUBSET Ready, l \in BOOLEAN, s \in BOOLEAN :
        LET ready == Cardinality(Ready) + Bit(acceptEdge) + Bit(sigEdge)
        IN /\ ready > 0
           /\ (l => acceptEdge) /\ (s => sigEdge)
           /\ Cardinality(S) + Bit(l) + Bit(s) = Least(MAX_EVENT_NUMBER, ready)
           /\ batch' = [f \in Fds |-> IF f \in S THEN EventOf(f) ELSE "none"]
           /\ interest' = [f \in Fds |-> IF f \in S THEN "off" ELSE interest[f]]
           /\ listenEvent' = l
           /\ acceptEdge' = (acceptEdge /\ ~l)
           /\ sigEvent' = s
           /\ sigEdge' = (sigEdge /\ ~s)
    /\ mpc' = "dispatch"
    /\ UNCHANGED <<backlog, openFds, rx, peerGone, sndFull, stopServer,
                   userCount, connVars, poolVars>>

DispatchListen ==
    /\ mpc = "dispatch"
    /\ listenEvent
    /\ listenEvent' = FALSE

OverLimit == userCount > MAX_FD

(* One accept() per event.  The timer is in the list and users[f] has its  *)
(* descriptor before Addfd is tried; when that fails nothing is undone.    *)
AcceptConn(f, added) ==
    /\ DispatchListen
    /\ backlog > 0
    /\ f \notin openFds
    /\ ~OverLimit
    /\ added \/ AddfdMayFail
    /\ backlog' = backlog - 1
    /\ openFds' = openFds \cup {f}
    /\ attached' = attached \cup {f}
    /\ timer' = timer \cup {f}
    /\ IF added
       THEN /\ interest' = [interest EXCEPT ![f] = "in"]
            /\ userCount' = userCount + 1
            /\ ResetBuffers(f)
       ELSE UNCHANGED <<interest, userCount, buf, writeIdx, toSend>>
    /\ UNCHANGED <<acceptEdge, rx, peerGone, sndFull, signalVars, mpc, batch,
                   mapped, poolVars>>

(* Too many clients: the new one is closed at once.                        *)
AcceptOverLimit ==
    /\ DispatchListen
    /\ backlog > 0
    /\ openFds # Fds
    /\ OverLimit
    /\ backlog' = backlog - 1
    /\ UNCHANGED <<acceptEdge, openFds, interest, rx, peerGone, sndFull,
                   signalVars, mpc, batch, userCount, connVars, poolVars>>

(* accept() has no descriptor to return: the event is used up.             *)
AcceptFails ==
    /\ DispatchListen
    /\ openFds = Fds
    /\ UNCHANGED <<kernelVars, signalVars, mpc, batch, userCount, connVars,
                   poolVars>>

(* Mutant of HandleHup: the event is read and forgotten.                   *)
HandleHupNot(f) ==
    /\ Dispatch(f, "hup")
    /\ UNCHANGED <<kernelVars, signalVars, mpc, listenEvent, userCount,
                   connVars, poolVars>>

HandleHup(f) ==
    /\ Dispatch(f, "hup")
    /\ CloseConn(f)
    /\ UNCHANGED <<backlog, acceptEdge, signalVars, mpc, listenEvent, buf,
                   writeIdx, toSend, mapped, poolVars>>

(* Read() up to EAGAIN, the timer's new deadline, and Append, whose result *)
(* nobody looks at: with the queue full the object is not queued.          *)
ReadOk(f) ==
    /\ Dispatch(f, "in")
    /\ f \notin peerGone
    /\ buf' = [buf EXCEPT ![f] = rx[f]]
    /\ rx' = [rx EXCEPT ![f] = "none"]
    /\ queue' = IF QueueFull THEN queue ELSE Append(queue, f)
    /\ UNCHANGED <<backlog, acceptEdge, openFds, interest, peerGone, sndFull,
                   signalVars, mpc, listenEvent, userCount, attached, timer,
                   writeIdx, toSend, mapped, job, stage>>

(* Read() returns false: end of file, a reset, a full buffer.              *)
ReadFails(f) ==
    /\ Dispatch(f, "in")
    /\ CloseConn(f)
    /\ UNCHANGED <<backlog, acceptEdge, signalVars, mpc, listenEvent, buf,
                   writeIdx, toSend, mapped, poolVars>>

(* Write() with nothing to send resets the buffers and returns true; its   *)
(* loop around Modfd never runs, so the descriptor stays off.  Otherwise   *)
(* all of the response goes out, and m_linger_ decides what comes next.    *)
WriteAll(f) ==
    /\ Dispatch(f, "out")
    /\ IF toSend[f] = 0
       THEN /\ ResetBuffers(f)
            /\ UNCHANGED <<kernelVars, userCount, attached, timer, mapped>>
       ELSE /\ mapped' = mapped \ {f}
            /\ UNCHANGED <<backlog, acceptEdge>>
            /\ IF buf[f] \in KeepAliveRequests
               THEN /\ Modfd(f, "in")
                    /\ ResetBuffers(f)
                    /\ UNCHANGED <<openFds, rx, peerGone, sndFull, userCount,
                                   attached, timer>>
               ELSE /\ CloseConn(f)
                    /\ UNCHANGED <<buf, writeIdx, toSend>>
    /\ UNCHANGED <<signalVars, mpc, listenEvent, poolVars>>

(* Mutants of WritePart: more is counted than there was to send; EPOLLOUT  *)
(* is not asked for; Init() is called as if the response were complete.    *)
WritePartTooMuch(f, n) ==
    /\ Dispatch(f, "out")
    /\ f \in mapped
    /\ toSend' = [toSend EXCEPT ![f] = @ - n]
    /\ sndFull' = sndFull \cup {f}
    /\ Modfd(f, "out")
    /\ UNCHANGED <<backlog, acceptEdge, openFds, rx, peerGone, signalVars, mpc,
                   listenEvent, userCount, attached, timer, buf, writeIdx,
                   mapped, poolVars>>

WritePartOff(f, n) ==
    /\ Dispatch(f, "out")
    /\ n < toSend[f]
    /\ f \in mapped
    /\ toSend' = [toSend EXCEPT ![f] = @ - n]
    /\ sndFull' = sndFull \cup {f}
    /\ UNCHANGED <<backlog, acceptEdge, openFds, interest, rx, peerGone,
                   signalVars, mpc, listenEvent, userCount, attached, timer,
                   buf, writeIdx, mapped, poolVars>>

WritePartInit(f, n) ==
    /\ Dispatch(f, "out")
    /\ n < toSend[f]
    /\ f \in mapped
    /\ ResetBuffers(f)
    /\ sndFull' = sndFull \cup {f}
    /\ Modfd(f, "out")
    /\ UNCHANGED <<backlog, acceptEdge, openFds, rx, peerGone, signalVars, mpc,
                   listenEvent, userCount, attached, timer, mapped, poolVars>>

(* The socket was writable: n units go out, then writev reports EAGAIN.    *)
WritePart(f, n) ==
    /\ Dispatch(f, "out")
    /\ n < toSend[f]
    /\ f \in mapped
    /\ toSend' = [toSend EXCEPT ![f] = @ - n]
    /\ sndFull' = sndFull \cup {f}
    /\ Modfd(f, "out")
    /\ UNCHANGED <<backlog, acceptEdge, openFds, rx, peerGone, signalVars, mpc,
                   listenEvent, userCount, attached, timer, buf, writeIdx,
                   mapped, poolVars>>

(* writev fails: the client is gone.                                       *)
WriteFails(f) ==
    /\ Dispatch(f, "out")
    /\ toSend[f] > 0
    /\ f \in peerGone
    /\ mapped' = mapped \ {f}
    /\ CloseConn(f)
    /\ UNCHANGED <<backlog, acceptEdge, signalVars, mpc, listenEvent, buf,
                   writeIdx, toSend, poolVars>>

HandleSignal ==
    /\ mpc = "dispatch"
    /\ sigEvent
    /\ sigEvent' = FALSE
    /\ stopServer' = TRUE
    /\ UNCHANGED <<kernelVars, sigEdge, mpc, batch, listenEvent, userCount,
                   connVars, poolVars>>

(* events[] is done with: while (!stop_server).  Leaving the loop closes   *)
(* epollfd, with all its registrations, listenfd, with the connections     *)
(* that wait in its queue, and the pipe.                                   *)
EndBatch ==
    /\ mpc = "dispatch"
    /\ \A f \in Fds : batch[f] = "none"
    /\ ~listenEvent /\ ~sigEvent
    /\ IF stopServer
       THEN /\ mpc' = "closed"
            /\ interest' = [f \in Fds |-> "none"]
            /\ backlog' = 0
            /\ acceptEdge' = FALSE
            /\ sigEdge' = FALSE
       ELSE /\ mpc' = "wait"
            /\ UNCHANGED <<interest, backlog, acceptEdge, sigEdge>>
    /\ UNCHANGED <<openFds, rx, peerGone, sndFull, sigEvent, stopServer, batch,
                   listenEvent, userCount, connVars, poolVars>>

(* delete [] users: the objects are freed, whoever holds them.  ~HttpConn  *)
(* does nothing: the sockets stay open and the timers, which point to the  *)
(* objects, linked.                                                        *)
DeleteUsers ==
    /\ mpc = "closed"
    /\ mpc' = "deleted"
    /\ attached' = {}
    /\ UNCHANGED <<kernelVars, signalVars, batch, listenEvent, userCount, timer,
                   buf, writeIdx, toSend, mapped, poolVars>>

(* delete pool, and the return of main that ends the threads.              *)
Exit ==
    /\ mpc = "deleted"
    /\ mpc' = "exited"
    /\ UNCHANGED <<kernelVars, signalVars, batch, listenEvent, userCount,
                   connVars, poolVars>>

-----------------------------------------------------------------------------
(***************************************************************************)
(* The threads of the pool.                                                *)
(***************************************************************************)
Alive == mpc # "exited"

(* Mutant of Take: front() without pop_front().                            *)
TakeFrontOnly(w) ==
    /\ Alive
    /\ stage[w] = "idle"
    /\ queue # <<>>
    /\ job' = [job EXCEPT ![w] = Head(queue)]
    /\ stage' = [stage EXCEPT ![w] = "process"]
    /\ UNCHANGED <<kernelVars, signalVars, mpc, batch, listenEvent, userCount,
                   connVars, queue>>

Take(w) ==
    /\ Alive
    /\ stage[w] = "idle"
    /\ queue # <<>>
    /\ job' = [job EXCEPT ![w] = Head(queue)]
    /\ queue' = Tail(queue)
    /\ stage' = [stage EXCEPT ![w] = "process"]
    /\ UNCHANGED <<kernelVars, signalVars, mpc, batch, listenEvent, userCount,
                   connVars>>

(* Process() up to its Modfd.  Do_Response maps the file of a file         *)
(* request; Process_Write appends to m_write_buf_ and, if there is no room *)
(* left, Process closes the connection itself; a CloseConn that fails      *)
(* leads to the Modfd below.                                               *)
Process(w) ==
    LET f == job[w]
        closable == f \in attached => Registered(f)
    IN /\ UsersLive
       /\ stage[w] = "process"
       /\ IF buf[f] \notin Requests
          THEN /\ stage' = [stage EXCEPT ![w] = "rearmIn"]
               /\ UNCHANGED <<kernelVars, userCount, connVars, job>>
          ELSE /\ mapped' = IF buf[f] \in FileRequests
                            THEN mapped \cup {f} ELSE mapped
               /\ UNCHANGED <<backlog, acceptEdge, buf>>
               /\ IF writeIdx[f] < WRITE_ROOM
                  THEN /\ writeIdx' = [writeIdx EXCEPT ![f] = @ + 1]
                       /\ toSend' = [toSend EXCEPT ![f] = RESPONSE]
                       /\ stage' = [stage EXCEPT ![w] = "rearmOut"]
                       /\ UNCHANGED <<openFds, interest, rx, peerGone, sndFull,
                                      userCount, attached, timer, job>>
                  ELSE /\ CloseConn(f)
                       /\ stage' = [stage EXCEPT ![w] =
                                        IF closable THEN "idle" ELSE "rearmOut"]
                       /\ job' = [job EXCEPT ![w] = IF closable THEN NULL ELSE @]
                       /\ UNCHANGED <<writeIdx, toSend>>
       /\ UNCHANGED <<signalVars, mpc, batch, listenEvent, queue>>

(* Modfd, the last thing Process() does; it tries again for ever when      *)
(* epollfd is closed or does not know the descriptor.                      *)
Rearm(w) ==
    LET f == job[w]
    IN /\ Serving
       /\ stage[w] \in {"rearmIn", "rearmOut"}
       /\ f \in attached /\ Registered(f)
       /\ Modfd(f, IF stage[w] = "rearmIn" THEN "in" ELSE "out")
       /\ stage' = [stage EXCEPT ![w] = "idle"]
       /\ job' = [job EXCEPT ![w] = NULL]
       /\ UNCHANGED <<backlog, acceptEdge, openFds, rx, peerGone, sndFull,
                      signalVars, mpc, batch, listenEvent, userCount, connVars,
                      queue>>

(* Process() reads or writes an object of the deleted users[], its         *)
(* m_sockfd_ for Modfd included: undefined, and nothing is said of what    *)
(* the thread does from there.                                             *)
UseFreed(w) ==
    /\ mpc = "deleted"
    /\ stage[w] \in {"process", "rearmIn", "rearmOut"}
    /\ stage' = [stage EXCEPT ![w] = "undefined"]
    /\ UNCHANGED <<kernelVars, signalVars, mpc, batch, listenEvent, userCount,
                   connVars, queue, job>>
-----------------------------------------------------------------------------
Client ==
    \/ Connect
    \/ Terminate
    \/ \E f \in Fds : \/ \E input \in Input \ {"none"} : ClientSend(f, input)
                      \/ ClientRead(f)
                      \/ ClientLeave(f)

Handle(f) ==
    \/ HandleHup(f)
    \/ ReadOk(f)
    \/ ReadFails(f)
    \/ WriteAll(f)
    \/ \E n \in 1..RESPONSE : WritePart(f, n)
    \/ WriteFails(f)

MainStep ==
    \/ EpollWait
    \/ \E f \in Fds, added \in BOOLEAN : AcceptConn(f, added)
    \/ AcceptOverLimit
    \/ AcceptFails
    \/ \E f \in Fds : Handle(f)
    \/ HandleSignal
    \/ EndBatch
    \/ DeleteUsers
    \/ Exit

WorkerStep(w) == Take(w) \/ Process(w) \/ Rearm(w) \/ UseFreed(w)

Next == Client \/ MainStep \/ \E w \in Workers : WorkerStep(w)

(* main and every thread of the pool go on while they can, and a client    *)
(* that stays reads what it is sent.                                       *)
Fairness ==
    /\ WF_vars(MainStep)
    /\ \A w \in Workers : WF_vars(WorkerStep(w))
    /\ \A f \in Fds : WF_vars(ClientRead(f))

Spec == Init /\ [][Next]_vars
FairSpec == Spec /\ Fairness
-----------------------------------------------------------------------------
(* Every variable has its type.                                            *)
TypeOK ==
    /\ backlog \in 0..BACKLOG
    /\ acceptEdge \in BOOLEAN
    /\ openFds \subseteq Fds
    /\ interest \in [Fds -> Interest]
    /\ rx \in [Fds -> Input]
    /\ peerGone \subseteq Fds
    /\ sndFull \subseteq Fds
    /\ sigEdge \in BOOLEAN
    /\ mpc \in {"wait", "dispatch", "closed", "deleted", "exited"}
    /\ batch \in [Fds -> {"none", "hup", "in", "out"}]
    /\ listenEvent \in BOOLEAN
    /\ sigEvent \in BOOLEAN
    /\ stopServer \in BOOLEAN
    /\ userCount \in Int
    /\ attached \subseteq Fds
    /\ timer \subseteq Fds
    /\ buf \in [Fds -> Input]
    /\ writeIdx \in [Fds -> Nat]
    /\ toSend \in [Fds -> 0..RESPONSE]
    /\ mapped \subseteq Fds
    /\ queue \in Seq(Fds)
    /\ job \in [Workers -> Fds \cup {NULL}]
    /\ stage \in [Workers -> {"idle", "process", "rearmIn", "rearmOut",
                              "undefined"}]

InBatch(f) == batch[f] # "none"
Queued(f) == \E i \in DOMAIN queue : queue[i] = f
Held(f) == \E w \in Workers : job[w] = f

(* EPOLLONESHOT makes the code free of locks on HttpConn: a connection is  *)
(* watched by epoll, or has its event in main's hands, or waits in the     *)
(* queue once, or is processed by one thread, and never two of these.      *)
SingleOwner ==
    /\ \A f \in Fds : /\ Armed(f) => ~InBatch(f) /\ ~Queued(f) /\ ~Held(f)
                      /\ InBatch(f) => ~Queued(f) /\ ~Held(f)
                      /\ Queued(f) => ~Held(f)
    /\ \A i, j \in DOMAIN queue : queue[i] = queue[j] => i = j
    /\ \A v, w \in Workers : job[v] = job[w] /\ job[v] # NULL => v = w

(* Until users[] is deleted, an object that main, the queue or a worker    *)
(* refers to is that of a live connection: main's CloseConn never pulls it *)
(* from under a worker, and an event is never that of an earlier client    *)
(* with the same descriptor.  While main serves, epoll knows the           *)
(* descriptor, so that the endless loop of Modfd is not entered.           *)
OwnedIsLive ==
    \A f \in Fds :
        InBatch(f) \/ Queued(f) \/ Held(f) =>
            /\ UsersLive => f \in attached
            /\ Serving => interest[f] = "off"

(* No connection is forgotten: one that epoll knows is watched or somebody *)
(* is going to watch it again.  Only while the queue has had room.         *)
NoneStranded ==
    \A f \in Fds : Registered(f) => \/ Armed(f)
                                    \/ InBatch(f)
                                    \/ Queued(f)
                                    \/ Held(f)

(* While main serves, m_user_count_ is the number of the connections epoll *)
(* knows.                                                                  *)
UserCountExact ==
    Serving => userCount = Cardinality({f \in Fds : Registered(f)})

(* As long as there is users[], an open descriptor, an entry that names it *)
(* and a timer that points to it come and go together.  After a failed     *)
(* Init all three stay.                                                    *)
DescriptorsOwned ==
    UsersLive => /\ openFds = attached
                 /\ timer = attached
                 /\ \A f \in Fds : Registered(f) => f \in attached

(* A worker composes a response only in an empty write buffer, so it never *)
(* repeats an earlier response and never has to close the connection; and  *)
(* Write is only called for a response it has something to send of.        *)
ResponsesApart ==
    /\ \A w \in Workers :
          UsersLive /\ stage[w] = "process" => writeIdx[job[w]] = 0
    /\ \A f \in Fds : batch[f] = "out" \/ interest[f] = "out" =>
            writeIdx[f] = 1 /\ toSend[f] > 0 /\ buf[f] \in Requests

(* A complete request stays in the read buffer until Write has sent the    *)
(* last of its response, or the object is given to another client.         *)
RequestKept ==
    [][\A f \in Fds : buf[f] \in Requests /\ buf'[f] # buf[f] =>
            \/ batch[f] = "out" /\ toSend[f] > 0 /\ f \notin mapped'
            \/ ~Registered(f) /\ Registered(f)']_vars

(* What main appends and the threads take goes through the abstract queue  *)
(* of RequestQueue.                                                        *)
RQ == INSTANCE RequestQueue
        WITH Requests <- Fds, Capacity <- MAX_REQUESTS + 1,
             waiting <- queue, serving <- job
ImplementsRequestQueue == RQ!Spec

(* A complete request is answered in full, or the connection is closed.    *)
RequestAnswered == \A f \in Fds : Outstanding(f) ~> ~Outstanding(f)

(* A connection whose client is gone is closed, wherever it is at the time *)
(* the client goes.                                                        *)
HangupClosed ==
    \A f \in Fds : f \in peerGone /\ Registered(f) ~> f \notin peerGone

(* What the notes of main.cpp say and the code does not do.  After a read, *)
(* on EPOLLIN, the object is queued and waits for a thread.                *)
ReadIsQueued ==
    [][\A f \in Fds : batch[f] = "in" /\ batch'[f] = "none" =>
            \/ ~Registered(f)'
            \/ \E i \in DOMAIN queue' : queue'[i] = f]_vars
=============================================================================
