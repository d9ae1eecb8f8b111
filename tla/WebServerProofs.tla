-------------------------- MODULE WebServerProofs ---------------------------
(***************************************************************************)
(* Proofs about WebServer, for any descriptors, any number of threads and  *)
(* any limits: its type invariant, and that every connection has at most   *)
(* one owner, whose object is live and whose buffers are in order.         *)
(***************************************************************************)
EXTENDS WebServer, FiniteSetTheorems, TLAPS

Stages == {"idle", "process", "rearmIn", "rearmOut", "undefined"}

(* A worker holds an object exactly while it is in Process().              *)
JobMatchesStage == \A w \in Workers : stage[w] = "idle" <=> job[w] = NULL

(* What the owner of an object knows of its buffers.                       *)
Fresh(f) == writeIdx[f] = 0
Composed(f) == writeIdx[f] = 1 /\ toSend[f] > 0 /\ buf[f] \in Requests
Reading(f) == Fresh(f) /\ buf[f] \notin Requests

BuffersInOrder ==
    /\ \A f \in Fds : interest[f] = "in" \/ batch[f] = "in" => Reading(f)
    /\ \A f \in Fds : interest[f] = "out" \/ batch[f] = "out" => Composed(f)
    /\ \A i \in DOMAIN queue : Fresh(queue[i])
    /\ \A w \in Workers : /\ stage[w] = "process" => Fresh(job[w])
                          /\ stage[w] = "rearmIn" => Reading(job[w])
                          /\ stage[w] = "rearmOut" => Composed(job[w])

Ownership == SingleOwner /\ OwnedIsLive /\ DescriptorsOwned

IInv == TypeOK /\ JobMatchesStage /\ Ownership /\ BuffersInOrder

-----------------------------------------------------------------------------
USE DEF kernelVars, signalVars, connVars, poolVars, Serving, UsersLive

(* CloseConn, whether or not it finds something to close, keeps the types. *)
LEMMA CloseConnType ==
    ASSUME TypeOK, NEW f \in Fds, CloseConn(f)
    PROVE  /\ openFds' \subseteq Fds
           /\ interest' \in [Fds -> Interest]
           /\ rx' \in [Fds -> Input]
           /\ peerGone' \subseteq Fds
           /\ sndFull' \subseteq Fds
           /\ attached' \subseteq Fds
           /\ timer' \subseteq Fds
           /\ userCount' \in Int
<1>1. CASE f \in attached /\ Registered(f)
  <2> USE <1>1 DEF TypeOK, CloseConn, Interest, Input, Registered
  <2>1. openFds' \subseteq Fds
    OBVIOUS
  <2>2. interest' \in [Fds -> Interest]
    OBVIOUS
  <2>3. rx' \in [Fds -> Input]
    OBVIOUS
  <2>4. peerGone' \subseteq Fds /\ sndFull' \subseteq Fds
    OBVIOUS
  <2>5. attached' \subseteq Fds /\ timer' \subseteq Fds
    OBVIOUS
  <2>6. userCount' \in Int
    OBVIOUS
  <2> QED
    BY <2>1, <2>2, <2>3, <2>4, <2>5, <2>6
<1>2. CASE ~(f \in attached /\ Registered(f))
  BY <1>2 DEF TypeOK, CloseConn, Registered
<1> QED
  BY <1>1, <1>2

(* So does Init().                                                         *)
LEMMA ResetBuffersType ==
    ASSUME TypeOK, NEW f \in Fds, ResetBuffers(f)
    PROVE  /\ buf' \in [Fds -> Input]
           /\ writeIdx' \in [Fds -> Nat]
           /\ toSend' \in [Fds -> 0..RESPONSE]
<1> USE DEF TypeOK, ResetBuffers
<1>1. buf' \in [Fds -> Input]
  BY DEF Input
<1>2. writeIdx' \in [Fds -> Nat]
  OBVIOUS
<1>3. toSend' \in [Fds -> 0..RESPONSE]
  BY ServerAssumption
<1> QED
  BY <1>1, <1>2, <1>3

(* A step preserves the types, and a worker's stage goes with its job.     *)
LEMMA TypeStep ==
    ASSUME TypeOK, JobMatchesStage, Next
    PROVE  TypeOK' /\ JobMatchesStage'
<1> USE ServerAssumption DEF TypeOK, JobMatchesStage, Interest, Input, Stages
<1>1. CASE Connect
  BY <1>1 DEF Connect
<1>2. CASE Terminate
  BY <1>2 DEF Terminate
<1>3. ASSUME NEW f \in Fds, NEW input \in Input, ClientSend(f, input)
      PROVE  TypeOK' /\ JobMatchesStage'
  BY <1>3 DEF ClientSend
<1>4. ASSUME NEW f \in Fds, ClientRead(f)
      PROVE  TypeOK' /\ JobMatchesStage'
  BY <1>4 DEF ClientRead
<1>5. ASSUME NEW f \in Fds, ClientLeave(f)
      PROVE  TypeOK' /\ JobMatchesStage'
  BY <1>5 DEF ClientLeave
<1>6. CASE EpollWait
  BY <1>6 DEF EpollWait, Ready, EventOf, Armed
<1>7. ASSUME NEW f \in Fds, NEW added \in BOOLEAN, AcceptConn(f, added)
      PROVE  TypeOK' /\ JobMatchesStage'
  <2>1. backlog' \in 0..BACKLOG
    BY <1>7 DEF AcceptConn
  <2>2. openFds' \subseteq Fds /\ attached' \subseteq Fds /\ timer' \subseteq Fds
    BY <1>7 DEF AcceptConn
  <2>3. interest' \in [Fds -> Interest]
    BY <1>7 DEF AcceptConn
  <2>5. userCount' \in Int
    BY <1>7 DEF AcceptConn
  <2>4. /\ buf' \in [Fds -> Input]
        /\ writeIdx' \in [Fds -> Nat]
        /\ toSend' \in [Fds -> 0..RESPONSE]
    <3>1. CASE added
      BY <1>7, <3>1, ResetBuffersType DEF AcceptConn
    <3>2. CASE ~added
      BY <1>7, <3>2 DEF AcceptConn
    <3> QED
      BY <3>1, <3>2
  <2> QED
    BY <1>7, <2>1, <2>2, <2>3, <2>4, <2>5 DEF AcceptConn, DispatchListen
<1>8. CASE AcceptOverLimit
  <2>1. backlog' \in 0..BACKLOG
    BY <1>8 DEF AcceptOverLimit
  <2> QED
    BY <1>8, <2>1 DEF AcceptOverLimit, DispatchListen
<1>9. CASE AcceptFails
  BY <1>9 DEF AcceptFails, DispatchListen
<1>10. ASSUME NEW f \in Fds, HandleHup(f)
      PROVE  TypeOK' /\ JobMatchesStage'
  BY <1>10, CloseConnType DEF HandleHup, Dispatch
<1>11. ASSUME NEW f \in Fds, ReadOk(f)
      PROVE  TypeOK' /\ JobMatchesStage'
  BY <1>11 DEF ReadOk, Dispatch, QueueFull
<1>12. ASSUME NEW f \in Fds, ReadFails(f)
      PROVE  TypeOK' /\ JobMatchesStage'
  BY <1>12, CloseConnType DEF ReadFails, Dispatch
<1>13. ASSUME NEW f \in Fds, WriteAll(f)
      PROVE  TypeOK' /\ JobMatchesStage'
  <2>1. CASE toSend[f] = 0
    BY <1>13, <2>1, ResetBuffersType DEF WriteAll, Dispatch
  <2>2. CASE toSend[f] # 0 /\ buf[f] \in KeepAliveRequests
    BY <1>13, <2>2, ResetBuffersType DEF WriteAll, Dispatch, Modfd
  <2>3. CASE toSend[f] # 0 /\ buf[f] \notin KeepAliveRequests
    BY <1>13, <2>3, CloseConnType DEF WriteAll, Dispatch
  <2> QED
    BY <2>1, <2>2, <2>3
<1>14. ASSUME NEW f \in Fds, NEW n \in 1..RESPONSE, WritePart(f, n)
      PROVE  TypeOK' /\ JobMatchesStage'
  BY <1>14 DEF WritePart, Dispatch, Modfd
<1>15. ASSUME NEW f \in Fds, WriteFails(f)
      PROVE  TypeOK' /\ JobMatchesStage'
  BY <1>15, CloseConnType DEF WriteFails, Dispatch
<1>16. CASE HandleSignal
  BY <1>16 DEF HandleSignal
<1>17. CASE EndBatch
  <2>1. backlog' \in 0..BACKLOG /\ interest' \in [Fds -> Interest]
    BY <1>17 DEF EndBatch
  <2>2. mpc' \in {"closed", "wait"} /\ acceptEdge' \in BOOLEAN
        /\ sigEdge' \in BOOLEAN
    BY <1>17 DEF EndBatch
  <2> QED
    BY <1>17, <2>1, <2>2 DEF EndBatch
<1>18. CASE DeleteUsers
  BY <1>18 DEF DeleteUsers
<1>19. CASE Exit
  BY <1>19 DEF Exit
<1>20. ASSUME NEW w \in Workers, Take(w)
      PROVE  TypeOK' /\ JobMatchesStage'
  BY <1>20 DEF Take
<1>21. ASSUME NEW w \in Workers, Process(w)
      PROVE  TypeOK' /\ JobMatchesStage'
  <2> DEFINE f == job[w]
  <2>1. f \in Fds /\ stage[w] = "process"
    BY <1>21 DEF Process
  <2>2. CASE buf[f] \notin Requests
    <3>1. /\ stage' = [stage EXCEPT ![w] = "rearmIn"]
          /\ UNCHANGED <<kernelVars, signalVars, mpc, batch, listenEvent,
                         userCount, connVars, queue, job>>
      BY <1>21, <2>1, <2>2 DEF Process
    <3>2. stage' \in [Workers -> Stages]
      BY <3>1
    <3>3. JobMatchesStage'
      BY <2>1, <3>1
    <3> QED
      BY <3>1, <3>2, <3>3
  <2>3. CASE buf[f] \in Requests /\ writeIdx[f] < WRITE_ROOM
    <3>1. writeIdx' \in [Fds -> Nat]
      BY <1>21, <2>1, <2>3 DEF Process
    <3>2. toSend' \in [Fds -> 0..RESPONSE]
      BY <1>21, <2>1, <2>3 DEF Process
    <3>3. mapped' \subseteq Fds
      BY <1>21, <2>1, <2>3 DEF Process
    <3>4. /\ stage' = [stage EXCEPT ![w] = "rearmOut"]
          /\ UNCHANGED <<kernelVars, signalVars, mpc, batch, listenEvent,
                         userCount, attached, timer, buf, queue, job>>
      BY <1>21, <2>1, <2>3 DEF Process
    <3>5. stage' \in [Workers -> Stages]
      BY <3>4
    <3>6. JobMatchesStage'
      BY <2>1, <3>4
    <3> QED
      BY <3>1, <3>2, <3>3, <3>4, <3>5, <3>6
  <2>4. CASE buf[f] \in Requests /\ ~(writeIdx[f] < WRITE_ROOM)
    <3>1. /\ CloseConn(f)
          /\ \/ /\ stage' = [stage EXCEPT ![w] = "idle"]
                /\ job' = [job EXCEPT ![w] = NULL]
             \/ /\ stage' = [stage EXCEPT ![w] = "rearmOut"]
                /\ job' = job
          /\ mapped' \subseteq Fds
          /\ UNCHANGED <<backlog, acceptEdge, signalVars, mpc, batch,
                         listenEvent, buf, writeIdx, toSend, queue>>
      BY <1>21, <2>1, <2>4 DEF Process
    <3>2. /\ stage' \in [Workers -> Stages]
          /\ job' \in [Workers -> Fds \cup {NULL}]
      BY <3>1
    <3>3. JobMatchesStage'
      BY <2>1, <3>1
    <3> QED
      BY <2>1, <3>1, <3>2, <3>3, CloseConnType
  <2> QED
    BY <2>2, <2>3, <2>4
<1>22. ASSUME NEW w \in Workers, Rearm(w)
      PROVE  TypeOK' /\ JobMatchesStage'
  BY <1>22 DEF Rearm, Modfd
<1>27. ASSUME NEW w \in Workers, UseFreed(w)
      PROVE  TypeOK' /\ JobMatchesStage'
  BY <1>27 DEF UseFreed
<1> HIDE DEF TypeOK, JobMatchesStage, Input
<1>23. CASE Client
  BY <1>1, <1>2, <1>3, <1>4, <1>5, <1>23 DEF Client
<1>24. ASSUME NEW f \in Fds, Handle(f)
       PROVE  TypeOK' /\ JobMatchesStage'
  BY <1>10, <1>11, <1>12, <1>13, <1>14, <1>15, <1>24 DEF Handle
<1>25. CASE MainStep
  BY <1>6, <1>7, <1>8, <1>9, <1>16, <1>17, <1>18, <1>19, <1>24, <1>25
     DEF MainStep
<1>26. ASSUME NEW w \in Workers, WorkerStep(w)
       PROVE  TypeOK' /\ JobMatchesStage'
  BY <1>20, <1>21, <1>22, <1>26, <1>27 DEF WorkerStep
<1> QED
  BY <1>23, <1>25, <1>26 DEF Next

-----------------------------------------------------------------------------
ownerVars == <<interest, batch, queue, job, stage, attached, openFds, timer,
               buf, writeIdx, toSend>>

(* Steps of the network and of signals, and of main's own program counter. *)
LEMMA OwnerFrame ==
    ASSUME Ownership, BuffersInOrder, UNCHANGED ownerVars,
           Serving' => Serving, UsersLive' => UsersLive
    PROVE  Ownership' /\ BuffersInOrder'
BY DEF Ownership, SingleOwner, OwnedIsLive, DescriptorsOwned, BuffersInOrder,
       Fresh, Composed, Reading, Armed, Registered, InBatch, Queued, Held,
       ownerVars

(* What the queue holds after push_back and after pop_front.               *)
LEMMA QueueAppend ==
    ASSUME TypeOK, NEW f \in Fds, queue' = Append(queue, f)
    PROVE  /\ DOMAIN queue' = 1..(Len(queue) + 1)
           /\ DOMAIN queue = 1..Len(queue) /\ Len(queue) \in Nat
           /\ \A i \in DOMAIN queue : queue'[i] = queue[i]
           /\ queue'[Len(queue) + 1] = f
BY DEF TypeOK

LEMMA QueueTail ==
    ASSUME TypeOK, queue # <<>>, queue' = Tail(queue)
    PROVE  /\ 1 \in DOMAIN queue /\ Head(queue) = queue[1]
           /\ \A i \in DOMAIN queue' : /\ i \in Int /\ i + 1 # 1
                                      /\ i + 1 \in DOMAIN queue
                                      /\ queue'[i] = queue[i + 1]
BY DEF TypeOK

LEMMA QueueRest ==
    ASSUME TypeOK, queue # <<>>, queue' = Tail(queue),
           NEW i \in DOMAIN queue, i # 1
    PROVE  i - 1 \in DOMAIN queue' /\ queue'[i - 1] = queue[i]
<1>1. /\ Len(queue) \in Nat /\ DOMAIN queue = 1..Len(queue)
      /\ queue \in Seq(Fds)
  BY DEF TypeOK
<1>2. i - 1 \in 1..(Len(queue) - 1) /\ (i - 1) + 1 = i
  BY <1>1
<1>3. DOMAIN Tail(queue) = 1..(Len(queue) - 1)
  BY <1>1
<1>4. Tail(queue)[i - 1] = queue[(i - 1) + 1]
  BY <1>1, <1>2
<1> QED
  BY <1>2, <1>3, <1>4

(* CloseConn leaves descriptors, objects and timers in step.               *)
LEMMA CloseConnDescriptors ==
    ASSUME TypeOK, DescriptorsOwned, UsersLive, NEW f \in Fds, CloseConn(f)
    PROVE  DescriptorsOwned'
<1> USE DEF TypeOK, DescriptorsOwned, CloseConn, Registered
<1>1. CASE f \in attached /\ Registered(f)
  <2>1. /\ openFds' = openFds \ {f} /\ attached' = attached \ {f}
        /\ timer' = timer \ {f}
        /\ interest' = [interest EXCEPT ![f] = "none"]
    BY <1>1
  <2>2. openFds = attached /\ timer = attached
    OBVIOUS
  <2>3. \A g \in Fds : interest'[g] # "none" => g \in attached'
    BY <2>1
  <2> QED
    BY <2>1, <2>2, <2>3
<1>2. CASE ~(f \in attached /\ Registered(f))
  BY <1>2
<1> QED
  BY <1>1, <1>2

(* A step of main that concerns f alone, neither queued nor held, leaves   *)
(* the buffers of the others to their owners.                              *)
LEMMA BuffersOfOthers ==
    ASSUME TypeOK, JobMatchesStage, BuffersInOrder, NEW f \in Fds,
           UNCHANGED poolVars, ~Queued(f), ~Held(f),
           \A g \in Fds \ {f} :
               /\ interest'[g] = interest[g] /\ batch'[g] = batch[g]
               /\ buf'[g] = buf[g] /\ writeIdx'[g] = writeIdx[g]
               /\ toSend'[g] = toSend[g],
           interest'[f] = "in" \/ batch'[f] = "in" => Reading(f)',
           interest'[f] = "out" \/ batch'[f] = "out" => Composed(f)'
    PROVE  BuffersInOrder'
<1> USE DEF TypeOK, BuffersInOrder, Fresh, Composed, Reading
<1>1. \A g \in Fds : interest'[g] = "in" \/ batch'[g] = "in" => Reading(g)'
  OBVIOUS
<1>2. \A g \in Fds : interest'[g] = "out" \/ batch'[g] = "out" => Composed(g)'
  OBVIOUS
<1>3. \A i \in DOMAIN queue' : Fresh(queue[i])'
  BY DEF Queued
<1>4. ASSUME NEW w \in Workers, stage[w] # "idle"
      PROVE  job[w] \in Fds \ {f}
  BY <1>4 DEF Held, JobMatchesStage
<1>5. \A g \in Fds \ {f} : /\ Fresh(g)' <=> Fresh(g)
                           /\ Reading(g)' <=> Reading(g)
                           /\ Composed(g)' <=> Composed(g)
  OBVIOUS
<1>6. ASSUME NEW w \in Workers
      PROVE  /\ stage'[w] = "process" => Fresh(job[w])'
             /\ stage'[w] = "rearmIn" => Reading(job[w])'
             /\ stage'[w] = "rearmOut" => Composed(job[w])'
  <2>1. CASE stage[w] = "idle"
    BY <2>1
  <2>2. CASE stage[w] # "idle"
    <3>1. job[w] \in Fds \ {f} /\ job'[w] = job[w] /\ stage'[w] = stage[w]
      BY <1>4, <2>2
    <3>2. /\ Fresh(job[w])' <=> Fresh(job[w])
          /\ Reading(job[w])' <=> Reading(job[w])
          /\ Composed(job[w])' <=> Composed(job[w])
      BY <1>5, <3>1
    <3>3. /\ stage[w] = "process" => Fresh(job[w])
          /\ stage[w] = "rearmIn" => Reading(job[w])
          /\ stage[w] = "rearmOut" => Composed(job[w])
      BY DEF BuffersInOrder
    <3> HIDE DEF Fresh, Reading, Composed
    <3> QED
      BY <3>1, <3>2, <3>3
  <2> QED
    BY <2>1, <2>2
<1> QED
  BY <1>1, <1>2, <1>3, <1>6

(* A step leaves every connection with at most one owner, and alive.       *)
LEMMA OwnerStep ==
    ASSUME IInv, Next
    PROVE  Ownership' /\ BuffersInOrder'
<1> USE ServerAssumption DEF IInv, TypeOK, Interest
<1>0. ASSUME UNCHANGED ownerVars, Serving' => Serving, UsersLive' => UsersLive
      PROVE  Ownership' /\ BuffersInOrder'
  BY <1>0, OwnerFrame
<1>1. CASE EpollWait
  <2> USE <1>1 DEF EpollWait, Ready, EventOf
  <2>1. SingleOwner'
    BY DEF Ownership, SingleOwner, OwnedIsLive, DescriptorsOwned, Armed,
           Registered, InBatch, Queued, Held
  <2>2. OwnedIsLive'
    BY DEF Ownership, SingleOwner, OwnedIsLive, DescriptorsOwned, Armed,
           Registered, InBatch, Queued, Held
  <2>3. DescriptorsOwned'
    <3>1. \A g \in Fds : interest'[g] # "none" => Registered(g)
      BY DEF Armed, Registered
    <3> QED
      BY <3>1 DEF Ownership, DescriptorsOwned, Registered
  <2>4. BuffersInOrder'
    BY DEF Ownership, SingleOwner, BuffersInOrder, Fresh, Composed, Reading,
           Armed, InBatch, Queued, Held
  <2> QED
    BY <2>1, <2>2, <2>3, <2>4 DEF Ownership
<1>2. ASSUME NEW f \in Fds, NEW added \in BOOLEAN, AcceptConn(f, added)
      PROVE  Ownership' /\ BuffersInOrder'
  <2> USE <1>2 DEF AcceptConn, ResetBuffers
  <2>1. SingleOwner'
    <3>1. mpc = "dispatch" /\ ~InBatch(f) /\ ~Queued(f) /\ ~Held(f)
      BY DEF DispatchListen, Ownership, OwnedIsLive, DescriptorsOwned
    <3>2. /\ UNCHANGED <<batch, queue, job>>
          /\ \A g \in Fds \ {f} : interest'[g] = interest[g]
      OBVIOUS
    <3> HIDE <1>2 DEF AcceptConn, ResetBuffers
    <3> QED
      BY <3>1, <3>2 DEF Ownership, SingleOwner, Armed, InBatch, Queued, Held
  <2>2. OwnedIsLive'
    BY DEF Ownership, SingleOwner, OwnedIsLive, DescriptorsOwned, Armed,
           Registered, InBatch, Queued, Held
  <2>3. DescriptorsOwned'
    BY DEF Ownership, DescriptorsOwned, Registered
  <2>4. BuffersInOrder'
    <3>1. ~Queued(f) /\ ~Held(f) /\ interest[f] = "none" /\ batch[f] = "none"
      BY DEF Ownership, OwnedIsLive, DescriptorsOwned, Registered, InBatch,
             DispatchListen
    <3>2. /\ UNCHANGED poolVars
          /\ \A g \in Fds \ {f} :
                /\ interest'[g] = interest[g] /\ batch'[g] = batch[g]
                /\ buf'[g] = buf[g] /\ writeIdx'[g] = writeIdx[g]
                /\ toSend'[g] = toSend[g]
      OBVIOUS
    <3>3. batch'[f] = "none" /\ interest'[f] \in {"none", "in"}
      BY <3>1
    <3>4. interest'[f] = "in" => Reading(f)'
      BY <3>1 DEF Reading, Fresh, Input, ServerAssumption
    <3> HIDE <1>2 DEF AcceptConn, ResetBuffers, TypeOK
    <3> QED
      BY <3>1, <3>2, <3>3, <3>4, BuffersOfOthers
  <2> QED
    BY <2>1, <2>2, <2>3, <2>4 DEF Ownership
<1>3. ASSUME NEW f \in Fds, HandleHup(f)
      PROVE  Ownership' /\ BuffersInOrder'
  <2> USE <1>3 DEF HandleHup, Dispatch, CloseConn
  <2>1. SingleOwner'
    BY DEF Ownership, SingleOwner, OwnedIsLive, DescriptorsOwned, Armed,
           Registered, InBatch, Queued, Held
  <2>2. OwnedIsLive'
    BY DEF Ownership, SingleOwner, OwnedIsLive, DescriptorsOwned, Armed,
           Registered, InBatch, Queued, Held
  <2>3. DescriptorsOwned'
    BY CloseConnDescriptors DEF Ownership
  <2>4. BuffersInOrder'
    BY DEF Ownership, SingleOwner, BuffersInOrder, Fresh, Composed, Reading,
           Armed, InBatch, Queued, Held
  <2> QED
    BY <2>1, <2>2, <2>3, <2>4 DEF Ownership
<1>4. ASSUME NEW f \in Fds, ReadOk(f)
      PROVE  Ownership' /\ BuffersInOrder'
  <2> USE <1>4 DEF ReadOk, Dispatch
  <2>1. SingleOwner'
    <3>1. UNCHANGED <<job, interest>> /\ ~InBatch(f)'
      BY DEF InBatch
    <3>2. ~Queued(f) /\ ~Held(f) /\ ~Armed(f)
      BY DEF Ownership, SingleOwner, InBatch
    <3>3. \A g \in Fds : InBatch(g)' => InBatch(g)
      BY DEF InBatch
    <3>4. CASE QueueFull
      BY <3>1, <3>3, <3>4 DEF Ownership, SingleOwner, Armed, Queued, Held
    <3>5. CASE ~QueueFull
      <4>1. queue' = Append(queue, f)
        BY <3>5
      <4>2. \A g \in Fds : Queued(g)' <=> Queued(g) \/ g = f
        <5>1. ASSUME NEW g \in Fds, Queued(g)'
              PROVE  Queued(g) \/ g = f
          <6>1. PICK i \in DOMAIN queue' : queue'[i] = g
            BY <5>1, Zenon DEF Queued
          <6>2. g = f \/ (i \in DOMAIN queue /\ queue[i] = g)
            BY <4>1, <6>1, QueueAppend
          <6> QED
            BY <6>2, Zenon DEF Queued
        <5>2. ASSUME NEW g \in Fds, Queued(g)
              PROVE  Queued(g)'
          <6>1. PICK i \in DOMAIN queue : queue[i] = g
            BY <5>2 DEF Queued
          <6>2. i \in DOMAIN queue' /\ queue'[i] = g
            BY <4>1, <6>1, QueueAppend
          <6> QED
            BY <6>2 DEF Queued
        <5>3. Queued(f)'
          <6>1. Len(queue) + 1 \in DOMAIN queue'
            BY <4>1, QueueAppend
          <6> QED
            BY <4>1, <6>1, QueueAppend DEF Queued
        <5> QED
          BY <5>1, <5>2, <5>3
      <4>3. \A i, j \in DOMAIN queue' : queue'[i] = queue'[j] => i = j
        BY <3>2, <4>1, QueueAppend DEF Ownership, SingleOwner, Queued
      <4>4. \A g \in Fds : (Held(g)' <=> Held(g)) /\ (Armed(g)' <=> Armed(g))
        BY <3>1 DEF Held, Armed
      <4>5. \A v, x \in Workers : job'[v] = job'[x] /\ job'[v] # NULL => v = x
        BY <3>1 DEF Ownership, SingleOwner
      <4>6. \A g \in Fds :
            /\ Armed(g)' => ~InBatch(g)' /\ ~Queued(g)' /\ ~Held(g)'
            /\ InBatch(g)' => ~Queued(g)' /\ ~Held(g)'
            /\ Queued(g)' => ~Held(g)'
        <5> HIDE <1>4 DEF ReadOk, Dispatch, TypeOK
        <5> QED
          BY <3>1, <3>2, <3>3, <4>2, <4>4 DEF Ownership, SingleOwner
      <4> QED
        BY <4>3, <4>5, <4>6 DEF SingleOwner
    <3> QED
      BY <3>4, <3>5
  <2>2. OwnedIsLive'
    BY DEF Ownership, SingleOwner, OwnedIsLive, DescriptorsOwned, Armed,
           Registered, InBatch, Queued, Held
  <2>3. DescriptorsOwned'
    BY DEF Ownership, DescriptorsOwned, Registered
  <2>4. BuffersInOrder'
    <3>1. ~Armed(f) /\ ~Queued(f) /\ ~Held(f) /\ Fresh(f)
      BY DEF Ownership, SingleOwner, BuffersInOrder, Reading, InBatch
    <3>2. /\ UNCHANGED <<interest, writeIdx, toSend, job, stage>>
          /\ batch'[f] = "none"
          /\ \A g \in Fds \ {f} : batch'[g] = batch[g] /\ buf'[g] = buf[g]
      OBVIOUS
    <3>3. \A g \in Fds :
              /\ interest'[g] = "in" \/ batch'[g] = "in" => Reading(g)'
              /\ interest'[g] = "out" \/ batch'[g] = "out" => Composed(g)'
      BY <3>1, <3>2 DEF BuffersInOrder, Reading, Composed, Fresh, Armed
    <3>4. \A i \in DOMAIN queue' : queue'[i] = f \/ \E j \in DOMAIN queue :
                                                      queue'[i] = queue[j]
      <4>1. CASE QueueFull
        BY <4>1
      <4>2. CASE ~QueueFull
        <5>1. queue' = Append(queue, f)
          BY <4>2
        <5> QED
          BY <5>1, QueueAppend
      <4> QED
        BY <4>1, <4>2
    <3>5. \A i \in DOMAIN queue' : Fresh(queue[i])'
      BY <3>1, <3>2, <3>4 DEF BuffersInOrder, Fresh
    <3>6. \A w \in Workers : stage[w] # "idle" => job[w] \in Fds \ {f}
      BY <3>1 DEF JobMatchesStage, Held
    <3>7. ASSUME NEW w \in Workers
          PROVE  /\ stage'[w] = "process" => Fresh(job[w])'
                 /\ stage'[w] = "rearmIn" => Reading(job[w])'
                 /\ stage'[w] = "rearmOut" => Composed(job[w])'
      BY <3>2, <3>6 DEF BuffersInOrder, Fresh, Reading, Composed
    <3> QED
      BY <3>3, <3>5, <3>7 DEF BuffersInOrder
  <2> QED
    BY <2>1, <2>2, <2>3, <2>4 DEF Ownership
<1>5. ASSUME NEW f \in Fds, ReadFails(f)
      PROVE  Ownership' /\ BuffersInOrder'
  <2> USE <1>5 DEF ReadFails, Dispatch, CloseConn
  <2>1. SingleOwner'
    BY DEF Ownership, SingleOwner, OwnedIsLive, DescriptorsOwned, Armed,
           Registered, InBatch, Queued, Held
  <2>2. OwnedIsLive'
    BY DEF Ownership, SingleOwner, OwnedIsLive, DescriptorsOwned, Armed,
           Registered, InBatch, Queued, Held
  <2>3. DescriptorsOwned'
    BY CloseConnDescriptors DEF Ownership
  <2>4. BuffersInOrder'
    BY DEF Ownership, SingleOwner, BuffersInOrder, Fresh, Composed, Reading,
           Armed, InBatch, Queued, Held
  <2> QED
    BY <2>1, <2>2, <2>3, <2>4 DEF Ownership
<1>6. ASSUME NEW f \in Fds, WriteAll(f)
      PROVE  Ownership' /\ BuffersInOrder'
  <2> USE <1>6 DEF WriteAll, Dispatch, CloseConn, ResetBuffers, Modfd
  <2>1. SingleOwner'
    BY DEF Ownership, SingleOwner, OwnedIsLive, DescriptorsOwned, Armed,
           Registered, InBatch, Queued, Held
  <2>2. OwnedIsLive'
    BY DEF Ownership, SingleOwner, OwnedIsLive, DescriptorsOwned, Armed,
           Registered, InBatch, Queued, Held
  <2>3. DescriptorsOwned'
    <3>1. CASE toSend[f] = 0
      BY <3>1 DEF Ownership, DescriptorsOwned, Registered
    <3>2. CASE toSend[f] # 0 /\ buf[f] \in KeepAliveRequests
      BY <3>2 DEF Ownership, DescriptorsOwned, OwnedIsLive, InBatch, Registered
    <3>3. CASE toSend[f] # 0 /\ buf[f] \notin KeepAliveRequests
      BY <3>3, CloseConnDescriptors DEF Ownership
    <3> QED
      BY <3>1, <3>2, <3>3
  <2>4. BuffersInOrder'
    <3>1. toSend[f] # 0
      BY DEF BuffersInOrder, Composed
    <3>2. ~Queued(f) /\ ~Held(f) /\ ~Armed(f)
      BY DEF Ownership, SingleOwner, InBatch
    <3>3. /\ UNCHANGED poolVars
          /\ \A g \in Fds \ {f} :
                /\ interest'[g] = interest[g] /\ batch'[g] = batch[g]
                /\ buf'[g] = buf[g] /\ writeIdx'[g] = writeIdx[g]
                /\ toSend'[g] = toSend[g]
      BY <3>1
    <3>4. batch'[f] = "none"
      OBVIOUS
    <3>5. CASE buf[f] \in KeepAliveRequests
      <4>1. interest'[f] = "in"
        BY <3>1, <3>5
      <4>2. writeIdx'[f] = 0 /\ buf'[f] = "none"
        BY <3>1, <3>5
      <4>3. Reading(f)'
        BY <4>2 DEF Reading, Fresh
      <4> HIDE <1>6 DEF WriteAll, Dispatch, CloseConn, ResetBuffers, Modfd, TypeOK
      <4> QED
        BY <3>2, <3>3, <3>4, <4>1, <4>3, BuffersOfOthers
    <3>6. CASE buf[f] \notin KeepAliveRequests
      <4>1. interest'[f] \notin {"in", "out"}
        BY <3>1, <3>2, <3>6 DEF Armed
      <4> HIDE <1>6 DEF WriteAll, Dispatch, CloseConn, ResetBuffers, Modfd, TypeOK
      <4> QED
        BY <3>2, <3>3, <3>4, <4>1, BuffersOfOthers
    <3> QED
      BY <3>5, <3>6
  <2> QED
    BY <2>1, <2>2, <2>3, <2>4 DEF Ownership
<1>7. ASSUME NEW f \in Fds, NEW n \in 1..RESPONSE, WritePart(f, n)
      PROVE  Ownership' /\ BuffersInOrder'
  <2> USE <1>7 DEF WritePart, Dispatch, Modfd
  <2>1. SingleOwner'
    <3>1. ~Queued(f) /\ ~Held(f)
      BY DEF Ownership, SingleOwner, InBatch
    <3>2. \A g \in Fds : g # f => (InBatch(g)' <=> InBatch(g)) /\ (Armed(g)' <=> Armed(g))
      BY DEF InBatch, Armed
    <3>3. ~InBatch(f)'
      BY DEF InBatch
    <3> QED
      BY <3>1, <3>2, <3>3 DEF Ownership, SingleOwner, Queued, Held
  <2>2. OwnedIsLive'
    BY DEF Ownership, SingleOwner, OwnedIsLive, DescriptorsOwned, Armed,
           Registered, InBatch, Queued, Held
  <2>3. DescriptorsOwned'
    BY DEF Ownership, SingleOwner, OwnedIsLive, DescriptorsOwned, Armed,
           Registered, InBatch, Queued, Held
  <2>4. BuffersInOrder'
    BY DEF Ownership, SingleOwner, BuffersInOrder, Fresh, Composed, Reading,
           Armed, InBatch, Queued, Held
  <2> QED
    BY <2>1, <2>2, <2>3, <2>4 DEF Ownership
<1>8. ASSUME NEW f \in Fds, WriteFails(f)
      PROVE  Ownership' /\ BuffersInOrder'
  <2> USE <1>8 DEF WriteFails, Dispatch, CloseConn
  <2>1. SingleOwner'
    BY DEF Ownership, SingleOwner, OwnedIsLive, DescriptorsOwned, Armed,
           Registered, InBatch, Queued, Held
  <2>2. OwnedIsLive'
    BY DEF Ownership, SingleOwner, OwnedIsLive, DescriptorsOwned, Armed,
           Registered, InBatch, Queued, Held
  <2>3. DescriptorsOwned'
    BY CloseConnDescriptors DEF Ownership
  <2>4. BuffersInOrder'
    BY DEF Ownership, SingleOwner, BuffersInOrder, Fresh, Composed, Reading,
           Armed, InBatch, Queued, Held
  <2> QED
    BY <2>1, <2>2, <2>3, <2>4 DEF Ownership
<1>9. ASSUME NEW w \in Workers, Take(w)
      PROVE  Ownership' /\ BuffersInOrder'
  <2> USE <1>9 DEF Take
  <2>1. SingleOwner'
    <3>1. UNCHANGED <<interest, batch>> /\ job' = [job EXCEPT ![w] = Head(queue)]
      OBVIOUS
    <3>2. Head(queue) \in Fds /\ Queued(Head(queue)) /\ ~Held(Head(queue))
      BY QueueTail DEF Ownership, SingleOwner, Queued
    <3>3. \A g \in Fds : Queued(g)' => Queued(g) /\ g # Head(queue)
      <4>1. ASSUME NEW i \in DOMAIN queue'
            PROVE  /\ i + 1 \in DOMAIN queue /\ queue'[i] = queue[i + 1]
                   /\ queue[i + 1] # queue[1]
        BY QueueTail DEF Ownership, SingleOwner
      <4> QED
        BY <4>1, QueueTail DEF Queued
    <3>4. \A g \in Fds : Held(g)' => Held(g) \/ g = Head(queue)
      BY <3>1 DEF Held
    <3>5. \A i, j \in DOMAIN queue' : queue'[i] = queue'[j] => i = j
      <4>1. ASSUME NEW i \in DOMAIN queue'
            PROVE  i \in Int /\ i + 1 \in DOMAIN queue /\ queue'[i] = queue[i + 1]
        BY QueueTail
      <4> QED
        BY <4>1 DEF Ownership, SingleOwner
    <3>6. \A u, v \in Workers : job'[u] = job'[v] /\ job'[u] # NULL => u = v
      BY <3>1, <3>2 DEF Ownership, SingleOwner, Held
    <3> QED
      BY <3>1, <3>2, <3>3, <3>4, <3>5, <3>6
         DEF Ownership, SingleOwner, Armed, InBatch
  <2>2. OwnedIsLive'
    <3>1. \A g \in Fds : Queued(g)' => Queued(g)
      <4> SUFFICES ASSUME NEW g \in Fds, Queued(g)'
                   PROVE  Queued(g)
        OBVIOUS
      <4>1. PICK i \in DOMAIN queue' : queue'[i] = g
        BY Zenon DEF Queued
      <4>2. i + 1 \in DOMAIN queue /\ queue[i + 1] = g
        BY <4>1, QueueTail
      <4> QED
        BY <4>2, Zenon DEF Queued
    <3>2. \A g \in Fds : Held(g)' => Held(g) \/ Queued(g)
      <4>1. \A v \in Workers : job'[v] = job[v] \/ job'[v] = Head(queue)
        OBVIOUS
      <4>2. Queued(Head(queue))
        <5>1. 1 \in DOMAIN queue /\ queue[1] = Head(queue)
          BY QueueTail
        <5> QED
          BY <5>1, Zenon DEF Queued
      <4> QED
        BY <4>1, <4>2 DEF Held
    <3> QED
      BY <3>1, <3>2 DEF Ownership, OwnedIsLive, InBatch
  <2>3. DescriptorsOwned'
    BY DEF Ownership, DescriptorsOwned, Registered
  <2>4. BuffersInOrder'
    <3>1. UNCHANGED <<interest, batch, buf, writeIdx, toSend>>
      OBVIOUS
    <3>2. \A i \in DOMAIN queue' : Fresh(queue[i])'
      BY QueueTail DEF BuffersInOrder, Fresh
    <3>3. stage'[w] = "process" /\ Fresh(job[w])'
      BY QueueTail DEF BuffersInOrder, Fresh
    <3>4. \A v \in Workers : v # w => stage'[v] = stage[v] /\ job'[v] = job[v]
      OBVIOUS
    <3> HIDE <1>9 DEF Take, TypeOK
    <3> QED
      BY <3>1, <3>2, <3>3, <3>4 DEF BuffersInOrder, Fresh, Reading, Composed
  <2> QED
    BY <2>1, <2>2, <2>3, <2>4 DEF Ownership
<1>10. ASSUME NEW w \in Workers, Process(w)
      PROVE  Ownership' /\ BuffersInOrder'
  <2> DEFINE f == job[w]
  <2>1. f \in Fds /\ stage[w] = "process" /\ writeIdx[f] = 0
    BY <1>10 DEF Process, JobMatchesStage, BuffersInOrder, Fresh
  <2>2. UNCHANGED <<mpc, interest, batch, queue, job, attached, openFds, timer>>
    BY <1>10, <2>1 DEF Process
  <2>3. Ownership'
    BY <2>2 DEF Ownership, SingleOwner, OwnedIsLive, DescriptorsOwned, Armed,
           Registered, InBatch, Queued, Held
  <2>4. ~Armed(f) /\ ~InBatch(f) /\ ~Queued(f)
    BY <2>1 DEF Ownership, SingleOwner, Held
  <2>5. \A v \in Workers : stage[v] # "idle" /\ v # w => job[v] # f
    BY <2>1 DEF Ownership, SingleOwner, JobMatchesStage
  <2>6. CASE buf[f] \notin Requests
    <3>1. /\ stage' = [stage EXCEPT ![w] = "rearmIn"]
          /\ UNCHANGED <<buf, writeIdx, toSend>>
      BY <1>10, <2>1, <2>6 DEF Process
    <3>2. \A v \in Workers : v # w => stage'[v] = stage[v]
      BY <3>1
    <3>3. stage'[w] = "rearmIn" /\ Reading(f)
      BY <2>1, <2>6, <3>1 DEF Reading, Fresh
    <3> QED
      BY <2>2, <2>3, <3>1, <3>2, <3>3
         DEF BuffersInOrder, Fresh, Composed, Reading
  <2>7. CASE buf[f] \in Requests
    <3>1. /\ writeIdx' = [writeIdx EXCEPT ![f] = @ + 1]
          /\ toSend' = [toSend EXCEPT ![f] = RESPONSE]
          /\ stage' = [stage EXCEPT ![w] = "rearmOut"]
          /\ buf' = buf
      BY <1>10, <2>1, <2>7 DEF Process
    <3>2. \A g \in Fds : g # f => writeIdx'[g] = writeIdx[g]
                                 /\ toSend'[g] = toSend[g]
      BY <3>1
    <3>3. Composed(f)'
      BY <2>1, <2>2, <2>7, <3>1 DEF Composed
    <3>4. \A g \in Fds : (interest'[g] = "in" \/ batch'[g] = "in" => Reading(g)')
                       /\ (interest'[g] = "out" \/ batch'[g] = "out" => Composed(g)')
      BY <2>2, <2>4, <3>1, <3>2
         DEF BuffersInOrder, Fresh, Composed, Reading, Armed, InBatch
    <3>5. \A i \in DOMAIN queue' : Fresh(queue[i])'
      BY <2>2, <2>4, <3>1, <3>2 DEF BuffersInOrder, Fresh, Queued
    <3>6. ASSUME NEW v \in Workers
          PROVE  /\ stage'[v] = "process" => Fresh(job[v])'
                 /\ stage'[v] = "rearmIn" => Reading(job[v])'
                 /\ stage'[v] = "rearmOut" => Composed(job[v])'
      <4>1. CASE v = w
        BY <2>2, <3>1, <3>3, <4>1
      <4>2. CASE v # w
        BY <2>2, <2>5, <3>1, <3>2, <4>2
           DEF BuffersInOrder, Fresh, Composed, Reading, JobMatchesStage
      <4> QED
        BY <4>1, <4>2
    <3> QED
      BY <2>3, <3>4, <3>5, <3>6 DEF BuffersInOrder, Fresh, Composed, Reading
  <2> QED
    BY <2>3, <2>6, <2>7
<1>11. ASSUME NEW w \in Workers, Rearm(w)
      PROVE  Ownership' /\ BuffersInOrder'
  <2> USE <1>11 DEF Rearm, Modfd
  <2>1. SingleOwner'
    <3> DEFINE f == job[w]
    <3>1. /\ UNCHANGED <<batch, queue>>
          /\ job' = [job EXCEPT ![w] = NULL]
          /\ f \in Fds
      OBVIOUS
    <3>2. Held(f) /\ ~InBatch(f) /\ ~Queued(f)
      BY <3>1 DEF Ownership, SingleOwner, Held
    <3>3. \A g \in Fds : g # f => (Armed(g)' <=> Armed(g))
      BY <3>1 DEF Armed
    <3>4. \A g \in Fds : Held(g)' => Held(g) /\ g # f
      BY <3>1 DEF Held, Ownership, SingleOwner
    <3>5. \A g \in Fds : (InBatch(g)' <=> InBatch(g)) /\ (Queued(g)' <=> Queued(g))
      BY <3>1 DEF InBatch, Queued
    <3>6. \A u, v \in Workers : job'[u] = job'[v] /\ job'[u] # NULL => u = v
      BY <3>1 DEF Ownership, SingleOwner
    <3>7. \A i, j \in DOMAIN queue' : queue'[i] = queue'[j] => i = j
      BY <3>1 DEF Ownership, SingleOwner
    <3>8. \A g \in Fds :
               /\ Armed(g)' => ~InBatch(g)' /\ ~Queued(g)' /\ ~Held(g)'
               /\ InBatch(g)' => ~Queued(g)' /\ ~Held(g)'
               /\ Queued(g)' => ~Held(g)'
      <4> HIDE <1>11 DEF Rearm, Modfd, TypeOK, f
      <4> QED
        BY <3>2, <3>3, <3>4, <3>5 DEF Ownership, SingleOwner
    <3> QED
      BY <3>6, <3>7, <3>8 DEF SingleOwner
  <2>2. OwnedIsLive'
    BY DEF Ownership, SingleOwner, OwnedIsLive, DescriptorsOwned, Armed,
           Registered, InBatch, Queued, Held
  <2>3. DescriptorsOwned'
    BY DEF Ownership, DescriptorsOwned, Registered
  <2>4. BuffersInOrder'
    BY DEF Ownership, SingleOwner, BuffersInOrder, Fresh, Composed, Reading,
           Armed, InBatch, Queued, Held
  <2> QED
    BY <2>1, <2>2, <2>3, <2>4 DEF Ownership
<1>12. CASE EndBatch
  <2>1. CASE ~stopServer
    BY <1>0, <1>12, <2>1 DEF EndBatch, ownerVars
  <2>2. CASE stopServer
    <3>1. /\ ~Serving' /\ UsersLive
          /\ interest' = [f \in Fds |-> "none"]
          /\ UNCHANGED <<batch, queue, job, stage, attached, openFds, timer, buf,
                         writeIdx, toSend>>
          /\ \A f \in Fds : batch[f] = "none"
      BY <1>12, <2>2 DEF EndBatch
    <3>2. SingleOwner'
      BY <3>1 DEF Ownership, SingleOwner, Armed, InBatch, Queued, Held
    <3>3. OwnedIsLive' /\ DescriptorsOwned'
      BY <3>1 DEF Ownership, OwnedIsLive, DescriptorsOwned, Registered, InBatch,
                  Queued, Held
    <3>4. BuffersInOrder'
      BY <3>1 DEF BuffersInOrder, Fresh, Composed, Reading
    <3> QED
      BY <3>2, <3>3, <3>4 DEF Ownership
  <2> QED
    BY <2>1, <2>2
<1>13. CASE DeleteUsers
  BY <1>13 DEF DeleteUsers, Ownership, SingleOwner, OwnedIsLive,
               DescriptorsOwned, BuffersInOrder, Fresh, Composed, Reading,
               Armed, Registered, InBatch, Queued, Held
<1>14. ASSUME NEW w \in Workers, UseFreed(w)
      PROVE  Ownership' /\ BuffersInOrder'
  BY <1>14 DEF UseFreed, Ownership, SingleOwner, OwnedIsLive,
               DescriptorsOwned, BuffersInOrder, Fresh, Composed, Reading,
               Armed, Registered, InBatch, Queued, Held
<1> QED
  BY <1>0, <1>1, <1>2, <1>3, <1>4, <1>5, <1>6, <1>7, <1>8, <1>9, <1>10, <1>11,
     <1>12, <1>13, <1>14
     DEF Next, Client, MainStep, Handle, WorkerStep, ownerVars, Connect,
         Terminate, ClientSend, ClientRead, ClientLeave, AcceptOverLimit,
         AcceptFails, HandleSignal, Exit

-----------------------------------------------------------------------------
(* The invariant holds when the server starts.                             *)
LEMMA InitIInv == Init => IInv
<1> SUFFICES ASSUME Init
             PROVE  IInv
  OBVIOUS
<1> USE ServerAssumption DEF Init
<1>1. TypeOK
  <2>1. backlog \in 0..BACKLOG
    OBVIOUS
  <2>2. toSend \in [Fds -> 0..RESPONSE]
    OBVIOUS
  <2>3. queue \in Seq(Fds)
    OBVIOUS
  <2>4. interest \in [Fds -> Interest] /\ batch \in [Fds -> {"none", "hup", "in", "out"}]
    BY DEF Interest
  <2>5. rx \in [Fds -> Input] /\ buf \in [Fds -> Input]
    BY DEF Input
  <2>6. writeIdx \in [Fds -> Nat]
    OBVIOUS
  <2>7. /\ job \in [Workers -> Fds \cup {NULL}]
        /\ stage \in [Workers -> Stages]
    BY DEF Stages
  <2>8. {acceptEdge, sigEdge, listenEvent, sigEvent, stopServer} \subseteq BOOLEAN
    OBVIOUS
  <2>9. /\ openFds \subseteq Fds /\ peerGone \subseteq Fds /\ sndFull \subseteq Fds
        /\ attached \subseteq Fds /\ timer \subseteq Fds /\ mapped \subseteq Fds
    OBVIOUS
  <2>10. userCount \in Int
    OBVIOUS
  <2>11. mpc \in {"wait", "dispatch", "closed", "deleted", "exited"}
    OBVIOUS
  <2> HIDE DEF Init
  <2> QED
    BY <2>1, <2>2, <2>3, <2>4, <2>5, <2>6, <2>7, <2>8, <2>9, <2>10, <2>11
       DEF TypeOK, Stages
<1>2. JobMatchesStage
  BY DEF JobMatchesStage
<1>3. \A f \in Fds : ~Armed(f) /\ ~InBatch(f) /\ ~Queued(f) /\ ~Held(f)
  BY DEF Armed, InBatch, Queued, Held
<1>4. Ownership
  BY <1>3 DEF Ownership, SingleOwner, OwnedIsLive, DescriptorsOwned, Registered
<1>5. BuffersInOrder
  BY DEF BuffersInOrder
<1> QED
  BY <1>1, <1>2, <1>4, <1>5 DEF IInv

(* IInv is an inductive invariant of the server.                           *)
THEOREM Inductive == Spec => []IInv
<1>1. Init => IInv
  BY InitIInv
<1>2. IInv /\ [Next]_vars => IInv'
  <2>1. ASSUME IInv, Next
        PROVE  IInv'
    BY <2>1, TypeStep, OwnerStep DEF IInv
  <2>2. ASSUME IInv, UNCHANGED vars
        PROVE  IInv'
    BY <2>2 DEF vars, IInv, TypeOK, JobMatchesStage, Ownership, SingleOwner,
                OwnedIsLive, DescriptorsOwned, BuffersInOrder, Fresh, Composed,
                Reading, Armed, Registered, InBatch, Queued, Held
  <2> QED
    BY <2>1, <2>2
<1> QED
  BY <1>1, <1>2, PTL DEF Spec

(* Every variable keeps its type.                                          *)
THEOREM TypeCorrect == Spec => []TypeOK
<1>1. IInv => TypeOK
  BY DEF IInv
<1> QED
  BY <1>1, Inductive, PTL

(* However the clients, main and the threads interleave, a connection is   *)
(* watched by epoll, handled by main, queued once, or processed by one     *)
(* thread, and never two of these: HttpConn needs no lock.                 *)
THEOREM OneOwner == Spec => []SingleOwner
<1>1. IInv => SingleOwner
  BY DEF IInv, Ownership
<1> QED
  BY <1>1, Inductive, PTL

(* Until users[] is deleted, an object that main, the queue or a thread    *)
(* refers to is that of a live connection, and while main serves epoll     *)
(* knows its descriptor and does not watch it.                             *)
THEOREM OwnersHoldLiveObjects == Spec => []OwnedIsLive
<1>1. IInv => OwnedIsLive
  BY DEF IInv, Ownership
<1> QED
  BY <1>1, Inductive, PTL

(* Open descriptors, users[] entries and timers stay in step as long as    *)
(* there is users[].                                                       *)
THEOREM DescriptorsInStep == Spec => []DescriptorsOwned
<1>1. IInv => DescriptorsOwned
  BY DEF IInv, Ownership
<1> QED
  BY <1>1, Inductive, PTL

(* A response is composed in an empty buffer and Write never finds nothing *)
(* to send, so that neither the thread that would close a connection nor   *)
(* the branch that would leave one unwatched is ever entered.              *)
THEOREM ResponsesStayApart == Spec => []ResponsesApart
<1>1. IInv => ResponsesApart
  BY DEF IInv, BuffersInOrder, Fresh, Composed, ResponsesApart
<1> QED
  BY <1>1, Inductive, PTL

(* What main appends and the threads take goes through the bounded FIFO    *)
(* that RequestQueue describes.                                            *)
THEOREM ImplementsQueue == Spec => ImplementsRequestQueue
<1>1. Init => RQ!Init
  BY DEF Init, RQ!Init
<1>2. IInv /\ [Next]_vars => [RQ!Next]_RQ!vars
  <2> SUFFICES ASSUME IInv, [Next]_vars
               PROVE  [RQ!Next]_RQ!vars
    OBVIOUS
  <2> USE DEF IInv, RQ!vars
  <2>1. ASSUME NEW f \in Fds, ReadOk(f)
        PROVE  [RQ!Next]_RQ!vars
    <3>1. CASE QueueFull
      BY <2>1, <3>1 DEF ReadOk
    <3>2. CASE ~QueueFull
      <4>1. Len(queue) < MAX_REQUESTS + 1
        BY <3>2, ServerAssumption DEF QueueFull, TypeOK
      <4>2. RQ!Offer(f)
        BY <2>1, <3>2, <4>1 DEF ReadOk, RQ!Offer
      <4> QED
        BY <4>2 DEF RQ!Next
    <3> QED
      BY <3>1, <3>2
  <2>2. ASSUME NEW w \in Workers, Take(w)
        PROVE  [RQ!Next]_RQ!vars
    <3>1. RQ!Take(w)
      BY <2>2 DEF Take, RQ!Take, JobMatchesStage
    <3> QED
      BY <3>1 DEF RQ!Next
  <2>3. ASSUME NEW w \in Workers, job[w] # NULL,
               job' = [job EXCEPT ![w] = NULL], queue' = queue
        PROVE  [RQ!Next]_RQ!vars
    BY <2>3 DEF RQ!Next, RQ!Finish
  <2>4. ASSUME NEW w \in Workers, Process(w)
        PROVE  [RQ!Next]_RQ!vars
    <3>1. /\ job' = job \/ job' = [job EXCEPT ![w] = NULL]
          /\ queue' = queue /\ job[w] # NULL
      BY <2>4 DEF Process, JobMatchesStage, TypeOK
    <3> QED
      BY <2>3, <3>1
  <2>5. ASSUME NEW w \in Workers, Rearm(w)
        PROVE  [RQ!Next]_RQ!vars
    BY <2>3, <2>5 DEF Rearm, JobMatchesStage
  <2>6. CASE UNCHANGED <<queue, job>>
    BY <2>6
  <2> QED
    BY <2>1, <2>2, <2>4, <2>5, <2>6
       DEF vars, Next, Client, MainStep, Handle, WorkerStep, Connect,
           Terminate, ClientSend, ClientRead, ClientLeave, EpollWait,
           AcceptConn, AcceptOverLimit, AcceptFails, HandleHup, ReadFails,
           WriteAll, WritePart, WriteFails, HandleSignal, EndBatch,
           DeleteUsers, Exit, UseFreed
<1> QED
  BY <1>1, <1>2, Inductive, PTL DEF Spec, ImplementsRequestQueue, RQ!Spec

(* A complete request stays in its buffer until Write has sent the last of *)
(* its response, or the object is given to another client.                 *)
THEOREM RequestsStay == Spec => RequestKept
<1> DEFINE Kept ==
      \A f \in Fds : buf[f] \in Requests /\ buf'[f] # buf[f] =>
          \/ batch[f] = "out" /\ toSend[f] > 0 /\ f \notin mapped'
          \/ ~Registered(f) /\ Registered(f)'
<1>1. IInv /\ [Next]_vars => [Kept]_vars
  <2> SUFFICES ASSUME IInv, Next
               PROVE  Kept
    OBVIOUS
  <2> USE DEF IInv, TypeOK
  <2>1. ASSUME NEW f \in Fds, NEW added \in BOOLEAN, AcceptConn(f, added)
        PROVE  Kept
    <3>1. ~Registered(f)
      BY <2>1 DEF AcceptConn, DispatchListen, Ownership, DescriptorsOwned
    <3>2. CASE added
      BY <2>1, <3>1, <3>2 DEF AcceptConn, ResetBuffers, Registered
    <3>3. CASE ~added
      BY <2>1, <3>3 DEF AcceptConn
    <3> QED
      BY <3>2, <3>3
  <2>2. ASSUME NEW f \in Fds, ReadOk(f)
        PROVE  Kept
    <3>1. buf[f] \notin Requests
      BY <2>2 DEF ReadOk, Dispatch, BuffersInOrder, Reading
    <3> QED
      BY <2>2, <3>1 DEF ReadOk
  <2>3. ASSUME NEW f \in Fds, WriteAll(f)
        PROVE  Kept
    <3>1. batch[f] = "out" /\ toSend[f] > 0
      BY <2>3 DEF WriteAll, Dispatch, BuffersInOrder, Composed
    <3>2. mapped' = mapped \ {f}
      BY <2>3, <3>1 DEF WriteAll
    <3>3. \A g \in Fds \ {f} : buf'[g] = buf[g]
      BY <2>3, <3>1 DEF WriteAll, ResetBuffers
    <3> QED
      BY <3>1, <3>2, <3>3
  <2>4. ASSUME NEW w \in Workers, Process(w)
        PROVE  Kept
    BY <2>4 DEF Process
  <2>5. CASE UNCHANGED buf
    BY <2>5
  <2> QED
    BY <2>1, <2>2, <2>3, <2>4, <2>5
       DEF Next, Client, MainStep, Handle, WorkerStep, Connect, Terminate,
           ClientSend, ClientRead, ClientLeave, EpollWait, AcceptOverLimit,
           AcceptFails, HandleHup, ReadFails, WritePart, WriteFails,
           HandleSignal, EndBatch, DeleteUsers, Exit, Take, Rearm, UseFreed
<1> QED
  BY <1>1, Inductive, PTL DEF Spec, RequestKept

-----------------------------------------------------------------------------
live == {f \in Fds : Registered(f)}

(* CloseConn takes one connection from epoll and one from m_user_count_,   *)
(* or neither.                                                             *)
LEMMA CloseConnCounts ==
    ASSUME TypeOK, UserCountExact, NEW f \in Fds, CloseConn(f),
           Serving' => Serving
    PROVE  UserCountExact'
<1>1. IsFiniteSet(live)
  BY ServerAssumption, FS_Subset DEF live
<1>2. CASE f \in attached /\ Registered(f)
  <2>1. live' = live \ {f} /\ f \in live
    BY <1>2 DEF live, CloseConn, Registered, TypeOK
  <2>2. userCount' = userCount - 1
    BY <1>2 DEF CloseConn
  <2> QED
    BY <1>1, <2>1, <2>2, FS_RemoveElement DEF UserCountExact, live
<1>3. CASE ~(f \in attached /\ Registered(f))
  BY <1>3 DEF CloseConn, UserCountExact, Registered
<1> QED
  BY <1>2, <1>3

(* While main serves, m_user_count_ is the number of the connections epoll *)
(* knows, for any number of clients and with any of their Addfd calls      *)
(* failing.                                                                *)
THEOREM UsersCounted == Spec => []UserCountExact
<1>1. Init => UserCountExact
  <2> SUFFICES ASSUME Init
               PROVE  UserCountExact
    OBVIOUS
  <2>1. live = {}
    BY DEF Init, live, Registered
  <2> QED
    BY <2>1, FS_EmptySet DEF Init, UserCountExact, live
<1>2. IInv /\ UserCountExact /\ [Next]_vars => UserCountExact'
  <2> SUFFICES ASSUME IInv, UserCountExact, [Next]_vars
               PROVE  UserCountExact'
    OBVIOUS
  <2> USE DEF IInv
  <2>1. ASSUME UNCHANGED <<interest, userCount>>, Serving' => Serving
        PROVE  UserCountExact'
    BY <2>1 DEF UserCountExact, Registered
  <2>2. ASSUME userCount' = userCount, Serving' => Serving,
               \A f \in Fds : Registered(f)' <=> Registered(f)
        PROVE  UserCountExact'
    <3>1. live' = live
      BY <2>2 DEF live
    <3> QED
      BY <2>2, <3>1 DEF UserCountExact, live
  <2>3. CASE EpollWait
    BY <2>2, <2>3
       DEF EpollWait, Ready, EventOf, Armed, Registered, TypeOK
  <2>4. ASSUME NEW f \in Fds, NEW added \in BOOLEAN, AcceptConn(f, added)
        PROVE  UserCountExact'
    <3>1. IsFiniteSet(live)
      BY ServerAssumption, FS_Subset DEF live
    <3>2. ~Registered(f)
      BY <2>4 DEF AcceptConn, DispatchListen, Ownership, DescriptorsOwned
    <3>3. CASE added
      <4>1. live' = live \cup {f} /\ f \notin live
        BY <2>4, <3>2, <3>3 DEF AcceptConn, live, Registered, TypeOK
      <4>2. userCount' = userCount + 1
        BY <2>4, <3>3 DEF AcceptConn
      <4>3. Serving
        BY <2>4 DEF AcceptConn, DispatchListen
      <4> QED
        BY <3>1, <4>1, <4>2, <4>3, FS_AddElement DEF UserCountExact, live
    <3>4. CASE ~added
      BY <2>1, <2>4, <3>4 DEF AcceptConn
    <3> QED
      BY <3>3, <3>4
  <2>5. ASSUME NEW f \in Fds, CloseConn(f), Serving' => Serving
        PROVE  UserCountExact'
    BY <2>5, CloseConnCounts
  <2>6. ASSUME NEW f \in Fds, WriteAll(f)
        PROVE  UserCountExact'
    <3>1. batch[f] = "out" /\ toSend[f] > 0 /\ Registered(f)
      BY <2>6 DEF WriteAll, Dispatch, BuffersInOrder, Composed, Ownership,
                  OwnedIsLive, InBatch, Registered
    <3>2. CASE buf[f] \in KeepAliveRequests
      BY <2>2, <2>6, <3>1, <3>2 DEF WriteAll, Modfd, Registered, TypeOK
    <3>3. CASE buf[f] \notin KeepAliveRequests
      BY <2>5, <2>6, <3>1, <3>3 DEF WriteAll
    <3> QED
      BY <3>2, <3>3
  <2>7. ASSUME NEW f \in Fds, NEW n \in 1..RESPONSE, WritePart(f, n)
        PROVE  UserCountExact'
    <3>1. Registered(f)
      BY <2>7 DEF WritePart, Dispatch, Ownership, OwnedIsLive, InBatch,
                  Registered
    <3> QED
      BY <2>2, <2>7, <3>1 DEF WritePart, Modfd, Registered, TypeOK
  <2>8. ASSUME NEW w \in Workers, Process(w)
        PROVE  UserCountExact'
    <3>1. job[w] \in Fds /\ writeIdx[job[w]] < WRITE_ROOM
      BY <2>8, ServerAssumption
         DEF Process, TypeOK, JobMatchesStage, BuffersInOrder, Fresh
    <3> QED
      BY <2>1, <2>8, <3>1 DEF Process
  <2>9. ASSUME NEW w \in Workers, Rearm(w)
        PROVE  UserCountExact'
    BY <2>2, <2>9 DEF Rearm, Modfd, Registered, TypeOK
  <2>10. CASE EndBatch
    <3>1. CASE stopServer
      BY <2>10, <3>1 DEF EndBatch, UserCountExact
    <3>2. CASE ~stopServer
      BY <2>1, <2>10, <3>2 DEF EndBatch
    <3> QED
      BY <3>1, <3>2
  <2> QED
    BY <2>1, <2>3, <2>4, <2>5, <2>6, <2>7, <2>8, <2>9, <2>10
       DEF vars, Next, Client, MainStep, Handle, WorkerStep, Connect,
           Terminate, ClientSend, ClientRead, ClientLeave, AcceptOverLimit,
           AcceptFails, HandleHup, ReadOk, ReadFails, WriteFails,
           Dispatch, DispatchListen, HandleSignal, DeleteUsers, Exit, Take,
           UseFreed
<1> QED
  BY <1>1, <1>2, Inductive, PTL DEF Spec
-----------------------------------------------------------------------------
Tended(f) == Armed(f) \/ InBatch(f) \/ Queued(f) \/ Held(f)

(* epoll_wait is called, and the loop is left, with events[] done with.    *)
BatchDone == mpc # "dispatch" => \A f \in Fds : batch[f] = "none"

LEMMA BatchDoneStep ==
    ASSUME BatchDone, Next
    PROVE  BatchDone'
BY DEF BatchDone, Next, Client, MainStep, Handle, WorkerStep, Connect,
       Terminate, ClientSend, ClientRead, ClientLeave, EpollWait, AcceptConn,
       AcceptOverLimit, AcceptFails, DispatchListen, HandleHup, ReadOk,
       ReadFails, WriteAll, WritePart, WriteFails, Dispatch, HandleSignal,
       EndBatch, DeleteUsers, Exit, Take, Process, Rearm, UseFreed

LEMMA BatchesDone == Spec => []BatchDone
<1>1. Init => BatchDone
  BY DEF Init, BatchDone
<1>2. BatchDone /\ [Next]_vars => BatchDone'
  <2>1. ASSUME BatchDone, UNCHANGED vars PROVE BatchDone'
    BY <2>1 DEF BatchDone, vars
  <2> QED
    BY <2>1, BatchDoneStep
<1> QED
  BY <1>1, <1>2, PTL DEF Spec

(* A step that concerns f alone and leaves the pool as it is.              *)
LEMMA TendedOthers ==
    ASSUME NoneStranded, NEW f \in Fds, UNCHANGED <<queue, job>>,
           \A g \in Fds \ {f} :
               interest'[g] = interest[g] /\ batch'[g] = batch[g],
           Registered(f)' => Tended(f)'
    PROVE  NoneStranded'
BY DEF NoneStranded, Tended, Registered, Armed, InBatch, Queued, Held

LEMMA TendedClose ==
    ASSUME TypeOK, DescriptorsOwned, NoneStranded, UsersLive, NEW f \in Fds,
           CloseConn(f), UNCHANGED <<queue, job>>,
           \A g \in Fds \ {f} : batch'[g] = batch[g]
    PROVE  NoneStranded'
<1>1. ~Registered(f)' /\ \A g \in Fds \ {f} : interest'[g] = interest[g]
  BY DEF CloseConn, Registered, DescriptorsOwned, TypeOK
<1> QED
  BY <1>1, TendedOthers

(* Every step but a read with the queue full leaves every connection       *)
(* watched, or in somebody's hands.                                        *)
LEMMA TendedStep ==
    ASSUME IInv, BatchDone, NoneStranded, Next,
           ~\E f \in Fds : ReadOk(f) /\ QueueFull
    PROVE  NoneStranded'
<1> USE DEF IInv
<1>1. CASE UNCHANGED <<interest, batch, queue, job>>
  BY <1>1 DEF NoneStranded, Registered, Armed, InBatch, Queued, Held
<1>2. CASE EpollWait
  <2>1. UNCHANGED <<queue, job>>
    BY <1>2 DEF EpollWait
  <2>2. \A g \in Fds : batch[g] = "none"
    BY <1>2 DEF EpollWait, BatchDone
  <2>3. ASSUME NEW g \in Fds, Registered(g)'
        PROVE  Tended(g)'
    <3>1. batch'[g] = "none" => interest'[g] = interest[g]
      BY <1>2 DEF EpollWait, Ready
    <3> QED
      BY <2>1, <2>2, <2>3, <3>1
         DEF Tended, NoneStranded, Registered, Armed, InBatch, Queued, Held
  <2> QED
    BY <2>3 DEF NoneStranded, Tended
<1>3. ASSUME NEW f \in Fds, NEW added \in BOOLEAN, AcceptConn(f, added)
      PROVE  NoneStranded'
  <2>1. CASE added
    <3>1. interest'[f] = "in"
      BY <1>3, <2>1 DEF AcceptConn, TypeOK
    <3>2. /\ UNCHANGED <<queue, job>> /\ Armed(f)'
          /\ \A g \in Fds \ {f} :
                 interest'[g] = interest[g] /\ batch'[g] = batch[g]
      BY <1>3, <2>1, <3>1 DEF AcceptConn, Armed, TypeOK
    <3> QED
      BY <3>2, TendedOthers DEF Tended
  <2>2. CASE ~added
    BY <1>1, <1>3, <2>2 DEF AcceptConn
  <2> QED
    BY <2>1, <2>2
<1>4. ASSUME NEW f \in Fds, CloseConn(f), UNCHANGED poolVars, mpc = "dispatch",
             \A g \in Fds \ {f} : batch'[g] = batch[g]
      PROVE  NoneStranded'
  BY <1>4, TendedClose DEF Ownership
<1>5. ASSUME NEW f \in Fds, HandleHup(f) \/ ReadFails(f) \/ WriteFails(f)
      PROVE  NoneStranded'
  BY <1>4, <1>5 DEF HandleHup, ReadFails, WriteFails, Dispatch, TypeOK
<1>6. ASSUME NEW f \in Fds, ReadOk(f)
      PROVE  NoneStranded'
  <2>1. queue' = Append(queue, f) /\ job' = job /\ interest' = interest
    BY <1>6 DEF ReadOk
  <2>2. \A g \in Fds \ {f} : batch'[g] = batch[g]
    BY <1>6 DEF ReadOk, Dispatch, TypeOK
  <2>3. Queued(f)'
    <3>1. Len(queue) + 1 \in DOMAIN queue' /\ queue'[Len(queue) + 1] = f
      BY <2>1, QueueAppend
    <3> QED
      BY <3>1 DEF Queued
  <2>4. \A g \in Fds : Queued(g) => Queued(g)'
    BY <2>1, QueueAppend DEF Queued
  <2> QED
    BY <2>1, <2>2, <2>3, <2>4
       DEF NoneStranded, Registered, Armed, InBatch, Held
<1>7. ASSUME NEW f \in Fds, WriteAll(f)
      PROVE  NoneStranded'
  <2>1. toSend[f] > 0
    BY <1>7 DEF WriteAll, Dispatch, BuffersInOrder, Composed
  <2>2. \A g \in Fds \ {f} : batch'[g] = batch[g]
    BY <1>7 DEF WriteAll, Dispatch, TypeOK
  <2>3. CASE buf[f] \in KeepAliveRequests
    <3>1. /\ UNCHANGED <<queue, job>> /\ interest'[f] = "in"
          /\ \A g \in Fds \ {f} : interest'[g] = interest[g]
      BY <1>7, <2>1, <2>3 DEF WriteAll, Modfd, TypeOK
    <3>2. Tended(f)'
      BY <3>1 DEF Tended, Armed
    <3> QED
      BY <2>2, <3>1, <3>2, TendedOthers
  <2>4. CASE buf[f] \notin KeepAliveRequests
    BY <1>4, <1>7, <2>1, <2>2, <2>4 DEF WriteAll, Dispatch
  <2> QED
    BY <2>3, <2>4
<1>8. ASSUME NEW f \in Fds, NEW n \in 1..RESPONSE, WritePart(f, n)
      PROVE  NoneStranded'
  <2>1. /\ UNCHANGED <<queue, job>> /\ interest'[f] = "out"
        /\ \A g \in Fds \ {f} :
               interest'[g] = interest[g] /\ batch'[g] = batch[g]
    BY <1>8 DEF WritePart, Dispatch, Modfd, TypeOK
  <2>2. Tended(f)'
    BY <2>1 DEF Tended, Armed
  <2> QED
    BY <2>1, <2>2, TendedOthers
<1>9. ASSUME NEW w \in Workers, Take(w)
      PROVE  NoneStranded'
  <2>1. /\ queue # <<>> /\ queue' = Tail(queue) /\ UNCHANGED <<interest, batch>>
        /\ stage[w] = "idle" /\ job' = [job EXCEPT ![w] = Head(queue)]
    BY <1>9 DEF Take
  <2>2. job[w] = NULL
    BY <2>1 DEF JobMatchesStage
  <2>3. \A g \in Fds : Held(g) => Held(g)'
    BY <2>1, <2>2, ServerAssumption DEF Held, TypeOK
  <2>4. ASSUME NEW g \in Fds, Queued(g) PROVE Queued(g)' \/ Held(g)'
    <3>1. PICK i \in DOMAIN queue : queue[i] = g
      BY <2>4 DEF Queued
    <3>2. Head(queue) = queue[1] /\ job'[w] = queue[1]
      BY <2>1, QueueTail DEF TypeOK
    <3>3. i # 1 => i - 1 \in DOMAIN queue' /\ queue'[i - 1] = queue[i]
      BY <2>1, QueueRest
    <3>4. CASE i = 1
      BY <3>1, <3>2, <3>4 DEF Held
    <3>5. CASE i # 1
      BY <3>1, <3>3, <3>5 DEF Queued
    <3> QED
      BY <3>4, <3>5
  <2> QED
    BY <2>1, <2>3, <2>4 DEF NoneStranded, Registered, Armed, InBatch
<1>10. ASSUME NEW w \in Workers, Process(w)
       PROVE  NoneStranded'
  <2>1. job[w] \in Fds /\ writeIdx[job[w]] < WRITE_ROOM
    BY <1>10, ServerAssumption
       DEF Process, TypeOK, JobMatchesStage, BuffersInOrder, Fresh
  <2> QED
    BY <1>1, <1>10, <2>1 DEF Process
<1>11. ASSUME NEW w \in Workers, Rearm(w)
       PROVE  NoneStranded'
  <2> DEFINE f == job[w]
  <2>1. f \in Fds /\ interest'[f] \in {"in", "out"}
        /\ \A g \in Fds \ {f} : interest'[g] = interest[g]
        /\ UNCHANGED <<batch, queue>> /\ job' = [job EXCEPT ![w] = NULL]
    BY <1>11, ServerAssumption DEF Rearm, Modfd, TypeOK, Ownership,
                                   DescriptorsOwned
  <2>2. \A g \in Fds \ {f} : Held(g) => Held(g)'
    BY <2>1 DEF Held, TypeOK
  <2> QED
    BY <2>1, <2>2 DEF NoneStranded, Registered, Armed, InBatch, Queued
<1>12. CASE EndBatch
  <2>1. CASE stopServer
    BY <1>12, <2>1 DEF EndBatch, NoneStranded, Registered
  <2>2. CASE ~stopServer
    BY <1>1, <1>12, <2>2 DEF EndBatch
  <2> QED
    BY <2>1, <2>2
<1> QED
  BY <1>1, <1>2, <1>3, <1>5, <1>6, <1>7, <1>8, <1>9, <1>10, <1>11, <1>12
     DEF Next, Client, MainStep, Handle, WorkerStep, Connect, Terminate,
         ClientSend, ClientRead, ClientLeave, AcceptOverLimit, AcceptFails,
         DispatchListen, HandleSignal, DeleteUsers, Exit, UseFreed

(* Only a read that finds the queue full strands a connection: whatever    *)
(* the limits and however full the queue is, every other step leaves all   *)
(* connections watched or in hand.                                         *)
THEOREM OnlyFullQueueStrands ==
    Spec => [][NoneStranded /\ ~(\E f \in Fds : ReadOk(f) /\ QueueFull)
                   => NoneStranded']_vars
<1>1. IInv /\ BatchDone /\ [Next]_vars =>
          [NoneStranded /\ ~(\E f \in Fds : ReadOk(f) /\ QueueFull)
               => NoneStranded']_vars
  BY TendedStep
<1> QED
  BY <1>1, Inductive, BatchesDone, PTL DEF Spec

(* With fewer descriptors than the queue has places it is never full when  *)
(* main has something to append.                                           *)
LEMMA RoomToAppend ==
    ASSUME IInv, Cardinality(Fds) <= MAX_REQUESTS + 1,
           NEW f \in Fds, ReadOk(f)
    PROVE  ~QueueFull
<1>1. IsFiniteSet(Fds \ {f}) /\ Cardinality(Fds \ {f}) = Cardinality(Fds) - 1
      /\ Cardinality(Fds) \in Nat
  BY ServerAssumption, FS_RemoveElement, FS_CardinalityType
<1>2. Len(queue) \in Nat /\ DOMAIN queue = 1..Len(queue)
      /\ queue \in [1..Len(queue) -> Fds]
  BY DEF IInv, TypeOK
<1>3. \A i \in 1..Len(queue) : queue[i] # f
  BY <1>2 DEF IInv, Ownership, SingleOwner, ReadOk, Dispatch, InBatch, Queued
<1>4. queue \in Injection(1..Len(queue), Fds \ {f})
  BY <1>2, <1>3 DEF Injection, IsInjective, IInv, Ownership, SingleOwner
<1>5. Cardinality(1..Len(queue)) <= Cardinality(Fds \ {f})
  BY <1>1, <1>4, FS_Injection
<1>6. Cardinality(1..Len(queue)) = Len(queue)
  BY <1>2, FS_Interval
<1> QED
  BY <1>1, <1>2, <1>5, <1>6, ServerAssumption DEF QueueFull

(* So no connection is ever forgotten by a server whose queue has room for *)
(* all the connections it can have.                                        *)
THEOREM NoneIsStranded ==
    ASSUME Cardinality(Fds) <= MAX_REQUESTS + 1
    PROVE  Spec => []NoneStranded
<1>1. Init => NoneStranded
  BY DEF Init, NoneStranded, Registered
<1>2. IInv /\ BatchDone /\ NoneStranded /\ [Next]_vars => NoneStranded'
  <2>1. ASSUME IInv, BatchDone, NoneStranded, Next PROVE NoneStranded'
    BY <2>1, RoomToAppend, TendedStep
  <2>2. ASSUME NoneStranded, UNCHANGED vars PROVE NoneStranded'
    BY <2>2 DEF vars, NoneStranded, Registered, Armed, InBatch, Queued, Held
  <2> QED
    BY <2>1, <2>2
<1> QED
  BY <1>1, <1>2, Inductive, BatchesDone, PTL DEF Spec
=============================================================================
