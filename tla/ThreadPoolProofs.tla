-------------------------- MODULE ThreadPoolProofs --------------------------
(***************************************************************************)
(* Proofs about ThreadPool, for any number of threads, any requests and    *)
(* any m_max_requests_.                                                    *)
(***************************************************************************)
EXTENDS ThreadPool, FiniteSetTheorems, TLAPS

(* What a thread holds goes with where it is, until it uses a destroyed    *)
(* pool; Append has its argument, and runs only as long as there is a      *)
(* pool.                                                                   *)
LocalsMatch ==
    /\ \A w \in Workers :
          wpc[w] # "undefined" =>
              (job[w] # NULL <=> wpc[w] \in {"popped", "process"})
    /\ mpc \in {"lock", "critical"} => arg \in Requests
    /\ stop => mpc = "out"

(* The bound the code enforces: one request more than m_max_requests_.     *)
OneMoreFits == Len(queue) <= MaxRequests + 1

(* Under the lock at most one thread looks at the queue, so the semaphore  *)
(* identity, the lock and the locals support one another.                  *)
IInv ==
    /\ TypeOK
    /\ LocalsMatch
    /\ QueueProtected
    /\ SemaphoreMatchesQueue
    /\ OneMoreFits
    /\ \A w \in Workers : wpc[w] # "empty"

-----------------------------------------------------------------------------
(* Initially nobody holds the lock and nothing waits.                      *)
LEMMA InitIInv == Init => IInv
<1> SUFFICES ASSUME Init
             PROVE  IInv
  OBVIOUS
<1> USE PoolAssumption DEF Init
<1>1. TypeOK
  <2>1. queue \in Seq(Requests)
    OBVIOUS
  <2>2. job \in [Workers -> Requests \cup {NULL}]
    OBVIOUS
  <2> QED
    BY <2>1, <2>2 DEF TypeOK
<1>2. LocalsMatch /\ QueueProtected /\ OneMoreFits
  BY DEF LocalsMatch, QueueProtected, MainInside, WorkerInside, OneMoreFits
<1>3. Entitled = {}
  BY DEF Entitled
<1>4. SemaphoreMatchesQueue
  BY <1>3, FS_EmptySet DEF SemaphoreMatchesQueue, Unposted
<1> QED
  BY <1>1, <1>2, <1>4 DEF IInv

(* A thread that holds the lock in order to pop is one of the finitely     *)
(* many entitled ones, so the queue is not empty.                          *)
LEMMA NonEmptyForPop ==
    ASSUME IInv, NEW w \in Workers, wpc[w] = "critical", ~stop
    PROVE  queue # <<>> /\ Len(queue) \in Nat /\ Cardinality(Entitled) \in Nat
<1>1. IsFiniteSet(Entitled) /\ Cardinality(Entitled) \in Nat
  BY PoolAssumption, FS_Subset, FS_CardinalityType DEF Entitled
<1>2. Entitled # {}
  BY DEF Entitled
<1>3. Cardinality(Entitled) # 0
  BY <1>1, <1>2, FS_EmptySet
<1> QED
  BY <1>1, <1>3 DEF IInv, SemaphoreMatchesQueue, Unposted, TypeOK

(* Each step keeps the types.                                              *)
LEMMA TypeStep ==
    ASSUME IInv, Next
    PROVE  TypeOK' /\ LocalsMatch'
<1> USE PoolAssumption DEF IInv, TypeOK, LocalsMatch
<1>1. ASSUME NEW r \in Requests, AppendCall(r)
      PROVE  TypeOK' /\ LocalsMatch'
  BY <1>1 DEF AppendCall
<1>2. CASE AppendLock
  BY <1>2 DEF AppendLock
<1>3. CASE AppendCheck
  <2>1. queue' \in Seq(Requests)
    BY <1>3 DEF AppendCheck
  <2> QED
    BY <1>3, <2>1 DEF AppendCheck
<1>4. CASE AppendUnlock
  BY <1>4 DEF AppendUnlock
<1>5. CASE AppendPost
  BY <1>5 DEF AppendPost
<1>6. CASE Destroy
  BY <1>6 DEF Destroy
<1>7. ASSUME NEW w \in Workers, WaitSem(w)
      PROVE  TypeOK' /\ LocalsMatch'
  BY <1>7 DEF WaitSem
<1>8. ASSUME NEW w \in Workers, LockQueue(w)
      PROVE  TypeOK' /\ LocalsMatch'
  BY <1>8 DEF LockQueue
<1>9. ASSUME NEW w \in Workers, PopFront(w)
      PROVE  TypeOK' /\ LocalsMatch'
  <2>1. queue # <<>> /\ Head(queue) \in Requests
    BY <1>9, NonEmptyForPop DEF PopFront
  <2>2. queue' = Tail(queue) /\ Tail(queue) \in Seq(Requests)
    BY <1>9, <2>1 DEF PopFront
  <2>3. /\ wpc' = [wpc EXCEPT ![w] = "popped"]
        /\ job' = [job EXCEPT ![w] = Head(queue)]
        /\ UNCHANGED <<sem, mutex, stop, mpc, arg>>
    BY <1>9, <2>1 DEF PopFront
  <2>4. TypeOK'
    BY <2>1, <2>2, <2>3
  <2>5. LocalsMatch'
    BY <2>1, <2>3
  <2> QED
    BY <2>4, <2>5
<1>10. ASSUME NEW w \in Workers, UnlockQueue(w)
      PROVE  TypeOK' /\ LocalsMatch'
  BY <1>10 DEF UnlockQueue
<1>11. ASSUME NEW w \in Workers, Process(w)
      PROVE  TypeOK' /\ LocalsMatch'
  BY <1>11 DEF Process
<1>12. ASSUME NEW w \in Workers, UseDestroyed(w)
      PROVE  TypeOK' /\ LocalsMatch'
  BY <1>12 DEF UseDestroyed
<1> QED
  BY <1>1, <1>2, <1>3, <1>4, <1>5, <1>6, <1>7, <1>8, <1>9, <1>10, <1>11,
     <1>12
     DEF Next, AppendStep, RunStep

(* Each step keeps the recorded holder of the lock.                        *)
LEMMA LockStep ==
    ASSUME IInv, Next
    PROVE  QueueProtected' /\ \A w \in Workers : wpc'[w] # "empty"
<1> USE PoolAssumption DEF IInv, TypeOK, QueueProtected, MainInside, WorkerInside
<1>1. ASSUME NEW r \in Requests, AppendCall(r)
      PROVE  QueueProtected' /\ \A w \in Workers : wpc'[w] # "empty"
  BY <1>1 DEF AppendCall
<1>2. CASE AppendLock
  BY <1>2 DEF AppendLock
<1>3. CASE AppendCheck
  BY <1>3 DEF AppendCheck
<1>4. CASE AppendUnlock
  BY <1>4 DEF AppendUnlock
<1>5. CASE AppendPost
  BY <1>5 DEF AppendPost
<1>6. CASE Destroy
  BY <1>6 DEF Destroy
<1>7. ASSUME NEW w \in Workers, WaitSem(w)
      PROVE  QueueProtected' /\ \A v \in Workers : wpc'[v] # "empty"
  BY <1>7 DEF WaitSem
<1>8. ASSUME NEW w \in Workers, LockQueue(w)
      PROVE  QueueProtected' /\ \A v \in Workers : wpc'[v] # "empty"
  BY <1>8 DEF LockQueue
<1>9. ASSUME NEW w \in Workers, PopFront(w)
      PROVE  QueueProtected' /\ \A v \in Workers : wpc'[v] # "empty"
  BY <1>9, NonEmptyForPop DEF PopFront
<1>10. ASSUME NEW w \in Workers, UnlockQueue(w)
      PROVE  QueueProtected' /\ \A v \in Workers : wpc'[v] # "empty"
  BY <1>10 DEF UnlockQueue
<1>11. ASSUME NEW w \in Workers, Process(w)
      PROVE  QueueProtected' /\ \A v \in Workers : wpc'[v] # "empty"
  BY <1>11 DEF Process
<1>12. ASSUME NEW w \in Workers, UseDestroyed(w)
      PROVE  QueueProtected' /\ \A v \in Workers : wpc'[v] # "empty"
  BY <1>12 DEF UseDestroyed
<1> QED
  BY <1>1, <1>2, <1>3, <1>4, <1>5, <1>6, <1>7, <1>8, <1>9, <1>10, <1>11,
     <1>12
     DEF Next, AppendStep, RunStep

(* Each step moves a unit between the semaphore, the entitled threads and  *)
(* main, or the queue gains or loses a request with it.                    *)
LEMMA CountStep ==
    ASSUME IInv, Next
    PROVE  SemaphoreMatchesQueue' /\ OneMoreFits'
<1> USE PoolAssumption DEF IInv, TypeOK, OneMoreFits
<1> DEFINE Goal == SemaphoreMatchesQueue' /\ OneMoreFits'
<1>0. IsFiniteSet(Entitled) /\ Cardinality(Entitled) \in Nat
  BY FS_Subset, FS_CardinalityType DEF Entitled
<1>1. ASSUME NEW r \in Requests, AppendCall(r)
      PROVE  Goal
  BY <1>1 DEF AppendCall, SemaphoreMatchesQueue, Entitled, Unposted
<1>2. CASE AppendLock
  BY <1>2 DEF AppendLock, SemaphoreMatchesQueue, Entitled, Unposted
<1>3. CASE AppendCheck
  <2>1. Entitled' = Entitled
    BY <1>3 DEF AppendCheck, Entitled
  <2>2. CASE QueueFull
    BY <1>3, <2>1, <2>2 DEF AppendCheck, SemaphoreMatchesQueue, Unposted
  <2>3. CASE ~QueueFull
    <3>1. arg \in Requests /\ queue' = Append(queue, arg) /\ mpc' = "pushed"
      BY <1>3, <2>3 DEF AppendCheck, LocalsMatch
    <3>2. /\ Len(queue') = Len(queue) + 1 /\ Unposted' = Unposted + 1
          /\ sem' = sem /\ stop' = stop
      BY <1>3, <3>1 DEF AppendCheck, Unposted
    <3>3. Len(queue) \in Nat /\ Len(queue) <= MaxRequests
      BY <2>3 DEF QueueFull
    <3>4. Unposted \in Nat
      BY DEF Unposted
    <3> QED
      BY <1>0, <2>1, <3>2, <3>3, <3>4 DEF SemaphoreMatchesQueue
  <2> QED
    BY <2>2, <2>3
<1>4. CASE AppendUnlock
  BY <1>4 DEF AppendUnlock, SemaphoreMatchesQueue, Entitled, Unposted
<1>5. CASE AppendPost
  <2>1. Entitled' = Entitled /\ queue' = queue /\ sem' = sem + 1
        /\ stop' = stop /\ Unposted = 1 /\ Unposted' = 0
    BY <1>5 DEF AppendPost, Entitled, Unposted
  <2> QED
    BY <1>0, <2>1 DEF SemaphoreMatchesQueue
<1>6. CASE Destroy
  BY <1>6 DEF Destroy, SemaphoreMatchesQueue, Entitled, Unposted
<1>7. ASSUME NEW w \in Workers, WaitSem(w)
      PROVE  Goal
  <2>1. Entitled' = Entitled \cup {w} /\ w \notin Entitled
    BY <1>7 DEF WaitSem, Entitled
  <2>2. Cardinality(Entitled') = Cardinality(Entitled) + 1
    BY <1>0, <2>1, FS_AddElement
  <2>3. queue' = queue /\ sem' = sem - 1 /\ Unposted' = Unposted
        /\ ~stop /\ ~stop'
    BY <1>7 DEF WaitSem, Unposted
  <2>4. Unposted \in Nat
    BY DEF Unposted
  <2> QED
    BY <1>0, <2>2, <2>3, <2>4 DEF SemaphoreMatchesQueue
<1>8. ASSUME NEW w \in Workers, LockQueue(w)
      PROVE  Goal
  <2>1. Entitled' = Entitled
    BY <1>8 DEF LockQueue, Entitled
  <2> QED
    BY <1>8, <2>1 DEF LockQueue, SemaphoreMatchesQueue, Unposted
<1>9. ASSUME NEW w \in Workers, PopFront(w)
      PROVE  Goal
  <2>1. queue # <<>> /\ queue' = Tail(queue)
    BY <1>9, NonEmptyForPop DEF PopFront
  <2>2. Len(queue') = Len(queue) - 1 /\ Len(queue) \in Nat
    BY <2>1
  <2>3. Entitled' = Entitled \ {w} /\ w \in Entitled
    BY <1>9, <2>1 DEF PopFront, Entitled
  <2>4. Cardinality(Entitled') = Cardinality(Entitled) - 1
    BY <1>0, <2>3, FS_RemoveElement
  <2>5. sem' = sem /\ Unposted' = Unposted /\ Unposted \in Nat
        /\ ~stop /\ ~stop'
    BY <1>9 DEF PopFront, Unposted
  <2> QED
    BY <1>0, <2>2, <2>4, <2>5 DEF SemaphoreMatchesQueue
<1>10. ASSUME NEW w \in Workers, UnlockQueue(w)
      PROVE  Goal
  <2>1. Entitled' = Entitled
    BY <1>10 DEF UnlockQueue, Entitled
  <2> QED
    BY <1>10, <2>1 DEF UnlockQueue, SemaphoreMatchesQueue, Unposted
<1>11. ASSUME NEW w \in Workers, Process(w)
      PROVE  Goal
  <2>1. Entitled' = Entitled
    BY <1>11 DEF Process, Entitled
  <2> QED
    BY <1>11, <2>1 DEF Process, SemaphoreMatchesQueue, Unposted
<1>12. ASSUME NEW w \in Workers, UseDestroyed(w)
      PROVE  Goal
  BY <1>12 DEF UseDestroyed, SemaphoreMatchesQueue
<1> QED
  BY <1>1, <1>2, <1>3, <1>4, <1>5, <1>6, <1>7, <1>8, <1>9, <1>10, <1>11,
     <1>12
     DEF Next, AppendStep, RunStep

-----------------------------------------------------------------------------
(* IInv is an inductive invariant of the pool.                             *)
THEOREM Inductive == Spec => []IInv
<1>1. Init => IInv
  BY InitIInv
<1>2. IInv /\ [Next]_vars => IInv'
  <2>1. ASSUME IInv, Next
        PROVE  IInv'
    BY <2>1, TypeStep, LockStep, CountStep DEF IInv
  <2>2. ASSUME IInv, UNCHANGED vars
        PROVE  IInv'
    BY <2>2 DEF vars, IInv, TypeOK, LocalsMatch, QueueProtected, MainInside,
                WorkerInside, SemaphoreMatchesQueue, Entitled, Unposted,
                OneMoreFits
  <2> QED
    BY <2>1, <2>2
<1> QED
  BY <1>1, <1>2, PTL DEF Spec

(* Every variable keeps its type.                                          *)
THEOREM TypeCorrect == Spec => []TypeOK
<1>1. IInv => TypeOK
  BY DEF IInv
<1> QED
  BY <1>1, Inductive, PTL

(* m_queuelocker_ protects the request queue: at most one thread is        *)
(* between Lock and unLock, for any number of threads.                     *)
THEOREM LockProtects == Spec => []QueueProtected
<1>1. IInv => QueueProtected
  BY DEF IInv
<1> QED
  BY <1>1, Inductive, PTL

(* The semaphore's units, the threads that hold one and main's pending     *)
(* Post add up to the requests in the queue: no wakeup is lost or extra.   *)
THEOREM SemaphoreCounts == Spec => []SemaphoreMatchesQueue
<1>1. IInv => SemaphoreMatchesQueue
  BY DEF IInv
<1> QED
  BY <1>1, Inductive, PTL

(* A thread that came past the semaphore and the lock finds a request.     *)
THEOREM PopSucceeds == Spec => []PopFindsRequest
<1>1. IInv => PopFindsRequest
  BY NonEmptyForPop DEF IInv, PopFindsRequest
<1> QED
  BY <1>1, Inductive, PTL

(* The lock and the semaphore make the pool an atomic bounded FIFO: each   *)
(* accepted request goes to exactly one thread, in order.                  *)
THEOREM ImplementsQueue == Spec => ImplementsRequestQueue
<1>1. Init => RQ!Init
  BY DEF Init, RQ!Init
<1>2. IInv /\ [Next]_vars => [RQ!Next]_RQ!vars
  <2> SUFFICES ASSUME IInv, [Next]_vars
               PROVE  [RQ!Next]_RQ!vars
    OBVIOUS
  <2> USE DEF IInv, RQ!vars
  <2>1. CASE AppendCheck
    <3>1. CASE QueueFull
      BY <2>1, <3>1 DEF AppendCheck
    <3>2. CASE ~QueueFull
      <4>1. arg \in Requests
        BY <2>1 DEF AppendCheck, LocalsMatch
      <4>2. Len(queue) < MaxRequests + 1
        BY <3>2, PoolAssumption DEF QueueFull, TypeOK
      <4>3. RQ!Offer(arg)
        BY <2>1, <3>2, <4>2 DEF AppendCheck, RQ!Offer
      <4> QED
        BY <4>1, <4>3 DEF RQ!Next
    <3> QED
      BY <3>1, <3>2
  <2>2. ASSUME NEW w \in Workers, PopFront(w)
        PROVE  [RQ!Next]_RQ!vars
    <3>1. wpc[w] = "critical" /\ ~stop /\ queue # <<>>
      BY <2>2, NonEmptyForPop DEF PopFront
    <3>2. RQ!Take(w)
      BY <2>2, <3>1 DEF PopFront, LocalsMatch, RQ!Take
    <3> QED
      BY <3>2 DEF RQ!Next
  <2>3. ASSUME NEW w \in Workers, Process(w)
        PROVE  [RQ!Next]_RQ!vars
    <3>1. RQ!Finish(w)
      BY <2>3 DEF Process, LocalsMatch, RQ!Finish
    <3> QED
      BY <3>1 DEF RQ!Next
  <2>4. CASE UNCHANGED <<queue, job>>
    BY <2>4
  <2> QED
    BY <2>1, <2>2, <2>3, <2>4
       DEF vars, Next, AppendStep, RunStep, AppendCall, AppendLock,
           AppendUnlock, AppendPost, Destroy, WaitSem, LockQueue, UnlockQueue, UseDestroyed
<1> QED
  BY <1>1, <1>2, Inductive, PTL DEF Spec, ImplementsRequestQueue, RQ!Spec
=============================================================================
