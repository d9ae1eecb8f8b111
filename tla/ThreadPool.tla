----------------------------- MODULE ThreadPool -----------------------------
(***************************************************************************)
(* webserver/include/threadpool.h over webserver/include/locker.h: one     *)
(* thread (main) calls Append, the pool's threads execute Run for ever.    *)
(* Every call that takes the lock, releases it, waits on or posts the      *)
(* semaphore is a step of its own; what happens under the lock is one      *)
(* step.  Process() is one step here: WebServer models what it does.       *)
(***************************************************************************)
EXTENDS Naturals, Sequences, FiniteSets

CONSTANTS
    Requests,     \* the objects a T* may point to
    Workers,      \* the m_thread_number_ threads the constructor creates
    MaxRequests,  \* m_max_requests_
    MayDestroy,   \* whether ~ThreadPool may be called
    Main,         \* the thread that calls Append
    NULL          \* no thread, no request

ASSUME PoolAssumption ==
    /\ MaxRequests \in Nat \ {0}
    /\ Workers # {}
    /\ IsFiniteSet(Workers)
    /\ MayDestroy \in BOOLEAN
    /\ Main \notin Workers
    /\ NULL \notin Workers \cup {Main}
    /\ NULL \notin Requests

VARIABLES
    queue,    \* m_workqueue_
    sem,      \* the count of m_queuestat_
    mutex,    \* the holder of m_queuelocker_, or NULL
    stop,     \* m_stop_: the destructor has run
    mpc,      \* where main is in Append
    arg,      \* the argument of the current Append
    wpc,      \* where each worker is in Run
    job       \* the local variable request of each worker

vars == <<queue, sem, mutex, stop, mpc, arg, wpc, job>>
-----------------------------------------------------------------------------
Init ==
    /\ queue = <<>>
    /\ sem = 0
    /\ mutex = NULL
    /\ stop = FALSE
    /\ mpc = "out"
    /\ arg = NULL
    /\ wpc = [w \in Workers |-> "wait"]
    /\ job = [w \in Workers |-> NULL]

(***************************************************************************)
(* Append(request), called by main.                                        *)
(***************************************************************************)
AppendCall(r) ==
    /\ mpc = "out"
    /\ ~stop
    /\ mpc' = "lock"
    /\ arg' = r
    /\ UNCHANGED <<queue, sem, mutex, stop, wpc, job>>

AppendLock ==
    /\ mpc = "lock"
    /\ mutex = NULL
    /\ mutex' = Main
    /\ mpc' = "critical"
    /\ UNCHANGED <<queue, sem, stop, arg, wpc, job>>

(* The guard of threadpool.h is size() > m_max_requests_, so a request is  *)
(* still accepted when m_max_requests_ of them are waiting.                *)
QueueFull == Len(queue) > MaxRequests

AppendCheck ==
    /\ mpc = "critical"
    /\ IF QueueFull
       THEN mpc' = "refused" /\ queue' = queue
       ELSE mpc' = "pushed" /\ queue' = Append(queue, arg)
    /\ UNCHANGED <<sem, mutex, stop, arg, wpc, job>>

(* Mutant of AppendUnlock: Post is forgotten.                              *)
AppendUnlockOnly ==
    /\ mpc \in {"pushed", "refused"}
    /\ mutex' = NULL
    /\ mpc' = "out"
    /\ arg' = NULL
    /\ UNCHANGED <<queue, sem, stop, wpc, job>>

AppendUnlock ==
    /\ mpc \in {"pushed", "refused"}
    /\ mutex' = NULL
    /\ mpc' = IF mpc = "pushed" THEN "post" ELSE "out"
    /\ arg' = NULL
    /\ UNCHANGED <<queue, sem, stop, wpc, job>>

AppendPost ==
    /\ mpc = "post"
    /\ sem' = sem + 1
    /\ mpc' = "out"
    /\ UNCHANGED <<queue, mutex, stop, arg, wpc, job>>

(* delete pool: the body of ~ThreadPool frees the array of thread ids and  *)
(* sets m_stop_, which Run never reads; the list, the mutex and the        *)
(* semaphore are destroyed behind it.  The threads see nothing of the body *)
(* so that both are one step.                                              *)
Destroy ==
    /\ MayDestroy
    /\ mpc = "out"
    /\ ~stop
    /\ stop' = TRUE
    /\ UNCHANGED <<queue, sem, mutex, mpc, arg, wpc, job>>

(***************************************************************************)
(* Run(), executed by each worker.  The members it uses are there until    *)
(* the pool is destroyed.                                                  *)
(***************************************************************************)
(* Mutant of WaitSem: sem_trywait, whose failure nobody looks at: the      *)
(* worker goes on, and the unit it did not get is counted as a debt.       *)
TryWaitSem(w) ==
    /\ wpc[w] = "wait"
    /\ ~stop
    /\ sem' = sem - 1
    /\ wpc' = [wpc EXCEPT ![w] = "lock"]
    /\ UNCHANGED <<queue, mutex, stop, mpc, arg, job>>

WaitSem(w) ==
    /\ wpc[w] = "wait"
    /\ ~stop
    /\ sem > 0
    /\ sem' = sem - 1
    /\ wpc' = [wpc EXCEPT ![w] = "lock"]
    /\ UNCHANGED <<queue, mutex, stop, mpc, arg, job>>

(* Mutant of LockQueue: the worker goes on without the lock.               *)
LockQueueFails(w) ==
    /\ wpc[w] = "lock"
    /\ ~stop
    /\ wpc' = [wpc EXCEPT ![w] = "critical"]
    /\ UNCHANGED <<queue, sem, mutex, stop, mpc, arg, job>>

LockQueue(w) ==
    /\ wpc[w] = "lock"
    /\ ~stop
    /\ mutex = NULL
    /\ mutex' = w
    /\ wpc' = [wpc EXCEPT ![w] = "critical"]
    /\ UNCHANGED <<queue, sem, stop, mpc, arg, job>>

(* Mutant of PopFront: back() and pop_back().                              *)
PopBack(w) ==
    /\ wpc[w] = "critical"
    /\ ~stop
    /\ queue # <<>>
    /\ wpc' = [wpc EXCEPT ![w] = "popped"]
    /\ job' = [job EXCEPT ![w] = queue[Len(queue)]]
    /\ queue' = SubSeq(queue, 1, Len(queue) - 1)
    /\ UNCHANGED <<sem, mutex, stop, mpc, arg>>

PopFront(w) ==
    /\ wpc[w] = "critical"
    /\ ~stop
    /\ IF queue = <<>>
       THEN /\ wpc' = [wpc EXCEPT ![w] = "empty"]
            /\ UNCHANGED <<queue, job>>
       ELSE /\ wpc' = [wpc EXCEPT ![w] = "popped"]
            /\ job' = [job EXCEPT ![w] = Head(queue)]
            /\ queue' = Tail(queue)
    /\ UNCHANGED <<sem, mutex, stop, mpc, arg>>

UnlockQueue(w) ==
    /\ wpc[w] \in {"empty", "popped"}
    /\ ~stop
    /\ mutex' = NULL
    /\ wpc' = [wpc EXCEPT ![w] = IF @ = "popped" THEN "process" ELSE "wait"]
    /\ UNCHANGED <<queue, sem, stop, mpc, arg, job>>

Process(w) ==
    /\ wpc[w] = "process"
    /\ wpc' = [wpc EXCEPT ![w] = "wait"]
    /\ job' = [job EXCEPT ![w] = NULL]
    /\ UNCHANGED <<queue, sem, mutex, stop, mpc, arg>>

(* A thread that waits on the destroyed semaphore or goes on to the mutex  *)
(* or the list: undefined, and nothing is said of what that thread does    *)
(* from there.                                                             *)
UseDestroyed(w) ==
    /\ stop
    /\ wpc[w] \notin {"process", "undefined"}
    /\ wpc' = [wpc EXCEPT ![w] = "undefined"]
    /\ UNCHANGED <<queue, sem, mutex, stop, mpc, arg, job>>
-----------------------------------------------------------------------------
AppendStep ==
    AppendLock \/ AppendCheck \/ AppendUnlock \/ AppendPost

RunStep(w) ==
    WaitSem(w) \/ LockQueue(w) \/ PopFront(w) \/ UnlockQueue(w) \/ Process(w)

Next ==
    \/ \E r \in Requests : AppendCall(r)
    \/ AppendStep
    \/ Destroy
    \/ \E w \in Workers : RunStep(w) \/ UseDestroyed(w)

(* Every thread that can go on does.  A thread that waits for the mutex    *)
(* gets it if it is free again and again: strong fairness of the lock.     *)
Fairness ==
    /\ WF_vars(AppendStep)
    /\ SF_vars(AppendLock)
    /\ \A w \in Workers : WF_vars(RunStep(w)) /\ SF_vars(LockQueue(w))

Spec == Init /\ [][Next]_vars
FairSpec == Spec /\ Fairness
-----------------------------------------------------------------------------
(* Every variable has its type.                                            *)
TypeOK ==
    /\ queue \in Seq(Requests)
    /\ sem \in Nat
    /\ mutex \in Workers \cup {Main, NULL}
    /\ stop \in BOOLEAN
    /\ mpc \in {"out", "lock", "critical", "pushed", "refused", "post"}
    /\ arg \in Requests \cup {NULL}
    /\ wpc \in [Workers ->
            {"wait", "lock", "critical", "popped", "empty", "process",
             "undefined"}]
    /\ job \in [Workers -> Requests \cup {NULL}]

MainInside == mpc \in {"critical", "pushed", "refused"}
WorkerInside(w) == wpc[w] \in {"critical", "popped", "empty"}

(* m_queuelocker_ works as the header says (it protects the request        *)
(* queue): as long as there is a pool, no two threads are between Lock and *)
(* unLock at once, and the recorded holder is the thread that is there.    *)
QueueProtected ==
    ~stop => /\ MainInside <=> mutex = Main
             /\ \A w \in Workers : WorkerInside(w) <=> mutex = w

(* A worker has passed sem_wait and not yet popped; main has pushed and    *)
(* not yet posted.                                                         *)
Entitled == {w \in Workers : wpc[w] \in {"lock", "critical"}}
Unposted == IF mpc \in {"pushed", "post"} THEN 1 ELSE 0

(* The semaphore never promises more or less than the queue holds: as long *)
(* as there is a pool, every waiting request is matched by a unit of the   *)
(* semaphore, by a worker that took such a unit, or by main on its way to  *)
(* Post.                                                                   *)
SemaphoreMatchesQueue ==
    ~stop => Len(queue) = sem + Cardinality(Entitled) + Unposted

(* A worker that holds the lock in order to pop finds a request: the test  *)
(* of empty() in Run, which would lose a wakeup, never succeeds.           *)
PopFindsRequest ==
    \A w \in Workers : /\ ~stop /\ wpc[w] = "critical" => queue # <<>>
                       /\ wpc[w] # "empty"

(* The pool implements the abstract queue: nothing is lost, duplicated or  *)
(* overtaken.  It has room for one request more than threadpool.h says of  *)
(* m_max_requests_.                                                        *)
RQ == INSTANCE RequestQueue
        WITH Capacity <- MaxRequests + 1, waiting <- queue, serving <- job
ImplementsRequestQueue == RQ!Spec

(* Every accepted request reaches a worker, whatever main does meanwhile,  *)
(* unless main destroys the pool: what waits then is served by nobody.     *)
EveryRequestServed ==
    \A r \in Requests :
        (\E i \in DOMAIN queue : queue[i] = r)
            ~> (stop \/ \E w \in Workers : job[w] = r)
=============================================================================
