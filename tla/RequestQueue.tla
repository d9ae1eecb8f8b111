---------------------------- MODULE RequestQueue ----------------------------
(***************************************************************************)
(* What webserver/include/threadpool.h promises its caller, with the lock, *)
(* the semaphore and the threads' control flow left out: a bounded FIFO    *)
(* from which every accepted request is handed to exactly one worker, in   *)
(* the order of acceptance.  ThreadPool is shown to implement this module, *)
(* and so is WebServer, which is built on the atomic queue described here. *)
(***************************************************************************)
EXTENDS Naturals, Sequences

CONSTANTS
    Requests,   \* what T* may point to
    Workers,    \* the threads of the pool
    Capacity,   \* the number of requests that may wait
    NULL        \* no request

VARIABLES
    waiting,    \* accepted requests no worker has taken, oldest first
    serving     \* the request each worker is processing, or NULL

vars == <<waiting, serving>>

Init ==
    /\ waiting = <<>>
    /\ serving = [w \in Workers |-> NULL]

(* Append that returns true.  One that returns false changes nothing.      *)
Offer(r) ==
    /\ Len(waiting) < Capacity
    /\ waiting' = Append(waiting, r)
    /\ UNCHANGED serving

(* An idle worker leaves the wait with the oldest request.                 *)
Take(w) ==
    /\ serving[w] = NULL
    /\ waiting # <<>>
    /\ serving' = [serving EXCEPT ![w] = Head(waiting)]
    /\ waiting' = Tail(waiting)

(* Process() returned.                                                     *)
Finish(w) ==
    /\ serving[w] # NULL
    /\ serving' = [serving EXCEPT ![w] = NULL]
    /\ UNCHANGED waiting

Next ==
    \/ \E r \in Requests : Offer(r)
    \/ \E w \in Workers : Take(w) \/ Finish(w)

Spec == Init /\ [][Next]_vars
=============================================================================
