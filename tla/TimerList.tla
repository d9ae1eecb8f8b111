----------------------------- MODULE TimerList ------------------------------
(***************************************************************************)
(* Sort_Timer_List of webserver/src/lst_timer.cpp, pointer by pointer: a   *)
(* doubly linked list of the timers of the connections, which main adds to *)
(* on accept, adjusts on every read and deletes from in CloseConn.         *)
(*                                                                         *)
(* A timer stands for the memory of one Util_Timer.  Deadlines come from   *)
(* time(), a wall clock, so an accept may bring any of them; a read only   *)
(* puts a deadline off, the one case Adjust_Timer says it handles.         *)
(***************************************************************************)
EXTENDS Naturals, Sequences, FiniteSets

CONSTANTS
    Timers,     \* the Util_Timer objects that can be allocated
    MaxTime,    \* deadlines are 1..MaxTime
    NULL        \* nullptr

ASSUME TimerAssumption ==
    /\ IsFiniteSet(Timers)
    /\ MaxTime \in Nat
    /\ NULL \notin Timers

Deadlines == 1..MaxTime

VARIABLES
    head, tail,   \* head_ and tail_
    next, prev,   \* next_ and prev_ of each timer
    expire,       \* expire_ of each timer
    allocated     \* the timers that are not freed: an m_timer_ points to each

vars == <<head, tail, next, prev, expire, allocated>>

Init ==
    /\ head = NULL
    /\ tail = NULL
    /\ next = [t \in Timers |-> NULL]
    /\ prev = [t \in Timers |-> NULL]
    /\ expire = [t \in Timers |-> 0]
    /\ allocated = {}
-----------------------------------------------------------------------------
(* Mutant of InsertionPoint: in front of those with the same deadline.     *)
InsertionPointEarly(start, e, nxt) ==
    LET walk[p \in Timers] ==
            IF nxt[p] = NULL THEN p
            ELSE IF e <= expire[nxt[p]] THEN p
            ELSE walk[nxt[p]]
    IN walk[start]

(* The loop of Add_Timer(timer, lst_head_): from lst_head_ on, the node    *)
(* behind which a timer that expires at e goes.                            *)
InsertionPoint(start, e, nxt) ==
    LET walk[p \in Timers] ==
            IF nxt[p] = NULL THEN p
            ELSE IF e < expire[nxt[p]] THEN p
            ELSE walk[nxt[p]]
    IN walk[start]

(* Mutant of AddBehind: tail_ is not set.                                  *)
AddBehindOnly(t, start, e, nxt, prv) ==
    LET p == InsertionPoint(start, e, nxt)
        n == nxt[p]
    IN /\ next' = [nxt EXCEPT ![p] = t, ![t] = n]
       /\ prev' = [u \in Timers |-> IF u = t THEN p
                                    ELSE IF u = n THEN t ELSE prv[u]]
       /\ UNCHANGED tail

(* Add_Timer(timer, lst_head_) on the links nxt and prv.                   *)
AddBehind(t, start, e, nxt, prv) ==
    LET p == InsertionPoint(start, e, nxt)
        n == nxt[p]
    IN /\ next' = [nxt EXCEPT ![p] = t, ![t] = n]
       /\ prev' = [u \in Timers |-> IF u = t THEN p
                                    ELSE IF u = n THEN t ELSE prv[u]]
       /\ tail' = IF n = NULL THEN t ELSE tail

(* Add_Timer(timer): a new timer with no neighbours.                       *)
AddFirst(t, e) ==
    /\ t \notin allocated
    /\ head = NULL
    /\ head' = t
    /\ tail' = t
    /\ expire' = [expire EXCEPT ![t] = e]
    /\ allocated' = allocated \cup {t}
    /\ UNCHANGED <<next, prev>>

AddInFront(t, e) ==
    /\ t \notin allocated
    /\ head # NULL
    /\ e < expire[head]
    /\ next' = [next EXCEPT ![t] = head]
    /\ prev' = [prev EXCEPT ![head] = t]
    /\ head' = t
    /\ expire' = [expire EXCEPT ![t] = e]
    /\ allocated' = allocated \cup {t}
    /\ UNCHANGED tail

AddFurther(t, e) ==
    /\ t \notin allocated
    /\ head # NULL
    /\ e >= expire[head]
    /\ AddBehind(t, head, e, next, prev)
    /\ expire' = [expire EXCEPT ![t] = e]
    /\ allocated' = allocated \cup {t}
    /\ UNCHANGED head

(* Mutant of InPlace: the deadline the timer had before.                   *)
InPlaceBefore(t, e) == next[t] # NULL => expire[t] <= expire[next[t]]

(* Adjust_Timer(timer), after main has set the timer's deadline.  That it  *)
(* is put off, e >= expire[t], is what lst_timer.cpp says of its callers;  *)
(* main adds a constant to time(), which gives that as long as the clock   *)
(* is not set back between two events of a connection.                     *)
InPlace(t, e) == next[t] # NULL => e < expire[next[t]]

(* Mutant of AdjustStays: main adds to the deadline.                       *)
AdjustAdds(t, e) ==
    /\ t \in allocated
    /\ e >= expire[t]
    /\ InPlace(t, e)
    /\ expire' = [expire EXCEPT ![t] = @ + e]
    /\ UNCHANGED <<head, tail, next, prev, allocated>>

AdjustStays(t, e) ==
    /\ t \in allocated
    /\ e >= expire[t]
    /\ InPlace(t, e)
    /\ expire' = [expire EXCEPT ![t] = e]
    /\ UNCHANGED <<head, tail, next, prev, allocated>>

AdjustHead(t, e) ==
    /\ t \in allocated
    /\ e >= expire[t]
    /\ ~InPlace(t, e)
    /\ t = head
    /\ head' = next[head]
    /\ AddBehind(t, next[head], e, [next EXCEPT ![t] = NULL],
                 [prev EXCEPT ![next[head]] = NULL])
    /\ expire' = [expire EXCEPT ![t] = e]
    /\ UNCHANGED allocated

AdjustInner(t, e) ==
    /\ t \in allocated
    /\ e >= expire[t]
    /\ ~InPlace(t, e)
    /\ t # head
    /\ AddBehind(t, head, e, [next EXCEPT ![prev[t]] = next[t]],
                 [prev EXCEPT ![next[t]] = prev[t]])
    /\ expire' = [expire EXCEPT ![t] = e]
    /\ UNCHANGED <<head, allocated>>

(* delete timer: the memory is free for another one.                       *)
Free(t) ==
    /\ allocated' = allocated \ {t}
    /\ expire' = [expire EXCEPT ![t] = 0]

(* Del_Timer(timer): the only one, the first, the last or one between.     *)
DelOnly(t) ==
    /\ t \in allocated
    /\ t = head /\ t = tail
    /\ head' = NULL
    /\ tail' = NULL
    /\ next' = [next EXCEPT ![t] = NULL]
    /\ prev' = [prev EXCEPT ![t] = NULL]
    /\ Free(t)

(* Mutant of DelHead: the new first timer keeps its prev_.                 *)
DelHeadOnly(t) ==
    /\ t \in allocated
    /\ t = head /\ t # tail
    /\ head' = next[head]
    /\ next' = [next EXCEPT ![t] = NULL]
    /\ prev' = [prev EXCEPT ![t] = NULL]
    /\ Free(t)
    /\ UNCHANGED tail

DelHead(t) ==
    /\ t \in allocated
    /\ t = head /\ t # tail
    /\ head' = next[head]
    /\ next' = [next EXCEPT ![t] = NULL]
    /\ prev' = [prev EXCEPT ![next[head]] = NULL, ![t] = NULL]
    /\ Free(t)
    /\ UNCHANGED tail

DelTail(t) ==
    /\ t \in allocated
    /\ t # head /\ t = tail
    /\ tail' = prev[tail]
    /\ next' = [next EXCEPT ![prev[tail]] = NULL, ![t] = NULL]
    /\ prev' = [prev EXCEPT ![t] = NULL]
    /\ Free(t)
    /\ UNCHANGED head

DelInner(t) ==
    /\ t \in allocated
    /\ t # head /\ t # tail
    /\ next' = [next EXCEPT ![prev[t]] = next[t], ![t] = NULL]
    /\ prev' = [prev EXCEPT ![next[t]] = prev[t], ![t] = NULL]
    /\ Free(t)
    /\ UNCHANGED <<head, tail>>
-----------------------------------------------------------------------------
AddTimer(t, e) == AddFirst(t, e) \/ AddInFront(t, e) \/ AddFurther(t, e)
AdjustTimer(t, e) == AdjustStays(t, e) \/ AdjustHead(t, e) \/ AdjustInner(t, e)
DelTimer(t) == DelOnly(t) \/ DelHead(t) \/ DelTail(t) \/ DelInner(t)

Next ==
    \E t \in Timers :
        \/ \E e \in Deadlines : AddTimer(t, e) \/ AdjustTimer(t, e)
        \/ DelTimer(t)

Spec == Init /\ [][Next]_vars
-----------------------------------------------------------------------------
Pointer == Timers \cup {NULL}

(* Every variable has its type.                                            *)
TypeOK ==
    /\ head \in Pointer /\ tail \in Pointer
    /\ next \in [Timers -> Pointer]
    /\ prev \in [Timers -> Pointer]
    /\ expire \in [Timers -> 0..MaxTime]
    /\ allocated \subseteq Timers

(* The n timers reached from p along a link, as a sequence.                *)
Along(p, link) ==
    LET steps[n \in 0..Cardinality(Timers)] ==
            [u \in Pointer |-> IF n = 0 \/ u = NULL THEN <<>>
                               ELSE <<u>> \o steps[n - 1][link[u]]]
    IN steps[Cardinality(Timers)][p]

Forward == Along(head, next)
Backward == Along(tail, prev)

(* From head_ along next_ and from tail_ along prev_ the list is the same  *)
(* timers in opposite orders, and these are exactly the timers that some   *)
(* connection owns: none is lost, linked twice or linked after its delete. *)
WellLinked ==
    /\ Len(Forward) = Cardinality(allocated)
    /\ {Forward[i] : i \in DOMAIN Forward} = allocated
    /\ Len(Backward) = Len(Forward)
    /\ \A i \in DOMAIN Forward :
           Forward[i] = Backward[Len(Forward) + 1 - i]

(* Nothing leads from the list, its ends included, to freed memory.        *)
NothingDangles ==
    /\ \A t \in allocated : {next[t], prev[t]} \subseteq allocated \cup {NULL}
    /\ {head, tail} \subseteq allocated \cup {NULL}
    /\ head # NULL => prev[head] = NULL /\ next[tail] = NULL

(* The deadlines ascend along the list, which is what Tick's early exit    *)
(* and Adjust_Timer's test against the next timer alone rely on.           *)
Sorted ==
    \A t \in allocated : next[t] # NULL => expire[t] <= expire[next[t]]

(* The pointers implement the abstract queue: the order of the other       *)
(* timers is kept, and equal deadlines expire in order of their arrival.   *)
TQ == INSTANCE TimerQueue WITH order <- Forward, deadline <- expire
ImplementsTimerQueue == TQ!Spec
=============================================================================
