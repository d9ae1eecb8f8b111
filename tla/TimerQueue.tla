----------------------------- MODULE TimerQueue -----------------------------
(***************************************************************************)
(* What webserver/include/lst_timer.h promises of Sort_Timer_List, without *)
(* the pointers: the timers in the order of their deadlines, those of one  *)
(* deadline in the order in which they got it.                             *)
(***************************************************************************)
EXTENDS Naturals, SequencesExt

CONSTANTS
    Timers,     \* the timers there may be
    Deadlines   \* the values of expire_

VARIABLES
    order,      \* the timers of the list, the first to expire first
    deadline    \* expire_ of each timer, 0 for those not in the list

vars == <<order, deadline>>

Init ==
    /\ order = <<>>
    /\ deadline = [t \in Timers |-> 0]

InList(t) == \E i \in DOMAIN order : order[i] = t

(* t, which expires at e, joins the others, behind all those that expire   *)
(* no later.                                                               *)
Place(t, e, others) ==
    \E i \in 1..(Len(others) + 1) :
        /\ \A j \in 1..(i - 1) : deadline[others[j]] <= e
        /\ \A j \in i..Len(others) : e < deadline[others[j]]
        /\ order' = InsertAt(others, i, t)

Add(t, e) ==
    /\ ~InList(t)
    /\ Place(t, e, order)
    /\ deadline' = [deadline EXCEPT ![t] = e]

(* A deadline is only ever put off.                                        *)
Adjust(t, e) ==
    /\ e >= deadline[t]
    /\ \E k \in DOMAIN order :
           order[k] = t /\ Place(t, e, RemoveAt(order, k))
    /\ deadline' = [deadline EXCEPT ![t] = e]

Delete(t) ==
    /\ \E k \in DOMAIN order : order[k] = t /\ order' = RemoveAt(order, k)
    /\ deadline' = [deadline EXCEPT ![t] = 0]

Next ==
    \E t \in Timers :
        \/ \E e \in Deadlines : Add(t, e) \/ Adjust(t, e)
        \/ Delete(t)

Spec == Init /\ [][Next]_vars
=============================================================================
