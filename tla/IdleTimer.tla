----------------------------- MODULE IdleTimer ------------------------------
(***************************************************************************)
(* The clock of webserver/src/main.cpp: alarm(), SIGALRM through the pipe, *)
(* the flag timeout of the loop and the connections' deadlines.  Times are *)
(* what is left of them.  Timers are looked at by their deadlines only:    *)
(* the list is in TimerList, the rest of the loop in WebServer.            *)
(***************************************************************************)
EXTENDS Naturals

CONSTANTS
    Conns,      \* the connections there may be
    TIMESLOT    \* lst_timer.h: the period of the alarm

VARIABLES
    alarmLeft,  \* the time until SIGALRM, 0 if no alarm is set
    sigEdge,    \* SIGALRM is in the pipe
    dispatch,   \* main is in the loop over events[]
    timeout,    \* main's flag
    open,       \* the connections
    left,       \* the time to the deadline of each of them
    corrupt     \* Tick has used a timer that was freed

vars == <<alarmLeft, sigEdge, dispatch, timeout, open, left, corrupt>>

Init ==
    /\ alarmLeft = TIMESLOT
    /\ sigEdge = FALSE
    /\ dispatch = FALSE
    /\ timeout = FALSE
    /\ open = {}
    /\ left = [c \in Conns |-> 0]
    /\ corrupt = FALSE
-----------------------------------------------------------------------------
(* A unit of time passes; the signal handler writes SIGALRM when it is due.*)
Clock ==
    /\ alarmLeft' = IF alarmLeft > 0 THEN alarmLeft - 1 ELSE 0
    /\ sigEdge' = (sigEdge \/ alarmLeft = 1)
    /\ left' = [c \in Conns |-> IF left[c] > 0 THEN left[c] - 1 ELSE 0]
    /\ UNCHANGED <<dispatch, timeout, open, corrupt>>

(* epoll_wait returns, for the pipe or for another descriptor.             *)
EpollWait ==
    /\ ~dispatch /\ ~corrupt
    /\ dispatch' = TRUE
    /\ UNCHANGED <<alarmLeft, sigEdge, timeout, open, left, corrupt>>

(* A connection is accepted, or its bytes are read: a new deadline.        *)
AcceptOrRead(c) ==
    /\ dispatch
    /\ open' = open \cup {c}
    /\ left' = [left EXCEPT ![c] = 3 * TIMESLOT]
    /\ UNCHANGED <<alarmLeft, sigEdge, dispatch, timeout, corrupt>>

(* The client goes, or its response was the last.                          *)
Close(c) ==
    /\ dispatch
    /\ c \in open
    /\ open' = open \ {c}
    /\ left' = [left EXCEPT ![c] = 0]
    /\ UNCHANGED <<alarmLeft, sigEdge, dispatch, timeout, corrupt>>

(* The statement for SIGALRM compares timeout with true: it stays as it is.*)
HandleAlarm ==
    /\ dispatch
    /\ sigEdge
    /\ sigEdge' = FALSE
    /\ UNCHANGED <<alarmLeft, dispatch, timeout, open, left, corrupt>>

(* After the loop over events[]: if (timeout) timer_handler().  Tick calls *)
(* back for the first expired timer, which CloseConn frees, and goes on    *)
(* with that timer's next_.                                                *)
EndBatch ==
    /\ dispatch
    /\ dispatch' = FALSE
    /\ IF timeout
       THEN /\ corrupt' = (\E c \in open : left[c] = 0)
            /\ alarmLeft' = TIMESLOT
            /\ timeout' = FALSE
       ELSE UNCHANGED <<corrupt, alarmLeft, timeout>>
    /\ UNCHANGED <<sigEdge, open, left>>

Main ==
    \/ EpollWait
    \/ HandleAlarm
    \/ EndBatch

Next ==
    \/ Clock
    \/ Main
    \/ \E c \in Conns : AcceptOrRead(c) \/ Close(c)

(* Time passes, and main goes round its loop and handles a signal that is  *)
(* in the pipe.                                                            *)
Fairness == WF_vars(Clock) /\ WF_vars(EpollWait) /\ SF_vars(HandleAlarm)
                /\ WF_vars(EndBatch)

Spec == Init /\ [][Next]_vars
FairSpec == Spec /\ Fairness
-----------------------------------------------------------------------------
(* A connection past its deadline is closed by force, unless data comes    *)
(* before that.                                                            *)
IdleClosed ==
    \A c \in Conns : c \in open /\ left[c] = 0 ~> c \notin open \/ left[c] > 0
=============================================================================
