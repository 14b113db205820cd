------------------------------- MODULE Monitor ------------------------------
(***************************************************************************)
(* The classes Semaphore, Condition and Monitor of src/t4/monitor.h, as    *)
(* the steps their operations are made of.  A thread can be interrupted    *)
(* between any two of them; a module of clients says where each thread is. *)
(*                                                                         *)
(*    enter()       Enter                                                  *)
(*    leave()       Leave                                                  *)
(*    wait(c)       WaitCount(c), Leave, WaitPark(c)                       *)
(*    signal(c)     SignalNone(c), or SignalCount(c), SignalPost(c), Enter *)
(***************************************************************************)
EXTENDS Integers

CONSTANT Conditions  \* the Condition objects of the monitor

VARIABLES
    s,             \* value of the semaphore Monitor::s
    w,             \* per condition: value of its semaphore Condition::w
    waitingCount   \* per condition: Condition::waitingCount

monitorVars == <<s, w, waitingCount>>

\* Monitor() : s( 1 ),  Condition() : w( 0 ) { waitingCount = 0; }
MonitorInit ==
    /\ s = 1
    /\ w = [c \in Conditions |-> 0]
    /\ waitingCount = [c \in Conditions |-> 0]

\* s.p()
Enter ==
    /\ s > 0
    /\ s' = s - 1
    /\ UNCHANGED <<w, waitingCount>>

\* s.v()
Leave ==
    /\ s' = s + 1
    /\ UNCHANGED <<w, waitingCount>>

\* ++cond.waitingCount
WaitCount(c) ==
    /\ waitingCount' = [waitingCount EXCEPT ![c] = @ + 1]
    /\ UNCHANGED <<s, w>>

\* cond.wait(), that is w.p()
WaitPark(c) ==
    /\ w[c] > 0
    /\ w' = [w EXCEPT ![c] = @ - 1]
    /\ UNCHANGED <<s, waitingCount>>

\* if( waitingCount ) is false: nothing happens, and no enter() follows
SignalNone(c) ==
    /\ waitingCount[c] = 0
    /\ UNCHANGED monitorVars

\* Mutant of SignalCount: the woken thread stays counted.
SignalKeepsCount(c) ==
    /\ waitingCount[c] # 0
    /\ UNCHANGED monitorVars

\* Mutant of SignalCount: the count is not tested first.
SignalUntested(c) ==
    /\ waitingCount' = [waitingCount EXCEPT ![c] = @ - 1]
    /\ UNCHANGED <<s, w>>

\* if( waitingCount ) --waitingCount.  An int is tested, not a bool: a
\* negative count would count as somebody waiting.
SignalCount(c) ==
    /\ waitingCount[c] # 0
    /\ waitingCount' = [waitingCount EXCEPT ![c] = @ - 1]
    /\ UNCHANGED <<s, w>>

\* w.v()
SignalPost(c) ==
    /\ w' = [w EXCEPT ![c] = @ + 1]
    /\ UNCHANGED <<s, waitingCount>>
=============================================================================
