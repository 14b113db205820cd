--------------------------- MODULE MonitorClients ---------------------------
(***************************************************************************)
(* What src/t4/monitor.h promises to threads that keep to the rules of a   *)
(* monitor: they call wait, signal and leave only while they are inside.   *)
(* The data a monitor protects is abstracted to the set of conditions that *)
(* hold, which a thread inside may change at will; a thread signals a      *)
(* condition only while it holds.                                          *)
(*                                                                         *)
(* The one client of the library in the repository, ConsProdMonitor, does  *)
(* not keep to these rules: see the module of that name.                   *)
(***************************************************************************)
EXTENDS Monitor, FiniteSets

CONSTANTS Threads, NoCondition

ASSUME ClientsAssumption == IsFiniteSet(Threads) /\ NoCondition \notin Conditions

VARIABLES
    pc,     \* where each thread is
    on,     \* the condition it waits for or signals, or did last
    holds   \* the conditions that hold

vars == <<s, w, waitingCount, pc, on, holds>>

\* out: outside;  in: inside, free to call;  counted, parked: in wait(),
\* before leave() and before w.p();  chosen, posting, reenter: in signal(),
\* before the test of waitingCount, before w.v() and before enter().
Places == {"out", "in", "counted", "parked", "chosen", "posting", "reenter"}

Init ==
    /\ MonitorInit
    /\ pc = [t \in Threads |-> "out"]
    /\ on = [t \in Threads |-> NoCondition]
    /\ holds = {}

Goto(t, place) == pc' = [pc EXCEPT ![t] = place]

\* Threads enter, change the data and leave.
CallEnter(t) ==
    /\ pc[t] = "out"
    /\ Enter
    /\ Goto(t, "in")
    /\ UNCHANGED <<on, holds>>

Change(t) ==
    /\ pc[t] = "in"
    /\ holds' \in SUBSET Conditions
    /\ UNCHANGED <<monitorVars, pc, on>>

CallLeave(t) ==
    /\ pc[t] = "in"
    /\ Leave
    /\ Goto(t, "out")
    /\ UNCHANGED <<on, holds>>

\* wait( cond ), called for a condition that does not hold
CallWait(t) ==
    /\ pc[t] = "in"
    /\ \E c \in Conditions \ holds : /\ WaitCount(c)
                                     /\ on' = [on EXCEPT ![t] = c]
    /\ Goto(t, "counted")
    /\ UNCHANGED holds

\* Mutant of LeaveToWait: the thread keeps the monitor while it waits.
KeepAndWait(t) ==
    /\ pc[t] = "counted"
    /\ Goto(t, "parked")
    /\ UNCHANGED <<monitorVars, on, holds>>

\* Mutant of LeaveToWait: wait() called after leave(), as ConsProdMonitor
\* does, leaves twice.
LeaveTwiceToWait(t) ==
    /\ pc[t] = "counted"
    /\ s' = s + 2
    /\ UNCHANGED <<w, waitingCount>>
    /\ Goto(t, "parked")
    /\ UNCHANGED <<on, holds>>

LeaveToWait(t) ==
    /\ pc[t] = "counted"
    /\ Leave
    /\ Goto(t, "parked")
    /\ UNCHANGED <<on, holds>>

Unpark(t) ==
    /\ pc[t] = "parked"
    /\ WaitPark(on[t])
    /\ Goto(t, "in")
    /\ UNCHANGED <<on, holds>>

\* signal( cond ), called for a condition that holds
CallSignal(t) ==
    /\ pc[t] = "in"
    /\ \E c \in holds : on' = [on EXCEPT ![t] = c]
    /\ Goto(t, "chosen")
    /\ UNCHANGED <<monitorVars, holds>>

NobodyWaits(t) ==
    /\ pc[t] = "chosen"
    /\ SignalNone(on[t])
    /\ Goto(t, "in")
    /\ UNCHANGED <<on, holds>>

Uncount(t) ==
    /\ pc[t] = "chosen"
    /\ SignalCount(on[t])
    /\ Goto(t, "posting")
    /\ UNCHANGED <<on, holds>>

\* Mutant of Post: the signaller goes on inside while the woken thread runs.
PostAndStay(t) ==
    /\ pc[t] = "posting"
    /\ SignalPost(on[t])
    /\ Goto(t, "in")
    /\ UNCHANGED <<on, holds>>

Post(t) ==
    /\ pc[t] = "posting"
    /\ SignalPost(on[t])
    /\ Goto(t, "reenter")
    /\ UNCHANGED <<on, holds>>

Reenter(t) ==
    /\ pc[t] = "reenter"
    /\ Enter
    /\ Goto(t, "in")
    /\ UNCHANGED <<on, holds>>

Step(t) == \/ CallEnter(t) \/ Change(t) \/ CallLeave(t)
           \/ CallWait(t) \/ LeaveToWait(t) \/ Unpark(t)
           \/ CallSignal(t) \/ NobodyWaits(t) \/ Uncount(t) \/ Post(t) \/ Reenter(t)

Next == \E t \in Threads : Step(t)

Spec == Init /\ [][Next]_vars

-----------------------------------------------------------------------------
Inside(t) == pc[t] \in {"in", "counted", "chosen", "posting"}
WaitersOn(c) == {t \in Threads : on[t] = c /\ pc[t] \in {"counted", "parked"}}
PostersTo(c) == {t \in Threads : on[t] = c /\ pc[t] = "posting"}

\* Type invariant.
TypeOK ==
    /\ s \in Nat
    /\ w \in [Conditions -> Nat]
    /\ waitingCount \in [Conditions -> Nat]
    /\ pc \in [Threads -> Places]
    /\ on \in [Threads -> Conditions \cup {NoCondition}]
    /\ \A t \in Threads : pc[t] \notin {"out", "in"} => on[t] \in Conditions
    /\ holds \subseteq Conditions

\* At most one thread is inside, and while one is, neither s nor a posted
\* wake-up lets another one in.
MutualExclusion ==
    /\ \A t, u \in Threads : Inside(t) /\ Inside(u) => t = u
    /\ \A t \in Threads : Inside(t) => s = 0 /\ \A c \in Conditions : w[c] = 0
    /\ \A c, d \in Conditions : w[c] > 0 /\ w[d] > 0 => c = d
    /\ \A c \in Conditions : w[c] <= 1 /\ (w[c] = 1 => s = 0)
    /\ s <= 1

\* The monitor never dies: if nobody is inside, somebody can get in.
PermitKept ==
    \/ s = 1
    \/ \E c \in Conditions : w[c] = 1
    \/ \E t \in Threads : Inside(t)

\* waitingCount is the number of waiting threads that have not been promised
\* a wake-up, so a signal never goes to nobody, nor passes over somebody.
CountExact ==
    \A c \in Conditions :
        waitingCount[c] + w[c] + Cardinality(PostersTo(c)) = Cardinality(WaitersOn(c))

\* A posted wake-up finds its condition as the signaller left it: nobody
\* gets in between w.v() and w.p().
SignalledHolds ==
    /\ \A c \in Conditions : w[c] > 0 => c \in holds
    /\ \A t \in Threads : pc[t] \in {"chosen", "posting"} => on[t] \in holds
=============================================================================
