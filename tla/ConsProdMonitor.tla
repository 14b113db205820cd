--------------------------- MODULE ConsProdMonitor ---------------------------
(***************************************************************************)
(* src/t4/ConsProdMonitor.cpp: the producers and consumers of t3 around a  *)
(* monitor.  putEven, putOdd, getEven and getOdd differ only in the        *)
(* condition, the operation and the order of waking, which Buffer gives    *)
(* by kind.  Each condition of the monitor belongs to one kind.            *)
(*                                                                         *)
(* As the code has it, a thread that waits calls leave() and then wait(),  *)
(* which leaves again; a thread that signals does not leave, and the       *)
(* enter() at the end of signal() has no leave() to match.  With two       *)
(* threads the two surpluses meet; in general they do not.                 *)
(*                                                                         *)
(* The test and the change of waitingCount in signal() are one step here   *)
(* (as they are in Monitor).  With at most two threads nobody else signals *)
(* the same condition, and its owner changes the counter only when it is   *)
(* zero, so the code has no race on it; with more it has, and this module  *)
(* then leaves some of its outcomes out.                                   *)
(***************************************************************************)
EXTENDS Monitor, Buffer

CONSTANTS Threads,  \* the threads main() creates in the chosen scenario
          KindOf    \* which of a1, a2, b1, b2 each one runs

ASSUME MonitorAssumption == Conditions = Kinds
ASSUME ThreadsAssumption == /\ IsFiniteSet(Threads)
                            /\ KindOf \in [Threads -> Kinds]

VARIABLES
    numWaiting,  \* per kind: numOf{Prod,Cons}{Even,Odd}Waiting
    buffer,
    pc,          \* where each thread is
    wakes        \* the condition it signals, or signalled last; at first its own

vars == <<s, w, waitingCount, numWaiting, buffer, pc, wakes>>

\* enter: before enter() (SLEEP included);  test: the condition;  leave:
\* counted, before the leave() of its own;  count, release, park: in wait(),
\* before ++waitingCount, before its leave(), before w.p();  resume: woken;
\* update: the buffer operation;  chain: the if-chain;  signal, post,
\* reenter: in signal(), before the test, before w.v(), before enter().
Places == {"enter", "test", "leave", "count", "release", "park", "resume",
           "update", "chain", "signal", "post", "reenter"}

Init ==
    /\ MonitorInit
    /\ numWaiting = [k \in Kinds |-> 0]
    /\ buffer = <<>>
    /\ pc = [t \in Threads |-> "enter"]
    /\ wakes = KindOf

Goto(t, place) == pc' = [pc EXCEPT ![t] = place]

\* enter()
CallEnter(t) ==
    /\ pc[t] = "enter"
    /\ Enter
    /\ Goto(t, "test")
    /\ UNCHANGED <<numWaiting, buffer, wakes>>

\* Mutant of Pass: the condition is not tested.
PassUntested(t) ==
    /\ pc[t] = "test"
    /\ Goto(t, "update")
    /\ UNCHANGED <<monitorVars, numWaiting, buffer, wakes>>

\* if (!can...()), the condition holds
Pass(t) ==
    /\ pc[t] = "test"
    /\ Can(KindOf[t], buffer)
    /\ Goto(t, "update")
    /\ UNCHANGED <<monitorVars, numWaiting, buffer, wakes>>

\* if (!can...()) numOf...Waiting++
Count(t) ==
    /\ pc[t] = "test"
    /\ ~Can(KindOf[t], buffer)
    /\ numWaiting' = [numWaiting EXCEPT ![KindOf[t]] = @ + 1]
    /\ Goto(t, "leave")
    /\ UNCHANGED <<monitorVars, buffer, wakes>>

\* leave(), before wait()
LeaveFirst(t) ==
    /\ pc[t] = "leave"
    /\ Leave
    /\ Goto(t, "count")
    /\ UNCHANGED <<numWaiting, buffer, wakes>>

\* wait(): ++cond.waitingCount
CountAgain(t) ==
    /\ pc[t] = "count"
    /\ WaitCount(KindOf[t])
    /\ Goto(t, "release")
    /\ UNCHANGED <<numWaiting, buffer, wakes>>

\* wait(): leave()
LeaveAgain(t) ==
    /\ pc[t] = "release"
    /\ Leave
    /\ Goto(t, "park")
    /\ UNCHANGED <<numWaiting, buffer, wakes>>

\* wait(): cond.wait()
Park(t) ==
    /\ pc[t] = "park"
    /\ WaitPark(KindOf[t])
    /\ Goto(t, "resume")
    /\ UNCHANGED <<numWaiting, buffer, wakes>>

\* numOf...Waiting--
Resume(t) ==
    /\ pc[t] = "resume"
    /\ numWaiting' = [numWaiting EXCEPT ![KindOf[t]] = @ - 1]
    /\ Goto(t, "update")
    /\ UNCHANGED <<monitorVars, buffer, wakes>>

\* buffer.put(num) or buffer.get()
Update(t) ==
    /\ pc[t] = "update"
    /\ buffer' = After(KindOf[t], buffer)
    /\ Goto(t, "chain")
    /\ UNCHANGED <<monitorVars, numWaiting, wakes>>

\* The if-chain finds a kind to wake, ...
CallSignal(t) ==
    /\ pc[t] = "chain"
    /\ \E c \in Kinds : /\ Wakes(KindOf[t], c, numWaiting, buffer)
                        /\ wakes' = [wakes EXCEPT ![t] = c]
    /\ Goto(t, "signal")
    /\ UNCHANGED <<monitorVars, numWaiting, buffer>>

\* ... or none.
CallLeave(t) ==
    /\ pc[t] = "chain"
    /\ WakesNone(KindOf[t], numWaiting, buffer)
    /\ Leave
    /\ Goto(t, "enter")
    /\ UNCHANGED <<numWaiting, buffer, wakes>>

\* signal(): cond.signal() finds nobody counted; the round ends
SignalLost(t) ==
    /\ pc[t] = "signal"
    /\ SignalNone(wakes[t])
    /\ Goto(t, "enter")
    /\ UNCHANGED <<numWaiting, buffer, wakes>>

\* signal(): cond.signal() uncounts a waiting thread, ...
Uncount(t) ==
    /\ pc[t] = "signal"
    /\ SignalCount(wakes[t])
    /\ Goto(t, "post")
    /\ UNCHANGED <<numWaiting, buffer, wakes>>

\* ... wakes it ...
Post(t) ==
    /\ pc[t] = "post"
    /\ SignalPost(wakes[t])
    /\ Goto(t, "reenter")
    /\ UNCHANGED <<numWaiting, buffer, wakes>>

\* Mutants of Reenter: the thread does not wait to get in again; it gives the
\* monitor back at the end of the round.
ReenterFreely(t) ==
    /\ pc[t] = "reenter"
    /\ Goto(t, "enter")
    /\ UNCHANGED <<monitorVars, numWaiting, buffer, wakes>>
ReenterAndLeave(t) ==
    /\ pc[t] = "reenter"
    /\ Leave
    /\ Goto(t, "enter")
    /\ UNCHANGED <<numWaiting, buffer, wakes>>

\* ... and enters; the round ends.
Reenter(t) ==
    /\ pc[t] = "reenter"
    /\ Enter
    /\ Goto(t, "enter")
    /\ UNCHANGED <<numWaiting, buffer, wakes>>

Step(t) == \/ CallEnter(t) \/ Pass(t) \/ Count(t) \/ LeaveFirst(t) \/ CountAgain(t)
           \/ LeaveAgain(t) \/ Park(t) \/ Resume(t) \/ Update(t) \/ CallSignal(t)
           \/ CallLeave(t) \/ SignalLost(t) \/ Uncount(t) \/ Post(t) \/ Reenter(t)

Next == \E t \in Threads : Step(t)

Spec == Init /\ [][Next]_vars

-----------------------------------------------------------------------------
\* Reads or writes the buffer or the numOf...Waiting counters.
Inside(t) == pc[t] \in {"test", "resume", "update", "chain"}

\* Type invariant.  With two threads s is never more than 3.
TypeOK ==
    /\ s \in 0..3
    /\ w \in [Conditions -> 0..1]
    /\ waitingCount \in [Conditions -> 0..1]
    /\ numWaiting \in [Kinds -> 0..1]
    /\ buffer \in Seq(Parities)
    /\ pc \in [Threads -> Places]
    /\ wakes \in [Threads -> Kinds]

\* No two threads touch the buffer or the counters at the same time.
MutualExclusion == \A t, u \in Threads : Inside(t) /\ Inside(u) => t = u

\* Every operation on the buffer is one the exercise allows at that moment.
Promise == INSTANCE ProdCons WITH Present <- {KindOf[t] : t \in Threads}
Implements == Promise!Spec

\* A thread whose condition holds gets to use the buffer: with nobody
\* in the monitor, s lets somebody in or a woken thread takes over.
MonitorAlive ==
    (\A t \in Threads : pc[t] \in {"enter", "park"}) =>
        s > 0 \/ \E t \in Threads : pc[t] = "park" /\ w[KindOf[t]] > 0
=============================================================================
