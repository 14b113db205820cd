---------------------------- MODULE ClockQuantum ----------------------------
(***************************************************************************)
(* The scheduling of user processes in two groups, A (1) and B (2), by the *)
(* interrupt handler and the clock task of src/t2/.../kernel/clock.c.      *)
(* Alarms are in ClockAlarms; here one is due now and then, and the clock  *)
(* task may wait while it looks at them.                                   *)
(*                                                                         *)
(* Tasks do not preempt each other, so between the other steps of the      *)
(* clock task only the interrupt handler comes.                            *)
(*                                                                         *)
(* The ready queues are in proc.c, which is not in the repository: they    *)
(* are modelled from how clock.c uses and describes them.                  *)
(***************************************************************************)
EXTENDS Integers, Sequences

CONSTANTS
    Users,      \* the user processes
    Idle,       \* the process that runs when there is nothing to do
    SchedRate,  \* SCHED_RATE, ticks per quantum
    MaxTicks    \* bound: ticks that arrive while do_clocktick() reschedules

ASSUME UsersAssumption == Idle \notin Users
ASSUME RateAssumption == SchedRate \in Nat /\ SchedRate > 1 /\ MaxTicks \in Nat

Groups == {1, 2}

VARIABLES
    hardInt,    \* an interrupt message for the clock task (p_int_blocked)
    pc,         \* where the clock task is
    schedTicks, \* sched_ticks
    prev,       \* prev_ptr
    bill,       \* bill_ptr, the user process picked last, or Idle
    ready,      \* the queue at rdy_head[USER_Q]
    grp         \* proc_grp

quantumVars == <<schedTicks, prev>>
queueVars == <<bill, ready, grp>>
vars == <<hardInt, pc, quantumVars, queueVars>>

Init ==
    /\ hardInt = FALSE /\ pc = "idle"
    /\ schedTicks = SchedRate /\ prev = Idle
    /\ bill = Idle /\ ready = <<>>
    /\ grp = [p \in Users |-> 1]

-----------------------------------------------------------------------------
(* clock_handler(), on every tick.                                         *)

Expired == schedTicks = 1 /\ bill = prev /\ ready # <<>>

HandlerCount ==
    IF schedTicks = 1
    THEN schedTicks' = SchedRate /\ prev' = bill
    ELSE schedTicks' = schedTicks - 1 /\ UNCHANGED prev
Tick ==
    /\ schedTicks > -MaxTicks
    /\ \E due \in BOOLEAN :
        IF due \/ Expired
        THEN hardInt' = TRUE /\ UNCHANGED quantumVars
        ELSE HandlerCount /\ UNCHANGED hardInt
    /\ UNCHANGED <<pc, queueVars>>

-----------------------------------------------------------------------------
(* clock_task(), do_clocktick()                                            *)

Interrupted ==
    /\ pc = "idle" /\ hardInt
    /\ hardInt' = FALSE
    /\ pc' = "alarms"
    /\ UNCHANGED <<quantumVars, queueVars>>

\* if (--sched_ticks == 0)
Count ==
    /\ pc = "alarms"
    /\ schedTicks' = schedTicks - 1
    /\ pc' = IF schedTicks = 1 THEN "sched" ELSE "idle"
    /\ UNCHANGED <<hardInt, prev, queueVars>>

\* lock_sched(): the head of the queue goes to its end.
\* Mutants of Rotated: nobody moves; the head is copied.
RotatedNot == ready
RotatedCopy == IF ready = <<>> THEN ready ELSE Append(ready, Head(ready))

Rotated == IF ready = <<>> THEN ready ELSE Append(Tail(ready), Head(ready))
Sched ==
    /\ pc = "sched"
    /\ ready' = IF bill = prev THEN Rotated ELSE ready
    /\ pc' = "renew"
    /\ UNCHANGED <<hardInt, quantumVars, bill, grp>>

\* The new quantum goes by the group of the head of the queue.  With an empty
\* queue the code reads through a null pointer, and may find any value.
Quantum(g) == IF g = 2 THEN 2 * SchedRate ELSE SchedRate
HeadGroups == IF ready # <<>> THEN {grp[Head(ready)]} ELSE Groups
\* Mutant of Renewed: the ticks that came meanwhile are not forgotten.
RenewedLate(g) == schedTicks + Quantum(g)

Renewed(g) == Quantum(g)
Renew ==
    /\ pc = "renew"
    /\ \E g \in HeadGroups : schedTicks' = Renewed(g)
    /\ prev' = bill
    /\ pc' = "idle"
    /\ UNCHANGED <<hardInt, queueVars>>

-----------------------------------------------------------------------------
(* The rest of the system, when the clock task waits: for a message, or in *)
(* cause_alarm().                                                          *)

Waiting == pc \in {"idle", "alarms"}
Others == Waiting /\ UNCHANGED <<hardInt, pc, quantumVars>>
IsReady(p) == \E i \in 1..Len(ready) : ready[i] = p

\* A ready user process blocks: it calls somebody, or is held by a signal ...
Block ==
    /\ Others
    /\ \E i \in 1..Len(ready) :
        ready' = [j \in 1..Len(ready) - 1 |-> IF j < i THEN ready[j] ELSE ready[j + 1]]
    /\ UNCHANGED <<bill, grp>>

\* ... and becomes ready again, at the front of the queue or at its end.
Wake(p) ==
    /\ Others /\ p \in Users /\ ~IsReady(p)
    /\ ready' \in {<<p>> \o ready, Append(ready, p)}
    /\ UNCHANGED <<bill, grp>>

\* pick_proc(), with no task or server to run.  While one runs, bill_ptr stays
\* as it is (clock.c:449-453).
Picked == IF ready = <<>> THEN Idle ELSE Head(ready)
Pick ==
    /\ Others
    /\ bill' = Picked
    /\ UNCHANGED <<ready, grp>>

\* do_fork(): a new process starts in group A.
Fork(p) ==
    /\ Others /\ p \in Users /\ ~IsReady(p)
    /\ grp' = [grp EXCEPT ![p] = 1]
    /\ UNCHANGED <<bill, ready>>

\* set_proc_grp()
SetGroup(p, g) ==
    /\ Others /\ p \in Users /\ g \in Groups
    /\ grp' = [grp EXCEPT ![p] = g]
    /\ UNCHANGED <<bill, ready>>

-----------------------------------------------------------------------------
ClockSteps == Interrupted \/ Count \/ Sched \/ Renew
Switches == Block \/ \E p \in Users : Wake(p)
Forks == \E p \in Users : Fork(p)
SetGroups == \E p \in Users, g \in Groups : SetGroup(p, g)
Next == Tick \/ ClockSteps \/ Switches \/ Pick \/ Forks \/ SetGroups

\* The clock ticks, the clock task runs when it can, and so do user processes.
Fairness == WF_vars(Tick) /\ WF_vars(ClockSteps) /\ SF_vars(Pick)

Spec == Init /\ [][Next]_vars /\ Fairness
-----------------------------------------------------------------------------
(* Properties.                                                             *)

\* The values of the variables; a process is in the ready queue once.
TypeOK ==
    /\ hardInt \in BOOLEAN
    /\ pc \in {"idle", "alarms", "sched", "renew"}
    /\ schedTicks \in Int
    /\ prev \in Users \cup {Idle} /\ bill \in Users \cup {Idle}
    /\ ready \in Seq(Users) /\ \A i, j \in 1..Len(ready) : ready[i] = ready[j] => i = j
    /\ grp \in [Users -> Groups]

\* Whatever ticks come between the steps of do_clocktick(), it leaves a sane
\* quantum behind ("the code in do_clocktick() will restore the variables to
\* reasonable values", clock.c:431-432), and none is longer than B's.
QuantumSane == pc \notin {"sched", "renew"} => schedTicks \in 1..2 * SchedRate

\* Every ready user process gets the processor again and again, whatever the
\* groups, once the processes neither block nor wake up and the tasks and
\* servers leave the processor to them within a tick.
Undisturbed == ~Switches /\ (Tick /\ Waiting => bill = Picked)
ServedAgain ==
    <>[][Undisturbed]_vars => \A p \in Users : []<>(IsReady(p) => bill = p)
=============================================================================
