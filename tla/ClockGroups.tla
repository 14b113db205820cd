----------------------------- MODULE ClockGroups -----------------------------
(***************************************************************************)
(* How much of the processor the groups of ClockQuantum get.  Two history  *)
(* variables measure the turns of the user processes from one preemption   *)
(* by the clock to the next, while nobody blocks, wakes up or changes his  *)
(* group, no alarm is due, and tasks and servers need no time.             *)
(***************************************************************************)
EXTENDS ClockQuantum

VARIABLES
    ran,        \* the ticks of the turn that goes on
    turn        \* per group, the length of its last whole turn, 0 if none

Unmeasured == -1
groupVars == <<vars, ran, turn>>

InitGroups == Init /\ ran = Unmeasured /\ turn = [g \in Groups |-> 0]

\* A turn of which the beginning was not seen is not measured.
TickOfTurn ==
    /\ pc = "idle" /\ ~hardInt /\ bill = Picked
    /\ Tick /\ (hardInt' => Expired)
    /\ ran' = IF ran = Unmeasured THEN ran ELSE ran + 1
    /\ UNCHANGED turn
Preempt ==
    /\ Sched
    /\ IF ready' # ready
       THEN /\ ran' = IF Head(ready') # bill THEN 0 ELSE Unmeasured
            /\ turn' = IF ran > 0 THEN [turn EXCEPT ![grp[bill]] = ran] ELSE turn
       ELSE UNCHANGED <<ran, turn>>
Disturb ==
    /\ Switches \/ Forks \/ SetGroups
    /\ ran' = Unmeasured /\ turn' = [g \in Groups |-> 0]
NextGroups ==
    \/ TickOfTurn
    \/ (Interrupted \/ Count \/ Renew \/ Pick) /\ UNCHANGED <<ran, turn>>
    \/ Preempt \/ Disturb

SpecGroups == InitGroups /\ [][NextGroups]_groupVars

\* "Processes in group B get twice as much time as processes in group A"
\* (SOI_lab2_Koncepcja.md:7): a turn of B is not shorter than two turns of A.
TwiceTheTime == turn[1] > 0 /\ turn[2] > 0 => turn[2] >= 2 * turn[1]
=============================================================================
