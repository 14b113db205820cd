----------------------------- MODULE ClockAlarms -----------------------------
(***************************************************************************)
(* Alarms in the MINIX kernel, src/t2/.../kernel/clock.c: the interrupt    *)
(* handler, the clock task, and the task that delivers synchronous alarms. *)
(* The other work of the handler and the clock task, on quanta, is in      *)
(* ClockQuantum; here it only asks for the clock task now and then.        *)
(*                                                                         *)
(* Tasks do not preempt each other, so between the steps of the clock task *)
(* only the interrupt handler comes; everybody else acts when the clock    *)
(* task waits.  Times are relative to realtime.                            *)
(*                                                                         *)
(* Message passing is in proc.c, which is not in the repository, and is    *)
(* modelled from its use.                                                  *)
(***************************************************************************)
EXTENDS Integers

CONSTANTS
    Users,      \* slots of user processes, which set alarms for SIGALRM
    Clients,    \* slots of servers and tasks, which ask for synchronous alarms
    NrSlots,    \* the process table has the slots 1..NrSlots
    Deltas,     \* bound: the times alarms are set to, 0 to turn one off
    MaxPending, \* bound: ticks that arrive before the clock task runs, an alarm
                \* is late by, or pass until a quantum ends
    Never       \* stands for LONG_MAX, and for no alarm

ASSUME SlotsAssumption ==
    NrSlots \in Nat \ {0} /\ Users \cup Clients = 1..NrSlots /\ Users \cap Clients = {}
ASSUME TimeAssumption ==
    /\ Deltas \subseteq Nat /\ MaxPending \in Nat
    /\ Never \in Nat \ {0} /\ \A d \in Deltas : d < Never

Slots == 1..NrSlots

VARIABLES
    pending,    \* pending_ticks
    left,       \* p_alarm - realtime, Never if no alarm is set
    nextLeft,   \* next_alarm - realtime
    hardInt,    \* an interrupt message for the clock task (p_int_blocked)
    pc,         \* where the clock task is
    slot,       \* the process its scan has come to
    synTable,   \* syn_table, the slots set
    synAlive,   \* syn_al_alive
    syn,        \* where the synchronous alarm task is
    synTo,      \* whom it sends CLOCK_INT to
    calling     \* clients blocked in a call to the clock task

alarmVars == <<pending, left, nextLeft>>
synVars == <<synTable, synAlive, syn, synTo>>
vars == <<alarmVars, hardInt, pc, slot, synVars, calling>>

Init ==
    /\ pending = 0
    /\ left = [p \in Slots |-> Never] /\ nextLeft = Never
    /\ hardInt = FALSE
    /\ pc = "idle" /\ slot = 1
    /\ synTable = {} /\ synAlive = FALSE /\ syn = "receive" /\ synTo = 1
    /\ calling = {}

\* The clock task waits for a message, or for the synchronous alarm task.
Waiting == pc \in {"idle", "blocked"}

\* Time passes for an alarm.
\* Mutant of After: for an alarm that is not set, too.
AfterAlways(x, n) == x - n

After(x, n) == IF x = Never THEN Never ELSE x - n

-----------------------------------------------------------------------------
\* clock_handler(), on every tick.  The quantum, too, may need the clock task.
\* Mutant of Due: the ticks the task has not added yet are left out.
DueByRealtime == nextLeft <= 0

Due == After(nextLeft, pending + 1) <= 0
InBounds == pending < MaxPending /\ \A p \in Slots : left[p] - pending > -MaxPending
Tick ==
    /\ InBounds \/ (pc = "idle" /\ ~hardInt)
    /\ pending' = pending + 1
    /\ \E expired \in BOOLEAN :
        /\ pending < MaxPending \/ expired
        /\ hardInt' = (hardInt \/ Due \/ expired)
    /\ UNCHANGED <<left, nextLeft, pc, slot, synVars, calling>>

-----------------------------------------------------------------------------
(* clock_task()                                                            *)

\* The start of the loop, realtime += pending_ticks, on a HARD_INT ...
Aged == [p \in Slots |-> After(left[p], pending)]
Interrupted ==
    /\ pc = "idle" /\ hardInt
    /\ hardInt' = FALSE
    /\ left' = Aged /\ nextLeft' = After(nextLeft, pending) /\ pending' = 0
    /\ pc' = "clocktick"
    /\ UNCHANGED <<slot, synVars, calling>>

\* do_clocktick(), the test for alarms; next_alarm is LONG_MAX during the scan.
Clocktick ==
    /\ pc = "clocktick"
    /\ IF nextLeft <= 0
       THEN pc' = "scan" /\ nextLeft' = Never
       ELSE pc' = "idle" /\ UNCHANGED nextLeft
    /\ UNCHANGED <<pending, left, hardInt, slot, synVars, calling>>

\* cause_alarm(), which waits when the synchronous alarm task was sent a
\* message and has not run since.
CauseAlarm(p) ==
    /\ synTable' = synTable \cup {p}
    /\ syn' = IF ~synAlive /\ syn = "receive" THEN "woken" ELSE syn
    /\ pc' = IF ~synAlive /\ syn # "receive" THEN "blocked" ELSE "fired"

\* The scan, one process: its alarm goes off ...
ScanDue ==
    /\ pc = "scan" /\ slot <= NrSlots /\ left[slot] <= 0
    /\ IF slot \in Clients
       THEN CauseAlarm(slot)
       ELSE pc' = "fired" /\ UNCHANGED <<synTable, syn>>     \* cause_sig()
    /\ UNCHANGED <<alarmVars, hardInt, slot, synAlive, synTo, calling>>

ScanFired ==
    /\ pc = "fired"
    /\ left' = [left EXCEPT ![slot] = Never]
    /\ pc' = "scan" /\ slot' = slot + 1
    /\ UNCHANGED <<pending, nextLeft, hardInt, synVars, calling>>

\* ... or it may be the next one.
Earlier(x, y) == IF x < y THEN x ELSE y
ScanNext ==
    /\ pc = "scan" /\ slot <= NrSlots /\ left[slot] > 0
    /\ nextLeft' = Earlier(left[slot], nextLeft)
    /\ slot' = slot + 1
    /\ UNCHANGED <<pending, left, hardInt, pc, synVars, calling>>

ScanDone ==
    /\ pc = "scan" /\ slot > NrSlots
    /\ pc' = "idle" /\ slot' = 1
    /\ UNCHANGED <<alarmVars, hardInt, synVars, calling>>

\* ... and on a call: do_setalarm() for a user process, do_setsyn_alrm() for a
\* client, with the first part of common_setalarm(): next_alarm is LONG_MAX
\* until it is computed.
SetAlarm(p, d) ==
    /\ pc = "idle"
    /\ left' = [Aged EXCEPT ![p] = IF d = 0 THEN Never ELSE d]
    /\ nextLeft' = Never /\ pending' = 0
    /\ pc' = "next"
    /\ UNCHANGED <<hardInt, slot, synVars>>

UserAlarm(p, d) == p \in Users /\ SetAlarm(p, d) /\ UNCHANGED calling
ClientAlarm(p, d) == p \in calling /\ SetAlarm(p, d) /\ calling' = calling \ {p}

\* The second part: which alarm is next?
NextAlarm ==
    /\ pc = "next"
    /\ nextLeft' \in {left[p] : p \in Slots}
    /\ \A p \in Slots : nextLeft' <= left[p]
    /\ pc' = "idle"
    /\ UNCHANGED <<pending, left, hardInt, slot, synVars, calling>>

-----------------------------------------------------------------------------
(* syn_alrm_task().  Its steps run from one message to the next.           *)

\* It looks for an entry of syn_table after slot i, then from the start.
\* Mutant of NextEntry: the table is not searched again from its start.
NextEntryOnce(p, i) == p \in synTable /\ p > i /\ \A q \in synTable : q > i => p <= q

Turn(p, i) == (p - i - 1) % NrSlots
NextEntry(p, i) == p \in synTable /\ \A q \in synTable : Turn(p, i) <= Turn(q, i)
SearchFound(i) ==
    \E p \in Slots :
        /\ NextEntry(p, i)
        /\ synTable' = synTable \ {p}
        /\ synAlive' = TRUE /\ syn' = "send" /\ synTo' = p
        /\ UNCHANGED pc

\* Mutant of Taken: a clock task that waits is left waiting.
TakenNot == FALSE

\* Without one it waits, and takes the message of a waiting clock task.
Taken == pc = "blocked"
SearchEnded(i) ==
    /\ \A p \in Slots : ~NextEntry(p, i)
    /\ synAlive' = FALSE
    /\ IF Taken
       THEN syn' = "woken" /\ pc' = "fired"
       ELSE syn' = "receive" /\ UNCHANGED pc
    /\ synTo' = 1
    /\ UNCHANGED synTable
SearchFrom(i) == SearchFound(i) \/ SearchEnded(i)

SynWoken ==
    /\ Waiting /\ syn = "woken"
    /\ SearchFrom(0)
    /\ UNCHANGED <<alarmVars, hardInt, slot, calling>>

\* The client receives CLOCK_INT.  It cannot while it waits for the clock task;
\* when the clock task waits for this task, too, send() reports the deadlock,
\* nobody looks at the result, and the alarm is lost.
Cycle == synTo \in calling /\ pc = "blocked"
SynSent ==
    /\ Waiting /\ syn = "send"
    /\ synTo \notin calling \/ Cycle
    /\ SearchFrom(synTo)
    /\ UNCHANGED <<alarmVars, hardInt, slot, calling>>

-----------------------------------------------------------------------------
(* The rest of the system, when the clock task waits.                      *)

\* A client calls the clock task; refused when it would wait for itself.
Call(p) ==
    /\ Waiting /\ p \in Clients \ calling
    /\ ~(syn = "send" /\ synTo = p /\ pc = "blocked")
    /\ calling' = calling \cup {p}
    /\ UNCHANGED <<alarmVars, hardInt, pc, slot, synVars>>

\* do_xit() turns the alarm of a process off.
Exit(p) ==
    /\ Waiting /\ p \in Users
    /\ left' = [left EXCEPT ![p] = Never]
    /\ UNCHANGED <<pending, nextLeft, hardInt, pc, slot, synVars, calling>>

\* do_fork() copies the alarm of the parent.  Not in the middle of a scan that
\* waits: the child's slot may be one the scan has passed.
Fork(parent, child) ==
    /\ pc = "idle" /\ parent \in Users /\ child \in Users
    /\ parent # child /\ left[child] = Never
    /\ left' = [left EXCEPT ![child] = left[parent]]
    /\ UNCHANGED <<pending, nextLeft, hardInt, pc, slot, synVars, calling>>

-----------------------------------------------------------------------------
UserAlarms == \E p \in Users, d \in Deltas : UserAlarm(p, d)
ClientAlarms == \E p \in Clients, d \in Deltas : ClientAlarm(p, d)
Calls == \E p \in Clients : Call(p)
Exits == \E p \in Users : Exit(p)
Forks == \E parent, child \in Users : Fork(parent, child)
ClockSteps ==
    \/ Interrupted \/ Clocktick \/ ScanDue \/ ScanFired \/ ScanNext \/ ScanDone \/ NextAlarm
SynSteps == SynWoken \/ SynSent
Next ==
    \/ Tick \/ ClockSteps \/ UserAlarms \/ ClientAlarms \/ Calls \/ SynSteps
    \/ Exits \/ Forks

\* The clock ticks, tasks that can run do run, clients receive their messages,
\* and neither the interrupts nor the calls are passed over for ever.
Fairness ==
    /\ WF_vars(Tick) /\ WF_vars(ClockSteps) /\ SF_vars(Interrupted)
    /\ SF_vars(ClientAlarms) /\ SF_vars(SynSteps)

Spec == Init /\ [][Next]_vars /\ Fairness
-----------------------------------------------------------------------------
(* Properties.                                                             *)

\* The values of the variables; no alarm is set for a time nobody asked for.
Times == {Never} \cup {t \in Int : \E d \in Deltas : t <= d}
TypeOK ==
    /\ pending \in 0..MaxPending + 1
    /\ left \in [Slots -> Times] /\ nextLeft \in Times
    /\ hardInt \in BOOLEAN
    /\ pc \in {"idle", "clocktick", "scan", "fired", "blocked", "next"}
    /\ slot \in 1..NrSlots + 1
    /\ synTable \subseteq Clients /\ synAlive \in BOOLEAN
    /\ syn \in {"receive", "woken", "send"} /\ synTo \in Slots
    /\ calling \subseteq Clients

\* An alarm is late by one tick at most once the clock task is free: no tick
\* passes over one that is due.  The ticks that found next_alarm unset are
\* made up for (clock.c:413-418).
TickNotices ==
    [][Tick /\ pc = "idle" /\ (\E p \in Slots : After(left[p], pending') <= 0)
       => hardInt']_vars

\* The synchronous alarm task does not sleep while an alarm is in its table.
SynNotForgotten == syn = "receive" => synTable = {}

\* When no more alarms are set or inherited, all of them go off: the clock task
\* does not wait for ever in the middle of its scan.
AlarmsEnd ==
    <>[][~UserAlarms /\ ~ClientAlarms /\ ~Forks]_vars => <>[](\A p \in Slots : left[p] = Never)
=============================================================================
