----------------------------- MODULE SystemTask -----------------------------
(***************************************************************************)
(* The system task of the MINIX kernel, src/t2/.../kernel/system.c: signals *)
(* on their way from the kernel to the memory manager MM, and the system   *)
(* calls that create, stop, resume and end processes.                      *)
(*                                                                         *)
(* Tasks do not preempt each other and a caller waits for its reply, so a  *)
(* step is one whole handler.  Between the calls of MM anything may happen: *)
(* processes call the servers, tasks and FS raise signals.                 *)
(*                                                                         *)
(* Message passing and the ready queues are in proc.c, MM's handlers in    *)
(* mm/signal.c, forkexit.c, exec.c and trace.c, none of them in the        *)
(* repository: they are modelled from how system.c uses and describes them. *)
(***************************************************************************)
EXTENDS Integers, Sequences, FiniteSets

CONSTANTS
    NrSlots,    \* slots for user processes; slot 1 is INIT
    Signals,    \* the signals that may be raised
    SIGTRAP     \* raised by EXEC of a traced process

ASSUME SlotsAssumption == NrSlots \in Nat \ {0}
ASSUME SignalsAssumption == IsFiniteSet(Signals) /\ SIGTRAP \in Signals

Slots == 1..NrSlots
INIT_PROC_NR == 1
Nobody == 0
Servers == {"MM", "FS"}

\* The bits of p_flags.  A process is runnable iff none is set (proc.h:68).
Flag == {"NO_MAP", "SENDING", "RECEIVING", "PENDING", "SIG_PENDING", "P_STOP"}

VARIABLES
    inUse,      \* the slots with p_priority PPRI_USER, the others have PPRI_NONE
    flags,      \* p_flags
    pending,    \* p_pending: raised, MM not told yet
    pendcount,  \* p_pendcount: pending and unfinished signals
    sigProcs,   \* sig_procs: processes with PENDING
    queued,     \* how many times the slot is in a ready queue
    peer,       \* p_sendto, p_getfrom: the server a process calls or waits for
    callerq,    \* p_callerq of a server: who waits to send to it
    at,         \* a server is in receive(ANY), works, or waits for another one
    mm          \* whose call MM handles (caller), the child it makes (child), or
                \* the KSIG it handles (sig) and the signals of it left (left)

signalVars == <<pending, pendcount, sigProcs>>
serverVars == <<callerq, at, mm>>
vars == <<inUse, flags, queued, peer, signalVars, serverVars>>

NoWork == [caller |-> Nobody, child |-> Nobody, sig |-> Nobody, left |-> {}]

Init ==
    /\ inUse = {INIT_PROC_NR}
    /\ flags = [p \in Slots |-> {}]
    /\ pending = [p \in Slots |-> {}]
    /\ pendcount = [p \in Slots |-> 0]
    /\ sigProcs = 0
    /\ queued = [p \in Slots |-> IF p = INIT_PROC_NR THEN 1 ELSE 0]
    /\ peer = [p \in Slots |-> "MM"]
    /\ callerq = [s \in Servers |-> <<>>]
    /\ at = [s \in Servers |-> "any"]
    /\ mm = NoWork

-----------------------------------------------------------------------------
\* lock_ready() and lock_unready() of proc.c, by their callers' use.
Ready(p) == queued' = [queued EXCEPT ![p] = @ + 1]
Unready(p) == queued' = [queued EXCEPT ![p] = @ - 1]

\* Mutant of ReadyIf: without the test of the flags.
ReadyAlways(runnable, p) == Ready(p)

\* lock_ready(), if the process has become runnable.
ReadyIf(runnable, p) == IF runnable THEN Ready(p) ELSE UNCHANGED queued

WaitsFor(p, s) ==
    p \in inUse /\ peer[p] = s /\ "RECEIVING" \in flags[p] /\ "SENDING" \notin flags[p]
SetFlags(p, f) == flags' = [flags EXCEPT ![p] = f]

\* inform(): MM is told of the first process that has PENDING.  The arguments
\* are the flags, the pending signals and the counter at the call; there is
\* such a process, as the counter is right (SigProcsExact).
FirstPending(p, f) == "PENDING" \in f[p] /\ \A q \in 1..p-1 : "PENDING" \notin f[q]
Inform(f, pend, n) ==
    \E p \in Slots :
        /\ FirstPending(p, f)
        /\ mm' = [NoWork EXCEPT !.sig = p, !.left = pend[p]]
        /\ sigProcs' = n - 1
        /\ pending' = [pend EXCEPT ![p] = {}]
        /\ flags' = [f EXCEPT ![p] = @ \ {"PENDING"}]
        /\ at' = [at EXCEPT !["MM"] = "work"]

\* cause_sig(), without the final test whether MM is free.
Fresh(p, sig) == sig \notin pending[p]
First(p, sig) == Fresh(p, sig) /\ "PENDING" \notin flags[p]
Raised(p, sig) == [pending EXCEPT ![p] = @ \cup {sig}]
\* Mutant of Counted: a signal for a process that is held already is not counted.
CountedOnce(p, sig) ==
    IF Fresh(p, sig) /\ "SIG_PENDING" \notin flags[p]
    THEN [pendcount EXCEPT ![p] = @ + 1] ELSE pendcount

Counted(p, sig) == IF Fresh(p, sig) THEN [pendcount EXCEPT ![p] = @ + 1] ELSE pendcount
Marked(p, sig) ==
    IF First(p, sig) THEN flags[p] \cup {"PENDING", "SIG_PENDING"} ELSE flags[p]
SigProcs(p, sig) == IF First(p, sig) THEN sigProcs + 1 ELSE sigProcs

\* Mutant of TellNow: wait until MM blocks.
TellLater(p, sig) == FALSE

\* MM is in receive(ANY): tell it at once.
TellNow(p, sig) == First(p, sig) /\ at["MM"] = "any"

\* cause_sig()
CauseSig(p, sig) ==
    /\ pendcount' = Counted(p, sig)
    /\ IF First(p, sig) /\ flags[p] = {} THEN Unready(p) ELSE UNCHANGED queued
    /\ IF TellNow(p, sig)
       THEN Inform([flags EXCEPT ![p] = Marked(p, sig)], Raised(p, sig), SigProcs(p, sig))
       ELSE /\ pending' = Raised(p, sig)
            /\ sigProcs' = SigProcs(p, sig)
            /\ SetFlags(p, Marked(p, sig))
            /\ UNCHANGED <<at, mm>>
    /\ UNCHANGED <<inUse, peer, callerq>>

-----------------------------------------------------------------------------
(* The processes and the servers, from outside of the repository.          *)

\* A running process calls a server (sendrec) that waits for any message.
CallFree(p, s) ==
    /\ p \in inUse /\ flags[p] = {} /\ at[s] = "any"
    /\ SetFlags(p, {"RECEIVING"})
    /\ Unready(p)
    /\ peer' = [peer EXCEPT ![p] = s]
    /\ at' = [at EXCEPT ![s] = "work"]
    /\ mm' = IF s = "MM" THEN [NoWork EXCEPT !.caller = p] ELSE mm
    /\ UNCHANGED <<inUse, callerq, signalVars>>

\* A running process calls a busy server.
CallBusy(p, s) ==
    /\ p \in inUse /\ flags[p] = {} /\ at[s] # "any"
    /\ SetFlags(p, {"SENDING", "RECEIVING"})
    /\ Unready(p)
    /\ peer' = [peer EXCEPT ![p] = s]
    /\ callerq' = [callerq EXCEPT ![s] = Append(@, p)]
    /\ UNCHANGED <<inUse, at, mm, signalVars>>

\* MM or FS answers a process that waits for it; MM does so when it has made
\* the child (main() of mm/main.c, the loop that sends the replies).
Reply(p, s) ==
    /\ at[s] = "work" /\ WaitsFor(p, s) /\ "NO_MAP" \notin flags[p]
    /\ s = "MM" => mm.child = Nobody
    /\ SetFlags(p, flags[p] \ {"RECEIVING"})
    /\ ReadyIf(flags[p] = {"RECEIVING"}, p)
    /\ mm' = IF p = mm.caller THEN [mm EXCEPT !.caller = Nobody] ELSE mm
    /\ UNCHANGED <<inUse, peer, callerq, at, signalVars>>

\* A server has handled what it received.
Done(s) == at[s] = "work" /\ (s = "MM" => mm.child = Nobody /\ mm.left = {})

\* Mutant of TellAtReceive: only cause_sig() tells MM.
TellNever(s) == FALSE

\* get_work(): the next call, or else, as MM blocks, inform().
TellAtReceive(s) == s = "MM" /\ sigProcs > 0

Receive(s) ==
    /\ Done(s)
    /\ IF callerq[s] # <<>>
       THEN /\ SetFlags(Head(callerq[s]), flags[Head(callerq[s])] \ {"SENDING"})
            /\ callerq' = [callerq EXCEPT ![s] = Tail(@)]
            /\ mm' = IF s = "MM" THEN [NoWork EXCEPT !.caller = Head(callerq[s])] ELSE mm
            /\ UNCHANGED <<at, signalVars>>
       ELSE /\ IF TellAtReceive(s)
               THEN Inform(flags, pending, sigProcs)
               ELSE /\ at' = [at EXCEPT ![s] = "any"]
                    /\ mm' = IF s = "MM" THEN NoWork ELSE mm
                    /\ UNCHANGED <<flags, pending, sigProcs>>
            /\ UNCHANGED <<callerq, pendcount>>
    /\ UNCHANGED <<inUse, queued, peer>>

\* MM waits for FS, in a handler of it, and goes on.
MMWaits ==
    /\ at["MM"] = "work" /\ mm.child = Nobody
    /\ at' = [at EXCEPT !["MM"] = "wait"]
    /\ UNCHANGED <<inUse, flags, queued, peer, callerq, mm, signalVars>>
MMResumes ==
    /\ at["MM"] = "wait"
    /\ at' = [at EXCEPT !["MM"] = "work"]
    /\ UNCHANGED <<inUse, flags, queued, peer, callerq, mm, signalVars>>

-----------------------------------------------------------------------------
(* The calls of system.c.                                                  *)

MMWorks == at["MM"] = "work" /\ mm.child = Nobody
Handles(p) == p \in inUse /\ p = mm.caller /\ WaitsFor(p, "MM")

\* cause_sig() by a task: the clock for an alarm, TTY for a key, a fault.
TaskSignal(p, sig) == p \in inUse /\ CauseSig(p, sig)

\* do_kill(), called by FS.
DoKill(p, sig) == at["FS"] = "work" /\ p \in inUse /\ CauseSig(p, sig)

ChildFlags(p) == (flags[p] \cup {"NO_MAP"}) \ {"PENDING", "SIG_PENDING", "P_STOP"}

\* do_fork()
DoFork(c) ==
    /\ MMWorks /\ Handles(mm.caller) /\ c \in Slots \ inUse
    /\ inUse' = inUse \cup {c}
    /\ SetFlags(c, ChildFlags(mm.caller))
    /\ pending' = [pending EXCEPT ![c] = {}]
    /\ pendcount' = [pendcount EXCEPT ![c] = 0]
    /\ peer' = [peer EXCEPT ![c] = peer[mm.caller]]
    /\ mm' = [mm EXCEPT !.child = c]
    /\ UNCHANGED <<sigProcs, queued, callerq, at>>

\* do_newmap(): for a child, for EXEC, or for a process swapped in.
DoNewmap(p) ==
    /\ at["MM"] = "work"
    /\ IF mm.child # Nobody THEN p = mm.child ELSE WaitsFor(p, "MM")
    /\ SetFlags(p, flags[p] \ {"NO_MAP"})
    /\ ReadyIf(flags[p] # {} /\ flags[p] \ {"NO_MAP"} = {}, p)
    /\ mm' = [mm EXCEPT !.child = Nobody]
    /\ UNCHANGED <<inUse, peer, callerq, at, signalVars>>

\* do_exec(): MM does not reply to EXEC.  SIGTRAP stays with the kernel: MM,
\* which called, is not in receive(ANY).
DoExec(p, traced) ==
    LET now == (IF traced THEN Marked(p, SIGTRAP) ELSE flags[p]) \ {"RECEIVING"}
    IN  /\ MMWorks /\ Handles(p)
        /\ IF traced
           THEN /\ pending' = Raised(p, SIGTRAP)
                /\ pendcount' = Counted(p, SIGTRAP)
                /\ sigProcs' = SigProcs(p, SIGTRAP)
           ELSE UNCHANGED signalVars
        /\ SetFlags(p, now)
        /\ ReadyIf(now = {}, p)
        /\ mm' = [mm EXCEPT !.caller = Nobody]
        /\ UNCHANGED <<inUse, peer, callerq, at>>

\* Mutant of Unlinked: only the front of the queue is looked at.
UnlinkedFront(q, p) == IF q # <<>> /\ Head(q) = p THEN Tail(q) ELSE q

\* A queue of callers without p, which is in it at most once.
Unlinked(q, p) ==
    IF \E i \in 1..Len(q) : q[i] = p
    THEN LET i == CHOOSE i \in 1..Len(q) : q[i] = p
         IN  [j \in 1..Len(q) - 1 |-> IF j < i THEN q[j] ELSE q[j + 1]]
    ELSE q

\* Mutant of SigProcsLess: sig_procs is always corrected.
SigProcsAlwaysLess(p) == sigProcs - 1

SigProcsLess(p) == IF "PENDING" \in flags[p] THEN sigProcs - 1 ELSE sigProcs

\* do_xit(): the caller's own exit, or another process killed by a signal.
DoXit(p) ==
    /\ MMWorks /\ p \in inUse \ {INIT_PROC_NR}
    /\ IF flags[p] = {} THEN Unready(p) ELSE UNCHANGED queued
    /\ callerq' = IF "SENDING" \in flags[p]
                  THEN [s \in Servers |-> Unlinked(callerq[s], p)]
                  ELSE callerq
    /\ sigProcs' = SigProcsLess(p)
    /\ pending' = [pending EXCEPT ![p] = {}]
    /\ pendcount' = [pendcount EXCEPT ![p] = 0]
    /\ SetFlags(p, {})
    /\ inUse' = inUse \ {p}
    /\ mm' = IF p = mm.caller THEN [mm EXCEPT !.caller = Nobody] ELSE mm
    /\ UNCHANGED <<peer, at>>

\* do_trace(), T_STOP
DoStop(p) ==
    /\ MMWorks /\ p \in inUse \ {INIT_PROC_NR}
    /\ IF flags[p] = {} THEN Unready(p) ELSE UNCHANGED queued
    /\ SetFlags(p, flags[p] \cup {"P_STOP"})
    /\ UNCHANGED <<inUse, peer, callerq, at, mm, signalVars>>

\* do_trace(), T_RESUME and T_STEP, which MM asks for a stopped process only.
DoResume(p) ==
    /\ MMWorks /\ p \in inUse /\ "P_STOP" \in flags[p]
    /\ SetFlags(p, flags[p] \ {"P_STOP"})
    /\ ReadyIf(flags[p] \ {"P_STOP"} = {}, p)
    /\ UNCHANGED <<inUse, peer, callerq, at, mm, signalVars>>

\* Mutant of Released: any finished signal releases the process.
ReleasedEarly(p, last) == flags[p] \ {"SIG_PENDING"}

\* The flags after one more signal is finished, the last one or not.
Released(p, last) == IF last THEN flags[p] \ {"SIG_PENDING"} ELSE flags[p]

\* do_endsig(): MM has finished one signal of the KSIG.
DoEndsig(sig) ==
    LET p == mm.sig
        last == pendcount[p] # 0 /\ pendcount[p] - 1 = 0
    IN  /\ MMWorks /\ sig \in mm.left
        /\ mm' = [mm EXCEPT !.left = @ \ {sig}]
        /\ IF p \in inUse
           THEN /\ pendcount' = [pendcount EXCEPT ![p] = IF @ # 0 THEN @ - 1 ELSE 0]
                /\ SetFlags(p, Released(p, last))
                /\ ReadyIf(last /\ Released(p, last) = {}, p)
           ELSE UNCHANGED <<pendcount, flags, queued>>   \* E_BAD_PROC
        /\ UNCHANGED <<inUse, peer, callerq, at, pending, sigProcs>>

-----------------------------------------------------------------------------
Calls == \E p \in Slots, s \in Servers : CallFree(p, s) \/ CallBusy(p, s)
Signalled == \E p \in Slots, sig \in Signals : TaskSignal(p, sig) \/ DoKill(p, sig)
Replies == \E p \in Slots, s \in Servers : Reply(p, s)
Receives == \E s \in Servers : Receive(s)
Forks == \E c \in Slots : DoFork(c)
Newmaps == \E p \in Slots : DoNewmap(p)
Execs == \E p \in Slots, traced \in BOOLEAN : DoExec(p, traced)
Exits == \E p \in Slots : DoXit(p)
Traces == \E p \in Slots : DoStop(p) \/ DoResume(p)
Endsigs == \E sig \in Signals : DoEndsig(sig)

Next ==
    \/ Calls \/ Signalled \/ Replies \/ Receives \/ MMWaits \/ MMResumes
    \/ Forks \/ Newmaps \/ Execs \/ Exits \/ Traces \/ Endsigs

\* MM's handlers end: it finishes the signals it was told of, makes the child
\* it began, gets its answers from FS and comes back to receive().
Fairness ==
    /\ WF_vars(MMResumes)
    /\ SF_vars(Receive("MM"))
    /\ \A sig \in Signals : SF_vars(DoEndsig(sig))
    /\ WF_vars(Newmaps)

Spec == Init /\ [][Next]_vars /\ Fairness
-----------------------------------------------------------------------------
(* Properties.                                                             *)

\* The values of the variables.
TypeOK ==
    /\ inUse \subseteq Slots
    /\ flags \in [Slots -> SUBSET Flag]
    /\ pending \in [Slots -> SUBSET Signals]
    /\ pendcount \in [Slots -> Nat]
    /\ sigProcs \in Nat
    /\ queued \in [Slots -> Nat]
    /\ peer \in [Slots -> Servers]
    /\ callerq \in [Servers -> Seq(Slots)]
    /\ at \in [Servers -> {"any", "work", "wait"}]
    /\ mm \in [caller : Slots \cup {Nobody}, child : Slots \cup {Nobody},
               sig : Slots \cup {Nobody}, left : SUBSET Signals]

\* A process is in a ready queue once when no flag holds it, and otherwise in
\* none: no order of stops, signals, exits and replies readies it twice, leaves
\* it in the queue while it is held, or forgets it (proc.h:68).
ReadyOnce ==
    \A p \in Slots : queued[p] = IF p \in inUse /\ flags[p] = {} THEN 1 ELSE 0

\* sig_procs counts the processes MM has to be told of, also when one of them
\* exits first (do_xit() against cause_sig() and inform()).
SigProcsExact == sigProcs = Cardinality({p \in Slots : "PENDING" \in flags[p]})

\* A process has PENDING exactly while it has signals MM was not told of.
PendingExact == \A p \in Slots : ("PENDING" \in flags[p]) <=> pending[p] # {}

\* p_pendcount counts the signals not told yet and those MM has not finished,
\* although the same signal may be raised again while MM handles it
\* (system.c:1039-1041).
Unfinished(p) ==
    Cardinality(pending[p]) + (IF p = mm.sig THEN Cardinality(mm.left) ELSE 0)
CountExact ==
    \A p \in Slots : pendcount[p] = IF p \in inUse THEN Unfinished(p) ELSE 0

\* The books of the signals agree with each other.
SignalsCounted == SigProcsExact /\ PendingExact /\ CountExact

\* "The process being signaled is blocked while MM has not seen or finished
\* with all signals for it" (system.c:1038), and no longer.
HeldWhileSignalled ==
    \A p \in Slots : ("SIG_PENDING" \in flags[p]) <=> pendcount[p] > 0

\* MM never waits for a message while a process has a signal to tell it of.
MMTold == at["MM"] = "any" => \A p \in Slots : "PENDING" \notin flags[p]

\* The callers of a server are the processes that wait to send to it, each
\* once: an exit takes a killed process out of the middle of the queue.
CallersExact ==
    \A s \in Servers :
        /\ \A i, j \in 1..Len(callerq[s]) : callerq[s][i] = callerq[s][j] => i = j
        /\ {callerq[s][i] : i \in 1..Len(callerq[s])} =
               {p \in inUse : "SENDING" \in flags[p] /\ peer[p] = s}

\* When no more signals are raised and no more calls made, no process stays
\* held by a signal: MM is told of all of them and finishes them.
NoNewWork == ~(Calls \/ Signalled \/ Execs)
SignalsEnd ==
    <>[][NoNewWork]_vars => <>[](\A p \in Slots : "SIG_PENDING" \notin flags[p])
=============================================================================
