# SOI-STUD: a verification project

The repository holds six exercises of an operating systems course: changes to
the MINIX memory manager and kernel (t1, t2, t5), two programs of producers and
consumers (t3 with semaphores, t4 with a monitor library) and a file system in
one image file (t6).  This directory models what of them can be checked, says
what must hold, and proves the core of it.

Run a check with `tlc -config <run>.cfg <module>` and the proofs with
`tlapm <module>Proofs.tla`.  `PROJECT.json` lists runs, mutants, the lines each
definition stands for, hazards and theorems.

## 1. Inventory

| Part | Source | State | Operations | What is hard | Correct when |
|---|---|---|---|---|---|
| t3, semaphores | `src/t3/semaphores.cpp` | one FIFO buffer, five mutexes used as binary semaphores, four counters of waiting threads | endless rounds of a1, a2 (producers), b1, b2 (consumers) | `mutex` is handed to the woken thread without being unlocked; the condition is tested by an `if`; the order of waking is fixed | one thread at the buffer, a hand-over always has a receiver, a woken thread's condition holds, no wake-up is missed, everybody gets on |
| t4, monitor | `src/t4/monitor.h` | semaphore `s`; per condition a semaphore `w` and `waitingCount` | enter, leave, wait, signal | a thread leaves the monitor before it parks; `signal` passes the monitor on and enters again | one thread inside, the right to enter is never lost, counters exact, a woken thread finds its condition |
| t4, its client | `src/t4/ConsProdMonitor.cpp` | buffer, four counters, a monitor with four conditions | putEven, putOdd, getEven, getOdd | calls `leave()` before `wait()` and not after `signal()` | as t3 |
| t6, virtual disc | `src/t6/fs.cpp` | the image: superblock, inodes, data map, blocks chained by `next` | create, cpto, cpfrom, mkdir, rm, unlink, link, dec, inc, ls, sums | full disc, hard links (to directories too), blocks reused with old content, directories removed recursively | no block shared or lost, map exact, sizes match, no entry names a free inode |
| t5, allocator of MM | `src/t5/minix_usr/src/mm/alloc.c` | list of holes, flags and map of each process, swap queue, `outswap`, fit | alloc_mem, free_mem, swap_on, swap_off, swap_in, swap_out, do_worst_fit, do_hole_map | first and worst fit, merging, swapping out while allocating, a table of fixed size | no click lost or given twice, list sorted and merged, swapped processes where the map says |
| t1, t2, MM's main loop | `src/t1/src/mm/main.c`, same in t2 | pending replies | get_work, setreply, send | a reply to a swapped-out process must bring it back first | nobody waits for a reply without being queued |
| t1, getprocnr | `src/t1/src/mm/main.c:182` | none of its own | a search of the process table | nothing | not modelled |
| t2, clock task: alarms | `src/t2/minix_usr/src/kernel/clock.c` | `realtime`, `pending_ticks`; `p_alarm` per process, `next_alarm`; `syn_table`, `syn_al_alive` | clock_handler, clock_task, do_clocktick, do_setalarm, do_setsyn_alrm, cause_alarm, syn_alrm_task, get/set time | the interrupt handler runs between any two steps of the task and reads `next_alarm` while it is computed; two tasks that send to each other's clients | no alarm is passed over or forgotten, nobody waits for ever |
| t2, scheduling in groups | `clock.c`, `system.c` | `proc_grp` per process, `sched_ticks`, `prev_ptr`, `bill_ptr`, the ready queue | clock_handler, do_clocktick, do_fork, set_proc_grp, get_proc_grp | the quantum is renewed in two places, for a head of the queue that may have changed or be gone; `sched_ticks` may get negative | the quantum is restored, nobody starves, group B has double the time of group A |
| t2, system task | `src/t2/minix_usr/src/kernel/system.c` | per process `p_flags`, `p_pending`, `p_pendcount`, place in a ready queue and in a server's queue of callers; `sig_procs` | cause_sig, inform, do_kill, do_endsig, do_fork, do_newmap, do_exec, do_xit, do_trace; copies and maps | a process is held by several flags that are set and lifted in any order; signals raised while MM handles others, or exits, forks, execs | a process is in a ready queue exactly when nothing holds it; the counters agree with the signals; MM learns of every signal |
| t2, process dump | `dmp.c` | none | prints the tables | nothing | not modelled |
| tests | t1, t2, t5 test programs, `src/t6` script | none | print, sleep, run commands | nothing | not modelled |

How they interact.  The threads of t3 and of t4 share memory and nothing else:
every step between two synchronisation operations may be interleaved with
others.  The client of t4 calls the monitor.  The commands of t6 are processes
that meet only in the image, which each reads whole (`open`) and writes whole
(`save`).  In MINIX, MM is one process that gets requests as messages, one at a
time; the allocator is called by its handlers and by its main loop.  In the
kernel tasks do not preempt each other, and only interrupts come between their
steps; the clock interrupt shares the variables of the clock task.  The clock
task raises SIGALRM by `cause_sig()` of the system task, which MM and FS call by
messages; a fork and an exit change what the clock task looks at.

The full list of what is hard to test, each at its line, is under `hazards` in
`PROJECT.json`.

## 2. The modules

    Buffer  <- ProdCons              what both programs promise
       ^  ^---- SemProdCons          t3             <- SemProdConsProofs
       |                                            <- MCSemProdCons
       +------- ConsProdMonitor      t4's program   <- ConsProdMonitorProofs
    Monitor <--'                                    <- MCConsProdMonitor
       ^--------- MonitorClients     t4's library   <- MonitorClientsProofs, MCMonitorClients
    HoleTable <-- MemoryManager      t5, main loop  <- MemoryManagerProofs, MCMemoryManager
    VirtualDisc                      t6             <- VirtualDiscProofs, MCVirtualDisc
    SystemTask                       t2, system.c   <- SystemTaskProofs, MCSystemTask
    ClockAlarms                      t2, clock.c    <- ClockAlarmsProofs, MCClockAlarms
    ClockQuantum                     t2, clock.c    <- ClockQuantumProofs, MCClockQuantum
       ^--------- ClockGroups        its measure    <- MCClockGroups

**Buffer** has the queue, the conditions can{Prod,Cons}{Even,Odd} with their
limits 10, 3, 7 as constants, what each kind of thread does to the queue, and
the if-chain each kind ends its round with (`WakeOrder`, `Wakes`).  Numbers are
reduced to their parity: nothing else of them is looked at.

**ProdCons** is the abstract specification: the buffer changes only by whole
operations, each by a kind of thread that is present and whose condition holds
at that moment.  SemProdCons and ConsProdMonitor are shown to implement it.

**SemProdCons** (t3).  `mutex`, `cond` (the four condition semaphores),
`waiting` (the counters), `buffer` and a program counter per thread.  One action
per statement that touches shared state: `Lock`, `Pass`/`Count` (the `if` and the
counting), `Release` (`mutex.unlock()`), `Park`, `Resume` (the count lowered by
the woken thread), `Update`, and for the if-chain `HandOver` or `Unlock`.
`Threads` and `KindOf` give the scenario that `main()` is asked for.  The code
unlocks `std::mutex` from threads that do not own it, which the C++ standard
leaves undefined; the program relies on the default pthread mutex, which behaves
as a binary semaphore, and so does the model.

**Monitor** (`monitor.h`).  The four operations as the atomic steps they consist
of, without a thread: `Enter`, `Leave`, `WaitCount`, `WaitPark`, `SignalNone`,
`SignalCount`, `SignalPost`.  It is the build with POSIX semaphores; the Windows
build creates semaphores with a maximum of 1, which makes a second `v()` a
failed call, and is not modelled.

**MonitorClients**: arbitrary threads that call these operations as a monitor
demands (only from inside; signal only a condition that holds).  The protected
data is a set of conditions that hold, changed at will by whoever is inside.
This is what the library promises, independent of its one client.

**ConsProdMonitor**: that client as it is, with the `leave()` before `wait()`
and without one after `signal()`.  Test and decrement of `waitingCount` in
`signal()` are one step.  With two threads this leaves nothing out, as the
module's head says; with more, outcomes of the race on `waitingCount` are left
out, and no run claims anything about those scenarios.

**VirtualDisc** (t6).  The variable is the image.  Every command is one step:
`Cpto`, `Mkdir`, `Link`, `Unlink` (both rm and unlink call it), `Dec`, `Inc`,
from `open` to `save`.  A process that dies on the way (null pointer, access
through a wild block number) leaves the image as it was and is no step.  The
operators below have the names of the functions they stand for.  Abstractions:
a block is a few slots of one directory element; sizes count slots; files
hold zeroes, so what a reused block shows is either nothing or an old
entry (other bytes of a file would show as garbage entries).  `inc` of an empty
file, which reads `datablock_tab[-1]`, is outside of the model.  `remove_file()` calls
itself; `RemoveStep` is a round of its loop over a stack of unfinished calls, and
`RemoveFile` takes up to `MaxWalk` of them.  A removal that needs more is treated as
one that overflows the stack: the process dies and saves nothing.

**HoleTable**: the hole list as a sequence, with `Bite`/`del_slot`, `Merge`,
`Insert` (free_mem) and the two fits, as operators without state.

**MemoryManager** (t5 with the main loop of t1 and t2).  The variable is a record
with the state of MM.  MM handles one message after the other, so a step is a
turn of the main loop: the handler, `swap_in()`, the replies (`Finish`).  The
functions of alloc.c are operators from state to state under their own names.
The handlers of FORK, EXEC, EXIT, WAIT and of signals are not in the repository;
they are modelled from their use of alloc.c and main.c and marked external.
`fate` tells how a turn ended: `ok`, `panic` (hole table full), `wild` (an empty
list followed through its null pointer), `stray` (memory given out in the swap
area).  What MM does after one of the last three is not modelled.

**SystemTask** (t2, `system.c`).  `inUse` (a slot has priority PPRI_USER), `flags`,
`pending`, `pendcount`, `sigProcs`, `queued` (how many times a slot is in a ready
queue: `lock_ready()` adds one, `lock_unready()` takes one off), `peer` (`p_sendto`,
`p_getfrom`), `callerq`, and for the servers MM and FS where they are (`at`) and what
MM works on (`mm`).  Tasks do not preempt each other and a caller waits for its
reply, so a step is one handler: `CauseSig` with `Inform`, `DoKill`, `DoEndsig`,
`DoFork`, `DoNewmap`, `DoExec`, `DoXit`, `DoStop`, `DoResume`.  proc.c and the handlers
of MM are not in the repository: processes call servers, servers reply and receive
in any order (`CallFree`, `CallBusy`, `Reply`, `Receive`, ...).  Assumed of MM: it
handles one call or one KSIG at a time, answers who waits for it, resumes only
stopped processes, gives a child its map before it goes on, and finishes every
signal of a KSIG.  Slot 1 is INIT, which neither exits nor is traced.

**ClockAlarms** (t2, `clock.c`).  `pending` (`pending_ticks`), `left` and `nextLeft` (`p_alarm`
and `next_alarm`, relative to `realtime`, so that time needs no bound; the clock's wrap
is left out), `hardInt` (an interrupt message waits), `pc` and `slot` of the clock task,
`synTable`, `synAlive`, `syn`, `synTo` of the synchronous alarm task, `calling` (clients
that wait for the clock task).  `Tick` is the interrupt handler and comes between any
two steps; the scan of `do_clocktick()` is one step per process, as ticks come in
between; everybody else acts while the clock task waits, for a message or in
`cause_alarm()`.  The other reason to wake the clock task, the quantum, is a choice
(`expired`).  Watchdogs of tasks inside the kernel are left out.

**ClockQuantum** (t2, `clock.c`, `set_proc_grp` of `system.c`).  `schedTicks`, `prev`, `bill`
(`bill_ptr`), `ready` (the queue of user processes), `grp`.  `Tick` comes between `Count`,
`Sched` and `Renew` of the clock task.  Here the alarms are a choice (`due`), and the
clock task may wait while it looks at them.  The head of an empty queue is read
through a null pointer: the group found there may be any.  Tasks and servers are
there only as time in which `bill` does not change.

**ClockGroups** adds two history variables that measure the turns of undisturbed
processes, to compare the groups.

MC modules hold the sets and symmetries the configurations use.  An operator
with "Mutant of" in its comment belongs to no specification: it is a plausible
bug, and put in place of the definition it names it must break a property.

## 3. The runs

| Run | Question | Bounds | Result |
|---|---|---|---|
| `sem_scenario7` | Four threads, one of each kind: baton, receivers, no wake-up missed; does the program implement ProdCons, does every thread use the buffer for ever? | limits 5, 2, 4 | holds |
| `mon_clients` | Does the library keep what it promises to clients that follow the rules? | 4 threads, 2 conditions, symmetric | holds |
| `cpm_scenario5` | Scenario 5 of `main()` (two producers): exclusion, ProdCons implemented | limits of the code | holds |
| `cpm_scenario5_dead` | ... can everybody always get on? | limits of the code | violated, see 4 |
| `vd_commands` | Any sequence of commands: blocks, map, sizes, free parts, no file changed with another | 3 inodes, 3 blocks of 2 slots, sizes to 3, paths to 2 names | holds |
| `vd_dangling` | Does every entry name an inode in use? | same | violated, see 4 |
| `mm_requests` | Any sequence of requests, with swapping and both fits: memory, hole list and table, swap queue | 4 processes of 1 or 2 clicks, 3 clicks of memory, a swap file of 0 or 3, 5 holes | holds |
| `mm_swap_area` | Is the swap area kept apart from memory? | 3 processes, 4 clicks of memory | violated, see 4 |
| `sys_signals` | Any order of calls, signals, forks, execs, exits and tracing: ready queue, counters, callers; is MM told, does every signal end? | 3 slots, one signal (SIGTRAP) | holds |
| `clock_alarms` | Alarms of users and clients with ticks at any moment: is none passed over or forgotten, do all end? | 2 users, 2 clients, alarms in up to 2 ticks, 2 ticks late | holds |
| `clock_quantum` | Is the quantum restored, the queue kept, does everybody get the processor again? | 3 processes, quantum 2, 2 ticks while rescheduling | holds |
| `clock_groups` | Has group B twice the time of group A? | 2 processes, quantum 6 | violated, see 4 |

Why the bounds are enough.

*Limits of the buffer.*  Scaled down they keep the order of the originals
(`EvenMax > MinForOdd > MinForEven`), so all four conditions are true and false in
every combination the code has, and the buffer fills up and runs low.  The
theorems of section 5 hold for every value.

*Threads.*  One thread of each kind is the scenario in which the program promises
most; several threads of a kind are covered by the theorems of section 5, which
hold for any number.  Four clients of the monitor fill every role at once: one waiting, one that
signals, one that re-enters, one that overtakes.

*Disc.*  Three blocks of two slots give chains of length three, directories over
more than one block, and a full disc within a few commands.  Three inodes are a
root and two files, enough for two owners of a block and for a directory that
holds itself by a link.  `RefMod` is 8 instead of 256.  Six slots exist, so no
inode has eight names at a time; the count drifts where an entry is written to
two blocks for one link, and the modulus keeps that finite.  `MaxWalk` is 24; the states
are the same from 12 on, so no removal on this disc is cut off.

*Memory.*  Four processes on three clicks force swapping, fragmentation and
a full memory.  The table has one hole more than there can be pieces of memory
(processes); with one less it would overflow.  The code has `2 * NR_PROCS`
entries for at most two pieces of each of the fewer than `NR_PROCS` user
processes.

*System task.*  Three slots are INIT, a parent and a child, or three callers of the
queue, one of them in its middle.  With one signal the same signal is raised again
while MM handles it, which is what the counters could get wrong; the theorems hold
for any set of signals.

*Alarms.*  Slots 1 and 4 are users and 2 and 3 clients, so that the scan meets a user
before, and one after, two synchronous alarms.  Alarms are set 0 (off), 1 or 2
ticks ahead.  `MaxPending` is 1: one tick is pending while the clock task works
or is asked for; a further one comes only when the clock task is idle and then asks for
it, as a quantum would.  `Never` stands for LONG_MAX and only has to be later than any
alarm.

*Quantum.*  Three processes tell a rotation from a swap; a quantum of 2 lets a tick
count without ending it; up to two ticks come between the steps of `do_clocktick()`.

Deadlock is checked in `sem_scenario7`, `sys_signals`, `clock_alarms` and `clock_quantum`, which
never stop.  It is not in the others: arbitrary clients of a monitor may all wait; two producers stop when the buffer is
full; every command on a disc may be refused; MM is not followed after a fatal
outcome.

*Fairness* is stated in four specifications.

`sem_scenario7`.  `WF` on everything a thread does once it
runs: the scheduler runs every thread that can run.  `SF` on `Lock`: a thread may
be overtaken at `mutex`, but each of the others sleeps one to two seconds
between its rounds, so `mutex` is free again and again and long enough for
whoever waits for it.

`sys_signals`.  The handlers of MM end: it gets its answers from FS (`WF(MMResumes)`), gives
a child its map (`WF(Newmaps)`), and comes back to `receive()` and finishes the signals
it was told of even if other requests come first (`SF`).

`clock_alarms`.  The clock ticks and the clock task runs when it can (`WF`).  An interrupt
is served although callers come first time and again (`SF(Interrupted)`): the
callers are finitely many and each waits for its reply.  Clients are answered and
receive their messages (`SF(ClientAlarms)`, `SF(SynSteps)`).

`clock_quantum`.  The clock ticks, the clock task runs, and user processes are picked when
no task is running (`SF(Pick)`).  `ServedAgain` speaks of behaviours in which, from some time
on, nobody blocks or wakes up and the tasks leave the processor within a tick.

## 4. What the violations show

1. `cpm_scenario5_dead`.  Between `leave()` and `wait()` of one producer the other
   one sees the counter and signals, which finds `waitingCount` zero; the
   signaller does not leave, so the right to enter is lost.
2. `vd_dangling`.  `mkdir a/b; rm a; mkdir a; cpto one a`: `ls a` shows `b` again.  The
   freed block keeps its entries and nobody clears it.
3. `mm_swap_area`.  Worst fit starts with the first hole of the list unseen; with no
   regular hole that is the swap area.
4. `clock_groups`.  A process is sent to the end of the queue at the end of a quantum in
   which `bill_ptr` equals `prev_ptr`.  After a preemption `prev_ptr` is still the process before
   (`clock.c:195`), so a turn takes two quanta.  `do_clocktick()` gives the first, doubled
   for group B; the interrupt handler gives the second, with SCHED_RATE whatever the group
   (`clock.c:485`).  With a quantum of 6 the turns are 12 ticks in group A and 18 in B.

Three weaknesses have no run of their own.  With two b1, a thread can
stay parked with its condition true, as the if-chain of b1 (`semaphores.cpp:243`) never
looks at even consumers: `WakeupsComplete` below assumes one thread of each kind for
that reason.  With one thread of each kind on the monitor, the extra `leave()` of
`ConsProdMonitor.cpp:110` lets two threads in: `cpm_scenario5` and the theorems about
ConsProdMonitor claim exclusion for two threads only.  And a full disc is not noticed, as `find_free_datablock()` returns 32
bits of ones, compared with 64: VirtualDisc models it (`Wild`), and `vd_commands` shows that
even then no block gets two owners.

## 5. What is proved

The proofs need no bound.  Their assumptions are those of the modules.  A leaf with
`SMTT(60)`, `Zenon` or `ZenonT(60)` is one that the named prover finds but not at once; on a
slow or busy machine the default time might not be enough for it.

**SemProdConsProofs**: for every finite set of threads of any kinds (`ThreadsAssumption`) and all limits the module admits
(`LimitsAssumption`)

    TypeCorrect       Spec => []TypeOK
    MutualExclusion   Spec => []Baton
    HandOverReceived  Spec => []Receiver
    Counted           Spec => []WaitingExact
    GuardKept         Spec => []GuardHolds
    Bounded           Spec => []BufferBounds
    Refinement        Spec => Implements
    WakeupsComplete   Spec => []NoMissedWakeup, if KindOf is injective

The inductive invariant is `Inv`, the conjunction of the first six.  No conjunct is inductive alone.  A hand-over has a receiver because
the counter the chain looks at is exact, and exact means that a thread of that
kind waits which, the one who hands over being alone inside, is parked.  A woken
thread's condition holds because whoever tested it was alone inside and passed the
right on.  The bound on odd numbers follows from that on even ones through the
guard of a2.  The last theorem adds that at the moment of `Unlock` the chain has
looked at all kinds but the thread's own; that only itself is of that kind is the
added assumption.  `Counted`, `GuardKept` and `Bounded` state invariants the proof needs and
no run repeats.

**MonitorClientsProofs**: for every finite set of threads and every set of
conditions (`ClientsAssumption`)

    TypeCorrect   Spec => []TypeOK
    Exclusive     Spec => []MutualExclusion
    Alive         Spec => []PermitKept
    Counted       Spec => []CountExact
    WokenInTime   Spec => []SignalledHolds

`Inv` is the conjunction of all five.  Exclusion needs that a posted wake-up and a
free `s` exclude each other; that a signalled condition still holds needs
exclusion; that the permit is kept needs exact counts, so that no wake-up is
posted to nobody.

**ConsProdMonitorProofs**: for the scenarios 1 to 6 of `main()`, that is one thread or two
of different kinds (`AtMostTwo`, `OnePerKind`), and all limits

    TypeCorrect   Spec => []TypeOK
    Exclusive     Spec => []MutualExclusion
    Refinement    Spec => Implements

With an extra `leave()` before `wait()` and none after `signal()`, `s` does not say who is
inside.  `Inv` rests on a balance instead (`Balanced`): `s`, plus one for each thread that is
inside, less one for each that has left twice or is about to enter for nothing, plus two
for each wake-up posted is at most 1, and no step raises it.  A signal that finds nobody
lowers it for good, which is the deadlock of `cpm_scenario5_dead`.  From it follows that whoever
is inside is alone and no wake-up is under way (`Alone`); a woken thread's condition
holds for that reason (`CondHolds`).  That a wake-up is posted to somebody, and once, needs
that a count belongs to a thread in `wait()` (`Signalled`) and that it is the only one of its
kind.  TLC finds no state that violates `Inv` for any pair of kinds; with two
threads of one kind `TypeOK` fails, with four threads `MutualExclusion`.

**SystemTaskProofs**: for any number of slots (`SlotsAssumption`) and any finite set of
signals (`SignalsAssumption`)

    TypeCorrect   Spec => []TypeOK
    ReadiedOnce   Spec => []ReadyOnce
    BooksAgree    Spec => []SignalsCounted
    Held          Spec => []HeldWhileSignalled
    Told          Spec => []MMTold
    CallersQueued Spec => []CallersExact

`Inv` joins the types, the books (`Books`: the flags, the pending signals and the three
counters against each other), `ReadyOnce`, `MMTold` and `ServersSane`.  The books are one
predicate of the values, so that what `cause_sig()`, `inform()`, a fork, an exit and
`do_endsig()` do to them are lemmas on their own, and every action that only changes other
flags keeps them (`BooksFlags`).  The counts agree because MM is told of a process only
when it has finished with the one before, which is `ServersSane`; a process is not readied
while it is held because the counts agree.  `CallersQueued` has an invariant of its own on top:
the queue of a server and the flags and `p_sendto` of the processes say the same, and
`do_xit()` takes the dead out of the middle of the queue (`Removed`) with nobody else moved.

**MemoryManagerProofs**: for any number of processes, any memory and swap file, any size
of the hole table (`ProcsAssumption`, `SizesAssumption`, `HolesAssumption`)

    TypeCorrect    Spec => []TypeOK
    HolesSeparate  Spec => []HolesApart
    ClicksKept     Spec => []MemoryKept
    QueueRight     Spec => []QueueExact
    SwapPlaces     Spec => []SwappedAbove
    NeverFull      Spec => []TableSuffices, if NrHoles >= NrProcs + 3

The lemmas come in the order of the code.  `Merged`, `Freed` and `Bitten` say what `merge()`,
`free_mem()` and `del_slot()` leave of a list that is sorted and apart: it stays so, and has
exactly the clicks added or taken.  `FirstFits`, `WorstFits` and `SwapFits`: what a search finds
is large enough.  `SwapDropped`: what `swap_off()` leaves.

`MemoryKept` is not inductive, as a handler holds memory that is in no hole and in no
process: `alloc_mem()` has found it and swaps out others, `free_mem()` is about to get it.  The
invariant is `Split(F, O, X, S)`: the clicks S of memory and swap area are divided among the
holes F, the processes O and what is changing hands, X.  `SplitTake`, `SplitGive`
and `SplitFree` are the three moves a handler is made of, and `Whole` adds that the
list is apart and short.  `Placed` (who is in the swap area has ONSWAP, nobody else), `Wanted`
(who may want to come back) and `Queued` (who is on the queue) complete it, and each
operator of MemoryManager has a lemma that says what it keeps.  `Queued` lets the queue have some
who are gone: an exit leaves its process there, and `swap_in()` must drop it in the same turn.
The loops (swap out until it fits, the swap queue, the process table) are recursive
functions; `Loop` and `LoopHolds` say that such a function exists and that what its steps keep
holds at its end.

`FewHoles` is a counting argument: after each hole but the last of the memory and the last of the
swap area a process begins, so an injection bounds the holes by the processes and two.
`free_mem()` needs a free entry then, hence three more.  In the code NR_HOLES is
2 * NR_PROCS for fewer than NR_PROCS user processes; those have up to two pieces of memory
there and one here, so the theorem is about the shape of the argument and not about that number.
The run `mm_requests` has a smaller table, of five: its three clicks of memory cannot hold as many
holes as the bound allows.

**ClockAlarmsProofs**: for any slots, users, clients, times and ticks
(`SlotsAssumption`, `TimeAssumption`)

    TypeCorrect       Spec => []TypeOK
    NothingForgotten  Spec => []SynNotForgotten
    AlarmsNoticed     Spec => TickNotices

`NextCovers` is the heart of `Inv`: `next_alarm` is not later than any alarm when the clock task
is idle, nor, during the scan, than any alarm the scan has passed.  With it a tick that
makes an alarm due finds `next_alarm` due.  The synchronous alarm task finds an entry when
there is one because turns around the table are well-founded (`SearchComplete`).

**ClockQuantumProofs**: for any set of processes and any SCHED_RATE above 1
(`UsersAssumption`, `RateAssumption`)

    TypeCorrect       Spec => []TypeOK
    QuantumRestored   Spec => []QuantumSane

The queue lemmas say that rotating, blocking and waking keep everybody in it once.

**VirtualDiscProofs**: for any number of inodes and blocks, any block size, any width of
`references_num`, all names, sizes and lengths of paths (`DiscAssumption`)

    DiscInductive  Init => Inv, and Inv /\ [Next]_disc => Inv'
    DiscTypes      Spec => []TypeOK
    DiscDisjoint   Spec => []ChainsDisjoint
    DiscMap        Spec => []MapExact
    DiscSizes      Spec => []SizeMatches
    DiscClean      Spec => []FreeIsClean
    DiscApart      Spec => FilesApart

The code follows chains of block numbers; the invariant `Good` is about what they stand for.
Each inode has a list of blocks without repetition that its chain spells out and that ends in
Nil or Wild (`Thread`); no block is in two lists, the map marks exactly those that are in one,
a free block leads nowhere (`Linked`); the length of a list fits the type and the size of
its inode, and only a file may end in Wild (`Fits`).  None of the five invariants is
inductive alone: a free block has no second owner because the map is exact, the end of a
chain is found because the list does not repeat, a new directory is empty because free
inodes and free blocks lead nowhere.  That elements never name the root is part of it too
(`SlotValue`): a removal that reached the root would leave no directory to start from.

There are two ways to change the lists, one more block (`LinkedTake`) and a cut
(`LinkedShorten`), and each has a form for a file that ends in Wild (`LinkedWild`,
`ShortenWild`).  On them rest the operations (`AddElemGood`, `DropGood`, `ReadIntoGood`,
`DecGood`, `IncGood`, ...), which keep the disc `Good` and each inode but the one they are for
the `Same`.  A loop is the table of its states: `Rounds` says there is one and that what its
rounds keep holds to the end.  For `remove_file()` that is: all that ceases to be the same
becomes free (`Removed`), whatever the shape of the tree and however long the walk.  A command
is then `Fine`: it leaves a disc that is in order, and loses the data of one file at most, or of
directories, apart from what it frees.  `Fine` gives the invariant and `DiscApart` at once.

These theorems say nothing of the entries: that they may name an inode that was freed is the
violation of `vd_dangling`, and the proofs hold in spite of it, for `FindInDir` may well
lead to such an inode, which is then empty and refused, or to somebody else's.

Only model-checked: `EveryoneServed`, `SignalsEnd`, `AlarmsEnd` and `ServedAgain` (liveness under
fairness is beyond the prover).

## 6. What is not modelled

- t2's system task: `do_sendsig`, `do_sigreturn`, `do_copy`, `do_vcopy`, `umap`, `do_getmap`, `do_getsp`,
  `do_times`, `do_puts`, `do_findproc`, `get_proc_grp` and the calls of `do_trace` that read and write
  memory: they copy, read, or set registers, and touch nothing the modelled calls look at.
  `do_mem` hands the chunks of memory out once, to MM when it starts; `do_abort` ends the system;
  SYSSIGNON of `do_sysctl` turns a user process into a server, which is then none of the processes
  the model is about.
- t2's clock task: the accounting of times, `do_set_time` (changes `boot_time` only), the time
  of day, delays, the timer's hardware, watchdogs of tasks.  A fork in the middle of a scan that
  waits in `cause_alarm()`: the child's alarm may be in a slot the scan has passed and is then
  late until the next alarm is set.
- The concept of t2 wants limits on the size of the groups (`SOI_lab2_Koncepcja.md`); the code has none,
  so there is nothing to model.
- `dmp.c` prints; proc.c, the rest of MM and FS are not in the repository.
- t1's `do_getprocnr` and t5's `do_hole_map` read and change nothing; the test programs
  have no state.
- Scenario 8 of t3 starts with `mutex` locked and nobody runs.
- t6: the contents of files, `cpfrom`, `ls` and sums (they change nothing), two commands at a
  time, a crash inside `save()`.
- What a corrupt MM or a process with a wild pointer does afterwards.

## 7. Plan

Done, in this order: t3 and its abstract specification, the proofs about it; the
monitor library and its proofs; its client; the virtual disc; the allocator; the clock
task, the scheduler and the system task, with their proofs; the proofs about the allocator
and about the monitor's client; the virtual disc without RECURSIVE operators, and its proofs.

Next:

1. **DiscSessions** (t6): two commands at a time over one image and a crash between the
   parts of `save()`, refining into the atomic commands of VirtualDisc where nothing
   overlaps; a small run in which `references_num` wraps.
