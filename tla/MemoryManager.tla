---------------------------- MODULE MemoryManager ----------------------------
(***************************************************************************)
(* The memory manager of MINIX: main() of src/t1/src/mm/main.c (the same   *)
(* in t2) and the allocator with swapping of                               *)
(* src/t5/minix_usr/src/mm/alloc.c.  MM is one process that handles one    *)
(* request after the other, so a step is one turn of its main loop: the    *)
(* handler of the request, swap_in() and the sending of the replies.       *)
(*                                                                         *)
(* The handlers of FORK, EXEC, EXIT, WAIT and signals are not part of the  *)
(* repository.  They are taken to do what alloc.c and main.c say of them:  *)
(* allocate and release memory, block, queue a swapped-out process that    *)
(* has a signal or a reply to come.  A process has one piece of memory.    *)
(***************************************************************************)
EXTENDS HoleTable

CONSTANTS
    NrProcs,    \* process slots LOW_USER..NR_PROCS-1, numbered from 1
    MemSize,    \* the chunk of memory the kernel reports: clicks 0..MemSize-1
    Sizes,      \* bound: sizes of processes
    SwapSizes   \* bound: sizes of a swap file

ASSUME ProcsAssumption == NrProcs \in Nat \ {0}
ASSUME SizesAssumption ==
    /\ MemSize \in Nat \ {0}
    /\ SwapBase = MemSize + 1          \* mem_init(): swap_base++, make separate
    /\ Sizes \subseteq Nat \ {0}
    /\ SwapSizes \subseteq Nat         \* swap_maxsize is out of reach

Procs == 1..NrProcs
NoMem == -1

\* IN_USE; BLOCKED for PAUSED, WAITING and SIGSUSPENDED; PENDING for a signal
\* in mp_sigpending; REPLY, ONSWAP, SWAPIN as in the code.
Flags == {"IN_USE", "BLOCKED", "PENDING", "REPLY", "ONSWAP", "SWAPIN"}
FreeSlot == [flags |-> {}, base |-> 0, len |-> 0]

VARIABLE mm
\* holes, worstFit (WORST_FIT_FLAG), swapOn (swap_fd # -1), proc (mproc),
\* queue (in_queue), outswap; and fate:
\*   "ok"     the memory manager runs
\*   "panic"  free_mem() found the hole table full
\*   "wild"   a list without holes was followed through its null pointer
\*   "stray"  memory was allocated in the swap area
\* What happens after one of the last three is not modelled.

\* mem_init()
Init ==
    mm = [holes |-> <<Hole(0, MemSize)>>,
          worstFit |-> FALSE,
          swapOn |-> FALSE,
          proc |-> [p \in Procs |-> FreeSlot],
          queue |-> <<>>,
          outswap |-> 1,
          fate |-> "ok"]

-----------------------------------------------------------------------------
(* The functions of alloc.c and main.c, from the state of MM to its state. *)

Has(m, p, flag) == flag \in m.proc[p].flags
With(m, p, on, off) == [m EXCEPT !.proc[p].flags = (@ \cup on) \ off]

\* free_mem()
FreeMem(m, base, clicks) ==
    IF clicks = 0 THEN m
    ELSE IF TableFull(m.holes) THEN [m EXCEPT !.fate = "panic"]
    ELSE [m EXCEPT !.holes = Insert(@, base, clicks)]

\* swap_out(): the first candidate after the last victim that finds room in
\* the swap area.
Candidate(m, p) ==
    /\ Has(m, p, "BLOCKED")
    /\ ~Has(m, p, "REPLY") /\ ~Has(m, p, "ONSWAP")
    /\ SwapFit(m.holes, m.proc[p].len) # {}
Turn(m, p) == (p - m.outswap - 1) % NrProcs
Victims(m) ==
    {p \in Procs : Candidate(m, p) /\ \A q \in Procs : Candidate(m, q) => Turn(m, p) <= Turn(m, q)}

\* Mutant of MoveOut: the memory of the victim is not released.
MoveOutKeeping(m, p) ==
    LET i == CHOOSE i \in SwapFit(m.holes, m.proc[p].len) : TRUE
        moved == [m EXCEPT !.holes = Bite(@, i, m.proc[p].len),
                           !.proc[p].base = m.holes[i].base,
                           !.outswap = p]
    IN  With(moved, p, {"ONSWAP"}, {})

MoveOut(m, p) ==
    LET i == CHOOSE i \in SwapFit(m.holes, m.proc[p].len) : TRUE
        moved == [m EXCEPT !.holes = Bite(@, i, m.proc[p].len),
                           !.proc[p].base = m.holes[i].base,
                           !.outswap = p]
    IN  With(FreeMem(moved, m.proc[p].base, m.proc[p].len), p, {"ONSWAP"}, {})

SwapOut(m) == MoveOut(m, CHOOSE p \in Victims(m) : TRUE)

\* alloc_mem(): swaps processes out until the request fits or nobody is left.
\* The result has the base of the memory, or NoMem.
Lost(m) == m.worstFit /\ m.holes = <<>>
Fit(m, clicks) == IF m.worstFit THEN WorstFit(m.holes, clicks) ELSE FirstFit(m.holes, clicks)
MustSwap(m, clicks) ==
    m.fate = "ok" /\ ~Lost(m) /\ Fit(m, clicks) = {} /\ Victims(m) # {}
SwapMore(m, clicks) == IF MustSwap(m, clicks) THEN SwapOut(m) ELSE m
SwapToFit(m, clicks) ==
    LET after[n \in 0..NrProcs] == IF n = 0 THEN m ELSE SwapMore(after[n - 1], clicks)
    IN  after[NrProcs]
Take(m, i, clicks) ==
    [m |-> [m EXCEPT !.holes = Bite(@, i, clicks),
                     !.fate = IF m.holes[i].base < SwapBase THEN "ok" ELSE "stray"],
     base |-> m.holes[i].base]
TakeFit(m, clicks) ==
    IF m.fate # "ok" THEN [m |-> m, base |-> NoMem]
    ELSE IF Lost(m) THEN [m |-> [m EXCEPT !.fate = "wild"], base |-> NoMem]
    ELSE IF Fit(m, clicks) = {} THEN [m |-> m, base |-> NoMem]
    ELSE Take(m, CHOOSE i \in Fit(m, clicks) : TRUE, clicks)
AllocMem(m, clicks) == TakeFit(SwapToFit(m, clicks), clicks)

\* swap_inqueue()
SwapInqueue(m, p) ==
    IF Has(m, p, "SWAPIN") THEN m
    ELSE With([m EXCEPT !.queue = Append(@, p)], p, {"SWAPIN"}, {})

\* Mutant of Setreply: a swapped-out process is not queued.
SetreplyOnly(m, p) == With(m, p, {"REPLY"}, {})

\* setreply()
Setreply(m, p) ==
    LET replied == With(m, p, {"REPLY"}, {})
    IN  IF Has(m, p, "ONSWAP") THEN SwapInqueue(replied, p) ELSE replied

\* check_pending(), a signal caught: the process goes on, with a reply.
CheckPending(m, p) ==
    IF Has(m, p, "PENDING")
    THEN Setreply(With(m, p, {}, {"PENDING", "BLOCKED"}), p)
    ELSE m

\* swap_in(): one entry of the queue after the other.  Those that find no
\* memory stay; a process that is gone is dropped.
Dropped(m, p) == [m EXCEPT !.queue = RemoveFirst(@, p)]
Back(m, p) ==
    IF m.fate # "ok" THEN m
    ELSE CheckPending(Dropped(With(m, p, {}, {"ONSWAP", "SWAPIN"}), p), p)
MoveIn(found, p) ==
    IF found.m.fate # "ok" \/ found.base = NoMem THEN found.m
    ELSE Back(FreeMem([found.m EXCEPT !.proc[p].base = found.base],
                      found.m.proc[p].base, found.m.proc[p].len), p)
SwapInNext(m, p) ==
    IF m.fate # "ok" THEN m
    ELSE IF Has(m, p, "SWAPIN") THEN MoveIn(AllocMem(m, m.proc[p].len), p)
    ELSE Dropped(m, p)
SwapIn(m) ==
    LET after[n \in 0..Len(m.queue)] ==
            IF n = 0 THEN m ELSE SwapInNext(after[n - 1], m.queue[n])
    IN  after[Len(m.queue)]

\* main(): the replies to all who are in memory
SendReplies(m) ==
    IF m.fate # "ok" THEN m
    ELSE [m EXCEPT !.proc = [p \in Procs |->
             IF Has(m, p, "ONSWAP") THEN m.proc[p]
                                    ELSE [m.proc[p] EXCEPT !.flags = @ \ {"REPLY"}]]]

\* The rest of a turn of the main loop after the handler has left m.
Finish(m) == SendReplies(SwapIn(m))

-----------------------------------------------------------------------------
(* Requests.  A reply to a caller that is in memory goes out in the same   *)
(* turn and leaves no trace.                                               *)

Up == mm.fate = "ok"
Running(p) == Up /\ mm.proc[p].flags = {"IN_USE"}

\* FORK: memory for a new process
Forked(found, p, size) ==
    IF found.base = NoMem THEN found.m
    ELSE [found.m EXCEPT !.proc[p] = [flags |-> {"IN_USE"}, base |-> found.base, len |-> size]]
Fork(p, size) ==
    /\ Up /\ mm.proc[p].flags = {}
    /\ mm' = Finish(Forked(AllocMem(mm, size), p, size))

\* EXEC: new memory for a process, then the old is released
Replaced(found, p, size) ==
    IF found.base = NoMem \/ found.m.fate # "ok" THEN found.m
    ELSE FreeMem([found.m EXCEPT !.proc[p].base = found.base, !.proc[p].len = size],
                 found.m.proc[p].base, found.m.proc[p].len)
Exec(p, size) ==
    /\ Running(p)
    /\ mm' = Finish(Replaced(AllocMem(mm, size), p, size))

\* EXIT, or death by a signal wherever the process is; a parent that waits
\* for it gets its reply.
Exit(p) ==
    LET gone == FreeMem([mm EXCEPT !.proc[p] = FreeSlot], mm.proc[p].base, mm.proc[p].len)
    IN  /\ Up /\ Has(mm, p, "IN_USE")
        /\ \/ mm' = Finish(gone)
           \/ \E q \in Procs \ {p} :
                  /\ Has(mm, q, "BLOCKED")
                  /\ mm' = Finish(Setreply(With(gone, q, {}, {"BLOCKED"}), q))

\* WAIT, PAUSE, SIGSUSPEND: no reply for now
Block(p) ==
    /\ Running(p)
    /\ mm' = Finish(With(mm, p, {"BLOCKED"}, {}))

\* A signal to be caught by a blocked process; it waits for one that is
\* swapped out to come back.
Signal(p) ==
    /\ Up /\ Has(mm, p, "BLOCKED")
    /\ mm' = Finish(IF Has(mm, p, "ONSWAP")
                    THEN SwapInqueue(With(mm, p, {"PENDING"}, {}), p)
                    ELSE Setreply(With(mm, p, {}, {"BLOCKED"}), p))

\* swap_on(): a file of less than a click adds no hole.
SwapOn(size) ==
    /\ Up /\ ~mm.swapOn
    /\ mm' = Finish(FreeMem([mm EXCEPT !.swapOn = TRUE], SwapBase, size))

\* swap_off() queues all who are swapped out.
QueueIfSwapped(m, p) == IF Has(m, p, "ONSWAP") THEN SwapInqueue(m, p) ELSE m
QueueSwapped(m) ==
    LET after[p \in 0..NrProcs] == IF p = 0 THEN m ELSE QueueIfSwapped(after[p - 1], p)
    IN  after[NrProcs]

\* Mutant of CloseSwap: the swap area goes although somebody is on it.
CloseSwapAnyway(m) ==
    IF m.fate # "ok" THEN m
    ELSE [m EXCEPT !.holes = DropSwapHoles(@), !.swapOn = FALSE]

\* swap_off(): everybody back into memory, or ENOMEM.  With no hole but one
\* of swap the loop that removes it goes on from a null pointer.
CloseSwap(m) ==
    IF m.fate # "ok" \/ \E p \in Procs : Has(m, p, "ONSWAP") THEN m
    ELSE IF Len(m.holes) = 1 /\ Regular(m.holes) = {} THEN [m EXCEPT !.fate = "wild"]
    ELSE [m EXCEPT !.holes = DropSwapHoles(@), !.swapOn = FALSE]
SwapOff ==
    /\ Up /\ mm.swapOn
    /\ mm' = Finish(CloseSwap(SwapIn(QueueSwapped(mm))))

\* do_worst_fit()
SetWorstFit(flag) == Up /\ mm' = Finish([mm EXCEPT !.worstFit = flag])

Next ==
    \/ \E p \in Procs, size \in Sizes : Fork(p, size)
    \/ \E p \in Procs, size \in Sizes : Exec(p, size)
    \/ \E p \in Procs : Exit(p)
    \/ \E p \in Procs : Block(p)
    \/ \E p \in Procs : Signal(p)
    \/ \E size \in SwapSizes : SwapOn(size)
    \/ SwapOff
    \/ \E flag \in BOOLEAN : SetWorstFit(flag)

Spec == Init /\ [][Next]_mm

-----------------------------------------------------------------------------
Used == {p \in Procs : Has(mm, p, "IN_USE")}
Memory(p) == mm.proc[p].base..(mm.proc[p].base + mm.proc[p].len - 1)

\* Type invariant.
TypeOK ==
    /\ mm.holes \in Seq([base : Nat, len : Nat \ {0}])
    /\ mm.worstFit \in BOOLEAN /\ mm.swapOn \in BOOLEAN
    /\ mm.proc \in [Procs -> [flags : SUBSET Flags, base : Nat, len : Nat]]
    /\ mm.queue \in Seq(Procs)
    /\ mm.outswap \in Procs
    /\ mm.fate \in {"ok", "panic", "wild", "stray"}

\* The hole list is sorted by address and has no two holes that touch.
HolesApart ==
    \A i \in 1..(Len(mm.holes) - 1) : HoleEnd(mm.holes[i]) < mm.holes[i + 1].base

\* Every click of memory is in one hole or in one process, never in two:
\* nothing leaks and nothing is given away twice, swapping or not.
MemoryKept ==
    mm.fate = "ok" =>
        \A c \in 0..(MemSize - 1) :
            Cardinality({i \in DOMAIN mm.holes : c \in Clicks(mm.holes[i])})
            + Cardinality({p \in Used : c \in Memory(p)}) = 1

\* The hole table never overflows: a panic of free_mem() cannot happen.
TableSuffices == mm.fate # "panic"

\* The swap queue holds each process that wants to come back once, and no
\* other; who has a reply or a signal to come wants to.
QueueExact ==
    mm.fate = "ok" =>
        /\ \A i, j \in DOMAIN mm.queue : i # j => mm.queue[i] # mm.queue[j]
        /\ ToSet(mm.queue) = {p \in Procs : Has(mm, p, "SWAPIN")}
        /\ \A p \in Procs : Has(mm, p, "SWAPIN") => Has(mm, p, "ONSWAP")
        /\ \A p \in Procs : Has(mm, p, "REPLY") \/ Has(mm, p, "PENDING") => Has(mm, p, "SWAPIN")

\* Who is on swap has its memory in the swap area, as long as that exists.
SwappedAbove ==
    mm.fate = "ok" =>
        \A p \in Used : Has(mm, p, "ONSWAP") <=> mm.swapOn /\ mm.proc[p].base >= SwapBase

\* "The swap area is represented as a hole above and separate of regular
\* memory": no process runs in it.
SwapSeparate == \A p \in Used : mm.proc[p].base >= SwapBase => Has(mm, p, "ONSWAP")
=============================================================================
