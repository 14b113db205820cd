---------------------------- MODULE SemProdCons -----------------------------
(***************************************************************************)
(* src/t3/semaphores.cpp: producers a1, a2 and consumers b1, b2 around one *)
(* FIFO buffer, synchronised with five mutexes used as binary semaphores.  *)
(* A thread that leaves the buffer either unlocks `mutex` or, if a thread  *)
(* of another kind waits and its condition holds, unlocks that kind's      *)
(* semaphore instead and leaves `mutex` locked on the woken thread's       *)
(* behalf.  The exclusive right to the buffer is so passed like a baton.   *)
(*                                                                         *)
(* The four functions differ only in the condition, the buffer operation   *)
(* and the order in which they wake the others, which Buffer gives by kind.*)
(* std::mutex is unlocked by a thread that does not own it; the default    *)
(* mutex of the platform does not check the owner and behaves as a binary  *)
(* semaphore, which is what the program relies on.                         *)
(***************************************************************************)
EXTENDS Buffer

CONSTANTS Threads,  \* the threads main() creates in the chosen scenario
          KindOf    \* which of a1, a2, b1, b2 each one runs

ASSUME ThreadsAssumption == /\ IsFiniteSet(Threads)
                            /\ KindOf \in [Threads -> Kinds]

VARIABLES
    mutex,    \* "free" or "locked"
    cond,     \* per kind: prodEven, prodOdd, consEven, consOdd
    waiting,  \* per kind: numOf{Prod,Cons}{Even,Odd}Waiting
    buffer,   \* parities of the numbers in the buffer
    pc        \* where each thread is

vars == <<mutex, cond, waiting, buffer, pc>>

Locks == {"free", "locked"}

\* lock: before mutex.lock() (the SLEEP between two rounds included);
\* test: has mutex, tests its condition;  release: counted, before
\* mutex.unlock();  park: before its own semaphore's lock();  resume: woken;
\* update: before the buffer operation;  signal: before the hand-over.
Places == {"lock", "test", "release", "park", "resume", "update", "signal"}

Init ==
    /\ mutex = "free"
    /\ cond = [k \in Kinds |-> "locked"]
    /\ waiting = [k \in Kinds |-> 0]
    /\ buffer = <<>>
    /\ pc = [t \in Threads |-> "lock"]

Goto(t, place) == pc' = [pc EXCEPT ![t] = place]

\* mutex.lock()
Lock(t) ==
    /\ pc[t] = "lock"
    /\ mutex = "free"
    /\ mutex' = "locked"
    /\ Goto(t, "test")
    /\ UNCHANGED <<cond, waiting, buffer>>

\* Mutant of Pass: the thread does not test its condition.
PassUntested(t) ==
    /\ pc[t] = "test"
    /\ Goto(t, "update")
    /\ UNCHANGED <<mutex, cond, waiting, buffer>>

\* if (!can...()), the condition holds
Pass(t) ==
    /\ pc[t] = "test"
    /\ Can(KindOf[t], buffer)
    /\ Goto(t, "update")
    /\ UNCHANGED <<mutex, cond, waiting, buffer>>

\* if (!can...()) numOf...Waiting++
Count(t) ==
    /\ pc[t] = "test"
    /\ ~Can(KindOf[t], buffer)
    /\ waiting' = [waiting EXCEPT ![KindOf[t]] = @ + 1]
    /\ Goto(t, "release")
    /\ UNCHANGED <<mutex, cond, buffer>>

\* mutex.unlock() of a thread about to wait
Release(t) ==
    /\ pc[t] = "release"
    /\ mutex' = "free"
    /\ Goto(t, "park")
    /\ UNCHANGED <<cond, waiting, buffer>>

\* prodEven.lock(), prodOdd.lock(), consEven.lock(), consOdd.lock()
Park(t) ==
    /\ pc[t] = "park"
    /\ cond[KindOf[t]] = "free"
    /\ cond' = [cond EXCEPT ![KindOf[t]] = "locked"]
    /\ Goto(t, "resume")
    /\ UNCHANGED <<mutex, waiting, buffer>>

\* numOf...Waiting--
Resume(t) ==
    /\ pc[t] = "resume"
    /\ waiting' = [waiting EXCEPT ![KindOf[t]] = @ - 1]
    /\ Goto(t, "update")
    /\ UNCHANGED <<mutex, cond, buffer>>

\* buffer.put(i) or buffer.get()
Update(t) ==
    /\ pc[t] = "update"
    /\ buffer' = After(KindOf[t], buffer)
    /\ Goto(t, "signal")
    /\ UNCHANGED <<mutex, cond, waiting>>

\* Mutant of HandOver: mutex is unlocked on every way out.
HandOverAndUnlock(t) ==
    /\ pc[t] = "signal"
    /\ \E c \in Kinds : /\ Wakes(KindOf[t], c, waiting, buffer)
                        /\ cond' = [cond EXCEPT ![c] = "free"]
    /\ mutex' = "free"
    /\ Goto(t, "lock")
    /\ UNCHANGED <<waiting, buffer>>

\* Mutant of HandOver: the waking thread uncounts the one it wakes, too.
HandOverUncounting(t) ==
    /\ pc[t] = "signal"
    /\ \E c \in Kinds : /\ Wakes(KindOf[t], c, waiting, buffer)
                        /\ cond' = [cond EXCEPT ![c] = "free"]
                        /\ waiting' = [waiting EXCEPT ![c] = @ - 1]
    /\ Goto(t, "lock")
    /\ UNCHANGED <<mutex, buffer>>

\* The if-chain that ends each round: hand the mutex over, ...
HandOver(t) ==
    /\ pc[t] = "signal"
    /\ \E c \in Kinds : /\ Wakes(KindOf[t], c, waiting, buffer)
                        /\ cond' = [cond EXCEPT ![c] = "free"]
    /\ Goto(t, "lock")
    /\ UNCHANGED <<mutex, waiting, buffer>>

\* ... or, with nobody to wake, unlock it.
Unlock(t) ==
    /\ pc[t] = "signal"
    /\ WakesNone(KindOf[t], waiting, buffer)
    /\ mutex' = "free"
    /\ Goto(t, "lock")
    /\ UNCHANGED <<cond, waiting, buffer>>

\* What a thread does once it runs; each step follows the one before.
Proceed(t) == Pass(t) \/ Count(t) \/ Release(t) \/ Park(t) \/ Resume(t)
                \/ Update(t) \/ HandOver(t) \/ Unlock(t)

Next == \E t \in Threads : Lock(t) \/ Proceed(t)

Spec == Init /\ [][Next]_vars

\* A thread that can go on does.  Every thread sleeps one to two seconds
\* between rounds, so the mutex is free again and again for whoever waits
\* for it, and a mutex that is free infinitely often is eventually obtained.
Fairness == \A t \in Threads : WF_vars(Proceed(t)) /\ SF_vars(Lock(t))

FairSpec == Spec /\ Fairness

-----------------------------------------------------------------------------
Inside(t) == pc[t] \in {"test", "release", "resume", "update", "signal"}
Waits(t) == pc[t] \in {"release", "park", "resume"}
Parked(t) == pc[t] = "park"
Waiters(k) == {t \in Threads : KindOf[t] = k /\ Waits(t)}

\* Type invariant.
TypeOK ==
    /\ mutex \in Locks
    /\ cond \in [Kinds -> Locks]
    /\ waiting \in [Kinds -> Nat]
    /\ buffer \in Seq(Parities)
    /\ pc \in [Threads -> Places]

\* The right to the buffer exists exactly once: as the free mutex, as one
\* free condition semaphore (a hand-over under way), or with one thread
\* inside.  Two unlocks of one exit, or a forgotten one, would break it.
Baton ==
    /\ \A t, u \in Threads : Inside(t) /\ Inside(u) => t = u
    /\ \A t \in Threads : Inside(t) =>
          mutex = "locked" /\ \A k \in Kinds : cond[k] = "locked"
    /\ \A k, l \in Kinds : cond[k] = "free" /\ cond[l] = "free" => k = l
    /\ \A k \in Kinds : cond[k] = "free" => mutex = "locked"
    /\ \/ mutex = "free"
       \/ \E k \in Kinds : cond[k] = "free"
       \/ \E t \in Threads : Inside(t)

\* numOf...Waiting is the number of threads of that kind that wait, so it is
\* never negative and a hand-over never goes to a kind nobody waits for.
WaitingExact ==
    \A k \in Kinds : waiting[k] = Cardinality(Waiters(k))

\* A hand-over under way has somebody to receive it: otherwise the right to
\* the buffer would be lost and all threads would stop.
Receiver ==
    \A k \in Kinds : cond[k] = "free" => \E t \in Threads : KindOf[t] = k /\ Parked(t)

\* A thread that was woken does not test its condition again (the code has
\* an if, not a while): the condition established by whoever woke it still
\* holds when it uses the buffer.
GuardHolds ==
    /\ \A t \in Threads : pc[t] \in {"resume", "update"} => Can(KindOf[t], buffer)
    /\ \A k \in Kinds : cond[k] = "free" => Can(k, buffer)

\* The buffer never holds more than EvenMax even numbers, nor, by the
\* condition of a2, more than EvenMax odd ones.
BufferBounds == CountEven(buffer) <= EvenMax /\ CountOdd(buffer) <= EvenMax

\* While the mutex is free nobody waits for a condition that holds.  The
\* if-chain passes over the leaving thread's own kind, so this needs the
\* kinds to be distinct.
NoMissedWakeup ==
    mutex = "free" => \A t \in Threads : Parked(t) => ~Can(KindOf[t], buffer)

\* Every operation on the buffer is one the exercise allows at that moment.
Promise == INSTANCE ProdCons WITH Present <- {KindOf[t] : t \in Threads}
Implements == Promise!Spec

\* No thread is shut out: each one uses the buffer again and again.
EveryoneServed == \A t \in Threads : []<>(pc[t] = "signal")

=============================================================================
