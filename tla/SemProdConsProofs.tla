-------------------------- MODULE SemProdConsProofs --------------------------
(***************************************************************************)
(* The safety of src/t3/semaphores.cpp for every set of threads and every  *)
(* choice of the limits.  The invariant is the conjunction of the six the  *)
(* runs check: none is inductive alone.  The guard of a woken thread holds *)
(* because nobody else is inside (Baton); a hand-over has a receiver       *)
(* because the counters are exact (WaitingExact) and the one who hands     *)
(* over is the only one inside; the buffer stays in its bounds because the *)
(* guard holds.                                                            *)
(***************************************************************************)
EXTENDS SemProdCons, FiniteSetTheorems, TLAPS

Inv == TypeOK /\ Baton /\ WaitingExact /\ Receiver /\ GuardHolds /\ BufferBounds

-----------------------------------------------------------------------------
(* What the operations of Buffer do to the number of even and odd elements,   *)
(* and which kind the if-chain of a leaving thread wakes.                     *)

\* The elements of one parity are finitely many, so they can be counted.
LEMMA OccurrencesFinite ==
    ASSUME NEW b \in Seq(Parities), NEW p \in Parities
    PROVE  /\ IsFiniteSet(Occurrences(p, b))
           /\ Cardinality(Occurrences(p, b)) \in Nat
<1>1. IsFiniteSet(1..Len(b))
  BY FS_Interval
<1>2. Occurrences(p, b) \subseteq 1..Len(b)
  BY DEF Occurrences
<1>3. IsFiniteSet(Occurrences(p, b))
  BY <1>1, <1>2, FS_Subset
<1> QED
  BY <1>3, FS_CardinalityType

\* countEven and countOdd answer integers.
LEMMA CountType ==
    ASSUME NEW b \in Seq(Parities)
    PROVE  CountEven(b) \in Nat /\ CountOdd(b) \in Int
BY OccurrencesFinite DEF CountEven, CountOdd, Parities

\* The buffer stays a sequence of parities whoever uses it.
LEMMA AfterType ==
    ASSUME NEW b \in Seq(Parities), NEW k \in Kinds
    PROVE  After(k, b) \in Seq(Parities)
<1>1. ParityOf[k] \in Parities
  BY DEF ParityOf, Parities
<1>2. Put(ParityOf[k], b) \in Seq(Parities)
  BY <1>1 DEF Put
<1>3. Get(b) \in Seq(Parities)
  BY DEF Get
<1> QED
  BY <1>2, <1>3 DEF After

\* put of an even number adds one to the even ones, put of an odd number
\* leaves their number alone.
LEMMA CountPut ==
    ASSUME NEW b \in Seq(Parities), NEW p \in Parities
    PROVE  /\ Len(Put(p, b)) = Len(b) + 1
           /\ CountEven(Put(p, b)) = IF p = "even" THEN CountEven(b) + 1 ELSE CountEven(b)
<1> DEFINE n == Len(b) + 1
           old == Occurrences("even", b)
           new == Occurrences("even", Append(b, p))
<1>1. /\ Len(b) \in Nat
      /\ Len(Append(b, p)) = n
      /\ Append(b, p)[n] = p
      /\ \A i \in 1..Len(b) : Append(b, p)[i] = b[i]
  OBVIOUS
<1>2. IsFiniteSet(old) /\ Cardinality(old) \in Nat
  BY OccurrencesFinite DEF Parities
<1>3. n \notin old
  BY <1>1 DEF Occurrences
<1>4. CASE p = "even"
  <2>1. new = old \cup {n}
    BY <1>1, <1>4 DEF Occurrences
  <2>2. Cardinality(old \cup {n}) = Cardinality(old) + 1
    BY <1>2, <1>3, FS_AddElement
  <2> QED
    BY <1>1, <1>4, <2>1, <2>2 DEF CountEven, Put
<1>5. CASE p # "even"
  <2>1. new = old
    BY <1>1, <1>5 DEF Occurrences
  <2> QED
    BY <1>1, <1>5, <2>1 DEF CountEven, Put
<1> QED
  BY <1>4, <1>5

\* get takes one element, and one off the even ones if it was even.
LEMMA CountGet ==
    ASSUME NEW b \in Seq(Parities), b # <<>>
    PROVE  /\ Len(Get(b)) = Len(b) - 1
           /\ CountEven(Get(b)) = IF Head(b) = "even" THEN CountEven(b) - 1 ELSE CountEven(b)
<1> DEFINE old == Occurrences("even", b)
           rest == old \ {1}
           new == Occurrences("even", Tail(b))
           shift == [i \in new |-> i + 1]
<1>1. /\ Len(b) \in Nat \ {0}
      /\ Tail(b) \in Seq(Parities)
      /\ Len(Tail(b)) = Len(b) - 1
      /\ Head(b) = b[1]
      /\ \A i \in 1..Len(Tail(b)) : Tail(b)[i] = b[i + 1]
  OBVIOUS
<1>2. IsFiniteSet(old) /\ Cardinality(old) \in Nat /\ IsFiniteSet(new) /\ Cardinality(new) \in Nat
  BY <1>1, OccurrencesFinite DEF Parities
<1>3. shift \in Bijection(new, rest)
  <2>1. shift \in [new -> rest]
    BY <1>1 DEF Occurrences
  <2>2. \A i, j \in new : shift[i] = shift[j] => i = j
    BY <1>1 DEF Occurrences
  <2>3. \A j \in rest : \E i \in new : shift[i] = j
    <3> SUFFICES ASSUME NEW j \in rest PROVE \E i \in new : shift[i] = j
      OBVIOUS
    <3>1. j \in 2..Len(b) /\ b[j] = "even"
      BY <1>1 DEF Occurrences
    <3>2. j - 1 \in new /\ (j - 1) + 1 = j
      BY <1>1, <3>1 DEF Occurrences
    <3>3. shift[j - 1] = j
      BY <3>2
    <3> QED
      BY <3>2, <3>3
  <2> QED
    BY <2>1, <2>2, <2>3 DEF Bijection, Injection, Surjection, IsInjective
<1>4. Cardinality(new) = Cardinality(rest)
  BY <1>2, <1>3, FS_Bijection DEF ExistsBijection
<1>5. CASE Head(b) = "even"
  <2>1. 1 \in old
    BY <1>1, <1>5 DEF Occurrences
  <2>2. Cardinality(rest) = Cardinality(old) - 1
    BY <1>2, <2>1, FS_RemoveElement
  <2> QED
    BY <1>1, <1>4, <1>5, <2>2 DEF CountEven, Get
<1>6. CASE Head(b) # "even"
  <2>1. rest = old
    BY <1>1, <1>6 DEF Occurrences
  <2> QED
    BY <1>1, <1>4, <1>6, <2>1 DEF CountEven, Get
<1> QED
  BY <1>5, <1>6

\* The one who leaves wakes a thread of another kind, counted as waiting,
\* whose condition holds.
LEMMA WakesFacts ==
    ASSUME NEW k \in Kinds, NEW c, NEW counts, NEW b, Wakes(k, c, counts, b)
    PROVE  c \in Kinds \ {k} /\ Can(c, b) /\ counts[c] > 0
<1>1. PICK i \in 1..3 : WakeOrder[k][i] = c /\ Wakeable(c, counts, b)
  BY DEF Wakes
<1>2. i = 1 \/ i = 2 \/ i = 3
  BY <1>1
<1>3. c \in Kinds \ {k}
  BY <1>1, <1>2 DEF WakeOrder, Kinds, Producers, Consumers
<1> QED
  BY <1>1, <1>3 DEF Wakeable

\* If the chain wakes nobody, no other kind could have been woken.
LEMMA WakesNoneFacts ==
    ASSUME NEW k \in Kinds, NEW counts, NEW b, WakesNone(k, counts, b),
           NEW c \in Kinds \ {k}
    PROVE  ~(Can(c, b) /\ counts[c] > 0)
<1>1. \E i \in 1..3 : WakeOrder[k][i] = c
  <2>1. 1 \in 1..3 /\ 2 \in 1..3 /\ 3 \in 1..3
    OBVIOUS
  <2>2. WakeOrder[k][1] = c \/ WakeOrder[k][2] = c \/ WakeOrder[k][3] = c
    BY DEF WakeOrder, Kinds, Producers, Consumers
  <2> QED
    BY <2>1, <2>2
<1> QED
  BY <1>1 DEF WakesNone, Wakeable

-----------------------------------------------------------------------------
\* The threads of a kind that wait are finitely many.
LEMMA WaitersFinite ==
    ASSUME NEW k
    PROVE  IsFiniteSet(Waiters(k)) /\ Cardinality(Waiters(k)) \in Nat
<1>1. Waiters(k) \subseteq Threads
  BY DEF Waiters
<1> QED
  BY <1>1, ThreadsAssumption, FS_Subset, FS_CardinalityType

\* A step that moves a thread without changing whether it waits, and leaves
\* the counters alone, leaves them exact.
LEMMA WaitersKept ==
    ASSUME TypeOK, WaitingExact, NEW t \in Threads, NEW place, Goto(t, place),
           Waits(t) <=> place \in {"release", "park", "resume"},
           waiting' = waiting
    PROVE  WaitingExact'
<1>1. \A k : Waiters(k)' = Waiters(k)
  BY DEF TypeOK, Goto, Waiters, Waits
<1> QED
  BY <1>1 DEF WaitingExact

\* A thread that starts to wait and counts itself leaves the counters exact.
LEMMA WaitersAdded ==
    ASSUME TypeOK, WaitingExact, NEW t \in Threads, ~Waits(t), Goto(t, "release"),
           waiting' = [waiting EXCEPT ![KindOf[t]] = @ + 1]
    PROVE  WaitingExact'
<1> DEFINE k == KindOf[t]
<1>1. k \in Kinds
  BY ThreadsAssumption
<1>2. Waiters(k)' = Waiters(k) \cup {t} /\ t \notin Waiters(k)
  BY DEF TypeOK, Goto, Waiters, Waits
<1>3. \A l \in Kinds \ {k} : Waiters(l)' = Waiters(l)
  BY DEF TypeOK, Goto, Waiters, Waits
<1>4. Cardinality(Waiters(k) \cup {t}) = Cardinality(Waiters(k)) + 1
  BY <1>2, WaitersFinite, FS_AddElement
<1> QED
  BY <1>1, <1>2, <1>3, <1>4 DEF TypeOK, WaitingExact

\* A woken thread that uncounts itself leaves the counters exact, and none
\* of them negative.
LEMMA WaitersRemoved ==
    ASSUME TypeOK, WaitingExact, NEW t \in Threads, Waits(t), Goto(t, "update"),
           waiting' = [waiting EXCEPT ![KindOf[t]] = @ - 1]
    PROVE  WaitingExact' /\ waiting' \in [Kinds -> Nat]
<1> DEFINE k == KindOf[t]
<1>1. k \in Kinds
  BY ThreadsAssumption
<1>2. Waiters(k)' = Waiters(k) \ {t} /\ t \in Waiters(k)
  BY DEF TypeOK, Goto, Waiters, Waits
<1>3. \A l \in Kinds \ {k} : Waiters(l)' = Waiters(l)
  BY DEF TypeOK, Goto, Waiters, Waits
<1>4. /\ Cardinality(Waiters(k) \ {t}) = Cardinality(Waiters(k)) - 1
      /\ Cardinality(Waiters(k) \ {t}) \in Nat
  <2>1. IsFiniteSet(Waiters(k) \ {t})
    BY WaitersFinite, FS_Subset
  <2> QED
    BY <1>2, <2>1, WaitersFinite, FS_RemoveElement, FS_CardinalityType
<1>5. WaitingExact'
  BY <1>1, <1>2, <1>3, <1>4 DEF TypeOK, WaitingExact
<1>6. waiting' \in [Kinds -> Nat]
  BY <1>1, <1>4 DEF TypeOK, WaitingExact
<1> QED
  BY <1>5, <1>6

\* One use of the buffer under the condition of its kind keeps the numbers
\* of even and odd elements in their bounds.
LEMMA BoundsKept ==
    ASSUME NEW b \in Seq(Parities), NEW k \in Kinds, Can(k, b),
           CountEven(b) <= EvenMax, CountOdd(b) <= EvenMax
    PROVE  CountEven(After(k, b)) <= EvenMax /\ CountOdd(After(k, b)) <= EvenMax
<1>1. /\ CountEven(b) \in Nat
      /\ CountOdd(b) = Len(b) - CountEven(b)
      /\ CountOdd(After(k, b)) = Len(After(k, b)) - CountEven(After(k, b))
      /\ Len(b) \in Nat /\ EvenMax \in Nat
  BY CountType, LimitsAssumption DEF CountOdd
<1>2. CASE k = "A1"
  <2>1. After(k, b) = Put("even", b) /\ CountEven(b) < EvenMax
    BY <1>2 DEF After, ParityOf, Kinds, Producers, Consumers, Can, CanProdEven
  <2> QED
    BY <1>1, <2>1, CountPut DEF Parities
<1>3. CASE k = "A2"
  <2>1. After(k, b) = Put("odd", b) /\ CountEven(b) > CountOdd(b)
    BY <1>3 DEF After, ParityOf, Kinds, Producers, Consumers, Can, CanProdOdd
  <2> QED
    BY <1>1, <2>1, CountPut DEF Parities
<1>4. CASE k = "B1"
  <2>1. After(k, b) = Get(b) /\ b # <<>> /\ Head(b) = "even"
    BY <1>4 DEF After, Kinds, Producers, Consumers, Can, CanConsEven, HeadIs
  <2> QED
    BY <1>1, <2>1, CountGet, SMTT(60)
<1>5. CASE k = "B2"
  <2>1. After(k, b) = Get(b) /\ b # <<>> /\ Head(b) = "odd"
    BY <1>5 DEF After, Kinds, Producers, Consumers, Can, CanConsOdd, HeadIs
  <2> QED
    BY <1>1, <2>1, CountGet
<1> QED
  BY <1>2, <1>3, <1>4, <1>5 DEF Kinds, Producers, Consumers

-----------------------------------------------------------------------------
\* The program starts with the mutex free, the condition semaphores locked
\* and nobody waiting.
LEMMA InitInv == Init => Inv
<1> SUFFICES ASSUME Init PROVE Inv
  OBVIOUS
<1>1. TypeOK
  BY DEF Init, TypeOK, Locks, Places
<1>2. Baton
  BY DEF Init, Baton, Inside
<1>3. WaitingExact
  <2>1. \A k : Waiters(k) = {}
    BY DEF Init, Waiters, Waits
  <2> QED
    BY <2>1, FS_EmptySet DEF Init, WaitingExact
<1>4. Receiver /\ GuardHolds
  BY DEF Init, Receiver, GuardHolds
<1>5. BufferBounds
  <2>1. Occurrences("even", <<>>) = {}
    BY DEF Occurrences
  <2>2. CountEven(<<>>) = 0
    BY <2>1, FS_EmptySet DEF CountEven
  <2>3. CountOdd(<<>>) = 0
    BY <2>2 DEF CountOdd
  <2> QED
    BY <2>2, <2>3, LimitsAssumption DEF Init, BufferBounds
<1> QED
  BY <1>1, <1>2, <1>3, <1>4, <1>5 DEF Inv

\* Every step of every thread preserves the invariant.
LEMMA NextInv == Inv /\ [Next]_vars => Inv'
<1> SUFFICES ASSUME Inv, [Next]_vars PROVE Inv'
  OBVIOUS
<1> USE DEF Inv
<1>0. KindOf \in [Threads -> Kinds]
  BY ThreadsAssumption
<1>1. ASSUME NEW t \in Threads, Lock(t) PROVE Inv'
  <2>1. TypeOK'
    BY <1>1 DEF TypeOK, Lock, Goto, Locks, Places
  <2>2. Baton'
    BY <1>1 DEF TypeOK, Baton, Inside, Lock, Goto, Locks
  <2>3. WaitingExact'
    BY <1>1, WaitersKept DEF Lock, Waits
  <2>4. Receiver' /\ GuardHolds' /\ BufferBounds'
    BY <1>1 DEF TypeOK, Receiver, Parked, GuardHolds, BufferBounds, Lock, Goto
  <2> QED
    BY <2>1, <2>2, <2>3, <2>4
<1>2. ASSUME NEW t \in Threads, Pass(t) PROVE Inv'
  <2>1. TypeOK'
    BY <1>2 DEF TypeOK, Pass, Goto, Locks, Places
  <2>2. Baton'
    BY <1>2 DEF TypeOK, Baton, Inside, Pass, Goto, Locks
  <2>3. WaitingExact'
    BY <1>2, WaitersKept DEF Pass, Waits
  <2>4. Receiver' /\ GuardHolds' /\ BufferBounds'
    BY <1>2 DEF TypeOK, Receiver, Parked, GuardHolds, BufferBounds, Pass, Goto
  <2> QED
    BY <2>1, <2>2, <2>3, <2>4
<1>3. ASSUME NEW t \in Threads, Count(t) PROVE Inv'
  <2>1. TypeOK'
    BY <1>0, <1>3 DEF TypeOK, Count, Goto, Locks, Places
  <2>2. Baton'
    BY <1>3 DEF TypeOK, Baton, Inside, Count, Goto, Locks
  <2>3. WaitingExact'
    BY <1>3, WaitersAdded DEF Count, Waits
  <2>4. Receiver' /\ GuardHolds' /\ BufferBounds'
    BY <1>3 DEF TypeOK, Receiver, Parked, GuardHolds, BufferBounds, Count, Goto
  <2> QED
    BY <2>1, <2>2, <2>3, <2>4
<1>4. ASSUME NEW t \in Threads, Release(t) PROVE Inv'
  <2>1. TypeOK'
    BY <1>4 DEF TypeOK, Release, Goto, Locks, Places
  <2>2. Baton'
    BY <1>4 DEF TypeOK, Baton, Inside, Release, Goto, Locks
  <2>3. WaitingExact'
    BY <1>4, WaitersKept DEF Release, Waits
  <2>4. Receiver' /\ GuardHolds' /\ BufferBounds'
    BY <1>4 DEF TypeOK, Receiver, Parked, GuardHolds, BufferBounds, Release, Goto
  <2> QED
    BY <2>1, <2>2, <2>3, <2>4
<1>5. ASSUME NEW t \in Threads, Park(t) PROVE Inv'
  <2>1. TypeOK'
    BY <1>0, <1>5 DEF TypeOK, Park, Goto, Locks, Places
  <2>2. Baton'
    BY <1>0, <1>5 DEF TypeOK, Baton, Inside, Park, Goto, Locks
  <2>3. WaitingExact'
    BY <1>5, WaitersKept DEF Park, Waits
  <2>4. \A k \in Kinds : cond'[k] = "locked"
    BY <1>0, <1>5 DEF TypeOK, Baton, Park, Locks
  <2>5. Receiver' /\ GuardHolds' /\ BufferBounds'
    BY <1>0, <1>5, <2>4 DEF TypeOK, Receiver, GuardHolds, BufferBounds, Park, Goto
  <2> QED
    BY <2>1, <2>2, <2>3, <2>5
<1>6. ASSUME NEW t \in Threads, Resume(t) PROVE Inv'
  <2>1. WaitingExact' /\ waiting' \in [Kinds -> Nat]
    BY <1>6, WaitersRemoved DEF Resume, Waits
  <2>2. TypeOK'
    BY <1>6, <2>1 DEF TypeOK, Resume, Goto, Locks, Places
  <2>3. Baton'
    BY <1>6 DEF TypeOK, Baton, Inside, Resume, Goto, Locks
  <2>4. Receiver' /\ GuardHolds' /\ BufferBounds'
    BY <1>6 DEF TypeOK, Receiver, Parked, GuardHolds, BufferBounds, Resume, Goto
  <2> QED
    BY <2>1, <2>2, <2>3, <2>4
<1>7. ASSUME NEW t \in Threads, Update(t) PROVE Inv'
  <2>1. KindOf[t] \in Kinds /\ Can(KindOf[t], buffer)
    BY <1>0, <1>7 DEF GuardHolds, Update
  <2>2. TypeOK'
    BY <1>7, <2>1, AfterType DEF TypeOK, Update, Goto, Places
  <2>3. Baton'
    BY <1>7 DEF TypeOK, Baton, Inside, Update, Goto, Locks
  <2>4. WaitingExact'
    BY <1>7, WaitersKept DEF Update, Waits
  <2>5. Receiver'
    BY <1>7 DEF TypeOK, Receiver, Parked, Update, Goto
  <2>6. GuardHolds'
    \* the thread is alone inside and no hand-over is under way
    <3>1. \A u \in Threads : pc'[u] \notin {"resume", "update"}
      BY <1>7 DEF TypeOK, Baton, Inside, Update, Goto
    <3>2. \A k \in Kinds : cond'[k] = "locked"
      BY <1>7 DEF Baton, Inside, Update
    <3> QED
      BY <3>1, <3>2 DEF GuardHolds
  <2>7. BufferBounds'
    BY <1>7, <2>1, BoundsKept DEF TypeOK, BufferBounds, Update
  <2> QED
    BY <2>2, <2>3, <2>4, <2>5, <2>6, <2>7
<1>8. ASSUME NEW t \in Threads, HandOver(t) PROVE Inv'
  <2>1. PICK c \in Kinds : /\ Wakes(KindOf[t], c, waiting, buffer)
                           /\ cond' = [cond EXCEPT ![c] = "free"]
    BY <1>8 DEF HandOver
  <2>2. Can(c, buffer) /\ waiting[c] > 0
    BY <1>0, <2>1, WakesFacts
  <2>3. TypeOK'
    BY <1>8, <2>1 DEF TypeOK, HandOver, Goto, Locks, Places
  <2>4. \A k \in Kinds : cond'[k] = "free" => k = c
    BY <1>8, <2>1 DEF TypeOK, Baton, Inside, HandOver
  <2>5. \A u \in Threads : pc'[u] \notin {"test", "release", "resume", "update", "signal"}
    BY <1>8 DEF TypeOK, Baton, Inside, HandOver, Goto
  <2>6. Baton'
    BY <1>8, <2>1, <2>4, <2>5 DEF TypeOK, Baton, Inside, HandOver
  <2>7. WaitingExact'
    BY <1>8, WaitersKept DEF HandOver, Waits
  <2>8. Receiver'
    <3>1. waiting[c] = Cardinality(Waiters(c))
      BY DEF WaitingExact
    <3>2. Waiters(c) # {}
      BY <2>2, <3>1, FS_EmptySet
    <3>3. PICK u \in Threads : KindOf[u] = c /\ Waits(u)
      BY <3>2 DEF Waiters
    <3>4. u # t
      BY <1>8, <3>3 DEF HandOver, Waits
    <3>5. pc'[u] = "park"
      BY <1>8, <2>5, <3>3, <3>4 DEF TypeOK, Waits, HandOver, Goto
    <3> QED
      BY <2>4, <3>3, <3>5 DEF Receiver, Parked
  <2>9. GuardHolds' /\ BufferBounds'
    BY <1>8, <2>2, <2>4, <2>5 DEF GuardHolds, BufferBounds, HandOver
  <2> QED
    BY <2>3, <2>6, <2>7, <2>8, <2>9
<1>9. ASSUME NEW t \in Threads, Unlock(t) PROVE Inv'
  <2>1. TypeOK'
    BY <1>9 DEF TypeOK, Unlock, Goto, Locks, Places
  <2>2. Baton'
    BY <1>9 DEF TypeOK, Baton, Inside, Unlock, Goto, Locks
  <2>3. WaitingExact'
    BY <1>9, WaitersKept DEF Unlock, Waits
  <2>4. Receiver' /\ GuardHolds' /\ BufferBounds'
    BY <1>9 DEF TypeOK, Receiver, Parked, GuardHolds, BufferBounds, Unlock, Goto
  <2> QED
    BY <2>1, <2>2, <2>3, <2>4
<1>10. CASE UNCHANGED vars
  <2>1. \A k : Waiters(k)' = Waiters(k)
    BY <1>10 DEF vars, Waiters, Waits
  <2> QED
    BY <1>10, <2>1 DEF vars, TypeOK, Baton, Inside, WaitingExact, Receiver, Parked,
                       GuardHolds, BufferBounds
<1> QED
  BY <1>1, <1>2, <1>3, <1>4, <1>5, <1>6, <1>7, <1>8, <1>9, <1>10 DEF Next, Proceed

-----------------------------------------------------------------------------
\* Every reachable state of the program satisfies the invariant.
THEOREM Invariance == Spec => []Inv
BY InitInv, NextInv, PTL DEF Spec

\* The shared state keeps its types: in particular no counter of waiting
\* threads is ever decremented below zero (they are unsigned in the code).
THEOREM TypeCorrect == Spec => []TypeOK
BY Invariance, PTL DEF Inv

\* The right to the buffer exists exactly once, however many threads run.
THEOREM MutualExclusion == Spec => []Baton
BY Invariance, PTL DEF Inv

\* Every hand-over has a receiver.
THEOREM HandOverReceived == Spec => []Receiver
BY Invariance, PTL DEF Inv

\* The counters numOf...Waiting are exact, with any number of threads per kind.
THEOREM Counted == Spec => []WaitingExact
BY Invariance, PTL DEF Inv

\* A thread that was woken finds its condition still true.
THEOREM GuardKept == Spec => []GuardHolds
BY Invariance, PTL DEF Inv

\* The buffer stays in its bounds.
THEOREM Bounded == Spec => []BufferBounds
BY Invariance, PTL DEF Inv

-----------------------------------------------------------------------------
\* Promise sees the same Buffer: what it says of a condition and of an
\* operation is what this module says.
LEMMA SameBuffer ==
    \A k, b : Promise!Can(k, b) = Can(k, b) /\ Promise!After(k, b) = After(k, b)
<1>1. \A S : Promise!Cardinality(S) = Cardinality(S)
  BY Zenon DEF Promise!Cardinality, Cardinality, Promise!IsFiniteSet, IsFiniteSet
<1>2. \A b : Promise!CountEven(b) = CountEven(b)
  BY <1>1 DEF Promise!CountEven, CountEven, Promise!Occurrences, Occurrences
<1>3. \A k, b : Promise!Can(k, b) = Can(k, b)
  BY <1>2 DEF Promise!Can, Can, Promise!CanProdEven, Promise!CanProdOdd,
     Promise!CanConsEven, Promise!CanConsOdd, CanProdEven, CanProdOdd, CanConsEven,
     CanConsOdd, Promise!HeadIs, HeadIs, Promise!CountOdd, CountOdd
<1>4. \A k, b : Promise!After(k, b) = After(k, b)
  BY DEF Promise!After, After, Promise!Put, Put, Promise!Get, Get, Promise!ParityOf,
     ParityOf, Promise!Kinds, Kinds, Promise!Producers, Producers, Promise!Consumers,
     Consumers
<1> QED
  BY <1>3, <1>4

\* The program does what the exercise asks: each change of the buffer is one
\* whole operation of a kind whose condition holds.
THEOREM Refinement == Spec => Implements
<1> DEFINE Present == {KindOf[t] : t \in Threads}
<1>1. Init => Promise!Init
  BY DEF Init, Promise!Init
<1>2. Inv /\ [Next]_vars => [Promise!Next]_buffer
  <2> SUFFICES ASSUME Inv, Next PROVE Promise!Next \/ UNCHANGED buffer
    BY DEF vars
  <2>1. ASSUME NEW t \in Threads, Update(t) PROVE Promise!Next
    <3>1. KindOf[t] \in Present
      BY <2>1
    <3>2. Can(KindOf[t], buffer) /\ buffer' = After(KindOf[t], buffer)
      BY <2>1 DEF Inv, GuardHolds, Update
    <3>3. Promise!Use(KindOf[t])
      BY <3>2, SameBuffer DEF Promise!Use
    <3> QED
      BY <3>1, <3>3 DEF Promise!Next
  <2>2. ASSUME NEW t \in Threads, Lock(t) \/ Proceed(t), ~Update(t) PROVE UNCHANGED buffer
    BY <2>2 DEF Lock, Proceed, Pass, Count, Release, Park, Resume, HandOver, Unlock
  <2> QED
    BY <2>1, <2>2 DEF Next
<1> QED
  BY <1>1, <1>2, Invariance, PTL DEF Spec, Promise!Spec, Implements

-----------------------------------------------------------------------------
\* At most one thread of each kind, as in every scenario of main().
OnePerKind == \A t, u \in Threads : KindOf[t] = KindOf[u] => t = u

\* NoMissedWakeup, extended to the moments in which the mutex was free when
\* the thread inside took it and the buffer has not changed since.
Quiet ==
    /\ mutex = "free" \/ (\E t \in Threads : pc[t] \in {"test", "release"}) =>
          \A u \in Threads : Parked(u) => ~Can(KindOf[u], buffer)
    /\ \A t \in Threads : pc[t] = "release" => ~Can(KindOf[t], buffer)

\* Everything but the last unlock passes Quiet on, because the thread inside
\* is alone; the last unlock establishes it, because the chain has looked at
\* all the other kinds.
LEMMA QuietStep ==
    ASSUME OnePerKind, Inv, Quiet, [Next]_vars
    PROVE  Quiet'
<1> USE DEF Inv
<1>0. KindOf \in [Threads -> Kinds]
  BY ThreadsAssumption
<1>1. ASSUME NEW t \in Threads, Lock(t) PROVE Quiet'
  BY <1>1 DEF TypeOK, Quiet, Parked, Lock, Goto
<1>2. ASSUME NEW t \in Threads, Count(t) PROVE Quiet'
  BY <1>2 DEF TypeOK, Quiet, Parked, Count, Goto
<1>3. ASSUME NEW t \in Threads, Release(t) PROVE Quiet'
  BY <1>3 DEF TypeOK, Quiet, Parked, Release, Goto
<1>4. ASSUME NEW t \in Threads, Pass(t) \/ Resume(t) \/ Update(t) \/ Park(t) \/ HandOver(t)
      PROVE Quiet'
  \* the mutex stays locked and nobody is about to test or to release
  <2>1. mutex' = "locked"
    BY <1>0, <1>4 DEF TypeOK, Baton, Inside, Pass, Resume, Update, Park, HandOver, Locks
  <2>2. \A u \in Threads : pc'[u] \notin {"test", "release"}
    BY <1>0, <1>4, SMTT(60) DEF TypeOK, Baton, Inside, Pass, Resume, Update, Park, HandOver, Goto
  <2> QED
    BY <2>1, <2>2 DEF Quiet
<1>5. ASSUME NEW t \in Threads, Unlock(t) PROVE Quiet'
  <2>1. ASSUME NEW u \in Threads, Parked(u) PROVE ~Can(KindOf[u], buffer)
    <3>1. KindOf[u] \in Kinds \ {KindOf[t]} /\ KindOf[t] \in Kinds
      BY <1>0, <1>5, <2>1 DEF OnePerKind, Parked, Unlock
    <3>2. u \in Waiters(KindOf[u])
      BY <2>1 DEF Waiters, Waits, Parked
    <3>3. Cardinality(Waiters(KindOf[u])) # 0
      BY <3>2, WaitersFinite, FS_EmptySet
    <3>4. waiting[KindOf[u]] > 0
      BY <3>1, <3>3, WaitersFinite DEF WaitingExact
    <3> QED
      BY <1>5, <3>1, <3>4, WakesNoneFacts DEF Unlock
  <2>2. \A u \in Threads : Parked(u)' => Parked(u)
    BY <1>5 DEF TypeOK, Parked, Unlock, Goto
  <2>3. \A u \in Threads : pc'[u] # "release"
    BY <1>5 DEF TypeOK, Baton, Inside, Unlock, Goto
  <2> QED
    BY <1>5, <2>1, <2>2, <2>3 DEF Quiet, Unlock
<1>6. CASE UNCHANGED vars
  BY <1>6 DEF vars, Quiet, Parked
<1> QED
  BY <1>1, <1>2, <1>3, <1>4, <1>5, <1>6 DEF Next, Proceed

\* With at most one thread of each kind no wake-up is missed: when the mutex
\* is free, the condition of every waiting thread is false.
THEOREM WakeupsComplete == OnePerKind => (Spec => []NoMissedWakeup)
<1> SUFFICES ASSUME OnePerKind PROVE Spec => []NoMissedWakeup
  OBVIOUS
<1>1. Init => Quiet
  BY DEF Init, Quiet, Parked
<1>2. Inv /\ Quiet /\ [Next]_vars => Quiet'
  BY QuietStep
<1>3. Quiet => NoMissedWakeup
  BY DEF Quiet, NoMissedWakeup
<1> QED
  BY <1>1, <1>2, <1>3, Invariance, PTL DEF Spec
=============================================================================
