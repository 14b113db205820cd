------------------------------- MODULE Buffer -------------------------------
(***************************************************************************)
(* The FIFO buffer of the producer/consumer exercises and the conditions   *)
(* under which each kind of thread may use it: class Buffer and the four   *)
(* can* functions, identical in src/t3/semaphores.cpp and                  *)
(* src/t4/ConsProdMonitor.cpp.                                             *)
(*                                                                         *)
(* A number is abstracted to its parity.  The counters of a1 and a2 step   *)
(* by 2 modulo 50, which is even, so a1 only ever puts even numbers and a2 *)
(* odd ones; no condition looks at more than the parity, and -1 (what      *)
(* peekFirst and get answer on an empty buffer) is never put.              *)
(***************************************************************************)
EXTENDS Integers, Sequences, FiniteSets

CONSTANTS EvenMax,     \* canProdEven: fewer than EvenMax even numbers (10)
          MinForEven,  \* canConsEven: at least MinForEven numbers (3)
          MinForOdd    \* canConsOdd: at least MinForOdd numbers (7)

\* The minima are at least one: a consumer never takes from an empty buffer.
ASSUME LimitsAssumption == /\ EvenMax \in Nat \ {0}
                           /\ MinForEven \in Nat \ {0}
                           /\ MinForOdd \in Nat \ {0}

Parities == {"even", "odd"}

Producers == {"A1", "A2"}
Consumers == {"B1", "B2"}
Kinds == Producers \cup Consumers

\* The parity of the numbers a kind of thread produces or consumes.
ParityOf == [k \in Kinds |-> IF k \in {"A1", "B1"} THEN "even" ELSE "odd"]

-----------------------------------------------------------------------------
Occurrences(p, b) == {i \in 1..Len(b) : b[i] = p}

CountEven(b) == Cardinality(Occurrences("even", b))
CountOdd(b) == Len(b) - CountEven(b)

\* peekFirst() != -1 and of parity p: an empty buffer has no head.
HeadIs(p, b) == b # <<>> /\ Head(b) = p

CanProdEven(b) == CountEven(b) < EvenMax
CanProdOdd(b) == CountEven(b) > CountOdd(b)
CanConsEven(b) == Len(b) >= MinForEven /\ HeadIs("even", b)
CanConsOdd(b) == Len(b) >= MinForOdd /\ HeadIs("odd", b)

\* The condition a thread of kind k waits for.
Can(k, b) == \/ k = "A1" /\ CanProdEven(b)
             \/ k = "A2" /\ CanProdOdd(b)
             \/ k = "B1" /\ CanConsEven(b)
             \/ k = "B2" /\ CanConsOdd(b)

\* get() leaves an empty buffer as it is (and answers -1).
Put(p, b) == Append(b, p)
Get(b) == IF b = <<>> THEN b ELSE Tail(b)

\* The buffer after a thread of kind k has used it.  A consumer takes the
\* head whatever it is: its condition is what makes it the right one.
After(k, b) == IF k \in Producers THEN Put(ParityOf[k], b) ELSE Get(b)

-----------------------------------------------------------------------------
\* Mutant of WakeOrder: the last link of a1's, a2's and b1's chains is a
\* copy of the one before.
WakeOrderCopied == [k \in Kinds |->
    CASE k = "A1" -> <<"A2", "B1", "B1">>
      [] k = "A2" -> <<"A1", "B1", "B1">>
      [] k = "B1" -> <<"A1", "A2", "A2">>
      [] k = "B2" -> <<"A1", "A2", "B1">>]

\* On its way out a thread hands over to the first of the other kinds, in
\* this order, that waits and whose condition holds.  It never looks at its
\* own kind.
WakeOrder == [k \in Kinds |->
    CASE k = "A1" -> <<"A2", "B1", "B2">>
      [] k = "A2" -> <<"A1", "B1", "B2">>
      [] k = "B1" -> <<"A1", "A2", "B2">>
      [] k = "B2" -> <<"A1", "A2", "B1">>]

\* Mutant of Wakeable: the chain tests the condition only.
WakeableUncounted(c, waiting, b) == Can(c, b)

\* Kind c is the one a thread of kind k wakes, and there is none to wake;
\* waiting[c] counts the threads of kind c that wait.
Wakeable(c, waiting, b) == Can(c, b) /\ waiting[c] > 0
Wakes(k, c, waiting, b) ==
    \E i \in 1..3 : /\ WakeOrder[k][i] = c
                    /\ Wakeable(c, waiting, b)
                    /\ \A j \in 1..(i - 1) : ~Wakeable(WakeOrder[k][j], waiting, b)
WakesNone(k, waiting, b) == \A i \in 1..3 : ~Wakeable(WakeOrder[k][i], waiting, b)
=============================================================================
