------------------------- MODULE MemoryManagerProofs -------------------------
(***************************************************************************)
(* Theorems of MemoryManager for any number of processes, any memory and   *)
(* any size of the hole table.  A free or used click is never looked at    *)
(* alone: the invariant says that the holes, the processes and what is     *)
(* just changing hands share the memory and the swap area between them.    *)
(***************************************************************************)
EXTENDS MemoryManager, FiniteSetTheorems, SequenceTheorems, WellFoundedInduction, TLAPS

-----------------------------------------------------------------------------
(* Natural numbers and sequences.                                          *)

LEMMA Least ==
    ASSUME NEW S \in SUBSET Nat, S # {}
    PROVE  \E x \in S : \A y \in S : x <= y
<1> DEFINE R == {ss \in Nat \X Nat : ss[1] < ss[2]}
<1>1. IsWellFoundedOn(R, Nat)
  BY NatLessThanWellFounded, Zenon DEF OpToRel
<1>2. PICK x \in S : \A y \in S : <<y, x>> \notin R
  <2> HIDE DEF R
  <2> QED
    BY <1>1, WFMin
<1>3. \A y \in S : x <= y
  <2> SUFFICES ASSUME NEW y \in S PROVE x <= y
    OBVIOUS
  <2>1. y \in Nat /\ x \in Nat /\ <<y, x>> \in Nat \X Nat
    OBVIOUS
  <2> QED
    BY <1>2, <2>1
<1> QED
  BY <1>3

\* Induction, for a set instead of a predicate.
LEMMA Induct ==
    ASSUME NEW S, 0 \in S, \A n \in Nat : n \in S => n + 1 \in S
    PROVE  Nat \subseteq S
<1> SUFFICES ASSUME NEW k \in Nat, k \notin S PROVE FALSE
  OBVIOUS
<1> DEFINE B == {n \in Nat : n \notin S}
<1>1. PICK x \in B : \A y \in B : x <= y
  <2>1. B \in SUBSET Nat /\ B # {}
    OBVIOUS
  <2> HIDE DEF B
  <2> QED
    BY <2>1, Least
<1>2. x # 0 /\ x - 1 \in Nat
  OBVIOUS
<1>3. x - 1 \in S
  BY <1>1, <1>2
<1> QED
  BY <1>2, <1>3

LEMMA FirstIs ==
    ASSUME NEW S \in SUBSET Nat, S # {}
    PROVE  FirstOf(S) \in S /\ \A y \in S : FirstOf(S) <= y
BY Least DEF FirstOf

\* A set of positions that has each position before one it has.
LEMMA Prefix ==
    ASSUME NEW N \in Nat, NEW P \in SUBSET (1..N), \A i \in P : \A j \in 1..i : j \in P
    PROVE  Cardinality(P) \in 0..N /\ P = 1..Cardinality(P)
<1> DEFINE B == {i \in Nat : i # 0 /\ i \notin P}
<1>1. PICK x \in B : \A y \in B : x <= y
  <2>1. B \in SUBSET Nat /\ N + 1 \in B
    OBVIOUS
  <2> HIDE DEF B
  <2> QED
    BY <2>1, Least
<1>2. P = 1..(x - 1) /\ x - 1 \in 0..N
  <2>1. x \in Nat /\ x # 0 /\ x \notin P
    OBVIOUS
  <2>2. ASSUME NEW i \in 1..(x - 1) PROVE i \in P
    <3>1. i \in Nat /\ i # 0 /\ ~(x <= i)
      BY <2>1
    <3> QED
      BY <1>1, <3>1
  <2>3. ASSUME NEW i \in P PROVE i \in 1..(x - 1)
    <3>1. x \notin 1..i
      BY <2>1
    <3> QED
      BY <2>1, <3>1
  <2>4. P = 1..(x - 1)
    BY <2>2, <2>3
  <2>5. x - 1 <= N
    <3>1. CASE x - 1 = 0
      BY <3>1
    <3>2. CASE x - 1 # 0
      BY <2>1, <2>4, <3>2
    <3> QED
      BY <3>1, <3>2
  <2> QED
    BY <2>1, <2>4, <2>5
<1>3. Cardinality(1..(x - 1)) = x - 1
  BY <1>2, FS_Interval
<1> QED
  BY <1>2, <1>3

LEMMA Removed ==
    ASSUME NEW S, NEW q \in Seq(S), NEW i \in 1..Len(q)
    PROVE  /\ RemoveAt(q, i) \in Seq(S)
           /\ Len(RemoveAt(q, i)) = Len(q) - 1
           /\ \A j \in 1..Len(q) - 1 : RemoveAt(q, i)[j] = IF j < i THEN q[j] ELSE q[j + 1]
<1> DEFINE a == SubSeq(q, 1, i - 1)
           b == SubSeq(q, i + 1, Len(q))
<1>0. Len(q) \in Nat /\ i \in Int /\ \A j \in 1..Len(q) : q[j] \in S
  OBVIOUS
<1>1. /\ a \in Seq(S) /\ Len(a) = i - 1
      /\ \A j \in 1..i - 1 : a[j] = q[j]
  <2>1. \A j \in 1..(i - 1) : q[j] \in S
    BY <1>0
  <2> HIDE DEF a
  <2>2. /\ a \in Seq(S)
        /\ Len(a) = IF 1 <= i - 1 THEN (i - 1) - 1 + 1 ELSE 0
        /\ \A j \in 1..(i - 1) - 1 + 1 : a[j] = q[1 + j - 1]
    BY <1>0, <2>1, SubSeqProperties DEF a
  <2> QED
    BY <1>0, <2>2
<1>2. /\ b \in Seq(S) /\ Len(b) = Len(q) - i
      /\ \A j \in 1..Len(q) - i : b[j] = q[i + j]
  <2>1. \A j \in (i + 1)..Len(q) : q[j] \in S
    BY <1>0
  <2> HIDE DEF b
  <2>2. /\ b \in Seq(S)
        /\ Len(b) = IF i + 1 <= Len(q) THEN Len(q) - (i + 1) + 1 ELSE 0
        /\ \A j \in 1..Len(q) - (i + 1) + 1 : b[j] = q[(i + 1) + j - 1]
    BY <1>0, <2>1, SubSeqProperties DEF b
  <2> QED
    BY <1>0, <2>2
<1> HIDE DEF a, b
<1>3. /\ a \o b \in Seq(S) /\ Len(a \o b) = Len(a) + Len(b)
      /\ \A j \in 1..Len(a) + Len(b) : (a \o b)[j] = IF j <= Len(a) THEN a[j] ELSE b[j - Len(a)]
  BY <1>1, <1>2, ConcatProperties
<1>4. RemoveAt(q, i) = a \o b
  BY DEF RemoveAt, a, b
<1>5. \A j \in 1..Len(q) - 1 : RemoveAt(q, i)[j] = IF j < i THEN q[j] ELSE q[j + 1]
  <2> SUFFICES ASSUME NEW j \in 1..Len(q) - 1
               PROVE  (a \o b)[j] = IF j < i THEN q[j] ELSE q[j + 1]
    BY <1>4
  <2>1. CASE j < i
    BY <1>0, <1>1, <1>2, <1>3, <2>1
  <2>2. CASE ~(j < i)
    <3>1. j - (i - 1) \in 1..Len(q) - i /\ i + (j - (i - 1)) = j + 1
      BY <1>0, <2>2
    <3>2. (a \o b)[j] = b[j - (i - 1)]
      BY <1>0, <1>1, <1>2, <1>3, <2>2, SMTT(60)
    <3>3. b[j - (i - 1)] = q[i + (j - (i - 1))]
      BY <1>2, <3>1
    <3> QED
      BY <2>2, <3>1, <3>2, <3>3
  <2> QED
    BY <2>1, <2>2
<1> QED
  BY <1>0, <1>1, <1>2, <1>3, <1>4, <1>5

Inserting(r, S, q, i, x) ==
    /\ r \in Seq(S)
    /\ Len(r) = Len(q) + 1
    /\ \A j \in 1..Len(q) + 1 : r[j] = IF j < i THEN q[j] ELSE IF j = i THEN x ELSE q[j - 1]

LEMMA Inserted ==
    ASSUME NEW S, NEW q \in Seq(S), NEW i \in 1..Len(q) + 1, NEW x \in S
    PROVE  Inserting(InsertAt(q, i, x), S, q, i, x)
<1> DEFINE a == SubSeq(q, 1, i - 1)
           b == SubSeq(q, i, Len(q))
           c == a \o <<x>>
<1>0. Len(q) \in Nat /\ i \in Int /\ \A j \in 1..Len(q) : q[j] \in S
  OBVIOUS
<1>1. /\ a \in Seq(S) /\ Len(a) = i - 1
      /\ \A j \in 1..i - 1 : a[j] = q[j]
  <2>1. \A j \in 1..(i - 1) : q[j] \in S
    BY <1>0
  <2> HIDE DEF a
  <2>2. /\ a \in Seq(S)
        /\ Len(a) = IF 1 <= i - 1 THEN (i - 1) - 1 + 1 ELSE 0
        /\ \A j \in 1..(i - 1) - 1 + 1 : a[j] = q[1 + j - 1]
    BY <1>0, <2>1, SubSeqProperties DEF a
  <2> QED
    BY <1>0, <2>2
<1>2. /\ b \in Seq(S) /\ Len(b) = Len(q) - i + 1
      /\ \A j \in 1..Len(q) - i + 1 : b[j] = q[i + j - 1]
  <2>1. \A j \in i..Len(q) : q[j] \in S
    BY <1>0
  <2> HIDE DEF b
  <2>2. /\ b \in Seq(S)
        /\ Len(b) = IF i <= Len(q) THEN Len(q) - i + 1 ELSE 0
        /\ \A j \in 1..Len(q) - i + 1 : b[j] = q[i + j - 1]
    BY <1>0, <2>1, SubSeqProperties DEF b
  <2> QED
    BY <1>0, <2>2
<1> HIDE DEF a, b
<1>3. /\ c \in Seq(S) /\ Len(c) = i
      /\ \A j \in 1..i : c[j] = IF j < i THEN q[j] ELSE x
  <2>1. <<x>> \in Seq(S) /\ Len(<<x>>) = 1 /\ <<x>>[1] = x
    OBVIOUS
  <2>2. /\ c \in Seq(S) /\ Len(c) = Len(a) + Len(<<x>>)
        /\ \A j \in 1..Len(a) + Len(<<x>>) :
               c[j] = IF j <= Len(a) THEN a[j] ELSE <<x>>[j - Len(a)]
    BY <1>1, <2>1, ConcatProperties
  <2> HIDE DEF c
  <2>3. ASSUME NEW j \in 1..i PROVE c[j] = IF j < i THEN q[j] ELSE x
    <3>1. CASE j < i
      BY <1>0, <1>1, <2>1, <2>2, <3>1
    <3>2. CASE j = i
      <4>1. c[j] = <<x>>[i - (i - 1)] /\ i - (i - 1) = 1
        BY <1>0, <1>1, <2>1, <2>2, <3>2
      <4> QED
        BY <2>1, <3>2, <4>1
    <3> QED
      BY <1>0, <3>1, <3>2
  <2> QED
    BY <1>0, <1>1, <2>1, <2>2, <2>3
<1>4. InsertAt(q, i, x) = c \o b
  BY DEF InsertAt, a, b
<1> HIDE DEF c
<1>5. /\ c \o b \in Seq(S) /\ Len(c \o b) = Len(c) + Len(b)
      /\ \A j \in 1..Len(c) + Len(b) : (c \o b)[j] = IF j <= Len(c) THEN c[j] ELSE b[j - Len(c)]
  BY <1>2, <1>3, ConcatProperties
<1>6. ASSUME NEW j \in 1..Len(q) + 1
      PROVE  (c \o b)[j] = IF j < i THEN q[j] ELSE IF j = i THEN x ELSE q[j - 1]
  <2>1. CASE j <= i
    BY <1>0, <1>2, <1>3, <1>5, <2>1
  <2>2. CASE ~(j <= i)
    <3>1. j - i \in 1..Len(q) - i + 1 /\ i + (j - i) - 1 = j - 1
      BY <1>0, <2>2
    <3>2. (c \o b)[j] = b[j - i]
      BY <1>0, <1>2, <1>3, <1>5, <2>2
    <3>3. b[j - i] = q[i + (j - i) - 1]
      BY <1>2, <3>1
    <3> QED
      BY <1>0, <2>2, <3>1, <3>2, <3>3
  <2> QED
    BY <2>1, <2>2
<1>7. /\ c \o b \in Seq(S) /\ Len(c \o b) = Len(q) + 1
      /\ \A j \in 1..Len(q) + 1 :
             (c \o b)[j] = IF j < i THEN q[j] ELSE IF j = i THEN x ELSE q[j - 1]
  BY <1>0, <1>2, <1>3, <1>5, <1>6
<1> QED
  BY <1>4, <1>7, Zenon DEF Inserting

-----------------------------------------------------------------------------
(* Lists of holes: alloc.c keeps them sorted and apart, and a list stands   *)
(* for the clicks in it.                                                    *)

HoleType == [base : Nat, len : Nat \ {0}]
HoleList(h) == h \in Seq(HoleType)

\* Sorted by address, where holes may touch; where they may not.
Sorted(h) == \A i, j \in 1..Len(h) : i < j => HoleEnd(h[i]) <= h[j].base
Apart(h) == \A i, j \in 1..Len(h) : i < j => HoleEnd(h[i]) < h[j].base

FreeIn(h) == {c \in Nat : \E i \in 1..Len(h) : c \in Clicks(h[i])}

LEMMA HoleFacts ==
    ASSUME NEW h, HoleList(h)
    PROVE  /\ Len(h) \in Nat
           /\ \A i \in 1..Len(h) : /\ h[i] \in HoleType /\ h[i].base \in Nat
                                   /\ h[i].len \in Nat /\ h[i].len > 0
                                   /\ h[i] = Hole(h[i].base, h[i].len)
                                   /\ HoleEnd(h[i]) = h[i].base + h[i].len
                                   /\ HoleEnd(h[i]) \in Nat
<1>1. /\ Len(h) \in Nat
      /\ \A i \in 1..Len(h) : h[i] \in HoleType
  BY DEF HoleList
<1> QED
  BY <1>1 DEF HoleType, HoleEnd, Hole

LEMMA NewHole ==
    ASSUME NEW b \in Nat, NEW n \in Nat \ {0}
    PROVE  /\ Hole(b, n) \in HoleType /\ Hole(b, n).base = b /\ Hole(b, n).len = n
           /\ HoleEnd(Hole(b, n)) = b + n
           /\ Clicks(Hole(b, n)) = b..(b + n - 1)
BY DEF Hole, HoleType, HoleEnd, Clicks

\* A click is in the list when it lies between the ends of a hole.
LEMMA InFree ==
    ASSUME NEW h, HoleList(h), NEW c \in Nat, NEW i \in 1..Len(h),
           h[i].base <= c, c < h[i].base + h[i].len
    PROVE  c \in FreeIn(h)
<1>1. h[i].base \in Nat /\ h[i].len \in Nat
  BY HoleFacts
<1>2. c \in Clicks(h[i])
  BY <1>1 DEF Clicks, HoleEnd
<1> QED
  BY <1>2 DEF FreeIn

LEMMA OfFree ==
    ASSUME NEW h, HoleList(h), NEW c \in FreeIn(h)
    PROVE  c \in Nat /\ \E i \in 1..Len(h) : h[i].base <= c /\ c < h[i].base + h[i].len
<1>1. PICK i \in 1..Len(h) : c \in Clicks(h[i])
  BY DEF FreeIn
<1>2. h[i].base \in Nat /\ h[i].len \in Nat /\ c \in Nat
  BY HoleFacts DEF FreeIn
<1>3. h[i].base <= c /\ c < h[i].base + h[i].len
  BY <1>1, <1>2 DEF Clicks, HoleEnd
<1> QED
  BY <1>2, <1>3

\* Holes that touch are neighbours.
LEMMA SortedApart ==
    ASSUME NEW h, HoleList(h), Sorted(h), \A i \in 1..Len(h) : ~Adjacent(h, i)
    PROVE  Apart(h)
<1>0. /\ Len(h) \in Nat
      /\ \A i \in 1..Len(h) : /\ h[i].base \in Nat /\ h[i].len \in Nat /\ h[i].len > 0
                              /\ HoleEnd(h[i]) = h[i].base + h[i].len
  BY HoleFacts
<1> SUFFICES ASSUME NEW i \in 1..Len(h), NEW j \in 1..Len(h), i < j
             PROVE  HoleEnd(h[i]) < h[j].base
  BY <1>0 DEF Apart
<1>1. i + 1 \in 1..Len(h) /\ i < Len(h)
  BY <1>0
<1>2. HoleEnd(h[i]) <= h[i + 1].base
  BY <1>0, <1>1 DEF Sorted
<1>3. h[i + 1].base <= h[j].base
  <2>1. CASE i + 1 = j
    BY <1>0, <1>1, <2>1
  <2>2. CASE i + 1 < j
    BY <1>0, <1>1, <2>2, SMTT(60) DEF Sorted
  <2> QED
    BY <1>0, <2>1, <2>2
<1>4. HoleEnd(h[i]) # h[i + 1].base
  BY <1>1 DEF Adjacent
<1>5. h[j].base \in Nat /\ h[i + 1].base \in Nat /\ HoleEnd(h[i]) \in Nat
  BY <1>1, HoleFacts
<1> QED
  BY <1>2, <1>3, <1>4, <1>5

LEMMA ApartSorted ==
    ASSUME NEW h, HoleList(h), Apart(h)
    PROVE  Sorted(h) /\ \A i \in 1..Len(h) : ~Adjacent(h, i)
<1>0. /\ Len(h) \in Nat
      /\ \A i \in 1..Len(h) : h[i].base \in Nat /\ HoleEnd(h[i]) \in Nat
  BY HoleFacts
<1>1. Sorted(h)
  BY <1>0 DEF Sorted, Apart
<1>2. ASSUME NEW i \in 1..Len(h), i < Len(h) PROVE HoleEnd(h[i]) # h[i + 1].base
  <2>1. i + 1 \in 1..Len(h) /\ i < i + 1
    BY <1>0, <1>2
  <2>2. HoleEnd(h[i]) < h[i + 1].base
    BY <1>0, <2>1 DEF Apart
  <2> QED
    BY <1>0, <2>1, <2>2
<1> QED
  BY <1>1, <1>2 DEF Adjacent

\* A hole absorbs its neighbour: the other holes keep their order, the clicks
\* are the same.
LEMMA Absorbed ==
    ASSUME NEW h, HoleList(h), Sorted(h), NEW i \in 1..Len(h), Adjacent(h, i)
    PROVE  /\ HoleList(Absorb(h, i)) /\ Sorted(Absorb(h, i))
           /\ Len(Absorb(h, i)) = Len(h) - 1
           /\ FreeIn(Absorb(h, i)) = FreeIn(h)
           /\ \A j \in Nat \ {0} : Adjacent(Absorb(h, i), j) =>
                  IF j < i THEN Adjacent(h, j) ELSE Adjacent(h, j + 1)
<1> DEFINE d == RemoveAt(h, i + 1)
           big == Hole(h[i].base, h[i].len + h[i + 1].len)
           r == [d EXCEPT ![i] = big]
<1>0. /\ Len(h) \in Nat
      /\ \A j \in 1..Len(h) : /\ h[j].base \in Nat /\ h[j].len \in Nat /\ h[j].len > 0
                              /\ HoleEnd(h[j]) = h[j].base + h[j].len
  BY HoleFacts
<1>1. /\ Len(h) \in Nat /\ i \in 1..Len(h) - 1 /\ i + 1 \in 1..Len(h)
      /\ h[i].base + h[i].len = h[i + 1].base
      /\ h[i].len \in Nat /\ h[i + 1].len \in Nat /\ h[i].len > 0 /\ h[i].base \in Nat
  BY <1>0, SMTT(60) DEF Adjacent
<1>2. /\ HoleList(d) /\ Len(d) = Len(h) - 1
      /\ \A j \in 1..Len(h) - 1 : d[j] = IF j < i + 1 THEN h[j] ELSE h[j + 1]
  BY <1>1, Removed DEF HoleList
<1>3. /\ big \in HoleType /\ big.base = h[i].base /\ big.len = h[i].len + h[i + 1].len
      /\ HoleEnd(big) = h[i].base + (h[i].len + h[i + 1].len)
  <2>1. h[i].base \in Nat /\ h[i].len + h[i + 1].len \in Nat \ {0}
    BY <1>1, SMTT(60)
  <2> HIDE DEF d
  <2> QED
    BY <2>1, NewHole
<1> HIDE DEF d, big
<1>4. /\ HoleList(r) /\ Len(r) = Len(h) - 1
      /\ \A j \in 1..Len(h) - 1 :
             r[j] = IF j < i THEN h[j] ELSE IF j = i THEN big ELSE h[j + 1]
  <2>1. /\ HoleList(r) /\ Len(r) = Len(d)
        /\ \A j \in 1..Len(d) : r[j] = IF j = i THEN big ELSE d[j]
    BY <1>1, <1>2, <1>3, ExceptSeq DEF HoleList
  <2> HIDE DEF r
  <2> QED
    BY <1>1, <1>2, <2>1, SMTT(60)
<1>5. Absorb(h, i) = r
  <2>1. d[i] = h[i]
    BY <1>1, <1>2
  <2>2. r = [d EXCEPT ![i] = Hole(d[i].base, d[i].len + h[i + 1].len)]
    BY <2>1 DEF big
  <2> QED
    BY <2>2 DEF Absorb, d
<1> HIDE DEF r
<1>6. ASSUME NEW j \in 1..Len(h) - 1
      PROVE  /\ r[j].base = IF j <= i THEN h[j].base ELSE h[j + 1].base
             /\ HoleEnd(r[j]) = IF j < i THEN HoleEnd(h[j]) ELSE HoleEnd(h[j + 1])
             /\ r[j].len > 0
  <2>1. CASE j < i
    BY <1>1, <1>4, <2>1, <1>0, SMTT(60)
  <2>2. CASE j = i
    <3>1. r[j] = big /\ HoleEnd(h[j + 1]) = h[i + 1].base + h[i + 1].len
      BY <1>0, <1>1, <1>4, <2>2
    <3>2. HoleEnd(r[j]) = HoleEnd(h[j + 1])
      BY <1>1, <1>3, <3>1
    <3> QED
      BY <1>1, <1>3, <2>2, <3>1, <3>2
  <2>3. CASE j > i
    <3>1. r[j] = h[j + 1] /\ j + 1 \in 1..Len(h)
      BY <1>1, <1>4, <2>3, SMTT(60)
    <3> QED
      BY <1>0, <1>1, <2>3, <3>1
  <2> QED
    BY <1>1, <2>1, <2>2, <2>3
<1>7. Sorted(r)
  <2> SUFFICES ASSUME NEW j \in 1..Len(h) - 1, NEW k \in 1..Len(h) - 1, j < k
               PROVE  HoleEnd(r[j]) <= r[k].base
    BY <1>4 DEF Sorted
  <2>1. \A x, y \in 1..Len(h) : x < y => HoleEnd(h[x]) <= h[y].base
    BY <1>0 DEF Sorted
  <2>2. CASE k <= i
    BY <1>1, <1>6, <2>1, <2>2, SMTT(60)
  <2>3. CASE k > i /\ j < i
    <3>1. HoleEnd(r[j]) = HoleEnd(h[j]) /\ r[k].base = h[k + 1].base
      BY <1>1, <1>6, <2>3, SMTT(60)
    <3>2. j \in 1..Len(h) /\ k + 1 \in 1..Len(h) /\ j < k + 1
      BY <1>1, <2>3, SMTT(60)
    <3> QED
      BY <2>1, <3>1, <3>2
  <2>4. CASE k > i /\ ~(j < i)
    <3>1. HoleEnd(r[j]) = HoleEnd(h[j + 1]) /\ r[k].base = h[k + 1].base
      BY <1>1, <1>6, <2>4
    <3>2. j + 1 \in 1..Len(h) /\ k + 1 \in 1..Len(h) /\ j + 1 < k + 1
      BY <1>1, <2>4
    <3> QED
      BY <2>1, <3>1, <3>2
  <2> QED
    BY <1>1, <2>2, <2>3, <2>4
<1>8. FreeIn(r) = FreeIn(h)
  <2>1. ASSUME NEW c \in FreeIn(r) PROVE c \in FreeIn(h)
    <3>1. PICK j \in 1..Len(h) - 1 : r[j].base <= c /\ c < r[j].base + r[j].len
      BY <1>4, OfFree
    <3>2. c \in Nat /\ j \in 1..Len(h) /\ j + 1 \in 1..Len(h)
      BY <1>1, <1>4, OfFree
    <3>3. CASE j < i
      <4>1. r[j] = h[j]
        BY <1>4, <3>3
      <4> QED
        BY <3>1, <3>2, <4>1, InFree
    <3>4. CASE j = i
      <4>1. h[i].base <= c /\ c < h[i].base + (h[i].len + h[i + 1].len)
        BY <1>3, <1>4, <3>1, <3>4
      <4>2. \/ h[i].base <= c /\ c < h[i].base + h[i].len
            \/ h[i + 1].base <= c /\ c < h[i + 1].base + h[i + 1].len
        BY <1>1, <3>2, <4>1, SMTT(60)
      <4> QED
        BY <1>1, <3>2, <4>2, InFree
    <3>5. CASE j > i
      <4>1. r[j] = h[j + 1]
        BY <1>1, <1>4, <3>5
      <4> QED
        BY <3>1, <3>2, <4>1, InFree
    <3> QED
      BY <1>1, <3>3, <3>4, <3>5
  <2>2. ASSUME NEW c \in FreeIn(h) PROVE c \in FreeIn(r)
    <3>1. PICK j \in 1..Len(h) : h[j].base <= c /\ c < h[j].base + h[j].len
      BY OfFree
    <3>2. c \in Nat
      BY OfFree
    <3>3. CASE j < i
      <4>1. j \in 1..Len(r) /\ r[j] = h[j]
        BY <1>1, <1>4, <3>3
      <4> QED
        BY <1>4, <3>1, <3>2, <4>1, InFree
    <3>4. CASE j = i \/ j = i + 1
      <4>1. i \in 1..Len(r) /\ r[i] = big
        BY <1>1, <1>4
      <4>2. h[i].base <= c /\ c < h[i].base + (h[i].len + h[i + 1].len)
        BY <1>1, <3>1, <3>2, <3>4, SMTT(60)
      <4>3. r[i].base <= c /\ c < r[i].base + r[i].len
        BY <1>3, <4>1, <4>2
      <4> QED
        BY <1>4, <3>2, <4>1, <4>3, InFree
    <3>5. CASE j > i + 1
      <4>1. j - 1 \in 1..Len(r) /\ r[j - 1] = h[j]
        BY <1>1, <1>4, <3>5, SMTT(60)
      <4> QED
        BY <1>4, <3>1, <3>2, <4>1, InFree
    <3> QED
      BY <1>1, <3>3, <3>4, <3>5
  <2> QED
    BY <2>1, <2>2
<1>9. ASSUME NEW j \in Nat \ {0}, Adjacent(r, j)
      PROVE  IF j < i THEN Adjacent(h, j) ELSE Adjacent(h, j + 1)
  <2>1. j < Len(h) - 1 /\ HoleEnd(r[j]) = r[j + 1].base
    BY <1>4, <1>9 DEF Adjacent
  <2>2. j \in 1..Len(h) - 1 /\ j + 1 \in 1..Len(h) - 1
    BY <1>1, <2>1
  <2>3. CASE j < i
    <3>1. HoleEnd(h[j]) = h[j + 1].base /\ j < Len(h)
      BY <1>1, <1>6, <2>1, <2>2, <2>3
    <3> QED
      BY <2>3, <3>1 DEF Adjacent
  <2>4. CASE ~(j < i)
    <3>1. HoleEnd(h[j + 1]) = h[(j + 1) + 1].base /\ j + 1 < Len(h)
      BY <1>1, <1>6, <2>1, <2>2, <2>4
    <3> QED
      BY <2>4, <3>1 DEF Adjacent
  <2> QED
    BY <2>3, <2>4
<1> QED
  BY <1>4, <1>5, <1>7, <1>8, <1>9

\* merge() on a list where only the hole it is given and the next may touch
\* their neighbours.
LEMMA Merged ==
    ASSUME NEW h, HoleList(h), Sorted(h), NEW i \in 1..Len(h),
           \A j \in Nat \ {0} : Adjacent(h, j) => j = i \/ j = i + 1
    PROVE  /\ HoleList(Merge(h, i)) /\ Apart(Merge(h, i))
           /\ FreeIn(Merge(h, i)) = FreeIn(h)
<1>0. Len(h) \in Nat
  BY HoleFacts
<1>1. ASSUME NEW g, HoleList(g), Sorted(g), NEW k \in Nat \ {0},
             \A j \in Nat \ {0} : Adjacent(g, j) => j = k
      PROVE  LET r == IF Adjacent(g, k) THEN Absorb(g, k) ELSE g
             IN  HoleList(r) /\ Apart(r) /\ FreeIn(r) = FreeIn(g)
  <2>0. Len(g) \in Nat
    BY <1>1, HoleFacts
  <2>1. CASE Adjacent(g, k)
    <3> DEFINE r == Absorb(g, k)
    <3>1. k \in 1..Len(g)
      BY <2>0, <2>1 DEF Adjacent
    <3>2. /\ HoleList(r) /\ Sorted(r) /\ FreeIn(r) = FreeIn(g)
          /\ \A j \in Nat \ {0} : Adjacent(r, j) =>
                 IF j < k THEN Adjacent(g, j) ELSE Adjacent(g, j + 1)
      BY <1>1, <2>1, <3>1, Absorbed
    <3> HIDE DEF r
    <3>3. \A j \in Nat \ {0} : ~Adjacent(r, j)
      <4> SUFFICES ASSUME NEW j \in Nat \ {0}, Adjacent(r, j) PROVE FALSE
        OBVIOUS
      <4>1. CASE j < k
        BY <1>1, <3>2, <4>1
      <4>2. CASE ~(j < k)
        <5>1. Adjacent(g, j + 1) /\ j + 1 \in Nat \ {0}
          BY <3>2, <4>2
        <5>2. j + 1 = k
          BY <1>1, <5>1
        <5> QED
          BY <4>2, <5>2
      <4> QED
        BY <4>1, <4>2
    <3>4. \A j \in 1..Len(r) : ~Adjacent(r, j)
      BY <3>3
    <3>5. Apart(r)
      BY <3>2, <3>4, SortedApart
    <3> QED
      BY <2>1, <3>2, <3>5 DEF r
  <2>2. CASE ~Adjacent(g, k)
    <3>1. \A j \in 1..Len(g) : ~Adjacent(g, j)
      BY <1>1, <2>2
    <3>2. Apart(g)
      BY <1>1, <3>1, SortedApart
    <3> QED
      BY <1>1, <2>2, <3>2
  <2> QED
    BY <2>1, <2>2
<1>2. CASE Adjacent(h, i)
  <2> DEFINE once == Absorb(h, i)
  <2>1. /\ HoleList(once) /\ Sorted(once) /\ FreeIn(once) = FreeIn(h)
        /\ \A j \in Nat \ {0} : Adjacent(once, j) =>
               IF j < i THEN Adjacent(h, j) ELSE Adjacent(h, j + 1)
    BY <1>2, Absorbed
  <2> HIDE DEF once
  <2>2. \A j \in Nat \ {0} : Adjacent(once, j) => j = i
    <3> SUFFICES ASSUME NEW j \in Nat \ {0}, Adjacent(once, j) PROVE j = i
      OBVIOUS
    <3>1. CASE j < i
      <4>1. Adjacent(h, j)
        BY <2>1, <3>1
      <4> QED
        BY <3>1, <4>1
    <3>2. CASE ~(j < i)
      <4>1. Adjacent(h, j + 1) /\ j + 1 \in Nat \ {0}
        BY <2>1, <3>2
      <4>2. j + 1 = i \/ j + 1 = i + 1
        BY <4>1
      <4> QED
        BY <3>2, <4>2
    <3> QED
      BY <3>1, <3>2
  <2>3. i \in Nat \ {0}
    OBVIOUS
  <2>4. Merge(h, i) = IF Adjacent(once, i) THEN Absorb(once, i) ELSE once
    BY <1>2 DEF Merge, once
  <2> QED
    BY <1>1, <2>1, <2>2, <2>3, <2>4
<1>3. CASE ~Adjacent(h, i)
  <2>1. i + 1 \in Nat \ {0} /\ \A j \in Nat \ {0} : Adjacent(h, j) => j = i + 1
    BY <1>3
  <2>2. Merge(h, i) = IF Adjacent(h, i + 1) THEN Absorb(h, i + 1) ELSE h
    BY <1>3 DEF Merge
  <2> QED
    BY <1>1, <2>1, <2>2
<1> QED
  BY <1>2, <1>3

LEMMA HoleInserted ==
    ASSUME NEW h, HoleList(h), NEW i \in 1..Len(h) + 1, NEW x \in HoleType
    PROVE  /\ HoleList(InsertAt(h, i, x)) /\ Len(InsertAt(h, i, x)) = Len(h) + 1
           /\ \A j \in 1..Len(h) + 1 :
                  InsertAt(h, i, x)[j] = IF j < i THEN h[j] ELSE IF j = i THEN x ELSE h[j - 1]
<1>1. h \in Seq(HoleType)
  BY DEF HoleList
<1>2. Inserting(InsertAt(h, i, x), HoleType, h, i, x)
  BY <1>1, Inserted, Zenon
<1> QED
  BY <1>2, Zenon DEF Inserting, HoleList

\* free_mem() adds the clicks to the list, which stays sorted and apart.
LEMMA Freed ==
    ASSUME NEW h, HoleList(h), Apart(h), NEW b \in Nat, NEW n \in Nat \ {0},
           \A c \in b..(b + n - 1) : c \notin FreeIn(h)
    PROVE  /\ HoleList(Insert(h, b, n)) /\ Apart(Insert(h, b, n))
           /\ FreeIn(Insert(h, b, n)) = FreeIn(h) \cup b..(b + n - 1)
<1> DEFINE before == {i \in DOMAIN h : \A j \in 1..i : h[j].base < b}
           k == Cardinality(before)
           new == Hole(b, n)
           r == InsertAt(h, k + 1, new)
<1>0. /\ Len(h) \in Nat
      /\ \A j \in 1..Len(h) : /\ h[j].base \in Nat /\ h[j].len \in Nat /\ h[j].len > 0
                              /\ HoleEnd(h[j]) = h[j].base + h[j].len
                              /\ HoleEnd(h[j]) \in Nat
  BY HoleFacts
<1>1. k \in 0..Len(h) /\ before = 1..k
  <2>1. before \in SUBSET (1..Len(h)) /\ \A i \in before : \A j \in 1..i : j \in before
    <3>1. DOMAIN h = 1..Len(h)
      BY DEF HoleList
    <3> QED
      BY <1>0, <3>1
  <2> HIDE DEF before
  <2> QED
    BY <1>0, <2>1, Prefix
<1>a. before = {i \in 1..Len(h) : \A j \in 1..i : h[j].base < b}
  <2>1. DOMAIN h = 1..Len(h)
    BY DEF HoleList
  <2> QED
    BY <2>1
<1> HIDE DEF before, k
<1>2. \A j \in 1..k : h[j].base < b
  <2> SUFFICES ASSUME NEW j \in 1..k PROVE h[j].base < b
    OBVIOUS
  <2>1. j \in before /\ j \in 1..j
    BY <1>1
  <2> QED
    BY <1>a, <2>1
<1>3. k < Len(h) => h[k + 1].base >= b
  <2> SUFFICES ASSUME k < Len(h) PROVE h[k + 1].base >= b
    OBVIOUS
  <2>1. k + 1 \in 1..Len(h) /\ h[k + 1].base \in Nat /\ k + 1 \notin 1..k
    BY <1>0, <1>1
  <2>2. k + 1 \notin before
    BY <1>1, <2>1
  <2>3. PICK j \in 1..k + 1 : ~(h[j].base < b)
    BY <1>a, <2>1, <2>2
  <2>4. j = k + 1
    BY <1>1, <1>2, <2>3
  <2> QED
    BY <2>1, <2>3, <2>4
<1>4. \A j \in 1..Len(h) : j <= k => HoleEnd(h[j]) <= b
  <2> SUFFICES ASSUME NEW j \in 1..Len(h), j <= k, b < HoleEnd(h[j]) PROVE FALSE
    BY <1>0
  <2>1. h[j].base <= b /\ b < h[j].base + h[j].len
    BY <1>0, <1>1, <1>2
  <2>2. b \in FreeIn(h)
    BY <2>1, InFree
  <2> QED
    BY <2>2
<1>5. \A j \in 1..Len(h) : j > k => b + n <= h[j].base
  <2> SUFFICES ASSUME NEW j \in 1..Len(h), j > k PROVE b + n <= h[j].base
    OBVIOUS
  <2>1. b <= h[j].base
    <3>1. CASE j = k + 1
      <4>1. k < Len(h)
        BY <1>0, <1>1, <3>1
      <4> QED
        BY <1>0, <1>3, <3>1, <4>1
    <3>2. CASE j > k + 1
      <4>1. k + 1 \in 1..Len(h) /\ k < Len(h)
        BY <1>0, <1>1, <3>2
      <4>2. HoleEnd(h[k + 1]) < h[j].base
        BY <3>2, <4>1 DEF Apart
      <4>3. b <= h[k + 1].base
        BY <1>3, <4>1
      <4>4. /\ h[k + 1].base \in Nat /\ h[k + 1].len \in Nat /\ h[j].base \in Nat
            /\ HoleEnd(h[k + 1]) = h[k + 1].base + h[k + 1].len
        BY <1>0, <4>1
      <4> QED
        BY ONLY <4>2, <4>3, <4>4, b \in Nat, SMTT(60)
    <3> QED
      BY <1>1, <3>1, <3>2
  <2>2. h[j].base \in FreeIn(h)
    <3>1. h[j].base \in Nat /\ h[j].base <= h[j].base /\ h[j].base < h[j].base + h[j].len
      BY <1>0
    <3> QED
      BY ONLY <3>1, HoleList(h), j \in 1..Len(h), InFree
  <2>3. h[j].base \notin b..(b + n - 1)
    BY <2>2
  <2> QED
    BY <1>0, <2>1, <2>3
<1>6. /\ new \in HoleType /\ new.base = b /\ new.len = n /\ HoleEnd(new) = b + n
  BY NewHole
<1> HIDE DEF new
<1>7. /\ HoleList(r) /\ Len(r) = Len(h) + 1
      /\ \A j \in 1..Len(h) + 1 :
             r[j] = IF j < k + 1 THEN h[j] ELSE IF j = k + 1 THEN new ELSE h[j - 1]
  <2>1. k + 1 \in 1..Len(h) + 1 /\ new \in HoleType
    BY <1>0, <1>1, <1>6
  <2> QED
    BY <2>1, HoleInserted
<1> HIDE DEF r
<1>8. ASSUME NEW j \in 1..Len(h) + 1
      PROVE  \/ j < k + 1 /\ j \in 1..Len(h) /\ r[j] = h[j]
             \/ j = k + 1 /\ r[j] = new
             \/ j > k + 1 /\ j - 1 \in 1..Len(h) /\ r[j] = h[j - 1]
  BY <1>0, <1>1, <1>7
<1>9. Sorted(r)
  <2> SUFFICES ASSUME NEW i \in 1..Len(h) + 1, NEW j \in 1..Len(h) + 1, i < j
               PROVE  HoleEnd(r[i]) <= r[j].base
    BY <1>7 DEF Sorted
  <2>1. \A x, y \in 1..Len(h) : x < y => HoleEnd(h[x]) <= h[y].base
    BY ApartSorted DEF Sorted
  <2>2. CASE j < k + 1
    <3>1. r[i] = h[i] /\ r[j] = h[j] /\ i \in 1..Len(h) /\ j \in 1..Len(h)
      BY <1>1, <1>8, <2>2
    <3>2. HoleEnd(h[i]) <= h[j].base
      BY <2>1, <3>1
    <3> QED
      BY <3>1, <3>2
  <2>3. CASE j = k + 1
    <3>1. r[i] = h[i] /\ r[j] = new /\ i \in 1..Len(h) /\ i <= k
      BY <1>1, <1>8, <2>3
    <3>2. HoleEnd(h[i]) <= b
      BY <1>4, <3>1
    <3> QED
      BY <1>6, <3>1, <3>2
  <2>4. CASE j > k + 1 /\ i > k + 1
    BY <1>1, <1>8, <2>1, <2>4, SMTT(60)
  <2>5. CASE j > k + 1 /\ i = k + 1
    <3>1. r[i] = new /\ r[j] = h[j - 1] /\ j - 1 \in 1..Len(h) /\ j - 1 > k
      BY <1>1, <1>8, <2>5
    <3> QED
      BY <1>5, <1>6, <3>1
  <2>6. CASE j > k + 1 /\ i < k + 1
    <3>1. r[i] = h[i] /\ r[j] = h[j - 1] /\ i \in 1..Len(h) /\ j - 1 \in 1..Len(h)
          /\ i < j - 1
      BY <1>1, <1>8, <2>6
    <3> QED
      BY <2>1, <3>1
  <2> QED
    BY <1>1, <2>2, <2>3, <2>4, <2>5, <2>6
<1>10. ASSUME NEW j \in Nat \ {0}, Adjacent(r, j) PROVE j = k \/ j = k + 1
  <2>1. j < Len(h) + 1 /\ HoleEnd(r[j]) = r[j + 1].base
        /\ j \in 1..Len(h) + 1 /\ j + 1 \in 1..Len(h) + 1
    BY <1>0, <1>7, <1>10 DEF Adjacent
  <2>2. CASE j < k
    <3>1. r[j] = h[j] /\ r[j + 1] = h[j + 1] /\ j \in 1..Len(h) /\ j + 1 \in 1..Len(h)
      BY <1>1, <1>8, <2>1, <2>2
    <3>2. HoleEnd(h[j]) < h[j + 1].base
      BY <3>1 DEF Apart
    <3> QED
      BY <1>0, <2>1, <3>1, <3>2
  <2>3. CASE j > k + 1
    <3>1. r[j] = h[j - 1] /\ r[j + 1] = h[j] /\ j - 1 \in 1..Len(h) /\ j \in 1..Len(h)
      <4>1. (j + 1) - 1 = j
        BY <2>1
      <4> QED
        BY <1>1, <1>8, <2>1, <2>3, <4>1
    <3>2. HoleEnd(h[j - 1]) < h[j].base
      BY <3>1 DEF Apart
    <3> QED
      BY <1>0, <2>1, <3>1, <3>2
  <2> QED
    BY <1>1, <2>1, <2>2, <2>3
<1>11. FreeIn(r) = FreeIn(h) \cup b..(b + n - 1)
  <2>1. ASSUME NEW c \in FreeIn(r) PROVE c \in FreeIn(h) \cup b..(b + n - 1)
    <3>1. PICK j \in 1..Len(h) + 1 : r[j].base <= c /\ c < r[j].base + r[j].len
      BY <1>7, OfFree
    <3>2. c \in Nat
      BY <1>7, OfFree
    <3>3. CASE j = k + 1
      BY <1>6, <1>8, <3>1, <3>2, <3>3
    <3>4. CASE j < k + 1
      <4>1. j \in 1..Len(h) /\ r[j] = h[j]
        BY <1>1, <1>8, <3>4
      <4> QED
        BY <3>1, <3>2, <4>1, InFree
    <3>5. CASE j > k + 1
      <4>1. j - 1 \in 1..Len(h) /\ r[j] = h[j - 1]
        BY <1>1, <1>8, <3>5
      <4> QED
        BY <3>1, <3>2, <4>1, InFree
    <3> QED
      BY <1>1, <3>3, <3>4, <3>5
  <2>2. ASSUME NEW c \in FreeIn(h) PROVE c \in FreeIn(r)
    <3>1. PICK j \in 1..Len(h) : h[j].base <= c /\ c < h[j].base + h[j].len
      BY OfFree
    <3>2. c \in Nat
      BY OfFree
    <3>3. CASE j < k + 1
      <4>1. j \in 1..Len(r) /\ r[j] = h[j]
        BY <1>0, <1>1, <1>7, <3>3
      <4> QED
        BY <1>7, <3>1, <3>2, <4>1, InFree
    <3>4. CASE ~(j < k + 1)
      <4>1. j + 1 \in 1..Len(r) /\ r[j + 1] = h[j]
        <5>1. (j + 1) - 1 = j /\ j + 1 \in 1..Len(h) + 1 /\ ~(j + 1 < k + 1) /\ j + 1 # k + 1
          BY <1>0, <1>1, <3>4
        <5>2. r[j + 1] = h[(j + 1) - 1]
          BY <1>7, <5>1
        <5> QED
          BY <1>7, <5>1, <5>2
      <4> QED
        BY <1>7, <3>1, <3>2, <4>1, InFree
    <3> QED
      BY <3>3, <3>4
  <2>3. ASSUME NEW c \in b..(b + n - 1) PROVE c \in FreeIn(r)
    <3>1. k + 1 \in 1..Len(r) /\ r[k + 1] = new
      BY <1>0, <1>1, <1>7
    <3>2. r[k + 1].base <= c /\ c < r[k + 1].base + r[k + 1].len /\ c \in Nat
      BY <1>6, <3>1
    <3> QED
      BY <1>7, <3>1, <3>2, InFree
  <2> QED
    BY <2>1, <2>2, <2>3
<1>12. Insert(h, b, n) = Merge(r, IF k = 0 THEN 1 ELSE k)
  BY DEF Insert, r, k, before, new
<1>13. (IF k = 0 THEN 1 ELSE k) \in 1..Len(r)
  BY <1>0, <1>1, <1>7
<1>14. \A j \in Nat \ {0} : Adjacent(r, j) =>
           j = (IF k = 0 THEN 1 ELSE k) \/ j = (IF k = 0 THEN 1 ELSE k) + 1
  BY <1>1, <1>10
<1> DEFINE at == IF k = 0 THEN 1 ELSE k
<1>15. at \in 1..Len(r) /\ \A j \in Nat \ {0} : Adjacent(r, j) => j = at \/ j = at + 1
  BY <1>13, <1>14
<1> HIDE DEF at
<1>16. /\ HoleList(Merge(r, at)) /\ Apart(Merge(r, at))
       /\ FreeIn(Merge(r, at)) = FreeIn(r)
  BY <1>7, <1>9, <1>15, Merged
<1> QED
  BY <1>11, <1>12, <1>16 DEF at

\* A click is in one hole only.
LEMMA OneHole ==
    ASSUME NEW h, HoleList(h), Apart(h), NEW c \in Nat, NEW i \in 1..Len(h), NEW j \in 1..Len(h),
           h[i].base <= c, c < h[i].base + h[i].len, h[j].base <= c, c < h[j].base + h[j].len
    PROVE  i = j
<1>0. /\ Len(h) \in Nat
      /\ \A x \in 1..Len(h) : /\ h[x].base \in Nat /\ h[x].len \in Nat
                              /\ HoleEnd(h[x]) = h[x].base + h[x].len
  BY HoleFacts
<1>1. \A x, y \in 1..Len(h) : x < y => h[x].base + h[x].len < h[y].base
  <2> SUFFICES ASSUME NEW x \in 1..Len(h), NEW y \in 1..Len(h), x < y
               PROVE  h[x].base + h[x].len < h[y].base
    OBVIOUS
  <2>1. HoleEnd(h[x]) < h[y].base
    BY Zenon DEF Apart
  <2>2. HoleEnd(h[x]) = h[x].base + h[x].len
    BY <1>0
  <2> QED
    BY <2>1, <2>2
<1>2. /\ h[i].base \in Nat /\ h[i].len \in Nat /\ h[j].base \in Nat /\ h[j].len \in Nat
      /\ i \in Nat /\ j \in Nat
  BY <1>0
<1>3. (i < j => h[i].base + h[i].len < h[j].base) /\ (j < i => h[j].base + h[j].len < h[i].base)
  BY <1>1
<1> QED
  BY <1>2, <1>3, SMTT(60)

LEMMA HoleRemoved ==
    ASSUME NEW h, HoleList(h), NEW i \in 1..Len(h)
    PROVE  /\ HoleList(RemoveAt(h, i)) /\ Len(RemoveAt(h, i)) = Len(h) - 1
           /\ \A j \in 1..Len(h) - 1 : RemoveAt(h, i)[j] = IF j < i THEN h[j] ELSE h[j + 1]
BY Removed DEF HoleList

LEMMA HoleChanged ==
    ASSUME NEW h, HoleList(h), NEW i \in 1..Len(h), NEW x \in HoleType
    PROVE  /\ HoleList([h EXCEPT ![i] = x]) /\ Len([h EXCEPT ![i] = x]) = Len(h)
           /\ \A j \in 1..Len(h) : [h EXCEPT ![i] = x][j] = IF j = i THEN x ELSE h[j]
BY ExceptSeq DEF HoleList

\* Apart, as the proofs use it.
LEMMA ApartOrder ==
    ASSUME NEW h, HoleList(h), Apart(h), NEW x \in 1..Len(h), NEW y \in 1..Len(h), x < y
    PROVE  h[x].base + h[x].len < h[y].base
<1>1. HoleEnd(h[x]) < h[y].base
  BY Zenon DEF Apart
<1>2. HoleEnd(h[x]) = h[x].base + h[x].len
  BY HoleFacts
<1> QED
  BY <1>1, <1>2

LEMMA OrderApart ==
    ASSUME NEW h, HoleList(h),
           \A x, y \in 1..Len(h) : x < y => h[x].base + h[x].len < h[y].base
    PROVE  Apart(h)
<1> SUFFICES ASSUME NEW x \in 1..Len(h), NEW y \in 1..Len(h), x < y
             PROVE  HoleEnd(h[x]) < h[y].base
  BY DEF Apart
<1>1. HoleEnd(h[x]) = h[x].base + h[x].len
  BY HoleFacts
<1>2. h[x].base + h[x].len < h[y].base
  OBVIOUS
<1> QED
  BY <1>1, <1>2

\* Taking the start of a hole takes those clicks off the list and no other.
LEMMA Bitten ==
    ASSUME NEW h, HoleList(h), Apart(h), NEW i \in 1..Len(h),
           NEW n \in Nat \ {0}, n <= h[i].len
    PROVE  /\ HoleList(Bite(h, i, n)) /\ Apart(Bite(h, i, n))
           /\ Len(Bite(h, i, n)) <= Len(h)
           /\ h[i].base..(h[i].base + n - 1) \subseteq FreeIn(h)
           /\ FreeIn(Bite(h, i, n)) = FreeIn(h) \ (h[i].base..(h[i].base + n - 1))
<1> DEFINE gone == h[i].base..(h[i].base + n - 1)
<1>0. /\ Len(h) \in Nat
      /\ \A j \in 1..Len(h) : h[j].base \in Nat /\ h[j].len \in Nat /\ h[j].len > 0
  BY HoleFacts
<1>1. h[i].base \in Nat /\ h[i].len \in Nat /\ i \in Nat
  BY <1>0
<1>2. ASSUME NEW c \in gone PROVE c \in FreeIn(h)
  <2>1. c \in Nat /\ h[i].base <= c /\ c < h[i].base + h[i].len
    BY <1>1, SMTT(60)
  <2> QED
    BY <2>1, InFree
<1>3. CASE h[i].len = n
  <2> DEFINE r == RemoveAt(h, i)
  <2>1. /\ HoleList(r) /\ Len(r) = Len(h) - 1
        /\ \A j \in 1..Len(h) - 1 : r[j] = IF j < i THEN h[j] ELSE h[j + 1]
    BY HoleRemoved
  <2>2. Bite(h, i, n) = r
    BY <1>3 DEF Bite
  <2> HIDE DEF r
  <2>3. ASSUME NEW j \in 1..Len(h) - 1
        PROVE  \/ j < i /\ j \in 1..Len(h) /\ r[j] = h[j]
               \/ ~(j < i) /\ j + 1 \in 1..Len(h) /\ r[j] = h[j + 1]
    BY <1>0, <2>1
  <2>4. Apart(r)
    <3>1. ASSUME NEW x \in 1..Len(r), NEW y \in 1..Len(r), x < y
          PROVE  r[x].base + r[x].len < r[y].base
      <4>0. x \in 1..Len(h) - 1 /\ y \in 1..Len(h) - 1
        BY <2>1
      <4>1. PICK u \in 1..Len(h), v \in 1..Len(h) : r[x] = h[u] /\ r[y] = h[v] /\ u < v
        <5>1. CASE x < i /\ y < i
          <6>1. x \in 1..Len(h) /\ r[x] = h[x] /\ y \in 1..Len(h) /\ r[y] = h[y]
            BY <2>3, <4>0, <5>1
          <6> QED
            BY <3>1, <6>1
        <5>2. CASE x < i /\ ~(y < i)
          <6>1. x \in 1..Len(h) /\ r[x] = h[x] /\ y + 1 \in 1..Len(h) /\ r[y] = h[y + 1]
                /\ x < y + 1
            BY <2>3, <3>1, <4>0, <5>2
          <6> QED
            BY <6>1
        <5>3. CASE ~(x < i) /\ ~(y < i)
          <6>1. x + 1 \in 1..Len(h) /\ r[x] = h[x + 1] /\ y + 1 \in 1..Len(h) /\ r[y] = h[y + 1]
                /\ x + 1 < y + 1
            BY <2>3, <3>1, <4>0, <5>3
          <6> QED
            BY <6>1
        <5> QED
          BY <1>0, <3>1, <4>0, <5>1, <5>2, <5>3
      <4>2. h[u].base + h[u].len < h[v].base
        BY <4>1, ApartOrder
      <4> QED
        BY <4>1, <4>2
    <3> QED
      BY <2>1, <3>1, OrderApart
  <2>5. ASSUME NEW c \in FreeIn(r) PROVE c \in FreeIn(h) \ gone
    <3>1. PICK j \in 1..Len(h) - 1 : r[j].base <= c /\ c < r[j].base + r[j].len
      BY <2>1, OfFree
    <3>2. c \in Nat
      BY <2>1, OfFree
    <3>3. PICK u \in 1..Len(h) : r[j] = h[u] /\ u # i
      <4>1. CASE j < i
        <5>1. j \in 1..Len(h) /\ r[j] = h[j] /\ j # i
          BY <2>3, <4>1
        <5> QED
          BY <5>1
      <4>2. CASE ~(j < i)
        <5>1. j + 1 \in 1..Len(h) /\ r[j] = h[j + 1] /\ j + 1 # i
          BY <2>3, <4>2
        <5> QED
          BY <5>1
      <4> QED
        BY <4>1, <4>2
    <3>4. h[u].base <= c /\ c < h[u].base + h[u].len
      BY <3>1, <3>3
    <3>5. c \in FreeIn(h)
      BY <3>2, <3>4, InFree
    <3>6. ~(h[i].base <= c /\ c < h[i].base + h[i].len)
      BY <3>2, <3>3, <3>4, OneHole
    <3> QED
      BY <1>1, <1>3, <3>2, <3>5, <3>6
  <2>6. ASSUME NEW c \in FreeIn(h), c \notin gone PROVE c \in FreeIn(r)
    <3>1. PICK u \in 1..Len(h) : h[u].base <= c /\ c < h[u].base + h[u].len
      BY OfFree
    <3>2. c \in Nat
      BY OfFree
    <3>3. u # i
      BY <1>1, <1>3, <2>6, <3>1, <3>2
    <3>4. PICK j \in 1..Len(r) : r[j] = h[u]
      <4>1. CASE u < i
        <5>1. u \in 1..Len(h) - 1 /\ u \in 1..Len(r)
          BY <1>0, <2>1, <4>1
        <5>2. r[u] = h[u]
          BY <2>3, <4>1, <5>1
        <5> QED
          BY <5>1, <5>2
      <4>2. CASE u > i
        <5>1. u - 1 \in 1..Len(h) - 1 /\ u - 1 \in 1..Len(r) /\ ~(u - 1 < i) /\ (u - 1) + 1 = u
          BY <1>0, <2>1, <4>2
        <5>2. r[u - 1] = h[(u - 1) + 1]
          BY <2>3, <5>1
        <5> QED
          BY <5>1, <5>2
      <4> QED
        BY <3>3, <4>1, <4>2
    <3>5. r[j].base <= c /\ c < r[j].base + r[j].len
      BY <3>1, <3>4
    <3> QED
      BY <2>1, <3>2, <3>5, InFree
  <2>7. Len(r) <= Len(h)
    BY <1>0, <2>1
  <2>8. FreeIn(r) = FreeIn(h) \ gone
    BY <2>5, <2>6
  <2> QED
    BY <1>2, <2>1, <2>2, <2>4, <2>7, <2>8
<1>4. CASE h[i].len # n
  <2> DEFINE small == Hole(h[i].base + n, h[i].len - n)
             r == [h EXCEPT ![i] = small]
  <2>1. /\ small \in HoleType /\ small.base = h[i].base + n /\ small.len = h[i].len - n
    <3>1. h[i].base + n \in Nat /\ h[i].len - n \in Nat \ {0}
      BY <1>1, <1>4, SMTT(60)
    <3> QED
      BY <3>1, NewHole
  <2>2. Bite(h, i, n) = r
    BY <1>4 DEF Bite
  <2> HIDE DEF small
  <2>3. /\ HoleList(r) /\ Len(r) = Len(h)
        /\ \A j \in 1..Len(h) : r[j] = IF j = i THEN small ELSE h[j]
    BY <2>1, HoleChanged
  <2> HIDE DEF r
  <2>a. r[i] = small /\ \A j \in 1..Len(h) : j # i => r[j] = h[j]
    BY <2>3
  <2>4. ASSUME NEW j \in 1..Len(h)
        PROVE  /\ r[j].base + r[j].len = h[j].base + h[j].len
               /\ h[j].base <= r[j].base /\ r[j].base \in Nat
    <3>1. CASE j = i
      <4>1. r[j].base = h[i].base + n /\ r[j].len = h[i].len - n
        BY <2>1, <2>a, <3>1
      <4> QED
        BY <1>1, <3>1, <4>1, SMTT(60)
    <3>2. CASE j # i
      <4>1. r[j] = h[j] /\ h[j].base \in Nat
        BY <1>0, <2>a, <3>2
      <4> QED
        BY <4>1
    <3> QED
      BY <3>1, <3>2
  <2>5. Apart(r)
    <3>1. ASSUME NEW x \in 1..Len(r), NEW y \in 1..Len(r), x < y
          PROVE  r[x].base + r[x].len < r[y].base
      <4>1. x \in 1..Len(h) /\ y \in 1..Len(h)
        BY <2>3
      <4>2. h[x].base + h[x].len < h[y].base
        BY <3>1, <4>1, ApartOrder
      <4>3. /\ r[x].base + r[x].len = h[x].base + h[x].len
            /\ h[y].base <= r[y].base /\ r[y].base \in Nat
        BY <2>4, <4>1
      <4>4. h[x].base \in Nat /\ h[x].len \in Nat /\ h[y].base \in Nat
        BY <1>0, <4>1
      <4> QED
        BY ONLY <4>2, <4>3, <4>4, SMTT(60)
    <3> QED
      BY <2>3, <3>1, OrderApart
  <2>6. ASSUME NEW c \in FreeIn(r) PROVE c \in FreeIn(h) \ gone
    <3>1. PICK j \in 1..Len(h) : r[j].base <= c /\ c < r[j].base + r[j].len
      BY <2>3, OfFree
    <3>2. c \in Nat
      BY <2>3, OfFree
    <3>3. h[j].base <= c /\ c < h[j].base + h[j].len
      <4>1. /\ r[j].base + r[j].len = h[j].base + h[j].len
            /\ h[j].base <= r[j].base /\ r[j].base \in Nat /\ h[j].base \in Nat
        BY <1>0, <2>4
      <4> QED
        BY <3>1, <3>2, <4>1
    <3>4. c \in FreeIn(h)
      BY <3>2, <3>3, InFree
    <3>5. CASE j = i
      <4>1. r[j].base = h[i].base + n
        BY <2>1, <2>a, <3>5
      <4> QED
        BY <1>1, <3>1, <3>2, <3>4, <4>1
    <3>6. CASE j # i
      <4>1. ~(h[i].base <= c /\ c < h[i].base + h[i].len)
        BY <3>2, <3>3, <3>6, OneHole
      <4> QED
        BY <1>1, <3>2, <3>4, <4>1
    <3> QED
      BY <3>5, <3>6
  <2>7. ASSUME NEW c \in FreeIn(h), c \notin gone PROVE c \in FreeIn(r)
    <3>1. PICK j \in 1..Len(h) : h[j].base <= c /\ c < h[j].base + h[j].len
      BY OfFree
    <3>2. c \in Nat
      BY OfFree
    <3>3. r[j].base <= c /\ c < r[j].base + r[j].len
      <4>1. CASE j = i
        <5>1. r[j].base = h[i].base + n /\ r[j].len = h[i].len - n
          BY <2>1, <2>a, <4>1
        <5> QED
          BY <1>1, <2>7, <3>1, <3>2, <4>1, <5>1, SMTT(60)
      <4>2. CASE j # i
        BY <2>a, <3>1, <4>2
      <4> QED
        BY <4>1, <4>2
    <3> QED
      BY <2>3, <3>2, <3>3, InFree
  <2>8. FreeIn(r) = FreeIn(h) \ gone
    BY <2>6, <2>7
  <2> QED
    BY <1>0, <1>2, <2>2, <2>3, <2>5, <2>8
<1> QED
  BY <1>3, <1>4

\* What a search returns is a hole that is big enough.
LEMMA FirstFits ==
    ASSUME NEW h, HoleList(h), NEW n \in Nat, NEW i \in FirstFit(h, n)
    PROVE  i \in 1..Len(h) /\ n <= h[i].len
<1> DEFINE big == {j \in Regular(h) : h[j].len >= n}
<1>1. big \in SUBSET Nat /\ big \subseteq 1..Len(h)
  <2>1. DOMAIN h = 1..Len(h)
    BY DEF HoleList
  <2> QED
    BY <2>1 DEF Regular
<1>2. big # {} /\ i = FirstOf(big)
  BY DEF FirstFit
<1>3. FirstOf(big) \in big
  <2> HIDE DEF big
  <2> QED
    BY <1>1, <1>2, FirstIs
<1>4. i \in 1..Len(h) /\ h[i].len >= n
  BY <1>1, <1>2, <1>3
<1>5. h[i].len \in Nat
  BY <1>4, HoleFacts
<1> QED
  BY <1>4, <1>5

LEMMA SwapFits ==
    ASSUME NEW h, HoleList(h), NEW n \in Nat, NEW i \in SwapFit(h, n)
    PROVE  i \in 1..Len(h) /\ n <= h[i].len /\ h[i].base >= SwapBase
<1> DEFINE big == {j \in DOMAIN h : h[j].base >= SwapBase /\ h[j].len >= n}
<1>1. big \in SUBSET Nat /\ big \subseteq 1..Len(h)
  <2>1. DOMAIN h = 1..Len(h)
    BY DEF HoleList
  <2> QED
    BY <2>1
<1>2. big # {} /\ i = FirstOf(big)
  BY DEF SwapFit
<1>3. FirstOf(big) \in big
  <2> HIDE DEF big
  <2> QED
    BY <1>1, <1>2, FirstIs
<1>4. i \in 1..Len(h) /\ h[i].len >= n /\ h[i].base >= SwapBase
  BY <1>1, <1>2, <1>3
<1>5. h[i].len \in Nat
  BY <1>4, HoleFacts
<1> QED
  BY <1>4, <1>5

\* Among holes there is a biggest: none is longer than the list reaches.
LEMMA Biggest ==
    ASSUME NEW h, HoleList(h), Apart(h), NEW seen \in SUBSET (1..Len(h)), seen # {}
    PROVE  \E i \in seen : \A j \in seen : h[j].len <= h[i].len
<1>0. /\ Len(h) \in Nat
      /\ \A j \in 1..Len(h) : h[j].base \in Nat /\ h[j].len \in Nat /\ h[j].len > 0
  BY HoleFacts
<1>1. Len(h) \in 1..Len(h)
  <2>1. PICK x \in seen : x \in 1..Len(h)
    OBVIOUS
  <2> QED
    BY <1>0, <2>1
<1> DEFINE top == h[Len(h)].base + h[Len(h)].len
           rest == {d \in Nat : \E i \in seen : d = top - h[i].len}
<1>2. top \in Nat
  BY <1>0, <1>1
<1>3. ASSUME NEW i \in 1..Len(h) PROVE h[i].len \in Nat /\ h[i].len <= top
  <2>1. h[i].base \in Nat /\ h[i].len \in Nat
    BY <1>0
  <2>2. CASE i = Len(h)
    BY <2>1, <2>2
  <2>3. CASE i # Len(h)
    <3>1. i < Len(h)
      BY <1>0, <2>3
    <3>2. h[i].base + h[i].len < h[Len(h)].base
      BY <1>1, <3>1, ApartOrder
    <3>3. h[Len(h)].base \in Nat /\ h[Len(h)].len \in Nat
      BY <1>0, <1>1
    <3> QED
      BY <2>1, <3>2, <3>3, SMTT(60)
  <2> QED
    BY <2>2, <2>3
<1> HIDE DEF top
<1>4. rest \in SUBSET Nat /\ rest # {}
  <2>1. PICK i \in seen : TRUE
    OBVIOUS
  <2>2. top - h[i].len \in Nat
    BY <1>2, <1>3
  <2> QED
    BY <2>1, <2>2
<1>5. PICK x \in rest : \A y \in rest : x <= y
  <2> HIDE DEF rest
  <2> QED
    BY <1>4, Least
<1>6. PICK i \in seen : x = top - h[i].len
  OBVIOUS
<1>7. ASSUME NEW j \in seen PROVE h[j].len <= h[i].len
  <2>1. top - h[j].len \in rest
    BY <1>2, <1>3, SMTT(60)
  <2>2. x <= top - h[j].len
    BY <1>5, <2>1
  <2>3. h[j].len \in Nat /\ h[i].len \in Nat
    BY <1>3
  <2> QED
    BY <1>2, <1>6, <2>2, <2>3, SMTT(60)
<1> QED
  BY <1>7

LEMMA WorstFits ==
    ASSUME NEW h, HoleList(h), Apart(h), Len(h) # 0, NEW n \in Nat, NEW i \in WorstFit(h, n)
    PROVE  i \in 1..Len(h) /\ n <= h[i].len
<1> DEFINE seen == Regular(h) \cup {1}
           biggest == {j \in seen : \A k \in seen : h[k].len <= h[j].len}
<1>1. seen \in SUBSET (1..Len(h)) /\ seen # {}
  <2>1. DOMAIN h = 1..Len(h) /\ Len(h) \in Nat
    BY DEF HoleList
  <2> QED
    BY <2>1 DEF Regular
<1>2. biggest # {} /\ biggest \in SUBSET Nat /\ biggest \subseteq 1..Len(h)
  <2>1. biggest \in SUBSET Nat /\ biggest \subseteq 1..Len(h)
    BY <1>1
  <2>2. \E j \in seen : \A k \in seen : h[k].len <= h[j].len
    <3> HIDE DEF seen
    <3> QED
      BY <1>1, Biggest
  <2> QED
    BY <2>1, <2>2
<1>3. WorstFit(h, n) = IF h[FirstOf(biggest)].len < n THEN {} ELSE {FirstOf(biggest)}
  BY DEF WorstFit
<1>4. FirstOf(biggest) \in biggest
  <2> HIDE DEF biggest
  <2> QED
    BY <1>2, FirstIs
<1> HIDE DEF biggest
<1>5. i = FirstOf(biggest) /\ ~(h[i].len < n) /\ i \in 1..Len(h)
  BY <1>2, <1>3, <1>4
<1>6. h[i].len \in Nat
  BY <1>5, HoleFacts
<1> QED
  BY <1>5, <1>6

-----------------------------------------------------------------------------
(* The memory, the swap area above it and the click between them.          *)

Space(e) == 0..(MemSize - 1) \cup SwapBase..(e - 1)

LEMMA Sizing == SwapBase = MemSize + 1 /\ MemSize \in Nat \ {0} /\ SwapBase \in Nat
                /\ NrHoles \in Nat \ {0} /\ NrProcs \in Nat \ {0}
                /\ Sizes \subseteq Nat \ {0} /\ SwapSizes \subseteq Nat
<1>1. MemSize \in Nat \ {0} /\ SwapBase = MemSize + 1
  BY SizesAssumption
<1> QED
  BY <1>1, SizesAssumption, HolesAssumption, ProcsAssumption

LEMMA SpaceIs ==
    ASSUME NEW e \in Nat, NEW c \in Nat
    PROVE  c \in Space(e) <=> c < MemSize \/ (SwapBase <= c /\ c < e)
BY Sizing DEF Space

\* A hole that starts in memory ends there.
LEMMA HoleBelow ==
    ASSUME NEW h, HoleList(h), NEW e \in Nat, FreeIn(h) \subseteq Space(e),
           NEW i \in 1..Len(h), h[i].base < SwapBase
    PROVE  h[i].base + h[i].len <= MemSize
<1>0. h[i].base \in Nat /\ h[i].len \in Nat /\ h[i].len > 0 /\ MemSize \in Nat
      /\ SwapBase = MemSize + 1
  BY HoleFacts, Sizing
<1>1. MemSize \notin FreeIn(h)
  BY <1>0, SpaceIs
<1>2. ~(h[i].base <= MemSize /\ MemSize < h[i].base + h[i].len)
  BY <1>0, <1>1, InFree
<1> QED
  BY <1>0, <1>2

\* The end of a hole but the last is not free.
LEMMA HoleEnds ==
    ASSUME NEW h, HoleList(h), Apart(h), NEW i \in 1..Len(h)
    PROVE  h[i].base + h[i].len \in Nat /\ h[i].base + h[i].len \notin FreeIn(h)
<1>0. Len(h) \in Nat /\ h[i].base \in Nat /\ h[i].len \in Nat /\ h[i].len > 0
  BY HoleFacts
<1> DEFINE c == h[i].base + h[i].len
<1>1. ASSUME c \in FreeIn(h) PROVE FALSE
  <2>1. PICK j \in 1..Len(h) : h[j].base <= c /\ c < h[j].base + h[j].len
    BY <1>1, OfFree
  <2>2. h[j].base \in Nat /\ h[j].len \in Nat /\ i \in Nat /\ j \in Nat
    BY <1>0, HoleFacts
  <2>3. CASE i < j
    <3>1. h[i].base + h[i].len < h[j].base
      BY <2>3, ApartOrder
    <3> QED
      BY <1>0, <2>1, <2>2, <3>1
  <2>4. CASE j < i
    <3>1. h[j].base + h[j].len < h[i].base
      BY <2>4, ApartOrder
    <3> QED
      BY <1>0, <2>1, <2>2, <3>1, SMTT(60)
  <2>5. CASE i = j
    BY <1>0, <2>1, <2>5
  <2> QED
    BY <2>2, <2>3, <2>4, <2>5
<1> QED
  BY <1>0, <1>1

LEMMA RegularIs ==
    ASSUME NEW h, HoleList(h)
    PROVE  /\ Cardinality(Regular(h)) \in 0..Len(h)
           /\ Regular(h) = 1..Cardinality(Regular(h))
           /\ \A i \in 1..Cardinality(Regular(h)) : h[i].base < SwapBase
           /\ Cardinality(Regular(h)) < Len(h) =>
                  h[Cardinality(Regular(h)) + 1].base >= SwapBase
<1> DEFINE R == Regular(h)
           k == Cardinality(R)
<1>0. Len(h) \in Nat /\ SwapBase \in Nat /\ \A i \in 1..Len(h) : h[i].base \in Nat
  BY HoleFacts, Sizing
<1>1. R = {i \in 1..Len(h) : \A j \in 1..i : h[j].base < SwapBase}
  <2>1. DOMAIN h = 1..Len(h)
    BY DEF HoleList
  <2> QED
    BY <2>1 DEF Regular
<1> HIDE DEF R
<1>2. k \in 0..Len(h) /\ R = 1..k
  <2>1. R \in SUBSET (1..Len(h)) /\ \A i \in R : \A j \in 1..i : j \in R
    BY <1>0, <1>1
  <2> QED
    BY <1>0, <2>1, Prefix
<1> HIDE DEF k
<1>3. \A i \in 1..k : h[i].base < SwapBase
  <2> SUFFICES ASSUME NEW i \in 1..k PROVE h[i].base < SwapBase
    OBVIOUS
  <2>1. i \in R /\ i \in 1..i
    BY <1>2
  <2> QED
    BY <1>1, <2>1
<1>4. k < Len(h) => h[k + 1].base >= SwapBase
  <2> SUFFICES ASSUME k < Len(h) PROVE h[k + 1].base >= SwapBase
    OBVIOUS
  <2>1. k + 1 \in 1..Len(h) /\ h[k + 1].base \in Nat /\ k + 1 \notin 1..k
    BY <1>0, <1>2
  <2>2. k + 1 \notin R
    BY <1>2, <2>1
  <2>3. PICK j \in 1..k + 1 : ~(h[j].base < SwapBase)
    BY <1>1, <2>1, <2>2
  <2>4. j = k + 1
    BY <1>2, <1>3, <2>3
  <2> QED
    BY <1>0, <2>1, <2>3, <2>4
<1> QED
  BY <1>2, <1>3, <1>4 DEF R, k

LEMMA HoleFront ==
    ASSUME NEW h, HoleList(h), NEW k \in 0..Len(h)
    PROVE  /\ HoleList(SubSeq(h, 1, k)) /\ Len(SubSeq(h, 1, k)) = k
           /\ \A j \in 1..k : SubSeq(h, 1, k)[j] = h[j]
<1>0. Len(h) \in Nat /\ \A j \in 1..Len(h) : h[j] \in HoleType
  BY HoleFacts
<1>1. \A j \in 1..k : h[j] \in HoleType
  BY <1>0
<1>2. /\ SubSeq(h, 1, k) \in Seq(HoleType)
      /\ Len(SubSeq(h, 1, k)) = IF 1 <= k THEN k - 1 + 1 ELSE 0
      /\ \A j \in 1..k - 1 + 1 : SubSeq(h, 1, k)[j] = h[1 + j - 1]
  BY <1>0, <1>1, SubSeqProperties
<1> QED
  BY <1>2 DEF HoleList

\* swap_off(), when all of the swap area is free: it is one hole, the last;
\* without it the list has the memory that is free.
LEMMA SwapDropped ==
    ASSUME NEW h, HoleList(h), Apart(h), NEW e \in Nat, FreeIn(h) \subseteq Space(e),
           SwapBase..(e - 1) \subseteq FreeIn(h), ~(Len(h) = 1 /\ Regular(h) = {})
    PROVE  /\ HoleList(DropSwapHoles(h)) /\ Apart(DropSwapHoles(h))
           /\ Len(DropSwapHoles(h)) <= Len(h)
           /\ FreeIn(DropSwapHoles(h)) = {c \in FreeIn(h) : c < MemSize}
<1> DEFINE k == Cardinality(Regular(h))
           r == SubSeq(h, 1, k)
<1>0. /\ Len(h) \in Nat
      /\ \A j \in 1..Len(h) : h[j].base \in Nat /\ h[j].len \in Nat /\ h[j].len > 0
  BY HoleFacts
<1>1. /\ k \in 0..Len(h) /\ Regular(h) = 1..k
      /\ \A i \in 1..k : h[i].base < SwapBase
      /\ k < Len(h) => h[k + 1].base >= SwapBase
  BY RegularIs
<1>2. HoleList(r) /\ Len(r) = k /\ \A j \in 1..k : r[j] = h[j]
  <2> HIDE DEF k
  <2> QED
    BY <1>1, HoleFront
<1> HIDE DEF k
<1>3. DropSwapHoles(h) = r
  <2>1. CASE k # 0
    <3>1. Regular(h) # {}
      BY <1>1, <2>1
    <3> QED
      BY <3>1 DEF DropSwapHoles, k
  <2>2. CASE k = 0 /\ Len(h) < 2
    BY <2>2 DEF DropSwapHoles, k
  <2>3. CASE k = 0 /\ ~(Len(h) < 2)
    <3>1. 1 \in 1..Len(h) /\ 2 \in 1..Len(h)
      BY <1>0, <2>3
    <3>2. h[1].base >= SwapBase
      BY <1>1, <2>3, <3>1
    <3>3. h[1].base + h[1].len < h[2].base
      BY <3>1, ApartOrder
    <3>4. h[2].base \in FreeIn(h)
      <4>1. h[2].base \in Nat /\ h[2].len \in Nat /\ h[2].len > 0
        BY <1>0, <3>1
      <4>2. h[2].base <= h[2].base /\ h[2].base < h[2].base + h[2].len
        BY <4>1
      <4> QED
        BY <3>1, <4>1, <4>2, InFree
    <3>5. h[2].base < MemSize \/ h[2].base < e
      BY <1>0, <3>1, <3>4, SpaceIs
    <3>6. h[1].base + h[1].len \in SwapBase..(e - 1)
      BY <1>0, <3>1, <3>2, <3>3, <3>5, Sizing, SMTT(60)
    <3>7. h[1].base + h[1].len \notin FreeIn(h)
      BY <3>1, HoleEnds
    <3> QED
      BY <3>6, <3>7
  <2> QED
    BY <1>0, <2>1, <2>2, <2>3
<1> HIDE DEF r
<1>4. Apart(r)
  <2>1. ASSUME NEW x \in 1..Len(r), NEW y \in 1..Len(r), x < y
        PROVE  r[x].base + r[x].len < r[y].base
    <3>1. x \in 1..Len(h) /\ y \in 1..Len(h) /\ r[x] = h[x] /\ r[y] = h[y]
      BY <1>0, <1>1, <1>2
    <3>2. h[x].base + h[x].len < h[y].base
      BY <2>1, <3>1, ApartOrder
    <3> QED
      BY <3>1, <3>2
  <2> QED
    BY <1>2, <2>1, OrderApart
<1>5. ASSUME NEW c \in FreeIn(r) PROVE c \in FreeIn(h) /\ c < MemSize
  <2>1. PICK j \in 1..k : r[j].base <= c /\ c < r[j].base + r[j].len
    BY <1>2, OfFree
  <2>2. c \in Nat /\ j \in 1..Len(h) /\ r[j] = h[j]
    BY <1>0, <1>1, <1>2, OfFree
  <2>3. h[j].base + h[j].len <= MemSize
    BY <1>1, <2>2, HoleBelow
  <2>4. c \in FreeIn(h)
    BY <2>1, <2>2, InFree
  <2>5. h[j].base \in Nat /\ h[j].len \in Nat
    BY <1>0, <2>2
  <2> QED
    BY <2>1, <2>2, <2>3, <2>4, <2>5, Sizing
<1>6. ASSUME NEW c \in FreeIn(h), c < MemSize PROVE c \in FreeIn(r)
  <2>1. PICK j \in 1..Len(h) : h[j].base <= c /\ c < h[j].base + h[j].len
    BY OfFree
  <2>2. c \in Nat /\ h[j].base \in Nat /\ h[j].len \in Nat
    BY <1>0, OfFree
  <2>3. h[j].base < SwapBase
    BY <1>6, <2>1, <2>2, Sizing
  <2>4. j <= k
    <3> SUFFICES ASSUME j > k PROVE FALSE
      BY <1>1
    <3>1. k + 1 \in 1..Len(h) /\ k < Len(h)
      BY <1>0, <1>1
    <3>2. h[k + 1].base >= SwapBase /\ h[k + 1].base \in Nat /\ h[k + 1].len \in Nat
      BY <1>0, <1>1, <3>1
    <3>3. CASE j = k + 1
      BY <2>2, <2>3, <3>2, <3>3, Sizing
    <3>4. CASE j # k + 1
      <4>1. k + 1 < j
        BY <1>1, <3>4
      <4>2. h[k + 1].base + h[k + 1].len < h[j].base
        BY <3>1, <4>1, ApartOrder
      <4> QED
        BY <2>2, <2>3, <3>2, <4>2, Sizing, SMTT(60)
    <3> QED
      BY <3>3, <3>4
  <2>5. j \in 1..Len(r) /\ r[j] = h[j]
    BY <1>1, <1>2, <2>4
  <2> QED
    BY <1>2, <2>1, <2>2, <2>5, InFree
<1>7. FreeIn(r) = {c \in FreeIn(h) : c < MemSize}
  BY <1>5, <1>6
<1> QED
  BY <1>1, <1>2, <1>3, <1>4, <1>7

-----------------------------------------------------------------------------
(* Who has which click: a space S is split among the holes (F), the        *)
(* processes (O) and what is changing hands (X).                           *)

Split(F, O, X, S) ==
    /\ \A c : c \in S <=> c \in F \/ c \in X \/ \E p \in Procs : c \in O[p]
    /\ \A c \in X : c \notin F
    /\ \A p \in Procs : \A c \in O[p] : c \notin F /\ c \notin X
    /\ \A p, q \in Procs : \A c \in O[p] : c \in O[q] => p = q

LEMMA SplitFree ==
    ASSUME NEW F, NEW O, NEW X, NEW S, Split(F, O, X, S)
    PROVE  Split(F \cup X, O, {}, S)
BY Zenon DEF Split

LEMMA SplitTake ==
    ASSUME NEW F, NEW O, NEW S, Split(F, O, {}, S), NEW G \in SUBSET F
    PROVE  Split(F \ G, O, G, S)
<1>1. \A c : c \in S <=> c \in F \ G \/ c \in G \/ \E p \in Procs : c \in O[p]
  BY DEF Split
<1>2. \A p \in Procs : \A c \in O[p] : c \notin F \ G /\ c \notin G
  BY DEF Split
<1>3. \A p, q \in Procs : \A c \in O[p] : c \in O[q] => p = q
  BY Zenon DEF Split
<1> QED
  BY <1>1, <1>2, <1>3, Zenon DEF Split

\* A process gets what is changing hands and gives what it had.
LEMMA SplitGive ==
    ASSUME NEW F, NEW O, NEW G, NEW S, Split(F, O, G, S), NEW p \in Procs, NEW N,
           N[p] = G, \A q \in Procs : q # p => N[q] = O[q]
    PROVE  Split(F, N, O[p], S)
<1>1. ASSUME NEW c PROVE c \in S <=> c \in F \/ c \in O[p] \/ \E q \in Procs : c \in N[q]
  <2>1. (\E q \in Procs : c \in N[q]) <=> c \in G \/ \E q \in Procs : q # p /\ c \in O[q]
    BY Zenon
  <2>2. (\E q \in Procs : c \in O[q]) <=> c \in O[p] \/ \E q \in Procs : q # p /\ c \in O[q]
    BY Zenon
  <2>3. c \in S <=> c \in F \/ c \in G \/ \E q \in Procs : c \in O[q]
    BY Zenon DEF Split
  <2> QED
    BY <2>1, <2>2, <2>3
<1>2. \A c \in O[p] : c \notin F
  BY Zenon DEF Split
<1>3. ASSUME NEW q \in Procs, NEW c \in N[q] PROVE c \notin F /\ c \notin O[p]
  <2>1. CASE q = p
    BY <2>1, Zenon DEF Split
  <2>2. CASE q # p
    BY <2>2, Zenon DEF Split
  <2> QED
    BY <2>1, <2>2
<1>4. ASSUME NEW q \in Procs, NEW r \in Procs, NEW c \in N[q], c \in N[r] PROVE q = r
  <2>1. CASE q = p /\ r # p
    BY <1>4, <2>1, Zenon DEF Split
  <2>2. CASE q # p /\ r = p
    BY <1>4, <2>2, Zenon DEF Split
  <2>3. CASE q # p /\ r # p
    BY <1>4, <2>3, Zenon DEF Split
  <2> QED
    BY <2>1, <2>2, <2>3
<1> QED
  BY <1>1, <1>2, <1>3, <1>4, Zenon DEF Split

\* The memory a table of processes stands for.
Interval(b, n) == b..(b + n - 1)
MemOf(P) == [p \in Procs |-> IF "IN_USE" \in P[p].flags THEN Interval(P[p].base, P[p].len) ELSE {}]

LEMMA SameMem ==
    ASSUME NEW P, NEW N,
           \A p \in Procs : /\ N[p].base = P[p].base /\ N[p].len = P[p].len
                            /\ "IN_USE" \in N[p].flags <=> "IN_USE" \in P[p].flags
    PROVE  MemOf(N) = MemOf(P)
BY Zenon DEF MemOf

ProcType == [flags : SUBSET Flags, base : Nat, len : Nat]
ProcTable(P) == P \in [Procs -> ProcType]

LEMMA ProcFacts ==
    ASSUME NEW P, ProcTable(P), NEW p \in Procs
    PROVE  /\ P[p] \in ProcType /\ P[p].flags \in SUBSET Flags
           /\ P[p].base \in Nat /\ P[p].len \in Nat
BY DEF ProcTable, ProcType

\* Between two holes a process starts: there are at most two holes more than
\* processes, the last of the memory and the last of the swap area.
LEMMA FewHoles ==
    ASSUME NEW h, HoleList(h), Apart(h), NEW e \in Nat, SwapBase <= e, NEW P, ProcTable(P),
           Split(FreeIn(h), MemOf(P), {}, Space(e))
    PROVE  Len(h) <= NrProcs + 2
<1> DEFINE End(i) == h[i].base + h[i].len
           After(i) == IF End(i) = MemSize THEN 0
                       ELSE IF End(i) = e THEN NrProcs + 1
                       ELSE CHOOSE p \in Procs : End(i) \in MemOf(P)[p]
           f == [i \in 1..Len(h) |-> After(i)]
<1>0. Len(h) \in Nat /\ NrProcs \in Nat \ {0} /\ MemSize \in Nat /\ SwapBase = MemSize + 1
      /\ \A i \in 1..Len(h) : h[i].base \in Nat /\ h[i].len \in Nat /\ h[i].len > 0
  BY HoleFacts, Sizing
<1>1. ASSUME NEW i \in 1..Len(h), End(i) # MemSize, End(i) # e
      PROVE  \E p \in Procs : End(i) \in MemOf(P)[p]
  <2>1. h[i].base \in Nat /\ h[i].len \in Nat /\ h[i].len > 0
    BY <1>0
  <2>2. End(i) - 1 \in FreeIn(h)
    <3>1. End(i) - 1 \in Nat /\ h[i].base <= End(i) - 1 /\ End(i) - 1 < h[i].base + h[i].len
      BY <2>1, SMTT(60)
    <3> QED
      BY <3>1, InFree
  <2>3. End(i) - 1 \in Space(e) /\ End(i) \in Nat /\ End(i) - 1 \in Nat
    BY <2>1, <2>2, SMTT(60) DEF Split
  <2>4. End(i) \in Space(e)
    <3>1. End(i) - 1 < MemSize \/ (SwapBase <= End(i) - 1 /\ End(i) - 1 < e)
      BY <2>3, SpaceIs
    <3>2. End(i) < MemSize \/ (SwapBase <= End(i) /\ End(i) < e)
      BY <1>0, <1>1, <2>3, <3>1
    <3> QED
      BY <2>3, <3>2, SpaceIs
  <2>5. End(i) \notin FreeIn(h)
    BY HoleEnds
  <2> HIDE DEF End
  <2> QED
    BY <2>4, <2>5 DEF Split
<1>2. ASSUME NEW p \in Procs, NEW i \in 1..Len(h), End(i) \in MemOf(P)[p]
      PROVE  End(i) = P[p].base
  <2>1. h[i].base \in Nat /\ h[i].len \in Nat /\ h[i].len > 0
        /\ P[p].base \in Nat /\ P[p].len \in Nat
    BY <1>0, ProcFacts
  <2>2. End(i) - 1 \in FreeIn(h)
    <3>1. End(i) - 1 \in Nat /\ h[i].base <= End(i) - 1 /\ End(i) - 1 < h[i].base + h[i].len
      BY <2>1, SMTT(60)
    <3> QED
      BY <3>1, InFree
  <2>3. End(i) - 1 \notin MemOf(P)[p]
    BY <2>2 DEF Split
  <2>4. MemOf(P)[p] = P[p].base..(P[p].base + P[p].len - 1)
    BY <1>2 DEF MemOf, Interval
  <2> QED
    BY <1>2, <2>1, <2>3, <2>4, SMTT(60)
<1>3. ASSUME NEW i \in 1..Len(h), NEW j \in 1..Len(h), i # j PROVE End(i) # End(j)
  <2>1. /\ h[i].base \in Nat /\ h[i].len \in Nat /\ h[i].len > 0
        /\ h[j].base \in Nat /\ h[j].len \in Nat /\ h[j].len > 0
    BY <1>0
  <2>2. CASE i < j
    <3>1. h[i].base + h[i].len < h[j].base
      BY <2>2, ApartOrder
    <3> QED
      BY <2>1, <3>1
  <2>3. CASE j < i
    <3>1. h[j].base + h[j].len < h[i].base
      BY <2>3, ApartOrder
    <3> QED
      BY <2>1, <3>1
  <2> QED
    BY <1>0, <1>3, <2>2, <2>3
<1>4. ASSUME NEW i \in 1..Len(h)
      PROVE  \/ End(i) = MemSize /\ After(i) = 0
             \/ End(i) = e /\ After(i) = NrProcs + 1
             \/ After(i) \in Procs /\ End(i) = P[After(i)].base
  <2> HIDE DEF End
  <2>1. CASE End(i) = MemSize
    BY <2>1
  <2>2. CASE End(i) # MemSize /\ End(i) = e
    BY <2>2
  <2>3. CASE End(i) # MemSize /\ End(i) # e
    <3>1. After(i) \in Procs /\ End(i) \in MemOf(P)[After(i)]
      BY <1>1, <2>3
    <3> QED
      BY <1>2, <3>1
  <2> QED
    BY <2>1, <2>2, <2>3
<1> HIDE DEF After
<1>5. ASSUME NEW i \in 1..Len(h), NEW j \in 1..Len(h), After(i) = After(j) PROVE i = j
  <2> HIDE DEF End
  <2>1. 0 \notin Procs /\ NrProcs + 1 \notin Procs /\ 0 # NrProcs + 1
    BY <1>0 DEF Procs
  <2>2. End(i) = End(j)
    BY <1>4, <1>5, <2>1
  <2> QED
    BY <1>3, <2>2
<1>6. f \in [1..Len(h) -> 0..NrProcs + 1]
  <2>1. Procs \subseteq 0..NrProcs + 1 /\ 0 \in 0..NrProcs + 1 /\ NrProcs + 1 \in 0..NrProcs + 1
    BY <1>0 DEF Procs
  <2>2. \A i \in 1..Len(h) : After(i) \in 0..NrProcs + 1
    BY <1>4, <2>1
  <2> QED
    BY <2>2
<1>7. /\ IsFiniteSet(1..Len(h)) /\ Cardinality(1..Len(h)) = Len(h)
      /\ IsFiniteSet(0..NrProcs + 1) /\ Cardinality(0..NrProcs + 1) = NrProcs + 2
  <2>0. 0 \in Int /\ 1 \in Int /\ Len(h) \in Int /\ NrProcs + 1 \in Int
    BY <1>0
  <2>1. /\ IsFiniteSet(1..Len(h))
        /\ Cardinality(1..Len(h)) = IF 1 > Len(h) THEN 0 ELSE Len(h) - 1 + 1
    BY <2>0, FS_Interval, Zenon
  <2>2. /\ IsFiniteSet(0..NrProcs + 1)
        /\ Cardinality(0..NrProcs + 1) = IF 0 > NrProcs + 1 THEN 0 ELSE (NrProcs + 1) - 0 + 1
    BY <2>0, FS_Interval, Zenon
  <2> QED
    BY <1>0, <2>1, <2>2
<1>8. \A i, j \in 1..Len(h) : f[i] = f[j] => i = j
  BY <1>5
<1> HIDE DEF f
<1> SUFFICES ASSUME ~(Len(h) <= NrProcs + 2) PROVE FALSE
  OBVIOUS
<1>9. Cardinality(0..NrProcs + 1) < Cardinality(1..Len(h))
  BY <1>0, <1>7
<1>10. \E i, j \in 1..Len(h) : i # j /\ f[i] = f[j]
  BY <1>6, <1>7, <1>9, FS_PigeonHole
<1> QED
  BY <1>8, <1>10

-----------------------------------------------------------------------------
(* The state of the memory manager and the changes made to it.             *)

Fates == {"ok", "panic", "wild", "stray"}
QueueList(q) == q \in Seq(Procs)
State == [holes : Seq(HoleType), worstFit : BOOLEAN, swapOn : BOOLEAN,
          proc : [Procs -> ProcType], queue : Seq(Procs), outswap : Procs, fate : Fates]

LEMMA StateFacts ==
    ASSUME NEW m \in State
    PROVE  /\ HoleList(m.holes) /\ ProcTable(m.proc) /\ QueueList(m.queue)
           /\ m.worstFit \in BOOLEAN /\ m.swapOn \in BOOLEAN
           /\ m.outswap \in Procs /\ m.fate \in Fates
BY DEF State, HoleList, ProcTable, QueueList

LEMMA SetHoles ==
    ASSUME NEW m \in State, NEW x, HoleList(x)
    PROVE  LET r == [m EXCEPT !.holes = x]
           IN  /\ r \in State /\ r.holes = x /\ r.proc = m.proc /\ r.queue = m.queue
               /\ r.fate = m.fate /\ r.swapOn = m.swapOn
BY DEF State, HoleList

LEMMA SetFate ==
    ASSUME NEW m \in State, NEW x \in Fates
    PROVE  LET r == [m EXCEPT !.fate = x]
           IN  /\ r \in State /\ r.holes = m.holes /\ r.proc = m.proc /\ r.queue = m.queue
               /\ r.fate = x /\ r.swapOn = m.swapOn
BY DEF State

Taken(m, r, h, y, w) ==
    /\ r \in State /\ r.holes = h /\ r.proc = m.proc /\ r.queue = m.queue
    /\ r.fate = y /\ r.swapOn = w

LEMMA SetHolesFate ==
    ASSUME NEW m \in State, NEW x, HoleList(x), NEW y \in Fates
    PROVE  Taken(m, [m EXCEPT !.holes = x, !.fate = y], x, y, m.swapOn)
BY DEF State, HoleList, Taken

LEMMA SetQueue ==
    ASSUME NEW m \in State, NEW x, QueueList(x)
    PROVE  LET r == [m EXCEPT !.queue = x]
           IN  /\ r \in State /\ r.holes = m.holes /\ r.proc = m.proc /\ r.queue = x
               /\ r.fate = m.fate /\ r.swapOn = m.swapOn
BY DEF State, QueueList

LEMMA SetSwapOn ==
    ASSUME NEW m \in State, NEW x \in BOOLEAN
    PROVE  LET r == [m EXCEPT !.swapOn = x]
           IN  /\ r \in State /\ r.holes = m.holes /\ r.proc = m.proc /\ r.queue = m.queue
               /\ r.fate = m.fate /\ r.swapOn = x
BY DEF State

LEMMA SetWorst ==
    ASSUME NEW m \in State, NEW x \in BOOLEAN
    PROVE  LET r == [m EXCEPT !.worstFit = x]
           IN  /\ r \in State /\ r.holes = m.holes /\ r.proc = m.proc /\ r.queue = m.queue
               /\ r.fate = m.fate /\ r.swapOn = m.swapOn
BY DEF State

LEMMA SetHolesSwapOn ==
    ASSUME NEW m \in State, NEW x, HoleList(x), NEW w \in BOOLEAN
    PROVE  Taken(m, [m EXCEPT !.holes = x, !.swapOn = w], x, m.fate, w)
BY DEF State, HoleList, Taken

LEMMA SetProc ==
    ASSUME NEW m \in State, NEW x, ProcTable(x)
    PROVE  LET r == [m EXCEPT !.proc = x]
           IN  /\ r \in State /\ r.holes = m.holes /\ r.proc = x /\ r.queue = m.queue
               /\ r.fate = m.fate /\ r.swapOn = m.swapOn
BY DEF State, ProcTable

\* One process changes, and nothing else but the holes.
Changed(m, r, h, p, f, b, n) ==
    /\ r \in State /\ r.holes = h /\ r.queue = m.queue
    /\ r.fate = m.fate /\ r.swapOn = m.swapOn
    /\ r.proc[p].flags = f /\ r.proc[p].base = b /\ r.proc[p].len = n
    /\ \A q \in Procs : q # p => r.proc[q] = m.proc[q]

LEMMA SetEntry ==
    ASSUME NEW m \in State, NEW p \in Procs, NEW f \in SUBSET Flags, NEW b \in Nat, NEW n \in Nat
    PROVE  Changed(m, [m EXCEPT !.proc[p] = [flags |-> f, base |-> b, len |-> n]],
                   m.holes, p, f, b, n)
BY DEF State, ProcType, Changed

LEMMA SetFlags ==
    ASSUME NEW m \in State, NEW p \in Procs, NEW on \in SUBSET Flags, NEW off
    PROVE  Changed(m, With(m, p, on, off), m.holes, p, (m.proc[p].flags \cup on) \ off,
                   m.proc[p].base, m.proc[p].len)
<1>1. (m.proc[p].flags \cup on) \ off \in SUBSET Flags
  BY StateFacts, ProcFacts
<1> DEFINE new == (m.proc[p].flags \cup on) \ off
<1>2. With(m, p, on, off) = [m EXCEPT !.proc[p].flags = new]
  BY DEF With
<1>3. new \in SUBSET Flags
  BY <1>1
<1> HIDE DEF new
<1>4. Changed(m, [m EXCEPT !.proc[p].flags = new], m.holes, p, new, m.proc[p].base, m.proc[p].len)
  BY <1>3 DEF State, ProcType, Changed
<1> QED
  BY <1>2, <1>4 DEF new

LEMMA SetBase ==
    ASSUME NEW m \in State, NEW p \in Procs, NEW b \in Nat
    PROVE  Changed(m, [m EXCEPT !.proc[p].base = b],
                   m.holes, p, m.proc[p].flags, b, m.proc[p].len)
BY DEF State, ProcType, Changed

LEMMA SetBaseLen ==
    ASSUME NEW m \in State, NEW p \in Procs, NEW b \in Nat, NEW n \in Nat
    PROVE  Changed(m, [m EXCEPT !.proc[p].base = b, !.proc[p].len = n],
                   m.holes, p, m.proc[p].flags, b, n)
BY ZenonT(60) DEF State, ProcType, Changed

LEMMA SetMoved ==
    ASSUME NEW m \in State, NEW h, HoleList(h), NEW p \in Procs, NEW b \in Nat
    PROVE  Changed(m, [m EXCEPT !.holes = h, !.proc[p].base = b, !.outswap = p],
                   h, p, m.proc[p].flags, b, m.proc[p].len)
BY ZenonT(60) DEF State, ProcType, HoleList, Changed

-----------------------------------------------------------------------------
(* The invariant.                                                          *)

\* The memory and the swap area up to e are split, with X changing hands.
Whole(m, e, X) ==
    /\ m.fate = "ok" /\ e \in Nat /\ SwapBase <= e
    /\ SwapBase < e => m.swapOn
    /\ Apart(m.holes) /\ Len(m.holes) <= NrProcs + 2
    /\ Split(FreeIn(m.holes), MemOf(m.proc), X, Space(e))

\* A slot with a flag is in use, and its memory is in the swap area just if
\* the process is swapped out.
Placed(P) ==
    \A p \in Procs :
        /\ P[p].flags # {} => "IN_USE" \in P[p].flags
        /\ "IN_USE" \in P[p].flags =>
               P[p].len > 0 /\ ("ONSWAP" \in P[p].flags <=> SwapBase <= P[p].base)

\* Only who is swapped out wants to come back; who has something to come does.
Wanted(P) ==
    \A p \in Procs :
        /\ "SWAPIN" \in P[p].flags => "ONSWAP" \in P[p].flags
        /\ "PENDING" \in P[p].flags => "SWAPIN" \in P[p].flags
        /\ "REPLY" \in P[p].flags /\ "ONSWAP" \in P[p].flags => "SWAPIN" \in P[p].flags

\* The queue has everybody who wants to come back, once.  It may also have
\* some of R, who are gone.
Queued(q, P, R) ==
    /\ \A i, j \in 1..Len(q) : i # j => q[i] # q[j]
    /\ \A p \in Procs : "SWAPIN" \in P[p].flags => \E i \in 1..Len(q) : q[i] = p
    /\ \A i \in 1..Len(q) : "SWAPIN" \in P[q[i]].flags \/ q[i] \in R

Sane(m, R) ==
    /\ m \in State
    /\ \E e : Whole(m, e, {})
    /\ Placed(m.proc) /\ Wanted(m.proc) /\ Queued(m.queue, m.proc, R)

\* The manager has stopped.
Bad(m) ==
    /\ m \in State /\ Apart(m.holes) /\ m.fate # "ok"
    /\ NrHoles >= NrProcs + 3 => m.fate # "panic"

Fine(m, R) == Bad(m) \/ Sane(m, R)

\* Nobody changes but blocked processes in memory.
Kept(m, r) ==
    /\ r.queue = m.queue
    /\ \A p \in Procs : "BLOCKED" \notin m.proc[p].flags \/ "ONSWAP" \in m.proc[p].flags
                            => r.proc[p] = m.proc[p]

LEMMA FreeMemStep ==
    ASSUME NEW m \in State, NEW e, NEW b \in Nat, NEW n \in Nat \ {0},
           Whole(m, e, Interval(b, n))
    PROVE  LET r == FreeMem(m, b, n)
           IN  /\ r \in State /\ r.proc = m.proc /\ r.queue = m.queue
               /\ Bad(r) \/ Whole(r, e, {})
<1>0. /\ HoleList(m.holes) /\ Apart(m.holes) /\ ProcTable(m.proc) /\ Len(m.holes) \in Nat
      /\ Len(m.holes) <= NrProcs + 2 /\ m.fate = "ok" /\ e \in Nat /\ SwapBase <= e
      /\ SwapBase < e => m.swapOn
      /\ Split(FreeIn(m.holes), MemOf(m.proc), Interval(b, n), Space(e))
  BY StateFacts, HoleFacts DEF Whole
<1>a. n # 0
  OBVIOUS
<1>1. CASE TableFull(m.holes)
  <2> DEFINE r == [m EXCEPT !.fate = "panic"]
  <2>1. /\ r \in State /\ r.holes = m.holes /\ r.proc = m.proc /\ r.queue = m.queue
        /\ r.fate = "panic"
    BY SetFate DEF Fates
  <2>2. ~(NrHoles >= NrProcs + 3)
    BY <1>0, <1>1, Sizing DEF TableFull
  <2>3. FreeMem(m, b, n) = r
    BY <1>a, <1>1 DEF FreeMem
  <2> HIDE DEF r
  <2>4. Bad(r)
    BY <1>0, <2>1, <2>2 DEF Bad
  <2> QED
    BY <2>1, <2>3, <2>4
<1>2. CASE ~TableFull(m.holes)
  <2> DEFINE h == Insert(m.holes, b, n)
             r == [m EXCEPT !.holes = h]
  <2>1. /\ HoleList(h) /\ Apart(h)
        /\ FreeIn(h) = FreeIn(m.holes) \cup Interval(b, n)
    <3>1. \A c \in b..(b + n - 1) : c \notin FreeIn(m.holes)
      BY <1>0 DEF Split, Interval
    <3> QED
      BY <1>0, <3>1, Freed DEF Interval
  <2> HIDE DEF h
  <2>2. /\ r \in State /\ r.holes = h /\ r.proc = m.proc /\ r.queue = m.queue
        /\ r.fate = m.fate /\ r.swapOn = m.swapOn
    BY <2>1, SetHoles
  <2>3. FreeMem(m, b, n) = r
    BY <1>a, <1>2 DEF FreeMem, h
  <2> HIDE DEF r
  <2>4. Split(FreeIn(h), MemOf(m.proc), {}, Space(e))
    BY <1>0, <2>1, SplitFree
  <2>5. Len(h) <= NrProcs + 2
    BY <1>0, <2>1, <2>4, FewHoles
  <2>6. Whole(r, e, {})
    BY <1>0, <2>1, <2>2, <2>4, <2>5 DEF Whole
  <2> QED
    BY <2>2, <2>3, <2>6
<1> QED
  BY <1>1, <1>2

\* What is not about memory, for one process whose flags or place change.
LEMMA WholeFlags ==
    ASSUME NEW m, NEW r, NEW e, NEW X, Whole(m, e, X),
           r.holes = m.holes, r.fate = m.fate, r.swapOn = m.swapOn,
           \A p \in Procs : /\ r.proc[p].base = m.proc[p].base /\ r.proc[p].len = m.proc[p].len
                            /\ "IN_USE" \in r.proc[p].flags <=> "IN_USE" \in m.proc[p].flags
    PROVE  Whole(r, e, X)
<1>1. MemOf(r.proc) = MemOf(m.proc)
  BY SameMem
<1> QED
  BY <1>1 DEF Whole

LEMMA QueuedSame ==
    ASSUME NEW q, QueueList(q), NEW P, NEW N, NEW R, Queued(q, P, R),
           \A p \in Procs : "SWAPIN" \in N[p].flags <=> "SWAPIN" \in P[p].flags
    PROVE  Queued(q, N, R)
<1>1. \A i \in 1..Len(q) : q[i] \in Procs
  BY DEF QueueList
<1> QED
  BY <1>1 DEF Queued

\* One that is blocked goes to the swap area.
LEMMA MoveOutStep ==
    ASSUME NEW m, NEW R, Sane(m, R), NEW p \in Procs, Candidate(m, p)
    PROVE  LET r == MoveOut(m, p) IN Bad(r) \/ (Sane(r, R) /\ Kept(m, r))
<1> DEFINE f == m.proc[p].flags
           n == m.proc[p].len
           b == m.proc[p].base
           fit == SwapFit(m.holes, n)
           i == CHOOSE i \in fit : TRUE
           c == m.holes[i].base
           h == Bite(m.holes, i, n)
           moved == [m EXCEPT !.holes = h, !.proc[p].base = c, !.outswap = p]
           free == FreeMem(moved, b, n)
           r == With(free, p, {"ONSWAP"}, {})
<1>0. /\ m \in State /\ HoleList(m.holes) /\ ProcTable(m.proc) /\ QueueList(m.queue)
      /\ f \in SUBSET Flags /\ b \in Nat /\ n \in Nat
      /\ Placed(m.proc) /\ Wanted(m.proc) /\ Queued(m.queue, m.proc, R)
  BY StateFacts, ProcFacts DEF Sane
<1>1. PICK e : Whole(m, e, {})
  BY DEF Sane
<1>2. "BLOCKED" \in f /\ "REPLY" \notin f /\ "ONSWAP" \notin f /\ fit # {}
  BY DEF Candidate, Has
<1>3. "IN_USE" \in f /\ n \in Nat \ {0} /\ b < SwapBase
  <2>1. "IN_USE" \in f
    BY <1>0, <1>2 DEF Placed
  <2>2. n > 0 /\ ~(SwapBase <= b)
    BY <1>0, <1>2, <2>1 DEF Placed
  <2> QED
    BY <1>0, <2>1, <2>2, Sizing
<1>4. i \in fit
  BY <1>2
<1> HIDE DEF i
<1>5. i \in 1..Len(m.holes) /\ n <= m.holes[i].len /\ c >= SwapBase
  BY <1>0, <1>4, SwapFits
<1>6. c \in Nat
  BY <1>0, <1>5, HoleFacts
<1>7. /\ HoleList(h) /\ Apart(h) /\ Len(h) <= Len(m.holes)
      /\ Interval(c, n) \subseteq FreeIn(m.holes)
      /\ FreeIn(h) = FreeIn(m.holes) \ Interval(c, n)
  <2>1. Apart(m.holes)
    BY <1>1 DEF Whole
  <2> QED
    BY <1>0, <1>3, <1>5, <2>1, Bitten DEF Interval
<1>8. Len(h) \in Nat /\ Len(m.holes) \in Nat
  BY <1>0, <1>7, HoleFacts
<1> HIDE DEF h
<1>9. Changed(m, moved, h, p, f, c, n)
  <2> HIDE DEF c
  <2> QED
    BY <1>0, <1>6, <1>7, SetMoved
<1>10. MoveOut(m, p) = r
  BY DEF MoveOut, h, i
<1> HIDE DEF moved
<1>a. /\ moved \in State /\ moved.holes = h /\ moved.queue = m.queue
      /\ moved.fate = m.fate /\ moved.swapOn = m.swapOn
      /\ moved.proc[p].flags = f /\ moved.proc[p].base = c /\ moved.proc[p].len = n
      /\ \A q \in Procs : q # p => moved.proc[q] = m.proc[q]
  BY <1>9 DEF Changed
<1>11. Whole(moved, e, Interval(b, n))
  <2>1. Split(FreeIn(h), MemOf(m.proc), Interval(c, n), Space(e))
    <3>1. Split(FreeIn(m.holes), MemOf(m.proc), {}, Space(e))
      BY <1>1 DEF Whole
    <3> QED
      BY <1>7, <3>1, SplitTake
  <2>2. MemOf(moved.proc)[p] = Interval(c, n) /\ MemOf(m.proc)[p] = Interval(b, n)
    BY <1>3, <1>a DEF MemOf
  <2>3. \A q \in Procs : q # p => MemOf(moved.proc)[q] = MemOf(m.proc)[q]
    BY <1>a DEF MemOf
  <2>4. Split(FreeIn(h), MemOf(moved.proc), Interval(b, n), Space(e))
    BY <2>1, <2>2, <2>3, SplitGive
  <2>5. /\ m.fate = "ok" /\ e \in Nat /\ SwapBase <= e
        /\ SwapBase < e => m.swapOn
        /\ Len(m.holes) <= NrProcs + 2
    BY <1>1 DEF Whole
  <2>6. Len(h) <= NrProcs + 2
    BY <1>7, <1>8, <2>5, Sizing
  <2> QED
    BY <1>7, <1>a, <2>4, <2>5, <2>6 DEF Whole
<1>12. /\ free \in State /\ free.proc = moved.proc /\ free.queue = m.queue
       /\ Bad(free) \/ Whole(free, e, {})
  <2> HIDE DEF n, b
  <2> QED
    BY <1>0, <1>3, <1>a, <1>11, FreeMemStep
<1> HIDE DEF free
<1>13. /\ r \in State /\ r.holes = free.holes /\ r.queue = m.queue
       /\ r.fate = free.fate /\ r.swapOn = free.swapOn
       /\ r.proc[p].flags = f \cup {"ONSWAP"}
       /\ r.proc[p].base = c /\ r.proc[p].len = n
       /\ \A q \in Procs : q # p => r.proc[q] = m.proc[q]
  <2>1. {"ONSWAP"} \in SUBSET Flags
    BY DEF Flags
  <2>2. Changed(free, r, free.holes, p, (free.proc[p].flags \cup {"ONSWAP"}) \ {},
                free.proc[p].base, free.proc[p].len)
    BY <1>12, <2>1, SetFlags
  <2> HIDE DEF r, f, c, n
  <2>3. /\ r \in State /\ r.holes = free.holes /\ r.queue = free.queue
        /\ r.fate = free.fate /\ r.swapOn = free.swapOn
        /\ r.proc[p].flags = (free.proc[p].flags \cup {"ONSWAP"}) \ {}
        /\ r.proc[p].base = free.proc[p].base /\ r.proc[p].len = free.proc[p].len
        /\ \A q \in Procs : q # p => r.proc[q] = free.proc[q]
    BY <2>2 DEF Changed
  <2> QED
    BY <1>a, <1>12, <2>3
<1> HIDE DEF r, f, n, b, c, fit
<1>14. CASE Bad(free)
  <2>1. Bad(r)
    BY <1>13, <1>14 DEF Bad
  <2> QED
    BY <1>10, <2>1
<1>15. CASE Whole(free, e, {})
  <2>1. Whole(r, e, {})
    <3>1. \A q \in Procs : /\ r.proc[q].base = free.proc[q].base
                           /\ r.proc[q].len = free.proc[q].len
                           /\ "IN_USE" \in r.proc[q].flags <=> "IN_USE" \in free.proc[q].flags
      BY <1>a, <1>12, <1>13
    <3> QED
      BY <1>13, <1>15, <3>1, WholeFlags
  <2>2. Placed(r.proc)
    <3> SUFFICES ASSUME NEW q \in Procs
                 PROVE  /\ r.proc[q].flags # {} => "IN_USE" \in r.proc[q].flags
                        /\ "IN_USE" \in r.proc[q].flags =>
                               r.proc[q].len > 0
                               /\ ("ONSWAP" \in r.proc[q].flags <=> SwapBase <= r.proc[q].base)
      BY DEF Placed
    <3>1. CASE q = p
      <4>1. SwapBase <= c /\ n > 0
        BY <1>3, <1>5, <1>6, Sizing
      <4> QED
        BY <1>3, <1>13, <3>1, <4>1
    <3>2. CASE q # p
      BY <1>0, <1>13, <3>2 DEF Placed
    <3> QED
      BY <3>1, <3>2
  <2>3. Wanted(r.proc)
    <3>1. ASSUME NEW q \in Procs
          PROVE  /\ "SWAPIN" \in r.proc[q].flags => "ONSWAP" \in r.proc[q].flags
                 /\ "PENDING" \in r.proc[q].flags => "SWAPIN" \in r.proc[q].flags
                 /\ "REPLY" \in r.proc[q].flags /\ "ONSWAP" \in r.proc[q].flags
                        => "SWAPIN" \in r.proc[q].flags
      <4>1. CASE q = p
        <5>1. "PENDING" \in f => "SWAPIN" \in f
          BY <1>0 DEF Wanted, f
        <5> QED
          BY <1>2, <1>13, <4>1, <5>1
      <4>2. CASE q # p
        BY <1>0, <1>13, <4>2 DEF Wanted
      <4> QED
        BY <4>1, <4>2
    <3> QED
      BY <3>1 DEF Wanted
  <2>4. Queued(r.queue, r.proc, R)
    <3>1. \A q \in Procs : "SWAPIN" \in r.proc[q].flags <=> "SWAPIN" \in m.proc[q].flags
      BY <1>13 DEF f
    <3> QED
      BY <1>0, <1>13, <3>1, QueuedSame
  <2>5. Kept(m, r)
    BY <1>2, <1>13 DEF Kept, f
  <2>6. Sane(r, R)
    BY <1>13, <2>1, <2>2, <2>3, <2>4 DEF Sane
  <2> QED
    BY <1>10, <2>5, <2>6
<1> QED
  BY <1>12, <1>14, <1>15

-----------------------------------------------------------------------------
(* Loops: a function from the number of rounds made to the state.          *)

IsLoop(g, N, a, G) == g = [k \in 0..N |-> IF k = 0 THEN a ELSE G[k][g[k - 1]]]

LEMMA LoopExists ==
    ASSUME NEW N \in Nat, NEW a, NEW G
    PROVE  \E g : IsLoop(g, N, a, G)
<1> DEFINE Is(g, n) == IsLoop(g, n, a, G)
           S == {n \in Nat : \E g : Is(g, n)}
<1>1. 0 \in S
  <2> DEFINE g == [k \in 0..0 |-> a]
  <2>1. Is(g, 0)
    <3>1. \A k \in 0..0 : k = 0
      OBVIOUS
    <3> QED
      BY <3>1 DEF IsLoop
  <2> QED
    BY <2>1
<1>2. ASSUME NEW n \in Nat, n \in S PROVE n + 1 \in S
  <2>1. PICK g : Is(g, n)
    BY <1>2
  <2>2. g[0] = a /\ \A k \in 1..n : g[k] = G[k][g[k - 1]]
    <3>1. 0 \in 0..n /\ \A k \in 1..n : k \in 0..n /\ k # 0
      OBVIOUS
    <3> QED
      BY <2>1, <3>1 DEF IsLoop
  <2> DEFINE f == [k \in 0..n + 1 |-> IF k = n + 1 THEN G[n + 1][g[n]] ELSE g[k]]
  <2>3. f = [k \in 0..n + 1 |-> IF k = 0 THEN a ELSE G[k][f[k - 1]]]
    <3>1. ASSUME NEW k \in 0..n + 1
          PROVE  f[k] = IF k = 0 THEN a ELSE G[k][f[k - 1]]
      <4>1. CASE k = 0
        <5>1. k # n + 1
          BY <4>1
        <5> QED
          BY <2>2, <4>1, <5>1
      <4>2. CASE k = n + 1
        <5>1. k - 1 = n /\ n \in 0..n + 1 /\ n # n + 1 /\ k # 0
          BY <4>2
        <5>2. f[k - 1] = g[n]
          BY <5>1
        <5> QED
          BY <4>2, <5>1, <5>2
      <4>3. CASE k # 0 /\ k # n + 1
        <5>1. k \in 1..n /\ k - 1 \in 0..n + 1 /\ k - 1 # n + 1
          BY <4>3
        <5>2. f[k - 1] = g[k - 1] /\ f[k] = g[k]
          BY <4>3, <5>1
        <5> QED
          BY <2>2, <4>3, <5>1, <5>2
      <4> QED
        BY <4>1, <4>2, <4>3
    <3>2. f = [k \in 0..n + 1 |-> f[k]]
      OBVIOUS
    <3> HIDE DEF f
    <3> QED
      BY <3>1, <3>2
  <2> HIDE DEF f
  <2>4. Is(f, n + 1)
    BY <2>3 DEF IsLoop
  <2> HIDE DEF Is
  <2> QED
    BY <2>4
<1> HIDE DEF Is
<1>3. Nat \subseteq S
  <2> HIDE DEF S
  <2> QED
    BY <1>1, <1>2, Induct
<1>4. N \in S
  BY <1>3
<1>5. PICK g : Is(g, N)
  BY <1>4
<1> QED
  BY <1>5 DEF Is

\* What each round carries on holds after all of them.
LEMMA LoopHolds ==
    ASSUME NEW N \in Nat, NEW H, 0 \in H, \A k \in 1..N : k - 1 \in H => k \in H
    PROVE  \A k \in 0..N : k \in H
<1> DEFINE S == {k \in Nat : k <= N => k \in H}
<1>1. 0 \in S
  OBVIOUS
<1>2. ASSUME NEW k \in Nat, k \in S PROVE k + 1 \in S
  <2>1. k + 1 <= N => k + 1 \in 1..N /\ (k + 1) - 1 = k /\ k \in H
    BY <1>2
  <2> QED
    BY <2>1
<1>3. Nat \subseteq S
  <2> HIDE DEF S
  <2> QED
    BY <1>1, <1>2, Induct
<1> QED
  BY <1>3

\* A loop that keeps, in round k, to a set of states that depends on k.
LEMMA Loop ==
    ASSUME NEW N \in Nat, NEW SS, NEW a \in SS[0], NEW G,
           \A k \in 1..N : \A x \in SS[k - 1] : G[k][x] \in SS[k]
    PROVE  \E g : /\ IsLoop(g, N, a, G)
                  /\ \A k \in 0..N : g[k] \in SS[k]
<1>1. PICK g : IsLoop(g, N, a, G)
  BY LoopExists
<1>2. \A k \in 0..N : g[k] = IF k = 0 THEN a ELSE G[k][g[k - 1]]
  BY <1>1, Zenon DEF IsLoop
<1> DEFINE H == {k \in 0..N : g[k] \in SS[k]}
<1>3. 0 \in H
  <2>1. 0 \in 0..N
    OBVIOUS
  <2>2. g[0] = a
    BY <1>2, <2>1
  <2> QED
    BY <2>1, <2>2
<1>4. ASSUME NEW k \in 1..N, k - 1 \in H PROVE k \in H
  <2>1. g[k - 1] \in SS[k - 1] /\ k \in 0..N /\ k # 0
    BY <1>4
  <2>2. g[k] = G[k][g[k - 1]]
    BY <1>2, <2>1
  <2> QED
    BY <2>1, <2>2
<1> HIDE DEF H
<1>5. \A k \in 0..N : k \in H
  BY <1>3, <1>4, LoopHolds
<1> QED
  BY <1>1, <1>5 DEF H

-----------------------------------------------------------------------------
(* alloc_mem()                                                             *)

Swapped(m, r, R) == Bad(r) \/ (Sane(r, R) /\ Kept(m, r))

LEMMA KeptSelf == ASSUME NEW m PROVE Kept(m, m)
BY DEF Kept

LEMMA KeptTwice ==
    ASSUME NEW m, NEW s, NEW r, Kept(m, s), Kept(s, r)
    PROVE  Kept(m, r)
BY Zenon DEF Kept

LEMMA SwapMoreStep ==
    ASSUME NEW m, NEW R, NEW s, Swapped(m, s, R), NEW n
    PROVE  Swapped(m, SwapMore(s, n), R)
<1>1. CASE MustSwap(s, n)
  <2> DEFINE p == CHOOSE p \in Victims(s) : TRUE
  <2>1. p \in Victims(s) /\ s.fate = "ok"
    BY <1>1 DEF MustSwap
  <2>2. p \in Procs /\ Candidate(s, p)
    BY <2>1 DEF Victims
  <2>3. SwapMore(s, n) = MoveOut(s, p)
    BY <1>1 DEF SwapMore, SwapOut
  <2> HIDE DEF p
  <2>4. Sane(s, R) /\ Kept(m, s)
    BY <2>1 DEF Swapped, Bad
  <2>5. Bad(MoveOut(s, p)) \/ (Sane(MoveOut(s, p), R) /\ Kept(s, MoveOut(s, p)))
    BY <2>2, <2>4, MoveOutStep
  <2> QED
    BY <2>3, <2>4, <2>5, KeptTwice DEF Swapped
<1>2. CASE ~MustSwap(s, n)
  BY <1>2 DEF SwapMore
<1> QED
  BY <1>1, <1>2

LEMMA SwapToFitStep ==
    ASSUME NEW m, NEW R, Sane(m, R), NEW n
    PROVE  Swapped(m, SwapToFit(m, n), R)
<1> DEFINE Is(g) == g = [k \in 0..NrProcs |-> IF k = 0 THEN m ELSE SwapMore(g[k - 1], n)]
           after == CHOOSE g : Is(g)
           S == {s \in State : Swapped(m, s, R)}
           SS == [k \in 0..NrProcs |-> S]
           G == [k \in 1..NrProcs |-> [s \in S |-> SwapMore(s, n)]]
<1>0. NrProcs \in Nat /\ 0 \in 0..NrProcs /\ m \in S
  BY Sizing, KeptSelf DEF Swapped, Sane
<1>1. \A s \in S : SwapMore(s, n) \in S
  BY SwapMoreStep DEF Swapped, Bad, Sane
<1> HIDE DEF S
<1>2. m \in SS[0] /\ \A k \in 1..NrProcs : \A s \in SS[k - 1] : G[k][s] \in SS[k]
  <2>1. \A k \in 1..NrProcs : k \in 0..NrProcs /\ k - 1 \in 0..NrProcs
    BY <1>0
  <2> QED
    BY <1>0, <1>1, <2>1
<1>3. PICK g : /\ IsLoop(g, NrProcs, m, G)
               /\ \A k \in 0..NrProcs : g[k] \in SS[k]
  <2> HIDE DEF G, SS
  <2> QED
    BY <1>0, <1>2, Loop
<1>4. \A k \in 0..NrProcs : g[k] \in S /\ g[k] = IF k = 0 THEN m ELSE G[k][g[k - 1]]
  <2> HIDE DEF G
  <2> QED
    BY <1>3, Zenon DEF IsLoop
<1>5. Is(g)
  <2>1. ASSUME NEW k \in 0..NrProcs
        PROVE  g[k] = IF k = 0 THEN m ELSE SwapMore(g[k - 1], n)
    <3>1. CASE k = 0
      BY <1>4, <3>1
    <3>2. CASE k # 0
      <4>1. k \in 1..NrProcs /\ k - 1 \in 0..NrProcs
        BY <1>0, <3>2
      <4>2. G[k][g[k - 1]] = SwapMore(g[k - 1], n)
        BY <1>4, <4>1
      <4> QED
        BY <1>4, <3>2, <4>2
    <3> QED
      BY <3>1, <3>2
  <2>2. g = [k \in 0..NrProcs |-> g[k]]
    BY <1>3 DEF IsLoop
  <2> QED
    BY <2>1, <2>2
<1> HIDE DEF G
<1>6. Is(after)
  <2> HIDE DEF Is
  <2> QED
    BY <1>5
<1>7. SwapToFit(m, n) = after[NrProcs]
  BY DEF SwapToFit
<1> HIDE DEF after
<1>8. after[NrProcs] \in S
  <2> DEFINE H == {k \in 0..NrProcs : after[k] \in S}
  <2>0. \A k \in 0..NrProcs : after[k] = IF k = 0 THEN m ELSE SwapMore(after[k - 1], n)
    BY <1>6, Zenon
  <2>1. 0 \in H
    BY <1>0, <2>0
  <2>2. ASSUME NEW k \in 1..NrProcs, k - 1 \in H PROVE k \in H
    <3>1. after[k - 1] \in S /\ k \in 0..NrProcs /\ k # 0
      BY <2>2
    <3> QED
      BY <1>1, <2>0, <3>1
  <2> HIDE DEF H
  <2>3. \A k \in 0..NrProcs : k \in H
    BY <1>0, <2>1, <2>2, LoopHolds
  <2> QED
    BY <1>0, <2>3 DEF H
<1> QED
  BY <1>7, <1>8 DEF S

\* What a request for n clicks that succeeds leaves: they are changing hands.
Got(m, a, n, R) ==
    /\ a.base \in Nat /\ a.base < SwapBase
    /\ a.m \in State
    /\ \E e : Whole(a.m, e, Interval(a.base, n))
    /\ Placed(a.m.proc) /\ Wanted(a.m.proc) /\ Queued(a.m.queue, a.m.proc, R)
    /\ Kept(m, a.m)

Allocated(m, a, n, R) ==
    \/ Bad(a.m) /\ a.base \in Nat \cup {NoMem}
    \/ a.base = NoMem /\ Sane(a.m, R) /\ Kept(m, a.m)
    \/ Got(m, a, n, R)

LEMMA FitStep ==
    ASSUME NEW s \in State, Apart(s.holes), ~Lost(s), NEW n \in Nat, NEW i \in Fit(s, n)
    PROVE  i \in 1..Len(s.holes) /\ n <= s.holes[i].len
<1>0. HoleList(s.holes)
  BY StateFacts
<1>1. CASE s.worstFit
  <2>1. s.holes # <<>>
    BY <1>1 DEF Lost
  <2>2. Len(s.holes) # 0
    BY <1>0, <2>1, EmptySeq DEF HoleList
  <2>3. i \in WorstFit(s.holes, n)
    BY <1>1 DEF Fit
  <2> QED
    BY <1>0, <2>2, <2>3, WorstFits
<1>2. CASE ~s.worstFit
  <2>1. i \in FirstFit(s.holes, n)
    BY <1>2 DEF Fit
  <2> QED
    BY <1>0, <2>1, FirstFits
<1> QED
  BY <1>1, <1>2

LEMMA TakeFitStep ==
    ASSUME NEW m, NEW R, NEW s, Swapped(m, s, R), NEW n \in Nat \ {0}
    PROVE  Allocated(m, TakeFit(s, n), n, R)
<1> DEFINE a == TakeFit(s, n)
<1>1. CASE s.fate # "ok"
  <2>1. Bad(s)
    BY <1>1 DEF Swapped, Sane, Whole
  <2>2. a = [m |-> s, base |-> NoMem]
    BY <1>1 DEF TakeFit
  <2> HIDE DEF a
  <2>3. a.m = s /\ a.base = NoMem
    BY <2>2
  <2> QED
    BY <2>1, <2>3 DEF Allocated, a
<1>2. CASE s.fate = "ok"
  <2>0. Sane(s, R) /\ Kept(m, s)
    BY <1>2 DEF Swapped, Bad
  <2>1. /\ s \in State /\ Placed(s.proc) /\ Wanted(s.proc) /\ Queued(s.queue, s.proc, R)
        /\ HoleList(s.holes) /\ ProcTable(s.proc)
    BY <2>0, StateFacts DEF Sane
  <2>2. PICK e : Whole(s, e, {})
    BY <2>0 DEF Sane
  <2>3. Apart(s.holes)
    BY <2>2 DEF Whole
  <2>4. CASE Lost(s)
    <3> DEFINE t == [s EXCEPT !.fate = "wild"]
    <3>1. t \in State /\ t.holes = s.holes /\ t.fate = "wild"
      BY <2>1, SetFate DEF Fates
    <3>2. a = [m |-> t, base |-> NoMem]
      BY <1>2, <2>4 DEF TakeFit
    <3> HIDE DEF t, a
    <3>3. a.m = t /\ a.base = NoMem
      BY <3>2
    <3>4. Bad(t)
      BY <2>3, <3>1 DEF Bad
    <3> QED
      BY <3>3, <3>4 DEF Allocated, a
  <2>5. CASE ~Lost(s) /\ Fit(s, n) = {}
    <3>1. a = [m |-> s, base |-> NoMem]
      BY <1>2, <2>5 DEF TakeFit
    <3> HIDE DEF a
    <3>2. a.m = s /\ a.base = NoMem
      BY <3>1
    <3> QED
      BY <2>0, <3>2 DEF Allocated, a
  <2>6. CASE ~Lost(s) /\ Fit(s, n) # {}
    <3> DEFINE i == CHOOSE i \in Fit(s, n) : TRUE
               h == Bite(s.holes, i, n)
               b == s.holes[i].base
               y == IF b < SwapBase THEN "ok" ELSE "stray"
               t == [s EXCEPT !.holes = h, !.fate = y]
    <3>1. i \in Fit(s, n)
      BY <2>6
    <3>2. a = [m |-> t, base |-> b]
      BY <1>2, <2>6 DEF TakeFit, Take
    <3> HIDE DEF i, a
    <3>3. i \in 1..Len(s.holes) /\ n <= s.holes[i].len /\ b \in Nat
      BY <2>1, <2>3, <2>6, <3>1, FitStep, HoleFacts
    <3>4. /\ HoleList(h) /\ Apart(h) /\ Len(h) <= Len(s.holes)
          /\ Interval(b, n) \subseteq FreeIn(s.holes)
          /\ FreeIn(h) = FreeIn(s.holes) \ Interval(b, n)
      BY <2>1, <2>3, <3>3, Bitten DEF Interval
    <3>5. Len(h) \in Nat /\ Len(s.holes) \in Nat
      BY <2>1, <3>4, HoleFacts
    <3>6. y \in Fates /\ (b < SwapBase => y = "ok") /\ (~(b < SwapBase) => y = "stray")
      BY DEF Fates
    <3> HIDE DEF h, y
    <3>a. Taken(s, t, h, y, s.swapOn)
      BY <2>1, <3>4, <3>6, SetHolesFate
    <3> HIDE DEF t, b
    <3>7. /\ t \in State /\ t.holes = h /\ t.proc = s.proc /\ t.queue = s.queue
          /\ t.fate = y /\ t.swapOn = s.swapOn
      BY <3>a DEF Taken
    <3>8. a.m = t /\ a.base = b
      BY <3>2
    <3>9. CASE b < SwapBase
      <4>1. Split(FreeIn(s.holes), MemOf(s.proc), {}, Space(e))
        BY <2>2 DEF Whole
      <4>2. Split(FreeIn(h), MemOf(s.proc), Interval(b, n), Space(e))
        BY <3>4, <4>1, SplitTake
      <4>3. /\ e \in Nat /\ SwapBase <= e /\ Len(s.holes) <= NrProcs + 2
            /\ SwapBase < e => s.swapOn
        BY <2>2 DEF Whole
      <4>4. Len(h) <= NrProcs + 2
        BY <3>4, <3>5, <4>3, Sizing
      <4>5. Whole(t, e, Interval(b, n))
        BY <3>4, <3>6, <3>7, <3>9, <4>2, <4>3, <4>4 DEF Whole
      <4>6. Kept(m, t)
        BY <2>0, <3>7 DEF Kept
      <4>7. Got(m, a, n, R)
        BY <2>1, <3>3, <3>7, <3>8, <3>9, <4>5, <4>6 DEF Got
      <4> QED
        BY <4>7 DEF Allocated, a
    <3>10. CASE ~(b < SwapBase)
      <4>1. Bad(t)
        BY <3>4, <3>6, <3>7, <3>10 DEF Bad
      <4> QED
        BY <3>3, <3>8, <4>1 DEF Allocated, a
    <3> QED
      BY <3>9, <3>10
  <2> QED
    BY <2>4, <2>5, <2>6
<1> QED
  BY <1>1, <1>2

LEMMA AllocStep ==
    ASSUME NEW m, NEW R, Sane(m, R), NEW n \in Nat \ {0}
    PROVE  Allocated(m, AllocMem(m, n), n, R)
BY SwapToFitStep, TakeFitStep DEF AllocMem

-----------------------------------------------------------------------------
(* The queue of processes to be swapped in.                                *)

LEMMA QueueFacts ==
    ASSUME NEW q, QueueList(q)
    PROVE  Len(q) \in Nat /\ \A i \in 1..Len(q) : q[i] \in Procs
BY DEF QueueList

LEMMA QueueAppended ==
    ASSUME NEW q, QueueList(q), NEW p \in Procs
    PROVE  /\ QueueList(Append(q, p)) /\ Len(Append(q, p)) = Len(q) + 1
           /\ \A i \in 1..Len(q) + 1 : Append(q, p)[i] = IF i <= Len(q) THEN q[i] ELSE p
<1>1. /\ QueueList(Append(q, p)) /\ Len(Append(q, p)) = Len(q) + 1
      /\ \A i \in 1..Len(q) : Append(q, p)[i] = q[i]
      /\ Append(q, p)[Len(q) + 1] = p
  BY AppendProperties DEF QueueList
<1>2. Len(q) \in Nat
  BY QueueFacts
<1> QED
  BY <1>1, <1>2

LEMMA QueueRemoved ==
    ASSUME NEW q, QueueList(q), NEW i \in 1..Len(q)
    PROVE  /\ QueueList(RemoveAt(q, i)) /\ Len(RemoveAt(q, i)) = Len(q) - 1
           /\ \A j \in 1..Len(q) - 1 : RemoveAt(q, i)[j] = IF j < i THEN q[j] ELSE q[j + 1]
BY Removed DEF QueueList

LEMMA RemoveFirstIs ==
    ASSUME NEW q, QueueList(q), NEW p
    PROVE  \/ /\ \A i \in 1..Len(q) : q[i] # p
              /\ RemoveFirst(q, p) = q
           \/ \E i \in 1..Len(q) : q[i] = p /\ RemoveFirst(q, p) = RemoveAt(q, i)
<1> DEFINE I == {i \in 1..Len(q) : q[i] = p}
<1>0. Len(q) \in Nat
  BY QueueFacts
<1>1. CASE I = {}
  <2>1. \A i \in 1..Len(q) : q[i] # p
    BY <1>1
  <2> QED
    BY <2>1 DEF RemoveFirst
<1>2. CASE I # {}
  <2>1. \E i \in 1..Len(q) : q[i] = p
    BY <1>2
  <2>2. RemoveFirst(q, p) = RemoveAt(q, SelectInSeq(q, LAMBDA v : v = p))
    BY <2>1 DEF RemoveFirst
  <2>3. SelectInSeq(q, LAMBDA v : v = p) = Min(I)
    BY <1>2 DEF SelectInSeq
  <2>4. Min(I) \in I
    <3>1. \E i \in I : \A j \in I : i <= j
      <4>1. I \in SUBSET Nat
        BY <1>0
      <4> HIDE DEF I
      <4> QED
        BY <1>2, <4>1, Least
    <3> HIDE DEF I
    <3> QED
      BY <3>1 DEF Min
  <2>5. Min(I) \in 1..Len(q) /\ q[Min(I)] = p
    BY <2>4
  <2> QED
    BY <2>2, <2>3, <2>5
<1> QED
  BY <1>1, <1>2

LEMMA Dequeued ==
    ASSUME NEW q, QueueList(q), NEW P, NEW N, NEW R, Queued(q, P, R), NEW p \in Procs,
           "SWAPIN" \notin N[p].flags,
           \A x \in Procs : x # p => ("SWAPIN" \in N[x].flags <=> "SWAPIN" \in P[x].flags)
    PROVE  QueueList(RemoveFirst(q, p)) /\ Queued(RemoveFirst(q, p), N, R \ {p})
<1>0. Len(q) \in Nat /\ \A i \in 1..Len(q) : q[i] \in Procs
  BY QueueFacts
<1>1. /\ \A i, j \in 1..Len(q) : i # j => q[i] # q[j]
      /\ \A x \in Procs : "SWAPIN" \in P[x].flags => \E i \in 1..Len(q) : q[i] = x
      /\ \A i \in 1..Len(q) : "SWAPIN" \in P[q[i]].flags \/ q[i] \in R
  BY DEF Queued
<1>2. CASE (\A i \in 1..Len(q) : q[i] # p) /\ RemoveFirst(q, p) = q
  <2>1. \A x \in Procs : "SWAPIN" \in N[x].flags => \E i \in 1..Len(q) : q[i] = x
    BY <1>1, <1>2
  <2>2. \A i \in 1..Len(q) : "SWAPIN" \in N[q[i]].flags \/ q[i] \in R \ {p}
    BY <1>0, <1>1, <1>2
  <2> QED
    BY <1>1, <1>2, <2>1, <2>2 DEF Queued
<1>3. ASSUME NEW i \in 1..Len(q), q[i] = p, RemoveFirst(q, p) = RemoveAt(q, i)
      PROVE  QueueList(RemoveFirst(q, p)) /\ Queued(RemoveFirst(q, p), N, R \ {p})
  <2> DEFINE r == RemoveAt(q, i)
  <2>1. /\ QueueList(r) /\ Len(r) = Len(q) - 1
        /\ \A j \in 1..Len(q) - 1 : r[j] = IF j < i THEN q[j] ELSE q[j + 1]
    BY QueueRemoved
  <2> HIDE DEF r
  <2>2. ASSUME NEW j \in 1..Len(q) - 1
        PROVE  \/ j < i /\ j \in 1..Len(q) /\ r[j] = q[j] /\ j # i
               \/ ~(j < i) /\ j + 1 \in 1..Len(q) /\ r[j] = q[j + 1] /\ j + 1 # i
    BY <1>0, <2>1
  <2>3. ASSUME NEW j \in 1..Len(r), NEW k \in 1..Len(r), j # k PROVE r[j] # r[k]
    <3>0. j \in 1..Len(q) - 1 /\ k \in 1..Len(q) - 1
      BY <2>1
    <3>1. CASE j < i /\ k < i
      BY <1>1, <2>2, <2>3, <3>0, <3>1
    <3>2. CASE j < i /\ ~(k < i)
      <4>1. r[j] = q[j] /\ r[k] = q[k + 1] /\ j \in 1..Len(q) /\ k + 1 \in 1..Len(q) /\ j # k + 1
        BY <2>2, <3>0, <3>2
      <4> QED
        BY <1>1, <4>1
    <3>3. CASE ~(j < i) /\ k < i
      <4>1. r[j] = q[j + 1] /\ r[k] = q[k] /\ j + 1 \in 1..Len(q) /\ k \in 1..Len(q) /\ j + 1 # k
        BY <2>2, <3>0, <3>3
      <4> QED
        BY <1>1, <4>1
    <3>4. CASE ~(j < i) /\ ~(k < i)
      <4>1. r[j] = q[j + 1] /\ r[k] = q[k + 1] /\ j + 1 \in 1..Len(q) /\ k + 1 \in 1..Len(q)
            /\ j + 1 # k + 1
        BY <2>2, <2>3, <3>0, <3>4
      <4> QED
        BY <1>1, <4>1
    <3> QED
      BY <3>1, <3>2, <3>3, <3>4
  <2>4. ASSUME NEW x \in Procs, "SWAPIN" \in N[x].flags PROVE \E j \in 1..Len(r) : r[j] = x
    <3>1. x # p /\ "SWAPIN" \in P[x].flags
      BY <2>4
    <3>2. PICK k \in 1..Len(q) : q[k] = x
      BY <1>1, <3>1
    <3>3. k # i
      BY <1>3, <3>1, <3>2
    <3>4. CASE k < i
      <4>1. k \in 1..Len(q) - 1 /\ k \in 1..Len(r)
        BY <1>0, <2>1, <3>4
      <4>2. r[k] = q[k]
        BY <2>2, <3>4, <4>1
      <4> QED
        BY <3>2, <4>1, <4>2
    <3>5. CASE k > i
      <4>1. k - 1 \in 1..Len(q) - 1 /\ k - 1 \in 1..Len(r) /\ ~(k - 1 < i) /\ (k - 1) + 1 = k
        BY <1>0, <2>1, <3>5
      <4>2. r[k - 1] = q[(k - 1) + 1]
        BY <2>2, <4>1
      <4> QED
        BY <3>2, <4>1, <4>2
    <3> QED
      BY <3>3, <3>4, <3>5
  <2>5. ASSUME NEW j \in 1..Len(r) PROVE "SWAPIN" \in N[r[j]].flags \/ r[j] \in R \ {p}
    <3>1. PICK k \in 1..Len(q) : r[j] = q[k] /\ k # i
      <4>0. j \in 1..Len(q) - 1
        BY <2>1
      <4>1. CASE j < i
        <5>1. j \in 1..Len(q) /\ r[j] = q[j] /\ j # i
          BY <2>2, <4>0, <4>1
        <5> QED
          BY <5>1
      <4>2. CASE ~(j < i)
        <5>1. j + 1 \in 1..Len(q) /\ r[j] = q[j + 1] /\ j + 1 # i
          BY <2>2, <4>0, <4>2
        <5> QED
          BY <5>1
      <4> QED
        BY <4>1, <4>2
    <3>2. q[k] # p /\ q[k] \in Procs
      BY <1>0, <1>1, <1>3, <3>1
    <3>3. "SWAPIN" \in P[q[k]].flags \/ q[k] \in R
      BY <1>1
    <3> QED
      BY <3>1, <3>2, <3>3
  <2>6. Queued(r, N, R \ {p})
    BY <2>3, <2>4, <2>5 DEF Queued
  <2> QED
    BY <1>3, <2>1, <2>6 DEF r
<1>4. CASE \E i \in 1..Len(q) : q[i] = p /\ RemoveFirst(q, p) = RemoveAt(q, i)
  <2>1. PICK i \in 1..Len(q) : q[i] = p /\ RemoveFirst(q, p) = RemoveAt(q, i)
    BY <1>4
  <2> QED
    BY <1>3, <2>1, Zenon
<1>5. \/ (\A i \in 1..Len(q) : q[i] # p) /\ RemoveFirst(q, p) = q
      \/ \E i \in 1..Len(q) : q[i] = p /\ RemoveFirst(q, p) = RemoveAt(q, i)
  BY RemoveFirstIs, Zenon
<1> QED
  BY <1>2, <1>4, <1>5

LEMMA Enqueued ==
    ASSUME NEW q, QueueList(q), NEW P, NEW N, NEW R, Queued(q, P, R), NEW p \in Procs, p \notin R,
           "SWAPIN" \notin P[p].flags, "SWAPIN" \in N[p].flags,
           \A x \in Procs : x # p => ("SWAPIN" \in N[x].flags <=> "SWAPIN" \in P[x].flags)
    PROVE  QueueList(Append(q, p)) /\ Queued(Append(q, p), N, R)
<1> DEFINE r == Append(q, p)
<1>0. Len(q) \in Nat /\ \A i \in 1..Len(q) : q[i] \in Procs
  BY QueueFacts
<1>1. /\ \A i, j \in 1..Len(q) : i # j => q[i] # q[j]
      /\ \A x \in Procs : "SWAPIN" \in P[x].flags => \E i \in 1..Len(q) : q[i] = x
      /\ \A i \in 1..Len(q) : "SWAPIN" \in P[q[i]].flags \/ q[i] \in R
  BY DEF Queued
<1>2. \A i \in 1..Len(q) : q[i] # p
  BY <1>1
<1>3. /\ QueueList(r) /\ Len(r) = Len(q) + 1
      /\ \A i \in 1..Len(q) + 1 : r[i] = IF i <= Len(q) THEN q[i] ELSE p
  BY QueueAppended
<1> HIDE DEF r
<1>4. /\ \A i \in 1..Len(q) : i \in 1..Len(r) /\ r[i] = q[i]
      /\ Len(q) + 1 \in 1..Len(r) /\ r[Len(q) + 1] = p
      /\ \A i \in 1..Len(r) : i \in 1..Len(q) \/ i = Len(q) + 1
  BY <1>0, <1>3
<1>5. ASSUME NEW i \in 1..Len(r), NEW j \in 1..Len(r), i # j PROVE r[i] # r[j]
  <2>1. CASE i \in 1..Len(q) /\ j \in 1..Len(q)
    BY <1>1, <1>4, <1>5, <2>1
  <2>2. CASE i \in 1..Len(q) /\ j = Len(q) + 1
    BY <1>2, <1>4, <2>2
  <2>3. CASE i = Len(q) + 1 /\ j \in 1..Len(q)
    BY <1>2, <1>4, <2>3
  <2> QED
    BY <1>4, <1>5, <2>1, <2>2, <2>3
<1>6. ASSUME NEW x \in Procs, "SWAPIN" \in N[x].flags PROVE \E i \in 1..Len(r) : r[i] = x
  <2>1. CASE x = p
    BY <1>4, <2>1
  <2>2. CASE x # p
    <3>1. PICK i \in 1..Len(q) : q[i] = x
      BY <1>1, <1>6, <2>2
    <3> QED
      BY <1>4, <3>1
  <2> QED
    BY <2>1, <2>2
<1>7. ASSUME NEW i \in 1..Len(r) PROVE "SWAPIN" \in N[r[i]].flags \/ r[i] \in R
  <2>1. CASE i = Len(q) + 1
    BY <1>4, <2>1
  <2>2. CASE i \in 1..Len(q)
    <3>1. r[i] = q[i] /\ q[i] \in Procs /\ q[i] # p
      BY <1>0, <1>2, <1>4, <2>2
    <3>2. "SWAPIN" \in P[q[i]].flags \/ q[i] \in R
      BY <1>1, <2>2
    <3> QED
      BY <3>1, <3>2
  <2> QED
    BY <1>4, <2>1, <2>2
<1>8. Queued(r, N, R)
  BY <1>5, <1>6, <1>7 DEF Queued
<1> QED
  BY <1>3, <1>8 DEF r

LEMMA QueuedStays ==
    ASSUME NEW q, NEW P, NEW R, Queued(q, P, R), NEW p, "SWAPIN" \in P[p].flags
    PROVE  Queued(q, P, R \ {p})
BY DEF Queued

LEMMA QueuedMore ==
    ASSUME NEW q, NEW P, NEW R, NEW T, R \subseteq T, Queued(q, P, R)
    PROVE  Queued(q, P, T)
BY DEF Queued

-----------------------------------------------------------------------------
(* swap_inqueue(), setreply(), check_pending() and swap_in().              *)

\* One process has other flags, and the queue may differ.
Marked(m, r, p, f) ==
    /\ r \in State /\ r.holes = m.holes /\ r.fate = m.fate /\ r.swapOn = m.swapOn
    /\ r.proc[p].flags = f /\ r.proc[p].base = m.proc[p].base /\ r.proc[p].len = m.proc[p].len
    /\ \A q \in Procs : q # p => r.proc[q] = m.proc[q]

LEMMA MarkedFlags ==
    ASSUME NEW m \in State, NEW p \in Procs, NEW on \in SUBSET Flags, NEW off
    PROVE  /\ Marked(m, With(m, p, on, off), p, (m.proc[p].flags \cup on) \ off)
           /\ With(m, p, on, off).queue = m.queue
<1> DEFINE r == With(m, p, on, off)
           f == (m.proc[p].flags \cup on) \ off
<1>1. Changed(m, r, m.holes, p, f, m.proc[p].base, m.proc[p].len)
  BY SetFlags
<1> HIDE DEF r, f
<1>2. Marked(m, r, p, f) /\ r.queue = m.queue
  BY <1>1 DEF Changed, Marked
<1> QED
  BY <1>2 DEF r, f

LEMMA MarkedTwice ==
    ASSUME NEW m, NEW s, NEW r, NEW p \in Procs, NEW f, NEW g, Marked(m, s, p, f), Marked(s, r, p, g)
    PROVE  Marked(m, r, p, g)
BY DEF Marked

LEMMA MarkedWhole ==
    ASSUME NEW m, NEW r, NEW p \in Procs, NEW f, Marked(m, r, p, f), NEW e, NEW X, Whole(m, e, X),
           "IN_USE" \in f <=> "IN_USE" \in m.proc[p].flags
    PROVE  Whole(r, e, X)
<1>1. /\ r.holes = m.holes /\ r.fate = m.fate /\ r.swapOn = m.swapOn
      /\ \A q \in Procs : /\ r.proc[q].base = m.proc[q].base /\ r.proc[q].len = m.proc[q].len
                          /\ "IN_USE" \in r.proc[q].flags <=> "IN_USE" \in m.proc[q].flags
  BY DEF Marked
<1> QED
  BY <1>1, WholeFlags

LEMMA MarkedBad ==
    ASSUME NEW m, NEW r, NEW p, NEW f, Marked(m, r, p, f), Bad(m)
    PROVE  Bad(r)
BY DEF Marked, Bad

\* The tables, when one entry changes.
LEMMA PlacedOne ==
    ASSUME NEW P, Placed(P), NEW N, NEW p \in Procs, \A q \in Procs : q # p => N[q] = P[q],
           N[p].flags # {} => "IN_USE" \in N[p].flags,
           "IN_USE" \in N[p].flags =>
               N[p].len > 0 /\ ("ONSWAP" \in N[p].flags <=> SwapBase <= N[p].base)
    PROVE  Placed(N)
<1> SUFFICES ASSUME NEW q \in Procs
             PROVE  /\ N[q].flags # {} => "IN_USE" \in N[q].flags
                    /\ "IN_USE" \in N[q].flags =>
                           N[q].len > 0 /\ ("ONSWAP" \in N[q].flags <=> SwapBase <= N[q].base)
  BY Zenon DEF Placed
<1>1. CASE q = p
  BY <1>1
<1>2. CASE q # p
  <2>1. N[q] = P[q]
    BY <1>2
  <2> QED
    BY <2>1 DEF Placed
<1> QED
  BY <1>1, <1>2

LEMMA WantedOne ==
    ASSUME NEW P, Wanted(P), NEW N, NEW p \in Procs, \A q \in Procs : q # p => N[q] = P[q],
           "SWAPIN" \in N[p].flags => "ONSWAP" \in N[p].flags,
           "PENDING" \in N[p].flags => "SWAPIN" \in N[p].flags,
           "REPLY" \in N[p].flags /\ "ONSWAP" \in N[p].flags => "SWAPIN" \in N[p].flags
    PROVE  Wanted(N)
<1> SUFFICES ASSUME NEW q \in Procs
             PROVE  /\ "SWAPIN" \in N[q].flags => "ONSWAP" \in N[q].flags
                    /\ "PENDING" \in N[q].flags => "SWAPIN" \in N[q].flags
                    /\ "REPLY" \in N[q].flags /\ "ONSWAP" \in N[q].flags => "SWAPIN" \in N[q].flags
  BY Zenon DEF Wanted
<1>1. CASE q = p
  BY <1>1
<1>2. CASE q # p
  <2>1. N[q] = P[q]
    BY <1>2
  <2> QED
    BY <2>1 DEF Wanted
<1> QED
  BY <1>1, <1>2

LEMMA SwapInqueueStep ==
    ASSUME NEW m \in State, NEW p \in Procs, NEW R, Queued(m.queue, m.proc, R), p \notin R
    PROVE  LET r == SwapInqueue(m, p)
           IN  Marked(m, r, p, m.proc[p].flags \cup {"SWAPIN"}) /\ Queued(r.queue, r.proc, R)
<1> DEFINE f == m.proc[p].flags
<1>0. QueueList(m.queue) /\ f \in SUBSET Flags /\ {"SWAPIN"} \in SUBSET Flags
  BY StateFacts, ProcFacts DEF Flags
<1>1. CASE "SWAPIN" \in f
  <2>1. SwapInqueue(m, p) = m
    BY <1>1 DEF SwapInqueue, Has
  <2>2. f \cup {"SWAPIN"} = f
    BY <1>1
  <2>3. Marked(m, m, p, f)
    BY DEF Marked
  <2> QED
    BY <2>1, <2>2, <2>3
<1>2. CASE "SWAPIN" \notin f
  <2> DEFINE q == Append(m.queue, p)
             s == [m EXCEPT !.queue = q]
             r == With(s, p, {"SWAPIN"}, {})
  <2>1. SwapInqueue(m, p) = r
    BY <1>2 DEF SwapInqueue, Has
  <2>2. QueueList(q)
    BY <1>0, QueueAppended
  <2> HIDE DEF q
  <2>3. /\ s \in State /\ s.holes = m.holes /\ s.proc = m.proc /\ s.queue = q
        /\ s.fate = m.fate /\ s.swapOn = m.swapOn
    BY <2>2, SetQueue
  <2> HIDE DEF s
  <2>4. Marked(s, r, p, (s.proc[p].flags \cup {"SWAPIN"}) \ {}) /\ r.queue = s.queue
    BY <1>0, <2>3, MarkedFlags, ZenonT(60)
  <2> HIDE DEF r
  <2>5. (s.proc[p].flags \cup {"SWAPIN"}) \ {} = f \cup {"SWAPIN"}
    BY <2>3
  <2>6. Marked(m, r, p, f \cup {"SWAPIN"})
    BY <2>3, <2>4, <2>5 DEF Marked
  <2>7. Queued(q, r.proc, R)
    <3>1. /\ "SWAPIN" \in r.proc[p].flags
          /\ \A x \in Procs : x # p =>
                 ("SWAPIN" \in r.proc[x].flags <=> "SWAPIN" \in m.proc[x].flags)
      BY <2>6 DEF Marked
    <3> QED
      BY <1>0, <1>2, <3>1, Enqueued DEF q
  <2> QED
    BY <2>1, <2>3, <2>4, <2>6, <2>7
<1> QED
  BY <1>1, <1>2

LEMMA SetreplyStep ==
    ASSUME NEW m \in State, NEW p \in Procs, NEW R, Queued(m.queue, m.proc, R), p \notin R
    PROVE  LET r == Setreply(m, p)
               f == m.proc[p].flags \cup {"REPLY"}
           IN  /\ Marked(m, r, p, IF "ONSWAP" \in m.proc[p].flags THEN f \cup {"SWAPIN"} ELSE f)
               /\ Queued(r.queue, r.proc, R)
<1> DEFINE s == With(m, p, {"REPLY"}, {})
           f == m.proc[p].flags \cup {"REPLY"}
<1>0. QueueList(m.queue) /\ {"REPLY"} \in SUBSET Flags
  BY StateFacts DEF Flags
<1>1. Marked(m, s, p, f \ {}) /\ s.queue = m.queue
  BY <1>0, MarkedFlags
<1> HIDE DEF s
<1>2. Marked(m, s, p, f) /\ s.proc[p].flags = f /\ s \in State
  <2>1. f \ {} = f
    OBVIOUS
  <2> QED
    BY <1>1, <2>1 DEF Marked
<1>3. Queued(s.queue, s.proc, R)
  <2>1. \A x \in Procs : "SWAPIN" \in s.proc[x].flags <=> "SWAPIN" \in m.proc[x].flags
    BY <1>2 DEF Marked
  <2> QED
    BY <1>0, <1>1, <2>1, QueuedSame
<1>4. CASE "ONSWAP" \in m.proc[p].flags
  <2>1. Setreply(m, p) = SwapInqueue(s, p)
    BY <1>4 DEF Setreply, Has, s
  <2>2. /\ Marked(s, SwapInqueue(s, p), p, s.proc[p].flags \cup {"SWAPIN"})
        /\ Queued(SwapInqueue(s, p).queue, SwapInqueue(s, p).proc, R)
    BY <1>2, <1>3, SwapInqueueStep
  <2>3. Marked(s, SwapInqueue(s, p), p, f \cup {"SWAPIN"})
    BY <1>2, <2>2
  <2> HIDE DEF f
  <2>4. Marked(m, SwapInqueue(s, p), p, f \cup {"SWAPIN"})
    BY <1>2, <2>3, MarkedTwice
  <2> QED
    BY <1>4, <2>1, <2>2, <2>4 DEF f
<1>5. CASE "ONSWAP" \notin m.proc[p].flags
  <2>1. Setreply(m, p) = s
    BY <1>5 DEF Setreply, Has, s
  <2> QED
    BY <1>2, <1>3, <1>5, <2>1
<1> QED
  BY <1>4, <1>5

LEMMA BackStep ==
    ASSUME NEW t \in State, NEW e, Whole(t, e, {}), NEW p \in Procs, NEW P, Placed(P), Wanted(P),
           \A q \in Procs : q # p => t.proc[q] = P[q],
           "IN_USE" \in t.proc[p].flags, t.proc[p].len > 0, t.proc[p].base < SwapBase,
           NEW R, Queued(t.queue, t.proc, R)
    PROVE  Sane(Back(t, p), R \ {p})
<1> DEFINE f == t.proc[p].flags
           g == f \ {"ONSWAP", "SWAPIN"}
           u == With(t, p, {}, {"ONSWAP", "SWAPIN"})
           v == Dropped(u, p)
           w == With(v, p, {}, {"PENDING", "BLOCKED"})
           r == CheckPending(v, p)
<1>0. /\ t.fate = "ok" /\ QueueList(t.queue) /\ f \in SUBSET Flags
      /\ {} \in SUBSET Flags
      /\ t.proc[p].base \in Nat /\ ~(SwapBase <= t.proc[p].base)
  <2>1. t.proc[p].base \in Nat /\ f \in SUBSET Flags
    BY StateFacts, ProcFacts
  <2> QED
    BY <2>1, StateFacts, Sizing DEF Whole
<1>1. Back(t, p) = r
  BY <1>0 DEF Back
<1>2. Marked(t, u, p, g) /\ u.queue = t.queue
  <2>1. Marked(t, u, p, (f \cup {}) \ {"ONSWAP", "SWAPIN"}) /\ u.queue = t.queue
    BY <1>0, MarkedFlags
  <2>2. (f \cup {}) \ {"ONSWAP", "SWAPIN"} = g
    OBVIOUS
  <2> HIDE DEF u
  <2> QED
    BY <2>1, <2>2
<1> HIDE DEF u
<1>3. /\ QueueList(RemoveFirst(u.queue, p))
      /\ Queued(RemoveFirst(u.queue, p), u.proc, R \ {p})
  <2>1. /\ "SWAPIN" \notin u.proc[p].flags
        /\ \A x \in Procs : x # p =>
               ("SWAPIN" \in u.proc[x].flags <=> "SWAPIN" \in t.proc[x].flags)
    BY <1>2 DEF Marked
  <2> QED
    BY <1>0, <1>2, <2>1, Dequeued
<1>4. Marked(t, v, p, g) /\ Queued(v.queue, v.proc, R \ {p})
  <2> DEFINE q == RemoveFirst(u.queue, p)
  <2>1. v = [u EXCEPT !.queue = q] /\ u \in State
    BY <1>2 DEF Dropped, Marked
  <2> HIDE DEF q
  <2>2. /\ [u EXCEPT !.queue = q] \in State /\ [u EXCEPT !.queue = q].holes = u.holes
        /\ [u EXCEPT !.queue = q].proc = u.proc /\ [u EXCEPT !.queue = q].queue = q
        /\ [u EXCEPT !.queue = q].fate = u.fate /\ [u EXCEPT !.queue = q].swapOn = u.swapOn
    BY <1>3, <2>1, SetQueue DEF q
  <2> HIDE DEF v
  <2>3. /\ v \in State /\ v.holes = u.holes /\ v.proc = u.proc /\ v.queue = q
        /\ v.fate = u.fate /\ v.swapOn = u.swapOn
    BY <2>1, <2>2
  <2>4. Marked(t, v, p, g)
    BY <1>2, <2>3 DEF Marked
  <2> QED
    BY <1>3, <2>3, <2>4 DEF q
<1> HIDE DEF v
<1>5. v \in State /\ v.proc[p].flags = g /\ g \in SUBSET Flags
  BY <1>0, <1>4 DEF Marked
<1>6. ASSUME NEW x, NEW h, Marked(t, x, p, h), Queued(x.queue, x.proc, R \ {p}),
             "IN_USE" \in h, "ONSWAP" \notin h, "SWAPIN" \notin h, "PENDING" \notin h
      PROVE  Sane(x, R \ {p})
  <2>1. /\ x \in State /\ x.proc[p].flags = h
        /\ x.proc[p].base = t.proc[p].base /\ x.proc[p].len = t.proc[p].len
        /\ \A q \in Procs : q # p => x.proc[q] = P[q]
    BY <1>6 DEF Marked
  <2>2. Whole(x, e, {})
    BY <1>6, MarkedWhole
  <2>3. Placed(x.proc)
    BY <1>0, <1>6, <2>1, PlacedOne
  <2>4. Wanted(x.proc)
    BY <1>6, <2>1, WantedOne
  <2> QED
    BY <1>6, <2>1, <2>2, <2>3, <2>4 DEF Sane
<1>7. CASE "PENDING" \in f
  <2> DEFINE h == g \ {"PENDING", "BLOCKED"}
             k == h \cup {"REPLY"}
  <2>1. Marked(v, w, p, h) /\ w.queue = v.queue
    <3>1. Marked(v, w, p, (v.proc[p].flags \cup {}) \ {"PENDING", "BLOCKED"}) /\ w.queue = v.queue
      BY <1>0, <1>5, MarkedFlags
    <3>2. (v.proc[p].flags \cup {}) \ {"PENDING", "BLOCKED"} = h
      BY <1>5
    <3> HIDE DEF w
    <3> QED
      BY <3>1, <3>2
  <2>2. r = Setreply(w, p)
    BY <1>5, <1>7 DEF CheckPending, Has
  <2> HIDE DEF w
  <2>3. w \in State /\ w.proc[p].flags = h /\ QueueList(v.queue)
    BY <1>5, <2>1, StateFacts DEF Marked
  <2>4. Queued(w.queue, w.proc, R \ {p})
    <3>1. \A x \in Procs : "SWAPIN" \in w.proc[x].flags <=> "SWAPIN" \in v.proc[x].flags
      BY <1>5, <2>1 DEF Marked
    <3> QED
      BY <1>4, <2>1, <2>3, <3>1, QueuedSame
  <2>5. "ONSWAP" \notin w.proc[p].flags
    BY <2>3
  <2>6. Marked(w, r, p, w.proc[p].flags \cup {"REPLY"}) /\ Queued(r.queue, r.proc, R \ {p})
    <3>1. p \notin R \ {p}
      OBVIOUS
    <3> HIDE DEF r
    <3> QED
      BY <2>2, <2>3, <2>4, <2>5, <3>1, SetreplyStep
  <2> HIDE DEF r
  <2>7. Marked(w, r, p, k)
    BY <2>3, <2>6
  <2>8. Marked(t, r, p, k)
    <3> HIDE DEF h, k, g
    <3> QED
      BY <1>4, <2>1, <2>7, MarkedTwice
  <2>9. "IN_USE" \in k /\ "ONSWAP" \notin k /\ "SWAPIN" \notin k /\ "PENDING" \notin k
    OBVIOUS
  <2> HIDE DEF k
  <2> QED
    BY <1>1, <1>6, <2>6, <2>8, <2>9
<1>8. CASE "PENDING" \notin f
  <2>1. r = v
    BY <1>5, <1>8 DEF CheckPending, Has
  <2>2. "IN_USE" \in g /\ "ONSWAP" \notin g /\ "SWAPIN" \notin g /\ "PENDING" \notin g
    BY <1>8
  <2> HIDE DEF g, r
  <2> QED
    BY <1>1, <1>4, <1>6, <2>1, <2>2
<1> QED
  BY <1>7, <1>8

LEMMA MoveInStep ==
    ASSUME NEW m, NEW R, Sane(m, R), NEW p \in Procs, "SWAPIN" \in m.proc[p].flags,
           NEW a, Allocated(m, a, m.proc[p].len, R)
    PROVE  Fine(MoveIn(a, p), R \ {p})
<1> DEFINE n == m.proc[p].len
           f == m.proc[p].flags
<1>0. /\ m \in State /\ n \in Nat \ {0} /\ "ONSWAP" \in f /\ "IN_USE" \in f
      /\ n > 0 /\ NoMem \notin Nat
  <2>1. m \in State /\ Placed(m.proc) /\ Wanted(m.proc)
    BY DEF Sane
  <2>2. n \in Nat
    BY <2>1, StateFacts, ProcFacts
  <2>3. "ONSWAP" \in f
    BY <2>1 DEF Wanted
  <2>4. "IN_USE" \in f
    BY <2>1, <2>3 DEF Placed
  <2>5. n > 0
    BY <2>1, <2>4 DEF Placed
  <2> QED
    BY <2>1, <2>2, <2>3, <2>4, <2>5 DEF NoMem
<1>1. CASE Bad(a.m)
  BY <1>1 DEF MoveIn, Bad, Fine
<1>2. CASE a.base = NoMem /\ Sane(a.m, R) /\ Kept(m, a.m)
  <2>1. MoveIn(a, p) = a.m
    BY <1>2 DEF MoveIn
  <2>2. a.m.proc[p] = m.proc[p]
    BY <1>0, <1>2 DEF Kept
  <2>3. Queued(a.m.queue, a.m.proc, R \ {p})
    <3>1. "SWAPIN" \in a.m.proc[p].flags /\ Queued(a.m.queue, a.m.proc, R)
      BY <1>2, <2>2 DEF Sane
    <3> QED
      BY <3>1, QueuedStays
  <2>4. Sane(a.m, R \ {p})
    BY <1>2, <2>3 DEF Sane
  <2> QED
    BY <2>1, <2>4 DEF Fine
<1>3. CASE Got(m, a, n, R)
  <2> DEFINE s == a.m
             x == [s EXCEPT !.proc[p].base = a.base]
             t == FreeMem(x, s.proc[p].base, s.proc[p].len)
  <2>1. /\ s \in State /\ a.base \in Nat /\ a.base < SwapBase /\ Placed(s.proc) /\ Wanted(s.proc)
        /\ Queued(s.queue, s.proc, R) /\ s.proc[p] = m.proc[p]
    BY <1>0, <1>3 DEF Got, Kept
  <2>2. PICK e : Whole(s, e, Interval(a.base, n))
    BY <1>3 DEF Got
  <2>3. s.fate = "ok" /\ a.base # NoMem
    BY <1>0, <2>1, <2>2 DEF Whole
  <2>4. MoveIn(a, p) = Back(t, p)
    BY <2>3 DEF MoveIn
  <2> HIDE DEF s
  <2>5. Changed(s, x, s.holes, p, s.proc[p].flags, a.base, s.proc[p].len)
    BY <2>1, SetBase
  <2> HIDE DEF x
  <2>6. /\ x \in State /\ x.holes = s.holes /\ x.queue = s.queue
        /\ x.fate = s.fate /\ x.swapOn = s.swapOn
        /\ x.proc[p].flags = f /\ x.proc[p].base = a.base /\ x.proc[p].len = n
        /\ \A q \in Procs : q # p => x.proc[q] = s.proc[q]
    BY <2>1, <2>5 DEF Changed
  <2> DEFINE b == s.proc[p].base
  <2>7. b \in Nat /\ s.proc[p].len = n /\ s.proc[p].flags = f
    BY <2>1, StateFacts, ProcFacts
  <2> HIDE DEF b
  <2>8. Whole(x, e, Interval(b, n))
    <3>1. MemOf(x.proc)[p] = Interval(a.base, n) /\ MemOf(s.proc)[p] = Interval(b, n)
      <4>1. "IN_USE" \in x.proc[p].flags /\ "IN_USE" \in s.proc[p].flags
        BY <1>0, <2>6, <2>7
      <4> QED
        BY <2>6, <2>7, <4>1, Zenon DEF MemOf, b
    <3>2. \A q \in Procs : q # p => MemOf(x.proc)[q] = MemOf(s.proc)[q]
      BY <2>6, Zenon DEF MemOf
    <3>3. Split(FreeIn(s.holes), MemOf(s.proc), Interval(a.base, n), Space(e))
      BY <2>2 DEF Whole
    <3>4. Split(FreeIn(s.holes), MemOf(x.proc), Interval(b, n), Space(e))
      BY <3>1, <3>2, <3>3, SplitGive
    <3> QED
      BY <2>2, <2>6, <3>4 DEF Whole
  <2>9. t \in State /\ t.proc = x.proc /\ t.queue = x.queue /\ (Bad(t) \/ Whole(t, e, {}))
    <3>1. t = FreeMem(x, b, n)
      BY <2>7 DEF b
    <3> HIDE DEF t, n
    <3> QED
      BY <1>0, <2>6, <2>7, <2>8, <3>1, FreeMemStep
  <2> HIDE DEF t
  <2>10. CASE Bad(t)
    <3>1. Back(t, p) = t
      BY <2>10 DEF Back, Bad
    <3> QED
      BY <2>4, <2>10, <3>1 DEF Fine
  <2>11. CASE Whole(t, e, {})
    <3>1. /\ \A q \in Procs : q # p => t.proc[q] = s.proc[q]
          /\ "IN_USE" \in t.proc[p].flags /\ t.proc[p].len > 0 /\ t.proc[p].base < SwapBase
      BY <1>0, <2>1, <2>6, <2>9
    <3>2. Queued(t.queue, t.proc, R)
      <4>1. \A q \in Procs : "SWAPIN" \in t.proc[q].flags <=> "SWAPIN" \in s.proc[q].flags
        BY <2>6, <2>7, <2>9
      <4>2. QueueList(s.queue)
        BY <2>1, StateFacts
      <4> QED
        BY <2>1, <2>6, <2>9, <4>1, <4>2, QueuedSame
    <3>3. Sane(Back(t, p), R \ {p})
      BY <2>1, <2>9, <2>11, <3>1, <3>2, BackStep
    <3> QED
      BY <2>4, <3>3 DEF Fine
  <2> QED
    BY <2>9, <2>10, <2>11
<1> QED
  BY <1>1, <1>2, <1>3 DEF Allocated

LEMMA SwapInNextStep ==
    ASSUME NEW m, NEW R, Fine(m, R), NEW p \in Procs
    PROVE  Fine(SwapInNext(m, p), R \ {p})
<1>1. CASE m.fate # "ok"
  <2>1. Bad(m)
    BY <1>1 DEF Fine, Sane, Whole
  <2> QED
    BY <1>1, <2>1 DEF SwapInNext, Fine
<1>2. CASE m.fate = "ok"
  <2>1. Sane(m, R)
    BY <1>2 DEF Fine, Bad
  <2>2. m \in State /\ QueueList(m.queue) /\ Queued(m.queue, m.proc, R)
    BY <2>1, StateFacts DEF Sane
  <2>3. CASE "SWAPIN" \in m.proc[p].flags
    <3> DEFINE a == AllocMem(m, m.proc[p].len)
    <3>1. SwapInNext(m, p) = MoveIn(a, p)
      BY <1>2, <2>3 DEF SwapInNext, Has
    <3>2. m.proc[p].len \in Nat \ {0}
      <4>1. "IN_USE" \in m.proc[p].flags
        BY <2>1, <2>3 DEF Sane, Placed
      <4>2. m.proc[p].len > 0
        BY <2>1, <4>1 DEF Sane, Placed
      <4>3. m.proc[p].len \in Nat
        BY <2>2, StateFacts, ProcFacts
      <4> QED
        BY <4>2, <4>3
    <3>3. Allocated(m, a, m.proc[p].len, R)
      BY <2>1, <3>2, AllocStep
    <3> HIDE DEF a
    <3> QED
      BY <2>1, <2>3, <3>1, <3>3, MoveInStep
  <2>4. CASE "SWAPIN" \notin m.proc[p].flags
    <3> DEFINE q == RemoveFirst(m.queue, p)
               r == [m EXCEPT !.queue = q]
    <3>1. SwapInNext(m, p) = r
      BY <1>2, <2>4 DEF SwapInNext, Has, Dropped
    <3>2. QueueList(q) /\ Queued(q, m.proc, R \ {p})
      BY <2>2, <2>4, Dequeued
    <3> HIDE DEF q
    <3>3. /\ r \in State /\ r.holes = m.holes /\ r.proc = m.proc /\ r.queue = q
          /\ r.fate = m.fate /\ r.swapOn = m.swapOn
      BY <2>2, <3>2, SetQueue
    <3> HIDE DEF r
    <3>4. PICK e : Whole(m, e, {})
      BY <2>1 DEF Sane
    <3>5. Whole(r, e, {})
      BY <3>3, <3>4 DEF Whole
    <3>6. Sane(r, R \ {p})
      BY <2>1, <3>2, <3>3, <3>5 DEF Sane
    <3> QED
      BY <3>1, <3>6 DEF Fine
  <2> QED
    BY <2>3, <2>4
<1> QED
  BY <1>1, <1>2

LEMMA FineMore ==
    ASSUME NEW m, NEW R, NEW T, R \subseteq T, Fine(m, R)
    PROVE  Fine(m, T)
BY QueuedMore DEF Fine, Sane

LEMMA SwapInStep ==
    ASSUME NEW m, NEW R, Fine(m, R)
    PROVE  Fine(SwapIn(m), {})
<1> DEFINE q == m.queue
           N == Len(q)
           Is(g) == g = [k \in 0..N |-> IF k = 0 THEN m ELSE SwapInNext(g[k - 1], q[k])]
           after == CHOOSE g : Is(g)
           Rest(k) == {q[j] : j \in (k + 1)..N}
           S(k) == {s \in State : Fine(s, Rest(k))}
           SS == [k \in 0..N |-> S(k)]
           G == [k \in 1..N |-> [s \in S(k - 1) |-> SwapInNext(s, q[k])]]
<1>0. m \in State /\ QueueList(q) /\ N \in Nat /\ \A j \in 1..N : q[j] \in Procs
  <2>1. m \in State
    BY DEF Fine, Bad, Sane
  <2> QED
    BY <2>1, StateFacts, QueueFacts
<1>1. SwapIn(m) = after[N]
  BY DEF SwapIn
<1> HIDE DEF N, q
<1>2. m \in S(0)
  <2>1. CASE Bad(m)
    BY <1>0, <2>1 DEF Fine
  <2>2. CASE Sane(m, R)
    <3>1. \A i \in 1..N : q[i] \in Rest(0)
      BY <1>0
    <3>2. Queued(q, m.proc, Rest(0))
      <4>1. Queued(q, m.proc, R)
        BY <2>2 DEF Sane, q
      <4> HIDE DEF Rest
      <4> QED
        BY <3>1, <4>1 DEF Queued, N
    <3> HIDE DEF Rest
    <3>3. Sane(m, Rest(0))
      BY <2>2, <3>2 DEF Sane, q
    <3> QED
      BY <1>0, <3>3 DEF Fine
  <2> QED
    BY <2>1, <2>2 DEF Fine
<1>3. ASSUME NEW k \in 1..N, NEW s \in S(k - 1) PROVE SwapInNext(s, q[k]) \in S(k)
  <2>1. Fine(s, Rest(k - 1)) /\ q[k] \in Procs
    BY <1>0
  <2>2. Rest(k - 1) \ {q[k]} \subseteq Rest(k)
    <3> SUFFICES ASSUME NEW j \in ((k - 1) + 1)..N, q[j] # q[k] PROVE j \in (k + 1)..N
      OBVIOUS
    <3>1. j # k
      OBVIOUS
    <3> QED
      BY <1>0, <3>1
  <2> HIDE DEF Rest
  <2>3. Fine(SwapInNext(s, q[k]), Rest(k - 1) \ {q[k]})
    BY <2>1, SwapInNextStep
  <2>4. Fine(SwapInNext(s, q[k]), Rest(k))
    BY <2>2, <2>3, FineMore
  <2> QED
    BY <2>4 DEF Fine, Bad, Sane
<1>4. Rest(N) = {}
  BY <1>0
<1> HIDE DEF Rest, S
<1>5. m \in SS[0] /\ \A k \in 1..N : \A s \in SS[k - 1] : G[k][s] \in SS[k]
  <2>1. 0 \in 0..N /\ \A k \in 1..N : k \in 0..N /\ k - 1 \in 0..N
    BY <1>0
  <2> QED
    BY <1>2, <1>3, <2>1
<1>6. PICK g : IsLoop(g, N, m, G) /\ \A k \in 0..N : g[k] \in SS[k]
  <2> HIDE DEF G, SS
  <2> QED
    BY <1>0, <1>5, Loop
<1>7. \A k \in 0..N : g[k] \in S(k) /\ g[k] = IF k = 0 THEN m ELSE G[k][g[k - 1]]
  <2> HIDE DEF G
  <2> QED
    BY <1>6, Zenon DEF IsLoop
<1>8. Is(g)
  <2>1. ASSUME NEW k \in 0..N
        PROVE  g[k] = IF k = 0 THEN m ELSE SwapInNext(g[k - 1], q[k])
    <3>1. CASE k = 0
      BY <1>7, <3>1
    <3>2. CASE k # 0
      <4>1. k \in 1..N /\ k - 1 \in 0..N
        BY <1>0, <3>2
      <4>2. G[k][g[k - 1]] = SwapInNext(g[k - 1], q[k])
        BY <1>7, <4>1
      <4> QED
        BY <1>7, <3>2, <4>2
    <3> QED
      BY <3>1, <3>2
  <2>2. g = [k \in 0..N |-> g[k]]
    BY <1>6 DEF IsLoop
  <2> QED
    BY <2>1, <2>2
<1> HIDE DEF G, SS
<1>9. Is(after)
  <2> HIDE DEF Is
  <2> QED
    BY <1>8
<1> HIDE DEF after
<1>10. after[N] \in S(N)
  <2> DEFINE H == {k \in 0..N : after[k] \in S(k)}
  <2>0. \A k \in 0..N : after[k] = IF k = 0 THEN m ELSE SwapInNext(after[k - 1], q[k])
    BY <1>9, Zenon
  <2>1. 0 \in H
    BY <1>0, <1>2, <2>0
  <2>2. ASSUME NEW k \in 1..N, k - 1 \in H PROVE k \in H
    <3>1. after[k - 1] \in S(k - 1) /\ k \in 0..N /\ k # 0
      BY <2>2
    <3> QED
      BY <1>3, <2>0, <3>1
  <2> HIDE DEF H
  <2>3. \A k \in 0..N : k \in H
    BY <1>0, <2>1, <2>2, LoopHolds
  <2> QED
    BY <1>0, <2>3 DEF H
<1>11. Fine(after[N], Rest(N))
  BY <1>10 DEF S
<1> QED
  BY <1>1, <1>4, <1>11

-----------------------------------------------------------------------------
(* A turn of the main loop.                                                *)

\* After the replies are out.
Final(m) ==
    /\ Fine(m, {})
    /\ m.fate = "ok" =>
           \A p \in Procs : "REPLY" \in m.proc[p].flags => "SWAPIN" \in m.proc[p].flags

LEMMA SendRepliesStep ==
    ASSUME NEW m, Fine(m, {})
    PROVE  Final(SendReplies(m))
<1>1. CASE m.fate # "ok"
  BY <1>1 DEF SendReplies, Final
<1>2. CASE m.fate = "ok"
  <2> DEFINE P == m.proc
             N == [p \in Procs |-> IF "ONSWAP" \in P[p].flags THEN P[p]
                                   ELSE [P[p] EXCEPT !.flags = @ \ {"REPLY"}]]
             r == [m EXCEPT !.proc = N]
  <2>1. Sane(m, {})
    BY <1>2 DEF Fine, Bad
  <2>2. m \in State /\ ProcTable(P) /\ QueueList(m.queue)
    BY <2>1, StateFacts DEF Sane
  <2>3. ASSUME NEW p \in Procs
        PROVE  /\ N[p] \in ProcType /\ N[p].base = P[p].base /\ N[p].len = P[p].len
               /\ N[p].flags = IF "ONSWAP" \in P[p].flags THEN P[p].flags
                               ELSE P[p].flags \ {"REPLY"}
    <3>1. P[p] \in ProcType
      BY <2>2, ProcFacts
    <3> HIDE DEF P
    <3> QED
      BY <3>1 DEF ProcType
  <2>4. SendReplies(m) = r
    BY <1>2 DEF SendReplies, Has
  <2>5. ProcTable(N)
    BY <2>3 DEF ProcTable
  <2> HIDE DEF N, P
  <2>6. /\ r \in State /\ r.holes = m.holes /\ r.proc = N /\ r.queue = m.queue
        /\ r.fate = m.fate /\ r.swapOn = m.swapOn
    BY <2>2, <2>5, SetProc
  <2> HIDE DEF r
  <2>7. PICK e : Whole(m, e, {})
    BY <2>1 DEF Sane
  <2>8. Whole(r, e, {})
    <3>1. \A p \in Procs : /\ r.proc[p].base = m.proc[p].base /\ r.proc[p].len = m.proc[p].len
                           /\ "IN_USE" \in r.proc[p].flags <=> "IN_USE" \in m.proc[p].flags
      BY <2>3, <2>6 DEF P
    <3> QED
      BY <2>6, <2>7, <3>1, WholeFlags
  <2>9. Placed(r.proc)
    <3> SUFFICES ASSUME NEW p \in Procs
                 PROVE  /\ N[p].flags # {} => "IN_USE" \in N[p].flags
                        /\ "IN_USE" \in N[p].flags =>
                               N[p].len > 0 /\ ("ONSWAP" \in N[p].flags <=> SwapBase <= N[p].base)
      BY <2>6, Zenon DEF Placed
    <3>1. /\ P[p].flags # {} => "IN_USE" \in P[p].flags
          /\ "IN_USE" \in P[p].flags =>
                 P[p].len > 0 /\ ("ONSWAP" \in P[p].flags <=> SwapBase <= P[p].base)
      BY <2>1 DEF Sane, Placed, P
    <3>2. /\ N[p].base = P[p].base /\ N[p].len = P[p].len
          /\ "IN_USE" \in N[p].flags <=> "IN_USE" \in P[p].flags
          /\ "ONSWAP" \in N[p].flags <=> "ONSWAP" \in P[p].flags
          /\ N[p].flags # {} => P[p].flags # {}
      BY <2>3
    <3> QED
      BY <3>1, <3>2
  <2>10. \A p \in Procs :
             /\ "SWAPIN" \in N[p].flags <=> "SWAPIN" \in m.proc[p].flags
             /\ "ONSWAP" \in N[p].flags <=> "ONSWAP" \in m.proc[p].flags
             /\ "PENDING" \in N[p].flags <=> "PENDING" \in m.proc[p].flags
             /\ "REPLY" \in N[p].flags => "REPLY" \in m.proc[p].flags /\ "ONSWAP" \in m.proc[p].flags
    BY <2>3 DEF P
  <2>11. Wanted(r.proc) /\ \A p \in Procs : "REPLY" \in N[p].flags => "SWAPIN" \in N[p].flags
    <3>1. Wanted(m.proc)
      BY <2>1 DEF Sane
    <3> QED
      BY <2>6, <2>10, <3>1 DEF Wanted
  <2>12. Queued(r.queue, r.proc, {})
    <3>1. Queued(m.queue, m.proc, {})
      BY <2>1 DEF Sane
    <3> QED
      BY <2>2, <2>6, <2>10, <3>1, QueuedSame
  <2>13. Sane(r, {})
    BY <2>6, <2>8, <2>9, <2>11, <2>12 DEF Sane
  <2> QED
    BY <2>4, <2>6, <2>11, <2>13 DEF Final, Fine
<1> QED
  BY <1>1, <1>2

LEMMA FinishStep ==
    ASSUME NEW m, NEW R, Fine(m, R)
    PROVE  Final(Finish(m))
BY SwapInStep, SendRepliesStep DEF Finish

-----------------------------------------------------------------------------
(* The handlers.                                                           *)

LEMMA Joined ==
    ASSUME NEW m \in State, NEW e, Bad(m) \/ Whole(m, e, {}),
           Placed(m.proc), Wanted(m.proc), NEW R, Queued(m.queue, m.proc, R)
    PROVE  Fine(m, R)
BY DEF Fine, Sane

LEMMA MarkedStill ==
    ASSUME NEW m, NEW r, NEW p \in Procs, NEW f, Marked(m, r, p, f), NEW e, Bad(m) \/ Whole(m, e, {}),
           "IN_USE" \in f <=> "IN_USE" \in m.proc[p].flags
    PROVE  r \in State /\ (Bad(r) \/ Whole(r, e, {}))
<1>1. r \in State
  BY DEF Marked
<1>2. CASE Bad(m)
  BY <1>1, <1>2, MarkedBad
<1>3. CASE Whole(m, e, {})
  BY <1>1, <1>3, MarkedWhole
<1> QED
  BY <1>2, <1>3

LEMMA QueueIfSwappedStep ==
    ASSUME NEW m, Sane(m, {}), NEW p \in Procs
    PROVE  Sane(QueueIfSwapped(m, p), {})
<1>1. CASE "ONSWAP" \notin m.proc[p].flags
  BY <1>1 DEF QueueIfSwapped, Has
<1>2. CASE "ONSWAP" \in m.proc[p].flags
  <2> DEFINE f == m.proc[p].flags \cup {"SWAPIN"}
             r == SwapInqueue(m, p)
  <2>1. /\ m \in State /\ Placed(m.proc) /\ Wanted(m.proc) /\ Queued(m.queue, m.proc, {})
    BY DEF Sane
  <2>2. Marked(m, r, p, f) /\ Queued(r.queue, r.proc, {})
    BY <2>1, SwapInqueueStep
  <2>3. QueueIfSwapped(m, p) = r
    BY <1>2 DEF QueueIfSwapped, Has
  <2> HIDE DEF r
  <2>4. PICK e : Whole(m, e, {})
    BY DEF Sane
  <2>5. "IN_USE" \in f /\ "IN_USE" \in m.proc[p].flags
    BY <1>2, <2>1 DEF Placed
  <2>6. Whole(r, e, {})
    <3> HIDE DEF f
    <3> QED
      BY <2>2, <2>4, <2>5, MarkedWhole
  <2>7. /\ r \in State /\ r.proc[p].flags = f
        /\ r.proc[p].base = m.proc[p].base /\ r.proc[p].len = m.proc[p].len
        /\ \A q \in Procs : q # p => r.proc[q] = m.proc[q]
    BY <2>2 DEF Marked
  <2>8. Placed(r.proc)
    <3>1. m.proc[p].len > 0 /\ SwapBase <= m.proc[p].base
      BY <1>2, <2>1, <2>5 DEF Placed
    <3>2. "IN_USE" \in r.proc[p].flags /\ "ONSWAP" \in r.proc[p].flags
      BY <1>2, <2>5, <2>7
    <3> QED
      BY <2>1, <2>7, <3>1, <3>2, PlacedOne
  <2>9. Wanted(r.proc)
    <3>1. "ONSWAP" \in r.proc[p].flags /\ "SWAPIN" \in r.proc[p].flags
      BY <1>2, <2>7
    <3> QED
      BY <2>1, <2>7, <3>1, WantedOne
  <2> QED
    BY <2>2, <2>3, <2>6, <2>7, <2>8, <2>9 DEF Sane
<1> QED
  BY <1>1, <1>2

LEMMA QueueSwappedStep ==
    ASSUME NEW m, Sane(m, {})
    PROVE  Sane(QueueSwapped(m), {})
<1> DEFINE Is(g) == g = [p \in 0..NrProcs |-> IF p = 0 THEN m ELSE QueueIfSwapped(g[p - 1], p)]
           after == CHOOSE g : Is(g)
           S == {s \in State : Sane(s, {})}
           SS == [p \in 0..NrProcs |-> S]
           G == [p \in 1..NrProcs |-> [s \in S |-> QueueIfSwapped(s, p)]]
<1>0. NrProcs \in Nat /\ 0 \in 0..NrProcs /\ m \in S
  BY Sizing DEF Sane
<1>1. \A p \in 1..NrProcs : \A s \in S : QueueIfSwapped(s, p) \in S
  BY QueueIfSwappedStep DEF Sane, Procs
<1> HIDE DEF S
<1>2. m \in SS[0] /\ \A p \in 1..NrProcs : \A s \in SS[p - 1] : G[p][s] \in SS[p]
  <2>1. \A p \in 1..NrProcs : p \in 0..NrProcs /\ p - 1 \in 0..NrProcs
    BY <1>0
  <2> QED
    BY <1>0, <1>1, <2>1
<1>3. PICK g : /\ IsLoop(g, NrProcs, m, G)
               /\ \A p \in 0..NrProcs : g[p] \in SS[p]
  <2> HIDE DEF G, SS
  <2> QED
    BY <1>0, <1>2, Loop
<1>4. \A p \in 0..NrProcs : g[p] \in S /\ g[p] = IF p = 0 THEN m ELSE G[p][g[p - 1]]
  <2> HIDE DEF G
  <2> QED
    BY <1>3, Zenon DEF IsLoop
<1>5. Is(g)
  <2>1. ASSUME NEW p \in 0..NrProcs
        PROVE  g[p] = IF p = 0 THEN m ELSE QueueIfSwapped(g[p - 1], p)
    <3>1. CASE p = 0
      BY <1>4, <3>1
    <3>2. CASE p # 0
      <4>1. p \in 1..NrProcs /\ p - 1 \in 0..NrProcs
        BY <1>0, <3>2
      <4>2. G[p][g[p - 1]] = QueueIfSwapped(g[p - 1], p)
        BY <1>4, <4>1
      <4> QED
        BY <1>4, <3>2, <4>2
    <3> QED
      BY <3>1, <3>2
  <2>2. g = [p \in 0..NrProcs |-> g[p]]
    BY <1>3 DEF IsLoop
  <2> QED
    BY <2>1, <2>2
<1> HIDE DEF G
<1>6. Is(after)
  <2> HIDE DEF Is
  <2> QED
    BY <1>5
<1>7. QueueSwapped(m) = after[NrProcs]
  BY DEF QueueSwapped
<1> HIDE DEF after
<1>8. after[NrProcs] \in S
  <2> DEFINE H == {p \in 0..NrProcs : after[p] \in S}
  <2>0. \A p \in 0..NrProcs : after[p] = IF p = 0 THEN m ELSE QueueIfSwapped(after[p - 1], p)
    BY <1>6, Zenon
  <2>1. 0 \in H
    BY <1>0, <2>0
  <2>2. ASSUME NEW p \in 1..NrProcs, p - 1 \in H PROVE p \in H
    <3>1. after[p - 1] \in S /\ p \in 0..NrProcs /\ p # 0
      BY <2>2
    <3> QED
      BY <1>1, <2>0, <3>1
  <2> HIDE DEF H
  <2>3. \A p \in 0..NrProcs : p \in H
    BY <1>0, <2>1, <2>2, LoopHolds
  <2> QED
    BY <1>0, <2>3 DEF H
<1> QED
  BY <1>7, <1>8 DEF S

\* When nobody is swapped out, the swap area is free and nobody loses memory
\* with it.
LEMMA CloseSwapStep ==
    ASSUME NEW m, Fine(m, {})
    PROVE  Fine(CloseSwap(m), {})
<1>1. CASE m.fate # "ok" \/ \E p \in Procs : Has(m, p, "ONSWAP")
  BY <1>1 DEF CloseSwap
<1>2. CASE m.fate = "ok" /\ ~(\E p \in Procs : Has(m, p, "ONSWAP"))
  <2>1. Sane(m, {})
    BY <1>2 DEF Fine, Bad
  <2>2. /\ m \in State /\ Placed(m.proc) /\ Wanted(m.proc) /\ Queued(m.queue, m.proc, {})
        /\ HoleList(m.holes) /\ ProcTable(m.proc)
    BY <2>1, StateFacts DEF Sane
  <2>3. PICK e : Whole(m, e, {})
    BY <2>1 DEF Sane
  <2>4. /\ Apart(m.holes) /\ e \in Nat /\ SwapBase <= e /\ Len(m.holes) <= NrProcs + 2
        /\ Split(FreeIn(m.holes), MemOf(m.proc), {}, Space(e))
    BY <2>3 DEF Whole
  <2>5. CASE Len(m.holes) = 1 /\ Regular(m.holes) = {}
    <3> DEFINE r == [m EXCEPT !.fate = "wild"]
    <3>1. r \in State /\ r.holes = m.holes /\ r.fate = "wild"
      BY <2>2, SetFate DEF Fates
    <3>2. CloseSwap(m) = r
      BY <1>2, <2>5 DEF CloseSwap
    <3> HIDE DEF r
    <3>3. Bad(r)
      BY <2>4, <3>1 DEF Bad
    <3> QED
      BY <3>2, <3>3 DEF Fine
  <2>6. CASE ~(Len(m.holes) = 1 /\ Regular(m.holes) = {})
    <3> DEFINE F == FreeIn(m.holes)
               O == MemOf(m.proc)
               h == DropSwapHoles(m.holes)
               r == [m EXCEPT !.holes = h, !.swapOn = FALSE]
    <3>1. CloseSwap(m) = r
      BY <1>2, <2>6 DEF CloseSwap
    <3>2. ASSUME NEW p \in Procs, NEW c \in O[p] PROVE c \in Nat /\ c < MemSize
      <4> DEFINE b == m.proc[p].base
                 n == m.proc[p].len
      <4>1. "IN_USE" \in m.proc[p].flags /\ c \in b..(b + n - 1)
        BY <3>2 DEF MemOf, Interval
      <4>2. b \in Nat /\ n \in Nat
        BY <2>2, ProcFacts
      <4>3. "ONSWAP" \notin m.proc[p].flags
        BY <1>2 DEF Has
      <4>4. ~(SwapBase <= b)
        BY <2>2, <4>1, <4>3 DEF Placed
      <4>5. MemSize \notin O[p]
        <5>1. MemSize \in Nat /\ MemSize \notin Space(e)
          BY <2>4, SpaceIs, Sizing
        <5> QED
          BY <2>4, <5>1 DEF Split
      <4>6. O[p] = b..(b + n - 1)
        BY <4>1 DEF MemOf, Interval
      <4> HIDE DEF O, b, n
      <4> QED
        BY <4>1, <4>2, <4>4, <4>5, <4>6, Sizing
    <3>3. F \subseteq Space(e)
      BY <2>4 DEF Split
    <3>4. SwapBase..(e - 1) \subseteq F
      <4> SUFFICES ASSUME NEW c \in SwapBase..(e - 1) PROVE c \in F
        OBVIOUS
      <4>1. c \in Nat /\ SwapBase <= c /\ c < e /\ ~(c < MemSize)
        BY <2>4, Sizing
      <4>2. c \in Space(e)
        BY <2>4, <4>1, SpaceIs
      <4>3. \A p \in Procs : c \notin O[p]
        BY <3>2, <4>1
      <4> HIDE DEF O, F
      <4>4. c \in F \/ c \in {} \/ \E p \in Procs : c \in O[p]
        BY <2>4, <4>2 DEF Split, O, F
      <4> QED
        BY <4>3, <4>4
    <3>5. /\ HoleList(h) /\ Apart(h) /\ Len(h) <= Len(m.holes)
          /\ FreeIn(h) = {c \in F : c < MemSize}
      BY <2>2, <2>4, <2>6, <3>3, <3>4, SwapDropped
    <3>6. Len(h) \in Nat /\ Len(m.holes) \in Nat
      BY <2>2, <3>5, HoleFacts
    <3> HIDE DEF h
    <3>a. Taken(m, r, h, m.fate, FALSE)
      BY <2>2, <3>5, SetHolesSwapOn
    <3> HIDE DEF r, F
    <3>7. /\ r \in State /\ r.holes = h /\ r.proc = m.proc /\ r.queue = m.queue
          /\ r.fate = m.fate /\ r.swapOn = FALSE
      BY <3>a DEF Taken
    <3>8. Split(FreeIn(h), O, {}, Space(SwapBase))
      <4>0. SwapBase \in Nat /\ F \subseteq Nat
        BY Sizing DEF F, FreeIn
      <4>1. \A c \in Nat : c \in Space(SwapBase) <=> c < MemSize
        BY <4>0, SpaceIs, Sizing
      <4>2. \A c : c \in Space(SwapBase) => c \in Nat
        BY Sizing DEF Space
      <4>3. \A c \in Nat : c < MemSize => c \in Space(e)
        BY <2>4, SpaceIs
      <4> HIDE DEF O
      <4>4. /\ \A c : c \in Space(e) <=> c \in F \/ \E p \in Procs : c \in O[p]
            /\ \A p \in Procs : \A c \in O[p] : c \notin F
            /\ \A p, q \in Procs : \A c \in O[p] : c \in O[q] => p = q
        BY <2>4, Zenon DEF Split, O, F
      <4>5. ASSUME NEW c
            PROVE  c \in Space(SwapBase) <=> c \in FreeIn(h) \/ c \in {} \/ \E p \in Procs : c \in O[p]
        <5>1. CASE c \in Space(SwapBase)
          <6>1. c \in Nat /\ c < MemSize
            BY <4>1, <4>2, <5>1
          <6>2. c \in F \/ \E p \in Procs : c \in O[p]
            BY <4>3, <4>4, <6>1
          <6> QED
            BY <3>5, <5>1, <6>1, <6>2
        <5>2. CASE c \in FreeIn(h)
          <6>1. c \in Nat /\ c < MemSize
            BY <3>5, <4>0, <5>2
          <6> QED
            BY <4>1, <5>2, <6>1
        <5>3. CASE \E p \in Procs : c \in O[p]
          <6>1. c \in Nat /\ c < MemSize
            BY <3>2, <5>3 DEF O
          <6> QED
            BY <4>1, <5>3, <6>1
        <5> QED
          BY <5>1, <5>2, <5>3
      <4>6. \A p \in Procs : \A c \in O[p] : c \notin FreeIn(h) /\ c \notin {}
        BY <3>5, <4>4
      <4> QED
        BY <4>4, <4>5, <4>6, Zenon DEF Split
    <3>9. Len(h) <= NrProcs + 2
      BY <2>4, <3>5, <3>6, Sizing
    <3>10. Whole(r, SwapBase, {})
      <4>1. SwapBase \in Nat /\ SwapBase <= SwapBase /\ ~(SwapBase < SwapBase)
        BY Sizing
      <4> QED
        BY <1>2, <3>5, <3>7, <3>8, <3>9, <4>1 DEF Whole
    <3>11. Sane(r, {})
      BY <2>2, <3>7, <3>10 DEF Sane
    <3> QED
      BY <3>1, <3>11 DEF Fine
  <2> QED
    BY <2>5, <2>6
<1> QED
  BY <1>1, <1>2

\* A process gets what is changing hands, and its old memory changes hands.
LEMMA Handed ==
    ASSUME NEW s, NEW x, NEW e, NEW G, Whole(s, e, G), NEW p \in Procs, NEW f, NEW b, NEW n,
           Changed(s, x, s.holes, p, f, b, n),
           G = IF "IN_USE" \in f THEN Interval(b, n) ELSE {}
    PROVE  Whole(x, e, MemOf(s.proc)[p])
<1>1. /\ x.holes = s.holes /\ x.fate = s.fate /\ x.swapOn = s.swapOn
      /\ x.proc[p].flags = f /\ x.proc[p].base = b /\ x.proc[p].len = n
      /\ \A q \in Procs : q # p => x.proc[q] = s.proc[q]
  BY DEF Changed
<1>2. MemOf(x.proc)[p] = G
  BY <1>1, Zenon DEF MemOf
<1>3. \A q \in Procs : q # p => MemOf(x.proc)[q] = MemOf(s.proc)[q]
  BY <1>1, Zenon DEF MemOf
<1>4. Split(FreeIn(s.holes), MemOf(s.proc), G, Space(e))
  BY DEF Whole
<1>5. Split(FreeIn(s.holes), MemOf(x.proc), MemOf(s.proc)[p], Space(e))
  BY <1>2, <1>3, <1>4, SplitGive
<1> QED
  BY <1>1, <1>5 DEF Whole

LEMMA EntryBad ==
    ASSUME NEW m, NEW r, NEW h, NEW p, NEW f, NEW b, NEW n, Changed(m, r, m.holes, p, f, b, n), Bad(m)
    PROVE  Bad(r)
BY DEF Changed, Bad

LEMMA ForkedStep ==
    ASSUME NEW m, Sane(m, {}), NEW p \in Procs, m.proc[p].flags = {}, NEW n \in Nat \ {0}
    PROVE  Fine(Forked(AllocMem(m, n), p, n), {})
<1> DEFINE a == AllocMem(m, n)
           s == a.m
           r == [s EXCEPT !.proc[p] = [flags |-> {"IN_USE"}, base |-> a.base, len |-> n]]
<1>1. Allocated(m, a, n, {})
  BY AllocStep
<1>2. Forked(a, p, n) = IF a.base = NoMem THEN s ELSE r
  BY DEF Forked
<1>3. ASSUME s \in State, a.base \in Nat
      PROVE  Changed(s, r, s.holes, p, {"IN_USE"}, a.base, n)
  <2>1. {"IN_USE"} \in SUBSET Flags /\ n \in Nat
    BY DEF Flags
  <2> HIDE DEF s, a
  <2> QED
    BY <1>3, <2>1, SetEntry
<1> HIDE DEF r, s, a
<1>4. CASE Bad(s) /\ a.base \in Nat \cup {NoMem}
  <2>1. CASE a.base = NoMem
    BY <1>2, <1>4, <2>1 DEF Fine, a
  <2>2. CASE a.base # NoMem
    <3>1. Changed(s, r, s.holes, p, {"IN_USE"}, a.base, n)
      BY <1>3, <1>4, <2>2 DEF Bad
    <3>2. Bad(r)
      BY <1>4, <3>1, EntryBad
    <3> QED
      BY <1>2, <2>2, <3>2 DEF Fine, a
  <2> QED
    BY <2>1, <2>2
<1>5. CASE a.base = NoMem /\ Sane(s, {})
  BY <1>2, <1>5 DEF Fine, a
<1>6. CASE Got(m, a, n, {})
  <2>1. /\ s \in State /\ a.base \in Nat /\ a.base < SwapBase /\ Placed(s.proc) /\ Wanted(s.proc)
        /\ Queued(s.queue, s.proc, {}) /\ Kept(m, s)
    BY <1>6 DEF Got, s
  <2>2. s.proc[p].flags = {}
    <3>1. "BLOCKED" \notin m.proc[p].flags
      OBVIOUS
    <3>2. s.proc[p] = m.proc[p]
      BY <2>1, <3>1, Zenon DEF Kept
    <3> QED
      BY <3>2
  <2>3. PICK e : Whole(s, e, Interval(a.base, n))
    BY <1>6 DEF Got, s
  <2>4. Changed(s, r, s.holes, p, {"IN_USE"}, a.base, n)
    BY <1>3, <2>1
  <2>5. Whole(r, e, {})
    <3>1. Interval(a.base, n) = IF "IN_USE" \in {"IN_USE"} THEN Interval(a.base, n) ELSE {}
      OBVIOUS
    <3>2. Whole(r, e, MemOf(s.proc)[p])
      BY <2>3, <2>4, <3>1, Handed
    <3>3. "IN_USE" \notin s.proc[p].flags
      BY <2>2
    <3>4. MemOf(s.proc)[p] = {}
      BY <3>3, Zenon DEF MemOf
    <3> QED
      BY <3>2, <3>4
  <2>6. /\ r \in State /\ r.queue = s.queue
        /\ r.proc[p].flags = {"IN_USE"} /\ r.proc[p].base = a.base /\ r.proc[p].len = n
        /\ \A q \in Procs : q # p => r.proc[q] = s.proc[q]
    BY <2>4 DEF Changed
  <2>7. Placed(r.proc)
    <3>1. "IN_USE" \in r.proc[p].flags /\ "ONSWAP" \notin r.proc[p].flags /\ r.proc[p].len > 0
          /\ ~(SwapBase <= r.proc[p].base)
      BY <2>1, <2>6, Sizing
    <3> QED
      BY <2>1, <2>6, <3>1, PlacedOne
  <2>8. Wanted(r.proc)
    <3>1. /\ "ONSWAP" \notin r.proc[p].flags /\ "SWAPIN" \notin r.proc[p].flags
          /\ "PENDING" \notin r.proc[p].flags
      BY <2>6
    <3> QED
      BY <2>1, <2>6, <3>1, WantedOne
  <2>9. Queued(r.queue, r.proc, {})
    <3>1. \A q \in Procs : "SWAPIN" \in r.proc[q].flags <=> "SWAPIN" \in s.proc[q].flags
      BY <2>2, <2>6
    <3>2. QueueList(s.queue)
      BY <2>1, StateFacts
    <3> QED
      BY <2>1, <2>6, <3>1, <3>2, QueuedSame
  <2>10. a.base # NoMem
    BY <2>1 DEF NoMem
  <2>11. Sane(r, {})
    BY <2>5, <2>6, <2>7, <2>8, <2>9 DEF Sane
  <2> QED
    BY <1>2, <2>10, <2>11 DEF Fine, a
<1> QED
  BY <1>1, <1>4, <1>5, <1>6 DEF Allocated, s

LEMMA ReplacedStep ==
    ASSUME NEW m, Sane(m, {}), NEW p \in Procs, m.proc[p].flags = {"IN_USE"}, NEW n \in Nat \ {0}
    PROVE  Fine(Replaced(AllocMem(m, n), p, n), {})
<1> DEFINE a == AllocMem(m, n)
           s == a.m
           b == s.proc[p].base
           l == s.proc[p].len
           x == [s EXCEPT !.proc[p].base = a.base, !.proc[p].len = n]
           r == FreeMem(x, b, l)
<1>1. Allocated(m, a, n, {})
  BY AllocStep
<1>2. Replaced(a, p, n) = IF a.base = NoMem \/ s.fate # "ok" THEN s ELSE r
  BY DEF Replaced
<1> HIDE DEF r, a
<1>3. CASE Bad(s)
  BY <1>2, <1>3 DEF Fine, Bad, a
<1>4. CASE a.base = NoMem /\ Sane(s, {})
  BY <1>2, <1>4 DEF Fine, a
<1>5. CASE Got(m, a, n, {})
  <2>1. /\ s \in State /\ a.base \in Nat /\ a.base < SwapBase /\ Placed(s.proc) /\ Wanted(s.proc)
        /\ Queued(s.queue, s.proc, {}) /\ Kept(m, s)
    BY <1>5 DEF Got
  <2>2. PICK e : Whole(s, e, Interval(a.base, n))
    BY <1>5 DEF Got
  <2> HIDE DEF s
  <2>3. s.proc[p].flags = {"IN_USE"}
    <3>1. "BLOCKED" \notin m.proc[p].flags
      OBVIOUS
    <3>2. s.proc[p] = m.proc[p]
      BY <2>1, <3>1, Zenon DEF Kept
    <3> QED
      BY <3>2
  <2>4. b \in Nat /\ l \in Nat \ {0}
    <3>1. b \in Nat /\ l \in Nat
      BY <2>1, StateFacts, ProcFacts
    <3>2. l > 0
      BY <2>1, <2>3, SMTT(60) DEF Placed
    <3> QED
      BY <3>1, <3>2
  <2> HIDE DEF b, l
  <2>5. Changed(s, x, s.holes, p, s.proc[p].flags, a.base, n)
    <3>1. n \in Nat
      OBVIOUS
    <3> QED
      BY <2>1, <3>1, SetBaseLen
  <2> HIDE DEF x
  <2>6. /\ x \in State /\ x.holes = s.holes /\ x.queue = s.queue
        /\ x.proc[p].flags = {"IN_USE"} /\ x.proc[p].base = a.base /\ x.proc[p].len = n
        /\ \A q \in Procs : q # p => x.proc[q] = s.proc[q]
    BY <2>3, <2>5 DEF Changed
  <2>7. Whole(x, e, Interval(b, l))
    <3>0. "IN_USE" \in s.proc[p].flags
      BY <2>3
    <3>1. Interval(a.base, n) = IF "IN_USE" \in s.proc[p].flags THEN Interval(a.base, n) ELSE {}
      BY <3>0
    <3>2. Whole(x, e, MemOf(s.proc)[p])
      BY <2>2, <2>5, <3>1, Handed
    <3>3. MemOf(s.proc)[p] = Interval(b, l)
      BY <3>0, Zenon DEF MemOf, b, l
    <3> QED
      BY <3>2, <3>3
  <2>8. r \in State /\ r.proc = x.proc /\ r.queue = x.queue /\ (Bad(r) \/ Whole(r, e, {}))
    BY <2>4, <2>6, <2>7, FreeMemStep DEF r
  <2>9. Placed(x.proc)
    <3>1. "IN_USE" \in x.proc[p].flags /\ "ONSWAP" \notin x.proc[p].flags /\ x.proc[p].len > 0
          /\ ~(SwapBase <= x.proc[p].base)
      BY <2>1, <2>6, Sizing
    <3> QED
      BY <2>1, <2>6, <3>1, PlacedOne
  <2>10. Wanted(x.proc)
    <3>1. /\ "ONSWAP" \notin x.proc[p].flags /\ "SWAPIN" \notin x.proc[p].flags
          /\ "PENDING" \notin x.proc[p].flags
      BY <2>6
    <3> QED
      BY <2>1, <2>6, <3>1, WantedOne
  <2>11. Queued(x.queue, x.proc, {})
    <3>1. \A q \in Procs : "SWAPIN" \in x.proc[q].flags <=> "SWAPIN" \in s.proc[q].flags
      BY <2>3, <2>6
    <3>2. QueueList(s.queue)
      BY <2>1, StateFacts
    <3> QED
      BY <2>1, <2>6, <3>1, <3>2, QueuedSame
  <2>12. Fine(r, {})
    BY <2>8, <2>9, <2>10, <2>11, Joined
  <2>13. a.base # NoMem /\ s.fate = "ok"
    BY <2>1, <2>2 DEF NoMem, Whole
  <2> QED
    BY <1>2, <2>12, <2>13 DEF a
<1> QED
  BY <1>1, <1>3, <1>4, <1>5 DEF Allocated

\* Who is gone may still be on the queue.
Gone(m, p) == FreeMem([m EXCEPT !.proc[p] = FreeSlot], m.proc[p].base, m.proc[p].len)

LEMMA GoneStep ==
    ASSUME NEW m, Sane(m, {}), NEW p \in Procs, "IN_USE" \in m.proc[p].flags
    PROVE  LET r == Gone(m, p)
           IN  /\ r \in State /\ Placed(r.proc) /\ Wanted(r.proc) /\ Queued(r.queue, r.proc, {p})
               /\ \E e : Bad(r) \/ Whole(r, e, {})
               /\ \A q \in Procs : q # p => r.proc[q] = m.proc[q]
<1> DEFINE b == m.proc[p].base
           l == m.proc[p].len
           x == [m EXCEPT !.proc[p] = FreeSlot]
           r == Gone(m, p)
<1>1. /\ m \in State /\ Placed(m.proc) /\ Wanted(m.proc) /\ Queued(m.queue, m.proc, {})
  BY DEF Sane
<1>2. PICK e : Whole(m, e, {})
  BY DEF Sane
<1>3. b \in Nat /\ l \in Nat \ {0}
  <2>1. b \in Nat /\ l \in Nat
    BY <1>1, StateFacts, ProcFacts
  <2>2. l > 0
    BY <1>1 DEF Placed
  <2> QED
    BY <2>1, <2>2
<1>4. r = FreeMem(x, b, l)
  BY DEF Gone
<1> HIDE DEF r, b, l
<1>5. Changed(m, x, m.holes, p, {}, 0, 0)
  <2>1. {} \in SUBSET Flags /\ 0 \in Nat
    OBVIOUS
  <2> QED
    BY <1>1, <2>1, SetEntry DEF FreeSlot
<1> HIDE DEF x
<1>6. /\ x \in State /\ x.holes = m.holes /\ x.queue = m.queue /\ x.proc[p].flags = {}
      /\ \A q \in Procs : q # p => x.proc[q] = m.proc[q]
  BY <1>5 DEF Changed
<1>7. Whole(x, e, Interval(b, l))
  <2>1. {} = IF "IN_USE" \in {} THEN Interval(0, 0) ELSE {}
    OBVIOUS
  <2>2. Whole(x, e, MemOf(m.proc)[p])
    BY <1>2, <1>5, <2>1, Handed
  <2>3. MemOf(m.proc)[p] = Interval(b, l)
    BY Zenon DEF MemOf, b, l
  <2> QED
    BY <2>2, <2>3
<1>8. r \in State /\ r.proc = x.proc /\ r.queue = x.queue /\ (Bad(r) \/ Whole(r, e, {}))
  BY <1>3, <1>4, <1>6, <1>7, FreeMemStep
<1>9. Placed(x.proc)
  <2>1. ~(x.proc[p].flags # {}) /\ "IN_USE" \notin x.proc[p].flags
    BY <1>6
  <2> QED
    BY <1>1, <1>6, <2>1, PlacedOne
<1>10. Wanted(x.proc)
  <2>1. /\ "ONSWAP" \notin x.proc[p].flags /\ "SWAPIN" \notin x.proc[p].flags
        /\ "PENDING" \notin x.proc[p].flags
    BY <1>6
  <2> QED
    BY <1>1, <1>6, <2>1, WantedOne
<1>11. Queued(m.queue, x.proc, {p})
  <2> DEFINE q == m.queue
  <2>0. QueueList(q)
    BY <1>1, StateFacts
  <2>1. /\ \A i, j \in 1..Len(q) : i # j => q[i] # q[j]
        /\ \A y \in Procs : "SWAPIN" \in m.proc[y].flags => \E i \in 1..Len(q) : q[i] = y
        /\ \A i \in 1..Len(q) : q[i] \in Procs /\ "SWAPIN" \in m.proc[q[i]].flags
    BY <1>1, <2>0, QueueFacts DEF Queued
  <2>2. "SWAPIN" \notin x.proc[p].flags
    BY <1>6
  <2>3. \A y \in Procs : "SWAPIN" \in x.proc[y].flags => "SWAPIN" \in m.proc[y].flags
    BY <1>6, <2>2
  <2>4. \A i \in 1..Len(q) : "SWAPIN" \in x.proc[q[i]].flags \/ q[i] \in {p}
    BY <1>6, <2>1
  <2> HIDE DEF q
  <2> QED
    BY <2>1, <2>3, <2>4 DEF Queued, q
<1> QED
  BY <1>6, <1>8, <1>9, <1>10, <1>11 DEF r

\* A process that is blocked goes on, with a reply.
Woken(m, p) == Setreply(With(m, p, {}, {"BLOCKED"}), p)

LEMMA WokenStep ==
    ASSUME NEW m \in State, Placed(m.proc), Wanted(m.proc), NEW R, Queued(m.queue, m.proc, R),
           NEW e, Bad(m) \/ Whole(m, e, {}),
           NEW p \in Procs, p \notin R, "IN_USE" \in m.proc[p].flags
    PROVE  Fine(Woken(m, p), R)
<1> DEFINE f == m.proc[p].flags
           g == f \ {"BLOCKED"}
           s == With(m, p, {}, {"BLOCKED"})
           r == Woken(m, p)
           k == g \cup {"REPLY"}
           h == IF "ONSWAP" \in g THEN k \cup {"SWAPIN"} ELSE k
<1>0. QueueList(m.queue) /\ {} \in SUBSET Flags
  BY StateFacts
<1>1. Marked(m, s, p, g) /\ s.queue = m.queue
  <2>1. Marked(m, s, p, (f \cup {}) \ {"BLOCKED"}) /\ s.queue = m.queue
    BY <1>0, MarkedFlags
  <2>2. (f \cup {}) \ {"BLOCKED"} = g
    OBVIOUS
  <2> HIDE DEF s
  <2> QED
    BY <2>1, <2>2
<1>2. r = Setreply(s, p)
  BY DEF Woken
<1> HIDE DEF s, r
<1>3. s \in State /\ s.proc[p].flags = g
  BY <1>1 DEF Marked
<1>4. Queued(s.queue, s.proc, R)
  <2>1. \A x \in Procs : "SWAPIN" \in s.proc[x].flags <=> "SWAPIN" \in m.proc[x].flags
    BY <1>1 DEF Marked
  <2> QED
    BY <1>0, <1>1, <2>1, QueuedSame
<1>5. Marked(s, r, p, h) /\ Queued(r.queue, r.proc, R)
  <2>1. LET t == s.proc[p].flags \cup {"REPLY"}
        IN  /\ Marked(s, r, p, IF "ONSWAP" \in s.proc[p].flags THEN t \cup {"SWAPIN"} ELSE t)
            /\ Queued(r.queue, r.proc, R)
    BY <1>2, <1>3, <1>4, SetreplyStep
  <2> HIDE DEF g
  <2> QED
    BY <1>3, <2>1
<1>6. Marked(m, r, p, h)
  <2> HIDE DEF h, g
  <2> QED
    BY <1>1, <1>5, MarkedTwice
<1>7. /\ "IN_USE" \in h
      /\ "ONSWAP" \in h <=> "ONSWAP" \in f
      /\ "SWAPIN" \in h <=> "SWAPIN" \in f \/ "ONSWAP" \in f
      /\ "PENDING" \in h <=> "PENDING" \in f
  OBVIOUS
<1> HIDE DEF h
<1>8. r \in State /\ (Bad(r) \/ Whole(r, e, {}))
  BY <1>6, <1>7, MarkedStill
<1>9. /\ r.proc[p].flags = h /\ r.proc[p].base = m.proc[p].base /\ r.proc[p].len = m.proc[p].len
      /\ \A q \in Procs : q # p => r.proc[q] = m.proc[q]
  BY <1>6 DEF Marked
<1>10. Placed(r.proc)
  <2>1. m.proc[p].len > 0 /\ ("ONSWAP" \in f <=> SwapBase <= m.proc[p].base)
    BY DEF Placed
  <2> HIDE DEF f
  <2> QED
    BY <1>7, <1>9, <2>1, PlacedOne
<1>11. Wanted(r.proc)
  <2>1. /\ "SWAPIN" \in f => "ONSWAP" \in f
        /\ "PENDING" \in f => "SWAPIN" \in f
    BY DEF Wanted
  <2> HIDE DEF f
  <2> QED
    BY <1>7, <1>9, <2>1, WantedOne
<1> QED
  BY <1>5, <1>8, <1>10, <1>11, Joined DEF r

LEMMA BlockStep ==
    ASSUME NEW m, Sane(m, {}), NEW p \in Procs, m.proc[p].flags = {"IN_USE"}
    PROVE  Fine(With(m, p, {"BLOCKED"}, {}), {})
<1> DEFINE f == m.proc[p].flags
           g == (f \cup {"BLOCKED"}) \ {}
           r == With(m, p, {"BLOCKED"}, {})
<1>1. m \in State /\ Placed(m.proc) /\ Wanted(m.proc) /\ Queued(m.queue, m.proc, {})
  BY DEF Sane
<1>2. PICK e : Whole(m, e, {})
  BY DEF Sane
<1>3. Marked(m, r, p, g) /\ r.queue = m.queue
  <2>1. {"BLOCKED"} \in SUBSET Flags
    BY DEF Flags
  <2> QED
    BY <1>1, <2>1, MarkedFlags
<1> HIDE DEF r
<1>4. /\ "IN_USE" \in f /\ "IN_USE" \in g /\ "ONSWAP" \notin f /\ "ONSWAP" \notin g
      /\ "SWAPIN" \notin f /\ "SWAPIN" \notin g /\ "PENDING" \notin g
  OBVIOUS
<1> HIDE DEF g
<1>5. r \in State /\ Whole(r, e, {})
  <2>1. r \in State
    BY <1>3 DEF Marked
  <2> QED
    BY <1>2, <1>3, <1>4, <2>1, MarkedWhole
<1>6. /\ r.proc[p].flags = g /\ r.proc[p].base = m.proc[p].base /\ r.proc[p].len = m.proc[p].len
      /\ \A q \in Procs : q # p => r.proc[q] = m.proc[q]
  BY <1>3 DEF Marked
<1>7. Placed(r.proc)
  <2>1. m.proc[p].len > 0 /\ ~(SwapBase <= m.proc[p].base)
    BY <1>1, <1>4 DEF Placed
  <2> QED
    BY <1>1, <1>4, <1>6, <2>1, PlacedOne
<1>8. Wanted(r.proc)
  BY <1>1, <1>4, <1>6, WantedOne
<1>9. Queued(r.queue, r.proc, {})
  <2>1. \A q \in Procs : "SWAPIN" \in r.proc[q].flags <=> "SWAPIN" \in m.proc[q].flags
    BY <1>4, <1>6
  <2>2. QueueList(m.queue)
    BY <1>1, StateFacts
  <2> QED
    BY <1>1, <1>3, <2>1, <2>2, QueuedSame
<1> QED
  BY <1>5, <1>7, <1>8, <1>9 DEF Sane, Fine, r

\* A signal for one that is swapped out.
LEMMA PendingStep ==
    ASSUME NEW m, Sane(m, {}), NEW p \in Procs, "ONSWAP" \in m.proc[p].flags
    PROVE  Fine(SwapInqueue(With(m, p, {"PENDING"}, {}), p), {})
<1> DEFINE f == m.proc[p].flags
           g == (f \cup {"PENDING"}) \ {}
           h == g \cup {"SWAPIN"}
           s == With(m, p, {"PENDING"}, {})
           r == SwapInqueue(s, p)
<1>1. m \in State /\ Placed(m.proc) /\ Wanted(m.proc) /\ Queued(m.queue, m.proc, {})
  BY DEF Sane
<1>2. PICK e : Whole(m, e, {})
  BY DEF Sane
<1>3. Marked(m, s, p, g) /\ s.queue = m.queue
  <2>1. {"PENDING"} \in SUBSET Flags
    BY DEF Flags
  <2> QED
    BY <1>1, <2>1, MarkedFlags
<1> HIDE DEF s
<1>4. s \in State /\ s.proc[p].flags = g
  BY <1>3 DEF Marked
<1>5. Queued(s.queue, s.proc, {})
  <2>1. \A x \in Procs : "SWAPIN" \in s.proc[x].flags <=> "SWAPIN" \in m.proc[x].flags
    BY <1>3 DEF Marked
  <2>2. QueueList(m.queue)
    BY <1>1, StateFacts
  <2> QED
    BY <1>1, <1>3, <2>1, <2>2, QueuedSame
<1>6. Marked(s, r, p, h) /\ Queued(r.queue, r.proc, {})
  <2>1. Marked(s, r, p, s.proc[p].flags \cup {"SWAPIN"}) /\ Queued(r.queue, r.proc, {})
    BY <1>4, <1>5, SwapInqueueStep
  <2> HIDE DEF g, r
  <2> QED
    BY <1>4, <2>1
<1> HIDE DEF r
<1>7. Marked(m, r, p, h)
  <2> HIDE DEF g, h
  <2> QED
    BY <1>3, <1>6, MarkedTwice
<1>8. "IN_USE" \in f
  BY <1>1 DEF Placed
<1>9. "IN_USE" \in h /\ "ONSWAP" \in h /\ "SWAPIN" \in h
  BY <1>8
<1> HIDE DEF h
<1>10. r \in State /\ Whole(r, e, {})
  <2>1. r \in State
    BY <1>7 DEF Marked
  <2> QED
    BY <1>2, <1>7, <1>8, <1>9, <2>1, MarkedWhole
<1>11. /\ r.proc[p].flags = h /\ r.proc[p].base = m.proc[p].base /\ r.proc[p].len = m.proc[p].len
       /\ \A q \in Procs : q # p => r.proc[q] = m.proc[q]
  BY <1>7 DEF Marked
<1>12. Placed(r.proc)
  <2>1. m.proc[p].len > 0 /\ SwapBase <= m.proc[p].base
    BY <1>1, <1>8 DEF Placed
  <2> QED
    BY <1>1, <1>9, <1>11, <2>1, PlacedOne
<1>13. Wanted(r.proc)
  BY <1>1, <1>9, <1>11, WantedOne
<1> QED
  BY <1>6, <1>10, <1>12, <1>13 DEF Sane, Fine, r, s

\* The swap area joins the memory.
LEMMA SwapOnStep ==
    ASSUME NEW m, Sane(m, {}), ~m.swapOn, NEW n \in Nat
    PROVE  Fine(FreeMem([m EXCEPT !.swapOn = TRUE], SwapBase, n), {})
<1> DEFINE x == [m EXCEPT !.swapOn = TRUE]
           r == FreeMem(x, SwapBase, n)
           X == Interval(SwapBase, n)
           F == FreeIn(m.holes)
           O == MemOf(m.proc)
<1>1. m \in State /\ Placed(m.proc) /\ Wanted(m.proc) /\ Queued(m.queue, m.proc, {})
  BY DEF Sane
<1>2. PICK e : Whole(m, e, {})
  BY DEF Sane
<1>3. /\ SwapBase \in Nat /\ SwapBase + n \in Nat /\ SwapBase <= SwapBase
      /\ SwapBase <= SwapBase + n /\ MemSize \in Nat /\ MemSize < SwapBase /\ n \in Nat
  BY Sizing
<1>4. /\ x \in State /\ x.holes = m.holes /\ x.proc = m.proc /\ x.queue = m.queue
      /\ x.fate = m.fate /\ x.swapOn = TRUE
  BY <1>1, SetSwapOn
<1> HIDE DEF x
<1>5. e = SwapBase
  BY <1>2, <1>3 DEF Whole
<1>6. Split(F, O, {}, Space(SwapBase))
  BY <1>2, <1>5 DEF Whole
<1>7. /\ \A c : c \in Space(SwapBase) => c \notin X
      /\ \A c : c \in Space(SwapBase + n) <=> c \in Space(SwapBase) \/ c \in X
  BY <1>3 DEF Space, Interval
<1>8. Split(F, O, X, Space(SwapBase + n))
  <2> HIDE DEF X, F, O
  <2>1. /\ \A c : c \in Space(SwapBase) <=> c \in F \/ \E p \in Procs : c \in O[p]
        /\ \A p \in Procs : \A c \in O[p] : c \notin F
        /\ \A p, q \in Procs : \A c \in O[p] : c \in O[q] => p = q
    BY <1>6, Zenon DEF Split
  <2>2. \A c : c \in Space(SwapBase + n) <=> c \in F \/ c \in X \/ \E p \in Procs : c \in O[p]
    BY <1>7, <2>1
  <2>3. \A c \in X : c \notin F
    BY <1>7, <2>1
  <2>4. \A p \in Procs : \A c \in O[p] : c \notin F /\ c \notin X
    BY <1>7, <2>1
  <2> QED
    BY <2>1, <2>2, <2>3, <2>4, Zenon DEF Split
<1>9. Whole(x, SwapBase + n, X)
  BY <1>2, <1>3, <1>4, <1>8 DEF Whole
<1>10. r \in State /\ r.proc = x.proc /\ r.queue = x.queue /\ (Bad(r) \/ Whole(r, SwapBase + n, {}))
  <2> HIDE DEF r
  <2>1. r = FreeMem(x, SwapBase, n)
    BY DEF r
  <2>2. CASE n = 0
    <3>1. r = x /\ X = {} /\ SwapBase + n = SwapBase
      BY <1>3, <2>1, <2>2 DEF FreeMem, Interval
    <3>2. Whole(x, SwapBase, {})
      BY <1>9, <3>1
    <3> QED
      BY <1>4, <3>1, <3>2
  <2>3. CASE n # 0
    <3>1. n \in Nat \ {0}
      BY <2>3
    <3> QED
      BY <1>3, <1>4, <1>9, <2>1, <3>1, FreeMemStep
  <2> QED
    BY <2>2, <2>3
<1> HIDE DEF r
<1>11. Fine(r, {})
  BY <1>1, <1>4, <1>10, Joined
<1> QED
  BY <1>11 DEF r, x

LEMMA WorstFitStep ==
    ASSUME NEW m, Sane(m, {}), NEW w \in BOOLEAN
    PROVE  Fine([m EXCEPT !.worstFit = w], {})
<1> DEFINE r == [m EXCEPT !.worstFit = w]
<1>1. m \in State /\ Placed(m.proc) /\ Wanted(m.proc) /\ Queued(m.queue, m.proc, {})
  BY DEF Sane
<1>2. PICK e : Whole(m, e, {})
  BY DEF Sane
<1>3. /\ r \in State /\ r.holes = m.holes /\ r.proc = m.proc /\ r.queue = m.queue
      /\ r.fate = m.fate /\ r.swapOn = m.swapOn
  BY <1>1, SetWorst
<1> HIDE DEF r
<1>4. Whole(r, e, {})
  BY <1>2, <1>3 DEF Whole
<1>5. Sane(r, {})
  BY <1>1, <1>3, <1>4 DEF Sane
<1> QED
  BY <1>5 DEF Fine, r

-----------------------------------------------------------------------------
(* The invariant holds in every state.                                     *)

Inv == Final(mm)

LEMMA InvInit == Init => Inv
<1> SUFFICES ASSUME Init PROVE Inv
  OBVIOUS
<1> DEFINE h == <<Hole(0, MemSize)>>
           P == [p \in Procs |-> FreeSlot]
<1>0. /\ MemSize \in Nat \ {0} /\ SwapBase \in Nat /\ MemSize < SwapBase /\ NrProcs \in Nat \ {0}
  BY Sizing
<1>1. /\ mm.holes = h /\ mm.proc = P /\ mm.queue = <<>> /\ mm.fate = "ok" /\ mm.swapOn = FALSE
  BY DEF Init
<1>2. /\ HoleList(h) /\ Len(h) = 1 /\ h[1] = Hole(0, MemSize)
      /\ Hole(0, MemSize) \in HoleType
  <2>1. Hole(0, MemSize) \in HoleType
    BY <1>0 DEF Hole, HoleType
  <2> QED
    BY <2>1 DEF HoleList
<1>3. mm \in State
  <2>1. P \in [Procs -> ProcType]
    BY DEF FreeSlot, ProcType
  <2>2. 1 \in Procs
    BY <1>0 DEF Procs
  <2>3. <<>> \in Seq(Procs)
    OBVIOUS
  <2> HIDE DEF h, P
  <2> QED
    BY <1>2, <2>1, <2>2, <2>3 DEF Init, State, HoleList, Fates, h, P
<1>4. Whole(mm, SwapBase, {})
  <2>1. Apart(h)
    <3> HIDE DEF h
    <3> QED
      BY <1>2 DEF Apart
  <2>2. FreeIn(h) = 0..(MemSize - 1)
    <3> HIDE DEF h
    <3>1. Clicks(h[1]) = 0..(MemSize - 1)
      BY <1>0, <1>2 DEF Clicks, HoleEnd, Hole
    <3>2. 1..Len(h) = {1}
      BY <1>2
    <3> QED
      BY <1>0, <3>1, <3>2 DEF FreeIn
  <2>3. Space(SwapBase) = 0..(MemSize - 1)
    BY <1>0 DEF Space
  <2>4. \A p \in Procs : MemOf(P)[p] = {}
    <3>1. \A p \in Procs : P[p].flags = {}
      BY DEF FreeSlot
    <3> HIDE DEF P
    <3> QED
      BY <3>1 DEF MemOf
  <2>5. Split(FreeIn(h), MemOf(P), {}, Space(SwapBase))
    <3> HIDE DEF P, h
    <3> QED
      BY <2>2, <2>3, <2>4 DEF Split
  <2>6. SwapBase <= SwapBase /\ ~(SwapBase < SwapBase) /\ Len(h) <= NrProcs + 2
    <3> HIDE DEF h
    <3> QED
      BY <1>0, <1>2
  <2> HIDE DEF P, h
  <2> QED
    BY <1>0, <1>1, <2>1, <2>5, <2>6 DEF Whole
<1>5. \A p \in Procs : mm.proc[p].flags = {}
  BY <1>1 DEF FreeSlot
<1>6. Placed(mm.proc)
  BY <1>5 DEF Placed
<1>7. Wanted(mm.proc)
  BY <1>5 DEF Wanted
<1>8. Queued(mm.queue, mm.proc, {})
  <2>1. 1..Len(mm.queue) = {}
    BY <1>1
  <2> QED
    BY <1>5, <2>1 DEF Queued
<1>9. Sane(mm, {})
  BY <1>3, <1>4, <1>6, <1>7, <1>8 DEF Sane
<1> QED
  BY <1>5, <1>9 DEF Inv, Final, Fine

\* While MM runs, nothing has gone wrong.
LEMMA UpSane == Inv /\ Up => Sane(mm, {})
BY DEF Inv, Final, Fine, Bad, Up

LEMMA InvStep == Inv /\ [Next]_mm => Inv'
<1> SUFFICES ASSUME Inv, [Next]_mm PROVE Inv'
  OBVIOUS
<1>1. ASSUME NEW p \in Procs, NEW size \in Sizes, Fork(p, size) PROVE Inv'
  <2>1. Sane(mm, {}) /\ mm.proc[p].flags = {} /\ size \in Nat \ {0}
    BY <1>1, UpSane, Sizing DEF Fork
  <2>2. Fine(Forked(AllocMem(mm, size), p, size), {})
    BY <2>1, ForkedStep
  <2> QED
    BY <1>1, <2>2, FinishStep DEF Fork, Inv
<1>2. ASSUME NEW p \in Procs, NEW size \in Sizes, Exec(p, size) PROVE Inv'
  <2>1. Sane(mm, {}) /\ mm.proc[p].flags = {"IN_USE"} /\ size \in Nat \ {0}
    BY <1>2, UpSane, Sizing DEF Exec, Running
  <2>2. Fine(Replaced(AllocMem(mm, size), p, size), {})
    BY <2>1, ReplacedStep
  <2> QED
    BY <1>2, <2>2, FinishStep DEF Exec, Inv
<1>3. ASSUME NEW p \in Procs, Exit(p) PROVE Inv'
  <2> DEFINE r == Gone(mm, p)
  <2>1. Sane(mm, {}) /\ "IN_USE" \in mm.proc[p].flags
    BY <1>3, UpSane DEF Exit, Has
  <2>2. /\ r \in State /\ Placed(r.proc) /\ Wanted(r.proc) /\ Queued(r.queue, r.proc, {p})
        /\ \E e : Bad(r) \/ Whole(r, e, {})
        /\ \A q \in Procs : q # p => r.proc[q] = mm.proc[q]
    BY <2>1, GoneStep
  <2>3. \/ mm' = Finish(r)
        \/ \E q \in Procs \ {p} : Has(mm, q, "BLOCKED") /\ mm' = Finish(Woken(r, q))
    BY <1>3 DEF Exit, Gone, Woken
  <2> HIDE DEF r
  <2>4. PICK e : Bad(r) \/ Whole(r, e, {})
    BY <2>2
  <2>5. CASE mm' = Finish(r)
    <3>1. Fine(r, {p})
      BY <2>2, <2>4, Joined
    <3> QED
      BY <2>5, <3>1, FinishStep DEF Inv
  <2>6. ASSUME NEW q \in Procs \ {p}, Has(mm, q, "BLOCKED"), mm' = Finish(Woken(r, q))
        PROVE  Inv'
    <3>1. q \in Procs /\ q \notin {p} /\ "BLOCKED" \in mm.proc[q].flags
      BY <2>6 DEF Has
    <3>2. "IN_USE" \in mm.proc[q].flags
      BY <2>1, <3>1 DEF Sane, Placed
    <3>3. "IN_USE" \in r.proc[q].flags
      BY <2>2, <3>1, <3>2
    <3>4. Fine(Woken(r, q), {p})
      BY <2>2, <2>4, <3>1, <3>3, WokenStep
    <3> QED
      BY <2>6, <3>4, FinishStep DEF Inv
  <2> QED
    BY <2>3, <2>5, <2>6
<1>4. ASSUME NEW p \in Procs, Block(p) PROVE Inv'
  <2>1. Sane(mm, {}) /\ mm.proc[p].flags = {"IN_USE"}
    BY <1>4, UpSane DEF Block, Running
  <2>2. Fine(With(mm, p, {"BLOCKED"}, {}), {})
    BY <2>1, BlockStep
  <2> QED
    BY <1>4, <2>2, FinishStep DEF Block, Inv
<1>5. ASSUME NEW p \in Procs, Signal(p) PROVE Inv'
  <2>1. Sane(mm, {}) /\ "BLOCKED" \in mm.proc[p].flags
    BY <1>5, UpSane DEF Signal, Has
  <2>2. CASE "ONSWAP" \in mm.proc[p].flags
    <3>1. mm' = Finish(SwapInqueue(With(mm, p, {"PENDING"}, {}), p))
      BY <1>5, <2>2 DEF Signal, Has
    <3>2. Fine(SwapInqueue(With(mm, p, {"PENDING"}, {}), p), {})
      BY <2>1, <2>2, PendingStep
    <3> QED
      BY <3>1, <3>2, FinishStep DEF Inv
  <2>3. CASE "ONSWAP" \notin mm.proc[p].flags
    <3>1. mm' = Finish(Woken(mm, p))
      BY <1>5, <2>3 DEF Signal, Has, Woken
    <3>2. /\ mm \in State /\ Placed(mm.proc) /\ Wanted(mm.proc) /\ Queued(mm.queue, mm.proc, {})
          /\ "IN_USE" \in mm.proc[p].flags /\ p \notin {}
      BY <2>1 DEF Sane, Placed
    <3>3. PICK e : Whole(mm, e, {})
      BY <2>1 DEF Sane
    <3>4. Fine(Woken(mm, p), {})
      BY <3>2, <3>3, WokenStep
    <3> QED
      BY <3>1, <3>4, FinishStep DEF Inv
  <2> QED
    BY <2>2, <2>3
<1>6. ASSUME NEW size \in SwapSizes, SwapOn(size) PROVE Inv'
  <2>1. Sane(mm, {}) /\ ~mm.swapOn /\ size \in Nat
    BY <1>6, UpSane, Sizing DEF SwapOn
  <2>2. Fine(FreeMem([mm EXCEPT !.swapOn = TRUE], SwapBase, size), {})
    BY <2>1, SwapOnStep
  <2> QED
    BY <1>6, <2>2, FinishStep DEF SwapOn, Inv
<1>7. ASSUME SwapOff PROVE Inv'
  <2>1. Sane(mm, {})
    BY <1>7, UpSane DEF SwapOff
  <2>2. Fine(QueueSwapped(mm), {})
    BY <2>1, QueueSwappedStep DEF Fine
  <2>3. Fine(SwapIn(QueueSwapped(mm)), {})
    BY <2>2, SwapInStep
  <2>4. Fine(CloseSwap(SwapIn(QueueSwapped(mm))), {})
    BY <2>3, CloseSwapStep
  <2> QED
    BY <1>7, <2>4, FinishStep DEF SwapOff, Inv
<1>8. ASSUME NEW flag \in BOOLEAN, SetWorstFit(flag) PROVE Inv'
  <2>1. Sane(mm, {})
    BY <1>8, UpSane DEF SetWorstFit
  <2>2. Fine([mm EXCEPT !.worstFit = flag], {})
    BY <2>1, WorstFitStep
  <2> QED
    BY <1>8, <2>2, FinishStep DEF SetWorstFit, Inv
<1>9. CASE UNCHANGED mm
  BY <1>9 DEF Inv
<1> QED
  BY <1>1, <1>2, <1>3, <1>4, <1>5, <1>6, <1>7, <1>8, <1>9 DEF Next

LEMMA Invariant == Spec => []Inv
BY InvInit, InvStep, PTL DEF Spec

-----------------------------------------------------------------------------
(* The theorems.                                                           *)

\* The type invariant of the memory manager: holes have a length, the swap
\* queue has processes, and the tables keep their shape whatever handler ran.
THEOREM TypeCorrect == Spec => []TypeOK
<1>1. Inv => TypeOK
  <2> SUFFICES ASSUME Inv PROVE TypeOK
    OBVIOUS
  <2>1. mm \in State
    BY DEF Inv, Final, Fine, Bad, Sane
  <2>2. /\ HoleList(mm.holes) /\ ProcTable(mm.proc) /\ QueueList(mm.queue)
        /\ mm.worstFit \in BOOLEAN /\ mm.swapOn \in BOOLEAN
        /\ mm.outswap \in Procs /\ mm.fate \in Fates
    BY <2>1, StateFacts
  <2> QED
    BY <2>2 DEF TypeOK, HoleList, HoleType, ProcTable, ProcType, QueueList, Fates
<1> QED
  BY <1>1, Invariant, PTL

\* The hole list of alloc.c is sorted by address and never has two holes that
\* touch: free_mem() merges every pair it makes, whatever was freed and taken
\* before, and swapping and the end of the swap area leave no such pair.
THEOREM HolesSeparate == Spec => []HolesApart
<1>1. Inv => HolesApart
  <2> SUFFICES ASSUME Inv, NEW i \in 1..(Len(mm.holes) - 1)
               PROVE  HoleEnd(mm.holes[i]) < mm.holes[i + 1].base
    BY DEF HolesApart
  <2>1. mm \in State /\ Apart(mm.holes)
    BY DEF Inv, Final, Fine, Bad, Sane, Whole
  <2>2. Len(mm.holes) \in Nat
    BY <2>1, StateFacts, HoleFacts
  <2>3. i \in 1..Len(mm.holes) /\ i + 1 \in 1..Len(mm.holes) /\ i < i + 1
    BY <2>2
  <2> QED
    BY <2>1, <2>3 DEF Apart
<1> QED
  BY <1>1, Invariant, PTL

\* No click of memory leaks and none is given away twice: each is in exactly
\* one hole or exactly one process after every request, for any number of
\* processes and any memory, with first fit or worst fit, swapping or not.
THEOREM ClicksKept == Spec => []MemoryKept
<1>1. Inv => MemoryKept
  <2> SUFFICES ASSUME Inv, mm.fate = "ok", NEW c \in 0..(MemSize - 1)
               PROVE  Cardinality({i \in DOMAIN mm.holes : c \in Clicks(mm.holes[i])})
                      + Cardinality({p \in Used : c \in Memory(p)}) = 1
    BY DEF MemoryKept
  <2> DEFINE h == mm.holes
             A == {i \in DOMAIN h : c \in Clicks(h[i])}
             B == {p \in Used : c \in Memory(p)}
             O == MemOf(mm.proc)
  <2>1. Sane(mm, {})
    BY UpSane DEF Up
  <2>2. mm \in State /\ HoleList(h)
    BY <2>1, StateFacts DEF Sane
  <2>3. PICK e : Whole(mm, e, {})
    BY <2>1 DEF Sane
  <2>4. Apart(h) /\ e \in Nat /\ Split(FreeIn(h), O, {}, Space(e))
    BY <2>3 DEF Whole
  <2>5. c \in Nat /\ c \in Space(e) /\ DOMAIN h = 1..Len(h)
    <3>1. c \in Nat /\ c < MemSize
      BY Sizing
    <3> QED
      BY <2>2, <2>4, <3>1, SpaceIs DEF HoleList
  <2>6. \A i \in 1..Len(h) : c \in Clicks(h[i]) => c \in FreeIn(h)
    BY <2>5 DEF FreeIn
  <2>7. \A p \in Procs : p \in B <=> c \in O[p]
    BY DEF Used, Has, Memory, MemOf, Interval
  <2>8. B \subseteq Procs
    BY DEF Used
  <2>9. \A p, q \in Procs : c \in O[p] => c \notin FreeIn(h) /\ (c \in O[q] => p = q)
    BY <2>4, Zenon DEF Split
  <2> HIDE DEF B, O
  <2>10. CASE c \in FreeIn(h)
    <3>1. PICK i \in 1..Len(h) : c \in Clicks(h[i])
      BY <2>10 DEF FreeIn
    <3>2. ASSUME NEW j \in 1..Len(h), c \in Clicks(h[j]) PROVE j = i
      <4>1. /\ h[i].base \in Nat /\ h[i].len \in Nat /\ HoleEnd(h[i]) = h[i].base + h[i].len
            /\ h[j].base \in Nat /\ h[j].len \in Nat /\ HoleEnd(h[j]) = h[j].base + h[j].len
        BY <2>2, HoleFacts
      <4> HIDE DEF h
      <4>2. /\ h[i].base <= c /\ c < h[i].base + h[i].len
            /\ h[j].base <= c /\ c < h[j].base + h[j].len
        BY <2>5, <3>1, <3>2, <4>1, SMTT(60) DEF Clicks
      <4> QED
        BY <2>2, <2>4, <2>5, <4>2, OneHole
    <3>3. A = {i}
      BY <2>5, <3>1, <3>2
    <3>4. B = {}
      BY <2>7, <2>8, <2>9, <2>10
    <3> HIDE DEF A
    <3>5. Cardinality(A) = 1 /\ Cardinality(B) = 0
      BY <3>3, <3>4, FS_Singleton, FS_EmptySet
    <3> QED
      BY <3>5 DEF A, B
  <2>11. CASE c \notin FreeIn(h)
    <3>1. A = {}
      BY <2>5, <2>6, <2>11
    <3>2. \E p \in Procs : c \in O[p]
      BY <2>4, <2>5, <2>11 DEF Split
    <3>3. PICK p \in Procs : c \in O[p]
      BY <3>2
    <3>4. B = {p}
      BY <2>7, <2>8, <2>9, <3>3
    <3> HIDE DEF A
    <3>5. Cardinality(A) = 0 /\ Cardinality(B) = 1
      BY <3>1, <3>4, FS_Singleton, FS_EmptySet
    <3> QED
      BY <3>5 DEF A, B
  <2> QED
    BY <2>10, <2>11
<1> QED
  BY <1>1, Invariant, PTL

\* in_queue has each process that wants to be swapped in once and no other,
\* although swap_in(), setreply() and swap_off() all queue and dequeue; who
\* has a reply or a signal to come after a turn of the main loop is on it.
THEOREM QueueRight == Spec => []QueueExact
<1>1. Inv => QueueExact
  <2> SUFFICES ASSUME Inv, mm.fate = "ok" PROVE QueueExact
    BY DEF QueueExact
  <2> DEFINE q == mm.queue
             P == mm.proc
  <2>1. Sane(mm, {})
    BY UpSane DEF Up
  <2>2. Queued(q, P, {}) /\ Wanted(P) /\ QueueList(q)
    BY <2>1, StateFacts DEF Sane
  <2>3. \A p \in Procs : "REPLY" \in P[p].flags => "SWAPIN" \in P[p].flags
    BY DEF Inv, Final
  <2>4. DOMAIN q = 1..Len(q) /\ \A i \in 1..Len(q) : q[i] \in Procs
    BY <2>2, QueueFacts DEF QueueList
  <2> HIDE DEF q, P
  <2>5. /\ \A i, j \in 1..Len(q) : i # j => q[i] # q[j]
        /\ \A p \in Procs : "SWAPIN" \in P[p].flags => \E i \in 1..Len(q) : q[i] = p
        /\ \A i \in 1..Len(q) : "SWAPIN" \in P[q[i]].flags
    BY <2>2 DEF Queued
  <2>6. ToSet(q) = {p \in Procs : "SWAPIN" \in P[p].flags}
    BY <2>4, <2>5 DEF ToSet
  <2>7. \A p \in Procs : /\ "SWAPIN" \in P[p].flags => "ONSWAP" \in P[p].flags
                         /\ "PENDING" \in P[p].flags => "SWAPIN" \in P[p].flags
    BY <2>2 DEF Wanted
  <2> QED
    BY <2>3, <2>4, <2>5, <2>6, <2>7, Zenon DEF QueueExact, Has, q, P
<1> QED
  BY <1>1, Invariant, PTL

\* Who is swapped out has its image in the swap area, which exists as long as
\* there is somebody on it: swap_off() never leaves a process behind.
THEOREM SwapPlaces == Spec => []SwappedAbove
<1>1. Inv => SwappedAbove
  <2> SUFFICES ASSUME Inv, mm.fate = "ok", NEW p \in Used
               PROVE  Has(mm, p, "ONSWAP") <=> mm.swapOn /\ mm.proc[p].base >= SwapBase
    BY DEF SwappedAbove
  <2> DEFINE b == mm.proc[p].base
             n == mm.proc[p].len
  <2>1. Sane(mm, {})
    BY UpSane DEF Up
  <2>2. p \in Procs /\ "IN_USE" \in mm.proc[p].flags
    BY DEF Used, Has
  <2>3. n > 0 /\ ("ONSWAP" \in mm.proc[p].flags <=> SwapBase <= b)
    BY <2>1, <2>2 DEF Sane, Placed
  <2>4. b \in Nat /\ n \in Nat
    BY <2>1, <2>2, StateFacts, ProcFacts DEF Sane
  <2>5. ASSUME SwapBase <= b PROVE mm.swapOn
    <3>1. PICK e : Whole(mm, e, {})
      BY <2>1 DEF Sane
    <3>2. /\ e \in Nat /\ (SwapBase < e => mm.swapOn)
          /\ Split(FreeIn(mm.holes), MemOf(mm.proc), {}, Space(e))
      BY <3>1 DEF Whole
    <3>3. b \in Interval(b, n)
      BY <2>3, <2>4 DEF Interval
    <3>4. b \in MemOf(mm.proc)[p]
      BY <2>2, <3>3, Zenon DEF MemOf
    <3>5. b \in Space(e)
      BY <2>2, <3>2, <3>4, Zenon DEF Split
    <3> HIDE DEF b
    <3>6. b < MemSize \/ b < e
      BY <2>4, <3>2, <3>5, SpaceIs
    <3>7. SwapBase < e
      BY <2>4, <2>5, <3>2, <3>6, Sizing
    <3> QED
      BY <3>2, <3>7
  <2>6. SwapBase \in Nat /\ (b >= SwapBase <=> SwapBase <= b)
    BY <2>4, Sizing
  <2> QED
    BY <2>3, <2>5, <2>6 DEF Has
<1> QED
  BY <1>1, Invariant, PTL

\* The panic "Hole table full" of free_mem() never happens.  There are at most
\* as many holes as processes and two, and free_mem() asks for one that is
\* free: NR_HOLES, 2 * NR_PROCS, is at least NR_PROCS + 3.
THEOREM NeverFull ==
    ASSUME NrHoles >= NrProcs + 3
    PROVE  Spec => []TableSuffices
<1>1. Inv => TableSuffices
  BY DEF Inv, Final, Fine, Bad, Sane, Whole, TableSuffices
<1> QED
  BY <1>1, Invariant, PTL
=============================================================================
