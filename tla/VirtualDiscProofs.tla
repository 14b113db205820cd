-------------------------- MODULE VirtualDiscProofs --------------------------
(***************************************************************************)
(* The safety of src/t6/fs.cpp for every size of the disc and of a block,  *)
(* every width of the reference count, all names, files and paths.         *)
(*                                                                         *)
(* The model follows chains of block numbers, as the code does.  The       *)
(* invariant is about what they stand for: each inode has a list of blocks *)
(* (Thread), no block is in two of the lists, the map marks exactly those  *)
(* in one, a free block leads nowhere (Linked), and the length of a list   *)
(* agrees with the type and size of its inode (Fits).  Good says this of   *)
(* the lists that the chains really are.  The conjuncts need each other: a *)
(* block that the map calls free goes to no second file only because the   *)
(* map is exact, the end of a chain is found only because no list repeats  *)
(* a block, and a new directory is empty only because free inodes and free *)
(* blocks lead nowhere.                                                    *)
(*                                                                         *)
(* The lemmas go from the lists (Thread...) over the two changes of an     *)
(* image, to append a block to a list and to cut a list (Linked...), to    *)
(* the operations of fs.cpp, which keep the disc Good and all inodes but   *)
(* the one they work on (...Good), and to the commands (...Fine).  A loop  *)
(* is the table of its states (IsLoop); that every round keeps a set of    *)
(* states is induction on that table (Rounds).                             *)
(***************************************************************************)
EXTENDS VirtualDisc, FiniteSetTheorems, SequenceTheorems, WellFoundedInduction, TLAPS

-----------------------------------------------------------------------------
(* Natural numbers and loops.                                              *)

\* A set of natural numbers has a least one.
LEMMA Least ==
    ASSUME NEW S \in SUBSET Nat, S # {}
    PROVE  \E x \in S : \A y \in S : x <= y
<1> DEFINE R == {ss \in Nat \X Nat : ss[1] < ss[2]}
<1>1. IsWellFoundedOn(R, Nat)
  BY NatLessThanWellFounded, Zenon DEF OpToRel
<1>2. PICK x \in S : \A y \in S : <<y, x>> \notin R
  <2> HIDE DEF R
  <2> QED
    BY <1>1, WFMin
<1>3. \A y \in S : x <= y
  <2> SUFFICES ASSUME NEW y \in S PROVE x <= y
    OBVIOUS
  <2>1. y \in Nat /\ x \in Nat /\ <<y, x>> \in Nat \X Nat
    OBVIOUS
  <2> QED
    BY <1>2, <2>1
<1> QED
  BY <1>3

\* Induction, for a set instead of a predicate.
LEMMA Induct ==
    ASSUME NEW S, 0 \in S, \A n \in Nat : n \in S => n + 1 \in S
    PROVE  Nat \subseteq S
<1> SUFFICES ASSUME NEW k \in Nat, k \notin S PROVE FALSE
  OBVIOUS
<1> DEFINE B == {n \in Nat : n \notin S}
<1>1. PICK x \in B : \A y \in B : x <= y
  <2>1. B \in SUBSET Nat /\ B # {}
    OBVIOUS
  <2> HIDE DEF B
  <2> QED
    BY <2>1, Least
<1>2. x # 0 /\ x - 1 \in Nat
  OBVIOUS
<1>3. x - 1 \in S
  BY <1>1, <1>2
<1> QED
  BY <1>2, <1>3

\* g[k] is the state after k rounds from a, where round k applies G[k].
IsLoop(g, N, a, G) == g = [k \in 0..N |-> IF k = 0 THEN a ELSE G[k][g[k - 1]]]

\* A loop of N rounds whose round k applies the function G[k] has a table of
\* its states.
LEMMA LoopExists ==
    ASSUME NEW N \in Nat, NEW a, NEW G
    PROVE  \E g : IsLoop(g, N, a, G)
<1> DEFINE Is(g, n) == IsLoop(g, n, a, G)
           S == {n \in Nat : \E g : Is(g, n)}
<1>1. 0 \in S
  <2> DEFINE g == [k \in 0..0 |-> a]
  <2>1. Is(g, 0)
    <3>1. \A k \in 0..0 : k = 0
      OBVIOUS
    <3> QED
      BY <3>1 DEF IsLoop
  <2> QED
    BY <2>1
<1>2. ASSUME NEW n \in Nat, n \in S PROVE n + 1 \in S
  <2>1. PICK g : Is(g, n)
    BY <1>2
  <2>2. g[0] = a /\ \A k \in 1..n : g[k] = G[k][g[k - 1]]
    <3>1. 0 \in 0..n /\ \A k \in 1..n : k \in 0..n /\ k # 0
      OBVIOUS
    <3> QED
      BY <2>1, <3>1 DEF IsLoop
  <2> DEFINE f == [k \in 0..n + 1 |-> IF k = n + 1 THEN G[n + 1][g[n]] ELSE g[k]]
  <2>3. f = [k \in 0..n + 1 |-> IF k = 0 THEN a ELSE G[k][f[k - 1]]]
    <3>1. ASSUME NEW k \in 0..n + 1
          PROVE  f[k] = IF k = 0 THEN a ELSE G[k][f[k - 1]]
      <4>1. CASE k = 0
        <5>1. k # n + 1
          BY <4>1
        <5> QED
          BY <2>2, <4>1, <5>1
      <4>2. CASE k = n + 1
        <5>1. k - 1 = n /\ n \in 0..n + 1 /\ n # n + 1 /\ k # 0
          BY <4>2
        <5>2. f[k - 1] = g[n]
          BY <5>1
        <5> QED
          BY <4>2, <5>1, <5>2
      <4>3. CASE k # 0 /\ k # n + 1
        <5>1. k \in 1..n /\ k - 1 \in 0..n + 1 /\ k - 1 # n + 1
          BY <4>3
        <5>2. f[k - 1] = g[k - 1] /\ f[k] = g[k]
          BY <4>3, <5>1
        <5> QED
          BY <2>2, <4>3, <5>1, <5>2
      <4> QED
        BY <4>1, <4>2, <4>3
    <3>2. f = [k \in 0..n + 1 |-> f[k]]
      OBVIOUS
    <3> HIDE DEF f
    <3> QED
      BY <3>1, <3>2
  <2> HIDE DEF f
  <2>4. Is(f, n + 1)
    BY <2>3 DEF IsLoop
  <2> HIDE DEF Is
  <2> QED
    BY <2>4
<1> HIDE DEF Is
<1>3. Nat \subseteq S
  <2> HIDE DEF S
  <2> QED
    BY <1>1, <1>2, Induct
<1>4. N \in S
  BY <1>3
<1>5. PICK g : Is(g, N)
  BY <1>4
<1> QED
  BY <1>5 DEF Is

\* What each round carries on holds after all of them.
LEMMA LoopHolds ==
    ASSUME NEW N \in Nat, NEW H, 0 \in H, \A k \in 1..N : k - 1 \in H => k \in H
    PROVE  \A k \in 0..N : k \in H
<1> DEFINE S == {k \in Nat : k <= N => k \in H}
<1>1. 0 \in S
  OBVIOUS
<1>2. ASSUME NEW k \in Nat, k \in S PROVE k + 1 \in S
  <2>1. k + 1 <= N => k + 1 \in 1..N /\ (k + 1) - 1 = k /\ k \in H
    BY <1>2
  <2> QED
    BY <2>1
<1>3. Nat \subseteq S
  <2> HIDE DEF S
  <2> QED
    BY <1>1, <1>2, Induct
<1> QED
  BY <1>3

\* A loop that keeps, in round k, to a set of states that depends on k.
LEMMA Loop ==
    ASSUME NEW N \in Nat, NEW SS, NEW a \in SS[0], NEW G,
           \A k \in 1..N : \A x \in SS[k - 1] : G[k][x] \in SS[k]
    PROVE  \E g : /\ IsLoop(g, N, a, G)
                  /\ \A k \in 0..N : g[k] \in SS[k]
<1>1. PICK g : IsLoop(g, N, a, G)
  BY LoopExists
<1>2. \A k \in 0..N : g[k] = IF k = 0 THEN a ELSE G[k][g[k - 1]]
  BY <1>1, Zenon DEF IsLoop
<1> DEFINE H == {k \in 0..N : g[k] \in SS[k]}
<1>3. 0 \in H
  <2>1. 0 \in 0..N
    OBVIOUS
  <2>2. g[0] = a
    BY <1>2, <2>1
  <2> QED
    BY <2>1, <2>2
<1>4. ASSUME NEW k \in 1..N, k - 1 \in H PROVE k \in H
  <2>1. g[k - 1] \in SS[k - 1] /\ k \in 0..N /\ k # 0
    BY <1>4
  <2>2. g[k] = G[k][g[k - 1]]
    BY <1>2, <2>1
  <2> QED
    BY <2>1, <2>2
<1> HIDE DEF H
<1>5. \A k \in 0..N : k \in H
  BY <1>3, <1>4, LoopHolds
<1> QED
  BY <1>1, <1>5 DEF H

\* Division, as decrease_file_size() and increase_file_size() use it.
LEMMA Division ==
    ASSUME NEW S \in Nat \ {0}, NEW n \in Nat
    PROVE  n = (S * (n \div S)) + (n % S) /\ n % S \in 0..(S - 1) /\ n \div S \in Nat
OBVIOUS

\* What a last block of S holds less than S, when L blocks hold n and the
\* last is not empty.
LEMMA Rest ==
    ASSUME NEW S \in Nat \ {0}, NEW L \in Nat, NEW n \in Nat, (L * S) - n \in 0..(S - 1)
    PROVE  /\ n % S = 0 => n = L * S
           /\ n % S # 0 => S - (n % S) = (L * S) - n
<1> DEFINE q == n \div S
           r == n % S
           m == L - q
<1>1. q \in Nat /\ r \in 0..(S - 1) /\ n = S * q + r
  BY Division
<1> HIDE DEF q, r
<1>2. m \in Int /\ L = q + m
  BY <1>1
<1> HIDE DEF m
<1>3. (L * S) - n = S * m - r
  BY <1>1, <1>2
<1>4. m = 0 \/ m = 1
  <2>1. m <= 1
    BY <1>1, <1>2, <1>3
  <2>2. m >= 0
    BY <1>1, <1>2, <1>3
  <2> QED
    BY <1>2, <2>1, <2>2
<1>5. (r = 0 => n = L * S) /\ (r # 0 => S - r = (L * S) - n)
  <2>1. CASE m = 0
    BY <1>1, <1>3, <2>1
  <2>2. CASE m = 1
    BY <1>1, <1>3, <2>2
  <2> QED
    BY <1>4, <2>1, <2>2
<1> QED
  BY <1>5 DEF q, r

\* The blocks for n slots: no block is empty, and a file that has blocks for
\* more slots has so many.
LEMMA Rounded ==
    ASSUME NEW S \in Nat \ {0}, NEW n \in Nat
    PROVE  /\ (n + S - 1) \div S \in Nat
           /\ ((n + S - 1) \div S) * S - n \in 0..(S - 1)
           /\ \A L \in Nat : n <= L * S => (n + S - 1) \div S <= L
<1> DEFINE m == n + S - 1
           q == m \div S
           r == m % S
<1>1. m \in Nat /\ n = m - (S - 1)
  OBVIOUS
<1>2. q \in Nat /\ r \in 0..(S - 1) /\ m = S * q + r
  BY <1>1, Division
<1> HIDE DEF q, r
<1>3. q * S - n = (S - 1) - r
  BY <1>1, <1>2
<1>4. q * S - n \in 0..(S - 1)
  BY <1>2, <1>3
<1>5. ASSUME NEW L \in Nat, n <= L * S PROVE q <= L
  <2> SUFFICES ASSUME L + 1 <= q PROVE FALSE
    BY <1>2
  <2>1. (L + 1) * S <= q * S
    BY <1>2
  <2>2. L * S + S <= q * S
    BY <2>1
  <2> QED
    BY <1>3, <1>2, <1>5, <2>2
<1> QED
  BY <1>2, <1>4, <1>5 DEF q

-----------------------------------------------------------------------------
(* The invariant.                                                          *)

Types == {"EMPTY", "FILE", "DIRECTORY"}
Node == [type : Types, size : Nat, first : Refs, refs : 0..(RefMod - 1)]
SlotValue == {NoElem} \cup {Elem(i, n) : i \in Inodes \ {Root}, n \in Names}
Image == [node : [Inodes -> Node], map : [Blocks -> BOOLEAN], next : [Blocks -> Refs],
          slot : [Blocks -> [Slots -> SlotValue]], up : BOOLEAN]

\* The list of blocks s starts at f, is linked by next and ends in e.
Thread(next, f, e, s) ==
    /\ s \in Seq(Blocks)
    /\ e \in {Nil, Wild}
    /\ s = <<>> => f = e
    /\ s # <<>> => f = s[1] /\ next[s[Len(s)]] = e
    /\ \A k \in 1..(Len(s) - 1) : next[s[k]] = s[k + 1]
    /\ \A k, l \in 1..Len(s) : s[k] = s[l] => k = l

\* Block b is in the list s.
Has(s, b) == \E k \in 1..Len(s) : s[k] = b

\* c[i] are the blocks of inode i and e[i] is their end: no block is in two
\* of the lists, the map marks those that are in one, the others lead nowhere.
Linked(d, c, e) ==
    /\ d \in Image
    /\ c \in [Inodes -> Seq(Blocks)]
    /\ e \in [Inodes -> {Nil, Wild}]
    /\ \A i \in Inodes : Thread(d.next, d.node[i].first, e[i], c[i])
    /\ \A i, j \in Inodes : \A b \in Blocks : Has(c[i], b) /\ Has(c[j], b) => i = j
    /\ \A b \in Blocks : d.map[b] <=> \E i \in Inodes : Has(c[i], b)
    /\ \A b \in Blocks : ~d.map[b] => d.next[b] = Nil

\* An inode with len blocks that end in end.
Fits(node, len, end) ==
    /\ node.type = "EMPTY" => node.first = Nil /\ node.size = 0
    /\ node.type = "DIRECTORY" => end = Nil
    /\ node.type = "FILE" =>
           IF end = Nil THEN len * SlotsPerBlock - node.size \in 0..(SlotsPerBlock - 1)
                        ELSE node.size = len * SlotsPerBlock

\* The image d is made of the lists c, and every inode has the blocks its type
\* and size call for.
Owns(d, c, e) ==
    /\ Linked(d, c, e)
    /\ IsDir(d, Root)
    /\ \A i \in Inodes : Fits(d.node[i], Len(c[i]), e[i])

\* The lists are those that following the chains reads.
Chains(d) == [i \in Inodes |-> BlocksOf(d, i)]
Ends(d) == [i \in Inodes |-> EndOf(d, i)]
Good(d) == Owns(d, Chains(d), Ends(d))

\* What a command starts from and what it saves.
Inv == Good(disc) /\ disc.up
-----------------------------------------------------------------------------
(* Lists of blocks and the chains they are.                                *)

\* The assumption on the constants, in the form the proofs use it.
LEMMA Sizing ==
    /\ InodesNum \in Nat \ {0} /\ BlocksNum \in Nat \ {0}
    /\ SlotsPerBlock \in Nat \ {0} /\ RefMod \in Nat \ {0, 1}
    /\ Nil \notin Blocks /\ Wild \notin Blocks /\ Nil # Wild
    /\ Nil \in Refs /\ Wild \in Refs /\ Blocks \subseteq Refs
    /\ Root \in Inodes /\ -1 \notin Inodes
BY DiscAssumption DEF Nil, Wild, Blocks, Refs, Root, Inodes

\* A list without repetition is no longer than the disc.
LEMMA ThreadFits ==
    ASSUME NEW next, NEW f, NEW e, NEW s, Thread(next, f, e, s)
    PROVE  Len(s) \in Nat /\ Len(s) <= BlocksNum
<1>1. /\ s \in Seq(Blocks) /\ Len(s) \in Nat
      /\ \A k \in 1..Len(s) : s[k] \in Blocks
      /\ \A k, l \in 1..Len(s) : s[k] = s[l] => k = l
  BY DEF Thread
<1>2. s = [k \in 1..Len(s) |-> s[k]]
  BY <1>1
<1>3. s \in Injection(1..Len(s), Blocks)
  BY <1>1, <1>2 DEF Injection, IsInjective
<1>4. BlocksNum - 1 \in Int /\ 0 \in Int /\ (BlocksNum - 1) - 0 + 1 = BlocksNum
  BY Sizing
<1>5. IsFiniteSet(Blocks) /\ Cardinality(Blocks) = BlocksNum
  <2>1. Blocks = 0..(BlocksNum - 1)
    BY DEF Blocks
  <2> QED
    BY <1>4, <2>1, FS_Interval, Sizing
<1>6. IsFiniteSet(1..Len(s)) /\ Cardinality(1..Len(s)) = Len(s)
  <2> DEFINE L == Len(s)
  <2>1. L \in Nat
    BY <1>1
  <2> HIDE DEF L
  <2>2. IsFiniteSet(1..L) /\ Cardinality(1..L) = IF 1 > L THEN 0 ELSE L - 1 + 1
    BY <2>1, FS_Interval
  <2>3. Cardinality(1..L) = L
    BY <2>1, <2>2
  <2> QED
    BY <2>2, <2>3 DEF L
<1>7. Cardinality(1..Len(s)) <= Cardinality(Blocks)
  BY <1>3, <1>5, FS_Injection DEF ExistsInjection
<1> QED
  BY <1>1, <1>5, <1>6, <1>7

\* The walk along a list reads it, and stays at its end.
LEMMA ChainIs ==
    ASSUME NEW d, d.next \in [Blocks -> Refs], NEW f \in Refs, NEW e, NEW s,
           Thread(d.next, f, e, s)
    PROVE  Chain(d, f) = s /\ ChainEnd(d, f) = e
<1> DEFINE N == BlocksNum
           Step(x) == IF x \in Blocks THEN d.next[x] ELSE x
           Is(g) == g = [n \in 0..N |-> IF n = 0 THEN f ELSE Step(g[n - 1])]
           at == CHOOSE g : Is(g)
           SS == [k \in 0..N |-> Refs]
           G == [k \in 1..N |-> [x \in Refs |-> Step(x)]]
<1>0. N \in Nat /\ 0 \in 0..N
  BY Sizing
<1>1. \A x \in Refs : Step(x) \in Refs
  OBVIOUS
<1>2. f \in SS[0] /\ \A k \in 1..N : \A x \in SS[k - 1] : G[k][x] \in SS[k]
  <2>1. \A k \in 1..N : k \in 0..N /\ k - 1 \in 0..N
    BY <1>0
  <2> QED
    BY <1>0, <1>1, <2>1
<1>3. PICK g : IsLoop(g, N, f, G) /\ \A k \in 0..N : g[k] \in SS[k]
  <2> HIDE DEF G, SS, N
  <2> QED
    BY <1>0, <1>2, Loop
<1>4. Is(g)
  <2>1. \A n \in 0..N : g[n] = IF n = 0 THEN f ELSE G[n][g[n - 1]]
    BY <1>3, Zenon DEF IsLoop
  <2>2. ASSUME NEW n \in 0..N, n # 0 PROVE G[n][g[n - 1]] = Step(g[n - 1])
    <3>1. n \in 1..N /\ n - 1 \in 0..N
      BY <1>0, <2>2
    <3>2. g[n - 1] \in Refs
      BY <1>3, <3>1
    <3> QED
      BY <3>1, <3>2
  <2>3. g = [n \in 0..N |-> g[n]]
    BY <1>3 DEF IsLoop
  <2> QED
    BY <2>1, <2>2, <2>3
<1> HIDE DEF G
<1>5. Is(at)
  <2> HIDE DEF Is
  <2> QED
    BY <1>4
<1>6. at[0] = f /\ \A n \in 1..N : at[n] = Step(at[n - 1])
  <2>1. \A n \in 0..N : at[n] = IF n = 0 THEN f ELSE Step(at[n - 1])
    BY <1>5, Zenon
  <2> HIDE DEF at, Step
  <2> QED
    BY <1>0, <2>1
<1>7. Chain(d, f) = [k \in 1..Cardinality({n \in 0..N : at[n] \in Blocks}) |-> at[k - 1]]
  BY DEF Chain
<1> HIDE DEF at
<1> DEFINE L == Len(s)
           Here(n) == IF n < L THEN s[n + 1] ELSE e
<1>8. L \in Nat /\ L <= N /\ s \in Seq(Blocks) /\ s = [k \in 1..L |-> s[k]]
      /\ \A k \in 1..L : s[k] \in Blocks
  <2>1. L \in Nat /\ L <= N
    BY ThreadFits
  <2>2. s \in Seq(Blocks)
    BY DEF Thread
  <2> QED
    BY <2>1, <2>2
<1>9. e \notin Blocks
  BY Sizing DEF Thread
<1>10. \A n \in 0..N : at[n] = Here(n)
  <2> DEFINE H == {n \in 0..N : at[n] = Here(n)}
  <2>1. 0 \in H
    <3>1. CASE s = <<>>
      BY <1>0, <1>6, <3>1 DEF Thread
    <3>2. CASE s # <<>>
      BY <1>0, <1>6, <1>8, <3>2 DEF Thread
    <3> QED
      BY <3>1, <3>2
  <2>2. ASSUME NEW n \in 1..N, n - 1 \in H PROVE n \in H
    <3>1. n \in 0..N /\ at[n] = Step(Here(n - 1))
      BY <1>6, <2>2
    <3>2. CASE n < L
      <4>1. Here(n - 1) = s[n] /\ Here(n) = s[n + 1] /\ n \in 1..(L - 1)
        BY <3>2, <1>8
      <4>2. d.next[s[n]] = s[n + 1]
        BY <4>1 DEF Thread
      <4> QED
        BY <1>8, <3>1, <4>1, <4>2
    <3>3. CASE n = L
      <4>1. Here(n - 1) = s[L] /\ Here(n) = e /\ s # <<>> /\ s[L] \in Blocks
        BY <3>3, <1>8
      <4>2. d.next[s[L]] = e
        BY <4>1 DEF Thread
      <4> QED
        BY <3>1, <4>1, <4>2
    <3>4. CASE n > L
      <4>1. Here(n - 1) = e /\ Here(n) = e
        BY <3>4, <1>8
      <4> QED
        BY <1>9, <3>1, <4>1
    <3> QED
      BY <1>8, <3>2, <3>3, <3>4
  <2> HIDE DEF H
  <2>3. \A n \in 0..N : n \in H
    BY <1>0, <2>1, <2>2, LoopHolds
  <2> QED
    BY <2>3 DEF H
<1>11. {n \in 0..N : at[n] \in Blocks} = 0..(L - 1)
  <2>1. ASSUME NEW n \in 0..N PROVE at[n] \in Blocks <=> n < L
    <3>1. at[n] = Here(n)
      BY <1>10
    <3>2. CASE n < L
      <4>1. n + 1 \in 1..L
        BY <1>8, <3>2
      <4> QED
        BY <1>8, <3>1, <3>2, <4>1
    <3>3. CASE ~(n < L)
      BY <1>9, <3>1, <3>3
    <3> QED
      BY <3>2, <3>3
  <2> HIDE DEF L, Here
  <2> QED
    BY <1>0, <1>8, <2>1
<1>12. Cardinality(0..(L - 1)) = L
  <2> HIDE DEF L, N, Here
  <2>1. 0 \in Int /\ L - 1 \in Int /\ L \in Nat
    BY <1>8
  <2>2. Cardinality(0..(L - 1)) = IF 0 > L - 1 THEN 0 ELSE (L - 1) - 0 + 1
    BY <2>1, FS_Interval
  <2> QED
    BY <2>1, <2>2
<1>13. Chain(d, f) = s
  <2>1. ASSUME NEW k \in 1..L PROVE at[k - 1] = s[k]
    <3>1. k - 1 \in 0..N /\ k - 1 < L /\ (k - 1) + 1 = k
      BY <1>0, <1>8
    <3> QED
      BY <1>10, <3>1
  <2>2. Chain(d, f) = [k \in 1..L |-> at[k - 1]]
    BY <1>7, <1>11, <1>12
  <2> HIDE DEF L
  <2> QED
    BY <1>8, <2>1, <2>2
<1>14. ChainEnd(d, f) = e
  <2>1. ChainEnd(d, f) = IF s = <<>> THEN f ELSE d.next[s[Len(s)]]
    BY <1>13 DEF ChainEnd, Last
  <2> QED
    BY <2>1 DEF Thread
<1> QED
  BY <1>13, <1>14

\* Only the blocks of a list matter to it.
LEMMA ThreadFrame ==
    ASSUME NEW next, NEW other, NEW f, NEW e, NEW s, Thread(next, f, e, s),
           \A k \in 1..Len(s) : other[s[k]] = next[s[k]]
    PROVE  Thread(other, f, e, s)
<1>1. s \in Seq(Blocks) /\ Len(s) \in Nat
  BY DEF Thread
<1>2. s # <<>> => Len(s) \in 1..Len(s)
  BY <1>1
<1>3. \A k \in 1..(Len(s) - 1) : k \in 1..Len(s)
  BY <1>1
<1> QED
  BY <1>2, <1>3 DEF Thread

\* A block behind the last one.
LEMMA ThreadAppend ==
    ASSUME NEW next, NEW other, NEW f, NEW s, NEW b \in Blocks, NEW g,
           Thread(next, f, Nil, s), ~Has(s, b), other[b] = Nil,
           IF s = <<>> THEN g = b ELSE g = f /\ other[s[Len(s)]] = b,
           \A k \in 1..(Len(s) - 1) : other[s[k]] = next[s[k]]
    PROVE  Thread(other, g, Nil, Append(s, b))
<1> DEFINE t == Append(s, b)
           L == Len(s)
<1>1. s \in Seq(Blocks) /\ L \in Nat /\ (s = <<>> <=> L = 0)
  BY DEF Thread
<1>2. /\ t \in Seq(Blocks) /\ t # <<>> /\ Len(t) = L + 1 /\ t[L + 1] = b
      /\ \A k \in 1..L : t[k] = s[k]
  BY <1>1, AppendProperties
<1> HIDE DEF t
<1>3. g = t[1]
  <2>1. CASE s = <<>>
    BY <1>1, <1>2, <2>1
  <2>2. CASE s # <<>>
    <3>1. 1 \in 1..L
      BY <1>1, <2>2
    <3> QED
      BY <1>2, <2>2, <3>1 DEF Thread
  <2> QED
    BY <2>1, <2>2
<1>4. other[t[Len(t)]] = Nil
  BY <1>2
<1>5. ASSUME NEW k \in 1..(Len(t) - 1) PROVE other[t[k]] = t[k + 1]
  <2>0. k \in 1..L /\ t[k] = s[k]
    BY <1>1, <1>2
  <2>1. CASE k = L
    <3>1. s # <<>>
      BY <1>1, <2>0
    <3> QED
      BY <1>2, <2>0, <2>1, <3>1
  <2>2. CASE k # L
    <3>1. k \in 1..(L - 1) /\ k + 1 \in 1..L
      BY <1>1, <2>0, <2>2
    <3>2. next[s[k]] = s[k + 1]
      BY <3>1 DEF Thread
    <3> QED
      BY <1>2, <2>0, <3>1, <3>2
  <2> QED
    BY <2>1, <2>2
<1>6. ASSUME NEW k \in 1..Len(t), NEW l \in 1..Len(t), t[k] = t[l] PROVE k = l
  <2>1. (k = L + 1 \/ k \in 1..L) /\ (l = L + 1 \/ l \in 1..L)
    BY <1>1, <1>2
  <2>2. \A m \in 1..L : s[m] # b
    BY DEF Has
  <2>3. CASE k = L + 1 /\ l = L + 1
    BY <2>3
  <2>4. CASE k \in 1..L /\ l \in 1..L
    BY <1>2, <1>6, <2>4 DEF Thread
  <2> QED
    BY <1>2, <1>6, <2>1, <2>2, <2>3, <2>4
<1> QED
  BY <1>2, <1>3, <1>4, <1>5, <1>6 DEF Thread, t

\* Another end.
LEMMA ThreadEnd ==
    ASSUME NEW next, NEW other, NEW f, NEW e, NEW s, NEW g, NEW e2 \in {Nil, Wild},
           Thread(next, f, e, s),
           IF s = <<>> THEN g = e2 ELSE g = f /\ other[s[Len(s)]] = e2,
           \A k \in 1..(Len(s) - 1) : other[s[k]] = next[s[k]]
    PROVE  Thread(other, g, e2, s)
BY DEF Thread

\* The rest of a list, and its beginning.
LEMMA RestIs ==
    ASSUME NEW s \in Seq(Blocks), NEW n \in 0..Len(s)
    PROVE  LET t == SubSeq(s, n + 1, Len(s))
           IN  /\ t \in Seq(Blocks) /\ Len(t) = Len(s) - n
               /\ \A k \in 1..(Len(s) - n) : t[k] = s[n + k]
               /\ \A b : Has(t, b) <=> \E k \in (n + 1)..Len(s) : s[k] = b
<1> DEFINE L == Len(s)
           t == SubSeq(s, n + 1, L)
<1>1. L \in Nat /\ n \in Nat /\ n <= L /\ \A k \in 1..L : s[k] \in Blocks
  OBVIOUS
<1>2. t \in Seq(Blocks) /\ Len(t) = L - n /\ \A k \in 1..(L - n) : t[k] = s[n + k]
  <2> HIDE DEF L
  <2>1. n + 1 \in Int /\ L \in Int /\ \A k \in (n + 1)..L : k \in 1..L
    BY <1>1
  <2>2. \A k \in (n + 1)..L : s[k] \in Blocks
    BY <1>1, <2>1
  <2>3. /\ t \in Seq(Blocks)
        /\ Len(t) = IF n + 1 <= L THEN L - (n + 1) + 1 ELSE 0
        /\ \A k \in 1..(L - (n + 1) + 1) : t[k] = s[(n + 1) + k - 1]
    BY <2>1, <2>2, SubSeqProperties
  <2>4. L - (n + 1) + 1 = L - n /\ \A k \in 1..(L - n) : (n + 1) + k - 1 = n + k
    BY <1>1
  <2> QED
    BY <1>1, <2>3, <2>4
<1> HIDE DEF t
<1>3. ASSUME NEW b PROVE Has(t, b) <=> \E k \in (n + 1)..L : s[k] = b
  <2>1. ASSUME NEW k \in 1..Len(t), t[k] = b PROVE \E l \in (n + 1)..L : s[l] = b
    <3>1. n + k \in (n + 1)..L /\ t[k] = s[n + k]
      BY <1>1, <1>2
    <3> QED
      BY <2>1, <3>1
  <2>2. ASSUME NEW k \in (n + 1)..L, s[k] = b PROVE \E l \in 1..Len(t) : t[l] = b
    <3>1. k - n \in 1..(L - n) /\ n + (k - n) = k
      BY <1>1
    <3> QED
      BY <1>2, <2>2, <3>1
  <2> QED
    BY <2>1, <2>2 DEF Has
<1> QED
  BY <1>2, <1>3 DEF t

\* What is left of a list behind its first n blocks is a list.
LEMMA ThreadRest ==
    ASSUME NEW next, NEW f, NEW e, NEW s, NEW g, NEW n \in 0..Len(s), Thread(next, f, e, s),
           g = IF n = 0 THEN f ELSE next[s[n]]
    PROVE  Thread(next, g, e, SubSeq(s, n + 1, Len(s)))
<1> DEFINE L == Len(s)
           t == SubSeq(s, n + 1, L)
<1>1. /\ s \in Seq(Blocks) /\ L \in Nat /\ n \in Nat /\ n <= L
      /\ (s = <<>> <=> L = 0) /\ \A k \in 1..L : s[k] \in Blocks
  BY DEF Thread
<1>2. t \in Seq(Blocks) /\ Len(t) = L - n /\ \A k \in 1..(L - n) : t[k] = s[n + k]
  BY <1>1, RestIs
<1>3. (t = <<>> <=> L = n) /\ Len(t) \in Nat
  <2>1. (t = <<>> <=> Len(t) = 0) /\ Len(t) \in Nat
    <3>1. t \in Seq(Blocks)
      BY <1>2
    <3> HIDE DEF t
    <3> QED
      BY <3>1
  <2>2. L - n = 0 <=> L = n
    BY <1>1
  <2> QED
    BY <1>2, <2>1, <2>2
<1> HIDE DEF t
<1>4. t = <<>> => g = e
  <2> SUFFICES ASSUME L = n PROVE g = e
    BY <1>3
  <2>1. CASE n = 0
    BY <1>1, <2>1 DEF Thread
  <2>2. CASE n # 0
    BY <1>1, <2>2 DEF Thread
  <2> QED
    BY <2>1, <2>2
<1>5. t # <<>> => g = t[1] /\ next[t[Len(t)]] = e
  <2> SUFFICES ASSUME n < L PROVE g = t[1] /\ next[t[Len(t)]] = e
    BY <1>1, <1>3
  <2>1. 1 \in 1..(L - n) /\ L - n \in 1..(L - n) /\ n + (L - n) = L
    BY <1>1
  <2>2. t[1] = s[n + 1] /\ t[Len(t)] = s[L]
    BY <1>2, <2>1
  <2>3. next[s[L]] = e
    BY <1>1 DEF Thread
  <2>4. CASE n = 0
    BY <1>1, <2>2, <2>3, <2>4 DEF Thread
  <2>5. CASE n # 0
    <3>1. n \in 1..(L - 1)
      BY <1>1, <2>5
    <3> QED
      BY <2>2, <2>3, <2>5, <3>1 DEF Thread
  <2> QED
    BY <2>4, <2>5
<1>6. ASSUME NEW k \in 1..(Len(t) - 1) PROVE next[t[k]] = t[k + 1]
  <2>1. /\ k \in 1..(L - n) /\ k + 1 \in 1..(L - n) /\ n + k \in 1..(L - 1)
        /\ n + (k + 1) = (n + k) + 1
    BY <1>1, <1>2
  <2>2. next[s[n + k]] = s[(n + k) + 1]
    BY <2>1 DEF Thread
  <2> QED
    BY <1>2, <2>1, <2>2
<1>7. ASSUME NEW k \in 1..Len(t), NEW l \in 1..Len(t), t[k] = t[l] PROVE k = l
  <2>1. k \in 1..(L - n) /\ l \in 1..(L - n) /\ n + k \in 1..L /\ n + l \in 1..L
    BY <1>1, <1>2
  <2>2. s[n + k] = s[n + l]
    BY <1>2, <1>7, <2>1
  <2>3. n + k = n + l
    BY <2>1, <2>2 DEF Thread
  <2> QED
    BY <1>1, <2>1, <2>3
<1>8. e \in {Nil, Wild}
  BY DEF Thread
<1>9. Thread(next, g, e, t)
  BY <1>2, <1>4, <1>5, <1>6, <1>7, <1>8 DEF Thread
<1> QED
  BY <1>9 DEF t

\* The first n blocks of a list cut behind them are a list that ends in Nil.
LEMMA ThreadStart ==
    ASSUME NEW next, NEW other, NEW f, NEW e, NEW s, NEW g, NEW n \in 0..Len(s),
           Thread(next, f, e, s), n = 0 => g = Nil, n # 0 => g = f /\ other[s[n]] = Nil,
           \A k \in 1..(n - 1) : other[s[k]] = next[s[k]]
    PROVE  /\ Thread(other, g, Nil, SubSeq(s, 1, n))
           /\ Len(SubSeq(s, 1, n)) = n
           /\ \A k \in 1..n : SubSeq(s, 1, n)[k] = s[k]
<1> DEFINE L == Len(s)
           t == SubSeq(s, 1, n)
<1>1. /\ s \in Seq(Blocks) /\ L \in Nat /\ n \in Nat /\ n <= L
      /\ (s = <<>> <=> L = 0) /\ \A k \in 1..L : s[k] \in Blocks
  BY DEF Thread
<1>2. t \in Seq(Blocks) /\ Len(t) = n /\ \A k \in 1..n : t[k] = s[k]
  <2> HIDE DEF L
  <2>1. 1 \in Int /\ n \in Int /\ \A k \in 1..n : k \in 1..L
    BY <1>1
  <2>2. \A k \in 1..n : s[k] \in Blocks
    BY <1>1, <2>1
  <2>3. /\ t \in Seq(Blocks)
        /\ Len(t) = IF 1 <= n THEN n - 1 + 1 ELSE 0
        /\ \A k \in 1..(n - 1 + 1) : t[k] = s[1 + k - 1]
    BY <2>1, <2>2, SubSeqProperties
  <2>4. n - 1 + 1 = n /\ \A k \in 1..n : 1 + k - 1 = k
    BY <1>1
  <2> QED
    BY <1>1, <2>3, <2>4
<1>3. t = <<>> <=> n = 0
  BY <1>1, <1>2
<1> HIDE DEF t
<1>4. n # 0 => g = t[1] /\ other[t[Len(t)]] = Nil
  <2> SUFFICES ASSUME n # 0 PROVE g = t[1] /\ other[t[Len(t)]] = Nil
    OBVIOUS
  <2>1. 1 \in 1..n /\ n \in 1..n /\ s # <<>>
    BY <1>1
  <2> QED
    BY <1>2, <2>1 DEF Thread
<1>5. ASSUME NEW k \in 1..(Len(t) - 1) PROVE other[t[k]] = t[k + 1]
  <2>1. k \in 1..(n - 1) /\ k \in 1..(L - 1) /\ k \in 1..n /\ k + 1 \in 1..n
    BY <1>1, <1>2
  <2>2. next[s[k]] = s[k + 1]
    BY <2>1 DEF Thread
  <2> QED
    BY <1>2, <2>1, <2>2
<1>6. ASSUME NEW k \in 1..Len(t), NEW l \in 1..Len(t), t[k] = t[l] PROVE k = l
  <2>1. k \in 1..n /\ l \in 1..n /\ k \in 1..L /\ l \in 1..L
    BY <1>1, <1>2
  <2> QED
    BY <1>2, <1>6, <2>1 DEF Thread
<1>7. Thread(other, g, Nil, t)
  BY <1>2, <1>3, <1>4, <1>5, <1>6 DEF Thread
<1> QED
  BY <1>2, <1>7 DEF t

-----------------------------------------------------------------------------
(* The image as lists of blocks.                                           *)

\* There is one way only to see an image as lists: its chains.
LEMMA LinkedChains ==
    ASSUME NEW d, NEW c, NEW e, Linked(d, c, e)
    PROVE  /\ \A i \in Inodes : BlocksOf(d, i) = c[i] /\ EndOf(d, i) = e[i]
           /\ Chains(d) = c /\ Ends(d) = e
<1>1. \A i \in Inodes : BlocksOf(d, i) = c[i] /\ EndOf(d, i) = e[i]
  <2> SUFFICES ASSUME NEW i \in Inodes PROVE BlocksOf(d, i) = c[i] /\ EndOf(d, i) = e[i]
    OBVIOUS
  <2>1. d.next \in [Blocks -> Refs] /\ d.node[i].first \in Refs
    BY DEF Linked, Image, Node
  <2>2. Thread(d.next, d.node[i].first, e[i], c[i])
    BY DEF Linked
  <2> QED
    BY <2>1, <2>2, ChainIs DEF BlocksOf, EndOf
<1>2. c = [i \in Inodes |-> c[i]] /\ e = [i \in Inodes |-> e[i]]
  BY DEF Linked
<1> QED
  BY <1>1, <1>2 DEF Chains, Ends

\* Linked looks at first, next and the map.
LEMMA LinkedSame ==
    ASSUME NEW d, NEW c, NEW e, NEW r \in Image, Linked(d, c, e), r.next = d.next,
           r.map = d.map, \A i \in Inodes : r.node[i].first = d.node[i].first
    PROVE  Linked(r, c, e)
BY DEF Linked

\* What one list of a linked image looks like.
LEMMA LinkedList ==
    ASSUME NEW d, NEW c, NEW e, Linked(d, c, e), NEW i \in Inodes
    PROVE  /\ c[i] \in Seq(Blocks) /\ Len(c[i]) \in Nat
           /\ c[i] = <<>> <=> Len(c[i]) = 0
           /\ \A k \in 1..Len(c[i]) : c[i][k] \in Blocks /\ d.map[c[i][k]]
           /\ \A j \in Inodes : j # i =>
                  \A k \in 1..Len(c[i]), l \in 1..Len(c[j]) : c[i][k] # c[j][l]
           /\ Thread(d.next, d.node[i].first, e[i], c[i])
           /\ e[i] \in {Nil, Wild}
<1>1. c[i] \in Seq(Blocks) /\ Thread(d.next, d.node[i].first, e[i], c[i]) /\ e[i] \in {Nil, Wild}
  BY DEF Linked
<1>2. \A k \in 1..Len(c[i]) : c[i][k] \in Blocks /\ Has(c[i], c[i][k])
  BY <1>1 DEF Has
<1>3. \A k \in 1..Len(c[i]) : d.map[c[i][k]]
  BY <1>2 DEF Linked
<1>4. ASSUME NEW j \in Inodes, j # i, NEW k \in 1..Len(c[i]), NEW l \in 1..Len(c[j])
      PROVE  c[i][k] # c[j][l]
  <2>1. Has(c[i], c[i][k]) /\ Has(c[j], c[j][l])
    BY DEF Has
  <2> QED
    BY <1>2, <1>4, <2>1 DEF Linked
<1> QED
  BY <1>1, <1>2, <1>3, <1>4

\* The parts of an image and their types.
LEMMA ImageParts ==
    ASSUME NEW d \in Image
    PROVE  /\ d.node \in [Inodes -> Node] /\ d.map \in [Blocks -> BOOLEAN]
           /\ d.next \in [Blocks -> Refs] /\ d.slot \in [Blocks -> [Slots -> SlotValue]]
           /\ d.up \in BOOLEAN
           /\ \A i \in Inodes : /\ d.node[i].type \in Types /\ d.node[i].size \in Nat
                                /\ d.node[i].first \in Refs /\ d.node[i].refs \in 0..(RefMod - 1)
BY DEF Image, Node

\* What Attach does, part by part.
LEMMA AttachParts ==
    ASSUME NEW d, NEW c, NEW e, Linked(d, c, e), NEW i \in Inodes, NEW b \in Refs
    PROVE  LET r == Attach(d, i, b)
           IN  /\ r \in Image
               /\ r.map = d.map /\ r.slot = d.slot /\ r.up = d.up
               /\ \A j \in Inodes : /\ r.node[j].type = d.node[j].type
                                    /\ r.node[j].size = d.node[j].size
                                    /\ r.node[j].refs = d.node[j].refs
                                    /\ j # i => r.node[j] = d.node[j]
               /\ c[i] = <<>> => r.next = d.next /\ r.node[i].first = b
               /\ c[i] # <<>> => r.node = d.node /\ r.next = [d.next EXCEPT ![c[i][Len(c[i])]] = b]
<1>1. BlocksOf(d, i) = c[i]
  BY LinkedChains
<1>2. d \in Image
  BY DEF Linked
<1>3. CASE c[i] = <<>>
  <2> DEFINE r == [d EXCEPT !.node[i].first = b]
  <2>1. Attach(d, i, b) = r
    BY <1>1, <1>3 DEF Attach
  <2>2. d.node \in [Inodes -> Node] /\ d.node[i] \in Node
    BY <1>2 DEF Image
  <2>3. [d.node[i] EXCEPT !.first = b] \in Node
    BY <2>2 DEF Node
  <2>4. [d.node EXCEPT ![i].first = b] \in [Inodes -> Node]
    BY <2>2, <2>3
  <2>5. r \in Image
    BY <1>2, <2>4 DEF Image
  <2>6. r.map = d.map /\ r.slot = d.slot /\ r.up = d.up /\ r.next = d.next
        /\ r.node = [d.node EXCEPT ![i].first = b]
    BY <1>2 DEF Image
  <2>7. \A j \in Inodes : j # i => r.node[j] = d.node[j]
    BY <2>2, <2>6
  <2>8. r.node[i] = [d.node[i] EXCEPT !.first = b]
    BY <2>2, <2>6
  <2>9. r.node[i].type = d.node[i].type /\ r.node[i].size = d.node[i].size
        /\ r.node[i].refs = d.node[i].refs /\ r.node[i].first = b
    BY <2>2, <2>8 DEF Node
  <2> HIDE DEF r
  <2> QED
    BY <1>3, <2>1, <2>5, <2>6, <2>7, <2>9
<1>4. CASE c[i] # <<>>
  <2> DEFINE x == c[i][Len(c[i])]
             r == [d EXCEPT !.next[x] = b]
  <2>1. Attach(d, i, b) = r
    BY <1>1, <1>4 DEF Attach, Last
  <2>2. r.next = [d.next EXCEPT ![x] = b] /\ r.node = d.node /\ r.map = d.map /\ r.slot = d.slot
        /\ r.up = d.up
    BY <1>2 DEF Image
  <2>3. [d.next EXCEPT ![x] = b] \in [Blocks -> Refs]
    BY <1>2 DEF Image
  <2>4. r \in Image
    BY <1>2, <2>3 DEF Image
  <2> HIDE DEF r
  <2> QED
    BY <1>4, <2>1, <2>2, <2>4
<1> QED
  BY <1>3, <1>4

\* The parts of a linked image, put together from its lists.
LEMMA LinkedFrom ==
    ASSUME NEW d \in Image, NEW c \in [Inodes -> Seq(Blocks)], NEW e \in [Inodes -> {Nil, Wild}],
           \A i \in Inodes : Thread(d.next, d.node[i].first, e[i], c[i]),
           \A i, j \in Inodes : \A b \in Blocks : Has(c[i], b) /\ Has(c[j], b) => i = j,
           \A b \in Blocks : d.map[b] <=> \E i \in Inodes : Has(c[i], b),
           \A b \in Blocks : ~d.map[b] => d.next[b] = Nil
    PROVE  Linked(d, c, e)
BY DEF Linked

\* data_map_set() changes one entry of the map.
LEMMA Marked ==
    ASSUME NEW a \in Image, NEW b \in Blocks
    PROVE  LET r == [a EXCEPT !.map[b] = TRUE]
           IN  /\ r \in Image /\ r.map = [a.map EXCEPT ![b] = TRUE]
               /\ r.node = a.node /\ r.next = a.next /\ r.slot = a.slot /\ r.up = a.up
<1> DEFINE map == [a.map EXCEPT ![b] = TRUE]
<1>1. a.map \in [Blocks -> BOOLEAN]
  BY DEF Image
<1>2. map \in [Blocks -> BOOLEAN]
  BY <1>1
<1> HIDE DEF map
<1>3. [a EXCEPT !.map = map] \in Image
  BY <1>2 DEF Image
<1>4. /\ [a EXCEPT !.map = map].map = map
      /\ [a EXCEPT !.map = map].node = a.node /\ [a EXCEPT !.map = map].next = a.next
      /\ [a EXCEPT !.map = map].slot = a.slot /\ [a EXCEPT !.map = map].up = a.up
  BY DEF Image
<1> QED
  BY ONLY <1>3, <1>4 DEF map

\* What Take does to the rest of the image.
LEMMA TakeParts ==
    ASSUME NEW d, NEW c, NEW e, Linked(d, c, e), NEW i \in Inodes, NEW b \in Blocks
    PROVE  LET r == Take(d, i, b)
           IN  /\ r \in Image /\ r.slot = d.slot /\ r.up = d.up
               /\ \A j \in Inodes : /\ r.node[j].type = d.node[j].type
                                    /\ r.node[j].size = d.node[j].size
                                    /\ r.node[j].refs = d.node[j].refs
                                    /\ j # i => r.node[j] = d.node[j]
<1> DEFINE a == Attach(d, i, b)
           r == Take(d, i, b)
<1>0. b \in Refs
  BY Sizing
<1>1. /\ a \in Image /\ a.slot = d.slot /\ a.up = d.up
      /\ \A j \in Inodes : /\ a.node[j].type = d.node[j].type
                           /\ a.node[j].size = d.node[j].size
                           /\ a.node[j].refs = d.node[j].refs
                           /\ j # i => a.node[j] = d.node[j]
      /\ c[i] = <<>> => a.next = d.next /\ a.node[i].first = b
      /\ c[i] # <<>> => a.node = d.node /\ a.next = [d.next EXCEPT ![c[i][Len(c[i])]] = b]
  BY <1>0, AttachParts
<1>2. r = [a EXCEPT !.map[b] = TRUE]
  BY DEF Take
<1> HIDE DEF a
<1>3. /\ r \in Image /\ r.node = a.node /\ r.slot = a.slot /\ r.up = a.up
  BY ONLY <1>1, <1>2, b \in Blocks, Marked
<1> HIDE DEF r
<1> QED
  BY <1>1, <1>3 DEF r

\* A free block goes to inode i.
LEMMA LinkedTake ==
    ASSUME NEW d, NEW c, NEW e, Linked(d, c, e), NEW i \in Inodes, e[i] = Nil,
           NEW b \in Blocks, ~d.map[b]
    PROVE  Linked(Take(d, i, b), [c EXCEPT ![i] = Append(@, b)], e)
<1> DEFINE a == Attach(d, i, b)
           r == Take(d, i, b)
           s == c[i]
           t == Append(s, b)
           c2 == [c EXCEPT ![i] = t]
<1>0. b \in Refs
  BY Sizing
<1>1. /\ a \in Image /\ a.map = d.map /\ a.slot = d.slot /\ a.up = d.up
      /\ \A j \in Inodes : /\ a.node[j].type = d.node[j].type
                           /\ a.node[j].size = d.node[j].size
                           /\ a.node[j].refs = d.node[j].refs
                           /\ j # i => a.node[j] = d.node[j]
      /\ s = <<>> => a.next = d.next /\ a.node[i].first = b
      /\ s # <<>> => a.node = d.node /\ a.next = [d.next EXCEPT ![s[Len(s)]] = b]
  BY <1>0, AttachParts
<1>2. r = [a EXCEPT !.map[b] = TRUE]
  BY DEF Take
<1> HIDE DEF a
<1>3. /\ r \in Image /\ r.map = [d.map EXCEPT ![b] = TRUE]
      /\ r.node = a.node /\ r.next = a.next /\ r.slot = a.slot /\ r.up = a.up
  BY ONLY <1>1, <1>2, b \in Blocks, Marked
<1> HIDE DEF r
<1>4. /\ s \in Seq(Blocks) /\ Len(s) \in Nat /\ (s = <<>> <=> Len(s) = 0)
      /\ \A k \in 1..Len(s) : s[k] \in Blocks /\ d.map[s[k]]
      /\ Thread(d.next, d.node[i].first, Nil, s)
  BY LinkedList
<1>5. ~Has(s, b) /\ d.next[b] = Nil /\ d.next \in [Blocks -> Refs] /\ d.map \in [Blocks -> BOOLEAN]
  BY <1>4 DEF Has, Linked, Image
<1>6. t \in Seq(Blocks) /\ \A x : Has(t, x) <=> Has(s, x) \/ x = b
  <2>1. t \in Seq(Blocks) /\ Len(t) = Len(s) + 1 /\ t[Len(s) + 1] = b
        /\ \A k \in 1..Len(s) : t[k] = s[k]
    BY <1>4, AppendProperties
  <2> HIDE DEF t
  <2>2. ASSUME NEW x PROVE Has(t, x) <=> Has(s, x) \/ x = b
    <3>1. Has(s, x) => Has(t, x)
      <4> SUFFICES ASSUME NEW k \in 1..Len(s), s[k] = x PROVE Has(t, x)
        BY DEF Has
      <4>1. k \in 1..Len(t)
        BY <1>4, <2>1
      <4> QED
        BY <2>1, <4>1 DEF Has
    <3>2. Has(t, b)
      <4>1. Len(s) + 1 \in 1..Len(t)
        BY <1>4, <2>1
      <4> QED
        BY <2>1, <4>1 DEF Has
    <3>3. Has(t, x) => Has(s, x) \/ x = b
      <4> SUFFICES ASSUME NEW k \in 1..Len(t), t[k] = x PROVE Has(s, x) \/ x = b
        BY DEF Has
      <4>1. k \in 1..Len(s) \/ k = Len(s) + 1
        BY <1>4, <2>1
      <4> QED
        BY <2>1, <4>1 DEF Has
    <3> QED
      BY <3>1, <3>2, <3>3
  <2> QED
    BY <2>1, <2>2
<1>7. s # <<>> => s[Len(s)] # b /\ s[Len(s)] \in Blocks /\ d.map[s[Len(s)]]
  <2>1. s # <<>> => Len(s) \in 1..Len(s)
    BY <1>4
  <2> QED
    BY <1>4, <1>5, <2>1 DEF Has
<1>8. /\ c2 \in [Inodes -> Seq(Blocks)] /\ c2[i] = t
      /\ \A j \in Inodes : j # i => c2[j] = c[j]
  BY <1>6 DEF Linked
<1>9. \A y \in Blocks : r.next[y] = IF s # <<>> /\ y = s[Len(s)] THEN b ELSE d.next[y]
  BY <1>1, <1>3, <1>5, <1>7
<1>10. ASSUME NEW j \in Inodes PROVE Thread(r.next, r.node[j].first, e[j], c2[j])
  <2>1. CASE j = i
    <3>1. \A k \in 1..(Len(s) - 1) : r.next[s[k]] = d.next[s[k]]
      <4> SUFFICES ASSUME NEW k \in 1..(Len(s) - 1) PROVE r.next[s[k]] = d.next[s[k]]
        OBVIOUS
      <4>1. k \in 1..Len(s) /\ Len(s) \in 1..Len(s) /\ k # Len(s)
        BY <1>4
      <4>2. s[k] \in Blocks /\ s[k] # s[Len(s)]
        BY <1>4, <4>1 DEF Thread
      <4> QED
        BY <1>9, <4>2
    <3>2. r.next[b] = Nil
      BY <1>5, <1>7, <1>9
    <3>3. IF s = <<>> THEN r.node[i].first = b
                      ELSE r.node[i].first = d.node[i].first /\ r.next[s[Len(s)]] = b
      BY <1>1, <1>3, <1>7, <1>9
    <3>4. Thread(r.next, r.node[i].first, Nil, Append(s, b))
      <4> DEFINE g == r.node[i].first
                 f == d.node[i].first
                 other == r.next
                 next == d.next
      <4>1. Thread(next, f, Nil, s) /\ ~Has(s, b) /\ other[b] = Nil
        BY <1>4, <1>5, <3>2
      <4>2. IF s = <<>> THEN g = b ELSE g = f /\ other[s[Len(s)]] = b
        BY <3>3
      <4>3. \A k \in 1..(Len(s) - 1) : other[s[k]] = next[s[k]]
        BY <3>1
      <4> HIDE DEF g, f, other, next, s
      <4>4. Thread(other, g, Nil, Append(s, b))
        BY <4>1, <4>2, <4>3, ThreadAppend
      <4> QED
        BY <4>4 DEF g, other
    <3> QED
      BY <1>8, <2>1, <3>4
  <2>2. CASE j # i
    <3>1. Thread(d.next, d.node[j].first, e[j], c[j])
      BY LinkedList
    <3>2. \A k \in 1..Len(c[j]) : r.next[c[j][k]] = d.next[c[j][k]]
      <4> SUFFICES ASSUME NEW k \in 1..Len(c[j]) PROVE r.next[c[j][k]] = d.next[c[j][k]]
        OBVIOUS
      <4>1. c[j][k] \in Blocks
        BY LinkedList
      <4>2. s # <<>> => c[j][k] # s[Len(s)]
        <5> SUFFICES ASSUME s # <<>> PROVE c[j][k] # s[Len(s)]
          OBVIOUS
        <5>1. Len(s) \in 1..Len(s)
          BY <1>4
        <5> QED
          BY <2>2, <5>1, LinkedList
      <4> QED
        BY <1>9, <4>1, <4>2
    <3>3. r.node[j].first = d.node[j].first /\ c2[j] = c[j]
      BY <1>1, <1>3, <1>8, <2>2
    <3> QED
      BY <3>1, <3>2, <3>3, ThreadFrame
  <2> QED
    BY <2>1, <2>2
<1>11. \A j \in Inodes : \A y : Has(c2[j], y) <=> Has(c[j], y) \/ (j = i /\ y = b)
  BY <1>6, <1>8
<1>12. \A j \in Inodes : ~Has(c[j], b)
  BY DEF Linked
<1>13. \A j, l \in Inodes : \A y \in Blocks : Has(c2[j], y) /\ Has(c2[l], y) => j = l
  BY <1>11, <1>12 DEF Linked
<1>14. \A y \in Blocks : r.map[y] <=> \E j \in Inodes : Has(c2[j], y)
  <2>1. \A y \in Blocks : d.map[y] <=> \E j \in Inodes : Has(c[j], y)
    BY DEF Linked
  <2>2. \A y \in Blocks : r.map[y] <=> d.map[y] \/ y = b
    BY <1>3, <1>5
  <2> QED
    BY <1>11, <2>1, <2>2
<1>15. \A y \in Blocks : ~r.map[y] => r.next[y] = Nil
  <2>1. \A y \in Blocks : r.map[y] <=> d.map[y] \/ y = b
    BY <1>3, <1>5
  <2>2. \A y \in Blocks : ~d.map[y] => d.next[y] = Nil
    BY DEF Linked
  <2> QED
    BY <1>7, <1>9, <2>1, <2>2
<1>16. Linked(r, c2, e)
  <2>1. e \in [Inodes -> {Nil, Wild}]
    BY DEF Linked
  <2> HIDE DEF c2
  <2> QED
    BY <1>3, <1>8, <1>10, <1>13, <1>14, <1>15, <2>1, LinkedFrom
<1> QED
  BY <1>16 DEF r

\* Wild goes behind the blocks of inode i.
LEMMA LinkedWild ==
    ASSUME NEW d, NEW c, NEW e, NEW i \in Inodes, Linked(d, c, e)
    PROVE  Linked(Attach(d, i, Wild), c, [e EXCEPT ![i] = Wild])
<1> DEFINE r == Attach(d, i, Wild)
           s == c[i]
           e2 == [e EXCEPT ![i] = Wild]
<1>0. Wild \in Refs /\ Wild \in {Nil, Wild}
  BY Sizing
<1>1. /\ r \in Image /\ r.map = d.map
      /\ \A j \in Inodes : j # i => r.node[j] = d.node[j]
      /\ s = <<>> => r.next = d.next /\ r.node[i].first = Wild
      /\ s # <<>> => r.node = d.node /\ r.next = [d.next EXCEPT ![s[Len(s)]] = Wild]
  BY <1>0, AttachParts
<1> HIDE DEF r
<1>2. /\ s \in Seq(Blocks) /\ Len(s) \in Nat /\ (s = <<>> <=> Len(s) = 0)
      /\ \A k \in 1..Len(s) : s[k] \in Blocks /\ d.map[s[k]]
      /\ Thread(d.next, d.node[i].first, e[i], s)
  BY LinkedList
<1>3. d.next \in [Blocks -> Refs]
  BY DEF Linked, Image
<1>4. s # <<>> => Len(s) \in 1..Len(s) /\ s[Len(s)] \in Blocks /\ d.map[s[Len(s)]]
  <2>1. s # <<>> => Len(s) \in 1..Len(s)
    BY <1>2
  <2> QED
    BY <1>2, <2>1
<1>5. \A y \in Blocks : r.next[y] = IF s # <<>> /\ y = s[Len(s)] THEN Wild ELSE d.next[y]
  BY <1>1, <1>3, <1>4
<1>6. /\ e2 \in [Inodes -> {Nil, Wild}] /\ e2[i] = Wild
      /\ \A j \in Inodes : j # i => e2[j] = e[j]
  BY <1>0 DEF Linked
<1>7. ASSUME NEW j \in Inodes PROVE Thread(r.next, r.node[j].first, e2[j], c[j])
  <2>1. CASE j = i
    <3>1. \A k \in 1..(Len(s) - 1) : r.next[s[k]] = d.next[s[k]]
      <4> SUFFICES ASSUME NEW k \in 1..(Len(s) - 1) PROVE r.next[s[k]] = d.next[s[k]]
        OBVIOUS
      <4>1. k \in 1..Len(s) /\ Len(s) \in 1..Len(s) /\ k # Len(s)
        BY <1>2
      <4>2. s[k] \in Blocks /\ s[k] # s[Len(s)]
        BY <1>2, <4>1 DEF Thread
      <4> QED
        BY <1>5, <4>2
    <3>2. IF s = <<>> THEN r.node[i].first = Wild
                      ELSE r.node[i].first = d.node[i].first /\ r.next[s[Len(s)]] = Wild
      BY <1>1, <1>4, <1>5
    <3>3. Thread(r.next, r.node[i].first, Wild, s)
      <4> DEFINE g == r.node[i].first
                 next == r.next
      <4> HIDE DEF g, next, s
      <4> QED
        BY <1>0, <1>2, <3>1, <3>2, ThreadEnd DEF g, next
    <3> QED
      BY <1>6, <2>1, <3>3
  <2>2. CASE j # i
    <3>1. Thread(d.next, d.node[j].first, e[j], c[j])
      BY LinkedList
    <3>2. \A k \in 1..Len(c[j]) : r.next[c[j][k]] = d.next[c[j][k]]
      <4> SUFFICES ASSUME NEW k \in 1..Len(c[j]) PROVE r.next[c[j][k]] = d.next[c[j][k]]
        OBVIOUS
      <4>1. c[j][k] \in Blocks
        BY LinkedList
      <4>2. s # <<>> => c[j][k] # s[Len(s)]
        BY <1>4, <2>2, LinkedList
      <4> QED
        BY <1>5, <4>1, <4>2
    <3>3. r.node[j].first = d.node[j].first
      BY <1>1, <2>2
    <3> QED
      BY <1>6, <2>2, <3>1, <3>2, <3>3, ThreadFrame
  <2> QED
    BY <2>1, <2>2
<1>8. \A y \in Blocks : ~r.map[y] => r.next[y] = Nil
  BY <1>1, <1>4, <1>5 DEF Linked
<1>9. /\ c \in [Inodes -> Seq(Blocks)]
      /\ \A j, l \in Inodes : \A y \in Blocks : Has(c[j], y) /\ Has(c[l], y) => j = l
      /\ \A y \in Blocks : r.map[y] <=> \E j \in Inodes : Has(c[j], y)
  BY <1>1 DEF Linked
<1>10. Linked(r, c, e2)
  <2> HIDE DEF e2
  <2> QED
    BY <1>1, <1>6, <1>7, <1>8, <1>9, LinkedFrom
<1> QED
  BY <1>10 DEF r

\* Nil behind the blocks of an inode changes nothing.
LEMMA AttachNil ==
    ASSUME NEW d, NEW c, NEW e, NEW i \in Inodes, Linked(d, c, e), e[i] = Nil
    PROVE  Attach(d, i, Nil) = d
<1>1. BlocksOf(d, i) = c[i] /\ d \in Image
  <2>1. BlocksOf(d, i) = c[i]
    BY LinkedChains
  <2> QED
    BY <2>1 DEF Linked
<1>2. Thread(d.next, d.node[i].first, Nil, c[i])
  BY LinkedList
<1>3. CASE c[i] = <<>>
  <2>1. d.node[i].first = Nil
    BY <1>2, <1>3 DEF Thread
  <2>2. [d.node[i] EXCEPT !.first = Nil] = d.node[i]
    <3>1. d.node[i] \in Node
      BY <1>1 DEF Image
    <3> QED
      BY <2>1, <3>1 DEF Node
  <2>3. [d.node EXCEPT ![i].first = Nil] = d.node
    <3>1. d.node \in [Inodes -> Node]
      BY <1>1 DEF Image
    <3> QED
      BY <2>2, <3>1
  <2>4. [d EXCEPT !.node[i].first = Nil] = d
    BY <1>1, <2>3 DEF Image
  <2> QED
    BY <1>1, <1>3, <2>4 DEF Attach
<1>4. CASE c[i] # <<>>
  <2> DEFINE x == c[i][Len(c[i])]
  <2>1. d.next[x] = Nil
    BY <1>2, <1>4 DEF Thread
  <2>2. [d.next EXCEPT ![x] = Nil] = d.next
    <3>1. d.next \in [Blocks -> Refs]
      BY <1>1 DEF Image
    <3> HIDE DEF x
    <3> QED
      BY <2>1, <3>1
  <2>3. [d EXCEPT !.next[x] = Nil] = d
    BY <1>1, <2>2 DEF Image
  <2> QED
    BY <1>1, <1>4, <2>3 DEF Attach, Last
<1> QED
  BY <1>3, <1>4

\* The blocks of a list behind the n first.
Behind(s, n) == {s[k] : k \in (n + 1)..Len(s)}

\* What Shorten does, part by part.
LEMMA ShortenParts ==
    ASSUME NEW d, NEW c, NEW e, Linked(d, c, e), NEW i \in Inodes, e[i] = Nil,
           NEW n \in 0..Len(c[i])
    PROVE  LET r == Shorten(d, i, n)
               freed == Behind(c[i], n)
           IN  /\ r \in Image /\ r.slot = d.slot /\ r.up = d.up
               /\ \A j \in Inodes : /\ r.node[j].type = d.node[j].type
                                    /\ r.node[j].size = d.node[j].size
                                    /\ r.node[j].refs = d.node[j].refs
                                    /\ j # i => r.node[j] = d.node[j]
               /\ r.node[i].first = IF n = 0 THEN Nil ELSE d.node[i].first
               /\ \A y \in Blocks : r.map[y] <=> y \notin freed /\ d.map[y]
               /\ \A y \in Blocks : r.next[y] =
                      IF y \in freed \/ (n # 0 /\ y = c[i][n]) THEN Nil ELSE d.next[y]
<1> DEFINE s == c[i]
           freed == Behind(s, n)
           f == IF n = 0 THEN d.node[i].first ELSE d.next[s[n]]
           next2 == [x \in Blocks |-> IF x \in freed THEN Nil ELSE d.next[x]]
           map2 == [x \in Blocks |-> x \notin freed /\ d.map[x]]
           m == [d EXCEPT !.next = next2, !.map = map2]
           r == Shorten(d, i, n)
<1>1. /\ s \in Seq(Blocks) /\ Len(s) \in Nat
      /\ \A k \in 1..Len(s) : s[k] \in Blocks
      /\ Thread(d.next, d.node[i].first, Nil, s)
  BY LinkedList
<1>2. /\ d \in Image /\ d.next \in [Blocks -> Refs] /\ d.node \in [Inodes -> Node]
      /\ d.map \in [Blocks -> BOOLEAN] /\ d.node[i] \in Node /\ d.node[i].first \in Refs
  BY DEF Linked, Image, Node
<1>3. n # 0 => s[n] \in Blocks
  <2>1. n # 0 => n \in 1..Len(s)
    BY <1>1
  <2> QED
    BY <1>1, <2>1
<1>4. f \in Refs
  BY <1>2, <1>3
<1>5. /\ Thread(d.next, f, Nil, SubSeq(s, n + 1, Len(s)))
      /\ \A b : Has(SubSeq(s, n + 1, Len(s)), b) <=> \E k \in (n + 1)..Len(s) : s[k] = b
  <2>1. f = IF n = 0 THEN d.node[i].first ELSE d.next[s[n]]
    OBVIOUS
  <2>2. n \in 0..Len(s)
    OBVIOUS
  <2> DEFINE first == d.node[i].first
             next == d.next
  <2>3. Thread(next, first, Nil, s) /\ f = IF n = 0 THEN first ELSE next[s[n]]
    BY <1>1, <2>1
  <2> HIDE DEF s, f, first, next
  <2>4. Thread(next, f, Nil, SubSeq(s, n + 1, Len(s)))
    BY <2>2, <2>3, ThreadRest
  <2>5. \A b : Has(SubSeq(s, n + 1, Len(s)), b) <=> \E k \in (n + 1)..Len(s) : s[k] = b
    BY <1>1, <2>2, RestIs
  <2> QED
    BY <2>4, <2>5 DEF next
<1>6. Chain(d, f) = SubSeq(s, n + 1, Len(s)) /\ ChainEnd(d, f) = Nil
  <2> HIDE DEF f
  <2> QED
    BY <1>2, <1>4, <1>5, ChainIs, ZenonT(60)
<1>7. ToSet(Chain(d, f)) = freed
  <2> DEFINE t == SubSeq(s, n + 1, Len(s))
  <2>1. t \in Seq(Blocks)
    BY <1>5 DEF Thread
  <2> HIDE DEF t
  <2>2. ToSet(t) = {b \in Blocks : Has(t, b)}
    BY <2>1 DEF ToSet, Has
  <2>3. \A b : Has(t, b) <=> b \in freed
    BY <1>5 DEF t, Behind
  <2>4. freed \subseteq Blocks
    BY <1>1 DEF Behind
  <2> QED
    BY <1>6, <2>2, <2>3, <2>4 DEF t
<1>8. Dealloc(d, f) = m
  <2>1. Nil # Wild
    BY Sizing
  <2> HIDE DEF f
  <2> QED
    BY <1>6, <1>7, <2>1 DEF Dealloc
<1>9. m \in Image /\ m.next = next2 /\ m.map = map2 /\ m.node = d.node /\ m.slot = d.slot /\ m.up = d.up
  <2>1. next2 \in [Blocks -> Refs] /\ map2 \in [Blocks -> BOOLEAN]
    BY <1>2, Sizing
  <2> HIDE DEF next2, map2
  <2> QED
    BY <1>2, <2>1 DEF Image
<1>10. BlocksOf(d, i) = s
  BY ONLY Linked(d, c, e), i \in Inodes, LinkedChains, SMTT(60) DEF s
<1>11. r = IF n = 0 THEN [m EXCEPT !.node[i].first = Nil] ELSE [m EXCEPT !.next[s[n]] = Nil]
  BY <1>8, <1>10, Zenon DEF Shorten
<1> HIDE DEF m, r, f
<1>12. CASE n = 0
  <2> DEFINE node2 == [d.node EXCEPT ![i].first = Nil]
  <2>1. node2 \in [Inodes -> Node] /\ node2[i] = [d.node[i] EXCEPT !.first = Nil]
        /\ \A j \in Inodes : j # i => node2[j] = d.node[j]
    <3>1. [d.node[i] EXCEPT !.first = Nil] \in Node
      BY <1>2, Sizing DEF Node
    <3> QED
      BY <1>2, <3>1
  <2>2. r \in Image /\ r.node = node2 /\ r.map = map2 /\ r.next = next2 /\ r.slot = d.slot /\ r.up = d.up
    <3>1. r = [m EXCEPT !.node = node2]
      BY <1>9, <1>11, <1>12
    <3> HIDE DEF node2, next2, map2
    <3> QED
      BY <1>9, <2>1, <3>1 DEF Image
  <2>3. /\ r.node[i].type = d.node[i].type /\ r.node[i].size = d.node[i].size
        /\ r.node[i].refs = d.node[i].refs /\ r.node[i].first = Nil
    <3> HIDE DEF node2, next2, map2
    <3> QED
      BY <1>2, <2>1, <2>2 DEF Node
  <2>4. \A y \in Blocks : /\ r.map[y] <=> y \notin freed /\ d.map[y]
                          /\ r.next[y] = IF y \in freed THEN Nil ELSE d.next[y]
    BY <2>2
  <2> HIDE DEF node2, next2, map2
  <2> QED
    BY <1>12, <2>1, <2>2, <2>3, <2>4 DEF r
<1>13. CASE n # 0
  <2> DEFINE next3 == [next2 EXCEPT ![s[n]] = Nil]
  <2>1. /\ next3 \in [Blocks -> Refs]
        /\ \A y \in Blocks : next3[y] = IF y \in freed \/ y = s[n] THEN Nil ELSE d.next[y]
    BY <1>2, <1>3, <1>13, Sizing
  <2>2. r \in Image /\ r.node = d.node /\ r.map = map2 /\ r.next = next3 /\ r.slot = d.slot /\ r.up = d.up
    <3>1. r = [m EXCEPT !.next = next3]
      BY <1>9, <1>11, <1>13
    <3> HIDE DEF next3, next2, map2
    <3> QED
      BY <1>9, <2>1, <3>1 DEF Image
  <2>3. \A y \in Blocks : r.map[y] <=> y \notin freed /\ d.map[y]
    BY <2>2
  <2> HIDE DEF next3, next2, map2
  <2> QED
    BY <1>13, <2>1, <2>2, <2>3 DEF r
<1> QED
  BY <1>12, <1>13

\* Inode i keeps its first n blocks, the others are free.
LEMMA LinkedShorten ==
    ASSUME NEW d, NEW c, NEW e, Linked(d, c, e), NEW i \in Inodes, e[i] = Nil,
           NEW n \in 0..Len(c[i])
    PROVE  /\ Linked(Shorten(d, i, n), [c EXCEPT ![i] = SubSeq(@, 1, n)], e)
           /\ Len(SubSeq(c[i], 1, n)) = n
<1> DEFINE r == Shorten(d, i, n)
           s == c[i]
           t == SubSeq(s, 1, n)
           c2 == [c EXCEPT ![i] = t]
           freed == Behind(s, n)
<1>1. /\ s \in Seq(Blocks) /\ Len(s) \in Nat
      /\ \A k \in 1..Len(s) : s[k] \in Blocks /\ d.map[s[k]]
      /\ Thread(d.next, d.node[i].first, Nil, s)
      /\ \A j \in Inodes : j # i =>
             \A k \in 1..Len(s), l \in 1..Len(c[j]) : s[k] # c[j][l]
  BY LinkedList
<1>2. /\ r \in Image
      /\ \A j \in Inodes : j # i => r.node[j] = d.node[j]
      /\ r.node[i].first = IF n = 0 THEN Nil ELSE d.node[i].first
      /\ \A y \in Blocks : r.map[y] <=> y \notin freed /\ d.map[y]
      /\ \A y \in Blocks : r.next[y] = IF y \in freed \/ (n # 0 /\ y = s[n]) THEN Nil ELSE d.next[y]
  BY ShortenParts
<1> HIDE DEF r
<1>3. n \in Nat /\ n <= Len(s) /\ (n # 0 => n \in 1..Len(s)) /\ \A k \in (n + 1)..Len(s) : k \in 1..Len(s)
  BY <1>1
<1>4. \A k, l \in 1..Len(s) : s[k] = s[l] => k = l
  BY <1>1 DEF Thread
<1>5. \A k \in 1..n : k \in 1..Len(s) /\ s[k] \in Blocks /\ s[k] \notin freed
  <2> SUFFICES ASSUME NEW k \in 1..n PROVE k \in 1..Len(s) /\ s[k] \in Blocks /\ s[k] \notin freed
    OBVIOUS
  <2>1. k \in 1..Len(s)
    BY <1>1, <1>3
  <2>2. \A l \in (n + 1)..Len(s) : s[l] # s[k]
    BY <1>3, <1>4, <2>1
  <2> QED
    BY <1>1, <2>1, <2>2 DEF Behind
<1>6. /\ Thread(r.next, r.node[i].first, Nil, t)
      /\ Len(t) = n /\ \A k \in 1..n : t[k] = s[k]
  <2>1. IF n = 0 THEN r.node[i].first = Nil ELSE r.node[i].first = d.node[i].first /\ r.next[s[n]] = Nil
    <3>1. n # 0 => n \in 1..n
      BY <1>3
    <3> QED
      BY <1>2, <1>5, <3>1
  <2>2. \A k \in 1..(n - 1) : r.next[s[k]] = d.next[s[k]]
    <3> SUFFICES ASSUME NEW k \in 1..(n - 1) PROVE r.next[s[k]] = d.next[s[k]]
      OBVIOUS
    <3>1. k \in 1..n /\ n \in 1..Len(s) /\ k # n
      BY <1>3
    <3>2. s[k] # s[n] /\ s[k] \notin freed /\ s[k] \in Blocks
      BY <1>4, <1>5, <3>1
    <3> HIDE DEF s, freed
    <3> QED
      BY <1>2, <3>2
  <2> DEFINE g == r.node[i].first
             f == d.node[i].first
             other == r.next
             next == d.next
  <2>3. Thread(next, f, Nil, s) /\ n \in 0..Len(s)
    BY <1>1
  <2>4. IF n = 0 THEN g = Nil ELSE g = f /\ other[s[n]] = Nil
    BY <2>1
  <2>5. \A k \in 1..(n - 1) : other[s[k]] = next[s[k]]
    BY <2>2
  <2> HIDE DEF g, f, other, next, s
  <2>6. /\ n = 0 => g = Nil
        /\ n # 0 => g = f /\ other[s[n]] = Nil
    BY <2>4
  <2>7. /\ Thread(other, g, Nil, SubSeq(s, 1, n))
        /\ Len(SubSeq(s, 1, n)) = n
        /\ \A k \in 1..n : SubSeq(s, 1, n)[k] = s[k]
    BY <2>3, <2>5, <2>6, ThreadStart
  <2> QED
    BY <2>7 DEF g, other
<1>7. t \in Seq(Blocks)
  BY <1>6 DEF Thread
<1>8. \A y \in Blocks : Has(t, y) <=> Has(s, y) /\ y \notin freed
  <2> SUFFICES ASSUME NEW y \in Blocks PROVE Has(t, y) <=> Has(s, y) /\ y \notin freed
    OBVIOUS
  <2>1. ASSUME NEW k \in 1..Len(t), t[k] = y PROVE Has(s, y) /\ y \notin freed
    <3>1. k \in 1..n /\ y = s[k]
      BY <1>6, <2>1
    <3> QED
      BY <1>5, <3>1 DEF Has
  <2>2. ASSUME NEW k \in 1..Len(s), s[k] = y, y \notin freed PROVE Has(t, y)
    <3>1. k \notin (n + 1)..Len(s)
      BY <2>2 DEF Behind
    <3>2. k \in 1..n
      BY <1>3, <3>1
    <3> QED
      BY <1>6, <2>2, <3>2 DEF Has
  <2> HIDE DEF t, s
  <2> QED
    BY <2>1, <2>2 DEF Has
<1>9. \A j \in Inodes : j # i => \A y : Has(c[j], y) => y \notin freed
  BY <1>1, <1>3 DEF Has, Behind
<1>10. /\ c2 \in [Inodes -> Seq(Blocks)] /\ c2[i] = t
       /\ \A j \in Inodes : j # i => c2[j] = c[j]
  BY <1>7 DEF Linked
<1> HIDE DEF t
<1>11. ASSUME NEW j \in Inodes PROVE Thread(r.next, r.node[j].first, e[j], c2[j])
  <2>1. CASE j = i
    BY <1>6, <1>10, <2>1
  <2>2. CASE j # i
    <3>1. Thread(d.next, d.node[j].first, e[j], c[j])
      BY LinkedList
    <3>2. \A k \in 1..Len(c[j]) : r.next[c[j][k]] = d.next[c[j][k]]
      <4> SUFFICES ASSUME NEW k \in 1..Len(c[j]) PROVE r.next[c[j][k]] = d.next[c[j][k]]
        OBVIOUS
      <4>1. c[j][k] \in Blocks
        BY LinkedList
      <4>2. c[j][k] \notin freed
        BY <1>9, <2>2 DEF Has
      <4>3. n # 0 => c[j][k] # s[n]
        BY <1>1, <1>3, <2>2
      <4> HIDE DEF freed
      <4> QED
        BY <1>2, <4>1, <4>2, <4>3
    <3>3. r.node[j].first = d.node[j].first
      BY <1>2, <2>2
    <3> QED
      BY <1>10, <2>2, <3>1, <3>2, <3>3, ThreadFrame
  <2> QED
    BY <2>1, <2>2
<1> HIDE DEF freed
<1>12. \A j \in Inodes : \A y \in Blocks : Has(c2[j], y) <=> Has(c[j], y) /\ (j = i => y \notin freed)
  BY <1>8, <1>10
<1>13. \A j, l \in Inodes : \A y \in Blocks : Has(c2[j], y) /\ Has(c2[l], y) => j = l
  BY <1>12 DEF Linked
<1>14. \A y \in Blocks : r.map[y] <=> \E j \in Inodes : Has(c2[j], y)
  <2>1. \A y \in Blocks : d.map[y] <=> \E j \in Inodes : Has(c[j], y)
    BY DEF Linked
  <2> SUFFICES ASSUME NEW y \in Blocks PROVE r.map[y] <=> \E j \in Inodes : Has(c2[j], y)
    OBVIOUS
  <2>2. r.map[y] <=> y \notin freed /\ d.map[y]
    BY <1>2
  <2>3. \A j \in Inodes : Has(c2[j], y) <=> Has(c[j], y) /\ y \notin freed
    BY <1>9, <1>12
  <2> HIDE DEF c2
  <2> QED
    BY <2>1, <2>2, <2>3
<1>15. \A y \in Blocks : ~r.map[y] => r.next[y] = Nil
  <2>1. \A y \in Blocks : ~d.map[y] => d.next[y] = Nil
    BY DEF Linked
  <2> QED
    BY <1>2, <2>1
<1>16. e \in [Inodes -> {Nil, Wild}]
  BY DEF Linked
<1>17. Linked(r, c2, e)
  <2> HIDE DEF c2
  <2> QED
    BY <1>2, <1>10, <1>11, <1>13, <1>14, <1>15, <1>16, LinkedFrom
<1> QED
  BY <1>6, <1>17 DEF r, t

\* The process that frees a chain with a Wild end dies.
LEMMA ShortenWild ==
    ASSUME NEW d, NEW c, NEW e, NEW i \in Inodes, NEW n \in 0..Len(c[i]), Linked(d, c, e),
           e[i] # Nil
    PROVE  ~Shorten(d, i, n).up
<1> DEFINE s == c[i]
           f == IF n = 0 THEN d.node[i].first ELSE d.next[s[n]]
           m == Dealloc(d, f)
<1>1. /\ s \in Seq(Blocks) /\ Len(s) \in Nat /\ e[i] = Wild
      /\ \A k \in 1..Len(s) : s[k] \in Blocks
      /\ Thread(d.next, d.node[i].first, Wild, s)
  BY LinkedList
<1>2. d \in Image /\ d.next \in [Blocks -> Refs] /\ d.node[i].first \in Refs
  BY DEF Linked, Image, Node
<1>3. f \in Refs
  <2>1. n # 0 => n \in 1..Len(s)
    BY <1>1
  <2> QED
    BY <1>1, <1>2, <2>1
<1>4. Thread(d.next, f, Wild, SubSeq(s, n + 1, Len(s)))
  <2>1. f = IF n = 0 THEN d.node[i].first ELSE d.next[s[n]]
    OBVIOUS
  <2>2. n \in 0..Len(s)
    OBVIOUS
  <2> HIDE DEF s, f
  <2> QED
    BY <1>1, <2>1, <2>2, ThreadRest
<1>5. ChainEnd(d, f) = Wild
  <2> HIDE DEF f
  <2> QED
    BY <1>2, <1>3, <1>4, ChainIs
<1>6. m = Dies(d)
  <2> HIDE DEF f
  <2> QED
    BY <1>5 DEF Dealloc
<1>7. BlocksOf(d, i) = s
  BY LinkedChains
<1>8. Shorten(d, i, n) = IF n = 0 THEN [m EXCEPT !.node[i].first = Nil] ELSE [m EXCEPT !.next[s[n]] = Nil]
  BY <1>7 DEF Shorten
<1>9. m = [d EXCEPT !.up = FALSE]
  BY <1>6 DEF Dies
<1> HIDE DEF m, s
<1>10. m.up = FALSE /\ m \in Image
  BY <1>2, <1>9 DEF Image
<1>11. [m EXCEPT !.node[i].first = Nil].up = FALSE /\ [m EXCEPT !.next[s[n]] = Nil].up = FALSE
  BY <1>10 DEF Image
<1> QED
  BY <1>8, <1>11

-----------------------------------------------------------------------------
(* What an operation keeps.                                                *)

\* Inode j is in r what it was in d.
Same(d, r, j) ==
    /\ r.node[j].type = d.node[j].type
    /\ r.node[j].size = d.node[j].size
    /\ BlocksOf(r, j) = BlocksOf(d, j)
    /\ EndOf(r, j) = EndOf(d, j)
    /\ \A b \in Owned(d, j) : r.slot[b] = d.slot[b]

\* All inodes but i are.
Only(d, r, i) ==
    /\ r.node[i].type = d.node[i].type
    /\ \A j \in Inodes \ {i} : Same(d, r, j)

\* What changes nothing changes no other inode.
LEMMA OnlySelf ==
    ASSUME NEW d, NEW i
    PROVE  Only(d, d, i)
BY DEF Only, Same

\* Two changes of one inode are a change of it.
LEMMA OnlyTwice ==
    ASSUME NEW d, NEW m, NEW r, NEW i, Only(d, m, i), Only(m, r, i)
    PROVE  Only(d, r, i)
<1>1. ASSUME NEW j \in Inodes \ {i} PROVE Same(d, r, j)
  <2>1. Same(d, m, j) /\ Same(m, r, j)
    BY DEF Only
  <2>2. Owned(m, j) = Owned(d, j)
    BY <2>1 DEF Same, Owned
  <2> QED
    BY <2>1, <2>2, Zenon DEF Same
<1> QED
  BY <1>1 DEF Only

\* An image that is made of some lists is made of the chains that are read.
LEMMA OwnsGood ==
    ASSUME NEW d, NEW c, NEW e, Owns(d, c, e)
    PROVE  /\ Good(d)
           /\ \A i \in Inodes : BlocksOf(d, i) = c[i] /\ EndOf(d, i) = e[i]
<1>1. Linked(d, c, e)
  BY DEF Owns
<1>2. Chains(d) = c /\ Ends(d) = e
  BY <1>1, LinkedChains
<1>3. \A i \in Inodes : BlocksOf(d, i) = c[i] /\ EndOf(d, i) = e[i]
  BY <1>1, LinkedChains
<1> QED
  BY <1>2, <1>3 DEF Good

\* What a proof uses of Good.
LEMMA GoodParts ==
    ASSUME NEW d, Good(d)
    PROVE  /\ Linked(d, Chains(d), Ends(d))
           /\ d \in Image /\ IsDir(d, Root)
           /\ \A i \in Inodes : /\ Chains(d)[i] = BlocksOf(d, i)
                                /\ Ends(d)[i] = EndOf(d, i)
                                /\ Fits(d.node[i], Len(BlocksOf(d, i)), EndOf(d, i))
                                /\ BlocksOf(d, i) \in Seq(Blocks)
                                /\ Len(BlocksOf(d, i)) \in Nat
<1>1. Linked(d, Chains(d), Ends(d)) /\ IsDir(d, Root)
  BY DEF Good, Owns
<1>2. d \in Image
  BY <1>1 DEF Linked
<1>3. \A i \in Inodes : Chains(d)[i] = BlocksOf(d, i) /\ Ends(d)[i] = EndOf(d, i)
  BY DEF Chains, Ends
<1>4. \A i \in Inodes : Fits(d.node[i], Len(Chains(d)[i]), Ends(d)[i])
  BY DEF Good, Owns
<1>5. \A i \in Inodes : Chains(d)[i] \in Seq(Blocks) /\ Len(Chains(d)[i]) \in Nat
  BY <1>1, LinkedList
<1> QED
  BY <1>1, <1>2, <1>3, <1>4, <1>5

\* The blocks of an inode are marked and are nobody else's.
LEMMA OwnedIs ==
    ASSUME NEW d, NEW i \in Inodes, Good(d)
    PROVE  /\ Owned(d, i) \subseteq Blocks
           /\ \A b \in Blocks : b \in Owned(d, i) <=> Has(BlocksOf(d, i), b)
           /\ \A b \in Owned(d, i) : d.map[b]
           /\ \A j \in Inodes : j # i => Owned(d, i) \cap Owned(d, j) = {}
<1>1. \A j \in Inodes : BlocksOf(d, j) \in Seq(Blocks)
  BY GoodParts
<1>2. \A j \in Inodes : Owned(d, j) \subseteq Blocks
                        /\ \A b \in Blocks : b \in Owned(d, j) <=> Has(BlocksOf(d, j), b)
  <2> SUFFICES ASSUME NEW j \in Inodes
               PROVE  Owned(d, j) \subseteq Blocks
                      /\ \A b \in Blocks : b \in Owned(d, j) <=> Has(BlocksOf(d, j), b)
    OBVIOUS
  <2> DEFINE s == BlocksOf(d, j)
  <2>1. s \in Seq(Blocks)
    BY <1>1
  <2>2. Owned(d, j) = ToSet(s)
    BY DEF Owned
  <2> HIDE DEF s
  <2> QED
    BY <2>1, <2>2 DEF ToSet, Has, s
<1>3. /\ \A j \in Inodes : Chains(d)[j] = BlocksOf(d, j)
      /\ \A b \in Blocks : d.map[b] <=> \E j \in Inodes : Has(Chains(d)[j], b)
      /\ \A j, l \in Inodes : \A b \in Blocks : Has(Chains(d)[j], b) /\ Has(Chains(d)[l], b) => j = l
  <2>1. Linked(d, Chains(d), Ends(d))
    BY GoodParts
  <2>2. \A j \in Inodes : Chains(d)[j] = BlocksOf(d, j)
    BY DEF Chains
  <2> QED
    BY <2>1, <2>2 DEF Linked
<1> QED
  BY <1>2, <1>3

\* A change of the data map, the chains and the data of inode i alone.
LEMMA OnlyFrom ==
    ASSUME NEW d, NEW r, NEW c, NEW e, NEW i \in Inodes, Good(d), Owns(r, c, e),
           r.node[i].type = d.node[i].type,
           \A j \in Inodes \ {i} : /\ r.node[j].type = d.node[j].type
                                   /\ r.node[j].size = d.node[j].size
                                   /\ c[j] = BlocksOf(d, j) /\ e[j] = EndOf(d, j),
           \A b \in Blocks : r.slot[b] # d.slot[b] => b \in Owned(d, i) \/ ~d.map[b]
    PROVE  Only(d, r, i)
<1>1. \A j \in Inodes : BlocksOf(r, j) = c[j] /\ EndOf(r, j) = e[j]
  BY OwnsGood
<1>2. ASSUME NEW j \in Inodes \ {i} PROVE \A b \in Owned(d, j) : r.slot[b] = d.slot[b]
  <2>1. Owned(d, j) \subseteq Blocks /\ Owned(d, i) \cap Owned(d, j) = {} /\ \A b \in Owned(d, j) : d.map[b]
    BY OwnedIs
  <2> QED
    BY <2>1
<1> QED
  BY <1>1, <1>2 DEF Only, Same

\* A change of slots of inode i alone.
LEMMA SlotsOnly ==
    ASSUME NEW d, NEW r \in Image, NEW i \in Inodes, Good(d), r.node = d.node, r.next = d.next,
           r.map = d.map,
           \A b \in Blocks : r.slot[b] # d.slot[b] => b \in Owned(d, i) \/ ~d.map[b]
    PROVE  /\ Good(r) /\ Only(d, r, i)
           /\ \A j \in Inodes : BlocksOf(r, j) = BlocksOf(d, j) /\ EndOf(r, j) = EndOf(d, j)
<1>1. Linked(d, Chains(d), Ends(d)) /\ IsDir(d, Root)
      /\ \A j \in Inodes : Chains(d)[j] = BlocksOf(d, j) /\ Ends(d)[j] = EndOf(d, j)
  BY GoodParts
<1>2. Linked(r, Chains(d), Ends(d))
  BY <1>1, LinkedSame
<1>3. Owns(r, Chains(d), Ends(d))
  BY <1>1, <1>2 DEF Good, Owns, IsDir
<1>4. Good(r) /\ \A j \in Inodes : BlocksOf(r, j) = Chains(d)[j] /\ EndOf(r, j) = Ends(d)[j]
  BY <1>3, OwnsGood
<1>5. Only(d, r, i)
  <2> DEFINE c == Chains(d)
             e == Ends(d)
  <2>1. Owns(r, c, e) /\ \A j \in Inodes : c[j] = BlocksOf(d, j) /\ e[j] = EndOf(d, j)
    BY <1>1, <1>3
  <2> HIDE DEF c, e
  <2> QED
    BY <2>1, OnlyFrom
<1> QED
  BY <1>1, <1>4, <1>5

\* Slots of one block.
LEMMA SlotOne ==
    ASSUME NEW d \in Image, NEW b \in Blocks, NEW x \in [Slots -> SlotValue]
    PROVE  LET r == [d EXCEPT !.slot[b] = x]
           IN  /\ r \in Image /\ r.node = d.node /\ r.next = d.next /\ r.map = d.map /\ r.up = d.up
               /\ \A y \in Blocks : r.slot[y] = IF y = b THEN x ELSE d.slot[y]
<1>1. d.slot \in [Blocks -> [Slots -> SlotValue]]
  BY DEF Image
<1>2. [d.slot EXCEPT ![b] = x] \in [Blocks -> [Slots -> SlotValue]]
  BY <1>1
<1> QED
  BY <1>1, <1>2 DEF Image

\* find_free_datablock() answers a free block or Wild.
LEMMA FreeBlock ==
    ASSUME NEW d
    PROVE  FindFreeDatablock(d) = Wild
           \/ (FindFreeDatablock(d) \in Blocks /\ ~d.map[FindFreeDatablock(d)])
<1> DEFINE free == {b \in Blocks : ~d.map[b]}
<1>1. CASE free # {}
  <2>1. free \in SUBSET Nat
    BY DEF Blocks
  <2> HIDE DEF free
  <2>2. MinOf(free) \in free
    BY <1>1, <2>1, Least DEF MinOf
  <2>3. FindFreeDatablock(d) = MinOf(free)
    BY <1>1 DEF FindFreeDatablock, free
  <2> QED
    BY <2>2, <2>3 DEF free
<1> QED
  BY <1>1 DEF FindFreeDatablock

-----------------------------------------------------------------------------
(* Elements of directories.                                                *)

\* Inode i gets block b; the size of i and the slots of b may change too.
LEMMA TakeGood ==
    ASSUME NEW d, NEW i \in Inodes, NEW b \in Blocks, NEW r, NEW m,
           Good(d), EndOf(d, i) = Nil, ~d.map[b], m = Take(d, i, b),
           r \in Image, r.next = m.next, r.map = m.map,
           \A j \in Inodes : r.node[j].first = m.node[j].first,
           \A j \in Inodes \ {i} : r.node[j] = m.node[j],
           r.node[i].type = d.node[i].type,
           Fits(r.node[i], Len(BlocksOf(d, i)) + 1, Nil),
           \A y \in Blocks : y # b => r.slot[y] = d.slot[y]
    PROVE  /\ Good(r) /\ Only(d, r, i)
           /\ EndOf(r, i) = Nil
           /\ BlocksOf(r, i) = Append(BlocksOf(d, i), b)
           /\ Len(BlocksOf(r, i)) = Len(BlocksOf(d, i)) + 1
<1> DEFINE c == Chains(d)
           e == Ends(d)
           t == Append(c[i], b)
           c2 == [c EXCEPT ![i] = t]
<1>1. /\ Linked(d, c, e) /\ IsDir(d, Root)
      /\ \A j \in Inodes : /\ c[j] = BlocksOf(d, j) /\ e[j] = EndOf(d, j)
                           /\ Fits(d.node[j], Len(BlocksOf(d, j)), EndOf(d, j))
                           /\ c[j] \in Seq(Blocks)
  BY GoodParts
<1> HIDE DEF c, e
<1>2. /\ Linked(m, c2, e)
      /\ \A j \in Inodes : /\ m.node[j].type = d.node[j].type
                           /\ j # i => m.node[j] = d.node[j]
  <2>1. e[i] = Nil
    BY <1>1
  <2>2. Linked(Take(d, i, b), [c EXCEPT ![i] = Append(@, b)], e)
    BY <1>1, <2>1, LinkedTake
  <2>3. \A j \in Inodes : /\ Take(d, i, b).node[j].type = d.node[j].type
                          /\ j # i => Take(d, i, b).node[j] = d.node[j]
    BY <1>1, TakeParts
  <2> QED
    BY <2>2, <2>3
<1>3. Linked(r, c2, e)
  <2> HIDE DEF c2
  <2> QED
    BY <1>2, LinkedSame
<1>4. t \in Seq(Blocks) /\ Len(t) = Len(c[i]) + 1
  BY <1>1, AppendProperties
<1>5. c2[i] = t /\ \A j \in Inodes : j # i => c2[j] = c[j]
  <2>1. c \in [Inodes -> Seq(Blocks)]
    BY <1>1 DEF Linked
  <2> QED
    BY <2>1
<1>6. \A j \in Inodes : j # i => r.node[j] = d.node[j]
  BY <1>2
<1>7. \A j \in Inodes : Fits(r.node[j], Len(c2[j]), e[j])
  <2> SUFFICES ASSUME NEW j \in Inodes PROVE Fits(r.node[j], Len(c2[j]), e[j])
    OBVIOUS
  <2>1. CASE j = i
    BY <1>1, <1>4, <1>5, <2>1
  <2>2. CASE j # i
    BY <1>1, <1>5, <1>6, <2>2
  <2> QED
    BY <2>1, <2>2
<1> HIDE DEF c2, t
<1>8. IsDir(r, Root)
  BY <1>1, <1>6, Sizing DEF IsDir
<1>9. Owns(r, c2, e)
  BY <1>3, <1>7, <1>8 DEF Owns
<1>10. Good(r) /\ BlocksOf(r, i) = t /\ EndOf(r, i) = Nil
  BY <1>1, <1>5, <1>9, OwnsGood
<1>11. Only(d, r, i)
  <2>1. \A j \in Inodes \ {i} : /\ r.node[j].type = d.node[j].type
                                /\ r.node[j].size = d.node[j].size
                                /\ c2[j] = BlocksOf(d, j) /\ e[j] = EndOf(d, j)
    BY <1>1, <1>5, <1>6
  <2>2. \A y \in Blocks : r.slot[y] # d.slot[y] => y \in Owned(d, i) \/ ~d.map[y]
    OBVIOUS
  <2> QED
    BY <1>9, <2>1, <2>2, OnlyFrom
<1> QED
  BY <1>1, <1>4, <1>10, <1>11 DEF t

\* A directory takes a block, and its first slot.
LEMMA TakeDirParts ==
    ASSUME NEW d, NEW i \in Inodes, NEW b \in Blocks, NEW m, Good(d), IsDir(d, i), ~d.map[b],
           m = Take(d, i, b)
    PROVE  /\ m \in Image /\ m.slot = d.slot /\ m.up = d.up
           /\ EndOf(d, i) = Nil
           /\ \A j \in Inodes : /\ m.node[j].type = d.node[j].type
                                /\ j # i => m.node[j] = d.node[j]
           /\ \A len : Fits(m.node[i], len, Nil)
<1> DEFINE c == Chains(d)
           e == Ends(d)
<1>1. /\ Linked(d, c, e)
      /\ e[i] = EndOf(d, i)
      /\ Fits(d.node[i], Len(BlocksOf(d, i)), EndOf(d, i))
  BY GoodParts
<1>2. EndOf(d, i) = Nil
  BY <1>1 DEF Fits, IsDir
<1> HIDE DEF c, e
<1>3. /\ m \in Image /\ m.slot = d.slot /\ m.up = d.up
      /\ \A j \in Inodes : /\ m.node[j].type = d.node[j].type
                           /\ j # i => m.node[j] = d.node[j]
  BY <1>1, TakeParts
<1>5. \A len : Fits(m.node[i], len, Nil)
  BY <1>3 DEF Fits, IsDir
<1> QED
  BY <1>2, <1>3, <1>5

\* A directory that takes a free block is still one.
LEMMA TakeDir ==
    ASSUME NEW d, NEW i \in Inodes, NEW b \in Blocks, NEW m, Good(d), IsDir(d, i), ~d.map[b],
           m = Take(d, i, b)
    PROVE  Good(m) /\ Only(d, m, i) /\ IsDir(m, i) /\ m.up = d.up
<1>1. /\ m \in Image /\ m.slot = d.slot /\ m.up = d.up
      /\ EndOf(d, i) = Nil
      /\ m.node[i].type = d.node[i].type
      /\ Fits(m.node[i], Len(BlocksOf(d, i)) + 1, Nil)
  BY TakeDirParts, SMTT(60)
<1>2. Good(m) /\ Only(d, m, i)
  BY <1>1, TakeGood, SMTT(60)
<1> QED
  BY <1>1, <1>2 DEF IsDir

\* So is one that writes the first element of that block.
LEMMA TakeDirFirst ==
    ASSUME NEW d, NEW i \in Inodes, NEW b \in Blocks, NEW x \in SlotValue, NEW r,
           Good(d), IsDir(d, i), ~d.map[b], r = [Take(d, i, b) EXCEPT !.slot[b][1] = x]
    PROVE  Good(r) /\ Only(d, r, i) /\ r.up = d.up
<1> DEFINE m == Take(d, i, b)
           y == [m.slot[b] EXCEPT ![1] = x]
           q == [m EXCEPT !.slot[b] = y]
<1>1. /\ m \in Image /\ m.slot = d.slot /\ m.up = d.up
      /\ EndOf(d, i) = Nil
      /\ m.node[i].type = d.node[i].type
      /\ Fits(m.node[i], Len(BlocksOf(d, i)) + 1, Nil)
  BY TakeDirParts, SMTT(60)
<1>2. r = q
  OBVIOUS
<1>3. y \in [Slots -> SlotValue]
  <2> HIDE DEF m
  <2> QED
    BY <1>1 DEF Image
<1> HIDE DEF y
<1>4. /\ q \in Image /\ q.node = m.node /\ q.next = m.next /\ q.map = m.map /\ q.up = m.up
      /\ \A z \in Blocks : q.slot[z] = IF z = b THEN y ELSE m.slot[z]
  <2> HIDE DEF m
  <2> QED
    BY <1>1, <1>3, SlotOne
<1> HIDE DEF q
<1>5. m = Take(d, i, b)
  OBVIOUS
<1> HIDE DEF m
<1>6. \A z \in Blocks : z # b => q.slot[z] = d.slot[z]
  BY <1>1, <1>4
<1>7. /\ \A j \in Inodes : q.node[j].first = m.node[j].first
      /\ \A j \in Inodes \ {i} : q.node[j] = m.node[j]
      /\ q.node[i].type = d.node[i].type
      /\ Fits(q.node[i], Len(BlocksOf(d, i)) + 1, Nil)
  BY <1>1, <1>4
<1>8. Good(q) /\ Only(d, q, i)
  BY <1>1, <1>4, <1>5, <1>6, <1>7, TakeGood
<1> QED
  BY <1>1, <1>2, <1>4, <1>8

\* After a crash nothing is saved.
LEMMA DiesUp ==
    ASSUME NEW d \in Image
    PROVE  Dies(d).up = FALSE /\ Dies(d) \in Image
BY DEF Dies, Image

\* An element goes into a directory.
LEMMA InsertGood ==
    ASSUME NEW d, NEW dir \in Inodes, NEW elem \in SlotValue, NEW r, Good(d), IsDir(d, dir),
           r = InsertElem(d, dir, elem)
    PROVE  r \in Image /\ (r.up => Good(r) /\ Only(d, r, dir) /\ r.up = d.up)
<1> DEFINE new == FindFreeDatablock(d)
           room == WithRoom(d, dir)
<1>0. d \in Image
  BY GoodParts
<1>1. CASE room # {}
  <2>1. r = FillSlots(d, dir, elem)
    BY <1>1 DEF InsertElem
  <2> DEFINE fill == [b \in Blocks |->
                         IF b \in room THEN [d.slot[b] EXCEPT ![MinOf(FreeSlots(d, b))] = elem]
                                       ELSE d.slot[b]]
  <2>2. r = [d EXCEPT !.slot = fill]
    BY <2>1 DEF FillSlots
  <2>3. fill \in [Blocks -> [Slots -> SlotValue]]
    <3>1. d.slot \in [Blocks -> [Slots -> SlotValue]]
      BY <1>0 DEF Image
    <3> HIDE DEF room
    <3> QED
      BY <3>1
  <2>4. \A b \in Blocks : fill[b] # d.slot[b] => b \in Owned(d, dir)
    BY DEF WithRoom, Owned
  <2> HIDE DEF fill
  <2>5. r \in Image /\ r.node = d.node /\ r.next = d.next /\ r.map = d.map /\ r.up = d.up
        /\ r.slot = fill
    BY <1>0, <2>2, <2>3 DEF Image
  <2> QED
    BY <2>4, <2>5, SlotsOnly
<1>2. CASE room = {} /\ new = Wild
  <2>1. r = Dies(d)
    BY <1>2 DEF InsertElem
  <2> QED
    BY <1>0, <2>1, DiesUp
<1>3. CASE room = {} /\ new # Wild
  <2>1. new \in Blocks /\ ~d.map[new]
    BY <1>3, FreeBlock
  <2>2. r = [Take(d, dir, new) EXCEPT !.slot[new][1] = elem]
    BY <1>3 DEF InsertElem
  <2> HIDE DEF new
  <2>3. Good(r) /\ Only(d, r, dir) /\ r.up = d.up
    BY <2>1, <2>2, TakeDirFirst, ZenonT(60)
  <2> QED
    BY <2>3, GoodParts
<1> QED
  BY <1>1, <1>2, <1>3

\* add_elem_to_dir(), as long as the process lives.
LEMMA AddElemGood ==
    ASSUME NEW d, NEW dir \in Inodes, NEW elem \in SlotValue, NEW r, Good(d), IsDir(d, dir),
           r = AddElemToDir(d, dir, elem), r.up
    PROVE  Good(r) /\ Only(d, r, dir) /\ r.up = d.up
<1> DEFINE new == FindFreeDatablock(d)
<1>0. d \in Image
  BY GoodParts
<1>1. CASE d.node[dir].first # Nil
  <2>1. r = InsertElem(d, dir, elem)
    BY <1>1 DEF AddElemToDir
  <2> QED
    BY <2>1, InsertGood
<1>2. CASE d.node[dir].first = Nil /\ new = Wild
  <2>1. r = Dies(d)
    BY <1>2 DEF AddElemToDir
  <2> QED
    BY <1>0, <2>1, DiesUp
<1>3. CASE d.node[dir].first = Nil /\ new # Wild
  <2> DEFINE m == Take(d, dir, new)
  <2>1. new \in Blocks /\ ~d.map[new]
    BY <1>3, FreeBlock
  <2>2. r = InsertElem(m, dir, elem)
    BY <1>3 DEF AddElemToDir
  <2> HIDE DEF new
  <2>3. Good(m) /\ Only(d, m, dir) /\ IsDir(m, dir) /\ m.up = d.up
    BY <2>1, TakeDir
  <2> HIDE DEF m
  <2>4. Good(r) /\ Only(m, r, dir) /\ r.up = m.up
    BY <2>2, <2>3, InsertGood
  <2> QED
    BY <2>3, <2>4, OnlyTwice
<1> QED
  BY <1>1, <1>2, <1>3

\* The same when the element names a directory, whose references it counts.
LEMMA AddDirGood ==
    ASSUME NEW d, NEW dir \in Inodes, NEW elem \in SlotValue, NEW r, Good(d), IsDir(d, dir),
           r = AddDirToDir(d, dir, elem)
    PROVE  r \in Image /\ (r.up => Good(r) /\ Only(d, r, dir) /\ r.up = d.up)
<1> DEFINE new == FindFreeDatablock(d)
<1>0. d \in Image
  BY GoodParts
<1>1. CASE d.node[dir].first # Nil
  <2>1. r = InsertElem(d, dir, elem)
    BY <1>1 DEF AddDirToDir
  <2> QED
    BY <2>1, InsertGood
<1>2. CASE d.node[dir].first = Nil /\ new = Wild
  <2>1. r = Dies(d)
    BY <1>2 DEF AddDirToDir
  <2> QED
    BY <1>0, <2>1, DiesUp
<1>3. CASE d.node[dir].first = Nil /\ new # Wild
  <2>1. new \in Blocks /\ ~d.map[new]
    BY <1>3, FreeBlock
  <2>2. r = [Take(d, dir, new) EXCEPT !.slot[new][1] = elem]
    BY <1>3 DEF AddDirToDir
  <2> HIDE DEF new
  <2>3. Good(r) /\ Only(d, r, dir) /\ r.up = d.up
    BY <2>1, <2>2, TakeDirFirst, ZenonT(60)
  <2> QED
    BY <2>3, GoodParts
<1> QED
  BY <1>1, <1>2, <1>3

-----------------------------------------------------------------------------
(* Looking up.                                                             *)

\* The first of a set is in it.
LEMMA MinIn ==
    ASSUME NEW S \in SUBSET Nat, S # {}
    PROVE  MinOf(S) \in S
BY Least DEF MinOf

\* A slot that is taken names an inode that is not the root.
LEMMA IdIs ==
    ASSUME NEW d \in Image, NEW b \in Blocks, NEW j \in Slots
    PROVE  /\ d.slot[b][j] \in SlotValue
           /\ d.slot[b][j].id = -1 \/ d.slot[b][j].id \in Inodes \ {Root}
<1>1. d.slot[b][j] \in SlotValue
  BY DEF Image
<1>2. \A x \in SlotValue : x.id = -1 \/ x.id \in Inodes \ {Root}
  BY DEF SlotValue, NoElem, Elem
<1> QED
  BY <1>1, <1>2

\* Elements never name the root.
LEMMA ElemIs ==
    ASSUME NEW i \in Inodes \ {Root}, NEW name \in Names
    PROVE  Elem(i, name) \in SlotValue
BY DEF SlotValue

\* find_elem_in_dir() and find_in_dir()
LEMMA Lookup ==
    ASSUME NEW d, NEW dir \in Inodes, NEW name, Good(d), HasElem(d, dir, name)
    PROVE  /\ BlockOfElem(d, dir, name) \in Blocks
           /\ BlockOfElem(d, dir, name) \in Owned(d, dir)
           /\ SlotOfElem(d, dir, name) \in Slots
           /\ FindInDir(d, dir, name) \in Inodes \ {Root}
           /\ IsDir(d, dir)
<1> DEFINE s == BlocksOf(d, dir)
           places == PlacesWith(d, dir, name)
           k == MinOf(places)
           b == BlockOfElem(d, dir, name)
           found == SlotsWith(d, b, name)
           j == SlotOfElem(d, dir, name)
<1>1. d \in Image /\ s \in Seq(Blocks)
  BY GoodParts
<1>2. places = {n \in 1..Len(s) : SlotsWith(d, s[n], name) # {}} /\ places # {} /\ IsDir(d, dir)
  BY DEF HasElem, PlacesWith
<1>3. b = s[k] /\ j = MinOf(found)
  BY DEF BlockOfElem, SlotOfElem
<1>4. FindInDir(d, dir, name) = d.slot[b][j].id
  BY DEF FindInDir
<1> HIDE DEF s, places, b, j
<1>5. k \in places
  <2>1. places \in SUBSET Nat
    BY <1>2
  <2> QED
    BY <1>2, <2>1, MinIn
<1>6. k \in 1..Len(s) /\ SlotsWith(d, s[k], name) # {}
  BY <1>2, <1>5
<1> HIDE DEF k
<1>7. b \in Blocks /\ b \in Owned(d, dir)
  <2>1. b \in ToSet(s)
    BY <1>3, <1>6 DEF ToSet
  <2>2. b \in Blocks
    BY <1>1, <1>3, <1>6
  <2> QED
    BY <2>1, <2>2 DEF Owned, s
<1>8. j \in found
  <2>1. found \in SUBSET Nat
    BY DEF SlotsWith, Slots
  <2>2. found # {}
    BY <1>3, <1>6
  <2> HIDE DEF found
  <2> QED
    BY <1>3, <2>1, <2>2, MinIn
<1>9. j \in Slots /\ d.slot[b][j].id # -1
  BY <1>8 DEF SlotsWith
<1>10. d.slot[b][j].id \in Inodes \ {Root}
  BY <1>1, <1>7, <1>9, IdIs
<1> QED
  BY <1>2, <1>4, <1>7, <1>9, <1>10 DEF b, j

Dirs(d) == {i \in Inodes : IsDir(d, i)}

\* One step of a path leads to a directory or nowhere.
LEMMA EnterGood ==
    ASSUME NEW d, NEW dir \in Dirs(d) \cup {-1}, NEW name, Good(d)
    PROVE  Enter(d, dir, name) \in Dirs(d) \cup {-1}
<1> SUFFICES ASSUME dir # -1, HasElem(d, dir, name), IsDir(d, FindInDir(d, dir, name))
             PROVE  FindInDir(d, dir, name) \in Dirs(d)
  BY DEF Enter
<1>1. dir \in Inodes
  BY DEF Dirs
<1>2. FindInDir(d, dir, name) \in Inodes
  BY <1>1, Lookup
<1> QED
  BY <1>2 DEF Dirs

\* A path is a sequence of names.
LEMMA PathLen ==
    ASSUME NEW path \in Paths
    PROVE  path \in Seq(Names) /\ Len(path) \in Nat
<1>1. PICK n \in 0..MaxDepth : path \in [1..n -> Names]
  BY DEF Paths
<1>2. n \in Nat
  BY DiscAssumption
<1>3. path \in Seq(Names)
  BY <1>1, <1>2, SeqDef
<1> QED
  BY <1>3

\* Rounds that keep to one set of states.
LEMMA Rounds ==
    ASSUME NEW N \in Nat, NEW H, NEW a \in H, NEW G, \A k \in 1..N : \A x \in H : G[k][x] \in H
    PROVE  \E g : IsLoop(g, N, a, G) /\ \A k \in 0..N : g[k] \in H
<1> DEFINE SS == [k \in 0..N |-> H]
<1>1. a \in SS[0] /\ \A k \in 0..N : SS[k] = H
  OBVIOUS
<1>2. \A k \in 1..N : k \in 0..N /\ k - 1 \in 0..N
  OBVIOUS
<1>3. \A k \in 1..N : \A x \in SS[k - 1] : G[k][x] \in SS[k]
  BY <1>2
<1> HIDE DEF SS
<1>4. \E g : IsLoop(g, N, a, G) /\ \A k \in 0..N : g[k] \in SS[k]
  BY <1>1, <1>3, Loop
<1> QED
  BY <1>1, <1>4

\* find_dir_inode()
LEMMA FindDirGood ==
    ASSUME NEW d, NEW path, Len(path) \in Nat, Good(d)
    PROVE  FindDir(d, path) \in Dirs(d) \cup {-1}
<1> DEFINE N == Len(path)
           H == Dirs(d) \cup {-1}
           Is(g) == g = [n \in 0..N |-> IF n = 0 THEN Root ELSE Enter(d, g[n - 1], path[n])]
           at == CHOOSE g : Is(g)
           G == [k \in 1..N |-> [x \in H |-> Enter(d, x, path[k])]]
<1>0. N \in Nat
  OBVIOUS
<1> HIDE DEF N
<1>1. Root \in H
  BY GoodParts, Sizing DEF Dirs
<1>2. \A k \in 1..N : \A x \in H : Enter(d, x, path[k]) \in H
  BY EnterGood
<1> HIDE DEF H
<1>3. \A k \in 1..N : \A x \in H : G[k][x] = Enter(d, x, path[k]) /\ G[k][x] \in H
  BY <1>2
<1> HIDE DEF G
<1>4. PICK g : IsLoop(g, N, Root, G) /\ \A k \in 0..N : g[k] \in H
  BY <1>0, <1>1, <1>3, Rounds
<1>5. Is(g)
  <2>1. g = [n \in 0..N |-> IF n = 0 THEN Root ELSE G[n][g[n - 1]]]
    BY <1>4 DEF IsLoop
  <2>2. ASSUME NEW n \in 0..N, n # 0 PROVE G[n][g[n - 1]] = Enter(d, g[n - 1], path[n])
    <3>1. n \in 1..N /\ n - 1 \in 0..N
      BY <1>0, <2>2
    <3> QED
      BY <1>3, <1>4, <3>1
  <2> QED
    BY <2>1, <2>2
<1>6. Is(at)
  <2> HIDE DEF Is
  <2> QED
    BY <1>5
<1>7. at[0] = Root /\ \A n \in 1..N : at[n] = Enter(d, at[n - 1], path[n])
  <2>1. \A n \in 0..N : at[n] = IF n = 0 THEN Root ELSE Enter(d, at[n - 1], path[n])
    BY <1>6, Zenon
  <2> HIDE DEF at
  <2> QED
    BY <1>0, <2>1
<1>8. FindDir(d, path) = at[N]
  BY DEF FindDir, N
<1> HIDE DEF at
<1> DEFINE S == {n \in 0..N : at[n] \in H}
<1>9. 0 \in S
  BY <1>0, <1>1, <1>7
<1>10. ASSUME NEW k \in 1..N, k - 1 \in S PROVE k \in S
  <2>1. at[k] \in H /\ k \in 0..N
    BY <1>0, <1>2, <1>7, <1>10
  <2> QED
    BY <2>1
<1> HIDE DEF S
<1>11. \A k \in 0..N : k \in S
  BY <1>0, <1>9, <1>10, LoopHolds
<1>12. at[N] \in H
  BY <1>0, <1>11 DEF S
<1> QED
  BY <1>8, <1>12 DEF H
-----------------------------------------------------------------------------
(* Inodes and the blocks of files.                                         *)

\* An inode without a first block has none.
LEMMA NilIs ==
    ASSUME NEW d, NEW i \in Inodes, Good(d), d.node[i].first = Nil
    PROVE  BlocksOf(d, i) = <<>> /\ EndOf(d, i) = Nil
<1> DEFINE s == BlocksOf(d, i)
           end == EndOf(d, i)
<1>1. Thread(d.next, Nil, end, s)
  <2>1. /\ Linked(d, Chains(d), Ends(d))
        /\ Chains(d)[i] = s /\ Ends(d)[i] = end
    BY GoodParts
  <2> QED
    BY <2>1 DEF Linked
<1> HIDE DEF s, end
<1>2. s \in Seq(Blocks)
  BY <1>1 DEF Thread
<1>3. s = <<>>
  <2> SUFFICES ASSUME s # <<>> PROVE FALSE
    OBVIOUS
  <2>1. s[1] \in Blocks /\ Nil = s[1]
    BY <1>1, <1>2 DEF Thread
  <2> QED
    BY <2>1, Sizing
<1>4. end = Nil
  BY <1>1, <1>3 DEF Thread
<1> QED
  BY <1>3, <1>4 DEF s, end

\* Inode i is written anew, but for its first block.
LEMMA NodeGood ==
    ASSUME NEW d, NEW i \in Inodes, NEW x \in Node, Good(d), x.first = d.node[i].first,
           i = Root => x.type = "DIRECTORY",
           Fits(x, Len(BlocksOf(d, i)), EndOf(d, i))
    PROVE  LET r == [d EXCEPT !.node[i] = x]
           IN  /\ Good(r) /\ r.slot = d.slot /\ r.up = d.up /\ r.map = d.map /\ r.node[i] = x
               /\ \A j \in Inodes : j # i => r.node[j] = d.node[j]
               /\ \A j \in Inodes : BlocksOf(r, j) = BlocksOf(d, j) /\ EndOf(r, j) = EndOf(d, j)
               /\ \A j \in Inodes : j # i => Same(d, r, j)
<1> DEFINE c == Chains(d)
           e == Ends(d)
           r == [d EXCEPT !.node[i] = x]
<1>1. /\ Linked(d, c, e) /\ IsDir(d, Root) /\ d \in Image
      /\ \A j \in Inodes : /\ c[j] = BlocksOf(d, j) /\ e[j] = EndOf(d, j)
                           /\ Fits(d.node[j], Len(BlocksOf(d, j)), EndOf(d, j))
  BY GoodParts
<1> HIDE DEF c, e
<1>2. d.node \in [Inodes -> Node]
  BY <1>1 DEF Image
<1>3. [d.node EXCEPT ![i] = x] \in [Inodes -> Node]
  BY <1>2
<1>4. /\ r \in Image /\ r.next = d.next /\ r.map = d.map /\ r.slot = d.slot /\ r.up = d.up
      /\ r.node = [d.node EXCEPT ![i] = x]
  BY <1>1, <1>3 DEF Image
<1>5. r.node[i] = x /\ \A j \in Inodes : j # i => r.node[j] = d.node[j]
  BY <1>2, <1>4
<1> HIDE DEF r
<1>6. Linked(r, c, e)
  <2>1. \A j \in Inodes : r.node[j].first = d.node[j].first
    BY <1>5
  <2> QED
    BY <1>1, <1>4, <2>1, LinkedSame
<1>7. \A j \in Inodes : Fits(r.node[j], Len(c[j]), e[j])
  BY <1>1, <1>5
<1>8. IsDir(r, Root)
  BY <1>1, <1>5, Sizing DEF IsDir
<1>9. Owns(r, c, e)
  BY <1>6, <1>7, <1>8 DEF Owns
<1>10. Good(r) /\ \A j \in Inodes : BlocksOf(r, j) = BlocksOf(d, j) /\ EndOf(r, j) = EndOf(d, j)
  BY <1>1, <1>9, OwnsGood
<1>11. \A j \in Inodes : j # i => Same(d, r, j)
  BY <1>4, <1>5, <1>10 DEF Same
<1> QED
  BY <1>4, <1>5, <1>10, <1>11 DEF r

\* Slots of a block are zeroed, and inode i is written anew.
LEMMA ZeroedIs ==
    ASSUME NEW d \in Image, NEW b \in Blocks, NEW from, NEW to
    PROVE  LET r == Zeroed(d, b, from, to)
           IN  /\ r \in Image /\ r.node = d.node /\ r.next = d.next /\ r.map = d.map /\ r.up = d.up
               /\ \A y \in Blocks : y # b => r.slot[y] = d.slot[y]
<1> DEFINE x == [j \in Slots |-> IF j \in from..to THEN NoElem ELSE d.slot[b][j]]
<1>1. x \in [Slots -> SlotValue]
  <2>1. NoElem \in SlotValue /\ \A j \in Slots : d.slot[b][j] \in SlotValue
    BY DEF SlotValue, Image
  <2> QED
    BY <2>1
<1>2. Zeroed(d, b, from, to) = [d EXCEPT !.slot[b] = x]
  BY DEF Zeroed
<1> HIDE DEF x
<1> QED
  BY <1>1, <1>2, SlotOne

\* A change of a size changes nothing else.
LEMMA SizeIs ==
    ASSUME NEW d \in Image, NEW i \in Inodes, NEW amount \in Nat
    PROVE  LET r == [d EXCEPT !.node[i].size = @ + amount]
           IN  /\ r \in Image /\ r.next = d.next /\ r.map = d.map /\ r.slot = d.slot /\ r.up = d.up
               /\ r.node[i] = [d.node[i] EXCEPT !.size = @ + amount]
               /\ r.node[i] \in Node
               /\ \A j \in Inodes : j # i => r.node[j] = d.node[j]
<1>1. d.node \in [Inodes -> Node] /\ d.node[i] \in Node
  BY DEF Image
<1>2. [d.node[i] EXCEPT !.size = @ + amount] \in Node
  BY <1>1 DEF Node
<1>3. [d.node EXCEPT ![i].size = @ + amount] \in [Inodes -> Node]
  BY <1>1, <1>2
<1> QED
  BY <1>1, <1>2, <1>3 DEF Image

\* A file whose blocks are full gets one more.
LEMMA ZeroGood ==
    ASSUME NEW d, NEW i \in Inodes, NEW b \in Blocks, NEW amount \in 1..SlotsPerBlock, Good(d),
           EndOf(d, i) = Nil, ~d.map[b], d.node[i].type = "FILE",
           d.node[i].size = Len(BlocksOf(d, i)) * SlotsPerBlock
    PROVE  LET r == TakeZeroed(d, i, b, amount)
           IN  /\ Good(r) /\ Only(d, r, i) /\ r.up = d.up /\ EndOf(r, i) = Nil
               /\ BlocksOf(r, i) = Append(BlocksOf(d, i), b)
               /\ Len(BlocksOf(r, i)) = Len(BlocksOf(d, i)) + 1
               /\ r.node[i].size = d.node[i].size + amount
<1> DEFINE m == Take(d, i, b)
           z == Zeroed(m, b, 1, amount)
           r == [z EXCEPT !.node[i].size = @ + amount]
<1>0. amount \in Nat /\ SlotsPerBlock \in Nat
  BY Sizing
<1>1. Linked(d, Chains(d), Ends(d)) /\ Len(BlocksOf(d, i)) \in Nat /\ d.node[i].size \in Nat
  <2>1. d \in Image /\ Linked(d, Chains(d), Ends(d)) /\ Len(BlocksOf(d, i)) \in Nat
    BY GoodParts
  <2> QED
    BY <2>1, ImageParts
<1>2. /\ m \in Image /\ m.slot = d.slot /\ m.up = d.up
      /\ m.node[i].type = d.node[i].type /\ m.node[i].size = d.node[i].size
  BY <1>1, TakeParts
<1>3. TakeZeroed(d, i, b, amount) = r
  BY DEF TakeZeroed
<1>4. m = Take(d, i, b)
  OBVIOUS
<1> HIDE DEF m
<1>5. /\ z \in Image /\ z.node = m.node /\ z.next = m.next /\ z.map = m.map /\ z.up = m.up
      /\ \A y \in Blocks : y # b => z.slot[y] = m.slot[y]
  BY <1>2, ZeroedIs
<1> HIDE DEF z
<1>6. /\ r \in Image /\ r.next = z.next /\ r.map = z.map /\ r.slot = z.slot /\ r.up = z.up
      /\ r.node[i] = [z.node[i] EXCEPT !.size = @ + amount] /\ r.node[i] \in Node
      /\ \A j \in Inodes : j # i => r.node[j] = z.node[j]
  BY <1>0, <1>5, SizeIs
<1> HIDE DEF r
<1>7. /\ r.node[i].size = d.node[i].size + amount /\ r.node[i].type = "FILE"
      /\ r.node[i].first = m.node[i].first
  <2>1. z.node[i] \in Node /\ z.node[i] = m.node[i]
    BY <1>5 DEF Image
  <2> QED
    BY <1>2, <1>6, <2>1 DEF Node
<1>8. Fits(r.node[i], Len(BlocksOf(d, i)) + 1, Nil)
  <2> DEFINE L == Len(BlocksOf(d, i))
  <2>1. L \in Nat /\ r.node[i].size = L * SlotsPerBlock + amount
    BY <1>1, <1>7
  <2> HIDE DEF L
  <2>2. (L + 1) * SlotsPerBlock = L * SlotsPerBlock + SlotsPerBlock /\ L * SlotsPerBlock \in Nat
    BY <1>0, <2>1
  <2>3. (L + 1) * SlotsPerBlock - r.node[i].size \in 0..(SlotsPerBlock - 1)
    BY <1>0, <2>1, <2>2, SMTT(60)
  <2> QED
    BY <1>7, <2>3 DEF Fits, L
<1>9. /\ \A j \in Inodes : r.node[j].first = m.node[j].first
      /\ \A j \in Inodes \ {i} : r.node[j] = m.node[j]
      /\ \A y \in Blocks : y # b => r.slot[y] = d.slot[y]
      /\ r.next = m.next /\ r.map = m.map /\ r.node[i].type = d.node[i].type
      /\ r.up = d.up
  BY <1>2, <1>5, <1>6, <1>7, ZenonT(60)
<1>10. /\ Good(r) /\ Only(d, r, i) /\ EndOf(r, i) = Nil
       /\ BlocksOf(r, i) = Append(BlocksOf(d, i), b)
       /\ Len(BlocksOf(r, i)) = Len(BlocksOf(d, i)) + 1
  <2>1. /\ i \in Inodes /\ b \in Blocks /\ Good(d) /\ EndOf(d, i) = Nil /\ ~d.map[b] /\ m = Take(d, i, b) /\ r \in Image
        /\ r.next = m.next /\ r.map = m.map
        /\ \A j \in Inodes : r.node[j].first = m.node[j].first
        /\ \A j \in Inodes \ {i} : r.node[j] = m.node[j]
        /\ r.node[i].type = d.node[i].type
        /\ Fits(r.node[i], Len(BlocksOf(d, i)) + 1, Nil)
        /\ \A y \in Blocks : y # b => r.slot[y] = d.slot[y]
    BY <1>4, <1>6, <1>8, <1>9
  <2> QED
    BY ONLY <2>1, TakeGood
<1> QED
  BY <1>3, <1>7, <1>9, <1>10

\* On a full disc Wild is put behind the blocks of a file.
LEMMA WildGood ==
    ASSUME NEW d, NEW i \in Inodes, Good(d), d.node[i].type = "FILE",
           d.node[i].size = Len(BlocksOf(d, i)) * SlotsPerBlock
    PROVE  LET r == Attach(d, i, Wild)
           IN  Good(r) /\ Only(d, r, i) /\ r.up = d.up
<1> DEFINE c == Chains(d)
           e == Ends(d)
           e2 == [e EXCEPT ![i] = Wild]
           r == Attach(d, i, Wild)
<1>1. /\ Linked(d, c, e) /\ IsDir(d, Root) /\ d \in Image
      /\ \A j \in Inodes : /\ c[j] = BlocksOf(d, j) /\ e[j] = EndOf(d, j)
                           /\ Fits(d.node[j], Len(BlocksOf(d, j)), EndOf(d, j))
  BY GoodParts
<1> HIDE DEF c, e
<1>2. Linked(r, c, e2)
  BY <1>1, LinkedWild
<1>3. Wild \in Refs /\ Wild # Nil
  BY Sizing
<1>4. /\ r \in Image /\ r.map = d.map /\ r.slot = d.slot /\ r.up = d.up
      /\ \A j \in Inodes : /\ r.node[j].type = d.node[j].type
                           /\ r.node[j].size = d.node[j].size
                           /\ r.node[j].refs = d.node[j].refs
                           /\ j # i => r.node[j] = d.node[j]
      /\ c[i] = <<>> => r.next = d.next /\ r.node[i].first = Wild
      /\ c[i] # <<>> => r.node = d.node /\ r.next = [d.next EXCEPT ![c[i][Len(c[i])]] = Wild]
  BY <1>1, <1>3, AttachParts
<1> HIDE DEF r
<1>5. e2[i] = Wild /\ \A j \in Inodes : j # i => e2[j] = e[j]
  BY <1>1 DEF Linked
<1> HIDE DEF e2
<1>6. \A j \in Inodes : Fits(r.node[j], Len(c[j]), e2[j])
  <2> SUFFICES ASSUME NEW j \in Inodes PROVE Fits(r.node[j], Len(c[j]), e2[j])
    OBVIOUS
  <2>1. CASE j = i
    <3>1. r.node[i].type = "FILE" /\ r.node[i].size = Len(c[i]) * SlotsPerBlock
      BY <1>1, <1>4
    <3> QED
      BY <1>3, <1>5, <2>1, <3>1 DEF Fits
  <2>2. CASE j # i
    BY <1>1, <1>4, <1>5, <2>2
  <2> QED
    BY <2>1, <2>2
<1>7. Owns(r, c, e2)
  BY <1>1, <1>2, <1>4, <1>6, Sizing DEF Owns, IsDir
<1>8. Good(r)
  BY <1>7, OwnsGood
<1>9. Only(d, r, i)
  <2>1. \A j \in Inodes \ {i} : /\ r.node[j].type = d.node[j].type
                                /\ r.node[j].size = d.node[j].size
                                /\ c[j] = BlocksOf(d, j) /\ e2[j] = EndOf(d, j)
    BY <1>1, <1>4, <1>5
  <2>2. \A b \in Blocks : r.slot[b] # d.slot[b] => b \in Owned(d, i) \/ ~d.map[b]
    BY <1>4
  <2>3. r.node[i].type = d.node[i].type
    BY <1>4
  <2> QED
    BY <1>7, <2>1, <2>2, <2>3, OnlyFrom
<1> QED
  BY <1>4, <1>8, <1>9 DEF r
-----------------------------------------------------------------------------
(* Loops that give a file its blocks.                                      *)

\* The last block of a chain that ends in Nil leads nowhere already.
LEMMA NextNil ==
    ASSUME NEW d, NEW i \in Inodes, NEW s, NEW b \in Blocks, Good(d), EndOf(d, i) = Nil,
           s \in Seq(Blocks), BlocksOf(d, i) = Append(s, b)
    PROVE  [d EXCEPT !.next[b] = Nil] = d
<1> DEFINE t == BlocksOf(d, i)
<1>1. d \in Image /\ Thread(d.next, d.node[i].first, Nil, t)
  <2>1. /\ Linked(d, Chains(d), Ends(d)) /\ d \in Image
        /\ Chains(d)[i] = t /\ Ends(d)[i] = Nil
    BY GoodParts
  <2>2. Thread(d.next, d.node[i].first, Ends(d)[i], Chains(d)[i])
    BY ONLY <2>1, i \in Inodes DEF Linked
  <2> QED
    BY ONLY <2>1, <2>2
<1>2. t # <<>> /\ t[Len(t)] = b
  <2>1. Append(s, b) # <<>> /\ Append(s, b)[Len(Append(s, b))] = b
    BY AppendProperties
  <2> QED
    BY <2>1
<1>3. d.next[b] = Nil
  BY <1>1, <1>2 DEF Thread
<1>4. d.next \in [Blocks -> Refs]
  BY <1>1 DEF Image
<1>5. [d.next EXCEPT ![b] = Nil] = d.next
  BY <1>3, <1>4
<1> QED
  BY <1>1, <1>5 DEF Image

\* The file i of d has been read so far, and is full if there is more.
Full(d, i) ==
    /\ d.node[i].type = "FILE"
    /\ EndOf(d, i) = Nil
    /\ d.node[i].size = Len(BlocksOf(d, i)) * SlotsPerBlock

\* A file whose blocks are full takes one more and writes amount bytes to it.
LEMMA FullTakes ==
    ASSUME NEW d, NEW i \in Inodes, NEW b \in Blocks, NEW amount \in 1..SlotsPerBlock, Good(d),
           ~d.map[b], Full(d, i)
    PROVE  LET r == TakeZeroed(d, i, b, amount)
           IN  /\ Good(r) /\ Only(d, r, i) /\ r.up = d.up
               /\ EndOf(r, i) = Nil
               /\ BlocksOf(r, i) = Append(BlocksOf(d, i), b)
               /\ amount = SlotsPerBlock => Full(r, i)
<1> DEFINE r == TakeZeroed(d, i, b, amount)
           L == Len(BlocksOf(d, i))
<1>1. /\ Good(r) /\ Only(d, r, i) /\ r.up = d.up /\ EndOf(r, i) = Nil
      /\ BlocksOf(r, i) = Append(BlocksOf(d, i), b)
      /\ Len(BlocksOf(r, i)) = L + 1
      /\ r.node[i].size = d.node[i].size + amount
  BY ZeroGood DEF Full
<1>2. L \in Nat
  BY GoodParts
<1>3. d.node[i].size = L * SlotsPerBlock /\ d.node[i].type = "FILE"
  BY DEF Full
<1> HIDE DEF L, r
<1>4. (L + 1) * SlotsPerBlock = L * SlotsPerBlock + SlotsPerBlock
  BY <1>2, Sizing
<1>5. amount = SlotsPerBlock => Full(r, i)
  BY <1>1, <1>3, <1>4 DEF Full, Only
<1> QED
  BY <1>1, <1>5 DEF r

\* copy_file_to_disc(): what each round keeps of the file i of d.
Reading(d, i) ==
    {m \in [d : Image, rest : Nat, more : BOOLEAN] :
        /\ Good(m.d) /\ Only(d, m.d, i) /\ m.d.up
        /\ m.more => Full(m.d, i)}

\* The state of the loop, from its parts.
LEMMA ReadingIs ==
    ASSUME NEW d, NEW i, NEW r, NEW rest \in Nat, NEW more \in BOOLEAN, Good(r), Only(d, r, i),
           r.up, more => Full(r, i)
    PROVE  [d |-> r, rest |-> rest, more |-> more] \in Reading(d, i)
<1>1. r \in Image
  BY GoodParts
<1> QED
  BY <1>1 DEF Reading

\* One round of the loop that reads a file into the disc.
LEMMA ReadBlockGood ==
    ASSUME NEW d, NEW i \in Inodes, NEW m \in Reading(d, i), NEW atEnd \in BOOLEAN
    PROVE  ReadBlock(m, i, atEnd) \in Reading(d, i)
<1> DEFINE b == FindFreeDatablock(m.d)
           here == AtMost(m.rest, SlotsPerBlock)
           read == TakeZeroed(m.d, i, b, here)
<1>1. /\ Good(m.d) /\ Only(d, m.d, i) /\ m.d.up /\ (m.more => Full(m.d, i))
      /\ m.rest \in Nat /\ m.more \in BOOLEAN
  BY DEF Reading
<1>2. CASE ~m.more
  <2>1. ReadBlock(m, i, atEnd) = m
    BY <1>2 DEF ReadBlock
  <2> QED
    BY <2>1
<1>3. CASE m.more /\ m.rest = 0 /\ (b # Wild \/ atEnd)
  <2>1. ReadBlock(m, i, atEnd) = [d |-> Attach(m.d, i, Nil), rest |-> 0, more |-> FALSE]
    BY <1>3 DEF ReadBlock
  <2>2. Attach(m.d, i, Nil) = m.d
    <3>1. Linked(m.d, Chains(m.d), Ends(m.d)) /\ Ends(m.d)[i] = Nil
      BY <1>1, <1>3, GoodParts DEF Full
    <3> QED
      BY <3>1, AttachNil
  <2> QED
    BY <1>1, <2>1, <2>2, ReadingIs
<1>4. CASE m.more /\ ~(m.rest = 0 /\ (b # Wild \/ atEnd)) /\ b = Wild
  <2>1. ReadBlock(m, i, atEnd) = [d |-> Attach(m.d, i, Wild), rest |-> m.rest, more |-> FALSE]
    BY <1>4 DEF ReadBlock
  <2> DEFINE r == Attach(m.d, i, Wild)
  <2>2. Good(r) /\ Only(m.d, r, i) /\ r.up = m.d.up
    BY <1>1, <1>4, WildGood DEF Full
  <2> HIDE DEF r
  <2>3. Only(d, r, i)
    BY <1>1, <2>2, OnlyTwice
  <2>4. [d |-> r, rest |-> m.rest, more |-> FALSE] \in Reading(d, i)
    BY <1>1, <2>2, <2>3, ReadingIs
  <2> QED
    BY <2>1, <2>4 DEF r
<1>5. CASE m.more /\ ~(m.rest = 0 /\ (b # Wild \/ atEnd)) /\ b # Wild
  <2>1. b \in Blocks /\ ~m.d.map[b]
    BY <1>5, FreeBlock
  <2>2. here \in 1..SlotsPerBlock /\ m.rest - here \in Nat
    <3>1. m.rest # 0 /\ SlotsPerBlock \in Nat \ {0}
      BY <1>5, Sizing
    <3> QED
      BY <1>1, <3>1 DEF AtMost
  <2>3. here < SlotsPerBlock <=> here # SlotsPerBlock
    BY <2>2, Sizing
  <2>4. ReadBlock(m, i, atEnd) = [d |-> IF here < SlotsPerBlock THEN [read EXCEPT !.next[b] = Nil] ELSE read,
                                  rest |-> m.rest - here,
                                  more |-> here = SlotsPerBlock]
    <3> HIDE DEF b, here
    <3> QED
      BY <1>5 DEF ReadBlock, b, here
  <2> HIDE DEF b, here
  <2>5. /\ Good(read) /\ Only(m.d, read, i) /\ read.up = m.d.up
        /\ EndOf(read, i) = Nil
        /\ BlocksOf(read, i) = Append(BlocksOf(m.d, i), b)
        /\ here = SlotsPerBlock => Full(read, i)
    BY <1>1, <1>5, <2>1, <2>2, FullTakes
  <2> HIDE DEF read
  <2>6. [read EXCEPT !.next[b] = Nil] = read
    <3>1. BlocksOf(m.d, i) \in Seq(Blocks)
      BY <1>1, GoodParts
    <3> QED
      BY <2>1, <2>5, <3>1, NextNil
  <2>7. Only(d, read, i)
    BY <1>1, <2>5, OnlyTwice
  <2> DEFINE more == here = SlotsPerBlock
  <2>8. [d |-> read, rest |-> m.rest - here, more |-> more] \in Reading(d, i)
    <3>1. more \in BOOLEAN /\ (more => Full(read, i))
      BY <2>5
    <3> HIDE DEF more
    <3> QED
      BY <1>1, <2>2, <2>5, <2>7, <3>1, ReadingIs
  <2> QED
    BY <2>4, <2>6, <2>8
<1> QED
  BY <1>1, <1>2, <1>3, <1>4, <1>5

\* The whole loop: cpto() leaves a disc that is in order, full or not.
LEMMA ReadIntoGood ==
    ASSUME NEW d, NEW i \in Inodes, NEW size \in Nat, NEW atEnd \in BOOLEAN, Good(d), d.up,
           Full(d, i)
    PROVE  LET r == ReadInto(d, i, size, atEnd) IN Good(r) /\ Only(d, r, i)
<1> DEFINE N == BlocksNum + 1
           H == Reading(d, i)
           a == [d |-> d, rest |-> size, more |-> TRUE]
           Is(g) == g = [n \in 0..N |-> IF n = 0 THEN a ELSE ReadBlock(g[n - 1], i, atEnd)]
           at == CHOOSE g : Is(g)
           G == [k \in 1..N |-> [x \in H |-> ReadBlock(x, i, atEnd)]]
<1>0. N \in Nat
  BY Sizing
<1>1. a \in H
  BY OnlySelf, ReadingIs
<1>2. \A x \in H : ReadBlock(x, i, atEnd) \in H
  BY ReadBlockGood
<1>3. ReadInto(d, i, size, atEnd) = at[N].d
  BY DEF ReadInto
<1> HIDE DEF N, H, a
<1>4. \A k \in 1..N : \A x \in H : G[k][x] = ReadBlock(x, i, atEnd) /\ G[k][x] \in H
  BY <1>2
<1> HIDE DEF G
<1>5. PICK g : IsLoop(g, N, a, G) /\ \A k \in 0..N : g[k] \in H
  <2>1. \A k \in 1..N : \A x \in H : G[k][x] \in H
    BY ONLY <1>4
  <2> QED
    BY ONLY <1>0, <1>1, <2>1, Rounds
<1>6. Is(g)
  <2>1. g = [n \in 0..N |-> IF n = 0 THEN a ELSE G[n][g[n - 1]]]
    BY <1>5 DEF IsLoop
  <2>2. ASSUME NEW n \in 0..N, n # 0 PROVE G[n][g[n - 1]] = ReadBlock(g[n - 1], i, atEnd)
    <3>1. n \in 1..N /\ n - 1 \in 0..N
      BY <1>0, <2>2
    <3> QED
      BY <1>4, <1>5, <3>1
  <2> QED
    BY <2>1, <2>2
<1>7. Is(at)
  <2> HIDE DEF Is
  <2> QED
    BY <1>6
<1>8. at[0] = a /\ \A n \in 1..N : at[n] = ReadBlock(at[n - 1], i, atEnd)
  <2>1. \A n \in 0..N : at[n] = IF n = 0 THEN a ELSE ReadBlock(at[n - 1], i, atEnd)
    BY <1>7, Zenon
  <2> HIDE DEF at
  <2> QED
    BY <1>0, <2>1
<1> HIDE DEF at
<1> DEFINE S == {n \in 0..N : at[n] \in H}
<1>9. 0 \in S
  BY <1>0, <1>1, <1>8
<1>10. ASSUME NEW k \in 1..N, k - 1 \in S PROVE k \in S
  <2>1. at[k] \in H /\ k \in 0..N
    BY <1>0, <1>2, <1>8, <1>10
  <2> QED
    BY <2>1
<1> HIDE DEF S
<1>11. \A k \in 0..N : k \in S
  BY <1>0, <1>9, <1>10, LoopHolds
<1>12. at[N] \in H
  BY <1>0, <1>11 DEF S
<1> QED
  BY <1>3, <1>12 DEF H, Reading

\* increase_file_size(): the same of its loop.
Extending(d, i) ==
    {m \in [d : Image, rest : Nat] :
        m.d.up => /\ Good(m.d) /\ Only(d, m.d, i)
                  /\ m.rest # 0 => Full(m.d, i)}

\* One round of the loop of inc().
LEMMA ExtendBlockGood ==
    ASSUME NEW d, NEW i \in Inodes, NEW m \in Extending(d, i)
    PROVE  ExtendBlock(m, i) \in Extending(d, i)
<1> DEFINE b == FindFreeDatablock(m.d)
           here == AtMost(m.rest, SlotsPerBlock)
           read == TakeZeroed(m.d, i, b, here)
<1>1. m \in [d : Image, rest : Nat] /\ m.d \in Image /\ m.rest \in Nat
  BY DEF Extending
<1>2. CASE m.rest = 0 \/ ~m.d.up
  <2>1. ExtendBlock(m, i) = m
    BY <1>2 DEF ExtendBlock
  <2> QED
    BY <2>1
<1>3. CASE ~(m.rest = 0 \/ ~m.d.up) /\ b = Wild
  <2>1. ExtendBlock(m, i) = [m EXCEPT !.d = Dies(@)]
    BY <1>3 DEF ExtendBlock
  <2>2. Dies(m.d).up = FALSE /\ Dies(m.d) \in Image
    BY <1>1, DiesUp
  <2> HIDE DEF b
  <2>3. [m EXCEPT !.d = Dies(@)] = [d |-> Dies(m.d), rest |-> m.rest]
    BY <1>1
  <2> QED
    BY <1>1, <2>1, <2>2, <2>3 DEF Extending
<1>4. CASE ~(m.rest = 0 \/ ~m.d.up) /\ b # Wild
  <2>1. b \in Blocks /\ ~m.d.map[b]
    BY <1>4, FreeBlock
  <2>2. Good(m.d) /\ Only(d, m.d, i) /\ Full(m.d, i)
    BY <1>4 DEF Extending
  <2>3. here \in 1..SlotsPerBlock /\ m.rest - here \in Nat /\ (m.rest - here # 0 => here = SlotsPerBlock)
    <3>1. m.rest # 0 /\ SlotsPerBlock \in Nat \ {0}
      BY <1>4, Sizing
    <3> QED
      BY <1>1, <3>1 DEF AtMost
  <2>4. ExtendBlock(m, i) = [d |-> read, rest |-> m.rest - here]
    <3> HIDE DEF b, here
    <3> QED
      BY <1>4 DEF ExtendBlock, b, here
  <2> HIDE DEF b, here
  <2>5. /\ Good(read) /\ Only(m.d, read, i) /\ read.up = m.d.up
        /\ here = SlotsPerBlock => Full(read, i)
    BY <2>1, <2>2, <2>3, FullTakes
  <2> HIDE DEF read
  <2>6. Only(d, read, i) /\ read \in Image
    <3>1. Only(d, read, i)
      BY <2>2, <2>5, OnlyTwice
    <3>2. read \in Image
      BY <2>5, GoodParts
    <3> QED
      BY <3>1, <3>2
  <2> QED
    BY <2>3, <2>4, <2>5, <2>6 DEF Extending
<1> QED
  BY <1>2, <1>3, <1>4

\* The whole loop of inc(), as long as the process lives.
LEMMA ExtendGood ==
    ASSUME NEW d, NEW i \in Inodes, NEW amount \in Nat, Good(d), amount # 0 => Full(d, i),
           Extend(d, i, amount).up
    PROVE  LET r == Extend(d, i, amount) IN Good(r) /\ Only(d, r, i)
<1> DEFINE N == BlocksNum + 1
           H == Extending(d, i)
           a == [d |-> d, rest |-> amount]
           Is(g) == g = [n \in 0..N |-> IF n = 0 THEN a ELSE ExtendBlock(g[n - 1], i)]
           at == CHOOSE g : Is(g)
           G == [k \in 1..N |-> [x \in H |-> ExtendBlock(x, i)]]
<1>0. N \in Nat
  BY Sizing
<1>1. a \in H
  <2>1. d \in Image /\ Only(d, d, i)
    BY GoodParts, OnlySelf
  <2> QED
    BY <2>1 DEF Extending
<1>2. \A x \in H : ExtendBlock(x, i) \in H
  BY ExtendBlockGood
<1>3. Extend(d, i, amount) = at[N].d
  BY DEF Extend
<1> HIDE DEF N, H, a
<1>4. \A k \in 1..N : \A x \in H : G[k][x] = ExtendBlock(x, i) /\ G[k][x] \in H
  BY <1>2
<1> HIDE DEF G
<1>5. PICK g : IsLoop(g, N, a, G) /\ \A k \in 0..N : g[k] \in H
  <2>1. \A k \in 1..N : \A x \in H : G[k][x] \in H
    BY ONLY <1>4
  <2> QED
    BY ONLY <1>0, <1>1, <2>1, Rounds
<1>6. Is(g)
  <2>1. g = [n \in 0..N |-> IF n = 0 THEN a ELSE G[n][g[n - 1]]]
    BY <1>5 DEF IsLoop
  <2>2. ASSUME NEW n \in 0..N, n # 0 PROVE G[n][g[n - 1]] = ExtendBlock(g[n - 1], i)
    <3>1. n \in 1..N /\ n - 1 \in 0..N
      BY <1>0, <2>2
    <3> QED
      BY <1>4, <1>5, <3>1
  <2> QED
    BY <2>1, <2>2
<1>7. Is(at)
  <2> HIDE DEF Is
  <2> QED
    BY <1>6
<1>8. at[0] = a /\ \A n \in 1..N : at[n] = ExtendBlock(at[n - 1], i)
  <2>1. \A n \in 0..N : at[n] = IF n = 0 THEN a ELSE ExtendBlock(at[n - 1], i)
    BY <1>7, Zenon
  <2> HIDE DEF at
  <2> QED
    BY <1>0, <2>1
<1> HIDE DEF at
<1> DEFINE S == {n \in 0..N : at[n] \in H}
<1>9. 0 \in S
  BY <1>0, <1>1, <1>8
<1>10. ASSUME NEW k \in 1..N, k - 1 \in S PROVE k \in S
  <2>1. at[k] \in H /\ k \in 0..N
    BY <1>0, <1>2, <1>8, <1>10
  <2> QED
    BY <2>1
<1> HIDE DEF S
<1>11. \A k \in 0..N : k \in S
  BY <1>0, <1>9, <1>10, LoopHolds
<1>12. at[N] \in H
  BY <1>0, <1>11 DEF S
<1> QED
  BY <1>3, <1>12 DEF H, Extending
-----------------------------------------------------------------------------
(* Less and more of a file.                                                *)

\* An inode written anew but for its first block keeps the image linked.
LEMMA NodeLinked ==
    ASSUME NEW d, NEW c, NEW e, Linked(d, c, e), NEW i \in Inodes, NEW x \in Node,
           x.first = d.node[i].first
    PROVE  LET r == [d EXCEPT !.node[i] = x]
           IN  /\ Linked(r, c, e) /\ r.slot = d.slot /\ r.up = d.up /\ r.map = d.map
               /\ r.node[i] = x
               /\ \A j \in Inodes : j # i => r.node[j] = d.node[j]
<1> DEFINE r == [d EXCEPT !.node[i] = x]
<1>1. d \in Image /\ d.node \in [Inodes -> Node]
  BY DEF Linked, Image
<1>2. [d.node EXCEPT ![i] = x] \in [Inodes -> Node]
  BY <1>1
<1>3. /\ r \in Image /\ r.next = d.next /\ r.map = d.map /\ r.slot = d.slot /\ r.up = d.up
      /\ r.node = [d.node EXCEPT ![i] = x]
  BY <1>1, <1>2 DEF Image
<1>4. r.node[i] = x /\ \A j \in Inodes : j # i => r.node[j] = d.node[j]
  BY <1>1, <1>3
<1> HIDE DEF r
<1>5. \A j \in Inodes : r.node[j].first = d.node[j].first
  BY <1>4
<1>6. Linked(r, c, e)
  BY <1>3, <1>5, LinkedSame
<1> QED
  BY <1>3, <1>4, <1>6 DEF r

\* The end of decrease_file_size()
LEMMA DecGood ==
    ASSUME NEW d, NEW i \in Inodes, NEW size \in Nat, Good(d), d.node[i].type = "FILE",
           size <= d.node[i].size,
           Shorten([d EXCEPT !.node[i].size = size], i, BlocksFor(size)).up
    PROVE  LET r == Shorten([d EXCEPT !.node[i].size = size], i, BlocksFor(size))
           IN  Good(r) /\ Only(d, r, i)
<1> DEFINE c == Chains(d)
           e == Ends(d)
           L == Len(c[i])
           n == BlocksFor(size)
           x == [d.node[i] EXCEPT !.size = size]
           m == [d EXCEPT !.node[i] = x]
           r == Shorten(m, i, n)
           c2 == [c EXCEPT ![i] = SubSeq(@, 1, n)]
<1>1. /\ Linked(d, c, e) /\ IsDir(d, Root) /\ d \in Image
      /\ \A j \in Inodes : /\ c[j] = BlocksOf(d, j) /\ e[j] = EndOf(d, j)
                           /\ c[j] \in Seq(Blocks) /\ Len(c[j]) \in Nat
                           /\ Fits(d.node[j], Len(c[j]), e[j])
  BY GoodParts
<1> HIDE DEF c, e
<1>2. [d EXCEPT !.node[i].size = size] = m
  OBVIOUS
<1>3. /\ x \in Node /\ x.first = d.node[i].first /\ x.size = size /\ x.type = "FILE"
  <2>1. d.node[i] \in Node
    BY <1>1 DEF Image
  <2> QED
    BY <2>1 DEF Node
<1>4. n \in 0..L
  <2>1. SlotsPerBlock \in Nat \ {0} /\ L \in Nat /\ d.node[i].size \in Nat
    BY <1>1, Sizing, ImageParts
  <2>2. d.node[i].size <= L * SlotsPerBlock
    <3>1. Fits(d.node[i], L, e[i])
      BY <1>1
    <3> DEFINE p == L * SlotsPerBlock
    <3>2. p \in Nat
      BY <2>1
    <3>3. p - d.node[i].size \in 0..(SlotsPerBlock - 1) \/ d.node[i].size = p
      BY <3>1 DEF Fits
    <3> HIDE DEF p
    <3>4. d.node[i].size <= p
      BY <2>1, <3>2, <3>3
    <3> QED
      BY <3>4 DEF p
  <2>3. size <= L * SlotsPerBlock
    <3> DEFINE p == L * SlotsPerBlock
    <3>1. p \in Nat
      BY <2>1
    <3> HIDE DEF p
    <3>2. size <= p
      BY <2>1, <2>2, <3>1 DEF p
    <3> QED
      BY <3>2 DEF p
  <2> HIDE DEF L
  <2>4. n \in Nat /\ n <= L
    BY <2>1, <2>3, Rounded DEF BlocksFor
  <2> QED
    BY <2>1, <2>4
<1>5. n * SlotsPerBlock - size \in 0..(SlotsPerBlock - 1)
  BY Sizing, Rounded DEF BlocksFor
<1>6. Shorten([d EXCEPT !.node[i].size = size], i, BlocksFor(size)) = r
  BY <1>2
<1> HIDE DEF n, x
<1>7. /\ Linked(m, c, e) /\ m.slot = d.slot /\ m.node[i] = x
      /\ \A j \in Inodes : j # i => m.node[j] = d.node[j]
  BY ONLY <1>1, <1>3, i \in Inodes, NodeLinked
<1> HIDE DEF m
<1>8. e[i] = Nil
  <2>1. e[i] # Nil => ~r.up
    BY ONLY <1>4, <1>7, i \in Inodes, ShortenWild
  <2> QED
    BY <1>6, <2>1
<1>9. Linked(r, c2, e) /\ Len(SubSeq(c[i], 1, n)) = n
  BY ONLY <1>4, <1>7, <1>8, i \in Inodes, LinkedShorten
<1>10. /\ r \in Image /\ r.slot = m.slot
       /\ \A j \in Inodes : /\ r.node[j].type = m.node[j].type
                            /\ r.node[j].size = m.node[j].size
                            /\ j # i => r.node[j] = m.node[j]
  <2> DEFINE freed == Behind(c[i], n)
  <2>1. /\ r \in Image /\ r.slot = m.slot /\ r.up = m.up
        /\ \A j \in Inodes : /\ r.node[j].type = m.node[j].type
                             /\ r.node[j].size = m.node[j].size
                             /\ r.node[j].refs = m.node[j].refs
                             /\ j # i => r.node[j] = m.node[j]
        /\ r.node[i].first = IF n = 0 THEN Nil ELSE m.node[i].first
        /\ \A y \in Blocks : r.map[y] <=> y \notin freed /\ m.map[y]
        /\ \A y \in Blocks : r.next[y] =
               IF y \in freed \/ (n # 0 /\ y = c[i][n]) THEN Nil ELSE m.next[y]
    BY ONLY <1>4, <1>7, <1>8, i \in Inodes, ShortenParts
  <2> QED
    BY <2>1
<1> HIDE DEF r
<1>11. c2[i] = SubSeq(c[i], 1, n) /\ \A j \in Inodes : j # i => c2[j] = c[j]
  <2>1. c \in [Inodes -> Seq(Blocks)]
    BY <1>1 DEF Linked
  <2> QED
    BY <2>1
<1> HIDE DEF c2
<1>12. \A j \in Inodes : Fits(r.node[j], Len(c2[j]), e[j])
  <2> SUFFICES ASSUME NEW j \in Inodes PROVE Fits(r.node[j], Len(c2[j]), e[j])
    OBVIOUS
  <2>1. CASE j = i
    <3>1. r.node[i].type = "FILE" /\ r.node[i].size = size /\ Len(c2[i]) = n
      BY <1>3, <1>7, <1>9, <1>10, <1>11
    <3> QED
      BY <1>5, <1>8, <2>1, <3>1 DEF Fits
  <2>2. CASE j # i
    BY <1>1, <1>7, <1>10, <1>11, <2>2
  <2> QED
    BY <2>1, <2>2
<1>13. IsDir(r, Root)
  <2>1. i # Root
    BY <1>1 DEF IsDir
  <2> QED
    BY <1>1, <1>7, <1>10, <2>1, Sizing DEF IsDir
<1>14. Owns(r, c2, e)
  BY <1>9, <1>12, <1>13 DEF Owns
<1>15. Only(d, r, i)
  <2>1. r.node[i].type = d.node[i].type
    BY <1>3, <1>7, <1>10
  <2>2. \A j \in Inodes \ {i} : /\ r.node[j].type = d.node[j].type
                                /\ r.node[j].size = d.node[j].size
                                /\ c2[j] = BlocksOf(d, j) /\ e[j] = EndOf(d, j)
    BY <1>1, <1>7, <1>10, <1>11
  <2>3. \A b \in Blocks : r.slot[b] # d.slot[b] => b \in Owned(d, i) \/ ~d.map[b]
    BY <1>7, <1>10
  <2> QED
    BY ONLY <1>14, <2>1, <2>2, <2>3, i \in Inodes, Good(d), OnlyFrom
<1>16. Good(r)
  BY ONLY <1>14, OwnsGood
<1> QED
  BY <1>6, <1>15, <1>16

\* What inc() does to file i of d.
Increased(d, i, amount) ==
    LET blocks == BlocksOf(d, i)
        used == d.node[i].size % SlotsPerBlock
        room == IF used = 0 THEN 0 ELSE SlotsPerBlock - used
        here == AtMost(amount, room)
        filled == [Zeroed(d, Last(blocks), used + 1, used + here)
                      EXCEPT !.node[i].size = @ + here]
    IN  Extend(filled, i, amount - here)

\* increase_file_size()
LEMMA IncGood ==
    ASSUME NEW d, NEW i \in Inodes, NEW amount \in Nat, Good(d), d.node[i].type = "FILE",
           d.node[i].first # Nil, EndOf(d, i) # Wild
    PROVE  LET r == Increased(d, i, amount)
           IN  r.up => Good(r) /\ Only(d, r, i)
<1> DEFINE blocks == BlocksOf(d, i)
           L == Len(blocks)
           size == d.node[i].size
           used == size % SlotsPerBlock
           room == IF used = 0 THEN 0 ELSE SlotsPerBlock - used
           here == AtMost(amount, room)
           b == Last(blocks)
           z == Zeroed(d, b, used + 1, used + here)
           x == [z.node[i] EXCEPT !.size = @ + here]
           filled == [z EXCEPT !.node[i] = x]
           r == Extend(filled, i, amount - here)
<1>1. /\ Linked(d, Chains(d), Ends(d)) /\ d \in Image /\ IsDir(d, Root)
      /\ Chains(d)[i] = blocks /\ Ends(d)[i] = EndOf(d, i)
      /\ Fits(d.node[i], L, EndOf(d, i)) /\ blocks \in Seq(Blocks) /\ L \in Nat
  BY GoodParts
<1>2. EndOf(d, i) = Nil /\ i # Root
  <2>1. EndOf(d, i) \in {Nil, Wild}
    BY <1>1 DEF Linked
  <2> QED
    BY <1>1, <2>1 DEF IsDir
<1>3. b \in Blocks /\ b \in Owned(d, i)
  <2>1. Thread(d.next, d.node[i].first, Nil, blocks)
    BY <1>1, <1>2 DEF Linked
  <2>2. blocks # <<>>
    BY <2>1 DEF Thread
  <2>3. L \in 1..L
    BY <1>1, <2>2
  <2> QED
    BY <1>1, <2>3 DEF Last, Owned, ToSet
<1>4. size \in Nat /\ SlotsPerBlock \in Nat \ {0}
  BY <1>1, Sizing, ImageParts
<1>5. L * SlotsPerBlock - size \in 0..(SlotsPerBlock - 1)
  BY <1>1, <1>2 DEF Fits
<1>6. room \in Nat /\ size + room = L * SlotsPerBlock
  <2> DEFINE p == L * SlotsPerBlock
  <2>1. (used = 0 => size = p) /\ (used # 0 => SlotsPerBlock - used = p - size)
    BY ONLY <1>1, <1>4, <1>5, Rest
  <2>2. used \in 0..(SlotsPerBlock - 1) /\ p \in Nat
    <3>1. p \in Nat
      BY <1>1, <1>4
    <3> HIDE DEF p, size
    <3>2. used \in 0..(SlotsPerBlock - 1)
      BY <1>4, Division
    <3> QED
      BY <3>1, <3>2
  <2> HIDE DEF p, used, size
  <2>3. room \in Nat /\ size + room = p
    BY <1>4, <2>1, <2>2
  <2> QED
    BY <2>3 DEF p
<1> HIDE DEF room
<1>7. here \in Nat /\ here <= room /\ amount - here \in Nat /\ (amount - here # 0 => here = room)
  BY <1>6 DEF AtMost
<1> HIDE DEF here, used, size, L, b
<1>8. /\ z \in Image /\ z.node = d.node /\ z.next = d.next /\ z.map = d.map /\ z.up = d.up
      /\ \A y \in Blocks : y # b => z.slot[y] = d.slot[y]
  BY ONLY <1>1, <1>3, ZeroedIs
<1>9. [z EXCEPT !.node[i].size = @ + here] = filled
  OBVIOUS
<1> HIDE DEF z
<1>10. /\ Good(z) /\ Only(d, z, i)
       /\ \A j \in Inodes : BlocksOf(z, j) = BlocksOf(d, j) /\ EndOf(z, j) = EndOf(d, j)
  <2>1. \A y \in Blocks : z.slot[y] # d.slot[y] => y \in Owned(d, i) \/ ~d.map[y]
    BY <1>3, <1>8
  <2> QED
    BY ONLY <1>8, <2>1, i \in Inodes, Good(d), SlotsOnly
<1>11. /\ x \in Node /\ x.first = z.node[i].first /\ x.size = size + here /\ x.type = "FILE"
  <2>1. z.node[i] \in Node /\ z.node[i].size = size /\ z.node[i].type = "FILE"
    BY <1>8 DEF Image, size
  <2> QED
    BY <1>4, <1>7, <2>1 DEF Node
<1> HIDE DEF x
<1>12. L * SlotsPerBlock - x.size \in 0..(SlotsPerBlock - 1)
       /\ (amount - here # 0 => x.size = L * SlotsPerBlock)
  <2> DEFINE p == L * SlotsPerBlock
  <2>1. p = size + room /\ p - size \in 0..(SlotsPerBlock - 1)
    BY <1>5, <1>6
  <2> HIDE DEF p
  <2>2. p - x.size \in 0..(SlotsPerBlock - 1) /\ (amount - here # 0 => x.size = p)
    BY <1>4, <1>6, <1>7, <1>11, <2>1
  <2> QED
    BY <2>2 DEF p
<1>13. BlocksOf(z, i) = BlocksOf(d, i) /\ EndOf(z, i) = Nil /\ Len(BlocksOf(z, i)) = L
  BY <1>2, <1>10 DEF L
<1>14. Fits(x, Len(BlocksOf(z, i)), EndOf(z, i))
  BY <1>11, <1>12, <1>13 DEF Fits
<1>15. /\ Good(filled) /\ filled.node[i] = x
       /\ \A j \in Inodes : BlocksOf(filled, j) = BlocksOf(z, j) /\ EndOf(filled, j) = EndOf(z, j)
       /\ \A j \in Inodes : j # i => Same(z, filled, j)
  <2>1. i = Root => x.type = "DIRECTORY"
    BY <1>2
  <2>2. x \in Node /\ Good(z) /\ x.first = z.node[i].first
    BY ONLY <1>10, <1>11
  <2>3. LET y == [z EXCEPT !.node[i] = x]
        IN  /\ Good(y) /\ y.slot = z.slot /\ y.up = z.up /\ y.map = z.map /\ y.node[i] = x
            /\ \A j \in Inodes : j # i => y.node[j] = z.node[j]
            /\ \A j \in Inodes : BlocksOf(y, j) = BlocksOf(z, j) /\ EndOf(y, j) = EndOf(z, j)
            /\ \A j \in Inodes : j # i => Same(z, y, j)
    BY ONLY <2>1, <2>2, <1>14, i \in Inodes, NodeGood
  <2> QED
    BY ONLY <2>3
<1> HIDE DEF filled
<1>16. Only(d, filled, i)
  <2>1. Only(z, filled, i)
    BY <1>8, <1>11, <1>15 DEF Only
  <2> QED
    BY <1>10, <2>1, OnlyTwice
<1>17. amount - here # 0 => Full(filled, i)
  BY <1>11, <1>12, <1>13, <1>15 DEF Full
<1>18. r.up => Good(r) /\ Only(d, r, i)
  <2>1. r.up => Good(r) /\ Only(filled, r, i)
    <3> DEFINE more == amount - here
    <3>1. more \in Nat /\ (more # 0 => Full(filled, i))
      BY <1>7, <1>17
    <3> HIDE DEF more
    <3> QED
      BY ONLY <1>15, <3>1, i \in Inodes, ExtendGood DEF more
  <2> QED
    BY <1>16, <2>1, OnlyTwice
<1> QED
  BY <1>9, <1>18, Zenon DEF Increased, room, here, used, size, b, z, r
-----------------------------------------------------------------------------
(* Removing.                                                               *)

\* A remainder is in its range.
LEMMA Modulo ==
    ASSUME NEW M \in Nat \ {0}, NEW n \in Int
    PROVE  n % M \in 0..(M - 1)
OBVIOUS

\* What is kept twice is kept.
LEMMA SameTwice ==
    ASSUME NEW d, NEW m, NEW r, NEW j, Same(d, m, j), Same(m, r, j)
    PROVE  Same(d, r, j)
<1>1. Owned(m, j) = Owned(d, j)
  BY DEF Same, Owned
<1> QED
  BY <1>1, Zenon DEF Same

\* An inode is put back: it has no blocks, its other inodes are as they were.
LEMMA DropGood ==
    ASSUME NEW d, NEW i \in Inodes \ {Root}, Good(d)
    PROVE  LET r == Drop(d, i)
           IN  /\ r \in Image
               /\ r.up => /\ Good(r) /\ r.slot = d.slot
                          /\ r.node[i].type = "EMPTY"
                          /\ \A j \in Inodes : j # i => Same(d, r, j)
<1> DEFINE c == Chains(d)
           e == Ends(d)
           f == d.node[i].first
           fr == Dealloc(d, f)
           m == Shorten(d, i, 0)
           r == Drop(d, i)
           q == [m EXCEPT !.node[i] = EmptyNode]
           n == 0
           c2 == [c EXCEPT ![i] = SubSeq(@, 1, n)]
<1>0. i \in Inodes /\ i # Root
  OBVIOUS
<1>1. /\ Linked(d, c, e) /\ IsDir(d, Root) /\ d \in Image
      /\ \A j \in Inodes : /\ c[j] = BlocksOf(d, j) /\ e[j] = EndOf(d, j)
                           /\ c[j] \in Seq(Blocks) /\ Len(c[j]) \in Nat
                           /\ Fits(d.node[j], Len(c[j]), e[j])
  BY GoodParts
<1>2. fr \in Image
  <2> DEFINE freed == ToSet(Chain(d, f))
             next2 == [x \in Blocks |-> IF x \in freed THEN Nil ELSE d.next[x]]
             map2 == [x \in Blocks |-> x \notin freed /\ d.map[x]]
  <2>1. CASE ChainEnd(d, f) = Wild
    <3>1. fr = Dies(d)
      BY <2>1 DEF Dealloc
    <3> QED
      BY <1>1, <3>1, DiesUp
  <2>2. CASE ChainEnd(d, f) # Wild
    <3>1. fr = [d EXCEPT !.next = next2, !.map = map2]
      BY <2>2 DEF Dealloc
    <3> HIDE DEF fr, freed
    <3>2. next2 \in [Blocks -> Refs] /\ map2 \in [Blocks -> BOOLEAN]
      BY <1>1, Sizing DEF Image
    <3> HIDE DEF next2, map2
    <3> QED
      BY <1>1, <3>1, <3>2 DEF Image
  <2> QED
    BY <2>1, <2>2
<1>3. m = [fr EXCEPT !.node[i].first = Nil]
  BY DEF Shorten
<1>4. r = [fr EXCEPT !.node[i] = EmptyNode]
  BY DEF Drop
<1> HIDE DEF fr, m, r, c, e
<1>5. EmptyNode \in Node
  BY Sizing DEF EmptyNode, Node, Types
<1>6. m.up = fr.up /\ r.up = fr.up /\ r = q /\ r \in Image
  <2>1. fr.node \in [Inodes -> Node] /\ fr.node[i] \in Node
    BY <1>2 DEF Image
  <2> DEFINE n1 == [fr.node EXCEPT ![i].first = Nil]
             n2 == [fr.node EXCEPT ![i] = EmptyNode]
  <2>2. [n1 EXCEPT ![i] = EmptyNode] = n2
    BY <2>1
  <2>3. n2 \in [Inodes -> Node]
    BY <1>5, <2>1
  <2>4. m = [fr EXCEPT !.node = n1] /\ r = [fr EXCEPT !.node = n2]
    BY <1>2, <1>3, <1>4 DEF Image
  <2> HIDE DEF n1, n2
  <2>5. m.node = n1 /\ m.up = fr.up /\ r.up = fr.up /\ r \in Image
    BY <1>2, <2>3, <2>4 DEF Image
  <2>6. q = [m EXCEPT !.node = [m.node EXCEPT ![i] = EmptyNode]]
    OBVIOUS
  <2>7. [m EXCEPT !.node = n2] = r
    BY <1>2, <2>4 DEF Image
  <2> HIDE DEF q
  <2> QED
    BY <2>2, <2>5, <2>6, <2>7
<1> SUFFICES ASSUME r.up
             PROVE  /\ Good(r) /\ r.slot = d.slot
                    /\ r.node[i].type = "EMPTY"
                    /\ \A j \in Inodes : j # i => Same(d, r, j)
  BY <1>6 DEF r
<1>7. n \in 0..Len(c[i])
  BY <1>1
<1>8. m = Shorten(d, i, n)
  BY DEF m
<1> HIDE DEF n
<1>9. e[i] = Nil
  <2>1. e[i] # Nil => ~m.up
    BY ONLY <1>1, <1>7, <1>8, <1>0, ShortenWild
  <2> QED
    BY <1>6, <2>1
<1>10. Linked(m, c2, e)
  <2>1. /\ Linked(Shorten(d, i, n), [c EXCEPT ![i] = SubSeq(@, 1, n)], e)
        /\ Len(SubSeq(c[i], 1, n)) = n
    BY ONLY <1>0, <1>1, <1>7, <1>9, LinkedShorten
  <2> QED
    BY <1>8, <2>1
<1>11. /\ m.slot = d.slot /\ m.node[i].first = Nil
       /\ \A j \in Inodes : j # i => m.node[j] = d.node[j]
  <2> DEFINE p == Shorten(d, i, n)
             freed == Behind(c[i], n)
  <2>1. /\ p \in Image /\ p.slot = d.slot /\ p.up = d.up
        /\ \A j \in Inodes : /\ p.node[j].type = d.node[j].type
                             /\ p.node[j].size = d.node[j].size
                             /\ p.node[j].refs = d.node[j].refs
                             /\ j # i => p.node[j] = d.node[j]
        /\ p.node[i].first = IF n = 0 THEN Nil ELSE d.node[i].first
        /\ \A y \in Blocks : p.map[y] <=> y \notin freed /\ d.map[y]
        /\ \A y \in Blocks : p.next[y] =
               IF y \in freed \/ (n # 0 /\ y = c[i][n]) THEN Nil ELSE d.next[y]
    BY ONLY <1>0, <1>1, <1>7, <1>9, ShortenParts
  <2> QED
    BY <1>8, <2>1 DEF n
<1>12. c2[i] = SubSeq(c[i], 1, n) /\ \A j \in Inodes : j # i => c2[j] = c[j]
  <2>1. c \in [Inodes -> Seq(Blocks)]
    BY <1>1 DEF Linked
  <2> QED
    BY <2>1
<1> HIDE DEF c2
<1>13. EmptyNode.first = m.node[i].first /\ EmptyNode.type = "EMPTY" /\ EmptyNode.size = 0
  BY <1>11 DEF EmptyNode
<1>14. /\ Linked(r, c2, e) /\ r.slot = m.slot /\ r.node[i] = EmptyNode
       /\ \A j \in Inodes : j # i => r.node[j] = m.node[j]
  <2>1. /\ Linked(q, c2, e) /\ q.slot = m.slot /\ q.up = m.up /\ q.map = m.map
        /\ q.node[i] = EmptyNode
        /\ \A j \in Inodes : j # i => q.node[j] = m.node[j]
    <3> DEFINE x == EmptyNode
    <3>1. x \in Node /\ x.first = m.node[i].first
      BY <1>5, <1>13
    <3> HIDE DEF x
    <3>2. LET w == [m EXCEPT !.node[i] = x]
          IN  /\ Linked(w, c2, e) /\ w.slot = m.slot /\ w.up = m.up /\ w.map = m.map
              /\ w.node[i] = x
              /\ \A j \in Inodes : j # i => w.node[j] = m.node[j]
      BY ONLY <1>0, <1>10, <3>1, NodeLinked
    <3> QED
      BY <3>2 DEF x
  <2> HIDE DEF q
  <2> QED
    BY <1>6, <2>1
<1> HIDE DEF q
<1>15. \A j \in Inodes : Fits(r.node[j], Len(c2[j]), e[j])
  <2> SUFFICES ASSUME NEW j \in Inodes PROVE Fits(r.node[j], Len(c2[j]), e[j])
    OBVIOUS
  <2>1. CASE j = i
    <3>1. r.node[i].type = "EMPTY" /\ r.node[i].first = Nil /\ r.node[i].size = 0
      BY <1>11, <1>13, <1>14
    <3> QED
      BY <2>1, <3>1 DEF Fits
  <2>2. CASE j # i
    BY <1>1, <1>11, <1>12, <1>14, <2>2
  <2> QED
    BY <2>1, <2>2
<1>16. Owns(r, c2, e)
  BY <1>0, <1>1, <1>11, <1>14, <1>15, Sizing DEF Owns, IsDir
<1>17. Good(r) /\ \A j \in Inodes : BlocksOf(r, j) = c2[j] /\ EndOf(r, j) = e[j]
  BY <1>16, OwnsGood
<1>18. r.slot = d.slot
  BY <1>11, <1>14
<1>19. ASSUME NEW j \in Inodes, j # i PROVE Same(d, r, j)
  BY <1>1, <1>11, <1>12, <1>14, <1>17, <1>18, <1>19 DEF Same
<1> QED
  BY <1>13, <1>14, <1>17, <1>18, <1>19

\* What removing files and directories leaves of the inodes of d.
Removed(d, r) ==
    /\ r.slot = d.slot
    /\ \A j \in Inodes : r.node[j].type = "EMPTY" \/ Same(d, r, j)

\* To remove nothing is to remove.
LEMMA RemovedSelf ==
    ASSUME NEW d
    PROVE  Removed(d, d)
BY DEF Removed, Same

\* Two removals are one.
LEMMA RemovedTwice ==
    ASSUME NEW d, NEW m, NEW r, Removed(d, m), Removed(m, r)
    PROVE  Removed(d, r)
<1>1. ASSUME NEW j \in Inodes PROVE r.node[j].type = "EMPTY" \/ Same(d, r, j)
  <2>1. CASE r.node[j].type = "EMPTY"
    BY <2>1
  <2>2. CASE r.node[j].type # "EMPTY"
    <3>1. Same(m, r, j)
      BY <2>2 DEF Removed
    <3>2. m.node[j].type # "EMPTY"
      BY <2>2, <3>1 DEF Same
    <3>3. Same(d, m, j)
      BY <3>2 DEF Removed
    <3> QED
      BY <3>1, <3>3, SameTwice
  <2> QED
    BY <2>1, <2>2
<1>2. r.slot = d.slot
  BY DEF Removed
<1> QED
  BY <1>1, <1>2 DEF Removed

FrameSet == [inode : Inodes \ {Root}, block : Refs, slot : Nat \ {0}]
Removing(d) ==
    {w \in [d : Image, stack : Seq(FrameSet)] : w.d.up => Good(w.d) /\ Removed(d, w.d)}

\* The state of the removal, from its parts.
LEMMA RemovingIs ==
    ASSUME NEW d, NEW r \in Image, NEW s \in Seq(FrameSet), r.up => Good(r) /\ Removed(d, r)
    PROVE  [d |-> r, stack |-> s] \in Removing(d)
BY DEF Removing

\* A call pushes a frame.
LEMMA FrameOn ==
    ASSUME NEW i \in Inodes \ {Root}, NEW b \in Refs, NEW j \in Nat \ {0}, NEW s \in Seq(FrameSet)
    PROVE  <<Frame(i, b, j)>> \o s \in Seq(FrameSet)
<1>1. Frame(i, b, j) \in FrameSet
  BY DEF Frame, FrameSet
<1>2. <<Frame(i, b, j)>> \in Seq(FrameSet)
  BY <1>1
<1> HIDE DEF FrameSet
<1> QED
  BY <1>2, ConcatProperties

\* A call of remove_file() up to its loop.
LEMMA StartRemoveGood ==
    ASSUME NEW d0, NEW d, NEW stack \in Seq(FrameSet), NEW i \in Inodes \ {Root}, Good(d),
           Removed(d0, d)
    PROVE  StartRemove(d, stack, i) \in Removing(d0)
<1> DEFINE x == [d.node[i] EXCEPT !.refs = (@ - 1) % RefMod]
           counted == [d EXCEPT !.node[i] = x]
           block == IF IsDir(d, i) THEN d.node[i].first ELSE Nil
           s == IF counted.node[i].refs # 0 THEN stack ELSE <<Frame(i, block, 1)>> \o stack
<1>0. i \in Inodes /\ i # Root
  OBVIOUS
<1>1. d \in Image /\ d.node[i] \in Node /\ Fits(d.node[i], Len(BlocksOf(d, i)), EndOf(d, i))
  <2>1. d \in Image /\ Fits(d.node[i], Len(BlocksOf(d, i)), EndOf(d, i))
    BY GoodParts
  <2> QED
    BY <2>1 DEF Image
<1>2. StartRemove(d, stack, i) = [d |-> counted, stack |-> s]
  BY DEF StartRemove
<1>3. x \in Node /\ x.first = d.node[i].first /\ x.type = d.node[i].type /\ x.size = d.node[i].size
  <2>1. d.node[i].refs - 1 \in Int
    BY <1>1, Sizing DEF Node
  <2> DEFINE k == (d.node[i].refs - 1) % RefMod
  <2>2. k \in 0..(RefMod - 1)
    BY <2>1, Sizing, Modulo
  <2>3. x = [d.node[i] EXCEPT !.refs = k]
    OBVIOUS
  <2> HIDE DEF k, x
  <2> QED
    BY <1>1, <2>2, <2>3 DEF Node
<1> HIDE DEF x
<1>4. Fits(x, Len(BlocksOf(d, i)), EndOf(d, i))
  BY <1>1, <1>3 DEF Fits
<1>5. /\ Good(counted) /\ counted.slot = d.slot /\ counted.node[i] = x
      /\ \A j \in Inodes : BlocksOf(counted, j) = BlocksOf(d, j) /\ EndOf(counted, j) = EndOf(d, j)
      /\ \A j \in Inodes : j # i => Same(d, counted, j)
  <2>1. LET r == [d EXCEPT !.node[i] = x]
        IN  /\ Good(r) /\ r.slot = d.slot /\ r.up = d.up /\ r.map = d.map /\ r.node[i] = x
            /\ \A j \in Inodes : j # i => r.node[j] = d.node[j]
            /\ \A j \in Inodes : BlocksOf(r, j) = BlocksOf(d, j) /\ EndOf(r, j) = EndOf(d, j)
            /\ \A j \in Inodes : j # i => Same(d, r, j)
    BY ONLY <1>0, <1>3, <1>4, Good(d), NodeGood
  <2> QED
    BY <2>1
<1>6. block \in Refs
  BY <1>1, Sizing DEF Node
<1> HIDE DEF counted, block
<1>7. s \in Seq(FrameSet)
  <2>1. <<Frame(i, block, 1)>> \o stack \in Seq(FrameSet)
    BY <1>6, FrameOn
  <2> QED
    BY <2>1
<1> HIDE DEF s
<1>8. Removed(d, counted)
  <2>1. Same(d, counted, i)
    BY <1>0, <1>3, <1>5 DEF Same
  <2> QED
    BY <1>5, <2>1 DEF Removed
<1>9. Removed(d0, counted) /\ counted \in Image
  <2>1. Removed(d0, counted)
    BY <1>8, RemovedTwice
  <2>2. counted \in Image
    BY <1>5, GoodParts
  <2> QED
    BY <2>1, <2>2
<1> QED
  BY <1>2, <1>5, <1>7, <1>9, RemovingIs

\* A round of its loop, or what follows it.
LEMMA RemoveStepGood ==
    ASSUME NEW d, NEW w \in Removing(d)
    PROVE  RemoveStep(w) \in Removing(d)
<1> DEFINE f == Head(w.stack)
           t == Tail(w.stack)
           id == w.d.slot[f.block][f.slot].id
<1>1. /\ w.d \in Image /\ w.stack \in Seq(FrameSet) /\ (w.d.up => Good(w.d) /\ Removed(d, w.d))
      /\ w = [d |-> w.d, stack |-> w.stack]
  BY DEF Removing
<1>2. CASE w.stack = <<>> \/ ~w.d.up
  <2>1. RemoveStep(w) = w
    BY <1>2, Zenon DEF RemoveStep
  <2> QED
    BY ONLY <2>1, w \in Removing(d), Zenon
<1>3. CASE ~(w.stack = <<>> \/ ~w.d.up)
  <2>1. f \in FrameSet /\ t \in Seq(FrameSet)
    BY <1>1, <1>3
  <2>2. f.inode \in Inodes \ {Root} /\ f.block \in Refs /\ f.slot \in Nat \ {0}
    BY <2>1 DEF FrameSet
  <2>3. Good(w.d) /\ Removed(d, w.d)
    BY <1>1, <1>3
  <2>4. RemoveStep(w) =
            IF f.block = Nil THEN [d |-> Drop(w.d, f.inode), stack |-> t]
            ELSE IF f.block = Wild THEN [w EXCEPT !.d = Dies(@)]
            ELSE IF f.slot > SlotsPerBlock
                 THEN [w EXCEPT !.stack = <<Frame(f.inode, w.d.next[f.block], 1)>> \o t]
            ELSE IF id = -1
                 THEN [w EXCEPT !.stack = <<Frame(f.inode, f.block, f.slot + 1)>> \o t]
            ELSE StartRemove(w.d, <<Frame(f.inode, f.block, f.slot + 1)>> \o t, id)
    BY <1>3, Zenon DEF RemoveStep
  <2> HIDE DEF f, t
  <2>5. CASE f.block = Nil
    <3> DEFINE r == Drop(w.d, f.inode)
    <3>1. /\ r \in Image
          /\ r.up => /\ Good(r) /\ r.slot = w.d.slot
                     /\ r.node[f.inode].type = "EMPTY"
                     /\ \A j \in Inodes : j # f.inode => Same(w.d, r, j)
      BY <2>2, <2>3, DropGood
    <3> HIDE DEF r
    <3>2. r.up => Good(r) /\ Removed(w.d, r)
      BY <3>1 DEF Removed
    <3>3. r.up => Good(r) /\ Removed(d, r)
      BY <2>3, <3>2, RemovedTwice
    <3>4. [d |-> r, stack |-> t] \in Removing(d)
      BY <2>1, <3>1, <3>3, RemovingIs
    <3> QED
      BY <2>4, <2>5, <3>4 DEF r
  <2>6. CASE f.block # Nil /\ f.block = Wild
    <3>1. Dies(w.d).up = FALSE /\ Dies(w.d) \in Image
      BY <1>1, DiesUp
    <3>2. [d |-> Dies(w.d), stack |-> w.stack] \in Removing(d)
      BY <1>1, <3>1, RemovingIs
    <3>3. [w EXCEPT !.d = Dies(@)] = [d |-> Dies(w.d), stack |-> w.stack]
      BY <1>1
    <3>4. RemoveStep(w) = [w EXCEPT !.d = Dies(@)]
      BY <2>4, <2>6
    <3> QED
      BY <3>2, <3>3, <3>4
  <2>7. ASSUME NEW b \in Refs, NEW j \in Nat \ {0}
        PROVE  [w EXCEPT !.stack = <<Frame(f.inode, b, j)>> \o t] \in Removing(d)
    <3> DEFINE s == <<Frame(f.inode, b, j)>> \o t
    <3>1. s \in Seq(FrameSet)
      BY <2>1, <2>2, FrameOn
    <3> HIDE DEF s
    <3>2. [d |-> w.d, stack |-> s] \in Removing(d)
      BY <1>1, <3>1, RemovingIs
    <3>3. [w EXCEPT !.stack = s] = [d |-> w.d, stack |-> s]
      BY <1>1
    <3>4. [w EXCEPT !.stack = s] \in Removing(d)
      BY <3>2, <3>3
    <3> QED
      BY <3>4 DEF s
  <2>8. CASE f.block # Nil /\ f.block # Wild /\ f.slot > SlotsPerBlock
    <3>1. f.block \in Blocks
      BY <2>2, <2>8 DEF Refs
    <3> DEFINE b == w.d.next[f.block]
    <3>2. b \in Refs /\ 1 \in Nat \ {0}
      BY <1>1, <3>1 DEF Image
    <3>3. RemoveStep(w) = [w EXCEPT !.stack = <<Frame(f.inode, b, 1)>> \o t]
      BY <2>4, <2>8
    <3> HIDE DEF b
    <3> QED
      BY <2>7, <3>2, <3>3
  <2>9. f.slot + 1 \in Nat \ {0}
    BY <2>2
  <2>10. CASE f.block # Nil /\ f.block # Wild /\ ~(f.slot > SlotsPerBlock) /\ id = -1
    <3>1. RemoveStep(w) = [w EXCEPT !.stack = <<Frame(f.inode, f.block, f.slot + 1)>> \o t]
      BY <2>4, <2>10
    <3> QED
      BY <2>2, <2>7, <2>9, <3>1
  <2>11. CASE f.block # Nil /\ f.block # Wild /\ ~(f.slot > SlotsPerBlock) /\ id # -1
    <3>1. f.block \in Blocks /\ f.slot \in Slots
      BY <2>2, <2>11, Sizing DEF Refs, Slots
    <3>2. id \in Inodes \ {Root}
      BY <1>1, <2>11, <3>1, IdIs
    <3> DEFINE s == <<Frame(f.inode, f.block, f.slot + 1)>> \o t
    <3>3. s \in Seq(FrameSet)
      BY <2>1, <2>2, <2>9, FrameOn, SMTT(60)
    <3>4. RemoveStep(w) = StartRemove(w.d, s, id)
      BY <2>4, <2>11
    <3> HIDE DEF s, id
    <3> QED
      BY <2>3, <3>2, <3>3, <3>4, StartRemoveGood
  <2> QED
    BY <2>5, <2>6, <2>8, <2>10, <2>11
<1> QED
  BY <1>2, <1>3

\* remove_file()
LEMMA RemoveFileGood ==
    ASSUME NEW d, NEW i \in Inodes \ {Root}, Good(d), RemoveFile(d, i).up
    PROVE  LET r == RemoveFile(d, i) IN Good(r) /\ Removed(d, r)
<1> DEFINE N == MaxWalk
           H == Removing(d)
           a == StartRemove(d, <<>>, i)
           Is(g) == g = [n \in 0..N |-> IF n = 0 THEN a ELSE RemoveStep(g[n - 1])]
           at == CHOOSE g : Is(g)
           G == [k \in 1..N |-> [x \in H |-> RemoveStep(x)]]
<1>0. N \in Nat
  BY DiscAssumption
<1>1. a \in H
  <2>1. <<>> \in Seq(FrameSet) /\ Removed(d, d)
    BY RemovedSelf
  <2> QED
    BY <2>1, StartRemoveGood
<1>2. \A x \in H : RemoveStep(x) \in H
  BY RemoveStepGood
<1>3. RemoveFile(d, i) = IF at[N].stack = <<>> THEN at[N].d ELSE Dies(at[N].d)
  BY DEF RemoveFile
<1> HIDE DEF N, H, a
<1>4. \A k \in 1..N : \A x \in H : G[k][x] = RemoveStep(x) /\ G[k][x] \in H
  BY <1>2
<1> HIDE DEF G
<1>5. PICK g : IsLoop(g, N, a, G) /\ \A k \in 0..N : g[k] \in H
  <2>1. \A k \in 1..N : \A x \in H : G[k][x] \in H
    BY ONLY <1>4
  <2> QED
    BY ONLY <1>0, <1>1, <2>1, Rounds
<1>6. Is(g)
  <2>1. g = [n \in 0..N |-> IF n = 0 THEN a ELSE G[n][g[n - 1]]]
    BY <1>5 DEF IsLoop
  <2>2. ASSUME NEW n \in 0..N, n # 0 PROVE G[n][g[n - 1]] = RemoveStep(g[n - 1])
    <3>1. n \in 1..N /\ n - 1 \in 0..N
      BY <1>0, <2>2
    <3> QED
      BY <1>4, <1>5, <3>1
  <2> QED
    BY <2>1, <2>2
<1>7. Is(at)
  <2> HIDE DEF Is
  <2> QED
    BY <1>6
<1>8. at[0] = a /\ \A n \in 1..N : at[n] = RemoveStep(at[n - 1])
  <2>1. \A n \in 0..N : at[n] = IF n = 0 THEN a ELSE RemoveStep(at[n - 1])
    BY <1>7, Zenon
  <2> HIDE DEF at
  <2> QED
    BY <1>0, <2>1
<1> HIDE DEF at
<1> DEFINE S == {n \in 0..N : at[n] \in H}
<1>9. 0 \in S
  BY <1>0, <1>1, <1>8
<1>10. ASSUME NEW k \in 1..N, k - 1 \in S PROVE k \in S
  <2>1. at[k] \in H /\ k \in 0..N
    BY <1>0, <1>2, <1>8, <1>10
  <2> QED
    BY <2>1
<1> HIDE DEF S
<1>11. \A k \in 0..N : k \in S
  BY <1>0, <1>9, <1>10, LoopHolds
<1>12. at[N] \in H
  BY <1>0, <1>11 DEF S
<1>13. at[N].d \in Image /\ (at[N].d.up => Good(at[N].d) /\ Removed(d, at[N].d))
  BY <1>12 DEF H, Removing
<1>14. RemoveFile(d, i) = at[N].d
  <2>1. Dies(at[N].d).up = FALSE
    BY <1>13, DiesUp
  <2> QED
    BY <1>3, <2>1
<1> QED
  BY <1>13, <1>14
-----------------------------------------------------------------------------
(* Commands.  d is the image a command reads, r the one it saves.           *)

\* Outside of S an inode that is of the same type in both images is the same
\* in both, or free.
Kept(d, r, S) ==
    \A j \in Inodes \ S :
        r.node[j].type = d.node[j].type => r.node[j].type = "EMPTY" \/ Same(d, r, j)

\* No file is in S with another inode.
Lone(d, S) == \A i, j \in S : d.node[i].type = "FILE" => i = j

\* A command may turn d into r: r is in order, its process is up, and the data
\* of one file at most, or of directories, is not kept.
Fine(d, r) == Good(r) /\ r.up /\ \E S : Lone(d, S) /\ Kept(d, r, S)

\* A change of one inode only is what a command may do.
LEMMA FineOnly ==
    ASSUME NEW d, NEW r, NEW i \in Inodes, Good(r), r.up, Only(d, r, i)
    PROVE  Fine(d, r)
<1>1. Lone(d, {i})
  BY DEF Lone
<1>2. Kept(d, r, {i})
  BY DEF Kept, Only
<1> QED
  BY <1>1, <1>2 DEF Fine

\* The inode get_free_inode() answers is free, has no block and is not the root.
LEMMA NewInode ==
    ASSUME NEW d, Good(d), FreeNodes(d) # {}
    PROVE  LET i == MinOf(FreeNodes(d))
           IN  /\ i \in Inodes /\ i # Root /\ d.node[i].type = "EMPTY" /\ d.node[i] \in Node
               /\ d.node[i].first = Nil /\ d.node[i].size = 0
               /\ BlocksOf(d, i) = <<>> /\ EndOf(d, i) = Nil
<1> DEFINE i == MinOf(FreeNodes(d))
<1>1. i \in FreeNodes(d)
  <2>1. FreeNodes(d) \in SUBSET Nat
    BY Sizing DEF FreeNodes, Inodes
  <2> QED
    BY <2>1, MinIn
<1> HIDE DEF i
<1>2. i \in Inodes /\ d.node[i].type = "EMPTY"
  BY <1>1 DEF FreeNodes
<1>3. d \in Image /\ IsDir(d, Root) /\ Fits(d.node[i], Len(BlocksOf(d, i)), EndOf(d, i))
  BY <1>2, GoodParts
<1>4. d.node[i].first = Nil /\ d.node[i].size = 0
  BY <1>2, <1>3 DEF Fits
<1>5. BlocksOf(d, i) = <<>> /\ EndOf(d, i) = Nil
  BY <1>2, <1>4, NilIs
<1>6. i # Root /\ d.node[i] \in Node
  BY <1>2, <1>3 DEF IsDir, Image
<1> QED
  BY <1>2, <1>4, <1>5, <1>6 DEF i

\* A cpto that saves: the directory gets an element, the new file its blocks.
LEMMA CptoFine ==
    ASSUME NEW name \in Names, NEW path \in Paths, Inv, Cpto(name, path)
    PROVE  Fine(disc, disc')
<1> DEFINE dir == FindDir(disc, path)
           i == MinOf(FreeNodes(disc))
           x == [disc.node[i] EXCEPT !.refs = 1, !.type = "FILE", !.size = 0]
           new == [disc EXCEPT !.node[i] = x]
           named == AddElemToDir(new, dir, Elem(i, name))
<1>1. PICK size \in 0..MaxSize, atEnd \in BOOLEAN :
          /\ dir # -1 /\ FreeNodes(disc) # {} /\ named.up
          /\ ReadInto(named, i, size, atEnd).up
          /\ disc' = ReadInto(named, i, size, atEnd)
  <2>1. [disc EXCEPT !.node[i].refs = 1, !.node[i].type = "FILE", !.node[i].size = 0] = new
    <3> DEFINE ni == disc.node[i]
    <3>1. disc \in Image /\ disc.node \in [Inodes -> Node]
      BY GoodParts DEF Inv, Image
    <3> QED
      BY <3>1, ZenonT(60)
  <2> QED
    BY <2>1 DEF Cpto, Save
<1>2. Good(disc) /\ disc.up
  BY DEF Inv
<1>3. dir \in Inodes /\ IsDir(disc, dir)
  <2>1. Len(path) \in Nat
    BY PathLen
  <2>2. dir \in Dirs(disc) \cup {-1}
    BY <1>2, <2>1, FindDirGood
  <2> QED
    BY <1>1, <2>2 DEF Dirs
<1>4. /\ i \in Inodes /\ i # Root /\ disc.node[i].type = "EMPTY" /\ disc.node[i] \in Node
      /\ BlocksOf(disc, i) = <<>> /\ EndOf(disc, i) = Nil
  BY <1>1, <1>2, NewInode
<1> HIDE DEF dir, i
<1>5. x \in Node /\ x.first = disc.node[i].first /\ x.type = "FILE" /\ x.size = 0
  <2>1. 1 \in 0..(RefMod - 1)
    BY Sizing
  <2> QED
    BY <1>4, <2>1 DEF Node, Types
<1> HIDE DEF x
<1>6. 0 * SlotsPerBlock = 0 /\ 0 * SlotsPerBlock - 0 \in 0..(SlotsPerBlock - 1) /\ Len(<<>>) = 0
  BY Sizing
<1>7. Fits(x, Len(BlocksOf(disc, i)), EndOf(disc, i))
  BY <1>4, <1>5, <1>6 DEF Fits
<1>8. /\ Good(new) /\ new.up /\ new.node[i] = x
      /\ \A j \in Inodes : j # i => new.node[j] = disc.node[j]
      /\ BlocksOf(new, i) = <<>> /\ EndOf(new, i) = Nil
      /\ \A j \in Inodes : j # i => Same(disc, new, j)
  <2> DEFINE d == disc
  <2>1. Good(d) /\ d.up /\ x.first = d.node[i].first
        /\ BlocksOf(d, i) = <<>> /\ EndOf(d, i) = Nil /\ Fits(x, Len(BlocksOf(d, i)), EndOf(d, i))
    BY <1>2, <1>4, <1>5, <1>7
  <2> HIDE DEF d
  <2>2. LET r == [d EXCEPT !.node[i] = x]
        IN  /\ Good(r) /\ r.slot = d.slot /\ r.up = d.up /\ r.map = d.map /\ r.node[i] = x
            /\ \A j \in Inodes : j # i => r.node[j] = d.node[j]
            /\ \A j \in Inodes : BlocksOf(r, j) = BlocksOf(d, j) /\ EndOf(r, j) = EndOf(d, j)
            /\ \A j \in Inodes : j # i => Same(d, r, j)
    BY ONLY <1>4, <1>5, <2>1, NodeGood
  <2> QED
    BY <1>4, <2>1, <2>2 DEF d
<1> HIDE DEF new
<1>9. dir # i /\ IsDir(new, dir)
  <2>1. dir # i
    BY <1>3, <1>4 DEF IsDir
  <2> QED
    BY <1>3, <1>8, <2>1 DEF IsDir
<1>10. Good(named) /\ Only(new, named, dir) /\ named.up
  <2>1. Elem(i, name) \in SlotValue
    BY <1>4, ElemIs
  <2> DEFINE elem == Elem(i, name)
  <2>2. elem \in SlotValue
    BY <2>1
  <2> HIDE DEF elem
  <2>3. AddElemToDir(new, dir, elem).up =>
            LET r == AddElemToDir(new, dir, elem)
            IN  Good(r) /\ Only(new, r, dir) /\ r.up = new.up
    BY ONLY <1>3, <1>8, <1>9, <2>2, AddElemGood
  <2> QED
    BY <1>1, <2>3 DEF elem
<1> HIDE DEF named
<1>11. Full(named, i)
  <2>1. Same(new, named, i)
    BY <1>4, <1>9, <1>10 DEF Only
  <2> QED
    BY <1>5, <1>6, <1>8, <2>1 DEF Same, Full
<1> DEFINE r == ReadInto(named, i, size, atEnd)
<1>12. Good(r) /\ Only(named, r, i)
  <2>1. size \in Nat
    BY DiscAssumption
  <2> QED
    BY ONLY <1>4, <1>10, <1>11, <2>1, atEnd \in BOOLEAN, ReadIntoGood
<1>13. r.up /\ disc' = r
  BY <1>1
<1> HIDE DEF r
<1>14. Kept(disc, r, {dir})
  <2> SUFFICES ASSUME NEW j \in Inodes, j # dir, r.node[j].type = disc.node[j].type
               PROVE  Same(disc, r, j)
    BY DEF Kept
  <2>1. j # i
    <3>1. r.node[i].type = named.node[i].type
      BY <1>12 DEF Only
    <3>2. named.node[i].type = "FILE"
      BY <1>11 DEF Full
    <3> QED
      BY <1>4, <3>1, <3>2
  <2>2. Same(disc, new, j) /\ Same(new, named, j) /\ Same(named, r, j)
    BY <1>8, <1>10, <1>12, <2>1 DEF Only
  <2> QED
    BY <2>2, SameTwice
<1>15. Lone(disc, {dir})
  BY DEF Lone
<1> QED
  BY <1>12, <1>13, <1>14, <1>15 DEF Fine

\* make_dir(): what each directory of the path keeps of d.
Making(d) ==
    {at \in [d : Image, dir : Inodes, stop : BOOLEAN] :
        /\ at.d.up => /\ Good(at.d) /\ IsDir(at.d, at.dir)
                      /\ \A j \in Inodes : d.node[j].type = "FILE" => Same(d, at.d, j)
        /\ ~at.d.up => at.stop}

\* One name of the path of mkdir: it is entered, or made and entered.
LEMMA MakeDirAtGood ==
    ASSUME NEW d, NEW at \in Making(d), NEW name \in Names
    PROVE  MakeDirAt(at, name) \in Making(d)
<1> DEFINE a == at.d
           dir == at.dir
           i == MinOf(FreeNodes(a))
           to == FindInDir(a, dir, name)
           x == [a.node[i] EXCEPT !.refs = 1, !.type = "DIRECTORY"]
           m == [a EXCEPT !.node[i] = x]
           new == AddDirToDir(m, dir, Elem(i, name))
<1>1. /\ at \in [d : Image, dir : Inodes, stop : BOOLEAN]
      /\ at = [d |-> a, dir |-> dir, stop |-> at.stop]
      /\ a \in Image /\ dir \in Inodes /\ at.stop \in BOOLEAN
  BY DEF Making
<1>2. CASE at.stop
  <2>1. MakeDirAt(at, name) = at
    BY <1>2 DEF MakeDirAt
  <2> QED
    BY <2>1
<1>3. ASSUME ~at.stop PROVE MakeDirAt(at, name) \in Making(d)
  <2>1. /\ a.up /\ Good(a) /\ IsDir(a, dir)
        /\ \A j \in Inodes : d.node[j].type = "FILE" => Same(d, a, j)
    BY <1>3 DEF Making
  <2>2. CASE HasElem(a, dir, name) /\ IsDir(a, to)
    <3>1. MakeDirAt(at, name) = [at EXCEPT !.dir = to]
      BY <1>3, <2>2 DEF MakeDirAt
    <3>2. to \in Inodes
      BY <1>1, <2>1, <2>2, Lookup
    <3> HIDE DEF a, to
    <3>3. [at EXCEPT !.dir = to] = [d |-> a, dir |-> to, stop |-> at.stop]
      BY <1>1
    <3> QED
      BY <1>1, <2>1, <2>2, <3>1, <3>2, <3>3 DEF Making
  <2>3. CASE (HasElem(a, dir, name) /\ ~IsDir(a, to)) \/ (~HasElem(a, dir, name) /\ FreeNodes(a) = {})
    <3>1. MakeDirAt(at, name) = [at EXCEPT !.stop = TRUE]
      BY <1>3, <2>3 DEF MakeDirAt
    <3> DEFINE q == [at EXCEPT !.stop = TRUE]
    <3>2. q \in [d : Image, dir : Inodes, stop : BOOLEAN] /\ q.d = a /\ q.dir = dir
      BY <1>1
    <3> HIDE DEF q
    <3>3. q \in Making(d)
      BY <2>1, <3>2 DEF Making
    <3> QED
      BY <3>1, <3>3 DEF q
  <2>4. CASE ~HasElem(a, dir, name) /\ FreeNodes(a) # {}
    <3>1. MakeDirAt(at, name) = [d |-> new, dir |-> i, stop |-> ~new.up]
      <4>1. [a EXCEPT !.node[i].refs = 1, !.node[i].type = "DIRECTORY"] = m
        <5>1. a.node \in [Inodes -> Node]
          BY <1>1 DEF Image
        <5> HIDE DEF a, i
        <5> QED
          BY <1>1, <5>1, ZenonT(60)
      <4>2. MakeDirAt(at, name) =
              LET w == AddDirToDir([a EXCEPT !.node[i].refs = 1, !.node[i].type = "DIRECTORY"],
                                   dir, Elem(i, name))
              IN  [d |-> w, dir |-> i, stop |-> ~w.up]
        BY <1>3, <2>4 DEF MakeDirAt
      <4> HIDE DEF m
      <4> QED
        BY <4>1, <4>2
    <3>2. /\ i \in Inodes /\ i # Root /\ a.node[i].type = "EMPTY" /\ a.node[i] \in Node
          /\ BlocksOf(a, i) = <<>> /\ EndOf(a, i) = Nil
      BY <2>1, <2>4, NewInode
    <3> HIDE DEF a, dir, i
    <3>3. x \in Node /\ x.first = a.node[i].first /\ x.type = "DIRECTORY"
      <4>1. 1 \in 0..(RefMod - 1)
        BY Sizing
      <4> QED
        BY <3>2, <4>1 DEF Node, Types
    <3> HIDE DEF x
    <3>4. Fits(x, Len(BlocksOf(a, i)), EndOf(a, i))
      BY <3>2, <3>3 DEF Fits
    <3>5. /\ Good(m) /\ m.up /\ m.node[i] = x
          /\ \A j \in Inodes : j # i => m.node[j] = a.node[j]
          /\ \A j \in Inodes : j # i => Same(a, m, j)
      <4>1. LET r == [a EXCEPT !.node[i] = x]
            IN  /\ Good(r) /\ r.slot = a.slot /\ r.up = a.up /\ r.map = a.map /\ r.node[i] = x
                /\ \A j \in Inodes : j # i => r.node[j] = a.node[j]
                /\ \A j \in Inodes : BlocksOf(r, j) = BlocksOf(a, j) /\ EndOf(r, j) = EndOf(a, j)
                /\ \A j \in Inodes : j # i => Same(a, r, j)
        BY ONLY <2>1, <3>2, <3>3, <3>4, NodeGood
      <4> QED
        BY <2>1, <4>1
    <3> HIDE DEF m
    <3>6. dir # i /\ IsDir(m, dir)
      <4>1. dir # i
        BY <2>1, <3>2 DEF IsDir
      <4> QED
        BY <1>1, <2>1, <3>5, <4>1 DEF IsDir
    <3>7. new \in Image /\ (new.up => Good(new) /\ Only(m, new, dir))
      <4> DEFINE elem == Elem(i, name)
      <4>1. elem \in SlotValue
        BY <3>2, ElemIs
      <4> HIDE DEF elem
      <4>2. LET r == AddDirToDir(m, dir, elem)
            IN  r \in Image /\ (r.up => Good(r) /\ Only(m, r, dir) /\ r.up = m.up)
        BY ONLY <1>1, <3>5, <3>6, <4>1, AddDirGood
      <4> QED
        BY <4>2 DEF elem
    <3> HIDE DEF new
    <3>8. ASSUME new.up
          PROVE  /\ IsDir(new, i)
                 /\ \A j \in Inodes : d.node[j].type = "FILE" => Same(d, new, j)
      <4>1. Same(m, new, i)
        BY <3>2, <3>6, <3>7, <3>8 DEF Only
      <4>2. IsDir(new, i)
        BY <3>3, <3>5, <4>1 DEF IsDir, Same
      <4>3. ASSUME NEW j \in Inodes, d.node[j].type = "FILE" PROVE Same(d, new, j)
        <5>1. Same(d, a, j)
          BY <2>1, <4>3
        <5>2. a.node[j].type = "FILE"
          BY <4>3, <5>1 DEF Same
        <5>3. j # i /\ j # dir
          BY <2>1, <3>2, <5>2 DEF IsDir
        <5>4. Same(a, m, j) /\ Same(m, new, j)
          BY <3>5, <3>7, <3>8, <5>3 DEF Only
        <5> QED
          BY <5>1, <5>4, SameTwice
      <4> QED
        BY <4>2, <4>3
    <3>9. (~new.up) \in BOOLEAN
      OBVIOUS
    <3>10. [d |-> new, dir |-> i, stop |-> ~new.up] \in [d : Image, dir : Inodes, stop : BOOLEAN]
      BY <3>2, <3>7, <3>9
    <3> DEFINE q == [d |-> new, dir |-> i, stop |-> ~new.up]
    <3>11. q.d = new /\ q.dir = i /\ (q.stop <=> ~new.up)
      OBVIOUS
    <3>12. q \in [d : Image, dir : Inodes, stop : BOOLEAN]
      BY <3>10
    <3> HIDE DEF q
    <3>13. q \in Making(d)
      BY <3>7, <3>8, <3>11, <3>12 DEF Making
    <3> QED
      BY <3>1, <3>13 DEF q
  <2> QED
    BY <2>2, <2>3, <2>4
<1> QED
  BY <1>1, <1>2, <1>3

\* A mkdir that saves: directories get elements, each new one its first block.
LEMMA MkdirFine ==
    ASSUME NEW path \in Seq(Names), Inv, Mkdir(path)
    PROVE  Fine(disc, disc')
<1> DEFINE N == Len(path)
           H == Making(disc)
           a == [d |-> disc, dir |-> Root, stop |-> FALSE]
           Is(g) == g = [n \in 0..N |-> IF n = 0 THEN a ELSE MakeDirAt(g[n - 1], path[n])]
           at == CHOOSE g : Is(g)
           G == [k \in 1..N |-> [x \in H |-> MakeDirAt(x, path[k])]]
<1>0. N \in Nat /\ \A k \in 1..N : path[k] \in Names
  OBVIOUS
<1>1. a \in H
  <2>1. disc \in Image /\ Root \in Inodes /\ IsDir(disc, Root)
    BY GoodParts, Sizing DEF Inv
  <2>2. \A j \in Inodes : Same(disc, disc, j)
    BY DEF Same
  <2> QED
    BY <2>1, <2>2 DEF Making, Inv
<1>2. \A k \in 1..N : \A x \in H : MakeDirAt(x, path[k]) \in H
  <2> HIDE DEF N
  <2> QED
    BY <1>0, MakeDirAtGood
<1>3. at[N].d.up /\ disc' = at[N].d
  BY DEF Mkdir, Save
<1> HIDE DEF N, H, a
<1>4. \A k \in 1..N : \A x \in H : G[k][x] = MakeDirAt(x, path[k]) /\ G[k][x] \in H
  BY <1>2
<1> HIDE DEF G
<1>5. PICK g : IsLoop(g, N, a, G) /\ \A k \in 0..N : g[k] \in H
  <2>1. \A k \in 1..N : \A x \in H : G[k][x] \in H
    BY ONLY <1>4
  <2> QED
    BY ONLY <1>0, <1>1, <2>1, Rounds
<1>6. Is(g)
  <2>1. g = [n \in 0..N |-> IF n = 0 THEN a ELSE G[n][g[n - 1]]]
    BY <1>5 DEF IsLoop
  <2>2. ASSUME NEW n \in 0..N, n # 0 PROVE G[n][g[n - 1]] = MakeDirAt(g[n - 1], path[n])
    <3>1. n \in 1..N /\ n - 1 \in 0..N
      BY <1>0, <2>2
    <3> QED
      BY <1>4, <1>5, <3>1
  <2> QED
    BY <2>1, <2>2
<1>7. Is(at)
  <2> HIDE DEF Is
  <2> QED
    BY <1>6
<1>8. at[0] = a /\ \A n \in 1..N : at[n] = MakeDirAt(at[n - 1], path[n])
  <2>1. \A n \in 0..N : at[n] = IF n = 0 THEN a ELSE MakeDirAt(at[n - 1], path[n])
    BY <1>7, Zenon
  <2> HIDE DEF at
  <2> QED
    BY <1>0, <2>1
<1> HIDE DEF at
<1> DEFINE S == {n \in 0..N : at[n] \in H}
<1>9. 0 \in S
  BY <1>0, <1>1, <1>8
<1>10. ASSUME NEW k \in 1..N, k - 1 \in S PROVE k \in S
  <2>1. at[k] \in H /\ k \in 0..N
    BY <1>0, <1>2, <1>8, <1>10
  <2> QED
    BY <2>1
<1> HIDE DEF S
<1>11. \A k \in 0..N : k \in S
  BY <1>0, <1>9, <1>10, LoopHolds
<1>12. at[N] \in H
  BY <1>0, <1>11 DEF S
<1> DEFINE r == at[N].d
<1>13. r.up /\ Good(r) /\ \A j \in Inodes : disc.node[j].type = "FILE" => Same(disc, r, j)
  BY <1>3, <1>12 DEF H, Making
<1>14. disc' = r
  BY <1>3
<1> HIDE DEF r
<1> DEFINE others == {j \in Inodes : disc.node[j].type # "FILE"}
<1>15. Lone(disc, others) /\ Kept(disc, r, others)
  BY <1>13 DEF Lone, Kept
<1> QED
  BY <1>13, <1>14, <1>15 DEF Fine

\* The directory a path leads to.
LEMMA DirOf ==
    ASSUME NEW path \in Paths, Inv, FindDir(disc, path) # -1
    PROVE  FindDir(disc, path) \in Inodes /\ IsDir(disc, FindDir(disc, path))
<1>1. Len(path) \in Nat
  BY PathLen
<1>2. FindDir(disc, path) \in Dirs(disc) \cup {-1}
  BY <1>1, FindDirGood DEF Inv
<1> QED
  BY <1>2 DEF Dirs

\* A link that saves: a directory gets an element.
LEMMA LinkFine ==
    ASSUME NEW path \in Paths, NEW name \in Names, NEW linkPath \in Paths,
           NEW linkName \in Names, Inv, Link(path, name, linkPath, linkName)
    PROVE  Fine(disc, disc')
<1> DEFINE dir == FindDir(disc, path)
           linkDir == FindDir(disc, linkPath)
           i == FindInDir(disc, dir, name)
           x == [disc.node[i] EXCEPT !.refs = (@ + 1) % RefMod]
           m == [disc EXCEPT !.node[i] = x]
           elem == Elem(i, linkName)
           r == AddElemToDir(m, linkDir, elem)
<1>1. dir # -1 /\ HasElem(disc, dir, name) /\ linkDir # -1 /\ r.up /\ disc' = r
  BY DEF Link, Save
<1>2. Good(disc) /\ disc.up
  BY DEF Inv
<1>3. dir \in Inodes /\ linkDir \in Inodes /\ IsDir(disc, linkDir)
  BY <1>1, DirOf
<1>4. i \in Inodes /\ i # Root
  BY <1>1, <1>2, <1>3, Lookup
<1>5. disc.node[i] \in Node /\ Fits(disc.node[i], Len(BlocksOf(disc, i)), EndOf(disc, i))
      /\ IsDir(disc, Root)
  <2>1. disc \in Image /\ Fits(disc.node[i], Len(BlocksOf(disc, i)), EndOf(disc, i))
        /\ IsDir(disc, Root)
    BY <1>2, <1>4, GoodParts
  <2> QED
    BY <1>4, <2>1 DEF Image
<1>6. elem \in SlotValue
  BY <1>4, ElemIs
<1> HIDE DEF dir, linkDir, i, elem
<1>7. /\ x \in Node /\ x.first = disc.node[i].first /\ x.type = disc.node[i].type
      /\ x.size = disc.node[i].size
  <2> DEFINE k == (disc.node[i].refs + 1) % RefMod
  <2>1. disc.node[i].refs + 1 \in Int
    BY <1>5, Sizing DEF Node
  <2>2. k \in 0..(RefMod - 1)
    BY <2>1, Sizing, Modulo
  <2>3. x = [disc.node[i] EXCEPT !.refs = k]
    OBVIOUS
  <2> HIDE DEF k, x
  <2> QED
    BY <1>5, <2>2, <2>3 DEF Node
<1> HIDE DEF x
<1>8. Fits(x, Len(BlocksOf(disc, i)), EndOf(disc, i))
  BY <1>5, <1>7 DEF Fits
<1>9. /\ Good(m) /\ m.slot = disc.slot /\ m.node[i] = x
      /\ \A j \in Inodes : j # i => m.node[j] = disc.node[j]
      /\ \A j \in Inodes : BlocksOf(m, j) = BlocksOf(disc, j) /\ EndOf(m, j) = EndOf(disc, j)
      /\ \A j \in Inodes : j # i => Same(disc, m, j)
  <2> DEFINE d == disc
  <2>1. Good(d) /\ x.first = d.node[i].first /\ Fits(x, Len(BlocksOf(d, i)), EndOf(d, i))
    BY <1>2, <1>7, <1>8
  <2> HIDE DEF d
  <2>2. LET w == [d EXCEPT !.node[i] = x]
        IN  /\ Good(w) /\ w.slot = d.slot /\ w.up = d.up /\ w.map = d.map /\ w.node[i] = x
            /\ \A j \in Inodes : j # i => w.node[j] = d.node[j]
            /\ \A j \in Inodes : BlocksOf(w, j) = BlocksOf(d, j) /\ EndOf(w, j) = EndOf(d, j)
            /\ \A j \in Inodes : j # i => Same(d, w, j)
    BY ONLY <1>4, <1>7, <2>1, NodeGood
  <2> QED
    BY <2>2 DEF d
<1> HIDE DEF m
<1>10. \A j \in Inodes : Same(disc, m, j)
  <2>1. Same(disc, m, i)
    BY <1>4, <1>7, <1>9 DEF Same
  <2> QED
    BY <1>9, <2>1
<1>11. IsDir(m, linkDir)
  BY <1>3, <1>10 DEF IsDir, Same
<1>12. Good(r) /\ Only(m, r, linkDir)
  <2>1. r.up => Good(r) /\ Only(m, r, linkDir) /\ r.up = m.up
    BY ONLY <1>3, <1>6, <1>9, <1>11, AddElemGood
  <2> QED
    BY <1>1, <2>1
<1> HIDE DEF r
<1>13. Kept(disc, r, {linkDir})
  BY <1>10, <1>12, SameTwice DEF Kept, Only
<1>14. Lone(disc, {linkDir})
  BY DEF Lone
<1> QED
  BY <1>1, <1>12, <1>13, <1>14 DEF Fine

\* An unlink that saves: a directory loses an element, and what nothing
\* refers to any more is removed.
LEMMA UnlinkFine ==
    ASSUME NEW path \in Paths, NEW name \in Names, Inv, Unlink(path, name)
    PROVE  Fine(disc, disc')
<1> DEFINE dir == FindDir(disc, path)
           i == FindInDir(disc, dir, name)
           m == RemoveFile(disc, i)
           b == BlockOfElem(m, dir, name)
           k == SlotOfElem(m, dir, name)
           r == [m EXCEPT !.slot[b][k] = NoElem]
<1>1. /\ dir # -1 /\ HasElem(disc, dir, name)
      /\ Save(IF m.up /\ HasElem(m, dir, name) THEN r ELSE Dies(m))
  BY DEF Unlink
<1>2. Good(disc)
  BY DEF Inv
<1>3. dir \in Inodes
  BY <1>1, DirOf
<1>4. i \in Inodes \ {Root}
  BY <1>1, <1>2, <1>3, Lookup
<1> HIDE DEF dir, i
<1>5. m.up /\ HasElem(m, dir, name) /\ r.up /\ disc' = r
  <2>1. Dies(m).up = FALSE \/ (m.up /\ HasElem(m, dir, name))
    <3> HIDE DEF m
    <3>1. [m EXCEPT !.up = FALSE].up = FALSE \/ m.up
      <4>1. CASE m.up
        BY <4>1
      <4>2. CASE ~m.up
        BY <4>2
      <4> QED
        BY <4>1, <4>2
    <3> QED
      BY <3>1 DEF Dies
  <2> QED
    BY <1>1, <2>1 DEF Save
<1>6. Good(m) /\ Removed(disc, m) /\ m \in Image
  <2>1. Good(m) /\ Removed(disc, m)
    BY <1>2, <1>4, <1>5, RemoveFileGood
  <2> QED
    BY <2>1, GoodParts
<1> HIDE DEF m
<1>7. b \in Blocks /\ b \in Owned(m, dir) /\ k \in Slots
  BY <1>3, <1>5, <1>6, Lookup
<1> HIDE DEF b, k
<1> DEFINE y == [m.slot[b] EXCEPT ![k] = NoElem]
           q == [m EXCEPT !.slot[b] = y]
<1>8. r = q
  OBVIOUS
<1>9. y \in [Slots -> SlotValue]
  <2>1. m.slot[b] \in [Slots -> SlotValue] /\ NoElem \in SlotValue
    BY <1>6, <1>7 DEF Image, SlotValue
  <2> QED
    BY <2>1
<1> HIDE DEF r, y
<1>10. /\ q \in Image /\ q.node = m.node /\ q.next = m.next /\ q.map = m.map
       /\ \A z \in Blocks : q.slot[z] = IF z = b THEN y ELSE m.slot[z]
  <2>1. LET w == [m EXCEPT !.slot[b] = y]
        IN  /\ w \in Image /\ w.node = m.node /\ w.next = m.next /\ w.map = m.map /\ w.up = m.up
            /\ \A z \in Blocks : w.slot[z] = IF z = b THEN y ELSE m.slot[z]
    BY ONLY <1>6, <1>7, <1>9, SlotOne
  <2> QED
    BY <2>1
<1> HIDE DEF q
<1>11. Good(q) /\ Only(m, q, dir)
  <2>1. \A z \in Blocks : q.slot[z] # m.slot[z] => z \in Owned(m, dir) \/ ~m.map[z]
    BY <1>7, <1>10
  <2> QED
    BY ONLY <1>3, <1>6, <1>10, <2>1, SlotsOnly
<1>12. Kept(disc, q, {dir})
  <2> SUFFICES ASSUME NEW j \in Inodes, j # dir, q.node[j].type = disc.node[j].type,
                      q.node[j].type # "EMPTY"
               PROVE  Same(disc, q, j)
    BY DEF Kept
  <2>1. Same(m, q, j)
    BY <1>11 DEF Only
  <2>2. m.node[j].type # "EMPTY"
    BY <2>1 DEF Same
  <2>3. Same(disc, m, j)
    BY <1>6, <2>2 DEF Removed
  <2> QED
    BY <2>1, <2>3, SameTwice
<1>13. Lone(disc, {dir})
  BY DEF Lone
<1> QED
  BY <1>5, <1>8, <1>11, <1>12, <1>13 DEF Fine

\* A dec that saves: one file has less.
LEMMA DecFine ==
    ASSUME NEW path \in Paths, NEW name \in Names, NEW amount \in Nat, Inv,
           Dec(path, name, amount)
    PROVE  Fine(disc, disc')
<1> DEFINE dir == FindDir(disc, path)
           i == FindInDir(disc, dir, name)
           size == disc.node[i].size - amount
           r == Shorten([disc EXCEPT !.node[i].size = size], i, BlocksFor(size))
<1>1. /\ dir # -1 /\ HasElem(disc, dir, name) /\ disc.node[i].type = "FILE"
      /\ amount <= disc.node[i].size /\ r.up /\ disc' = r
  BY DEF Dec, Save
<1>2. Good(disc)
  BY DEF Inv
<1>3. dir \in Inodes
  BY <1>1, DirOf
<1>4. i \in Inodes
  BY <1>1, <1>2, <1>3, Lookup
<1> HIDE DEF dir, i
<1>5. size \in Nat /\ size <= disc.node[i].size
  <2>1. disc \in Image
    BY <1>2, GoodParts
  <2>2. disc.node[i].size \in Nat
    BY <1>4, <2>1, ImageParts
  <2> QED
    BY <1>1, <2>2
<1> HIDE DEF size
<1>6. Good(r) /\ Only(disc, r, i)
  <2> DEFINE d == disc
  <2>1. /\ Good(d) /\ d.node[i].type = "FILE" /\ size <= d.node[i].size
        /\ Shorten([d EXCEPT !.node[i].size = size], i, BlocksFor(size)).up
    BY <1>1, <1>2, <1>5
  <2> HIDE DEF d
  <2>2. LET w == Shorten([d EXCEPT !.node[i].size = size], i, BlocksFor(size))
        IN  Good(w) /\ Only(d, w, i)
    BY ONLY <1>4, <1>5, <2>1, DecGood
  <2> QED
    BY <2>2 DEF d
<1> HIDE DEF r
<1> QED
  BY <1>1, <1>4, <1>6, FineOnly

\* An inc that saves: one file has more.
LEMMA IncFine ==
    ASSUME NEW path \in Paths, NEW name \in Names, NEW amount \in Nat, Inv,
           Inc(path, name, amount)
    PROVE  Fine(disc, disc')
<1> DEFINE dir == FindDir(disc, path)
           i == FindInDir(disc, dir, name)
           r == Increased(disc, i, amount)
<1>1. /\ dir # -1 /\ HasElem(disc, dir, name) /\ disc.node[i].type = "FILE"
      /\ disc.node[i].first # Nil /\ EndOf(disc, i) # Wild /\ r.up /\ disc' = r
  BY Zenon DEF Inc, Save, Increased
<1>2. Good(disc)
  BY DEF Inv
<1>3. dir \in Inodes
  BY <1>1, DirOf
<1>4. i \in Inodes
  BY <1>1, <1>2, <1>3, Lookup
<1> HIDE DEF dir, i
<1>5. Good(r) /\ Only(disc, r, i)
  <2> HIDE DEF r
  <2>1. Increased(disc, i, amount).up
    BY <1>1 DEF r
  <2>2. Good(Increased(disc, i, amount)) /\ Only(disc, Increased(disc, i, amount), i)
    BY ONLY <1>1, <1>2, <1>4, <2>1, amount \in Nat, IncGood
  <2> QED
    BY ONLY <2>2 DEF r
<1> HIDE DEF r
<1> QED
  BY <1>1, <1>4, <1>5, FineOnly

\* Every command that ends and saves leaves a disc that is in order, and
\* changes one file, or directories, or what it makes and removes.
LEMMA NextFine ==
    ASSUME Inv, Next
    PROVE  Fine(disc, disc')
<1> PICK path \in Paths, name \in Names :
        \/ Cpto(name, path)
        \/ Mkdir(Append(path, name))
        \/ \E linkPath \in Paths, linkName \in Names : Link(path, name, linkPath, linkName)
        \/ Unlink(path, name)
        \/ \E amount \in 1..MaxSize : Dec(path, name, amount)
        \/ \E amount \in 1..MaxSize : Inc(path, name, amount)
  BY DEF Next
<1>1. CASE Cpto(name, path)
  BY <1>1, CptoFine
<1>2. CASE Mkdir(Append(path, name))
  <2>1. path \in Seq(Names)
    BY PathLen
  <2> DEFINE longer == Append(path, name)
  <2>2. longer \in Seq(Names)
    BY <2>1
  <2>3. Mkdir(longer)
    BY <1>2
  <2> HIDE DEF longer
  <2> QED
    BY <2>2, <2>3, MkdirFine
<1>3. CASE \E linkPath \in Paths, linkName \in Names : Link(path, name, linkPath, linkName)
  BY <1>3, LinkFine
<1>4. CASE Unlink(path, name)
  BY <1>4, UnlinkFine
<1>5. CASE \E amount \in 1..MaxSize : Dec(path, name, amount)
  <2>1. PICK amount \in 1..MaxSize : Dec(path, name, amount)
    BY <1>5
  <2>2. amount \in Nat
    BY DiscAssumption
  <2> QED
    BY <2>1, <2>2, DecFine
<1>6. CASE \E amount \in 1..MaxSize : Inc(path, name, amount)
  <2>1. PICK amount \in 1..MaxSize : Inc(path, name, amount)
    BY <1>6
  <2>2. amount \in Nat
    BY DiscAssumption
  <2> QED
    BY <2>1, <2>2, IncFine
<1> QED
  BY <1>1, <1>2, <1>3, <1>4, <1>5, <1>6

\* The image that create() writes.
LEMMA CreatedGood == Good(Created) /\ Created.up
<1> DEFINE c == [i \in Inodes |-> <<>>]
           e == [i \in Inodes |-> Nil]
           d == Created
           node == [i \in Inodes |->
                       IF i = Root THEN [EmptyNode EXCEPT !.type = "DIRECTORY", !.refs = 1]
                                   ELSE EmptyNode]
<1>1. /\ d.node = node
      /\ d.map = [b \in Blocks |-> FALSE] /\ d.next = [b \in Blocks |-> Nil] /\ d.up = TRUE
      /\ d.slot = [b \in Blocks |-> [j \in Slots |-> NoElem]]
      /\ d = [node |-> d.node, map |-> d.map, next |-> d.next, slot |-> d.slot, up |-> d.up]
  BY DEF Created
<1>2. /\ EmptyNode \in Node /\ [EmptyNode EXCEPT !.type = "DIRECTORY", !.refs = 1] \in Node
      /\ \A i \in Inodes : node[i].first = Nil /\ node[i].size = 0
      /\ \A i \in Inodes : node[i].type = IF i = Root THEN "DIRECTORY" ELSE "EMPTY"
  <2>1. 0 \in 0..(RefMod - 1) /\ 1 \in 0..(RefMod - 1)
    BY Sizing
  <2> QED
    BY <2>1, Sizing DEF EmptyNode, Node, Types
<1>3. node \in [Inodes -> Node]
  BY <1>2
<1> HIDE DEF d, node
<1>4. d \in Image
  <2>1. d.map \in [Blocks -> BOOLEAN] /\ d.next \in [Blocks -> Refs]
    BY <1>1, Sizing
  <2>2. d.slot \in [Blocks -> [Slots -> SlotValue]]
    BY <1>1 DEF SlotValue
  <2> QED
    BY <1>1, <1>3, <2>1, <2>2 DEF Image
<1>5. /\ c \in [Inodes -> Seq(Blocks)] /\ e \in [Inodes -> {Nil, Wild}]
      /\ \A i \in Inodes : c[i] = <<>> /\ e[i] = Nil
  OBVIOUS
<1> HIDE DEF c, e
<1>6. Len(<<>>) = 0 /\ \A b : ~Has(<<>>, b)
  BY DEF Has
<1>7. \A i \in Inodes : Thread(d.next, d.node[i].first, e[i], c[i])
  <2>1. Thread(d.next, Nil, Nil, <<>>)
    BY <1>6 DEF Thread
  <2> QED
    BY <1>1, <1>2, <1>5, <2>1
<1>8. Linked(d, c, e)
  <2>1. \A b \in Blocks : ~d.map[b] /\ d.next[b] = Nil
    BY <1>1
  <2>2. \A i \in Inodes : \A b : ~Has(c[i], b)
    BY <1>5, <1>6
  <2> QED
    BY <1>4, <1>5, <1>7, <2>1, <2>2, LinkedFrom
<1>9. \A i \in Inodes : Fits(d.node[i], Len(c[i]), e[i])
  BY <1>1, <1>2, <1>5 DEF Fits
<1>10. IsDir(d, Root)
  BY <1>1, <1>2, Sizing DEF IsDir
<1>11. Owns(d, c, e)
  BY <1>8, <1>9, <1>10 DEF Owns
<1> QED
  BY <1>1, <1>11, OwnsGood DEF d

\* The invariant is inductive.
THEOREM DiscInductive ==
    /\ Init => Inv
    /\ Inv /\ [Next]_disc => Inv'
<1>1. Init => Inv
  BY CreatedGood DEF Init, Inv
<1>2. ASSUME Inv, Next PROVE Inv'
  BY <1>2, NextFine DEF Fine, Inv
<1>3. ASSUME Inv, UNCHANGED disc PROVE Inv'
  BY <1>3 DEF Inv
<1> QED
  BY <1>1, <1>2, <1>3

\* The image a command finds and the one it saves are always in order.
THEOREM DiscInv == Spec => []Inv
<1>1. Init => Inv
  BY DiscInductive
<1>2. Inv /\ [Next]_disc => Inv'
  BY DiscInductive
<1> QED
  BY <1>1, <1>2, PTL DEF Spec

-----------------------------------------------------------------------------
(* What follows from it.                                                   *)

\* The image is of its type, and what is saved comes from a process that is
\* still up.
THEOREM DiscTypes == Spec => []TypeOK
<1>1. Inv => TypeOK
  <2> SUFFICES ASSUME Inv PROVE TypeOK
    OBVIOUS
  <2>1. disc \in Image /\ disc.up
    BY GoodParts DEF Inv
  <2>2. SlotValue \subseteq {NoElem} \cup {Elem(i, n) : i \in Inodes, n \in Names}
    BY DEF SlotValue
  <2>3. \A f \in [Slots -> SlotValue] :
            f \in [Slots -> {NoElem} \cup {Elem(i, n) : i \in Inodes, n \in Names}]
    BY <2>2
  <2>4. disc.slot \in [Blocks -> [Slots -> {NoElem} \cup {Elem(i, n) : i \in Inodes, n \in Names}]]
    BY <2>1, <2>3 DEF Image
  <2>5. /\ disc.node \in [Inodes -> [type : {"EMPTY", "FILE", "DIRECTORY"}, size : Nat,
                                     first : Refs, refs : 0..(RefMod - 1)]]
        /\ disc.map \in [Blocks -> BOOLEAN] /\ disc.next \in [Blocks -> Refs]
    BY <2>1 DEF Image, Node, Types
  <2> QED
    BY <2>1, <2>4, <2>5 DEF TypeOK
<1>2. Spec => []Inv
  BY DiscInv
<1> QED
  BY <1>1, <1>2, PTL

\* No command of fs.cpp ever gives a block to two files or directories, or
\* twice to one, and every chain of blocks ends.
THEOREM DiscDisjoint == Spec => []ChainsDisjoint
<1>1. Inv => ChainsDisjoint
  <2> SUFFICES ASSUME Inv PROVE ChainsDisjoint
    OBVIOUS
  <2>1. Good(disc)
    BY DEF Inv
  <2>2. \A i, j \in Inodes : i # j => Owned(disc, i) \cap Owned(disc, j) = {}
    BY <2>1, OwnedIs
  <2>3. ASSUME NEW i \in Inodes PROVE EndOf(disc, i) \notin Blocks
    <3>1. Linked(disc, Chains(disc), Ends(disc)) /\ Ends(disc)[i] = EndOf(disc, i)
      BY <2>1, GoodParts
    <3>2. Ends(disc)[i] \in {Nil, Wild}
      BY <3>1 DEF Linked
    <3> QED
      BY <3>1, <3>2, Sizing
  <2> QED
    BY <2>2, <2>3 DEF ChainsDisjoint
<1>2. Spec => []Inv
  BY DiscInv
<1> QED
  BY <1>1, <1>2, PTL

\* The data map never marks a block that is lost, and never misses one that
\* is in use.
THEOREM DiscMap == Spec => []MapExact
<1>1. Inv => MapExact
  <2> SUFFICES ASSUME Inv, NEW b \in Blocks
               PROVE  disc.map[b] <=> \E i \in InUse(disc) : b \in Owned(disc, i)
    BY DEF MapExact
  <2>1. Good(disc)
    BY DEF Inv
  <2>2. \A i \in Inodes : b \in Owned(disc, i) <=> Has(BlocksOf(disc, i), b)
    BY <2>1, OwnedIs
  <2>3. disc.map[b] <=> \E i \in Inodes : Has(BlocksOf(disc, i), b)
    <3>1. /\ Linked(disc, Chains(disc), Ends(disc))
          /\ \A i \in Inodes : Chains(disc)[i] = BlocksOf(disc, i)
      BY <2>1, GoodParts
    <3> QED
      BY <3>1 DEF Linked
  <2>4. ASSUME NEW i \in Inodes, disc.node[i].type = "EMPTY" PROVE ~Has(BlocksOf(disc, i), b)
    <3>1. Fits(disc.node[i], Len(BlocksOf(disc, i)), EndOf(disc, i))
      BY <2>1, GoodParts
    <3>2. disc.node[i].first = Nil
      BY <2>4, <3>1 DEF Fits
    <3>3. BlocksOf(disc, i) = <<>>
      BY <2>1, <3>2, NilIs
    <3> QED
      BY <3>3 DEF Has
  <2> QED
    BY <2>2, <2>3, <2>4 DEF InUse
<1>2. Spec => []Inv
  BY DiscInv
<1> QED
  BY <1>1, <1>2, PTL

\* A file always has the blocks its size needs, unless the disc was full.
THEOREM DiscSizes == Spec => []SizeMatches
<1>1. Inv => SizeMatches
  <2> SUFFICES ASSUME Inv, NEW i \in Inodes, disc.node[i].type = "FILE", EndOf(disc, i) = Nil
               PROVE  Len(BlocksOf(disc, i)) * SlotsPerBlock - disc.node[i].size
                          \in 0..(SlotsPerBlock - 1)
    BY DEF SizeMatches
  <2>1. Fits(disc.node[i], Len(BlocksOf(disc, i)), EndOf(disc, i))
    BY GoodParts DEF Inv
  <2> QED
    BY <2>1 DEF Fits
<1>2. Spec => []Inv
  BY DiscInv
<1> QED
  BY <1>1, <1>2, PTL

\* What mkdir and add_elem_to_dir() take without setting it is always clean.
THEOREM DiscClean == Spec => []FreeIsClean
<1>1. Inv => FreeIsClean
  <2> SUFFICES ASSUME Inv PROVE FreeIsClean
    OBVIOUS
  <2>1. Good(disc)
    BY DEF Inv
  <2>2. ASSUME NEW i \in FreeNodes(disc) PROVE disc.node[i].first = Nil /\ disc.node[i].size = 0
    <3>1. i \in Inodes /\ disc.node[i].type = "EMPTY"
      BY DEF FreeNodes
    <3>2. Fits(disc.node[i], Len(BlocksOf(disc, i)), EndOf(disc, i))
      BY <2>1, <3>1, GoodParts
    <3> QED
      BY <3>1, <3>2 DEF Fits
  <2>3. \A b \in Blocks : ~disc.map[b] => disc.next[b] = Nil
    <3>1. Linked(disc, Chains(disc), Ends(disc))
      BY <2>1, GoodParts
    <3> QED
      BY <3>1 DEF Linked
  <2> QED
    BY <2>2, <2>3 DEF FreeIsClean
<1>2. Spec => []Inv
  BY DiscInv
<1> QED
  BY <1>1, <1>2, PTL

\* An inode that is the same, or free in both images, has the same data.
LEMMA DataSame ==
    ASSUME NEW d, NEW r, NEW j \in Inodes, Good(d), Good(r), r.node[j].type = d.node[j].type,
           r.node[j].type = "EMPTY" \/ Same(d, r, j)
    PROVE  Data(r, j) = Data(d, j)
<1>1. CASE Same(d, r, j)
  <2>1. /\ r.node[j].size = d.node[j].size /\ BlocksOf(r, j) = BlocksOf(d, j)
        /\ \A b \in Owned(d, j) : r.slot[b] = d.slot[b]
    BY <1>1 DEF Same
  <2>2. Owned(r, j) = Owned(d, j)
    BY <2>1 DEF Owned
  <2>3. [b \in Owned(r, j) |-> r.slot[b]] = [b \in Owned(d, j) |-> d.slot[b]]
    BY <2>1, <2>2
  <2> QED
    BY <2>1, <2>3 DEF Data
<1>2. CASE r.node[j].type = "EMPTY"
  <2>1. ASSUME NEW x, Good(x), x.node[j].type = "EMPTY"
        PROVE  x.node[j].size = 0 /\ BlocksOf(x, j) = <<>>
    <3>1. Fits(x.node[j], Len(BlocksOf(x, j)), EndOf(x, j))
      BY <2>1, GoodParts
    <3>2. x.node[j].first = Nil /\ x.node[j].size = 0
      BY <2>1, <3>1 DEF Fits
    <3> QED
      BY <2>1, <3>2, NilIs
  <2>2. /\ r.node[j].size = 0 /\ BlocksOf(r, j) = <<>>
        /\ d.node[j].size = 0 /\ BlocksOf(d, j) = <<>>
    BY <1>2, <2>1
  <2>3. Owned(r, j) = {} /\ Owned(d, j) = {}
    BY <2>2 DEF Owned, ToSet
  <2>4. [b \in Owned(r, j) |-> r.slot[b]] = [b \in Owned(d, j) |-> d.slot[b]]
    BY <2>3
  <2> QED
    BY <2>2, <2>4 DEF Data
<1> QED
  BY <1>1, <1>2

\* A command that changes what a file holds changes no other inode.
THEOREM DiscApart == Spec => FilesApart
<1>1. ASSUME Inv, Inv', [Next]_disc
      PROVE  [LET changed == Changed
              IN  \A i, j \in changed : disc.node[i].type = "FILE" => i = j]_disc
  <2> SUFFICES ASSUME Next
               PROVE  \A i, j \in Changed : disc.node[i].type = "FILE" => i = j
    BY <1>1
  <2>1. Good(disc) /\ Good(disc')
    BY <1>1 DEF Inv
  <2>2. PICK S : Lone(disc, S) /\ Kept(disc, disc', S)
    BY <1>1, NextFine DEF Fine
  <2>3. ASSUME NEW i \in Changed PROVE i \in S
    <3>1. i \in Inodes /\ disc'.node[i].type = disc.node[i].type
          /\ Data(disc', i) # Data(disc, i)
      BY DEF Changed
    <3> SUFFICES ASSUME i \notin S PROVE FALSE
      OBVIOUS
    <3>2. disc'.node[i].type = "EMPTY" \/ Same(disc, disc', i)
      BY <2>2, <3>1 DEF Kept
    <3> QED
      BY <2>1, <3>1, <3>2, DataSame
  <2> QED
    BY <2>2, <2>3 DEF Lone
<1>2. Spec => []Inv
  BY DiscInv
<1>3. Spec => [][Next]_disc
  BY DEF Spec
<1> QED
  BY <1>1, <1>2, <1>3, PTL DEF FilesApart
=============================================================================
