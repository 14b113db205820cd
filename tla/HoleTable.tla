------------------------------ MODULE HoleTable ------------------------------
(***************************************************************************)
(* The hole list of the memory manager, src/t5/minix_usr/src/mm/alloc.c:   *)
(* what alloc_mem, free_mem, del_slot and merge do to it.  The linked list *)
(* that starts at hole_head is a sequence of holes; the list free_slots    *)
(* only matters by its length, which is NrHoles minus that of hole_head.   *)
(* Memory is counted in clicks.                                            *)
(***************************************************************************)
EXTENDS Integers, Sequences, FiniteSets, SequencesExt

CONSTANTS NrHoles,   \* NR_HOLES
          SwapBase   \* swap_base: holes from here on are swap space

ASSUME HolesAssumption == NrHoles \in Nat \ {0} /\ SwapBase \in Nat

Hole(base, len) == [base |-> base, len |-> len]
HoleEnd(hole) == hole.base + hole.len
Clicks(hole) == hole.base..(HoleEnd(hole) - 1)

\* The first of a set of positions; the set is never empty.
FirstOf(positions) == CHOOSE i \in positions : \A j \in positions : i <= j

\* The part of the list a search for memory passes before it meets the swap area.
Regular(holes) == {i \in DOMAIN holes : \A j \in 1..i : holes[j].base < SwapBase}

\* First fit: the position to allocate from, in a set of at most one.
FirstFit(holes, clicks) ==
    LET big == {i \in Regular(holes) : holes[i].len >= clicks}
    IN  IF big = {} THEN {} ELSE {FirstOf(big)}

\* Worst fit: the first of the biggest holes.  The search starts with the
\* first hole of the list in hand, wherever that is.
WorstFit(holes, clicks) ==
    LET seen == Regular(holes) \cup {1}
        biggest == {i \in seen : \A j \in seen : holes[j].len <= holes[i].len}
    IN  IF holes[FirstOf(biggest)].len < clicks THEN {} ELSE {FirstOf(biggest)}

\* The search of swap_out() for a place in the swap area.
SwapFit(holes, clicks) ==
    LET big == {i \in DOMAIN holes : holes[i].base >= SwapBase /\ holes[i].len >= clicks}
    IN  IF big = {} THEN {} ELSE {FirstOf(big)}

\* Mutant of Bite: a hole used up stays on the list.
BiteKeepsHole(holes, i, clicks) ==
    [holes EXCEPT ![i] = Hole(@.base + clicks, @.len - clicks)]

\* Takes clicks from the start of a hole, and the hole off the list when
\* nothing is left of it: del_slot().
Bite(holes, i, clicks) ==
    IF holes[i].len = clicks
    THEN RemoveAt(holes, i)
    ELSE [holes EXCEPT ![i] = Hole(@.base + clicks, @.len - clicks)]

\* merge(): hole i absorbs its successor if that is adjacent; then it, or
\* else the successor, absorbs the next.
Adjacent(holes, i) == i < Len(holes) /\ HoleEnd(holes[i]) = holes[i + 1].base
Absorb(holes, i) ==
    [RemoveAt(holes, i + 1) EXCEPT ![i] = Hole(@.base, @.len + holes[i + 1].len)]

\* Mutants of Merge: only the first pair is looked at; none is.
MergeOnce(holes, i) == IF Adjacent(holes, i) THEN Absorb(holes, i) ELSE holes
MergeNever(holes, i) == holes

Merge(holes, i) ==
    LET once == IF Adjacent(holes, i) THEN Absorb(holes, i) ELSE holes
        k == IF Adjacent(holes, i) THEN i ELSE i + 1
    IN  IF Adjacent(once, k) THEN Absorb(once, k) ELSE once

\* free_mem(), with a slot left for the hole: sorted in, then merged from the
\* hole before it.
TableFull(holes) == Len(holes) = NrHoles
Insert(holes, base, clicks) ==
    LET before == {i \in DOMAIN holes : \A j \in 1..i : holes[j].base < base}
        n == Cardinality(before)
    IN  Merge(InsertAt(holes, n + 1, Hole(base, clicks)), IF n = 0 THEN 1 ELSE n)

\* swap_off() takes the holes of the swap area off the list.  It starts anew
\* with the second hole after each; the first is looked at only once.
DropSwapHoles(holes) ==
    LET regular == Regular(holes)
    IN  IF regular # {} \/ Len(holes) < 2
        THEN SubSeq(holes, 1, Cardinality(regular))
        ELSE <<holes[2]>>
=============================================================================
