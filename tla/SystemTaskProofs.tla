-------------------------- MODULE SystemTaskProofs --------------------------
(***************************************************************************)
(* Theorems of SystemTask for any number of processes and any signals.     *)
(* The checked invariants depend on each other: a held process is not      *)
(* readied because the books of its signals agree, and they agree because  *)
(* MM, when it is told of a process, has finished with the one before.     *)
(***************************************************************************)
EXTENDS SystemTask, FiniteSetTheorems, SequenceTheorems, TLAPS

\* The books, for the flags f, the pending signals pend, the counter n of
\* processes, the counters cnt, the processes used, and the signals l of s that
\* MM has been told of.
Books(f, pend, n, cnt, used, s, l) ==
    /\ f \in [Slots -> SUBSET Flag] /\ pend \in [Slots -> SUBSET Signals]
    /\ cnt \in [Slots -> Nat] /\ l \in SUBSET Signals
    /\ n = Cardinality({p \in Slots : "PENDING" \in f[p]})
    /\ \A p \in Slots :
        /\ ("PENDING" \in f[p]) <=> pend[p] # {}
        /\ ("SIG_PENDING" \in f[p]) <=> cnt[p] > 0
        /\ cnt[p] = IF p \in used
                    THEN Cardinality(pend[p]) + (IF p = s THEN Cardinality(l) ELSE 0)
                    ELSE 0
        /\ p \notin used => f[p] = {} /\ pend[p] = {}

BooksExact == Books(flags, pending, sigProcs, pendcount, inUse, mm.sig, mm.left)

\* What else the steps rely on: callers wait for an answer, and MM handles one
\* call or the signals of one process.
ServersSane ==
    /\ \A p \in Slots : "SENDING" \in flags[p] => "RECEIVING" \in flags[p]
    /\ at["MM"] = "any" => mm = NoWork
    /\ mm.left # {} => mm.sig \in Slots
    /\ mm.caller # Nobody => mm.left = {}
    /\ mm.child # Nobody => mm.child \in inUse /\ at["MM"] = "work"

Inv == TypeOK /\ BooksExact /\ ReadyOnce /\ MMTold /\ ServersSane

-----------------------------------------------------------------------------
(* Facts about finite sets.                                                *)

LEMMA SlotsFinite ==
    ASSUME NEW S, S \subseteq Slots
    PROVE  IsFiniteSet(S) /\ Cardinality(S) \in Nat /\ (Cardinality(S) = 0 <=> S = {})
<1>1. IsFiniteSet(Slots)
  BY SlotsAssumption, FS_Interval DEF Slots
<1> QED
  BY <1>1, FS_Subset, FS_CardinalityType, FS_EmptySet

LEMMA SignalsFinite ==
    ASSUME NEW S, S \subseteq Signals
    PROVE  IsFiniteSet(S) /\ Cardinality(S) \in Nat /\ (Cardinality(S) = 0 <=> S = {})
BY SignalsAssumption, FS_Subset, FS_CardinalityType, FS_EmptySet

-----------------------------------------------------------------------------
(* The books under the changes the handlers make to them.                  *)

\* Flags other than those of signals do not matter.
LEMMA BooksFlags ==
    ASSUME NEW f, NEW pend, NEW n, NEW cnt, NEW used, NEW s, NEW l,
           Books(f, pend, n, cnt, used, s, l),
           NEW p \in used, NEW g \in SUBSET Flag,
           "PENDING" \in g <=> "PENDING" \in f[p],
           "SIG_PENDING" \in g <=> "SIG_PENDING" \in f[p]
    PROVE  Books([f EXCEPT ![p] = g], pend, n, cnt, used, s, l)
<1> DEFINE h == [f EXCEPT ![p] = g]
<1>1. h \in [Slots -> SUBSET Flag]
  BY DEF Books
<1>2. \A q \in Slots : h[q] = IF q = p THEN g ELSE f[q]
  BY DEF Books
<1> HIDE DEF h
<1>3. {q \in Slots : "PENDING" \in h[q]} = {q \in Slots : "PENDING" \in f[q]}
  BY <1>2
<1>4. Books(h, pend, n, cnt, used, s, l)
  BY <1>1, <1>2, <1>3 DEF Books
<1> QED
  BY <1>4 DEF h

\* cause_sig() and do_exec() raise a signal.
LEMMA BooksRaised ==
    ASSUME BooksExact, NEW p \in inUse, inUse \subseteq Slots, NEW sig \in Signals
    PROVE  Books([flags EXCEPT ![p] = Marked(p, sig)], Raised(p, sig), SigProcs(p, sig),
                 Counted(p, sig), inUse, mm.sig, mm.left)
<1> DEFINE f == [flags EXCEPT ![p] = Marked(p, sig)]
           P == {q \in Slots : "PENDING" \in flags[q]}
<1> USE DEF BooksExact, Books
<1>1. /\ Marked(p, sig) \in SUBSET Flag
      /\ "PENDING" \in Marked(p, sig) <=> First(p, sig) \/ "PENDING" \in flags[p]
      /\ "SIG_PENDING" \in Marked(p, sig) <=> First(p, sig) \/ "SIG_PENDING" \in flags[p]
  BY DEF Marked, Flag
<1>2. /\ f \in [Slots -> SUBSET Flag]
      /\ \A q \in Slots : f[q] = IF q = p THEN Marked(p, sig) ELSE flags[q]
  BY <1>1
<1>3. /\ Raised(p, sig) \in [Slots -> SUBSET Signals]
      /\ \A q \in Slots : Raised(p, sig)[q] =
             IF q = p THEN pending[p] \cup {sig} ELSE pending[q]
  BY DEF Raised
<1>4. Cardinality(pending[p] \cup {sig}) =
          IF Fresh(p, sig) THEN Cardinality(pending[p]) + 1 ELSE Cardinality(pending[p])
  BY SignalsFinite, FS_AddElement DEF Fresh
<1>5. /\ Counted(p, sig) \in [Slots -> Nat]
      /\ \A q \in Slots : Counted(p, sig)[q] =
             IF q = p /\ Fresh(p, sig) THEN pendcount[p] + 1 ELSE pendcount[q]
  BY DEF Counted
<1>6. SigProcs(p, sig) = Cardinality({q \in Slots : "PENDING" \in f[q]})
  <2>1. CASE First(p, sig)
    <3>1. {q \in Slots : "PENDING" \in f[q]} = P \cup {p} /\ p \notin P
      BY <1>1, <1>2, <2>1 DEF First
    <3>2. IsFiniteSet(P)
      BY SlotsFinite
    <3> QED
      BY <2>1, <3>1, <3>2, FS_AddElement DEF SigProcs
  <2>2. CASE ~First(p, sig)
    <3>1. {q \in Slots : "PENDING" \in f[q]} = P
      BY <1>1, <1>2, <2>2
    <3> QED
      BY <2>2, <3>1 DEF SigProcs
  <2> QED
    BY <2>1, <2>2
<1>7. ASSUME NEW q \in Slots
      PROVE  /\ ("PENDING" \in f[q]) <=> Raised(p, sig)[q] # {}
             /\ ("SIG_PENDING" \in f[q]) <=> Counted(p, sig)[q] > 0
             /\ Counted(p, sig)[q] =
                  IF q \in inUse
                  THEN Cardinality(Raised(p, sig)[q])
                       + (IF q = mm.sig THEN Cardinality(mm.left) ELSE 0)
                  ELSE 0
             /\ q \notin inUse => f[q] = {} /\ Raised(p, sig)[q] = {}
  <2>1. CASE q # p
    BY <1>2, <1>3, <1>5, <2>1
  <2>2. CASE q = p
    <3>0. p \in Slots /\ pendcount[p] \in Nat /\ Cardinality(pending[p]) \in Nat
      BY SignalsFinite
    <3>1. f[p] = Marked(p, sig) /\ Raised(p, sig)[p] = pending[p] \cup {sig}
      BY <1>2, <1>3
    <3>2. Counted(p, sig)[p] = IF Fresh(p, sig) THEN pendcount[p] + 1 ELSE pendcount[p]
      BY <1>5
    <3>3. "PENDING" \in f[p]
      BY <1>1, <3>1 DEF First, Fresh
    <3>4. "PENDING" \in flags[p] => pendcount[p] > 0
      <4>1. SUFFICES ASSUME "PENDING" \in flags[p] PROVE pendcount[p] > 0
        OBVIOUS
      <4>2. pending[p] # {} /\ Cardinality(pending[p]) > 0
        BY <3>0, <4>1, SignalsFinite
      <4>3. Cardinality(mm.left) \in Nat
        BY SignalsFinite
      <4> QED
        BY <3>0, <4>2, <4>3
    <3>5. ("SIG_PENDING" \in f[p]) <=> Counted(p, sig)[p] > 0
      BY <1>1, <3>0, <3>1, <3>2, <3>3, <3>4 DEF First, Fresh
    <3>6. Cardinality(mm.left) \in Nat
      BY SignalsFinite
    <3>7. Counted(p, sig)[p] = Cardinality(Raised(p, sig)[p])
                               + (IF p = mm.sig THEN Cardinality(mm.left) ELSE 0)
      BY <1>4, <3>0, <3>1, <3>2, <3>6
    <3> QED
      BY <2>2, <3>1, <3>3, <3>5, <3>7
  <2> QED
    BY <2>1, <2>2
<1> HIDE DEF f
<1>8. Books(f, Raised(p, sig), SigProcs(p, sig), Counted(p, sig), inUse, mm.sig, mm.left)
  BY <1>2, <1>3, <1>5, <1>6, <1>7
<1> QED
  BY <1>8 DEF f

\* inform() tells MM of a process when MM has finished with the one before.
LEMMA BooksInformed ==
    ASSUME NEW f, NEW pend, NEW n, NEW cnt, NEW used, NEW s,
           Books(f, pend, n, cnt, used, s, {}), Inform(f, pend, n)
    PROVE  /\ Books(flags', pending', sigProcs', cnt, used, mm'.sig, mm'.left)
           /\ \A q \in Slots : flags'[q] = {} <=> f[q] = {}
           /\ \A q \in Slots : flags'[q] \ {"PENDING"} = f[q] \ {"PENDING"}
           /\ sigProcs' \in Nat
           /\ \E p \in Slots : mm' = [NoWork EXCEPT !.sig = p, !.left = pend[p]]
           /\ at' = [at EXCEPT !["MM"] = "work"]
<1> PICK p \in Slots :
        /\ FirstPending(p, f)
        /\ mm' = [NoWork EXCEPT !.sig = p, !.left = pend[p]]
        /\ sigProcs' = n - 1
        /\ pending' = [pend EXCEPT ![p] = {}]
        /\ flags' = [f EXCEPT ![p] = @ \ {"PENDING"}]
        /\ at' = [at EXCEPT !["MM"] = "work"]
  BY DEF Inform
<1> DEFINE P == {q \in Slots : "PENDING" \in f[q]}
<1> USE DEF Books
<1>1. /\ flags' \in [Slots -> SUBSET Flag]
      /\ \A q \in Slots : flags'[q] = IF q = p THEN f[p] \ {"PENDING"} ELSE f[q]
  OBVIOUS
<1>2. /\ pending' \in [Slots -> SUBSET Signals]
      /\ \A q \in Slots : pending'[q] = IF q = p THEN {} ELSE pend[q]
  OBVIOUS
<1>3. mm'.sig = p /\ mm'.left = pend[p]
  BY DEF NoWork
<1>4. p \in P /\ p \in used /\ pend[p] # {} /\ pend[p] \in SUBSET Signals
  BY DEF FirstPending
<1>5. /\ sigProcs' = Cardinality({q \in Slots : "PENDING" \in flags'[q]})
      /\ sigProcs' \in Nat
  <2>1. {q \in Slots : "PENDING" \in flags'[q]} = P \ {p}
    BY <1>1
  <2>2. IsFiniteSet(P)
    BY SlotsFinite
  <2>3. Cardinality(P \ {p}) = Cardinality(P) - 1
    BY <1>4, <2>2, FS_RemoveElement, ZenonT(60)
  <2>4. Cardinality(P \ {p}) \in Nat
    BY SlotsFinite
  <2> QED
    BY <2>1, <2>3, <2>4
<1>6. Cardinality({}) = 0
  BY FS_EmptySet
<1>7. cnt[p] = Cardinality(pend[p]) /\ cnt[p] > 0 /\ "SIG_PENDING" \in f[p]
  BY <1>4, <1>6, SignalsFinite
<1>8. ASSUME NEW q \in Slots
      PROVE  /\ ("PENDING" \in flags'[q]) <=> pending'[q] # {}
             /\ ("SIG_PENDING" \in flags'[q]) <=> cnt[q] > 0
             /\ cnt[q] = IF q \in used
                         THEN Cardinality(pending'[q])
                              + (IF q = mm'.sig THEN Cardinality(mm'.left) ELSE 0)
                         ELSE 0
             /\ q \notin used => flags'[q] = {} /\ pending'[q] = {}
  <2>0. Cardinality(pend[q]) \in Nat
    BY SignalsFinite
  <2>1. CASE q = p
    BY <1>1, <1>2, <1>3, <1>4, <1>6, <1>7, <2>0, <2>1
  <2>2. CASE q # p
    BY <1>1, <1>2, <1>3, <1>6, <2>0, <2>2
  <2> QED
    BY <2>1, <2>2
<1>9. \A q \in Slots : flags'[q] = {} <=> f[q] = {}
  BY <1>1, <1>7
<1>10. \A q \in Slots : flags'[q] \ {"PENDING"} = f[q] \ {"PENDING"}
  BY <1>1
<1> QED
  BY <1>1, <1>2, <1>3, <1>4, <1>5, <1>8, <1>9, <1>10

\* do_fork() puts the child in a free slot, when MM has no signals to handle.
LEMMA BooksForked ==
    ASSUME BooksExact, inUse \subseteq Slots, NEW p \in inUse, NEW c \in Slots \ inUse,
           mm.left = {}
    PROVE  Books([flags EXCEPT ![c] = ChildFlags(p)], [pending EXCEPT ![c] = {}], sigProcs,
                 [pendcount EXCEPT ![c] = 0], inUse \cup {c}, mm.sig, mm.left)
<1> DEFINE f == [flags EXCEPT ![c] = ChildFlags(p)]
           pend == [pending EXCEPT ![c] = {}]
           cnt == [pendcount EXCEPT ![c] = 0]
<1> USE DEF BooksExact, Books
<1>1. /\ ChildFlags(p) \in SUBSET Flag
      /\ "PENDING" \notin ChildFlags(p) /\ "SIG_PENDING" \notin ChildFlags(p)
  BY DEF ChildFlags, Flag
<1>2. /\ f \in [Slots -> SUBSET Flag]
      /\ \A q \in Slots : f[q] = IF q = c THEN ChildFlags(p) ELSE flags[q]
  BY <1>1
<1>3. /\ pend \in [Slots -> SUBSET Signals] /\ cnt \in [Slots -> Nat]
      /\ \A q \in Slots : /\ pend[q] = IF q = c THEN {} ELSE pending[q]
                          /\ cnt[q] = IF q = c THEN 0 ELSE pendcount[q]
  OBVIOUS
<1>4. {q \in Slots : "PENDING" \in f[q]} = {q \in Slots : "PENDING" \in flags[q]}
  BY <1>1, <1>2
<1>5. Cardinality({}) = 0 /\ Cardinality(mm.left) = 0
  BY FS_EmptySet
<1> HIDE DEF f, pend, cnt
<1>6. ASSUME NEW q \in Slots
      PROVE  /\ ("PENDING" \in f[q]) <=> pend[q] # {}
             /\ ("SIG_PENDING" \in f[q]) <=> cnt[q] > 0
             /\ cnt[q] = IF q \in inUse \cup {c}
                         THEN Cardinality(pend[q])
                              + (IF q = mm.sig THEN Cardinality(mm.left) ELSE 0)
                         ELSE 0
             /\ q \notin inUse \cup {c} => f[q] = {} /\ pend[q] = {}
  <2>1. CASE q = c
    <3>1. f[q] = ChildFlags(p) /\ pend[q] = {} /\ cnt[q] = 0
      BY <1>2, <1>3, <2>1
    <3> QED
      BY <1>1, <1>5, <2>1, <3>1
  <2>2. CASE q # c
    BY <1>2, <1>3, <2>2
  <2> QED
    BY <2>1, <2>2
<1>7. Books(f, pend, sigProcs, cnt, inUse \cup {c}, mm.sig, mm.left)
  BY <1>2, <1>3, <1>4, <1>6
<1> QED
  BY <1>7 DEF f, pend, cnt

\* do_xit() takes a process out of the books.
LEMMA BooksExited ==
    ASSUME BooksExact, inUse \subseteq Slots, NEW p \in inUse
    PROVE  /\ Books([flags EXCEPT ![p] = {}], [pending EXCEPT ![p] = {}], SigProcsLess(p),
                    [pendcount EXCEPT ![p] = 0], inUse \ {p}, mm.sig, mm.left)
           /\ SigProcsLess(p) \in Nat
<1> DEFINE f == [flags EXCEPT ![p] = {}]
           pend == [pending EXCEPT ![p] = {}]
           cnt == [pendcount EXCEPT ![p] = 0]
           P == {q \in Slots : "PENDING" \in flags[q]}
<1> USE DEF BooksExact, Books
<1>2. /\ f \in [Slots -> SUBSET Flag]
      /\ \A q \in Slots : f[q] = IF q = p THEN {} ELSE flags[q]
  OBVIOUS
<1>3. /\ pend \in [Slots -> SUBSET Signals] /\ cnt \in [Slots -> Nat]
      /\ \A q \in Slots : /\ pend[q] = IF q = p THEN {} ELSE pending[q]
                          /\ cnt[q] = IF q = p THEN 0 ELSE pendcount[q]
  OBVIOUS
<1>4. /\ SigProcsLess(p) = Cardinality({q \in Slots : "PENDING" \in f[q]})
      /\ SigProcsLess(p) \in Nat
  <2>1. {q \in Slots : "PENDING" \in f[q]} = P \ {p}
    BY <1>2
  <2>2. IsFiniteSet(P)
    BY SlotsFinite
  <2>3. Cardinality(P \ {p}) = IF p \in P THEN Cardinality(P) - 1 ELSE Cardinality(P)
    BY <2>2, FS_RemoveElement
  <2>4. Cardinality(P \ {p}) \in Nat
    BY SlotsFinite
  <2> QED
    BY <2>1, <2>3, <2>4 DEF SigProcsLess
<1> HIDE DEF f, pend, cnt
<1>5. ASSUME NEW q \in Slots
      PROVE  /\ ("PENDING" \in f[q]) <=> pend[q] # {}
             /\ ("SIG_PENDING" \in f[q]) <=> cnt[q] > 0
             /\ cnt[q] = IF q \in inUse \ {p}
                         THEN Cardinality(pend[q])
                              + (IF q = mm.sig THEN Cardinality(mm.left) ELSE 0)
                         ELSE 0
             /\ q \notin inUse \ {p} => f[q] = {} /\ pend[q] = {}
  <2>1. CASE q = p
    BY <1>2, <1>3, <2>1
  <2>2. CASE q # p
    BY <1>2, <1>3, <2>2
  <2> QED
    BY <2>1, <2>2
<1>6. Books(f, pend, SigProcsLess(p), cnt, inUse \ {p}, mm.sig, mm.left)
  BY <1>2, <1>3, <1>4, <1>5
<1> QED
  BY <1>4, <1>6 DEF f, pend, cnt

\* do_endsig() finishes one of the signals MM was told of.
LEMMA BooksEnded ==
    ASSUME BooksExact, inUse \subseteq Slots, mm.sig \in inUse, NEW sig \in mm.left
    PROVE  LET p == mm.sig
               last == pendcount[p] # 0 /\ pendcount[p] - 1 = 0
           IN  /\ Books([flags EXCEPT ![p] = Released(p, last)], pending, sigProcs,
                        [pendcount EXCEPT ![p] = IF @ # 0 THEN @ - 1 ELSE 0],
                        inUse, p, mm.left \ {sig})
               /\ pendcount[p] > 0
<1> DEFINE p == mm.sig
           last == pendcount[p] # 0 /\ pendcount[p] - 1 = 0
           f == [flags EXCEPT ![p] = Released(p, last)]
           cnt == [pendcount EXCEPT ![p] = IF @ # 0 THEN @ - 1 ELSE 0]
<1> USE DEF BooksExact, Books
<1>1. /\ Cardinality(mm.left) \in Nat /\ Cardinality(pending[p]) \in Nat
      /\ Cardinality(mm.left \ {sig}) = Cardinality(mm.left) - 1
      /\ Cardinality(mm.left \ {sig}) \in Nat
  <2>1. mm.left \in SUBSET Signals /\ mm.left \ {sig} \in SUBSET Signals
        /\ pending[p] \in SUBSET Signals
    OBVIOUS
  <2>2. IsFiniteSet(mm.left)
    BY <2>1, SignalsFinite
  <2> QED
    BY <2>1, <2>2, SignalsFinite, FS_RemoveElement
<1>2. pendcount[p] = Cardinality(pending[p]) + Cardinality(mm.left)
  OBVIOUS
<1>3. pendcount[p] > 0 /\ "SIG_PENDING" \in flags[p]
  BY <1>1, <1>2
<1>4. /\ cnt \in [Slots -> Nat] /\ cnt[p] = pendcount[p] - 1
      /\ \A q \in Slots : q # p => cnt[q] = pendcount[q]
  BY <1>1, <1>2, <1>3
<1>5. last <=> cnt[p] = 0
  BY <1>3, <1>4
<1>6. /\ Released(p, last) \in SUBSET Flag
      /\ ("PENDING" \in Released(p, last)) <=> "PENDING" \in flags[p]
      /\ ("SIG_PENDING" \in Released(p, last)) <=> ~last
  BY <1>3 DEF Released, Flag
<1> HIDE DEF last, cnt
<1>7. /\ f \in [Slots -> SUBSET Flag]
      /\ \A q \in Slots : f[q] = IF q = p THEN Released(p, last) ELSE flags[q]
  BY <1>6
<1>8. {q \in Slots : "PENDING" \in f[q]} = {q \in Slots : "PENDING" \in flags[q]}
  BY <1>6, <1>7
<1> HIDE DEF f
<1>9. ASSUME NEW q \in Slots
      PROVE  /\ ("PENDING" \in f[q]) <=> pending[q] # {}
             /\ ("SIG_PENDING" \in f[q]) <=> cnt[q] > 0
             /\ cnt[q] = IF q \in inUse
                         THEN Cardinality(pending[q])
                              + (IF q = p THEN Cardinality(mm.left \ {sig}) ELSE 0)
                         ELSE 0
             /\ q \notin inUse => f[q] = {} /\ pending[q] = {}
  <2>1. CASE q = p
    BY <1>1, <1>2, <1>4, <1>5, <1>6, <1>7, <2>1
  <2>2. CASE q # p
    BY <1>4, <1>7, <2>2
  <2> QED
    BY <2>1, <2>2
<1>10. mm.left \ {sig} \in SUBSET Signals
  OBVIOUS
<1>11. Books(f, pending, sigProcs, cnt, inUse, p, mm.left \ {sig})
  BY <1>4, <1>7, <1>8, <1>9, <1>10
<1> QED
  BY <1>3, <1>11 DEF f, cnt, last

\* It does not matter whose signals MM was told of when none is left, or when
\* their process is gone.
LEMMA BooksIdle ==
    ASSUME NEW f, NEW pend, NEW n, NEW cnt, NEW used, NEW s, NEW t,
           Books(f, pend, n, cnt, used, s, {})
    PROVE  Books(f, pend, n, cnt, used, t, {})
<1>1. Cardinality({}) = 0
  BY FS_EmptySet
<1>2. Books(f, pend, n, cnt, used, s, {})
  OBVIOUS
<1> QED
  BY <1>1, <1>2 DEF Books

LEMMA BooksGone ==
    ASSUME NEW f, NEW pend, NEW n, NEW cnt, NEW used, NEW s, NEW l, NEW k \in SUBSET l,
           Books(f, pend, n, cnt, used, s, l), s \notin used
    PROVE  Books(f, pend, n, cnt, used, s, k)
<1>1. k \in SUBSET Signals
  BY DEF Books
<1>2. ASSUME NEW q \in Slots, q \in used
      PROVE  cnt[q] = Cardinality(pend[q]) + (IF q = s THEN Cardinality(k) ELSE 0)
  BY <1>2 DEF Books
<1> QED
  BY <1>1, <1>2 DEF Books

\* A queue of callers stays one when a caller is taken out of it.
LEMMA UnlinkedType ==
    ASSUME NEW q \in Seq(Slots), NEW p
    PROVE  Unlinked(q, p) \in Seq(Slots)
<1>1. CASE \E i \in 1..Len(q) : q[i] = p
  <2> DEFINE i == CHOOSE i \in 1..Len(q) : q[i] = p
             r == [j \in 1..Len(q) - 1 |-> IF j < i THEN q[j] ELSE q[j + 1]]
  <2>1. i \in 1..Len(q) /\ Len(q) \in Nat
    BY <1>1
  <2>2. Len(q) - 1 \in Nat
    BY <2>1
  <2> HIDE DEF i
  <2>3. \A j \in 1..Len(q) - 1 : (IF j < i THEN q[j] ELSE q[j + 1]) \in Slots
    BY <2>1
  <2>4. r \in [1..Len(q) - 1 -> Slots]
    BY <2>3
  <2>5. r \in Seq(Slots)
    BY <2>2, <2>4, SeqDef
  <2> QED
    BY <1>1, <2>5 DEF Unlinked, i
<1>2. CASE ~\E i \in 1..Len(q) : q[i] = p
  BY <1>2 DEF Unlinked
<1> QED
  BY <1>1, <1>2

-----------------------------------------------------------------------------
(* The steps.                                                              *)

\* A handler changes flags of one process that say nothing of signals, and puts
\* the process in the ready queue or takes it out.
LEMMA FlagStep ==
    ASSUME Inv, NEW p \in inUse, NEW g \in SUBSET Flag,
           flags' = [flags EXCEPT ![p] = g],
           "PENDING" \in g <=> "PENDING" \in flags[p],
           "SIG_PENDING" \in g <=> "SIG_PENDING" \in flags[p],
           "SENDING" \in g => "RECEIVING" \in g,
           \A q \in Slots : queued'[q] = IF q = p THEN (IF g = {} THEN 1 ELSE 0)
                                                  ELSE queued[q],
           at'["MM"] = "any" => at["MM"] = "any",
           UNCHANGED <<inUse, signalVars>>, mm'.sig = mm.sig, mm'.left = mm.left
    PROVE  /\ BooksExact' /\ ReadyOnce' /\ MMTold'
           /\ flags' \in [Slots -> SUBSET Flag] /\ p \in Slots
           /\ \A q \in Slots : "SENDING" \in flags'[q] => "RECEIVING" \in flags'[q]
<1>1. p \in Slots /\ flags \in [Slots -> SUBSET Flag]
  BY DEF Inv, TypeOK
<1>2. \A q \in Slots : flags'[q] = IF q = p THEN g ELSE flags[q]
  BY <1>1
<1>3. Books(flags', pending, sigProcs, pendcount, inUse, mm.sig, mm.left)
  BY BooksFlags DEF Inv, BooksExact
<1>4. BooksExact'
  BY <1>3 DEF BooksExact, signalVars
<1>5. ReadyOnce'
  BY <1>1, <1>2 DEF Inv, ReadyOnce
<1>6. MMTold'
  BY <1>2 DEF Inv, MMTold
<1>7. \A q \in Slots : "SENDING" \in flags'[q] => "RECEIVING" \in flags'[q]
  BY <1>2 DEF Inv, ServersSane
<1>8. flags' \in [Slots -> SUBSET Flag]
  BY <1>1
<1> QED
  BY <1>1, <1>4, <1>5, <1>6, <1>7, <1>8

LEMMA InitInv == Init => Inv
<1> SUFFICES ASSUME Init PROVE Inv
  OBVIOUS
<1>1. 1 \in Slots
  BY SlotsAssumption DEF Slots
<1>2. mm = NoWork /\ mm.left = {} /\ mm.caller = Nobody /\ mm.child = Nobody
  BY DEF Init, NoWork
<1>3. \A p \in Slots : flags[p] = {} /\ pending[p] = {} /\ pendcount[p] = 0
  BY DEF Init
<1>4. TypeOK
  <2>1. mm \in [caller : Slots \cup {Nobody}, child : Slots \cup {Nobody},
               sig : Slots \cup {Nobody}, left : SUBSET Signals]
    BY <1>2 DEF NoWork
  <2>2. callerq \in [Servers -> Seq(Slots)] /\ at \in [Servers -> {"any", "work", "wait"}]
    BY DEF Init
  <2>3. peer \in [Slots -> Servers] /\ queued \in [Slots -> Nat] /\ sigProcs \in Nat
    BY DEF Init, Servers
  <2>4. /\ flags \in [Slots -> SUBSET Flag] /\ pending \in [Slots -> SUBSET Signals]
        /\ pendcount \in [Slots -> Nat] /\ inUse \subseteq Slots
    BY <1>1 DEF Init, INIT_PROC_NR
  <2> QED
    BY <2>1, <2>2, <2>3, <2>4 DEF TypeOK
<1>5. Cardinality({}) = 0
  BY FS_EmptySet
<1>6. {p \in Slots : "PENDING" \in flags[p]} = {}
  BY <1>3
<1>7. sigProcs = 0
  BY DEF Init
<1>8. BooksExact
  <2>1. \A p \in Slots : pendcount[p] =
            IF p \in inUse
            THEN Cardinality(pending[p]) + (IF p = mm.sig THEN Cardinality(mm.left) ELSE 0)
            ELSE 0
    BY <1>2, <1>3, <1>5
  <2>2. /\ flags \in [Slots -> SUBSET Flag] /\ pending \in [Slots -> SUBSET Signals]
        /\ pendcount \in [Slots -> Nat] /\ mm.left \in SUBSET Signals
    BY <1>2, <1>4 DEF TypeOK
  <2>3. sigProcs = Cardinality({p \in Slots : "PENDING" \in flags[p]})
    BY <1>5, <1>6, <1>7
  <2>4. \A p \in Slots : /\ ("PENDING" \in flags[p]) <=> pending[p] # {}
                         /\ ("SIG_PENDING" \in flags[p]) <=> pendcount[p] > 0
    BY <1>3
  <2> QED
    BY <1>3, <2>1, <2>2, <2>3, <2>4 DEF BooksExact, Books
<1>9. ReadyOnce
  BY <1>3 DEF Init, ReadyOnce
<1>10. MMTold /\ ServersSane
  BY <1>2, <1>3 DEF MMTold, ServersSane
<1> QED
  BY <1>4, <1>8, <1>9, <1>10 DEF Inv

LEMMA CallInv ==
    ASSUME Inv, NEW p \in Slots, NEW s \in Servers, CallFree(p, s) \/ CallBusy(p, s)
    PROVE  Inv'
<1> DEFINE g == IF CallFree(p, s) THEN {"RECEIVING"} ELSE {"SENDING", "RECEIVING"}
<1> USE DEF Inv
<1>1. /\ p \in inUse /\ flags[p] = {} /\ queued[p] = 1
      /\ g \in SUBSET Flag /\ "PENDING" \notin g /\ "SIG_PENDING" \notin g
      /\ "RECEIVING" \in g
  BY DEF CallFree, CallBusy, ReadyOnce, Flag
<1>2. /\ flags' = [flags EXCEPT ![p] = g] /\ queued' = [queued EXCEPT ![p] = @ - 1]
      /\ UNCHANGED <<inUse, signalVars>> /\ peer' = [peer EXCEPT ![p] = s]
  BY DEF CallFree, CallBusy, SetFlags, Unready
<1>3. /\ queued' \in [Slots -> Nat]
      /\ \A q \in Slots : queued'[q] = IF q = p THEN 0 ELSE queued[q]
  BY <1>1, <1>2 DEF TypeOK
<1>4. /\ at' \in [Servers -> {"any", "work", "wait"}]
      /\ at'["MM"] = "any" => at["MM"] = "any" /\ mm' = mm
      /\ mm' # mm => mm = NoWork /\ mm' = [NoWork EXCEPT !.caller = p]
      /\ at'["MM"] # at["MM"] => mm = NoWork
  <2>1. CASE CallFree(p, s)
    <3>1. /\ at' = [at EXCEPT ![s] = "work"] /\ at[s] = "any"
          /\ mm' = IF s = "MM" THEN [NoWork EXCEPT !.caller = p] ELSE mm
      BY <2>1 DEF CallFree
    <3>2. at \in [Servers -> {"any", "work", "wait"}] /\ "MM" \in Servers
      BY DEF TypeOK, Servers
    <3>3. at["MM"] = "any" => mm = NoWork
      BY DEF ServersSane
    <3> QED
      BY <3>1, <3>2, <3>3
  <2>2. CASE CallBusy(p, s)
    BY <2>2 DEF CallBusy, TypeOK
  <2> QED
    BY <2>1, <2>2
<1>5. mm'.sig = mm.sig /\ mm'.left = mm.left
  BY <1>4 DEF NoWork
<1>6. callerq' \in [Servers -> Seq(Slots)]
  <2>1. callerq \in [Servers -> Seq(Slots)] /\ Append(callerq[s], p) \in Seq(Slots)
    BY DEF TypeOK
  <2>2. callerq' = callerq \/ callerq' = [callerq EXCEPT ![s] = Append(@, p)]
    BY DEF CallFree, CallBusy
  <2> QED
    BY <2>1, <2>2
<1> HIDE DEF g
<1>7. /\ BooksExact' /\ ReadyOnce' /\ MMTold' /\ flags' \in [Slots -> SUBSET Flag]
      /\ \A q \in Slots : "SENDING" \in flags'[q] => "RECEIVING" \in flags'[q]
  BY <1>1, <1>2, <1>3, <1>4, <1>5, FlagStep, ZenonT(60)
<1>8. TypeOK'
  BY <1>2, <1>3, <1>4, <1>6, <1>7, ZenonT(60) DEF TypeOK, signalVars, NoWork
<1>9. ServersSane'
  BY <1>2, <1>4, <1>7 DEF ServersSane, NoWork
<1> QED
  BY <1>7, <1>8, <1>9

\* What MM handles is of its type when inform() has told it.
LEMMA ToldType ==
    ASSUME TypeOK, NEW p \in Slots, NEW l \in SUBSET Signals,
           mm' = [NoWork EXCEPT !.sig = p, !.left = l], at' = [at EXCEPT !["MM"] = "work"]
    PROVE  /\ mm' \in [caller : Slots \cup {Nobody}, child : Slots \cup {Nobody},
                       sig : Slots \cup {Nobody}, left : SUBSET Signals]
           /\ mm'.sig \in Slots /\ mm'.caller = Nobody /\ mm'.child = Nobody
           /\ at' \in [Servers -> {"any", "work", "wait"}] /\ at'["MM"] = "work"
<1>1. mm' = [caller |-> Nobody, child |-> Nobody, sig |-> p, left |-> l]
  BY DEF NoWork
<1>2. at' \in [Servers -> {"any", "work", "wait"}] /\ at'["MM"] = "work"
  BY DEF TypeOK, Servers
<1>3. mm' \in [caller : Slots \cup {Nobody}, child : Slots \cup {Nobody},
               sig : Slots \cup {Nobody}, left : SUBSET Signals]
  BY <1>1
<1>4. mm'.sig = p /\ mm'.caller = Nobody /\ mm'.child = Nobody
  BY DEF NoWork
<1> QED
  BY <1>2, <1>3, <1>4

LEMMA SignalInv ==
    ASSUME Inv, NEW p \in inUse, NEW sig \in Signals, CauseSig(p, sig)
    PROVE  Inv'
<1> DEFINE f == [flags EXCEPT ![p] = Marked(p, sig)]
<1> USE DEF Inv
<1>1. /\ p \in Slots /\ inUse \subseteq Slots /\ flags \in [Slots -> SUBSET Flag]
      /\ pendcount' = Counted(p, sig)
      /\ UNCHANGED <<inUse, peer, callerq>>
  BY DEF TypeOK, CauseSig
<1>2. Books(f, Raised(p, sig), SigProcs(p, sig), Counted(p, sig), inUse, mm.sig, mm.left)
  BY <1>1, BooksRaised
<1>3. \A q \in Slots : f[q] = IF q = p THEN Marked(p, sig) ELSE flags[q]
  BY <1>1, <1>2 DEF Books
<1>4. flags[p] \subseteq Marked(p, sig) /\ "PENDING" \in f[p]
      /\ ("SENDING" \in Marked(p, sig) <=> "SENDING" \in flags[p])
  <2>1. Raised(p, sig)[p] # {}
    BY <1>1 DEF Raised, TypeOK
  <2>2. "PENDING" \in f[p]
    BY <1>1, <1>2, <2>1 DEF Books
  <2> QED
    BY <2>2 DEF Marked
<1>5. flags[p] = {} => First(p, sig)
  BY <1>1 DEF First, Fresh, BooksExact, Books
<1>6. /\ queued' \in [Slots -> Nat]
      /\ \A q \in Slots : queued'[q] = IF q = p THEN 0 ELSE queued[q]
  <2>1. /\ queued \in [Slots -> Nat]
        /\ queued[p] = IF flags[p] = {} THEN 1 ELSE 0
    BY <1>1 DEF TypeOK, ReadyOnce
  <2>2. queued' = IF flags[p] = {} THEN [queued EXCEPT ![p] = @ - 1] ELSE queued
    BY <1>5 DEF CauseSig, Unready
  <2> QED
    BY <1>1, <2>1, <2>2
<1>7. /\ BooksExact'
      /\ \A q \in Slots : flags'[q] = {} <=> f[q] = {}
      /\ \A q \in Slots : flags'[q] \ {"PENDING"} = f[q] \ {"PENDING"}
      /\ sigProcs' \in Nat
      /\ at' \in [Servers -> {"any", "work", "wait"}] /\ at'["MM"] # "any"
      /\ mm' \in [caller : Slots \cup {Nobody}, child : Slots \cup {Nobody},
                  sig : Slots \cup {Nobody}, left : SUBSET Signals]
      /\ \/ mm' = mm /\ at' = at
         \/ mm'.sig \in Slots /\ mm'.caller = Nobody /\ mm'.child = Nobody
  <2> HIDE DEF f
  <2>1. CASE TellNow(p, sig)
    <3>1. mm.left = {}
      BY <2>1 DEF TellNow, ServersSane, NoWork
    <3>2. Inform(f, Raised(p, sig), SigProcs(p, sig))
      BY <2>1 DEF CauseSig, f
    <3>3. Books(f, Raised(p, sig), SigProcs(p, sig), Counted(p, sig), inUse, mm.sig, {})
      BY <1>2, <3>1
    <3>4. /\ Books(flags', pending', sigProcs', Counted(p, sig), inUse, mm'.sig, mm'.left)
          /\ \A q \in Slots : flags'[q] = {} <=> f[q] = {}
          /\ \A q \in Slots : flags'[q] \ {"PENDING"} = f[q] \ {"PENDING"}
          /\ sigProcs' \in Nat
          /\ \E q \in Slots : mm' = [NoWork EXCEPT !.sig = q, !.left = Raised(p, sig)[q]]
          /\ at' = [at EXCEPT !["MM"] = "work"]
      BY <3>2, <3>3, BooksInformed
    <3>5. PICK q \in Slots : mm' = [NoWork EXCEPT !.sig = q, !.left = Raised(p, sig)[q]]
      BY <3>4
    <3>6. Raised(p, sig)[q] \in SUBSET Signals
      BY <1>2 DEF Books
    <3>7. BooksExact'
      BY <1>1, <3>4 DEF BooksExact
    <3> QED
      BY <3>4, <3>5, <3>6, <3>7, ToldType, ZenonT(60)
  <2>2. CASE ~TellNow(p, sig)
    <3>1. /\ pending' = Raised(p, sig) /\ sigProcs' = SigProcs(p, sig) /\ flags' = f
          /\ at' = at /\ mm' = mm
      BY <2>2 DEF CauseSig, SetFlags, f
    <3>2. BooksExact'
      BY <1>1, <1>2, <3>1 DEF BooksExact
    <3>3. at["MM"] # "any"
      BY <1>1, <2>2 DEF TellNow, First, Fresh, MMTold, BooksExact, Books
    <3>4. sigProcs' \in Nat
      BY <3>1 DEF SigProcs, TypeOK
    <3> QED
      BY <3>1, <3>2, <3>3, <3>4 DEF TypeOK
  <2> QED
    BY <2>1, <2>2
<1> HIDE DEF f
<1>8. TypeOK'
  <2>1. /\ flags' \in [Slots -> SUBSET Flag] /\ pending' \in [Slots -> SUBSET Signals]
        /\ pendcount' \in [Slots -> Nat]
    BY <1>7 DEF BooksExact, Books
  <2>2. inUse' \subseteq Slots /\ peer' \in [Slots -> Servers]
        /\ callerq' \in [Servers -> Seq(Slots)]
    BY <1>1 DEF TypeOK
  <2> QED
    BY <1>6, <1>7, <2>1, <2>2 DEF TypeOK
<1>9. ReadyOnce'
  <2>1. \A q \in Slots : q # p => (flags'[q] = {} <=> flags[q] = {})
    BY <1>3, <1>7
  <2>2. flags'[p] # {}
    BY <1>1, <1>4, <1>7
  <2> QED
    BY <1>1, <1>6, <2>1, <2>2 DEF ReadyOnce
<1>10. ServersSane'
  <2>1. \A q \in Slots : "SENDING" \in flags'[q] => "RECEIVING" \in flags'[q]
    <3> SUFFICES ASSUME NEW q \in Slots, "SENDING" \in flags'[q]
                 PROVE  "RECEIVING" \in flags'[q]
      OBVIOUS
    <3>1. "SENDING" \in flags'[q] \ {"PENDING"} /\ "SENDING" \in f[q]
      BY <1>7
    <3>2. "RECEIVING" \in f[q]
      BY <1>3, <1>4, <3>1 DEF ServersSane
    <3>3. "RECEIVING" \in f[q] \ {"PENDING"}
      BY <3>2
    <3> QED
      BY <1>7, <3>3
  <2>2. CASE mm' = mm /\ at' = at
    BY <1>1, <1>7, <2>1, <2>2 DEF ServersSane
  <2>3. CASE mm'.sig \in Slots /\ mm'.caller = Nobody /\ mm'.child = Nobody
    BY <1>7, <2>1, <2>3 DEF ServersSane
  <2> QED
    BY <1>7, <2>2, <2>3
<1>11. MMTold'
  BY <1>7 DEF MMTold
<1> QED
  BY <1>7, <1>8, <1>9, <1>10, <1>11

\* A process that a flag holds is in no ready queue; readied when none is left.
LEMMA ReadyIfExact ==
    ASSUME TypeOK, ReadyOnce, NEW p \in inUse, NEW g,
           IF flags[p] = {} THEN g = {} /\ UNCHANGED queued ELSE ReadyIf(g = {}, p)
    PROVE  /\ queued' \in [Slots -> Nat]
           /\ \A q \in Slots : queued'[q] = IF q = p THEN (IF g = {} THEN 1 ELSE 0)
                                                     ELSE queued[q]
<1>1. /\ p \in Slots /\ queued \in [Slots -> Nat]
      /\ queued[p] = IF flags[p] = {} THEN 1 ELSE 0
  BY DEF TypeOK, ReadyOnce
<1>2. CASE flags[p] = {}
  BY <1>1, <1>2
<1>3. CASE flags[p] # {}
  BY <1>1, <1>3 DEF ReadyIf, Ready
<1> QED
  BY <1>2, <1>3

\* A held process is not readied, a runnable one leaves the queue.
LEMMA UnreadyExact ==
    ASSUME TypeOK, ReadyOnce, NEW p \in inUse,
           IF flags[p] = {} THEN Unready(p) ELSE UNCHANGED queued
    PROVE  /\ queued' \in [Slots -> Nat]
           /\ \A q \in Slots : queued'[q] = IF q = p THEN 0 ELSE queued[q]
<1>1. /\ p \in Slots /\ queued \in [Slots -> Nat]
      /\ queued[p] = IF flags[p] = {} THEN 1 ELSE 0
  BY DEF TypeOK, ReadyOnce
<1> QED
  BY <1>1 DEF Unready

LEMMA ReplyInv ==
    ASSUME Inv, NEW p \in Slots, NEW s \in Servers, Reply(p, s)
    PROVE  Inv'
<1> DEFINE g == flags[p] \ {"RECEIVING"}
<1> USE DEF Inv
<1>1. /\ p \in inUse /\ "RECEIVING" \in flags[p] /\ "SENDING" \notin flags[p]
      /\ flags' = [flags EXCEPT ![p] = g]
      /\ ReadyIf(flags[p] = {"RECEIVING"}, p)
      /\ mm' = mm \/ mm' = [mm EXCEPT !.caller = Nobody]
      /\ UNCHANGED <<inUse, peer, callerq, at, signalVars>>
  BY DEF Reply, WaitsFor, SetFlags
<1>2. flags[p] \in SUBSET Flag
  BY DEF TypeOK
<1>3. /\ g \in SUBSET Flag /\ "SENDING" \notin g
      /\ "PENDING" \in g <=> "PENDING" \in flags[p]
      /\ "SIG_PENDING" \in g <=> "SIG_PENDING" \in flags[p]
      /\ flags[p] # {} /\ (flags[p] = {"RECEIVING"} <=> g = {})
  BY <1>1, <1>2
<1> HIDE DEF g
<1>4. /\ queued' \in [Slots -> Nat]
      /\ \A q \in Slots : queued'[q] = IF q = p THEN (IF g = {} THEN 1 ELSE 0)
                                                ELSE queued[q]
  <2>1. ReadyIf(g = {}, p)
    BY <1>1, <1>3 DEF ReadyIf
  <2> QED
    BY <1>1, <1>3, <2>1, ReadyIfExact, SMTT(60)
<1>5. /\ mm' \in [caller : Slots \cup {Nobody}, child : Slots \cup {Nobody},
                  sig : Slots \cup {Nobody}, left : SUBSET Signals]
      /\ mm'.sig = mm.sig /\ mm'.left = mm.left /\ mm'.child = mm.child
      /\ mm'.caller = mm.caller \/ mm'.caller = Nobody
      /\ mm = NoWork => mm' = NoWork
  <2>1. mm \in [caller : Slots \cup {Nobody}, child : Slots \cup {Nobody},
               sig : Slots \cup {Nobody}, left : SUBSET Signals]
    BY DEF TypeOK
  <2>2. CASE mm' = mm
    BY <2>1, <2>2
  <2>3. CASE mm' = [mm EXCEPT !.caller = Nobody]
    <3>1. mm = NoWork => mm' = NoWork
      BY <2>3 DEF NoWork
    <3>2. mm' \in [caller : Slots \cup {Nobody}, child : Slots \cup {Nobody},
                  sig : Slots \cup {Nobody}, left : SUBSET Signals]
      BY <2>1, <2>3
    <3> QED
      BY <2>1, <2>3, <3>1, <3>2
  <2> QED
    BY <1>1, <2>2, <2>3
<1>6. /\ BooksExact' /\ ReadyOnce' /\ MMTold' /\ flags' \in [Slots -> SUBSET Flag]
      /\ \A q \in Slots : "SENDING" \in flags'[q] => "RECEIVING" \in flags'[q]
  BY <1>1, <1>3, <1>4, <1>5, FlagStep, ZenonT(60)
<1>7. TypeOK'
  BY <1>1, <1>4, <1>5, <1>6 DEF TypeOK, signalVars
<1>8. ServersSane'
  BY <1>1, <1>5, <1>6 DEF ServersSane
<1> QED
  BY <1>6, <1>7, <1>8

LEMMA ReceiveInv ==
    ASSUME Inv, NEW s \in Servers, Receive(s)
    PROVE  Inv'
<1> USE DEF Inv
<1>0. /\ at[s] = "work" /\ (s = "MM" => mm.child = Nobody /\ mm.left = {})
      /\ UNCHANGED <<inUse, queued, peer>>
      /\ "MM" \in Servers
  BY DEF Receive, Done, Servers
<1>1. CASE callerq[s] # <<>>
  <2> DEFINE p == Head(callerq[s])
             g == flags[p] \ {"SENDING"}
  <2>1. /\ p \in Slots /\ callerq' \in [Servers -> Seq(Slots)]
        /\ flags' = [flags EXCEPT ![p] = g]
        /\ UNCHANGED <<at, signalVars>>
        /\ mm' = IF s = "MM" THEN [NoWork EXCEPT !.caller = p] ELSE mm
    <3>1. callerq \in [Servers -> Seq(Slots)] /\ callerq[s] \in Seq(Slots)
      BY DEF TypeOK
    <3>2. p \in Slots /\ Tail(callerq[s]) \in Seq(Slots)
      BY <1>1, <3>1
    <3> QED
      BY <1>1, <3>1, <3>2 DEF Receive, SetFlags
  <2> HIDE DEF p
  <2>2. flags[p] \in SUBSET Flag
    BY <2>1 DEF TypeOK
  <2>3. /\ mm' \in [caller : Slots \cup {Nobody}, child : Slots \cup {Nobody},
                    sig : Slots \cup {Nobody}, left : SUBSET Signals]
        /\ mm'.left = mm.left /\ mm'.child = mm.child
        /\ \/ mm' = mm
           \/ mm.left = {} /\ at["MM"] = "work"
    BY <1>0, <2>1 DEF TypeOK, NoWork
  <2>4. BooksExact'
    <3>1. Books(flags', pending, sigProcs, pendcount, inUse, mm.sig, mm.left)
      <4>1. CASE p \in inUse
        <5>1. /\ "PENDING" \in g <=> "PENDING" \in flags[p]
              /\ "SIG_PENDING" \in g <=> "SIG_PENDING" \in flags[p]
              /\ g \in SUBSET Flag
          BY <2>2
        <5> HIDE DEF g
        <5> QED
          BY <2>1, <4>1, <5>1, BooksFlags DEF BooksExact
      <4>2. CASE p \notin inUse
        <5>1. flags[p] = {} /\ flags \in [Slots -> SUBSET Flag]
          BY <2>1, <4>2 DEF BooksExact, Books
        <5>2. flags' = flags
          BY <2>1, <5>1
        <5> QED
          BY <5>2 DEF BooksExact
      <4> QED
        BY <4>1, <4>2
    <3>2. Books(flags', pending, sigProcs, pendcount, inUse, mm'.sig, mm'.left)
      <4>1. CASE mm' = mm
        BY <3>1, <4>1
      <4>2. CASE mm.left = {}
        BY <2>3, <3>1, <4>2, BooksIdle
      <4> QED
        BY <2>3, <4>1, <4>2
    <3> QED
      BY <1>0, <2>1, <3>2 DEF BooksExact, signalVars
  <2>5. \A q \in Slots : flags'[q] = IF q = p THEN g ELSE flags[q]
    BY <2>1 DEF TypeOK
  <2>6. flags' \in [Slots -> SUBSET Flag]
    BY <2>1, <2>2 DEF TypeOK
  <2>7. g = {} <=> flags[p] = {}
    BY <2>1 DEF ServersSane
  <2>8. ReadyOnce'
    BY <1>0, <2>1, <2>5, <2>7 DEF ReadyOnce
  <2>9. MMTold'
    BY <2>1, <2>5 DEF MMTold
  <2>10. ServersSane'
    <3>1. \A q \in Slots : "SENDING" \in flags'[q] => "RECEIVING" \in flags'[q]
      BY <2>5 DEF ServersSane
    <3>2. CASE mm' = mm
      BY <1>0, <2>1, <3>1, <3>2 DEF ServersSane
    <3>3. CASE mm.left = {} /\ at["MM"] = "work"
      BY <1>0, <2>1, <2>3, <3>1, <3>3 DEF ServersSane
    <3> QED
      BY <2>3, <3>2, <3>3
  <2>11. TypeOK'
    BY <1>0, <2>1, <2>3, <2>6 DEF TypeOK, signalVars
  <2> QED
    BY <2>4, <2>8, <2>9, <2>10, <2>11
<1>2. CASE callerq[s] = <<>> /\ TellAtReceive(s)
  <2>1. /\ mm.left = {} /\ Inform(flags, pending, sigProcs)
        /\ UNCHANGED <<callerq, pendcount>>
    BY <1>0, <1>2 DEF Receive, TellAtReceive
  <2>2. Books(flags, pending, sigProcs, pendcount, inUse, mm.sig, {})
    BY <2>1 DEF BooksExact
  <2>3. /\ Books(flags', pending', sigProcs', pendcount, inUse, mm'.sig, mm'.left)
        /\ \A q \in Slots : flags'[q] = {} <=> flags[q] = {}
        /\ \A q \in Slots : flags'[q] \ {"PENDING"} = flags[q] \ {"PENDING"}
        /\ sigProcs' \in Nat
        /\ \E q \in Slots : mm' = [NoWork EXCEPT !.sig = q, !.left = pending[q]]
        /\ at' = [at EXCEPT !["MM"] = "work"]
    BY <2>1, <2>2, BooksInformed
  <2>4. PICK q \in Slots : mm' = [NoWork EXCEPT !.sig = q, !.left = pending[q]]
    BY <2>3
  <2>5. pending[q] \in SUBSET Signals
    BY DEF TypeOK
  <2>6. /\ mm' \in [caller : Slots \cup {Nobody}, child : Slots \cup {Nobody},
                    sig : Slots \cup {Nobody}, left : SUBSET Signals]
        /\ mm'.sig \in Slots /\ mm'.caller = Nobody /\ mm'.child = Nobody
        /\ at' \in [Servers -> {"any", "work", "wait"}] /\ at'["MM"] = "work"
    BY <2>3, <2>4, <2>5, ToldType
  <2>7. BooksExact'
    BY <1>0, <2>1, <2>3 DEF BooksExact
  <2>8. ReadyOnce'
    BY <1>0, <2>3 DEF ReadyOnce
  <2>9. MMTold'
    BY <2>6 DEF MMTold
  <2>10. ServersSane'
    <3>1. ASSUME NEW r \in Slots, "SENDING" \in flags'[r]
          PROVE  "RECEIVING" \in flags'[r]
      <4>1. "SENDING" \in flags'[r] \ {"PENDING"} /\ "SENDING" \in flags[r]
        BY <2>3, <3>1
      <4>2. "RECEIVING" \in flags[r] \ {"PENDING"}
        BY <4>1 DEF ServersSane
      <4> QED
        BY <2>3, <4>2
    <3> QED
      BY <2>6, <3>1 DEF ServersSane
  <2>11. TypeOK'
    <3>1. /\ flags' \in [Slots -> SUBSET Flag] /\ pending' \in [Slots -> SUBSET Signals]
      BY <2>3 DEF Books
    <3> QED
      BY <1>0, <2>1, <2>3, <2>6, <3>1 DEF TypeOK
  <2> QED
    BY <2>7, <2>8, <2>9, <2>10, <2>11
<1>3. CASE callerq[s] = <<>> /\ ~TellAtReceive(s)
  <2>1. /\ at' = [at EXCEPT ![s] = "any"]
        /\ mm' = IF s = "MM" THEN NoWork ELSE mm
        /\ UNCHANGED <<flags, pending, sigProcs, callerq, pendcount>>
    BY <1>3 DEF Receive
  <2>2. /\ mm' \in [caller : Slots \cup {Nobody}, child : Slots \cup {Nobody},
                    sig : Slots \cup {Nobody}, left : SUBSET Signals]
        /\ mm'.left = mm.left /\ (s # "MM" => mm' = mm)
        /\ (s = "MM" => mm' = NoWork /\ mm.left = {} /\ mm'.left = {} /\ mm'.child = Nobody)
    BY <1>0, <2>1 DEF TypeOK, NoWork
  <2>3. /\ at' \in [Servers -> {"any", "work", "wait"}]
        /\ at'["MM"] = IF s = "MM" THEN "any" ELSE at["MM"]
    BY <1>0, <2>1 DEF TypeOK
  <2>4. BooksExact'
    <3>1. CASE s = "MM"
      <4>1. Books(flags, pending, sigProcs, pendcount, inUse, mm.sig, {})
        BY <2>2, <3>1 DEF BooksExact
      <4>2. Books(flags, pending, sigProcs, pendcount, inUse, mm'.sig, {})
        BY <4>1, BooksIdle
      <4> QED
        BY <1>0, <2>1, <2>2, <3>1, <4>2 DEF BooksExact
    <3>2. CASE s # "MM"
      BY <1>0, <2>1, <2>2, <3>2 DEF BooksExact
    <3> QED
      BY <3>1, <3>2
  <2>5. ReadyOnce'
    BY <1>0, <2>1 DEF ReadyOnce
  <2>6. MMTold'
    <3>1. CASE s = "MM"
      <4>1. sigProcs = 0
        BY <1>3, <3>1 DEF TellAtReceive, TypeOK
      <4>2. {q \in Slots : "PENDING" \in flags[q]} = {}
        BY <4>1, SlotsFinite DEF BooksExact, Books
      <4> QED
        BY <2>1, <4>2 DEF MMTold
    <3>2. CASE s # "MM"
      BY <2>1, <2>3, <3>2 DEF MMTold
    <3> QED
      BY <3>1, <3>2
  <2>7. ServersSane'
    <3>1. CASE s = "MM"
      BY <2>1, <2>2, <2>3, <3>1 DEF ServersSane, NoWork
    <3>2. CASE s # "MM"
      BY <1>0, <2>1, <2>2, <2>3, <3>2 DEF ServersSane
    <3> QED
      BY <3>1, <3>2
  <2>8. TypeOK'
    BY <1>0, <2>1, <2>2, <2>3 DEF TypeOK
  <2> QED
    BY <2>4, <2>5, <2>6, <2>7, <2>8
<1> QED
  BY <1>1, <1>2, <1>3

LEMMA WaitInv ==
    ASSUME Inv, MMWaits \/ MMResumes
    PROVE  Inv'
<1> USE DEF Inv
<1>1. /\ UNCHANGED <<inUse, flags, queued, peer, callerq, mm, signalVars>>
      /\ at' \in [Servers -> {"any", "work", "wait"}]
      /\ at'["MM"] # "any"
      /\ mm.child # Nobody => at'["MM"] = "work"
  BY DEF MMWaits, MMResumes, TypeOK, Servers
<1>2. TypeOK'
  BY <1>1 DEF TypeOK, signalVars
<1>3. BooksExact'
  BY <1>1 DEF BooksExact, signalVars
<1>4. ReadyOnce' /\ MMTold' /\ ServersSane'
  BY <1>1 DEF ReadyOnce, MMTold, ServersSane
<1> QED
  BY <1>2, <1>3, <1>4

LEMMA ForkInv ==
    ASSUME Inv, NEW c \in Slots, DoFork(c)
    PROVE  Inv'
<1> DEFINE p == mm.caller
<1> USE DEF Inv
<1>1. /\ p \in inUse /\ inUse \subseteq Slots /\ c \notin inUse
      /\ "RECEIVING" \in flags[p] /\ "SENDING" \notin flags[p]
      /\ at["MM"] = "work" /\ mm.child = Nobody
      /\ inUse' = inUse \cup {c}
      /\ flags' = [flags EXCEPT ![c] = ChildFlags(p)]
      /\ pending' = [pending EXCEPT ![c] = {}]
      /\ pendcount' = [pendcount EXCEPT ![c] = 0]
      /\ peer' = [peer EXCEPT ![c] = peer[p]]
      /\ mm' = [mm EXCEPT !.child = c]
      /\ UNCHANGED <<sigProcs, queued, callerq, at>>
  BY DEF DoFork, MMWorks, Handles, WaitsFor, SetFlags, TypeOK
<1>2. mm.left = {}
  BY <1>1 DEF ServersSane, Nobody, Slots
<1>3. /\ mm' \in [caller : Slots \cup {Nobody}, child : Slots \cup {Nobody},
                  sig : Slots \cup {Nobody}, left : SUBSET Signals]
      /\ mm'.left = mm.left /\ mm'.sig = mm.sig /\ mm'.child = c
  BY <1>1 DEF TypeOK
<1> HIDE DEF p
<1>4. Books(flags', pending', sigProcs, pendcount', inUse \cup {c}, mm.sig, mm.left)
  BY <1>1, <1>2, BooksForked
<1>5. BooksExact'
  BY <1>1, <1>3, <1>4 DEF BooksExact
<1>6. /\ flags' \in [Slots -> SUBSET Flag]
      /\ \A q \in Slots : flags'[q] = IF q = c THEN ChildFlags(p) ELSE flags[q]
  BY <1>1, <1>4, SMTT(60) DEF Books, TypeOK
<1>7. "RECEIVING" \in ChildFlags(p)
  BY <1>1 DEF ChildFlags
<1>8. ReadyOnce'
  BY <1>1, <1>6, <1>7 DEF ReadyOnce
<1>9. MMTold' /\ ServersSane'
  BY <1>1, <1>2, <1>3, <1>6, <1>7 DEF MMTold, ServersSane
<1>10. TypeOK'
  <2>1. pending' \in [Slots -> SUBSET Signals] /\ pendcount' \in [Slots -> Nat]
    BY <1>4 DEF Books
  <2>2. peer' \in [Slots -> Servers] /\ inUse' \subseteq Slots
    BY <1>1 DEF TypeOK
  <2> QED
    BY <1>1, <1>3, <1>6, <2>1, <2>2 DEF TypeOK
<1> QED
  BY <1>5, <1>8, <1>9, <1>10

LEMMA NewmapInv ==
    ASSUME Inv, NEW p \in Slots, DoNewmap(p)
    PROVE  Inv'
<1> DEFINE g == flags[p] \ {"NO_MAP"}
<1> USE DEF Inv
<1>1. /\ at["MM"] = "work"
      /\ flags' = [flags EXCEPT ![p] = g]
      /\ ReadyIf(flags[p] # {} /\ g = {}, p)
      /\ mm' = [mm EXCEPT !.child = Nobody]
      /\ UNCHANGED <<inUse, peer, callerq, at, signalVars>>
      /\ p \in inUse
  BY DEF DoNewmap, SetFlags, WaitsFor, ServersSane
<1>2. flags[p] \in SUBSET Flag
  BY DEF TypeOK
<1>3. /\ g \in SUBSET Flag
      /\ "SENDING" \in g => "RECEIVING" \in g
      /\ "PENDING" \in g <=> "PENDING" \in flags[p]
      /\ "SIG_PENDING" \in g <=> "SIG_PENDING" \in flags[p]
      /\ flags[p] = {} => g = {}
  BY <1>1, <1>2 DEF ServersSane
<1> HIDE DEF g
<1>4. /\ queued' \in [Slots -> Nat]
      /\ \A q \in Slots : queued'[q] = IF q = p THEN (IF g = {} THEN 1 ELSE 0)
                                                ELSE queued[q]
  <2>1. IF flags[p] = {} THEN g = {} /\ UNCHANGED queued ELSE ReadyIf(g = {}, p)
    BY <1>1, <1>3 DEF ReadyIf
  <2> QED
    BY <1>1, <2>1, ReadyIfExact
<1>5. /\ mm' \in [caller : Slots \cup {Nobody}, child : Slots \cup {Nobody},
                  sig : Slots \cup {Nobody}, left : SUBSET Signals]
      /\ mm'.sig = mm.sig /\ mm'.left = mm.left /\ mm'.child = Nobody
      /\ mm'.caller = mm.caller
  BY <1>1 DEF TypeOK, Nobody
<1>6. /\ BooksExact' /\ ReadyOnce' /\ MMTold' /\ flags' \in [Slots -> SUBSET Flag]
      /\ \A q \in Slots : "SENDING" \in flags'[q] => "RECEIVING" \in flags'[q]
  BY <1>1, <1>3, <1>4, <1>5, FlagStep
<1>7. TypeOK'
  BY <1>1, <1>4, <1>5, <1>6 DEF TypeOK, signalVars
<1>8. ServersSane'
  BY <1>1, <1>5, <1>6 DEF ServersSane
<1> QED
  BY <1>6, <1>7, <1>8

LEMMA TraceInv ==
    ASSUME Inv, NEW p \in Slots, DoStop(p) \/ DoResume(p)
    PROVE  Inv'
<1> DEFINE g == IF DoStop(p) THEN flags[p] \cup {"P_STOP"} ELSE flags[p] \ {"P_STOP"}
<1> USE DEF Inv
<1>1. /\ p \in inUse /\ flags[p] \in SUBSET Flag
      /\ flags' = [flags EXCEPT ![p] = g]
      /\ UNCHANGED <<inUse, peer, callerq, at, mm, signalVars>>
  BY DEF DoStop, DoResume, SetFlags, TypeOK
<1>2. /\ g \in SUBSET Flag
      /\ "SENDING" \in g => "RECEIVING" \in g
      /\ "PENDING" \in g <=> "PENDING" \in flags[p]
      /\ "SIG_PENDING" \in g <=> "SIG_PENDING" \in flags[p]
  BY <1>1 DEF ServersSane, Flag
<1>3. /\ queued' \in [Slots -> Nat]
      /\ \A q \in Slots : queued'[q] = IF q = p THEN (IF g = {} THEN 1 ELSE 0)
                                                ELSE queued[q]
  <2>1. CASE DoStop(p)
    <3>1. g # {} /\ IF flags[p] = {} THEN Unready(p) ELSE UNCHANGED queued
      BY <2>1 DEF DoStop
    <3> HIDE DEF g
    <3> QED
      BY <1>1, <3>1, UnreadyExact
  <2>2. CASE ~DoStop(p)
    <3>1. flags[p] # {} /\ ReadyIf(g = {}, p)
      BY <2>2 DEF DoResume
    <3> HIDE DEF g
    <3> QED
      BY <1>1, <3>1, ReadyIfExact
  <2> QED
    BY <2>1, <2>2
<1> HIDE DEF g
<1>4. /\ BooksExact' /\ ReadyOnce' /\ MMTold' /\ flags' \in [Slots -> SUBSET Flag]
      /\ \A q \in Slots : "SENDING" \in flags'[q] => "RECEIVING" \in flags'[q]
  BY <1>1, <1>2, <1>3, FlagStep
<1>5. TypeOK'
  BY <1>1, <1>3, <1>4 DEF TypeOK, signalVars
<1>6. ServersSane'
  BY <1>1, <1>4 DEF ServersSane
<1> QED
  BY <1>4, <1>5, <1>6

LEMMA ExecInv ==
    ASSUME Inv, NEW p \in Slots, NEW traced \in BOOLEAN, DoExec(p, traced)
    PROVE  Inv'
<1> DEFINE h == IF traced THEN Marked(p, SIGTRAP) ELSE flags[p]
           g == h \ {"RECEIVING"}
           f == [flags EXCEPT ![p] = h]
<1> USE DEF Inv
<1>1. /\ p \in inUse /\ inUse \subseteq Slots /\ flags \in [Slots -> SUBSET Flag]
      /\ "RECEIVING" \in flags[p] /\ "SENDING" \notin flags[p]
      /\ at["MM"] = "work" /\ mm.child = Nobody
      /\ flags' = [flags EXCEPT ![p] = g]
      /\ ReadyIf(g = {}, p)
      /\ mm' = [mm EXCEPT !.caller = Nobody]
      /\ UNCHANGED <<inUse, peer, callerq, at>>
  BY DEF DoExec, MMWorks, Handles, WaitsFor, SetFlags, TypeOK
<1>2. /\ Books(f, pending', sigProcs', pendcount', inUse, mm.sig, mm.left)
      /\ sigProcs' \in Nat
  <2>1. CASE traced
    <3>1. /\ pending' = Raised(p, SIGTRAP) /\ pendcount' = Counted(p, SIGTRAP)
          /\ sigProcs' = SigProcs(p, SIGTRAP) /\ h = Marked(p, SIGTRAP)
      BY <2>1 DEF DoExec
    <3>2. SIGTRAP \in Signals
      BY SignalsAssumption
    <3>3. Books([flags EXCEPT ![p] = Marked(p, SIGTRAP)], Raised(p, SIGTRAP),
                SigProcs(p, SIGTRAP), Counted(p, SIGTRAP), inUse, mm.sig, mm.left)
      BY <1>1, <3>2, BooksRaised
    <3>4. SigProcs(p, SIGTRAP) \in Nat
      BY DEF SigProcs, TypeOK
    <3> HIDE DEF h
    <3> QED
      BY <3>1, <3>3, <3>4
  <2>2. CASE ~traced
    <3>1. UNCHANGED signalVars /\ h = flags[p]
      BY <2>2 DEF DoExec
    <3>2. f = flags
      BY <1>1, <3>1
    <3> QED
      BY <3>1, <3>2 DEF BooksExact, signalVars, TypeOK
  <2> QED
    BY <2>1, <2>2
<1>3. /\ "RECEIVING" \in h /\ "SENDING" \notin h /\ h \in SUBSET Flag
      /\ "PENDING" \in g <=> "PENDING" \in h
      /\ "SIG_PENDING" \in g <=> "SIG_PENDING" \in h
      /\ "SENDING" \notin g /\ g \in SUBSET Flag
  BY <1>1 DEF Marked, Flag
<1> HIDE DEF h
<1>4. f[p] = h
  BY <1>1
<1>5. flags' = [f EXCEPT ![p] = g]
  BY <1>1
<1> HIDE DEF g, f
<1>6. Books(flags', pending', sigProcs', pendcount', inUse, mm.sig, mm.left)
  <2>1. /\ "PENDING" \in g <=> "PENDING" \in f[p]
        /\ "SIG_PENDING" \in g <=> "SIG_PENDING" \in f[p]
    BY <1>3, <1>4
  <2>2. Books([f EXCEPT ![p] = g], pending', sigProcs', pendcount', inUse, mm.sig, mm.left)
    BY <1>1, <1>2, <1>3, <2>1, BooksFlags
  <2> QED
    BY <1>5, <2>2
<1>7. /\ mm' \in [caller : Slots \cup {Nobody}, child : Slots \cup {Nobody},
                  sig : Slots \cup {Nobody}, left : SUBSET Signals]
      /\ mm'.sig = mm.sig /\ mm'.left = mm.left /\ mm'.child = Nobody
      /\ mm'.caller = Nobody
  BY <1>1 DEF TypeOK, Nobody
<1>8. BooksExact'
  BY <1>1, <1>6, <1>7 DEF BooksExact
<1>9. /\ queued' \in [Slots -> Nat]
      /\ \A q \in Slots : queued'[q] = IF q = p THEN (IF g = {} THEN 1 ELSE 0)
                                                ELSE queued[q]
  BY <1>1, ReadyIfExact, SMTT(60)
<1>10. \A q \in Slots : flags'[q] = IF q = p THEN g ELSE flags[q]
  BY <1>1
<1>11. ReadyOnce'
  BY <1>1, <1>9, <1>10 DEF ReadyOnce
<1>12. MMTold' /\ ServersSane'
  BY <1>1, <1>3, <1>7, <1>10 DEF MMTold, ServersSane
<1>13. TypeOK'
  <2>1. /\ flags' \in [Slots -> SUBSET Flag] /\ pending' \in [Slots -> SUBSET Signals]
        /\ pendcount' \in [Slots -> Nat]
    BY <1>6 DEF Books
  <2> QED
    BY <1>1, <1>2, <1>7, <1>9, <2>1 DEF TypeOK
<1> QED
  BY <1>8, <1>11, <1>12, <1>13

LEMMA ExitInv ==
    ASSUME Inv, NEW p \in Slots, DoXit(p)
    PROVE  Inv'
<1> USE DEF Inv
<1>1. /\ p \in inUse /\ inUse \subseteq Slots /\ flags \in [Slots -> SUBSET Flag]
      /\ at["MM"] = "work" /\ mm.child = Nobody
      /\ IF flags[p] = {} THEN Unready(p) ELSE UNCHANGED queued
      /\ sigProcs' = SigProcsLess(p)
      /\ pending' = [pending EXCEPT ![p] = {}]
      /\ pendcount' = [pendcount EXCEPT ![p] = 0]
      /\ flags' = [flags EXCEPT ![p] = {}]
      /\ inUse' = inUse \ {p}
      /\ mm' = mm \/ mm' = [mm EXCEPT !.caller = Nobody]
      /\ UNCHANGED <<peer, at>>
  BY DEF DoXit, MMWorks, SetFlags, TypeOK
<1>2. /\ Books(flags', pending', sigProcs', pendcount', inUse', mm.sig, mm.left)
      /\ sigProcs' \in Nat
  BY <1>1, BooksExited
<1>3. /\ mm' \in [caller : Slots \cup {Nobody}, child : Slots \cup {Nobody},
                  sig : Slots \cup {Nobody}, left : SUBSET Signals]
      /\ mm'.sig = mm.sig /\ mm'.left = mm.left /\ mm'.child = Nobody
      /\ mm'.caller = mm.caller \/ mm'.caller = Nobody
  BY <1>1 DEF TypeOK, Nobody
<1>4. BooksExact'
  BY <1>2, <1>3 DEF BooksExact
<1>5. /\ queued' \in [Slots -> Nat]
      /\ \A q \in Slots : queued'[q] = IF q = p THEN 0 ELSE queued[q]
  BY <1>1, UnreadyExact
<1>6. \A q \in Slots : flags'[q] = IF q = p THEN {} ELSE flags[q]
  BY <1>1
<1>7. ReadyOnce'
  BY <1>1, <1>5, <1>6 DEF ReadyOnce
<1>8. MMTold' /\ ServersSane'
  BY <1>1, <1>3, <1>6 DEF MMTold, ServersSane
<1>9. callerq' \in [Servers -> Seq(Slots)]
  <2>1. callerq \in [Servers -> Seq(Slots)]
    BY DEF TypeOK
  <2>2. \A s \in Servers : Unlinked(callerq[s], p) \in Seq(Slots)
    BY <2>1, UnlinkedType
  <2>3. callerq' = callerq \/ callerq' = [s \in Servers |-> Unlinked(callerq[s], p)]
    BY DEF DoXit
  <2> QED
    BY <2>1, <2>2, <2>3
<1>10. TypeOK'
  <2>1. /\ flags' \in [Slots -> SUBSET Flag] /\ pending' \in [Slots -> SUBSET Signals]
        /\ pendcount' \in [Slots -> Nat]
    BY <1>2 DEF Books
  <2> QED
    BY <1>1, <1>2, <1>3, <1>5, <1>9, <2>1 DEF TypeOK
<1> QED
  BY <1>4, <1>7, <1>8, <1>10

LEMMA EndsigInv ==
    ASSUME Inv, NEW sig \in Signals, DoEndsig(sig)
    PROVE  Inv'
<1> DEFINE p == mm.sig
           last == pendcount[p] # 0 /\ pendcount[p] - 1 = 0
           g == Released(p, last)
<1> USE DEF Inv
<1>1. /\ at["MM"] = "work" /\ mm.child = Nobody /\ sig \in mm.left
      /\ inUse \subseteq Slots /\ flags \in [Slots -> SUBSET Flag]
      /\ mm' = [mm EXCEPT !.left = @ \ {sig}]
      /\ UNCHANGED <<inUse, peer, callerq, at, pending, sigProcs>>
  BY DEF DoEndsig, MMWorks, TypeOK
<1>2. /\ mm' \in [caller : Slots \cup {Nobody}, child : Slots \cup {Nobody},
                  sig : Slots \cup {Nobody}, left : SUBSET Signals]
      /\ mm'.sig = p /\ mm'.left = mm.left \ {sig} /\ mm'.child = Nobody
      /\ mm'.caller = mm.caller
  BY <1>1 DEF TypeOK
<1>3. p \in Slots /\ mm.caller = Nobody
  BY <1>1 DEF ServersSane
<1>4. CASE p \in inUse
  <2>1. /\ pendcount' = [pendcount EXCEPT ![p] = IF @ # 0 THEN @ - 1 ELSE 0]
        /\ flags' = [flags EXCEPT ![p] = g]
        /\ ReadyIf(last /\ g = {}, p)
    BY <1>4 DEF DoEndsig, SetFlags
  <2>2. /\ Books(flags', pending, sigProcs, pendcount', inUse, p, mm.left \ {sig})
        /\ pendcount[p] > 0
    BY <1>1, <1>4, <2>1, BooksEnded
  <2>3. "SIG_PENDING" \in flags[p]
    BY <1>3, <2>2 DEF BooksExact, Books
  <2>4. g \subseteq flags[p] /\ (g = {} => last)
        /\ ("SENDING" \in g <=> "SENDING" \in flags[p])
        /\ ("RECEIVING" \in g <=> "RECEIVING" \in flags[p])
    <3> HIDE DEF last
    <3> QED
      BY <2>3 DEF Released
  <2> HIDE DEF p, last, g
  <2>5. /\ queued' \in [Slots -> Nat]
        /\ \A q \in Slots : queued'[q] = IF q = p THEN (IF g = {} THEN 1 ELSE 0)
                                                  ELSE queued[q]
    <3>1. flags[p] # {} /\ ReadyIf(g = {}, p)
      BY <2>1, <2>3, <2>4 DEF ReadyIf
    <3> QED
      BY <1>4, <3>1, ReadyIfExact
  <2>6. \A q \in Slots : flags'[q] = IF q = p THEN g ELSE flags[q]
    BY <1>1, <1>3, <2>1
  <2>7. BooksExact'
    BY <1>1, <1>2, <2>2 DEF BooksExact
  <2>8. ReadyOnce'
    BY <1>1, <1>4, <2>5, <2>6 DEF ReadyOnce
  <2>9. MMTold' /\ ServersSane'
    BY <1>1, <1>2, <1>3, <2>4, <2>6 DEF MMTold, ServersSane
  <2>10. TypeOK'
    <3>1. flags' \in [Slots -> SUBSET Flag] /\ pendcount' \in [Slots -> Nat]
      BY <2>2 DEF Books
    <3> QED
      BY <1>1, <1>2, <2>5, <3>1 DEF TypeOK
  <2> QED
    BY <2>7, <2>8, <2>9, <2>10
<1>5. CASE p \notin inUse
  <2>1. UNCHANGED <<pendcount, flags, queued>>
    BY <1>5 DEF DoEndsig
  <2>2. Books(flags, pending, sigProcs, pendcount, inUse, p, mm.left)
    BY DEF BooksExact
  <2>3. mm.left \ {sig} \in SUBSET mm.left
    OBVIOUS
  <2> HIDE DEF p
  <2>4. Books(flags, pending, sigProcs, pendcount, inUse, p, mm.left \ {sig})
    BY <1>5, <2>2, <2>3, BooksGone
  <2>5. BooksExact'
    BY <1>1, <1>2, <2>1, <2>4 DEF BooksExact
  <2>6. ReadyOnce' /\ MMTold' /\ ServersSane'
    BY <1>1, <1>2, <1>3, <2>1 DEF ReadyOnce, MMTold, ServersSane
  <2>7. TypeOK'
    BY <1>1, <1>2, <2>1 DEF TypeOK
  <2> QED
    BY <2>5, <2>6, <2>7
<1> QED
  BY <1>4, <1>5

LEMMA NextInv == Inv /\ [Next]_vars => Inv'
<1> SUFFICES ASSUME Inv, [Next]_vars PROVE Inv'
  OBVIOUS
<1>1. CASE Calls
  BY <1>1, CallInv DEF Calls
<1>2. CASE Signalled
  BY <1>2, SignalInv DEF Signalled, TaskSignal, DoKill
<1>3. CASE Replies
  BY <1>3, ReplyInv DEF Replies
<1>4. CASE Receives
  BY <1>4, ReceiveInv DEF Receives
<1>5. CASE MMWaits \/ MMResumes
  BY <1>5, WaitInv
<1>6. CASE Forks
  BY <1>6, ForkInv DEF Forks
<1>7. CASE Newmaps
  BY <1>7, NewmapInv DEF Newmaps
<1>8. CASE Execs
  BY <1>8, ExecInv DEF Execs
<1>9. CASE Exits
  BY <1>9, ExitInv DEF Exits
<1>10. CASE Traces
  BY <1>10, TraceInv DEF Traces
<1>11. CASE Endsigs
  BY <1>11, EndsigInv DEF Endsigs
<1>12. CASE UNCHANGED vars
  BY <1>12 DEF vars, signalVars, serverVars, Inv, TypeOK, BooksExact, ReadyOnce, MMTold,
               ServersSane
<1> QED
  BY <1>1, <1>2, <1>3, <1>4, <1>5, <1>6, <1>7, <1>8, <1>9, <1>10, <1>11, <1>12 DEF Next

LEMMA Invariant == Spec => []Inv
BY InitInv, NextInv, PTL DEF Spec

-----------------------------------------------------------------------------
(* The queues of callers.                                                  *)

Once(q) == \A i, j \in 1..Len(q) : q[i] = q[j] => i = j
Members(q) == {q[i] : i \in 1..Len(q)}
Sending(s) == {p \in inUse : "SENDING" \in flags[p] /\ peer[p] = s}

LEMMA AppendCallers ==
    ASSUME NEW q \in Seq(Slots), NEW p \in Slots \ Members(q), Once(q)
    PROVE  Once(Append(q, p)) /\ Members(Append(q, p)) = Members(q) \cup {p}
<1> DEFINE r == Append(q, p)
<1>1. /\ Len(r) = Len(q) + 1 /\ Len(q) \in Nat
      /\ \A i \in 1..Len(q) : r[i] = q[i]
      /\ r[Len(q) + 1] = p
  OBVIOUS
<1> HIDE DEF r
<1>2. \A i \in 1..Len(q) : q[i] # p
  BY DEF Members
<1>3. Once(r)
  BY <1>1, <1>2 DEF Once
<1>4. Members(r) = Members(q) \cup {p}
  <2>1. ASSUME NEW x \in Members(r) PROVE x \in Members(q) \cup {p}
    BY <1>1, <2>1 DEF Members
  <2>2. ASSUME NEW x \in Members(q) PROVE x \in Members(r)
    BY <1>1, <2>2 DEF Members
  <2>3. p \in Members(r)
    BY <1>1 DEF Members
  <2> QED
    BY <2>1, <2>2, <2>3
<1> QED
  BY <1>3, <1>4 DEF r

LEMMA TailCallers ==
    ASSUME NEW q \in Seq(Slots), q # <<>>, Once(q)
    PROVE  Once(Tail(q)) /\ Members(Tail(q)) = Members(q) \ {Head(q)}
<1> DEFINE r == Tail(q)
<1>1. /\ Len(r) = Len(q) - 1 /\ Len(q) \in Nat \ {0}
      /\ \A i \in 1..Len(q) - 1 : r[i] = q[i + 1]
      /\ Head(q) = q[1]
  OBVIOUS
<1> HIDE DEF r
<1>2. Once(r)
  BY <1>1 DEF Once
<1>3. Members(r) = Members(q) \ {q[1]}
  <2>1. ASSUME NEW i \in 1..Len(r) PROVE r[i] \in Members(q) \ {q[1]}
    <3>1. r[i] = q[i + 1] /\ i + 1 \in 1..Len(q) /\ i + 1 # 1 /\ 1 \in 1..Len(q)
      BY <1>1
    <3> QED
      BY <3>1 DEF Members, Once
  <2>2. ASSUME NEW i \in 1..Len(q), q[i] # q[1] PROVE q[i] \in Members(r)
    <3>1. i - 1 \in 1..Len(r) /\ r[i - 1] = q[i]
      BY <1>1, <2>2
    <3> QED
      BY <3>1 DEF Members
  <2> QED
    BY <2>1, <2>2 DEF Members
<1> QED
  BY <1>1, <1>2, <1>3 DEF r

LEMMA UnlinkedCallers ==
    ASSUME NEW q \in Seq(Slots), Once(q), NEW p
    PROVE  Once(Unlinked(q, p)) /\ Members(Unlinked(q, p)) = Members(q) \ {p}
<1>1. CASE \E i \in 1..Len(q) : q[i] = p
  <2> DEFINE i == CHOOSE i \in 1..Len(q) : q[i] = p
             r == [j \in 1..Len(q) - 1 |-> IF j < i THEN q[j] ELSE q[j + 1]]
  <2>1. i \in 1..Len(q) /\ q[i] = p /\ Len(q) \in Nat
    BY <1>1
  <2> HIDE DEF i
  <2>2. Len(r) = Len(q) - 1
    <3>1. r \in [1..Len(q) - 1 -> Slots] /\ Len(q) - 1 \in Nat
      BY <2>1
    <3> HIDE DEF r
    <3> QED
      BY <3>1
  <2>3. \A j \in 1..Len(r) : r[j] = IF j < i THEN q[j] ELSE q[j + 1]
    BY <2>2
  <2> HIDE DEF r
  <2>4. Once(r)
    BY <2>1, <2>2, <2>3, SMTT(60) DEF Once
  <2>5. ASSUME NEW j \in 1..Len(r) PROVE r[j] \in Members(q) \ {p}
    <3>1. CASE j < i
      BY <2>1, <2>2, <2>3, <3>1 DEF Members, Once
    <3>2. CASE ~(j < i)
      <4>1. r[j] = q[j + 1] /\ j + 1 \in 1..Len(q) /\ j + 1 # i
        BY <2>1, <2>2, <2>3, <3>2
      <4> QED
        BY <2>1, <4>1 DEF Members, Once
    <3> QED
      BY <3>1, <3>2
  <2>6. ASSUME NEW j \in 1..Len(q), q[j] # p PROVE q[j] \in Members(r)
    <3>1. CASE j < i
      <4>1. j \in 1..Len(r) /\ r[j] = q[j]
        BY <2>1, <2>2, <2>3, <3>1
      <4> QED
        BY <4>1 DEF Members
    <3>2. CASE ~(j < i)
      <4>1. j - 1 \in 1..Len(r) /\ r[j - 1] = q[j]
        BY <2>1, <2>2, <2>3, <2>6, <3>2
      <4> QED
        BY <4>1 DEF Members
    <3> QED
      BY <3>1, <3>2
  <2>7. Members(r) = Members(q) \ {p}
    BY <2>5, <2>6 DEF Members
  <2>8. Unlinked(q, p) = r
    BY <1>1 DEF Unlinked, r, i
  <2> QED
    BY <2>4, <2>7, <2>8
<1>2. CASE ~\E i \in 1..Len(q) : q[i] = p
  <2>1. Unlinked(q, p) = q /\ p \notin Members(q)
    BY <1>2 DEF Unlinked, Members
  <2> QED
    BY <2>1
<1> QED
  BY <1>1, <1>2

\* The queues stay exact when nobody begins or ends to wait to send.
LEMMA CallersKept ==
    ASSUME CallersExact, inUse \subseteq Slots, inUse' \subseteq Slots, UNCHANGED callerq,
           \A p \in Slots : (p \in inUse' /\ "SENDING" \in flags'[p])
                            <=> (p \in inUse /\ "SENDING" \in flags[p]),
           \A p \in Slots : p \in inUse /\ "SENDING" \in flags[p] => peer'[p] = peer[p]
    PROVE  CallersExact'
<1>1. \A s \in Servers : Sending(s)' = Sending(s)
  BY DEF Sending
<1> QED
  BY <1>1 DEF CallersExact, Sending

LEMMA CallersNext == Inv /\ CallersExact /\ [Next]_vars => CallersExact'
<1> SUFFICES ASSUME Inv, CallersExact, [Next]_vars PROVE CallersExact'
  OBVIOUS
<1>0. /\ inUse \subseteq Slots /\ flags \in [Slots -> SUBSET Flag]
      /\ callerq \in [Servers -> Seq(Slots)] /\ peer \in [Slots -> Servers]
      /\ inUse' \subseteq Slots
  BY NextInv DEF Inv, TypeOK
<1>i. \A s \in Servers : Once(callerq[s]) /\ Members(callerq[s]) = Sending(s)
  BY DEF CallersExact, Once, Members, Sending
<1>q. (\A s \in Servers : Once(callerq'[s]) /\ Members(callerq'[s]) = Sending(s)')
      => CallersExact'
  BY DEF CallersExact, Once, Members, Sending
<1>1. ASSUME NEW p \in Slots, NEW s \in Servers, CallFree(p, s) PROVE CallersExact'
  <2>1. /\ flags[p] = {} /\ flags' = [flags EXCEPT ![p] = {"RECEIVING"}]
        /\ peer' = [peer EXCEPT ![p] = s] /\ UNCHANGED <<inUse, callerq>>
    BY <1>1 DEF CallFree, SetFlags
  <2>2. \A q \in Slots : "SENDING" \in flags'[q] <=> "SENDING" \in flags[q]
    BY <1>0, <2>1
  <2>3. \A q \in Slots : "SENDING" \in flags[q] => peer'[q] = peer[q]
    BY <1>0, <2>1
  <2> QED
    BY <1>0, <2>1, <2>2, <2>3, CallersKept
<1>2. ASSUME NEW p \in Slots, NEW s \in Servers, CallBusy(p, s) PROVE CallersExact'
  <2>1. /\ p \in inUse /\ flags[p] = {}
        /\ flags' = [flags EXCEPT ![p] = {"SENDING", "RECEIVING"}]
        /\ peer' = [peer EXCEPT ![p] = s] /\ UNCHANGED inUse
        /\ callerq' = [callerq EXCEPT ![s] = Append(@, p)]
    BY <1>2 DEF CallBusy, SetFlags
  <2>2. \A t \in Servers : p \notin Sending(t)
    BY <2>1 DEF Sending
  <2>3. Once(Append(callerq[s], p)) /\ Members(Append(callerq[s], p)) = Sending(s) \cup {p}
    BY <1>0, <1>i, <2>2, AppendCallers
  <2>4. \A t \in Servers : Sending(t)' = IF t = s THEN Sending(s) \cup {p} ELSE Sending(t)
    <3>1. \A q \in Slots : ("SENDING" \in flags'[q] <=> q = p \/ "SENDING" \in flags[q])
                           /\ peer'[q] = IF q = p THEN s ELSE peer[q]
      BY <1>0, <2>1
    <3> QED
      BY <1>0, <2>1, <2>2, <3>1 DEF Sending
  <2>5. \A t \in Servers : callerq'[t] = IF t = s THEN Append(callerq[s], p) ELSE callerq[t]
    BY <1>0, <2>1
  <2> QED
    BY <1>i, <1>q, <2>3, <2>4, <2>5
<1>3. ASSUME NEW f, NEW pend, NEW n, f \in [Slots -> SUBSET Flag], Inform(f, pend, n)
      PROVE  \A q \in Slots : "SENDING" \in flags'[q] <=> "SENDING" \in f[q]
  BY <1>3 DEF Inform
<1>4. ASSUME NEW p \in Slots, NEW sig \in Signals, CauseSig(p, sig) PROVE CallersExact'
  <2> DEFINE f == [flags EXCEPT ![p] = Marked(p, sig)]
  <2>1. /\ f \in [Slots -> SUBSET Flag]
        /\ \A q \in Slots : "SENDING" \in f[q] <=> "SENDING" \in flags[q]
    <3>1. Marked(p, sig) \in SUBSET Flag /\ ("SENDING" \in Marked(p, sig) <=> "SENDING" \in flags[p])
      BY <1>0 DEF Marked, Flag
    <3> QED
      BY <1>0, <3>1
  <2>2. flags' = f \/ Inform(f, Raised(p, sig), SigProcs(p, sig))
    BY <1>4 DEF CauseSig, SetFlags
  <2> HIDE DEF f
  <2>3. \A q \in Slots : "SENDING" \in flags'[q] <=> "SENDING" \in flags[q]
    BY <1>3, <2>1, <2>2
  <2>4. UNCHANGED <<inUse, peer, callerq>>
    BY <1>4 DEF CauseSig
  <2> QED
    BY <1>0, <2>3, <2>4, CallersKept
<1>5. ASSUME NEW s \in Servers, Receive(s) PROVE CallersExact'
  <2>0. UNCHANGED <<inUse, queued, peer>>
    BY <1>5 DEF Receive
  <2>1. CASE callerq[s] # <<>>
    <3> DEFINE p == Head(callerq[s])
    <3>1. /\ flags' = [flags EXCEPT ![p] = @ \ {"SENDING"}]
          /\ callerq' = [callerq EXCEPT ![s] = Tail(@)]
      BY <1>5, <2>1 DEF Receive, SetFlags
    <3>2. callerq[s] \in Seq(Slots) /\ p = callerq[s][1] /\ 1 \in 1..Len(callerq[s])
      BY <1>0, <2>1
    <3>3. p \in Sending(s)
      BY <1>i, <3>2 DEF Members
    <3>4. Once(Tail(callerq[s])) /\ Members(Tail(callerq[s])) = Sending(s) \ {p}
      BY <1>i, <2>1, <3>2, TailCallers
    <3> HIDE DEF p
    <3>5. \A t \in Servers : Sending(t)' = IF t = s THEN Sending(s) \ {p} ELSE Sending(t)
      <4>1. \A q \in Slots : "SENDING" \in flags'[q] <=> q # p /\ "SENDING" \in flags[q]
        BY <1>0, <3>1
      <4> QED
        BY <1>0, <2>0, <3>3, <4>1 DEF Sending
    <3>6. \A t \in Servers : callerq'[t] = IF t = s THEN Tail(callerq[s]) ELSE callerq[t]
      BY <1>0, <3>1
    <3> QED
      BY <1>i, <1>q, <3>4, <3>5, <3>6
  <2>2. CASE callerq[s] = <<>>
    <3>1. UNCHANGED callerq /\ (flags' = flags \/ Inform(flags, pending, sigProcs))
      BY <1>5, <2>2 DEF Receive
    <3>2. \A q \in Slots : "SENDING" \in flags'[q] <=> "SENDING" \in flags[q]
      BY <1>0, <1>3, <3>1
    <3> QED
      BY <1>0, <2>0, <3>1, <3>2, CallersKept
  <2> QED
    BY <2>1, <2>2
<1>6. ASSUME NEW p \in Slots, DoXit(p) PROVE CallersExact'
  <2>1. /\ flags' = [flags EXCEPT ![p] = {}] /\ inUse' = inUse \ {p} /\ UNCHANGED peer
        /\ p \in inUse
        /\ callerq' = IF "SENDING" \in flags[p]
                      THEN [s \in Servers |-> Unlinked(callerq[s], p)]
                      ELSE callerq
    BY <1>6 DEF DoXit, SetFlags
  <2>2. \A s \in Servers : Sending(s)' = Sending(s) \ {p}
    BY <1>0, <2>1 DEF Sending
  <2>3. CASE "SENDING" \in flags[p]
    <3>1. \A s \in Servers : /\ Once(Unlinked(callerq[s], p))
                             /\ Members(Unlinked(callerq[s], p)) = Sending(s) \ {p}
      BY <1>0, <1>i, UnlinkedCallers
    <3> QED
      BY <1>q, <2>1, <2>2, <2>3, <3>1
  <2>4. CASE "SENDING" \notin flags[p]
    <3>1. \A s \in Servers : Sending(s)' = Sending(s) /\ callerq'[s] = callerq[s]
      BY <2>1, <2>2, <2>4 DEF Sending
    <3> QED
      BY <1>i, <1>q, <3>1
  <2> QED
    BY <2>3, <2>4
<1>7. ASSUME NEW c \in Slots, DoFork(c) PROVE CallersExact'
  <2>1. /\ "SENDING" \notin flags[mm.caller] /\ c \notin inUse
        /\ inUse' = inUse \cup {c} /\ UNCHANGED callerq
        /\ flags' = [flags EXCEPT ![c] = ChildFlags(mm.caller)]
        /\ peer' = [peer EXCEPT ![c] = peer[mm.caller]]
    BY <1>7 DEF DoFork, Handles, WaitsFor, SetFlags
  <2>2. "SENDING" \notin ChildFlags(mm.caller)
    BY <2>1 DEF ChildFlags
  <2>3. \A q \in Slots : (q \in inUse' /\ "SENDING" \in flags'[q])
                         <=> (q \in inUse /\ "SENDING" \in flags[q])
    BY <1>0, <2>1, <2>2
  <2>4. \A q \in Slots : q \in inUse /\ "SENDING" \in flags[q] => peer'[q] = peer[q]
    BY <1>0, <2>1
  <2> QED
    BY <1>0, <2>1, <2>3, <2>4, CallersKept
<1>8. ASSUME NEW p \in Slots, NEW g, flags' = [flags EXCEPT ![p] = g],
             "SENDING" \in g <=> "SENDING" \in flags[p],
             UNCHANGED <<inUse, peer, callerq>>
      PROVE  CallersExact'
  <2>1. \A q \in Slots : "SENDING" \in flags'[q] <=> "SENDING" \in flags[q]
    BY <1>0, <1>8
  <2> QED
    BY <1>0, <1>8, <2>1, CallersKept
<1>9. ASSUME NEW p \in Slots, NEW s \in Servers, Reply(p, s) PROVE CallersExact'
  BY <1>8, <1>9 DEF Reply, SetFlags
<1>10. ASSUME NEW p \in Slots, DoNewmap(p) PROVE CallersExact'
  BY <1>8, <1>10 DEF DoNewmap, SetFlags
<1>11. ASSUME NEW p \in Slots, NEW traced \in BOOLEAN, DoExec(p, traced) PROVE CallersExact'
  <2>1. /\ flags' = [flags EXCEPT
               ![p] = (IF traced THEN Marked(p, SIGTRAP) ELSE flags[p]) \ {"RECEIVING"}]
        /\ UNCHANGED <<inUse, peer, callerq>>
    BY <1>11 DEF DoExec, SetFlags
  <2>2. "SENDING" \in (IF traced THEN Marked(p, SIGTRAP) ELSE flags[p]) \ {"RECEIVING"}
        <=> "SENDING" \in flags[p]
    BY DEF Marked
  <2> QED
    BY <1>8, <2>1, <2>2
<1>12. ASSUME NEW p \in Slots, DoStop(p) \/ DoResume(p) PROVE CallersExact'
  <2>1. CASE DoStop(p)
    BY <1>8, <2>1 DEF DoStop, SetFlags
  <2>2. CASE DoResume(p)
    BY <1>8, <2>2 DEF DoResume, SetFlags
  <2> QED
    BY <1>12, <2>1, <2>2
<1>13. ASSUME NEW sig \in Signals, DoEndsig(sig) PROVE CallersExact'
  <2>1. UNCHANGED <<inUse, peer, callerq>>
    BY <1>13 DEF DoEndsig
  <2>2. \/ flags' = flags
        \/ /\ mm.sig \in inUse
           /\ \E last \in BOOLEAN : flags' = [flags EXCEPT ![mm.sig] = Released(mm.sig, last)]
    BY <1>13 DEF DoEndsig, SetFlags
  <2>3. CASE flags' = flags
    BY <1>0, <2>1, <2>3, CallersKept
  <2>4. ASSUME NEW last \in BOOLEAN, mm.sig \in inUse,
               flags' = [flags EXCEPT ![mm.sig] = Released(mm.sig, last)]
        PROVE  CallersExact'
    <3>1. "SENDING" \in Released(mm.sig, last) <=> "SENDING" \in flags[mm.sig]
      BY DEF Released
    <3> QED
      BY <1>0, <1>8, <2>1, <2>4, <3>1
  <2> QED
    BY <2>2, <2>3, <2>4
<1>14. CASE MMWaits \/ MMResumes \/ UNCHANGED vars
  <2>1. UNCHANGED <<inUse, flags, peer, callerq>>
    BY <1>14 DEF MMWaits, MMResumes, vars, serverVars
  <2> QED
    BY <1>0, <2>1, CallersKept
<1>15. CASE Calls
  BY <1>1, <1>2, <1>15 DEF Calls
<1>16. CASE Signalled
  BY <1>4, <1>16 DEF Signalled, TaskSignal, DoKill
<1>17. CASE Replies \/ Receives
  BY <1>5, <1>9, <1>17 DEF Replies, Receives
<1>18. CASE Forks \/ Newmaps \/ Execs
  BY <1>7, <1>10, <1>11, <1>18 DEF Forks, Newmaps, Execs
<1>19. CASE Exits \/ Traces \/ Endsigs
  BY <1>6, <1>12, <1>13, <1>19 DEF Exits, Traces, Endsigs
<1> QED
  BY <1>14, <1>15, <1>16, <1>17, <1>18, <1>19 DEF Next

LEMMA CallersInit == Init => CallersExact
<1> SUFFICES ASSUME Init PROVE CallersExact
  OBVIOUS
<1>1. \A s \in Servers : callerq[s] = <<>>
  BY DEF Init
<1>2. \A p \in inUse : flags[p] = {}
  BY SlotsAssumption DEF Init, Slots, INIT_PROC_NR
<1> QED
  BY <1>1, <1>2 DEF CallersExact

-----------------------------------------------------------------------------
(* Results.                                                                *)

\* The variables keep their values whatever is called, raised and answered:
\* the counters of signals and of processes with signals never become negative.
THEOREM TypeCorrect == Spec => []TypeOK
<1>1. Inv => TypeOK
  BY DEF Inv
<1> QED
  BY <1>1, Invariant, PTL

\* A process is in a ready queue once when no flag holds it, and otherwise in
\* none, for any number of processes and any signals (proc.h:68).
THEOREM ReadiedOnce == Spec => []ReadyOnce
<1>1. Inv => ReadyOnce
  BY DEF Inv
<1> QED
  BY <1>1, Invariant, PTL

\* sig_procs, PENDING, p_pending and p_pendcount agree with each other and with
\* the signals MM has not finished (cause_sig, inform, do_endsig, do_xit).
THEOREM BooksAgree == Spec => []SignalsCounted
<1>1. Inv => SigProcsExact /\ PendingExact
  BY DEF Inv, BooksExact, Books, SigProcsExact, PendingExact
<1>2. Inv => CountExact
  BY DEF Inv, BooksExact, Books, CountExact, Unfinished
<1>3. Inv => SignalsCounted
  BY <1>1, <1>2 DEF SignalsCounted
<1> QED
  BY <1>3, Invariant, PTL

\* A process is held while MM has not seen or finished all signals for it, and
\* no longer (system.c:1038).
THEOREM Held == Spec => []HeldWhileSignalled
<1>1. Inv => HeldWhileSignalled
  BY DEF Inv, BooksExact, Books, HeldWhileSignalled
<1> QED
  BY <1>1, Invariant, PTL

\* MM never waits for a message while there is a signal to tell it of.
THEOREM Told == Spec => []MMTold
<1>1. Inv => MMTold
  BY DEF Inv
<1> QED
  BY <1>1, Invariant, PTL

\* A server's queue of callers holds each process that waits to send to it once
\* and nobody else, also when a process is killed that stands in the middle of
\* it (do_xit, system.c:402).
THEOREM CallersQueued == Spec => []CallersExact
BY InitInv, NextInv, CallersInit, CallersNext, PTL DEF Spec
=============================================================================
