------------------------ MODULE MonitorClientsProofs ------------------------
(***************************************************************************)
(* What src/t4/monitor.h guarantees to clients that keep to the rules, for *)
(* every number of threads and of conditions.  The conjunction of the      *)
(* checked invariants is inductive: mutual exclusion needs that a posted   *)
(* wake-up and a free s exclude each other, and that a signalled condition *)
(* still holds needs mutual exclusion.                                     *)
(***************************************************************************)
EXTENDS MonitorClients, FiniteSetTheorems, TLAPS

Inv == TypeOK /\ MutualExclusion /\ PermitKept /\ CountExact /\ SignalledHolds

-----------------------------------------------------------------------------
\* The threads at a condition are finitely many.
LEMMA AtConditionFinite ==
    ASSUME NEW c
    PROVE  /\ IsFiniteSet(WaitersOn(c)) /\ Cardinality(WaitersOn(c)) \in Nat
           /\ IsFiniteSet(PostersTo(c)) /\ Cardinality(PostersTo(c)) \in Nat
<1>1. WaitersOn(c) \subseteq Threads /\ PostersTo(c) \subseteq Threads
  BY DEF WaitersOn, PostersTo
<1> QED
  BY <1>1, ClientsAssumption, FS_Subset, FS_CardinalityType

\* A step that changes neither the counters nor who waits and who posts
\* leaves the counts exact.
LEMMA CountKept ==
    ASSUME CountExact, UNCHANGED <<w, waitingCount>>,
           \A c \in Conditions : UNCHANGED <<WaitersOn(c), PostersTo(c)>>
    PROVE  CountExact'
BY DEF CountExact

\* A step of one thread between two places outside of the counted ones.
LEMMA NobodyMoves ==
    ASSUME TypeOK, NEW t \in Threads, NEW place, Goto(t, place),
           \A u \in Threads \ {t} : on'[u] = on[u],
           \/ on'[t] = on[t] /\ pc[t] \in {"counted", "parked"} /\ place \in {"counted", "parked"}
           \/ /\ pc[t] \notin {"counted", "parked", "posting"}
              /\ place \notin {"counted", "parked", "posting"}
    PROVE  \A c \in Conditions : UNCHANGED <<WaitersOn(c), PostersTo(c)>>
BY DEF TypeOK, Goto, WaitersOn, PostersTo

-----------------------------------------------------------------------------
\* At the start the monitor is free and nobody waits.
LEMMA InitInv == Init => Inv
<1> SUFFICES ASSUME Init PROVE Inv
  OBVIOUS
<1> USE DEF Init, MonitorInit
<1>1. TypeOK
  BY DEF TypeOK, Places
<1>2. MutualExclusion /\ PermitKept /\ SignalledHolds
  BY DEF MutualExclusion, PermitKept, SignalledHolds, Inside
<1>3. CountExact
  <2>1. \A c : WaitersOn(c) = {} /\ PostersTo(c) = {}
    BY DEF WaitersOn, PostersTo
  <2>2. ASSUME NEW c \in Conditions
        PROVE  waitingCount[c] + w[c] + Cardinality(PostersTo(c)) = Cardinality(WaitersOn(c))
    <3>1. waitingCount[c] = 0 /\ w[c] = 0
      BY <2>2
    <3>2. Cardinality(WaitersOn(c)) = 0 /\ Cardinality(PostersTo(c)) = 0
      BY <2>1, FS_EmptySet
    <3> QED
      BY <3>1, <3>2
  <2> QED
    BY <2>2 DEF CountExact
<1> QED
  BY <1>1, <1>2, <1>3 DEF Inv

\* Every step of a client preserves the invariant.
LEMMA NextInv == Inv /\ [Next]_vars => Inv'
<1> SUFFICES ASSUME Inv, [Next]_vars PROVE Inv'
  OBVIOUS
<1> USE DEF Inv
<1>1. ASSUME NEW t \in Threads, CallEnter(t) \/ Reenter(t) PROVE Inv'
  <2> USE DEF CallEnter, Reenter, Enter
  <2>1. TypeOK'
    BY <1>1 DEF TypeOK, Goto, Places
  <2>2. MutualExclusion' /\ PermitKept'
    BY <1>1 DEF TypeOK, MutualExclusion, PermitKept, Inside, Goto
  <2>3. CountExact'
    BY <1>1, NobodyMoves, CountKept
  <2>4. SignalledHolds'
    BY <1>1 DEF TypeOK, SignalledHolds, Goto
  <2> QED
    BY <2>1, <2>2, <2>3, <2>4
<1>2. ASSUME NEW t \in Threads, Change(t) PROVE Inv'
  <2> USE DEF Change, monitorVars
  <2>1. TypeOK'
    BY <1>2 DEF TypeOK
  <2>2. MutualExclusion' /\ PermitKept'
    BY <1>2 DEF MutualExclusion, PermitKept, Inside
  <2>3. CountExact'
    BY <1>2, CountKept DEF WaitersOn, PostersTo
  <2>4. SignalledHolds'
    \* the thread is alone inside and no wake-up is posted
    <3>1. \A c \in Conditions : ~(w[c] > 0)
      BY <1>2 DEF TypeOK, MutualExclusion, Inside
    <3>2. \A u \in Threads : pc[u] \notin {"chosen", "posting"}
      BY <1>2 DEF MutualExclusion, Inside
    <3> QED
      BY <1>2, <3>1, <3>2 DEF SignalledHolds
  <2> QED
    BY <2>1, <2>2, <2>3, <2>4
<1>3. ASSUME NEW t \in Threads, CallLeave(t) \/ LeaveToWait(t) PROVE Inv'
  <2> USE DEF CallLeave, LeaveToWait, Leave
  <2>1. TypeOK'
    BY <1>3 DEF TypeOK, Goto, Places
  <2>2. MutualExclusion' /\ PermitKept'
    BY <1>3 DEF TypeOK, MutualExclusion, PermitKept, Inside, Goto
  <2>3. CountExact'
    BY <1>3, NobodyMoves, CountKept
  <2>4. SignalledHolds'
    BY <1>3 DEF TypeOK, SignalledHolds, Goto
  <2> QED
    BY <2>1, <2>2, <2>3, <2>4
<1>4. ASSUME NEW t \in Threads, CallWait(t) PROVE Inv'
  <2> USE DEF CallWait, WaitCount
  <2>1. PICK c \in Conditions : WaitCount(c) /\ on' = [on EXCEPT ![t] = c]
    BY <1>4
  <2>2. TypeOK'
    BY <1>4, <2>1 DEF TypeOK, Goto, Places
  <2>3. MutualExclusion' /\ PermitKept'
    BY <1>4, <2>1 DEF TypeOK, MutualExclusion, PermitKept, Inside, Goto
  <2>4. CountExact'
    <3>1. /\ WaitersOn(c)' = WaitersOn(c) \cup {t}
          /\ t \notin WaitersOn(c)
          /\ \A d \in Conditions \ {c} : WaitersOn(d)' = WaitersOn(d)
          /\ \A d \in Conditions : PostersTo(d)' = PostersTo(d)
      BY <1>4, <2>1 DEF TypeOK, Goto, WaitersOn, PostersTo
    <3>2. Cardinality(WaitersOn(c) \cup {t}) = Cardinality(WaitersOn(c)) + 1
      BY <3>1, AtConditionFinite, FS_AddElement
    <3>3. \A d \in Conditions : /\ Cardinality(WaitersOn(d)) \in Nat
                               /\ Cardinality(PostersTo(d)) \in Nat
                               /\ w[d] \in Nat /\ waitingCount[d] \in Nat
      BY AtConditionFinite DEF TypeOK
    <3>4. ASSUME NEW d \in Conditions, d # c
          PROVE  waitingCount'[d] + w'[d] + Cardinality(PostersTo(d)') = Cardinality(WaitersOn(d)')
      BY <2>1, <3>1, <3>4 DEF TypeOK, CountExact
    <3>5. waitingCount'[c] + w'[c] + Cardinality(PostersTo(c)') = Cardinality(WaitersOn(c)')
      BY <2>1, <3>1, <3>2, <3>3 DEF TypeOK, CountExact
    <3> QED
      BY <3>4, <3>5 DEF CountExact
  <2>5. SignalledHolds'
    BY <1>4, <2>1 DEF TypeOK, SignalledHolds, Goto
  <2> QED
    BY <2>2, <2>3, <2>4, <2>5
<1>5. ASSUME NEW t \in Threads, Unpark(t) PROVE Inv'
  <2> USE DEF Unpark, WaitPark
  <2>1. PICK c \in Conditions : c = on[t]
    BY <1>5 DEF TypeOK
  <2>2. TypeOK'
    BY <1>5, <2>1 DEF TypeOK, Goto, Places
  <2>3. MutualExclusion' /\ PermitKept'
    <3>1. /\ s = 0 /\ w[c] = 1
          /\ \A d \in Conditions \ {c} : w[d] = 0
          /\ \A u \in Threads : ~Inside(u)
      BY <1>5, <2>1 DEF TypeOK, MutualExclusion
    <3>2. s' = 0 /\ \A d \in Conditions : w'[d] = 0
      BY <1>5, <2>1, <3>1 DEF TypeOK
    <3>3. \A u \in Threads : Inside(u)' => u = t
      BY <1>5, <3>1 DEF TypeOK, Inside, Goto
    <3>4. Inside(t)'
      BY <1>5 DEF TypeOK, Inside, Goto
    <3> QED
      BY <3>2, <3>3, <3>4 DEF MutualExclusion, PermitKept
  <2>4. CountExact'
    <3>1. /\ WaitersOn(c)' = WaitersOn(c) \ {t}
          /\ t \in WaitersOn(c)
          /\ \A d \in Conditions \ {c} : WaitersOn(d)' = WaitersOn(d)
          /\ \A d \in Conditions : PostersTo(d)' = PostersTo(d)
      BY <1>5, <2>1 DEF TypeOK, Goto, WaitersOn, PostersTo
    <3>2. Cardinality(WaitersOn(c) \ {t}) = Cardinality(WaitersOn(c)) - 1
      BY <3>1, AtConditionFinite, FS_RemoveElement
    <3>3. \A d \in Conditions : /\ Cardinality(WaitersOn(d)) \in Nat
                               /\ Cardinality(PostersTo(d)) \in Nat
                               /\ w[d] \in Nat /\ waitingCount[d] \in Nat
      BY AtConditionFinite DEF TypeOK
    <3>4. ASSUME NEW d \in Conditions, d # c
          PROVE  waitingCount'[d] + w'[d] + Cardinality(PostersTo(d)') = Cardinality(WaitersOn(d)')
      BY <1>5, <2>1, <3>1, <3>4 DEF TypeOK, CountExact
    <3>5. waitingCount'[c] + w'[c] + Cardinality(PostersTo(c)') = Cardinality(WaitersOn(c)')
      BY <1>5, <2>1, <3>1, <3>2, <3>3 DEF TypeOK, CountExact
    <3> QED
      BY <3>4, <3>5 DEF CountExact
  <2>5. SignalledHolds'
    BY <1>5, <2>1 DEF TypeOK, SignalledHolds, Goto
  <2> QED
    BY <2>2, <2>3, <2>4, <2>5
<1>6. ASSUME NEW t \in Threads, CallSignal(t) PROVE Inv'
  <2> USE DEF CallSignal, monitorVars
  <2>1. PICK c \in holds : on' = [on EXCEPT ![t] = c]
    BY <1>6
  <2>2. TypeOK'
    BY <1>6, <2>1 DEF TypeOK, Goto, Places
  <2>3. MutualExclusion' /\ PermitKept'
    BY <1>6 DEF TypeOK, MutualExclusion, PermitKept, Inside, Goto
  <2>4. CountExact'
    BY <1>6, <2>1, NobodyMoves, CountKept DEF TypeOK
  <2>5. SignalledHolds'
    BY <1>6, <2>1 DEF TypeOK, SignalledHolds, Goto
  <2> QED
    BY <2>2, <2>3, <2>4, <2>5
<1>7. ASSUME NEW t \in Threads, NobodyWaits(t) PROVE Inv'
  <2> USE DEF NobodyWaits, SignalNone, monitorVars
  <2>1. TypeOK'
    BY <1>7 DEF TypeOK, Goto, Places
  <2>2. MutualExclusion' /\ PermitKept'
    BY <1>7 DEF TypeOK, MutualExclusion, PermitKept, Inside, Goto
  <2>3. CountExact'
    BY <1>7, NobodyMoves, CountKept
  <2>4. SignalledHolds'
    BY <1>7 DEF TypeOK, SignalledHolds, Goto
  <2> QED
    BY <2>1, <2>2, <2>3, <2>4
<1>8. ASSUME NEW t \in Threads, Uncount(t) PROVE Inv'
  <2> USE DEF Uncount, SignalCount
  <2>1. PICK c \in Conditions : c = on[t]
    BY <1>8 DEF TypeOK
  <2>2. TypeOK'
    BY <1>8, <2>1 DEF TypeOK, Goto, Places
  <2>3. MutualExclusion' /\ PermitKept'
    BY <1>8 DEF TypeOK, MutualExclusion, PermitKept, Inside, Goto
  <2>4. CountExact'
    <3>1. /\ PostersTo(c)' = PostersTo(c) \cup {t}
          /\ t \notin PostersTo(c)
          /\ \A d \in Conditions \ {c} : PostersTo(d)' = PostersTo(d)
          /\ \A d \in Conditions : WaitersOn(d)' = WaitersOn(d)
      BY <1>8, <2>1 DEF TypeOK, Goto, WaitersOn, PostersTo
    <3>2. Cardinality(PostersTo(c) \cup {t}) = Cardinality(PostersTo(c)) + 1
      BY <3>1, AtConditionFinite, FS_AddElement
    <3>3. \A d \in Conditions : /\ Cardinality(WaitersOn(d)) \in Nat
                               /\ Cardinality(PostersTo(d)) \in Nat
                               /\ w[d] \in Nat /\ waitingCount[d] \in Nat
      BY AtConditionFinite DEF TypeOK
    <3>4. ASSUME NEW d \in Conditions, d # c
          PROVE  waitingCount'[d] + w'[d] + Cardinality(PostersTo(d)') = Cardinality(WaitersOn(d)')
      BY <1>8, <2>1, <3>1, <3>4 DEF TypeOK, CountExact
    <3>5. waitingCount'[c] + w'[c] + Cardinality(PostersTo(c)') = Cardinality(WaitersOn(c)')
      BY <1>8, <2>1, <3>1, <3>2, <3>3 DEF TypeOK, CountExact
    <3> QED
      BY <3>4, <3>5 DEF CountExact
  <2>5. SignalledHolds'
    BY <1>8 DEF TypeOK, SignalledHolds, Goto
  <2> QED
    BY <2>2, <2>3, <2>4, <2>5
<1>9. ASSUME NEW t \in Threads, Post(t) PROVE Inv'
  <2> USE DEF Post, SignalPost
  <2>1. PICK c \in Conditions : c = on[t]
    BY <1>9 DEF TypeOK
  <2>2. TypeOK'
    BY <1>9, <2>1 DEF TypeOK, Goto, Places
  <2>3. MutualExclusion' /\ PermitKept'
    <3>1. s = 0 /\ (\A d \in Conditions : w[d] = 0) /\ \A u \in Threads : Inside(u) => u = t
      BY <1>9 DEF MutualExclusion, Inside
    <3>2. s' = 0 /\ w'[c] = 1 /\ \A d \in Conditions \ {c} : w'[d] = 0
      BY <1>9, <2>1, <3>1 DEF TypeOK
    <3>3. \A u \in Threads : ~Inside(u)'
      BY <1>9, <3>1 DEF TypeOK, Inside, Goto
    <3> QED
      BY <2>1, <3>2, <3>3 DEF MutualExclusion, PermitKept
  <2>4. CountExact'
    <3>1. /\ PostersTo(c)' = PostersTo(c) \ {t}
          /\ t \in PostersTo(c)
          /\ \A d \in Conditions \ {c} : PostersTo(d)' = PostersTo(d)
          /\ \A d \in Conditions : WaitersOn(d)' = WaitersOn(d)
      BY <1>9, <2>1 DEF TypeOK, Goto, WaitersOn, PostersTo
    <3>2. Cardinality(PostersTo(c) \ {t}) = Cardinality(PostersTo(c)) - 1
      BY <3>1, AtConditionFinite, FS_RemoveElement
    <3>3. \A d \in Conditions : /\ Cardinality(WaitersOn(d)) \in Nat
                               /\ Cardinality(PostersTo(d)) \in Nat
                               /\ w[d] \in Nat /\ waitingCount[d] \in Nat
      BY AtConditionFinite DEF TypeOK
    <3>4. ASSUME NEW d \in Conditions, d # c
          PROVE  waitingCount'[d] + w'[d] + Cardinality(PostersTo(d)') = Cardinality(WaitersOn(d)')
      BY <1>9, <2>1, <3>1, <3>4 DEF TypeOK, CountExact
    <3>5. waitingCount'[c] + w'[c] + Cardinality(PostersTo(c)') = Cardinality(WaitersOn(c)')
      BY <1>9, <2>1, <3>1, <3>2, <3>3 DEF TypeOK, CountExact
    <3> QED
      BY <3>4, <3>5 DEF CountExact
  <2>5. SignalledHolds'
    BY <1>9, <2>1 DEF TypeOK, SignalledHolds, Goto
  <2> QED
    BY <2>2, <2>3, <2>4, <2>5
<1>10. CASE UNCHANGED vars
  BY <1>10, CountKept DEF vars, TypeOK, MutualExclusion, PermitKept, SignalledHolds, Inside,
     WaitersOn, PostersTo
<1> QED
  BY <1>1, <1>2, <1>3, <1>4, <1>5, <1>6, <1>7, <1>8, <1>9, <1>10 DEF Next, Step

-----------------------------------------------------------------------------
\* Every reachable state satisfies the invariant.
THEOREM Invariance == Spec => []Inv
BY InitInv, NextInv, PTL DEF Spec

\* The semaphores and counters keep their types; none is ever negative.
THEOREM TypeCorrect == Spec => []TypeOK
BY Invariance, PTL DEF Inv

\* At most one thread is inside the monitor.
THEOREM Exclusive == Spec => []MutualExclusion
BY Invariance, PTL DEF Inv

\* The monitor never dies.
THEOREM Alive == Spec => []PermitKept
BY Invariance, PTL DEF Inv

\* The counter of each condition is exact.
THEOREM Counted == Spec => []CountExact
BY Invariance, PTL DEF Inv

\* The condition a thread is woken for holds when it wakes.
THEOREM WokenInTime == Spec => []SignalledHolds
BY Invariance, PTL DEF Inv
=============================================================================
