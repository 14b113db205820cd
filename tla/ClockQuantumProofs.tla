------------------------- MODULE ClockQuantumProofs -------------------------
(***************************************************************************)
(* Theorems of ClockQuantum for all processes and any length of a quantum. *)
(***************************************************************************)
EXTENDS ClockQuantum, TLAPS

Distinct(q) == \A i, j \in 1..Len(q) : q[i] = q[j] => i = j

\* sched() neither loses nor doubles a process.
LEMMA RotatedDistinct ==
    ASSUME ready \in Seq(Users), Distinct(ready)
    PROVE  Rotated \in Seq(Users) /\ Distinct(Rotated)
<1>1. CASE ready = <<>>
  BY <1>1 DEF Rotated
<1>2. CASE ready # <<>>
  <2> DEFINE r == Append(Tail(ready), Head(ready))
  <2>1. Rotated = r
    BY <1>2 DEF Rotated
  <2>2. r \in Seq(Users) /\ Len(r) = Len(ready)
    BY <1>2
  <2>3. \A i \in 1..Len(r) : r[i] = IF i = Len(ready) THEN ready[1] ELSE ready[i + 1]
    BY <1>2
  <2>4. Distinct(r)
    <3>1. SUFFICES ASSUME NEW i \in 1..Len(r), NEW j \in 1..Len(r), r[i] = r[j]
                   PROVE  i = j
      BY DEF Distinct
    <3>2. Len(ready) \in Nat \ {0}
      BY <1>2
    <3> HIDE DEF r
    <3> QED
      BY <2>2, <2>3, <3>1, <3>2 DEF Distinct
  <2> QED
    BY <2>1, <2>2, <2>4
<1> QED
  BY <1>1, <1>2

\* Neither does a process that blocks ...
LEMMA BlockedDistinct ==
    ASSUME ready \in Seq(Users), Distinct(ready), NEW i \in 1..Len(ready)
    PROVE  LET q == [j \in 1..Len(ready) - 1 |-> IF j < i THEN ready[j] ELSE ready[j + 1]]
           IN  q \in Seq(Users) /\ Distinct(q)
<1> DEFINE q == [j \in 1..Len(ready) - 1 |-> IF j < i THEN ready[j] ELSE ready[j + 1]]
<1>1. Len(ready) \in Nat /\ Len(ready) - 1 \in Nat
  OBVIOUS
<1>2. \A j \in 1..Len(ready) - 1 : q[j] \in Users
  BY <1>1
<1>3. q \in Seq(Users) /\ Len(q) = Len(ready) - 1
  BY <1>1, <1>2
<1>4. Distinct(q)
  <2>1. SUFFICES ASSUME NEW j \in 1..Len(q), NEW k \in 1..Len(q), q[j] = q[k]
                 PROVE  j = k
    BY DEF Distinct
  <2> QED
    BY <1>1, <1>3, <2>1 DEF Distinct
<1> QED
  BY <1>3, <1>4

\* ... or one that becomes ready.
LEMMA WokenDistinct ==
    ASSUME ready \in Seq(Users), Distinct(ready), NEW p \in Users, ~IsReady(p),
           NEW q \in {<<p>> \o ready, Append(ready, p)}
    PROVE  q \in Seq(Users) /\ Distinct(q)
<1>1. Len(ready) \in Nat
  OBVIOUS
<1>2. CASE q = <<p>> \o ready
  <2>1. q \in Seq(Users) /\ Len(q) = Len(ready) + 1
    BY <1>1, <1>2
  <2>2. \A i \in 1..Len(q) : q[i] = IF i = 1 THEN p ELSE ready[i - 1]
    BY <1>1, <1>2
  <2>3. Distinct(q)
    <3>1. SUFFICES ASSUME NEW i \in 1..Len(q), NEW j \in 1..Len(q), i < j PROVE q[i] # q[j]
      BY <1>1, <2>1 DEF Distinct
    <3>2. q[j] = ready[j - 1] /\ j - 1 \in 1..Len(ready)
      BY <1>1, <2>1, <2>2, <3>1
    <3>3. CASE i = 1
      BY <2>2, <3>2, <3>3 DEF IsReady
    <3>4. CASE i # 1
      <4>1. q[i] = ready[i - 1] /\ i - 1 \in 1..Len(ready) /\ i - 1 # j - 1
        BY <1>1, <2>1, <2>2, <3>1, <3>4
      <4> QED
        BY <3>2, <4>1 DEF Distinct
    <3> QED
      BY <3>3, <3>4
  <2> QED
    BY <2>1, <2>3
<1>3. CASE q = Append(ready, p)
  <2>1. q \in Seq(Users) /\ Len(q) = Len(ready) + 1
    BY <1>1, <1>3
  <2>2. \A i \in 1..Len(q) : q[i] = IF i = Len(ready) + 1 THEN p ELSE ready[i]
    BY <1>1, <1>3
  <2>3. Distinct(q)
    BY <1>1, <2>1, <2>2, SMTT(60) DEF Distinct, IsReady
  <2> QED
    BY <2>1, <2>3
<1> QED
  BY <1>2, <1>3

Inv == TypeOK /\ QuantumSane

LEMMA InitInv == Init => Inv
<1> SUFFICES ASSUME Init PROVE Inv
  OBVIOUS
<1>1. TypeOK
  <2>1. ready \in Seq(Users) /\ \A i, j \in 1..Len(ready) : ready[i] = ready[j] => i = j
    BY DEF Init
  <2>2. grp \in [Users -> Groups]
    BY DEF Init, Groups
  <2>3. hardInt \in BOOLEAN
    BY DEF Init
  <2>4. pc = "idle" /\ schedTicks \in Int /\ prev = Idle /\ bill = Idle
    BY RateAssumption DEF Init
  <2> QED
    BY <2>1, <2>2, <2>3, <2>4 DEF TypeOK
<1>2. QuantumSane
  BY RateAssumption DEF Init, QuantumSane
<1> QED
  BY <1>1, <1>2 DEF Inv

LEMMA NextInv == Inv /\ [Next]_vars => Inv'
<1> SUFFICES ASSUME TypeOK, QuantumSane, [Next]_vars PROVE TypeOK' /\ QuantumSane'
  BY DEF Inv
<1> USE RateAssumption
<1>1. CASE Tick
  <2>1. UNCHANGED <<pc, queueVars>> /\ hardInt' \in BOOLEAN
    BY <1>1 DEF Tick, TypeOK
  <2>2. UNCHANGED quantumVars \/ HandlerCount
    BY <1>1 DEF Tick
  <2>3. schedTicks' \in Int /\ prev' \in Users \cup {Idle}
    BY <2>1, <2>2 DEF HandlerCount, TypeOK, quantumVars
  <2>4. QuantumSane'
    BY <2>1, <2>2 DEF HandlerCount, TypeOK, QuantumSane, quantumVars
  <2> QED
    BY <2>1, <2>3, <2>4 DEF TypeOK, queueVars
<1>2. CASE Interrupted
  BY <1>2 DEF Interrupted, TypeOK, QuantumSane, quantumVars, queueVars
<1>3. CASE Count
  BY <1>3 DEF Count, TypeOK, QuantumSane, queueVars
<1>4. CASE Sched
  <2>1. ready' \in Seq(Users) /\ Distinct(ready')
    BY <1>4, RotatedDistinct DEF Sched, TypeOK, Distinct
  <2> QED
    BY <1>4, <2>1 DEF Sched, TypeOK, QuantumSane, quantumVars, Distinct
<1>5. CASE Renew
  <2>1. HeadGroups \subseteq Groups
    BY DEF HeadGroups, TypeOK, Groups
  <2>2. schedTicks' \in {SchedRate, 2 * SchedRate}
    BY <1>5 DEF Renew, Renewed, Quantum
  <2> QED
    BY <1>5, <2>2 DEF Renew, TypeOK, QuantumSane, queueVars
<1>6. CASE Block
  <2>1. ready' \in Seq(Users) /\ Distinct(ready')
    BY <1>6, BlockedDistinct DEF Block, TypeOK, Distinct
  <2> QED
    BY <1>6, <2>1 DEF Block, Others, TypeOK, QuantumSane, quantumVars, Distinct
<1>7. ASSUME NEW p \in Users, Wake(p) PROVE TypeOK' /\ QuantumSane'
  <2>1. ready' \in Seq(Users) /\ Distinct(ready')
    BY <1>7, WokenDistinct DEF Wake, TypeOK, Distinct
  <2> QED
    BY <1>7, <2>1 DEF Wake, Others, TypeOK, QuantumSane, quantumVars, Distinct
<1>8. CASE Pick
  <2>1. bill' \in Users \cup {Idle}
    BY <1>8 DEF Pick, Picked, TypeOK
  <2> QED
    BY <1>8, <2>1 DEF Pick, Others, TypeOK, QuantumSane, quantumVars
<1>9. ASSUME NEW p \in Users, Fork(p) PROVE TypeOK' /\ QuantumSane'
  BY <1>9 DEF Fork, Others, TypeOK, QuantumSane, quantumVars, Groups
<1>10. ASSUME NEW p \in Users, NEW g \in Groups, SetGroup(p, g) PROVE TypeOK' /\ QuantumSane'
  BY <1>10 DEF SetGroup, Others, TypeOK, QuantumSane, quantumVars
<1>11. CASE UNCHANGED vars
  BY <1>11 DEF vars, TypeOK, QuantumSane, quantumVars, queueVars
<1> QED
  BY <1>1, <1>2, <1>3, <1>4, <1>5, <1>6, <1>7, <1>8, <1>9, <1>10, <1>11
  DEF Next, ClockSteps, Switches, Forks, SetGroups

\* The state keeps its types, and a process is in the ready queue once: clock.c
\* only rotates the queue.
THEOREM TypeCorrect == Spec => []TypeOK
<1>1. Inv => TypeOK
  BY DEF Inv
<1> QED
  BY InitInv, NextInv, <1>1, PTL DEF Spec

\* The clock task repairs whatever the interrupt handler does to sched_ticks
\* between its steps, for any length of a quantum and any number of ticks.
THEOREM QuantumRestored == Spec => []QuantumSane
<1>1. Inv => QuantumSane
  BY DEF Inv
<1> QED
  BY InitInv, NextInv, <1>1, PTL DEF Spec
=============================================================================
