------------------------- MODULE ClockAlarmsProofs --------------------------
(***************************************************************************)
(* Theorems of ClockAlarms for any number of processes, any alarms and any *)
(* number of ticks between the steps of the clock task.                    *)
(***************************************************************************)
EXTENDS ClockAlarms, WellFoundedInduction, TLAPS

USE SlotsAssumption, TimeAssumption DEF Slots

\* next_alarm is not later than any alarm when the clock task has done its work,
\* and than the alarms it has looked at in the middle of a scan.
Covered(p) == nextLeft <= left[p]
NextCovers ==
    /\ pc \in {"idle", "clocktick"} => \A p \in Slots : Covered(p)
    /\ pc \in {"scan", "fired", "blocked"} => \A p \in 1..slot - 1 : Covered(p)

\* The scan starts from the first process and stays in the table.
SlotSane ==
    /\ pc \in {"idle", "clocktick", "next"} => slot = 1
    /\ pc \in {"fired", "blocked"} => slot <= NrSlots

\* syn_al_alive tells where the synchronous alarm task is.
AliveExact == synAlive = (syn = "send")

\* After the last tick that is not counted any more the clock task is asked for.
TicksCounted == pending > MaxPending => hardInt

Inv == TypeOK /\ NextCovers /\ SlotSane /\ AliveExact /\ SynNotForgotten

\* A time stays one that was asked for, and earlier stays earlier.
LEMMA AfterSane ==
    ASSUME NEW x \in Times, NEW n \in Nat
    PROVE  After(x, n) \in Times
BY DEF Times, After

LEMMA AfterMonotonic ==
    ASSUME NEW x \in Times, NEW y \in Times, NEW n \in Nat, x <= y
    PROVE  After(x, n) <= After(y, n)
BY DEF Times, After

\* Nothing is later than an alarm that is not set.
LEMMA NeverLast ==
    ASSUME NEW x \in Times
    PROVE  x \in Int /\ x <= Never /\ Never \in Times
BY DEF Times

\* The synchronous alarm task finds an entry when there is one: the one whose
\* turn comes first.
LEMMA SearchComplete ==
    ASSUME synTable \subseteq Slots, synTable # {}, NEW i \in 0..NrSlots
    PROVE  \E p \in Slots : NextEntry(p, i)
<1> DEFINE T == {Turn(p, i) : p \in synTable}
           R == {ss \in Nat \X Nat : ss[1] < ss[2]}
<1>1. T \subseteq Nat /\ T # {}
  <2>1. \A p \in synTable : Turn(p, i) \in Nat
    BY DEF Turn
  <2> QED
    BY <2>1
<1>2. PICK t \in T : \A u \in T : <<u, t>> \notin R
  <2>1. IsWellFoundedOn(R, Nat)
    BY NatLessThanWellFounded, Zenon DEF OpToRel
  <2> HIDE DEF T, R
  <2> QED
    BY <1>1, <2>1, WFMin
<1>3. \A u \in T : t <= u
  <2> SUFFICES ASSUME NEW u \in T PROVE t <= u
    OBVIOUS
  <2>1. u \in Nat /\ t \in Nat /\ <<u, t>> \in Nat \X Nat
    BY <1>1
  <2> QED
    BY <1>2, <2>1
<1>4. PICK p \in synTable : t = Turn(p, i)
  OBVIOUS
<1> QED
  BY <1>3, <1>4 DEF NextEntry

-----------------------------------------------------------------------------
LEMMA InitInv == Init => Inv /\ TicksCounted
<1> SUFFICES ASSUME Init PROVE Inv /\ TicksCounted
  OBVIOUS
<1>0. TicksCounted
  <2>1. ~(pending > MaxPending)
    BY DEF Init
  <2> QED
    BY <2>1 DEF TicksCounted
<1>1. hardInt \in BOOLEAN /\ synAlive \in BOOLEAN /\ AliveExact
  BY DEF Init, AliveExact
<1>2. Never \in Times /\ left \in [Slots -> Times] /\ nextLeft \in Times
  BY DEF Init, Times
<1>3. pending \in 0..MaxPending + 1 /\ slot \in 1..NrSlots + 1 /\ synTo \in Slots
  BY DEF Init
<1>4. TypeOK
  BY <1>1, <1>2, <1>3 DEF Init, TypeOK
<1>5. NextCovers /\ SlotSane /\ SynNotForgotten
  BY DEF Init, NextCovers, Covered, SlotSane, SynNotForgotten
<1> QED
  BY <1>0, <1>1, <1>4, <1>5 DEF Inv

\* A step that changes only the alarms of users, to earlier ones of others or to
\* none, and not next_alarm.
LEMMA CoversKept ==
    ASSUME TypeOK, NextCovers, UNCHANGED <<nextLeft, pc, slot>>,
           NEW p \in Slots, NEW x \in Times, left' = [left EXCEPT ![p] = x],
           \/ x = Never
           \/ pc = "idle" /\ \E q \in Slots : x = left[q]
    PROVE  NextCovers' /\ left' \in [Slots -> Times]
<1>1. nextLeft \in Int /\ nextLeft <= Never
  BY NeverLast DEF TypeOK
<1>2. \A q \in Slots : left'[q] = IF q = p THEN x ELSE left[q]
  BY DEF TypeOK
<1>3. 1..slot - 1 \subseteq Slots
  BY DEF TypeOK
<1>4. \A q \in Slots : Covered(q) => Covered(q)'
  <2> SUFFICES ASSUME NEW q \in Slots, Covered(q) PROVE Covered(q)'
    OBVIOUS
  <2>1. CASE x = Never
    BY <1>1, <1>2, <2>1 DEF Covered
  <2>2. CASE pc = "idle" /\ \E r \in Slots : x = left[r]
    BY <1>2, <2>2 DEF Covered, NextCovers
  <2> QED
    BY <2>1, <2>2
<1> QED
  BY <1>3, <1>4 DEF NextCovers, TypeOK

\* The synchronous alarm task at work: it forgets no entry, and a waiting clock
\* task goes on where it was in its scan.
LEMMA SearchInv ==
    ASSUME Inv, NEW i \in 0..NrSlots, SearchFrom(i), Waiting,
           UNCHANGED <<alarmVars, hardInt, slot, calling>>
    PROVE  Inv'
<1> USE DEF Inv, alarmVars
<1>1. CASE SearchFound(i)
  <2>1. PICK p \in Slots : NextEntry(p, i) /\ synTable' = synTable \ {p} /\ synTo' = p
    BY <1>1 DEF SearchFound
  <2>2. synAlive' = TRUE /\ syn' = "send" /\ UNCHANGED pc
    BY <1>1 DEF SearchFound
  <2>3. TypeOK'
    BY <2>1, <2>2 DEF TypeOK
  <2>4. AliveExact'
    BY <2>2 DEF AliveExact
  <2> QED
    BY <2>2, <2>3, <2>4 DEF NextCovers, Covered, SlotSane, SynNotForgotten
<1>2. CASE SearchEnded(i)
  <2>1. synTable = {} /\ synTable' = {} /\ synTo' = 1 /\ synAlive' = FALSE
    BY <1>2, SearchComplete DEF SearchEnded, TypeOK
  <2>2. \/ pc = "blocked" /\ syn' = "woken" /\ pc' = "fired"
        \/ syn' = "receive" /\ UNCHANGED pc
    BY <1>2 DEF SearchEnded, Taken
  <2>3. TypeOK'
    <3>1. synTable' \subseteq Clients /\ synAlive' \in BOOLEAN
      BY <2>1
    <3>2. /\ synTo' \in Slots /\ syn' \in {"receive", "woken", "send"}
          /\ pc' \in {"idle", "clocktick", "scan", "fired", "blocked", "next"}
      BY <2>1, <2>2 DEF TypeOK
    <3> QED
      BY <3>1, <3>2 DEF TypeOK
  <2>4. AliveExact'
    BY <2>1, <2>2 DEF AliveExact
  <2> QED
    BY <2>1, <2>2, <2>3, <2>4 DEF NextCovers, Covered, SlotSane, SynNotForgotten
<1> QED
  BY <1>1, <1>2 DEF SearchFrom

\* Only a tick adds to pending_ticks.
LEMMA TicksInv ==
    ASSUME TypeOK, TicksCounted, [Next]_vars
    PROVE  TicksCounted' /\ pending' \in 0..MaxPending + 1
<1>1. CASE Tick
  <2>1. InBounds \/ ~hardInt
    BY <1>1 DEF Tick
  <2>2. pending <= MaxPending /\ pending' = pending + 1
    BY <1>1, <2>1 DEF Tick, InBounds, TicksCounted, TypeOK
  <2>3. pending < MaxPending \/ hardInt'
    BY <1>1 DEF Tick
  <2> QED
    BY <2>2, <2>3 DEF TicksCounted, TypeOK
<1>2. CASE pending' = 0
  BY <1>2 DEF TicksCounted
<1>3. CASE UNCHANGED <<pending, hardInt>>
  BY <1>3 DEF TicksCounted, TypeOK
<1> QED
  BY <1>1, <1>2, <1>3
  DEF Next, ClockSteps, UserAlarms, ClientAlarms, Calls, SynSteps, Exits, Forks, vars,
      alarmVars, Interrupted, Clocktick, ScanDue, ScanFired, ScanNext, ScanDone, NextAlarm,
      UserAlarm, ClientAlarm, SetAlarm, Call, SynWoken, SynSent, Exit, Fork

\* Every step keeps the invariant.
LEMMA NextInv == Inv /\ TicksCounted /\ [Next]_vars => Inv' /\ TicksCounted'
<1> SUFFICES ASSUME Inv, TicksCounted, [Next]_vars PROVE Inv'
  BY TicksInv DEF Inv
<1> USE DEF Inv
<1>a. /\ left \in [Slots -> Times] /\ nextLeft \in Times
      /\ pending \in Nat /\ slot \in Nat /\ 1..slot - 1 \subseteq Slots
  BY DEF TypeOK
<1>b. \A p \in Slots : left[p] \in Int /\ left[p] <= Never
  BY <1>a, NeverLast
<1>c. nextLeft \in Int /\ nextLeft <= Never /\ Never \in Times
  BY <1>a, NeverLast
<1>d. Aged \in [Slots -> Times] /\ After(nextLeft, pending) \in Times
  BY <1>a, AfterSane DEF Aged
<1>1. CASE Tick
  <2>1. pending' \in 0..MaxPending + 1
    BY TicksInv
  <2>2. hardInt' \in BOOLEAN
    BY <1>1 DEF Tick
  <2>3. UNCHANGED <<left, nextLeft, pc, slot, synVars, calling>>
    BY <1>1 DEF Tick
  <2> QED
    BY <2>1, <2>2, <2>3
    DEF TypeOK, NextCovers, Covered, SlotSane, AliveExact, SynNotForgotten, synVars
<1>2. CASE Interrupted
  <2>1. /\ pc = "idle" /\ pc' = "clocktick" /\ left' = Aged /\ pending' = 0
        /\ nextLeft' = After(nextLeft, pending) /\ UNCHANGED <<slot, synVars, calling>>
    BY <1>2 DEF Interrupted
  <2>2. hardInt' \in BOOLEAN
    BY <1>2 DEF Interrupted
  <2>3. \A p \in Slots : nextLeft' <= left'[p]
    BY <1>a, <2>1, AfterMonotonic DEF Aged, NextCovers, Covered
  <2>4. TypeOK'
    BY <1>d, <2>1, <2>2 DEF TypeOK, synVars
  <2> QED
    BY <2>1, <2>3, <2>4
    DEF NextCovers, Covered, SlotSane, AliveExact, SynNotForgotten, synVars
<1>3. CASE Clocktick
  <2>1. /\ pc = "clocktick" /\ UNCHANGED <<pending, left, hardInt, slot, synVars, calling>>
        /\ \/ pc' = "scan" /\ nextLeft' = Never
           \/ pc' = "idle" /\ UNCHANGED nextLeft
    BY <1>3 DEF Clocktick
  <2>2. TypeOK'
    BY <1>c, <2>1 DEF TypeOK, synVars
  <2>3. NextCovers'
    BY <2>1 DEF NextCovers, Covered, SlotSane
  <2> QED
    BY <2>1, <2>2, <2>3 DEF SlotSane, AliveExact, SynNotForgotten, synVars
<1>4. CASE ScanDue
  <2>1. /\ pc = "scan" /\ slot \in Slots
        /\ UNCHANGED <<alarmVars, hardInt, slot, synAlive, synTo, calling>>
    BY <1>4, <1>a DEF ScanDue, TypeOK
  <2>2. CASE slot \notin Clients
    <3>1. pc' = "fired" /\ UNCHANGED <<synTable, syn>>
      BY <1>4, <2>2 DEF ScanDue
    <3> QED
      BY <2>1, <3>1
      DEF TypeOK, NextCovers, Covered, SlotSane, AliveExact, SynNotForgotten, alarmVars
  <2>3. CASE slot \in Clients
    <3>1. CauseAlarm(slot)
      BY <1>4, <2>3 DEF ScanDue
    <3>2. TypeOK'
      BY <2>1, <2>3, <3>1 DEF CauseAlarm, TypeOK, alarmVars
    <3>3. NextCovers' /\ SlotSane'
      BY <2>1, <3>1 DEF CauseAlarm, NextCovers, Covered, SlotSane, alarmVars
    <3>4. syn = "receive" => ~synAlive
      BY DEF AliveExact
    <3>5. syn' # "receive" /\ (syn' = "send" <=> syn = "send")
      BY <3>1, <3>4 DEF CauseAlarm, TypeOK
    <3>6. AliveExact'
      BY <2>1, <3>5 DEF AliveExact
    <3> QED
      BY <3>2, <3>3, <3>5, <3>6 DEF SynNotForgotten
  <2> QED
    BY <2>2, <2>3
<1>5. CASE ScanFired
  <2>1. /\ pc = "fired" /\ pc' = "scan" /\ slot' = slot + 1
        /\ left' = [left EXCEPT ![slot] = Never]
        /\ UNCHANGED <<pending, nextLeft, hardInt, synVars, calling>>
    BY <1>5 DEF ScanFired
  <2>2. slot \in Slots
    BY <2>1 DEF SlotSane, TypeOK
  <2>3. TypeOK'
    BY <1>c, <2>1, <2>2 DEF TypeOK, synVars
  <2>4. NextCovers'
    <3>1. \A q \in 1..slot : nextLeft <= left'[q]
      BY <1>a, <1>c, <2>1, <2>2 DEF NextCovers, Covered
    <3> QED
      BY <1>a, <2>1, <3>1 DEF NextCovers, Covered
  <2> QED
    BY <2>1, <2>3, <2>4 DEF SlotSane, AliveExact, SynNotForgotten, synVars
<1>6. CASE ScanNext
  <2>1. /\ pc = "scan" /\ slot \in Slots /\ slot' = slot + 1
        /\ nextLeft' = Earlier(left[slot], nextLeft)
        /\ UNCHANGED <<pending, left, hardInt, pc, synVars, calling>>
    BY <1>6, <1>a DEF ScanNext, TypeOK
  <2>2. nextLeft' \in Times /\ nextLeft' <= nextLeft /\ nextLeft' <= left[slot]
    BY <1>a, <1>b, <1>c, <2>1 DEF Earlier
  <2>3. TypeOK'
    BY <2>1, <2>2 DEF TypeOK, synVars
  <2>4. NextCovers'
    <3>1. \A q \in 1..slot : nextLeft' <= left[q]
      <4> SUFFICES ASSUME NEW q \in 1..slot PROVE nextLeft' <= left[q]
        OBVIOUS
      <4>1. CASE q = slot
        BY <2>2, <4>1
      <4>2. CASE q # slot
        <5>1. q \in 1..slot - 1 /\ q \in Slots
          BY <1>a, <4>2
        <5>2. nextLeft <= left[q]
          BY <2>1, <5>1 DEF NextCovers, Covered
        <5>3. nextLeft' \in Int
          BY <2>2, NeverLast
        <5> QED
          BY <1>b, <1>c, <2>2, <5>1, <5>2, <5>3
      <4> QED
        BY <4>1, <4>2
    <3> QED
      BY <1>a, <2>1, <3>1 DEF NextCovers, Covered
  <2> QED
    BY <2>1, <2>3, <2>4 DEF SlotSane, AliveExact, SynNotForgotten, synVars
<1>7. CASE ScanDone
  <2>1. /\ pc = "scan" /\ slot > NrSlots /\ pc' = "idle" /\ slot' = 1
        /\ UNCHANGED <<alarmVars, hardInt, synVars, calling>>
    BY <1>7 DEF ScanDone
  <2>2. \A p \in Slots : Covered(p)
    BY <1>a, <2>1 DEF NextCovers
  <2> QED
    BY <2>1, <2>2
    DEF TypeOK, NextCovers, Covered, SlotSane, AliveExact, SynNotForgotten, alarmVars, synVars
<1>8. CASE NextAlarm
  <2>1. /\ pc = "next" /\ pc' = "idle" /\ nextLeft' \in {left[p] : p \in Slots}
        /\ \A p \in Slots : nextLeft' <= left[p]
        /\ UNCHANGED <<pending, left, hardInt, slot, synVars, calling>>
    BY <1>8 DEF NextAlarm
  <2>2. nextLeft' \in Times
    BY <1>a, <2>1
  <2>3. TypeOK'
    BY <2>1, <2>2 DEF TypeOK, synVars
  <2> QED
    BY <2>1, <2>3
    DEF NextCovers, Covered, SlotSane, AliveExact, SynNotForgotten, synVars
<1>9. ASSUME NEW p \in Slots, NEW d \in Deltas, UserAlarm(p, d) \/ ClientAlarm(p, d)
      PROVE  Inv'
  <2>1. SetAlarm(p, d) /\ calling' \subseteq Clients
    BY <1>9 DEF UserAlarm, ClientAlarm, TypeOK
  <2>2. /\ pc = "idle" /\ pc' = "next" /\ nextLeft' = Never /\ pending' = 0
        /\ UNCHANGED <<hardInt, slot, synVars>>
    BY <2>1 DEF SetAlarm
  <2>3. left' \in [Slots -> Times]
    <3>1. d \in Times
      BY DEF Times
    <3> QED
      BY <1>c, <1>d, <2>1, <3>1 DEF SetAlarm
  <2>4. TypeOK'
    BY <1>c, <2>1, <2>2, <2>3 DEF TypeOK, synVars
  <2> QED
    BY <2>2, <2>4 DEF NextCovers, SlotSane, AliveExact, SynNotForgotten, synVars
<1>10. ASSUME NEW p \in Clients, Call(p) PROVE Inv'
  BY <1>10
  DEF Call, TypeOK, NextCovers, Covered, SlotSane, AliveExact, SynNotForgotten, alarmVars, synVars
<1>11. CASE SynWoken
  BY <1>11, SearchInv DEF SynWoken
<1>12. CASE SynSent
  <2>1. synTo \in 0..NrSlots
    BY DEF TypeOK
  <2> QED
    BY <1>12, <2>1, SearchInv DEF SynSent
<1>13. ASSUME NEW p \in Users, Exit(p) PROVE Inv'
  <2>1. NextCovers' /\ left' \in [Slots -> Times]
    BY <1>13, <1>c, CoversKept DEF Exit
  <2> QED
    BY <1>13, <2>1 DEF Exit, TypeOK, SlotSane, AliveExact, SynNotForgotten, synVars
<1>14. ASSUME NEW parent \in Users, NEW child \in Users, Fork(parent, child) PROVE Inv'
  <2>1. NextCovers' /\ left' \in [Slots -> Times]
    BY <1>14, <1>a, CoversKept DEF Fork
  <2> QED
    BY <1>14, <2>1 DEF Fork, TypeOK, SlotSane, AliveExact, SynNotForgotten, synVars
<1>15. CASE UNCHANGED vars
  BY <1>15
  DEF vars, TypeOK, NextCovers, Covered, SlotSane, AliveExact, SynNotForgotten, alarmVars, synVars
<1> QED
  BY <1>1, <1>2, <1>3, <1>4, <1>5, <1>6, <1>7, <1>8, <1>9, <1>10, <1>11, <1>12,
     <1>13, <1>14, <1>15
  DEF Next, ClockSteps, UserAlarms, ClientAlarms, Calls, SynSteps, Exits, Forks

-----------------------------------------------------------------------------
\* The state keeps its types, whatever the alarms and the ticks.
THEOREM TypeCorrect == Spec => []TypeOK
<1>1. Inv => TypeOK
  BY DEF Inv
<1> QED
  BY InitInv, NextInv, <1>1, PTL DEF Spec

\* The synchronous alarm task never sleeps while its table has an entry.
THEOREM NothingForgotten == Spec => []SynNotForgotten
<1>1. Inv => SynNotForgotten
  BY DEF Inv
<1> QED
  BY InitInv, NextInv, <1>1, PTL DEF Spec

\* No tick that finds the clock task waiting for work passes over an alarm that
\* is due, although next_alarm is unset while it is computed anew.
THEOREM AlarmsNoticed == Spec => TickNotices
<1> DEFINE Notices == Tick /\ pc = "idle" /\ (\E p \in Slots : After(left[p], pending') <= 0)
                      => hardInt'
<1>1. Inv /\ [Next]_vars => [Notices]_vars
  <2> SUFFICES ASSUME Inv, Tick, pc = "idle", NEW p \in Slots, After(left[p], pending') <= 0
               PROVE  hardInt'
    OBVIOUS
  <2>1. /\ left[p] \in Times /\ nextLeft \in Times /\ pending + 1 \in Nat
        /\ nextLeft <= left[p]
    BY DEF Inv, TypeOK, NextCovers, Covered
  <2>2. pending' = pending + 1
    BY DEF Tick
  <2>3. After(nextLeft, pending + 1) <= After(left[p], pending + 1)
    BY <2>1, AfterMonotonic
  <2>4. After(nextLeft, pending + 1) \in Int /\ After(left[p], pending + 1) \in Int
    BY <2>1, AfterSane, NeverLast
  <2>5. Due
    BY <2>2, <2>3, <2>4 DEF Due
  <2> QED
    BY <2>5 DEF Tick
<1> QED
  BY InitInv, NextInv, <1>1, PTL DEF Spec, TickNotices
=============================================================================
