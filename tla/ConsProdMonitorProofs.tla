------------------------ MODULE ConsProdMonitorProofs ------------------------
(***************************************************************************)
(* The safety of src/t4/ConsProdMonitor.cpp in the scenarios 1 to 6 of     *)
(* main(), one or two threads of different kinds, for every choice of the  *)
(* limits.                                                                 *)
(*                                                                         *)
(* The protocol leaves the monitor once too often around a wait() and once *)
(* too seldom after a signal(), so s alone says nothing of who is inside.  *)
(* What stays bounded is a balance: s, plus one for each thread that is    *)
(* inside, less one for each that has given the monitor back twice or      *)
(* will take it without giving it back, plus two for each wake-up under    *)
(* way.  It starts at 1 and no step raises it.  Two threads that both hold *)
(* the monitor, or a thread inside while a wake-up is under way, would     *)
(* make it 2 (Alone); that is why the condition a thread was woken for     *)
(* still holds when it uses the buffer.                                    *)
(***************************************************************************)
EXTENDS ConsProdMonitor, FiniteSetTheorems, TLAPS

\* Scenarios 1 to 6 of main(): one thread, or two of different kinds.
AtMostTwo == \E a, b \in Threads : Threads = {a, b}
OnePerKind == \A t, u \in Threads : KindOf[t] = KindOf[u] => t = u

\* Where a thread has taken the monitor, or been given it with a wake-up; and
\* where it has left once more than it has entered.
Holding == {"test", "leave", "update", "chain", "signal", "post", "resume"}
Owing == {"park", "reenter"}

Balance(place) == IF place \in Holding THEN 1 ELSE IF place \in Owing THEN -1 ELSE 0
BalanceOf(a, b) ==
    IF a = b THEN Balance(pc[a]) ELSE Balance(pc[a]) + Balance(pc[b])

\* Wake-ups posted and not yet taken.
Posted == w["A1"] + w["A2"] + w["B1"] + w["B2"]

Balanced ==
    \A a, b \in Threads : Threads = {a, b} => s + BalanceOf(a, b) + 2 * Posted <= 1

Typed ==
    /\ s \in Nat
    /\ w \in [Kinds -> Nat]
    /\ waitingCount \in [Kinds -> Nat]
    /\ numWaiting \in [Kinds -> Nat]
    /\ buffer \in Seq(Parities)
    /\ pc \in [Threads -> Places]
    /\ wakes \in [Threads -> Kinds]

\* The counters numOf...Waiting are exact.
Counted(t) == pc[t] \in {"leave", "count", "release", "park", "resume"}
Listed ==
    \A k \in Kinds :
        numWaiting[k] = IF \E t \in Threads : KindOf[t] = k /\ Counted(t) THEN 1 ELSE 0

\* A thread of kind k is in wait(), between ++waitingCount and w.p().
Expects(k) == \E t \in Threads : KindOf[t] = k /\ pc[t] \in {"release", "park"}

\* A count or a wake-up belongs to a thread in wait(), which has one of them
\* at most; the one about to post a wake-up has taken the count away.
Signalled ==
    /\ \A k \in Kinds : /\ waitingCount[k] # 0 \/ w[k] # 0 => Expects(k)
                        /\ waitingCount[k] + w[k] <= 1
    /\ \A t \in Threads : pc[t] = "post" => waitingCount[wakes[t]] = 0 /\ Expects(wakes[t])

\* The condition of a thread that is to use the buffer, and of one that is
\* being woken, holds.
CondHolds ==
    /\ \A t \in Threads : pc[t] \in {"update", "resume"} => Can(KindOf[t], buffer)
    /\ \A t \in Threads : pc[t] \in {"signal", "post"} => Can(wakes[t], buffer)
    /\ \A k \in Kinds : w[k] > 0 => Can(k, buffer)

Inv == Typed /\ Balanced /\ Listed /\ Signalled /\ CondHolds

-----------------------------------------------------------------------------
\* The buffer stays a sequence of parities whoever uses it.
LEMMA AfterType ==
    ASSUME NEW b \in Seq(Parities), NEW k \in Kinds
    PROVE  After(k, b) \in Seq(Parities)
<1>1. ParityOf[k] \in Parities
  BY DEF ParityOf, Parities
<1>2. Put(ParityOf[k], b) \in Seq(Parities)
  BY <1>1 DEF Put
<1>3. Get(b) \in Seq(Parities)
  BY DEF Get
<1> QED
  BY <1>2, <1>3 DEF After

\* The one who leaves wakes a thread of another kind, counted as waiting,
\* whose condition holds.
LEMMA WakesFacts ==
    ASSUME NEW k \in Kinds, NEW c, NEW waiting, NEW b, Wakes(k, c, waiting, b)
    PROVE  c \in Kinds \ {k} /\ Can(c, b) /\ waiting[c] > 0
<1>1. PICK i \in 1..3 : WakeOrder[k][i] = c /\ Wakeable(c, waiting, b)
  BY DEF Wakes
<1>2. i = 1 \/ i = 2 \/ i = 3
  BY <1>1
<1>3. c \in Kinds \ {k}
  BY <1>1, <1>2 DEF WakeOrder, Kinds, Producers, Consumers
<1> QED
  BY <1>1, <1>3 DEF Wakeable

\* A thread has one partner at most.
LEMMA Partner ==
    ASSUME AtMostTwo, NEW t \in Threads
    PROVE  \E u \in Threads : Threads = {t, u}
BY DEF AtMostTwo

\* The sum over the two threads does not depend on their order.
LEMMA BalanceOfBoth ==
    ASSUME Typed, NEW t \in Threads, NEW u \in Threads, Threads = {t, u}
    PROVE  /\ BalanceOf(t, u) \in Int
           /\ \A a, b \in Threads : Threads = {a, b} => BalanceOf(a, b) = BalanceOf(t, u)
BY DEF BalanceOf, Balance

\* Wake-ups are counted by natural numbers, none more than all together.
LEMMA PostedType ==
    ASSUME w \in [Kinds -> Nat]
    PROVE  Posted \in Nat /\ \A k \in Kinds : w[k] <= Posted
BY DEF Posted, Kinds, Producers, Consumers

\* A wake-up posted or taken changes their number by one.
LEMMA PostedStep ==
    ASSUME w \in [Kinds -> Nat], NEW k \in Kinds
    PROVE  /\ w' = [w EXCEPT ![k] = @ + 1] => Posted' = Posted + 1
           /\ w' = [w EXCEPT ![k] = @ - 1] => Posted' = Posted - 1
BY DEF Posted, Kinds, Producers, Consumers

\* The thread that moves is the only one whose balance changes: if its own
\* gain is made up for by s and the wake-ups, the sum is not raised.
LEMMA BalanceKept ==
    ASSUME AtMostTwo, Typed, Balanced, NEW t \in Threads, NEW place \in Places,
           Goto(t, place), s' \in Nat, Posted' \in Nat,
           s' + Balance(place) + 2 * Posted' <= s + Balance(pc[t]) + 2 * Posted
    PROVE  Balanced'
<1>1. PICK u \in Threads : Threads = {t, u}
  BY Partner
<1>2. /\ pc' = [pc EXCEPT ![t] = place]
      /\ pc \in [Threads -> Places]
  BY DEF Typed, Goto
<1>3. \A p : Balance(p) \in Int
  BY DEF Balance
<1>4. BalanceOf(t, u)' = (BalanceOf(t, u) + Balance(place)) - Balance(pc[t])
  <2>1. CASE t = u
    BY <1>2, <1>3, <2>1 DEF BalanceOf
  <2>2. CASE t # u
    <3>1. pc'[t] = place /\ pc'[u] = pc[u]
      BY <1>2, <2>2
    <3> QED
      BY <1>3, <2>2, <3>1 DEF BalanceOf
  <2> QED
    BY <2>1, <2>2
<1>5. Posted \in Nat /\ s \in Nat /\ BalanceOf(t, u) \in Int
  BY <1>1, PostedType, BalanceOfBoth DEF Typed
<1>6. s + BalanceOf(t, u) + 2 * Posted <= 1
  BY <1>1 DEF Balanced
<1>7. s' + BalanceOf(t, u)' + 2 * Posted' <= 1
  BY <1>3, <1>4, <1>5, <1>6
<1>8. \A a, b \in Threads : Threads = {a, b} => BalanceOf(a, b)' = BalanceOf(t, u)'
  BY <1>1 DEF BalanceOf, Balance
<1> QED
  BY <1>7, <1>8 DEF Balanced

\* While a thread holds the monitor nobody else does, and no wake-up is under
\* way.
LEMMA Alone ==
    ASSUME AtMostTwo, Typed, Balanced, NEW t \in Threads, pc[t] \in Holding
    PROVE  /\ \A u \in Threads : pc[u] \in Holding => u = t
           /\ \A k \in Kinds : w[k] = 0
<1>1. PICK u \in Threads : Threads = {t, u}
  BY Partner
<1>2. s + BalanceOf(t, u) + 2 * Posted <= 1
  BY <1>1 DEF Balanced
<1>3. Posted \in Nat /\ s \in Nat
  BY PostedType DEF Typed
<1>4. BalanceOf(t, u) = IF t = u THEN 1 ELSE 1 + Balance(pc[u])
  BY DEF BalanceOf, Balance
<1>5. Balance(pc[u]) \in {-1, 0, 1} /\ (pc[u] \in Holding => Balance(pc[u]) = 1)
  BY DEF Balance
<1>6. Posted = 0
  BY <1>2, <1>3, <1>4, <1>5
<1>7. \A k \in Kinds : w[k] = 0
  BY <1>6, PostedType DEF Typed
<1>8. pc[u] \in Holding => u = t
  BY <1>2, <1>3, <1>4, <1>5
<1> QED
  BY <1>1, <1>7, <1>8

\* A woken thread takes its wake-up at a moment when nobody holds the
\* monitor, and it is the only one under way.
LEMMA Woken ==
    ASSUME AtMostTwo, Typed, Balanced, NEW k \in Kinds, w[k] > 0
    PROVE  /\ \A u \in Threads : pc[u] \notin Holding
           /\ w[k] = 1
<1>1. \A u \in Threads : pc[u] \notin Holding
  BY Alone DEF Typed
<1>2. PICK t, u \in Threads : Threads = {t, u}
  BY DEF AtMostTwo
<1>3. s + BalanceOf(t, u) + 2 * Posted <= 1
  BY <1>2 DEF Balanced
<1>4. BalanceOf(t, u) \in Int /\ BalanceOf(t, u) >= -2
  BY DEF BalanceOf, Balance
<1>5. w[k] <= Posted /\ Posted \in Nat /\ s \in Nat /\ w[k] \in Nat
  BY PostedType DEF Typed
<1> QED
  BY <1>1, <1>3, <1>4, <1>5

-----------------------------------------------------------------------------
\* Counters per kind stay natural numbers if only one that is not zero is
\* taken down.
LEMMA CounterStep ==
    ASSUME NEW f \in [Kinds -> Nat], NEW k \in Kinds
    PROVE  /\ [f EXCEPT ![k] = @ + 1] \in [Kinds -> Nat]
           /\ f[k] # 0 => [f EXCEPT ![k] = @ - 1] \in [Kinds -> Nat]
<1>1. f[k] \in Nat /\ f[k] + 1 \in Nat /\ (f[k] # 0 => f[k] - 1 \in Nat)
  OBVIOUS
<1> QED
  BY <1>1

\* Each variable keeps its type.
LEMMA TypedStep ==
    ASSUME Inv, [Next]_vars
    PROVE  Typed'
<1> USE DEF Inv, Typed
<1>0. KindOf \in [Threads -> Kinds] /\ Conditions = Kinds
  BY ThreadsAssumption, MonitorAssumption
<1>1. ASSUME NEW t \in Threads, Step(t) PROVE Typed'
  <2>1. KindOf[t] \in Kinds /\ wakes[t] \in Kinds /\ pc[t] \in Places
    BY <1>0
  <2>2. pc' \in [Threads -> Places]
    BY <1>1, ZenonT(60) DEF Step, CallEnter, Pass, Count, LeaveFirst, CountAgain, LeaveAgain, Park,
       Resume, Update, CallSignal, CallLeave, SignalLost, Uncount, Post, Reenter, Goto,
       Places
  <2>3. CASE CallEnter(t) \/ Reenter(t)
    BY <2>2, <2>3 DEF CallEnter, Reenter, Enter
  <2>4. CASE LeaveFirst(t) \/ LeaveAgain(t) \/ CallLeave(t)
    BY <2>2, <2>4 DEF LeaveFirst, LeaveAgain, CallLeave, Leave
  <2>5. CASE Pass(t) \/ SignalLost(t)
    BY <2>2, <2>5 DEF Pass, SignalLost, SignalNone, monitorVars
  <2>6. CASE Count(t)
    BY <2>1, <2>2, <2>6 DEF Count, monitorVars
  <2>7. CASE Resume(t)
    <3>1. numWaiting[KindOf[t]] = 1
      BY <2>1, <2>7 DEF Resume, Listed, Counted
    <3> QED
      BY <2>1, <2>2, <2>7, <3>1 DEF Resume, monitorVars
  <2>8. CASE CountAgain(t) \/ Uncount(t)
    <3>1. waitingCount' \in [Kinds -> Nat]
      <4>1. CASE CountAgain(t)
        BY <2>1, <4>1, CounterStep DEF CountAgain, WaitCount
      <4>2. CASE Uncount(t)
        BY <2>1, <4>2, CounterStep DEF Uncount, SignalCount
      <4> QED
        BY <2>8, <4>1, <4>2
    <3> QED
      BY <2>2, <2>8, <3>1 DEF CountAgain, WaitCount, Uncount, SignalCount
  <2>9. CASE Park(t) \/ Post(t)
    <3>1. w' \in [Kinds -> Nat]
      <4>1. CASE Park(t)
        <5>1. w[KindOf[t]] # 0
          BY <2>1, <4>1 DEF Park, WaitPark
        <5> QED
          BY <2>1, <4>1, <5>1, CounterStep DEF Park, WaitPark
      <4>2. CASE Post(t)
        BY <2>1, <4>2, CounterStep DEF Post, SignalPost
      <4> QED
        BY <2>9, <4>1, <4>2
    <3> QED
      BY <2>2, <2>9, <3>1 DEF Park, WaitPark, Post, SignalPost
  <2>10. CASE Update(t)
    BY <2>1, <2>2, <2>10, AfterType DEF Update, monitorVars
  <2>11. CASE CallSignal(t)
    BY <2>1, <2>2, <2>11 DEF CallSignal, monitorVars
  <2> QED
    BY <1>1, <2>3, <2>4, <2>5, <2>6, <2>7, <2>8, <2>9, <2>10, <2>11 DEF Step
<1>2. CASE UNCHANGED vars
  BY <1>2 DEF vars
<1> QED
  BY <1>1, <1>2 DEF Next

\* No step raises the balance.
LEMMA BalancedStep ==
    ASSUME AtMostTwo, Inv, [Next]_vars
    PROVE  Balanced'
<1> USE DEF Inv
<1>0. /\ KindOf \in [Threads -> Kinds]
      /\ s \in Nat /\ s' \in Nat /\ Posted \in Nat /\ Posted' \in Nat
  <2>1. s' \in Nat /\ w' \in [Kinds -> Nat]
    BY TypedStep DEF Typed
  <2>2. Posted' \in Nat
    BY <2>1 DEF Posted, Kinds, Producers, Consumers
  <2> QED
    BY <2>1, <2>2, ThreadsAssumption, PostedType DEF Typed
<1>1. ASSUME NEW t \in Threads, Step(t) PROVE Balanced'
  <2>1. KindOf[t] \in Kinds /\ wakes[t] \in Kinds
    BY <1>0 DEF Typed
  <2>2. \A place \in Places :
            Goto(t, place)
              /\ s' + Balance(place) + 2 * Posted' <= s + Balance(pc[t]) + 2 * Posted
            => Balanced'
    BY <1>0, BalanceKept
  <2>3. CASE CallEnter(t)
    <3>1. Goto(t, "test") /\ s' = s - 1 /\ Posted' = Posted /\ pc[t] = "enter"
      BY <2>3 DEF CallEnter, Enter, Posted
    <3> QED
      BY <1>0, <2>2, <3>1 DEF Balance, Holding, Owing, Places
  <2>4. CASE Reenter(t)
    <3>1. Goto(t, "enter") /\ s' = s - 1 /\ Posted' = Posted /\ pc[t] = "reenter"
      BY <2>4 DEF Reenter, Enter, Posted
    <3> QED
      BY <1>0, <2>2, <3>1 DEF Balance, Holding, Owing, Places
  <2>5. CASE LeaveFirst(t) \/ LeaveAgain(t) \/ CallLeave(t)
    <3>1. /\ s' = s + 1 /\ Posted' = Posted
          /\ \/ pc[t] = "leave" /\ Goto(t, "count")
             \/ pc[t] = "release" /\ Goto(t, "park")
             \/ pc[t] = "chain" /\ Goto(t, "enter")
      BY <2>5 DEF LeaveFirst, LeaveAgain, CallLeave, Leave, Posted
    <3> QED
      BY <1>0, <2>2, <3>1 DEF Balance, Holding, Owing, Places
  <2>6. CASE \/ Pass(t) \/ Count(t) \/ Resume(t) \/ Update(t) \/ CallSignal(t)
             \/ SignalLost(t) \/ CountAgain(t) \/ Uncount(t)
    <3>1. s' = s /\ Posted' = Posted
      BY <2>6 DEF Pass, Count, Resume, Update, CallSignal, SignalLost, SignalNone,
         CountAgain, WaitCount, Uncount, SignalCount, monitorVars, Posted
    <3>2. \E place \in Places : Goto(t, place) /\ Balance(place) <= Balance(pc[t])
      <4>1. \/ pc[t] = "test" /\ (Goto(t, "update") \/ Goto(t, "leave"))
            \/ pc[t] = "resume" /\ Goto(t, "update")
            \/ pc[t] = "update" /\ Goto(t, "chain")
            \/ pc[t] = "chain" /\ Goto(t, "signal")
            \/ pc[t] = "signal" /\ (Goto(t, "enter") \/ Goto(t, "post"))
            \/ pc[t] = "count" /\ Goto(t, "release")
        BY <2>6 DEF Pass, Count, Resume, Update, CallSignal, SignalLost, CountAgain, Uncount
      <4> QED
        BY <4>1 DEF Balance, Holding, Owing, Places
    <3>3. \A place : Balance(place) \in Int
      BY DEF Balance
    <3> QED
      BY <1>0, <2>2, <3>1, <3>2, <3>3
  <2>7. CASE Park(t)
    <3>1. /\ Goto(t, "resume") /\ pc[t] = "park" /\ s' = s
          /\ w' = [w EXCEPT ![KindOf[t]] = @ - 1]
      BY <2>7 DEF Park, WaitPark
    <3>2. Posted' = Posted - 1
      BY <2>1, <3>1, PostedStep DEF Typed
    <3> QED
      BY <1>0, <2>2, <3>1, <3>2 DEF Balance, Holding, Owing, Places
  <2>8. CASE Post(t)
    <3>1. /\ Goto(t, "reenter") /\ pc[t] = "post" /\ s' = s
          /\ w' = [w EXCEPT ![wakes[t]] = @ + 1]
      BY <2>8 DEF Post, SignalPost
    <3>2. Posted' = Posted + 1
      BY <2>1, <3>1, PostedStep DEF Typed
    <3> QED
      BY <1>0, <2>2, <3>1, <3>2 DEF Balance, Holding, Owing, Places
  <2> QED
    BY <1>1, <2>3, <2>4, <2>5, <2>6, <2>7, <2>8 DEF Step
<1>2. CASE UNCHANGED vars
  BY <1>2 DEF vars, Balanced, BalanceOf, Posted
<1> QED
  BY <1>1, <1>2 DEF Next

\* A step that leaves the counters alone and does not change whether a thread
\* is counted keeps them exact.
LEMMA ListedKept ==
    ASSUME Typed, Listed, NEW t \in Threads, NEW place, Goto(t, place),
           Counted(t) <=> place \in {"leave", "count", "release", "park", "resume"},
           numWaiting' = numWaiting
    PROVE  Listed'
<1>1. \A u \in Threads : Counted(u)' <=> Counted(u)
  BY DEF Typed, Goto, Counted
<1> QED
  BY <1>1 DEF Listed

\* The counters stay exact: a thread is the only one of its kind.
LEMMA ListedStep ==
    ASSUME OnePerKind, Inv, [Next]_vars
    PROVE  Listed'
<1> USE DEF Inv
<1>0. KindOf \in [Threads -> Kinds]
  BY ThreadsAssumption
<1>1. ASSUME NEW t \in Threads, Count(t) PROVE Listed'
  <2>1. KindOf[t] \in Kinds /\ ~Counted(t) /\ Counted(t)'
    BY <1>0, <1>1 DEF Typed, Count, Goto, Counted
  <2>2. \A u \in Threads : u # t => (Counted(u)' <=> Counted(u))
    BY <1>1 DEF Typed, Count, Goto, Counted
  <2>3. numWaiting[KindOf[t]] = 0
    BY <2>1 DEF Listed, OnePerKind
  <2>4. /\ numWaiting'[KindOf[t]] = 1
        /\ \A k \in Kinds \ {KindOf[t]} : numWaiting'[k] = numWaiting[k]
    BY <1>1, <2>1, <2>3 DEF Typed, Count
  <2> QED
    BY <2>1, <2>2, <2>4 DEF Listed, OnePerKind
<1>2. ASSUME NEW t \in Threads, Resume(t) PROVE Listed'
  <2>1. KindOf[t] \in Kinds /\ Counted(t) /\ ~Counted(t)'
    BY <1>0, <1>2 DEF Typed, Resume, Goto, Counted
  <2>2. \A u \in Threads : u # t => (Counted(u)' <=> Counted(u))
    BY <1>2 DEF Typed, Resume, Goto, Counted
  <2>3. numWaiting[KindOf[t]] = 1
    BY <2>1 DEF Listed, OnePerKind
  <2>4. /\ numWaiting'[KindOf[t]] = 0
        /\ \A k \in Kinds \ {KindOf[t]} : numWaiting'[k] = numWaiting[k]
    BY <1>2, <2>1, <2>3 DEF Typed, Resume
  <2> QED
    BY <2>1, <2>2, <2>4 DEF Listed, OnePerKind
<1>3. ASSUME NEW t \in Threads, Step(t), ~Count(t), ~Resume(t) PROVE Listed'
  <2>1. numWaiting' = numWaiting
    BY <1>3 DEF Step, CallEnter, Pass, LeaveFirst, CountAgain, LeaveAgain, Park, Update,
       CallSignal, CallLeave, SignalLost, Uncount, Post, Reenter
  <2>2. PICK place : /\ Goto(t, place)
                     /\ Counted(t) <=>
                            place \in {"leave", "count", "release", "park", "resume"}
    <3>1. \/ pc[t] \in {"test", "update", "chain", "signal", "post", "reenter", "enter"}
             /\ (\E p \in {"test", "update", "chain", "signal", "post", "reenter", "enter"} :
                    Goto(t, p))
          \/ pc[t] \in {"leave", "count", "release", "park"}
             /\ (\E p \in {"count", "release", "park", "resume"} : Goto(t, p))
      BY <1>3 DEF Step, CallEnter, Pass, LeaveFirst, CountAgain, LeaveAgain, Park, Update,
         CallSignal, CallLeave, SignalLost, Uncount, Post, Reenter
    <3> QED
      BY <3>1 DEF Counted
  <2> QED
    BY <2>1, <2>2, ListedKept
<1>4. CASE UNCHANGED vars
  BY <1>4 DEF vars, Listed, Counted
<1> QED
  BY <1>1, <1>2, <1>3, <1>4 DEF Next

-----------------------------------------------------------------------------
\* Counts and wake-ups find their thread in wait().
LEMMA SignalledStep ==
    ASSUME AtMostTwo, OnePerKind, Inv, [Next]_vars
    PROVE  Signalled'
<1> USE DEF Inv
<1>0. /\ KindOf \in [Threads -> Kinds]
      /\ pc \in [Threads -> Places] /\ wakes \in [Threads -> Kinds]
      /\ w \in [Kinds -> Nat] /\ waitingCount \in [Kinds -> Nat]
  BY ThreadsAssumption DEF Typed
<1>1. ASSUME NEW t \in Threads, CountAgain(t) PROVE Signalled'
  <2> DEFINE k == KindOf[t]
  <2>1. k \in Kinds /\ ~Expects(k)
    BY <1>0, <1>1 DEF Expects, OnePerKind, CountAgain
  <2>2. waitingCount[k] = 0 /\ w[k] = 0
    BY <2>1 DEF Signalled
  <2>3. /\ pc'[t] = "release" /\ \A u \in Threads : u # t => pc'[u] = pc[u]
        /\ w' = w /\ wakes' = wakes
        /\ waitingCount'[k] = 1
        /\ \A l \in Kinds : l # k => waitingCount'[l] = waitingCount[l]
    BY <1>0, <1>1, <2>1, <2>2 DEF CountAgain, WaitCount, Goto
  <2>4. Expects(k)' /\ \A l \in Kinds : Expects(l) => Expects(l)'
    BY <1>1, <2>3 DEF Expects, CountAgain
  <2>5. \A l \in Kinds : /\ waitingCount'[l] # 0 \/ w'[l] # 0 => Expects(l)'
                         /\ waitingCount'[l] + w'[l] <= 1
    BY <2>2, <2>3, <2>4 DEF Signalled
  <2>6. ASSUME NEW u \in Threads, pc'[u] = "post"
        PROVE  waitingCount'[wakes'[u]] = 0 /\ Expects(wakes[u])'
    <3>1. u # t /\ pc[u] = "post" /\ wakes[u] \in Kinds
      BY <1>0, <2>3, <2>6
    <3>2. waitingCount[wakes[u]] = 0 /\ Expects(wakes[u])
      BY <3>1 DEF Signalled
    <3> QED
      BY <2>1, <2>3, <2>4, <3>1, <3>2
  <2> QED
    BY <2>3, <2>5, <2>6 DEF Signalled, Expects
<1>2. ASSUME NEW t \in Threads, Park(t) PROVE Signalled'
  <2> DEFINE k == KindOf[t]
  <2>1. k \in Kinds /\ w[k] > 0
    BY <1>0, <1>2 DEF Park, WaitPark
  <2>2. /\ \A u \in Threads : pc[u] \notin Holding
        /\ w[k] = 1
    BY <2>1, Woken
  <2>3. waitingCount[k] = 0
    BY <1>0, <2>1, <2>2 DEF Signalled
  <2>4. /\ pc'[t] = "resume" /\ \A u \in Threads : u # t => pc'[u] = pc[u]
        /\ waitingCount' = waitingCount /\ w'[k] = 0
        /\ \A l \in Kinds : l # k => w'[l] = w[l]
    BY <1>0, <1>2, <2>1, <2>2 DEF Park, WaitPark, Goto
  <2>5. \A l \in Kinds : l # k /\ Expects(l) => Expects(l)'
    BY <2>4 DEF Expects
  <2>6. \A l \in Kinds : /\ waitingCount'[l] # 0 \/ w'[l] # 0 => Expects(l)'
                         /\ waitingCount'[l] + w'[l] <= 1
    BY <2>3, <2>4, <2>5 DEF Signalled
  <2>7. \A u \in Threads : pc'[u] # "post"
    BY <2>2, <2>4 DEF Holding
  <2> QED
    BY <2>6, <2>7 DEF Signalled
<1>3. ASSUME NEW t \in Threads, Uncount(t) PROVE Signalled'
  <2> DEFINE k == wakes[t]
  <2>1. k \in Kinds /\ waitingCount[k] # 0
    BY <1>0, <1>3 DEF Uncount, SignalCount
  <2>2. Expects(k) /\ waitingCount[k] = 1 /\ w[k] = 0
    <3>1. waitingCount[k] \in Nat /\ w[k] \in Nat /\ waitingCount[k] + w[k] <= 1
      BY <1>0, <2>1 DEF Signalled
    <3>2. Expects(k)
      BY <2>1 DEF Signalled
    <3> QED
      BY <2>1, <3>1, <3>2
  <2>3. \A u \in Threads : u # t => pc[u] # "post"
    BY <1>3, Alone DEF Uncount, Holding
  <2>4. /\ pc'[t] = "post" /\ \A u \in Threads : u # t => pc'[u] = pc[u]
        /\ w' = w /\ wakes' = wakes
        /\ waitingCount'[k] = 0
        /\ \A l \in Kinds : l # k => waitingCount'[l] = waitingCount[l]
    BY <1>0, <1>3, <2>1, <2>2 DEF Uncount, SignalCount, Goto
  <2>5. \A l \in Kinds : Expects(l)' <=> Expects(l)
    BY <1>3, <2>4 DEF Expects, Uncount
  <2>6. \A l \in Kinds : /\ waitingCount'[l] # 0 \/ w'[l] # 0 => Expects(l)'
                         /\ waitingCount'[l] + w'[l] <= 1
    BY <2>2, <2>4, <2>5 DEF Signalled
  <2>7. ASSUME NEW u \in Threads, pc'[u] = "post"
        PROVE  waitingCount'[wakes'[u]] = 0 /\ Expects(wakes[u])'
    BY <2>1, <2>2, <2>3, <2>4, <2>5, <2>7
  <2> QED
    BY <2>4, <2>6, <2>7 DEF Signalled, Expects
<1>4. ASSUME NEW t \in Threads, Post(t) PROVE Signalled'
  <2> DEFINE k == wakes[t]
  <2>1. k \in Kinds /\ waitingCount[k] = 0 /\ Expects(k)
    BY <1>0, <1>4 DEF Signalled, Post
  <2>2. /\ \A u \in Threads : u # t => pc[u] # "post"
        /\ w[k] = 0
    BY <1>4, <2>1, Alone DEF Post, Holding
  <2>3. /\ pc'[t] = "reenter" /\ \A u \in Threads : u # t => pc'[u] = pc[u]
        /\ waitingCount' = waitingCount /\ w'[k] = 1
        /\ \A l \in Kinds : l # k => w'[l] = w[l]
    BY <1>0, <1>4, <2>1, <2>2 DEF Post, SignalPost, Goto
  <2>4. \A l \in Kinds : Expects(l)' <=> Expects(l)
    BY <1>4, <2>3 DEF Expects, Post
  <2>5. \A l \in Kinds : /\ waitingCount'[l] # 0 \/ w'[l] # 0 => Expects(l)'
                         /\ waitingCount'[l] + w'[l] <= 1
    BY <2>1, <2>3, <2>4 DEF Signalled
  <2>6. \A u \in Threads : pc'[u] # "post"
    BY <2>2, <2>3
  <2> QED
    BY <2>5, <2>6 DEF Signalled
<1>5. ASSUME NEW t \in Threads, Step(t),
             ~CountAgain(t), ~Park(t), ~Uncount(t), ~Post(t)
      PROVE  Signalled'
  <2>1. w' = w /\ waitingCount' = waitingCount
    BY <1>5 DEF Step, CallEnter, Pass, Count, LeaveFirst, LeaveAgain, Resume, Update,
       CallSignal, CallLeave, SignalLost, Reenter, Enter, Leave, SignalNone, monitorVars
  <2>2. PICK place \in Places : Goto(t, place) /\ place # "post"
    BY <1>5 DEF Step, CallEnter, Pass, Count, LeaveFirst, LeaveAgain, Resume, Update,
       CallSignal, CallLeave, SignalLost, Reenter, Places
  <2>3. pc[t] = "release" => place = "park"
    BY <1>0, <1>5, <2>2 DEF Step, CallEnter, Pass, Count, LeaveFirst, LeaveAgain, Resume,
       Update, CallSignal, CallLeave, SignalLost, Reenter, Goto
  <2>4. pc[t] # "park"
    BY <1>5 DEF Step, CallEnter, Pass, Count, LeaveFirst, LeaveAgain, Resume, Update,
       CallSignal, CallLeave, SignalLost, Reenter
  <2>5. /\ pc'[t] = place /\ \A u \in Threads : u # t => pc'[u] = pc[u]
        /\ \A u \in Threads : u # t => wakes'[u] = wakes[u]
    BY <1>0, <1>5, <2>2 DEF Step, CallEnter, Pass, Count, LeaveFirst, LeaveAgain, Resume,
       Update, CallSignal, CallLeave, SignalLost, Reenter, Goto
  <2>6. \A l \in Kinds : Expects(l) => Expects(l)'
    BY <2>3, <2>4, <2>5 DEF Expects
  <2>7. \A l \in Kinds : /\ waitingCount'[l] # 0 \/ w'[l] # 0 => Expects(l)'
                         /\ waitingCount'[l] + w'[l] <= 1
    BY <2>1, <2>6 DEF Signalled
  <2>8. ASSUME NEW u \in Threads, pc'[u] = "post"
        PROVE  waitingCount'[wakes'[u]] = 0 /\ Expects(wakes[u])'
    <3>1. PICK l \in Kinds : l = wakes[u]
      BY <1>0
    <3>2. pc[u] = "post" /\ wakes'[u] = l
      BY <2>2, <2>5, <2>8, <3>1
    <3>3. waitingCount[l] = 0 /\ Expects(l)
      BY <3>1, <3>2 DEF Signalled
    <3>4. Expects(l)'
      BY <2>6, <3>3
    <3> QED
      BY <2>1, <3>2, <3>3, <3>4 DEF Expects
  <2> QED
    BY <2>7, <2>8 DEF Signalled, Expects
<1>6. CASE UNCHANGED vars
  BY <1>6 DEF vars, Signalled, Expects
<1> QED
  BY <1>1, <1>2, <1>3, <1>4, <1>5, <1>6 DEF Next

-----------------------------------------------------------------------------
\* A condition that was found true stays so until the buffer is used, because
\* whoever uses it is alone.
LEMMA CondHoldsStep ==
    ASSUME AtMostTwo, Inv, [Next]_vars
    PROVE  CondHolds'
<1> USE DEF Inv
<1>0. /\ KindOf \in [Threads -> Kinds]
      /\ pc \in [Threads -> Places] /\ wakes \in [Threads -> Kinds]
      /\ w \in [Kinds -> Nat]
  BY ThreadsAssumption DEF Typed
<1>1. ASSUME NEW t \in Threads, Update(t) PROVE CondHolds'
  <2>1. /\ \A u \in Threads : u # t => pc[u] \notin Holding
        /\ \A k \in Kinds : w[k] = 0
    BY <1>1, Alone DEF Update, Holding
  <2>2. /\ pc'[t] = "chain" /\ \A u \in Threads : u # t => pc'[u] = pc[u]
        /\ w' = w
    BY <1>0, <1>1 DEF Update, Goto, monitorVars
  <2> QED
    BY <2>1, <2>2 DEF CondHolds, Holding
<1>2. ASSUME NEW t \in Threads, CallSignal(t) PROVE CondHolds'
  <2>1. PICK c \in Kinds : /\ Wakes(KindOf[t], c, numWaiting, buffer)
                           /\ wakes' = [wakes EXCEPT ![t] = c]
    BY <1>2 DEF CallSignal
  <2>2. KindOf[t] \in Kinds
    BY <1>0
  <2>3. Can(c, buffer)
    BY <2>1, <2>2, WakesFacts
  <2>4. /\ pc'[t] = "signal" /\ \A u \in Threads : u # t => pc'[u] = pc[u]
        /\ wakes'[t] = c /\ \A u \in Threads : u # t => wakes'[u] = wakes[u]
        /\ w' = w /\ buffer' = buffer
    BY <1>0, <1>2, <2>1 DEF CallSignal, Goto, monitorVars
  <2> QED
    BY <2>3, <2>4 DEF CondHolds
<1>3. ASSUME NEW t \in Threads, Park(t) PROVE CondHolds'
  <2>1. KindOf[t] \in Kinds /\ w[KindOf[t]] > 0
    BY <1>0, <1>3 DEF Park, WaitPark
  <2>2. Can(KindOf[t], buffer)
    BY <2>1 DEF CondHolds
  <2>3. \A k \in Kinds : w'[k] > 0 => w[k] > 0
    BY <1>0, <1>3, <2>1 DEF Park, WaitPark
  <2>4. /\ pc'[t] = "resume" /\ \A u \in Threads : u # t => pc'[u] = pc[u]
        /\ wakes' = wakes /\ buffer' = buffer
    BY <1>0, <1>3 DEF Park, Goto
  <2> QED
    BY <2>2, <2>3, <2>4 DEF CondHolds
<1>4. ASSUME NEW t \in Threads, Post(t) PROVE CondHolds'
  <2>1. wakes[t] \in Kinds /\ Can(wakes[t], buffer)
    BY <1>0, <1>4 DEF CondHolds, Post
  <2>2. \A k \in Kinds : k # wakes[t] => w'[k] = w[k]
    BY <1>0, <1>4, <2>1 DEF Post, SignalPost
  <2>3. /\ pc'[t] = "reenter" /\ \A u \in Threads : u # t => pc'[u] = pc[u]
        /\ wakes' = wakes /\ buffer' = buffer
    BY <1>0, <1>4 DEF Post, Goto
  <2> QED
    BY <2>1, <2>2, <2>3 DEF CondHolds
<1>5. ASSUME NEW t \in Threads, Step(t),
             ~Update(t), ~CallSignal(t), ~Park(t), ~Post(t)
      PROVE  CondHolds'
  <2>1. w' = w /\ wakes' = wakes /\ buffer' = buffer
    BY <1>5 DEF Step, CallEnter, Pass, Count, LeaveFirst, CountAgain, LeaveAgain, Resume,
       CallLeave, SignalLost, Uncount, Reenter, Enter, Leave, WaitCount, SignalNone,
       SignalCount, monitorVars
  <2>2. PICK place \in Places : Goto(t, place)
    BY <1>5 DEF Step, CallEnter, Pass, Count, LeaveFirst, CountAgain, LeaveAgain, Resume,
       CallLeave, SignalLost, Uncount, Reenter, Places
  <2>3. pc'[t] = place /\ \A u \in Threads : u # t => pc'[u] = pc[u]
    BY <1>0, <2>2 DEF Goto
  <2>4. /\ place \in {"update", "resume"} => Can(KindOf[t], buffer)
        /\ place \in {"signal", "post"} => Can(wakes[t], buffer)
    BY <1>5, <2>3 DEF CondHolds, Step, CallEnter, Pass, Count, LeaveFirst, CountAgain,
       LeaveAgain, Resume, CallLeave, SignalLost, Uncount, Reenter, Goto, Typed
  <2> QED
    BY <2>1, <2>3, <2>4 DEF CondHolds
<1>6. CASE UNCHANGED vars
  BY <1>6 DEF vars, CondHolds
<1> QED
  BY <1>1, <1>2, <1>3, <1>4, <1>5, <1>6 DEF Next

-----------------------------------------------------------------------------
\* The invariant.
LEMMA Invariance ==
    ASSUME AtMostTwo, OnePerKind
    PROVE  Spec => []Inv
<1>0. KindOf \in [Threads -> Kinds] /\ Conditions = Kinds
  BY ThreadsAssumption, MonitorAssumption
<1>1. Init => Inv
  <2> SUFFICES ASSUME Init PROVE Inv
    OBVIOUS
  <2> USE DEF Init
  <2>1. /\ s = 1 /\ Posted = 0
        /\ \A k \in Kinds : w[k] = 0 /\ waitingCount[k] = 0
    BY <1>0 DEF MonitorInit, Posted, Kinds, Producers, Consumers
  <2>2. Typed
    BY <1>0 DEF MonitorInit, Typed, Places
  <2>3. Balanced
    BY <2>1 DEF Balanced, BalanceOf, Balance, Holding, Owing
  <2>4. Listed /\ Signalled /\ CondHolds
    BY <2>1 DEF Listed, Counted, Signalled, CondHolds
  <2> QED
    BY <2>2, <2>3, <2>4 DEF Inv
<1>2. Inv /\ [Next]_vars => Inv'
  BY TypedStep, BalancedStep, ListedStep, SignalledStep, CondHoldsStep DEF Inv
<1> QED
  BY <1>1, <1>2, PTL DEF Spec

\* Every variable stays in its type: s never passes 3, no wake-up is posted
\* twice, no counter of the monitor or of the threads passes 1 or falls
\* below 0.
THEOREM TypeCorrect ==
    ASSUME AtMostTwo, OnePerKind
    PROVE  Spec => []TypeOK
<1>1. Inv => TypeOK
  <2> SUFFICES ASSUME Inv PROVE TypeOK
    OBVIOUS
  <2> USE DEF Inv
  <2>1. PICK t, u \in Threads : Threads = {t, u}
    BY DEF AtMostTwo
  <2>2. s + BalanceOf(t, u) + 2 * Posted <= 1
    BY <2>1 DEF Balanced
  <2>3. BalanceOf(t, u) \in Int /\ BalanceOf(t, u) >= -2
    BY DEF BalanceOf, Balance
  <2>4. s \in Nat /\ Posted \in Nat
    BY PostedType DEF Typed
  <2>5. s \in 0..3
    BY <2>2, <2>3, <2>4
  <2>6. ASSUME NEW k \in Kinds
        PROVE  w[k] \in 0..1 /\ waitingCount[k] \in 0..1 /\ numWaiting[k] \in 0..1
    <3>1. w[k] \in Nat /\ waitingCount[k] \in Nat
      BY DEF Typed
    <3>2. waitingCount[k] + w[k] <= 1
      BY DEF Signalled
    <3>3. numWaiting[k] = 0 \/ numWaiting[k] = 1
      BY DEF Listed
    <3> QED
      BY ONLY <3>1, <3>2, <3>3
  <2> QED
    BY <2>5, <2>6, MonitorAssumption DEF Typed, TypeOK
<1> QED
  BY <1>1, Invariance, PTL

\* No two threads are at the buffer or the counters at the same time, although
\* the calls of enter() and leave() do not match.
THEOREM Exclusive ==
    ASSUME AtMostTwo, OnePerKind
    PROVE  Spec => []MutualExclusion
<1>1. Inv => MutualExclusion
  BY Alone DEF Inv, MutualExclusion, Inside, Holding
<1> QED
  BY <1>1, Invariance, PTL

-----------------------------------------------------------------------------
\* Promise sees the same Buffer: what it says of a condition and of an
\* operation is what this module says.
LEMMA SameBuffer ==
    \A k, b : Promise!Can(k, b) = Can(k, b) /\ Promise!After(k, b) = After(k, b)
<1>1. \A S : Promise!Cardinality(S) = Cardinality(S)
  BY Zenon DEF Promise!Cardinality, Cardinality, Promise!IsFiniteSet, IsFiniteSet
<1>2. \A b : Promise!CountEven(b) = CountEven(b)
  BY <1>1 DEF Promise!CountEven, CountEven, Promise!Occurrences, Occurrences
<1>3. \A k, b : Promise!Can(k, b) = Can(k, b)
  BY <1>2 DEF Promise!Can, Can, Promise!CanProdEven, Promise!CanProdOdd,
     Promise!CanConsEven, Promise!CanConsOdd, CanProdEven, CanProdOdd, CanConsEven,
     CanConsOdd, Promise!HeadIs, HeadIs, Promise!CountOdd, CountOdd
<1>4. \A k, b : Promise!After(k, b) = After(k, b)
  BY DEF Promise!After, After, Promise!Put, Put, Promise!Get, Get, Promise!ParityOf,
     ParityOf, Promise!Kinds, Kinds, Promise!Producers, Producers, Promise!Consumers,
     Consumers
<1> QED
  BY <1>3, <1>4

\* Each change of the buffer is one whole operation of a kind whose condition
\* holds at that moment, also after a wait.
THEOREM Refinement ==
    ASSUME AtMostTwo, OnePerKind
    PROVE  Spec => Implements
<1> DEFINE Present == {KindOf[t] : t \in Threads}
<1>1. Init => Promise!Init
  BY DEF Init, Promise!Init
<1>2. Inv /\ [Next]_vars => [Promise!Next]_buffer
  <2> SUFFICES ASSUME Inv, Next PROVE Promise!Next \/ UNCHANGED buffer
    BY DEF vars
  <2>1. ASSUME NEW t \in Threads, Update(t) PROVE Promise!Next
    <3>1. KindOf[t] \in Present
      BY <2>1
    <3>2. Can(KindOf[t], buffer) /\ buffer' = After(KindOf[t], buffer)
      BY <2>1 DEF Inv, CondHolds, Update
    <3>3. Promise!Use(KindOf[t])
      BY <3>2, SameBuffer DEF Promise!Use
    <3> QED
      BY <3>1, <3>3 DEF Promise!Next
  <2>2. ASSUME NEW t \in Threads, Step(t), ~Update(t) PROVE UNCHANGED buffer
    BY <2>2 DEF Step, CallEnter, Pass, Count, LeaveFirst, CountAgain, LeaveAgain, Park,
       Resume, CallSignal, CallLeave, SignalLost, Uncount, Post, Reenter
  <2> QED
    BY <2>1, <2>2 DEF Next
<1> QED
  BY <1>1, <1>2, Invariance, PTL DEF Spec, Promise!Spec, Implements
=============================================================================
