-------------------------- MODULE TaskSched_proof --------------------------
(***************************************************************************)
(* Proofs about TaskSched, for any set of tasks with any delays, any       *)
(* length of a second and of a day, and any bounds on the time a round     *)
(* takes: no signal is lost, no task is lost or doubled, and every tick by *)
(* which a task runs early was on the loop's books when it was added or    *)
(* was charged again.                                                      *)
(***************************************************************************)
EXTENDS TaskSched, TLAPS

\* The event as the loop uses it: the loop is inside wait() exactly while it
\* blocks, it is counted then, and it is woken only by a signal.
EvInv ==
    /\ at[Loop] # "out" <=> pc = "block"
    /\ at[Loop] # "cv"
    /\ consumer = IF at[Loop] = "out" THEN 0 ELSE 1
    /\ at[Loop] = "woken" => signaled
    /\ SignalKept

\* The times of a round.
ClockInv ==
    /\ waited \in 0..(K + Late) /\ spent - waited \in 0..Busy
    /\ pc \in {"fetch", "scan", "wait"} => waited = 0
    /\ pc \in {"scan", "wait", "block", "check"} => ms < K
    /\ pc \in {"head", "fetch"} => ms < K + MaxRound
    /\ stopPc # "no" => stop
    /\ at[Loop] = "expired" => waited >= K

\* The lists, with what is needed of the tasks in them.
ListInv ==
    /\ OnceInLists
    /\ \A j \in 1..Len(tasks) : K * tasks[j].period <= MaxAge
    /\ \A j \in 1..Len(tmp) : K * tmp[j].period <= MaxAge
    /\ \A x \in Ids : need[x] # Absent => K * need[x] <= MaxAge

\* The ticks that the task at index j is charged with or is about to be, and
\* those among them that need not have passed since the task was added.
Charged(t) == K * (need[t.id] - t.count)
Pending(j) == IF pc = "scan" /\ i <= j THEN K * sec ELSE 0
Granted == [x \in Ids |-> booked[x] + K * again[x]]

\* A task is not charged with more than its age and what it was granted.
InTime(t, pending) ==
    \/ age[t.id] = MaxAge
    \/ Charged(t) + pending + Uncharged <= age[t.id] + Granted[t.id]

EarlyInv ==
    pc # "end" =>
        /\ \A x \in Ids : booked[x] <= Slack
        /\ \A j \in 1..Len(tasks) : InTime(tasks[j], Pending(j))
        /\ \A j \in 1..Len(tmp) : InTime(tmp[j], 0)

-----------------------------------------------------------------------------
(* Facts about the operators of the model. *)

\* Erasing at index j (thread.cc:138-139) leaves every other task where it was,
\* but for the last one, which takes the free place.
LEMMA EraseAtElements ==
    ASSUME NEW S, NEW q \in Seq(S), NEW j \in 1..Len(q)
    PROVE  /\ EraseAt(q, j) \in Seq(S)
           /\ Len(EraseAt(q, j)) = Len(q) - 1
           /\ \A k \in 1..(Len(q) - 1) : EraseAt(q, j)[k] = IF k = j THEN q[Len(q)] ELSE q[k]
  <1>1. Len(q) \in Nat /\ Last(q) = q[Len(q)] /\ q[Len(q)] \in S
    BY DEF Last
  <1>2. CASE j = Len(q)
    BY <1>1, <1>2 DEF EraseAt, Front
  <1>3. CASE j # Len(q)
    <2> DEFINE r == [q EXCEPT ![j] = Last(q)]
    <2>1. r \in Seq(S) /\ Len(r) = Len(q)
      BY <1>1
    <2>2. \A k \in 1..Len(q) : r[k] = IF k = j THEN q[Len(q)] ELSE q[k]
      BY <1>1, <2>1
    <2>3. EraseAt(q, j) = Front(r)
      BY <1>3 DEF EraseAt
    <2> HIDE DEF r
    <2>4. /\ Front(r) \in Seq(S) /\ Len(Front(r)) = Len(r) - 1
          /\ \A k \in 1..(Len(r) - 1) : Front(r)[k] = r[k]
      BY <2>1, <1>1 DEF Front
    <2> QED
      BY <2>1, <2>2, <2>3, <2>4, <1>1
  <1> QED
    BY <1>2, <1>3

\* The seconds and the rest that TakeSeconds makes of ms (thread.cc:124-127).
LEMMA DivMod ==
    ASSUME NEW m \in Nat, NEW k \in Nat \ {0}
    PROVE  /\ m \div k \in Nat /\ m % k \in 0..(k - 1)
           /\ k * (m \div k) \in Nat /\ k * (m \div k) + (m % k) = m
  OBVIOUS

\* Seconds in ticks.
LEMMA Ticks ==
    ASSUME NEW k \in Nat \ {0}, NEW a \in Int, NEW b \in Int
    PROVE  /\ k * a \in Int /\ k * 0 = 0 /\ k * (a - a) = 0
           /\ k * (a - b) = k * a - k * b
           /\ a <= 0 => k * a <= 0
           /\ a <= b => k * a <= k * b
  OBVIOUS

\* The constants, one by one.
LEMMA Constants ==
    /\ K \in Nat \ {0} /\ Day \in Nat \ {0} /\ Busy \in Nat /\ Late \in Nat /\ MaxAge \in Nat
    /\ MaxRound \in Nat /\ MaxRound = Busy + K + Late
    /\ \A x \in Ids : Job[x] \in Jobs
    /\ NoTask \notin Ids
    /\ K * Day <= MaxAge /\ \A x \in Ids : K * Job[x].sec <= MaxAge
  BY JobAssumption DEF MaxRound

\* The loop is the only waiter, so a wait that returns true resets the event.
LEMMA ConsumeResets ==
    ASSUME Ev!Consume(0), surplus \in {0, 1}
    PROVE  signaled' = FALSE /\ surplus' = 0
  <1>1. signaled' = FALSE
    BY Zenon DEF Ev!Consume
  <1>2. surplus' = 0
    BY DEF Ev!Consume
  <1> QED
    BY <1>1, <1>2

-----------------------------------------------------------------------------
(* The event and the clock. *)

Core == TypeOK /\ EvInv /\ ClockInv

\* The loop starts at its head, with an event that is not set.
LEMMA InitCore == Init => Core
  <1> SUFFICES ASSUME Init PROVE Core
    OBVIOUS
  <1> USE Constants DEF Init, Ev!EvInit, Loop
  <1>1. Ev!EvTypeOK
    BY DEF Ev!EvTypeOK, Ev!Places
  <1>2. /\ age \in [Ids -> 0..MaxAge] /\ need \in [Ids -> Nat \cup {Absent}]
        /\ booked \in [Ids -> Nat] /\ again \in [Ids -> Nat]
    OBVIOUS
  <1>3. tasks \in Seq(Task) /\ tmp \in Seq(Task) /\ i \in 1..(Len(tasks) + 1)
    OBVIOUS
  <1>4. TypeOK
    <2>1. ms \in Nat /\ sec \in Nat /\ spent \in 0..MaxRound /\ waited \in 0..MaxRound
      OBVIOUS
    <2> QED
      BY <1>1, <1>2, <1>3, <2>1, Zenon DEF TypeOK
  <1>5. EvInv
    BY DEF EvInv, SignalKept, Ev!SignalKept, Ev!Blocked
  <1>6. ClockInv
    BY DEF ClockInv
  <1> QED
    BY <1>4, <1>5, <1>6 DEF Core

\* The types are kept.
LEMMA NextTypeOK == Core /\ [Next]_vars => TypeOK'
  <1> SUFFICES ASSUME Core, [Next]_vars PROVE TypeOK'
    OBVIOUS
  <1> USE DEF TypeOK, evVars, listVars, clockVars, onceVars
  <1>0. TypeOK /\ EvInv /\ ClockInv
    BY DEF Core
  <1>S. ASSUME NEW x \in Ids, Starts(x)
        PROVE  /\ age' \in [Ids -> 0..MaxAge]
               /\ booked' \in [Ids -> Nat] /\ again' \in [Ids -> Nat]
    <2>1. Uncharged \in Nat
      BY <1>0, Constants DEF Uncharged
    <2> QED
      BY <1>0, <1>S, <2>1, Constants DEF Starts
  <1>1. ASSUME NEW x \in Ids, Run(x) PROVE TypeOK'
    <2>1. PICK n \in FirstDelays(x) : tmp' = Append(tmp, NewTask(x, n)) /\ need' = [need EXCEPT ![x] = n]
      BY <1>1 DEF Run
    <2>2. n \in Nat /\ NewTask(x, n) \in Task
      BY Constants DEF FirstDelays, NewTask, Task, Jobs
    <2>3. tmp' \in Seq(Task) /\ need' \in [Ids -> Nat \cup {Absent}]
      BY <1>0, <2>1, <2>2
    <2>4. Ev!EvTypeOK'
      BY <1>0, <1>1 DEF Run, Ev!SetSignal, Ev!evVars, Ev!EvTypeOK, Ev!Places
    <2>5. age' \in [Ids -> 0..MaxAge] /\ booked' \in [Ids -> Nat] /\ again' \in [Ids -> Nat]
      BY <1>1, <1>S DEF Run
    <2> QED
      BY <1>0, <1>1, <2>3, <2>4, <2>5 DEF Run
  <1>2. CASE StopSwap
    BY <1>0, <1>2 DEF StopSwap, Ev!EvTypeOK
  <1>3. CASE StopSignal
    <2>1. Ev!EvTypeOK'
      BY <1>0, <1>3 DEF StopSignal, Ev!SetSignal, Ev!evVars, Ev!EvTypeOK, Ev!Places
    <2> QED
      BY <1>0, <1>3, <2>1 DEF StopSignal
  <1>4. CASE StopJoin
    <2>1. need' \in [Ids -> Nat \cup {Absent}]
      BY <1>4 DEF StopJoin
    <2>2. tasks' \in Seq(Task) /\ tmp' \in Seq(Task) /\ i' \in 1..(Len(tasks') + 1)
      BY <1>4 DEF StopJoin
    <2> QED
      BY <1>0, <1>4, <2>1, <2>2 DEF StopJoin, Ev!EvTypeOK
  <1>5. CASE LoopHead
    BY <1>0, <1>5, Constants DEF LoopHead, Ev!EvTypeOK
  <1>6. CASE LoopFetch
    <2>1. tasks' \in Seq(Task) /\ Len(tasks') \in Nat /\ tmp' \in Seq(Task)
      BY <1>0, <1>6 DEF LoopFetch
    <2>2. ms' \in Nat /\ sec' \in Nat
      <3>1. ms \div K \in Nat /\ ms % K \in 0..(K - 1)
        BY <1>0, Constants, DivMod
      <3>2. ms % K \in Nat
        BY <3>1, Constants
      <3> QED
        BY <1>0, <1>6, <3>1, <3>2, Constants DEF LoopFetch, TakeSeconds
    <2>3. again' \in [Ids -> Nat]
      BY <1>0, <1>6 DEF LoopFetch, ChargesAgain
    <2> QED
      BY <1>0, <1>6, <2>1, <2>2, <2>3 DEF LoopFetch, Ev!EvTypeOK
  <1>7. CASE ScanTask
    <2> DEFINE t == tasks[i]
    <2>1. i \in 1..Len(tasks) /\ tasks \in Seq(Task) /\ sec \in Nat
      BY <1>0, <1>7 DEF ScanTask
    <2>2. t \in Task
      BY <2>1
    <2>3. t.id \in Ids /\ t.period \in Nat /\ t.count \in Int
      BY <2>2 DEF Task
    <2>4. CASE t.count - sec > 0
      <3>1. [t EXCEPT !.count = t.count - sec] \in Task
        <4>1. \A u \in Task, n \in Int : [u EXCEPT !.count = n] \in Task
          BY DEF Task
        <4>2. t.count - sec \in Int
          BY <2>1, <2>3
        <4> QED
          BY <2>2, <4>1, <4>2
      <3>2. tasks' = [tasks EXCEPT ![i] = [t EXCEPT !.count = t.count - sec]] /\ i' = i + 1
        BY <1>7, <2>4 DEF ScanTask
      <3>3. tasks' \in Seq(Task) /\ Len(tasks') = Len(tasks)
        BY <2>1, <3>1, <3>2
      <3> QED
        BY <1>0, <1>7, <2>1, <2>4, <3>2, <3>3 DEF ScanTask, Ev!EvTypeOK
    <2>5. CASE ~(t.count - sec > 0)
      <3>1. age' \in [Ids -> 0..MaxAge] /\ booked' \in [Ids -> Nat] /\ again' \in [Ids -> Nat]
        <4>1. Starts(t.id)
          BY <1>7, <2>5 DEF ScanTask
        <4> QED
          BY <1>S, <2>3, <4>1
      <3>2. need' \in [Ids -> Nat \cup {Absent}] /\ ran' \in Ids
        BY <1>0, <1>7, <2>3, <2>5 DEF ScanTask
      <3>3. tasks' \in Seq(Task) /\ i' \in 1..(Len(tasks') + 1)
        <4>1. CASE t.period > 0
          <5>1. [t EXCEPT !.count = t.period] \in Task
            BY <2>2, <2>3 DEF Task
          <5>2. tasks' = [tasks EXCEPT ![i] = [t EXCEPT !.count = t.period]] /\ i' = i + 1
            BY <1>7, <2>5, <4>1 DEF ScanTask
          <5> QED
            BY <2>1, <5>1, <5>2
        <4>2. CASE ~(t.period > 0)
          <5>1. tasks' = EraseAt(tasks, i) /\ i' = i
            BY <1>7, <2>5, <4>2 DEF ScanTask
          <5> QED
            BY <2>1, <5>1, EraseAtElements
        <4> QED
          BY <4>1, <4>2
      <3> QED
        BY <1>0, <1>7, <3>1, <3>2, <3>3 DEF ScanTask, Ev!EvTypeOK
    <2> QED
      BY <2>4, <2>5
  <1>8. CASE ScanEnd
    BY <1>0, <1>8 DEF ScanEnd, Ev!EvTypeOK
  <1>9. CASE LoopWait
    <2>1. Ev!EvTypeOK'
      <3>1. CASE Ev!WaitNow(Loop)
        BY <1>0, <3>1, ConsumeResets DEF Ev!WaitNow, Ev!EvTypeOK, EvInv
      <3>2. CASE Ev!WaitBlock(Loop, "tcv")
        BY <1>0, <3>2 DEF Ev!WaitBlock, Ev!EvTypeOK, Ev!Places, Loop
      <3> QED
        BY <1>9, <3>1, <3>2 DEF LoopWait
    <2> QED
      BY <1>0, <1>9, <2>1 DEF LoopWait
  <1>10. CASE LoopExpire
    <2>1. Ev!EvTypeOK'
      BY <1>0, <1>10 DEF LoopExpire, Ev!WaitExpire, Ev!EvTypeOK, Ev!Places, Loop
    <2> QED
      BY <1>0, <1>10, <2>1 DEF LoopExpire
  <1>11. CASE LoopWoken
    <2>1. Ev!EvTypeOK'
      <3>1. CASE Ev!WaitReturn(Loop)
        <4>1. consumer - 1 = 0
          BY <1>0, <3>1 DEF Ev!WaitReturn, EvInv
        <4>2. signaled' = FALSE /\ surplus' = 0 /\ consumer' = 0
          BY <1>0, <3>1, <4>1, ConsumeResets DEF Ev!WaitReturn, Ev!EvTypeOK
        <4>3. at' \in [{Loop} -> Ev!Places]
          BY <1>0, <3>1 DEF Ev!WaitReturn, Ev!EvTypeOK, Ev!Places
        <4> QED
          BY <4>2, <4>3 DEF Ev!EvTypeOK
      <3>2. CASE Ev!WaitTimeout(Loop)
        BY <1>0, <3>2 DEF Ev!WaitTimeout, Ev!EvTypeOK, Ev!Places, Loop, EvInv
      <3> QED
        BY <1>11, <3>1, <3>2 DEF LoopWoken
    <2> QED
      BY <1>0, <1>11, <2>1 DEF LoopWoken
  <1>12. CASE LoopCheck
    BY <1>0, <1>12 DEF LoopCheck, Ev!EvTypeOK
  <1>13. CASE Tick
    <2>1. spent' \in 0..MaxRound /\ waited' \in 0..MaxRound
      BY <1>0, <1>13, Constants DEF Tick, ClockInv
    <2>2. age' \in [Ids -> 0..MaxAge]
      BY <1>0, <1>13, Constants DEF Tick
    <2> QED
      BY <1>0, <1>13, <2>1, <2>2 DEF Tick, Ev!EvTypeOK
  <1>14. CASE UNCHANGED vars
    BY <1>0, <1>14 DEF vars, auxVars, Ev!EvTypeOK
  <1> QED
    BY <1>1, <1>2, <1>3, <1>4, <1>5, <1>6, <1>7, <1>8, <1>9, <1>10, <1>11, <1>12, <1>13, <1>14
    DEF Next, LoopStep

\* The event is kept in order, a signal that comes while the wait expires too.
LEMMA NextEvInv == Core /\ [Next]_vars => EvInv'
  <1> SUFFICES ASSUME Core, [Next]_vars PROVE EvInv'
    OBVIOUS
  <1> USE DEF EvInv, SignalKept, Ev!SignalKept, Ev!Blocked, Loop, evVars
  <1>0. EvInv /\ Ev!EvTypeOK
    BY DEF Core, TypeOK
  <1>1. CASE /\ UNCHANGED evVars
             /\ pc' = pc \/ {pc, pc'} \cap {"block"} = {}
    BY <1>0, <1>1
  <1>2. CASE Ev!SetSignal /\ UNCHANGED pc
    BY <1>0, <1>2 DEF Ev!SetSignal, Ev!evVars, Ev!EvTypeOK, Ev!Places
  <1>3. CASE LoopWait
    <2>1. CASE Ev!WaitNow(Loop) /\ pc' = "check"
      BY <1>0, <1>3, <2>1, ConsumeResets DEF LoopWait, Ev!WaitNow, Ev!EvTypeOK, Ev!Places
    <2>2. CASE Ev!WaitBlock(Loop, "tcv") /\ pc' = "block"
      BY <1>0, <1>3, <2>2 DEF LoopWait, Ev!WaitBlock, Ev!EvTypeOK, Ev!Places
    <2> QED
      BY <1>3, <2>1, <2>2 DEF LoopWait
  <1>4. CASE LoopExpire
    BY <1>0, <1>4 DEF LoopExpire, Ev!WaitExpire, Ev!EvTypeOK, Ev!Places
  <1>5. CASE LoopWoken
    <2>1. CASE Ev!WaitReturn(Loop)
      <3>1. consumer - 1 = 0
        BY <1>0, <2>1 DEF Ev!WaitReturn
      <3> QED
        BY <1>0, <1>5, <2>1, <3>1, ConsumeResets DEF LoopWoken, Ev!WaitReturn, Ev!EvTypeOK, Ev!Places
    <2>2. CASE Ev!WaitTimeout(Loop)
      BY <1>0, <1>5, <2>2 DEF LoopWoken, Ev!WaitTimeout, Ev!EvTypeOK, Ev!Places
    <2> QED
      BY <1>5, <2>1, <2>2 DEF LoopWoken
  <1>6. ASSUME NEW x \in Ids, Run(x) PROVE EvInv'
    BY <1>1, <1>2, <1>6 DEF Run
  <1>7. StopSwap \/ StopSignal \/ StopJoin => EvInv'
    BY <1>1, <1>2 DEF StopSwap, StopSignal, StopJoin
  <1>8. LoopHead \/ LoopFetch \/ ScanTask \/ ScanEnd \/ LoopCheck \/ Tick => EvInv'
    BY <1>1 DEF LoopHead, LoopFetch, ScanTask, ScanEnd, LoopCheck, Tick
  <1>9. CASE UNCHANGED vars
    BY <1>1, <1>9 DEF vars
  <1> QED
    BY <1>3, <1>4, <1>5, <1>6, <1>7, <1>8, <1>9 DEF Next, LoopStep

\* The clock is kept in order.
LEMMA NextClockInv == Core /\ [Next]_vars => ClockInv'
  <1> SUFFICES ASSUME Core, [Next]_vars PROVE ClockInv'
    OBVIOUS
  <1> USE Constants DEF ClockInv, evVars, clockVars
  <1>0. /\ EvInv /\ Ev!EvTypeOK /\ ClockInv
        /\ ms \in Nat /\ sec \in Nat /\ spent \in 0..MaxRound /\ waited \in 0..MaxRound
        /\ stop \in BOOLEAN
    BY DEF Core, TypeOK
  <1>1. ASSUME NEW x \in Ids, Run(x) PROVE ClockInv'
    <2>1. CASE UNCHANGED evVars
      BY <1>0, <1>1, <2>1 DEF Run
    <2>2. CASE Ev!SetSignal
      <3>1. at'[Loop] = "expired" => at[Loop] = "expired"
        BY <1>0, <2>2 DEF Ev!SetSignal, Ev!evVars, Ev!EvTypeOK, Loop
      <3> QED
        BY <1>0, <1>1, <2>2, <3>1 DEF Run
    <2> QED
      BY <1>1, <2>1, <2>2 DEF Run
  <1>2. CASE StopSwap
    BY <1>0, <1>2 DEF StopSwap
  <1>3. CASE StopSignal
    <2>1. at'[Loop] = "expired" => at[Loop] = "expired"
      BY <1>0, <1>3 DEF StopSignal, Ev!SetSignal, Ev!evVars, Ev!EvTypeOK, Loop
    <2> QED
      BY <1>0, <1>3, <2>1 DEF StopSignal
  <1>4. CASE StopJoin
    BY <1>0, <1>4 DEF StopJoin
  <1>5. CASE LoopHead
    BY <1>0, <1>5 DEF LoopHead, EvInv
  <1>6. CASE LoopFetch
    <2>1. ms' < K
      <3>1. CASE ms >= K
        <4>1. ms' = ms % K /\ ms % K \in 0..(K - 1)
          BY <1>0, <1>6, <3>1, DivMod DEF LoopFetch, TakeSeconds
        <4> QED
          BY <4>1
      <3>2. CASE ~(ms >= K)
        BY <1>0, <1>6, <3>2 DEF LoopFetch, TakeSeconds
      <3> QED
        BY <3>1, <3>2
    <2> QED
      BY <1>0, <1>6, <2>1 DEF LoopFetch
  <1>7. CASE ScanTask
    BY <1>0, <1>7 DEF ScanTask
  <1>8. CASE ScanEnd
    BY <1>0, <1>8 DEF ScanEnd
  <1>9. CASE LoopWait
    <2>1. CASE Ev!WaitNow(Loop) /\ pc' = "check"
      BY <1>0, <1>9, <2>1, ConsumeResets DEF LoopWait, Ev!WaitNow, Ev!EvTypeOK, EvInv
    <2>2. CASE Ev!WaitBlock(Loop, "tcv") /\ pc' = "block"
      BY <1>0, <1>9, <2>2 DEF LoopWait, Ev!WaitBlock, Ev!EvTypeOK, Loop
    <2> QED
      BY <1>9, <2>1, <2>2 DEF LoopWait
  <1>10. CASE LoopExpire
    BY <1>0, <1>10 DEF LoopExpire, Ev!WaitExpire, Ev!EvTypeOK, Loop
  <1>11. CASE LoopWoken
    <2>1. CASE Ev!WaitReturn(Loop)
      <3>1. consumer - 1 = 0 /\ signaled
        BY <1>0, <2>1 DEF Ev!WaitReturn, EvInv
      <3> QED
        BY <1>0, <1>11, <2>1, <3>1, ConsumeResets DEF LoopWoken, Ev!WaitReturn, Ev!EvTypeOK, Loop
    <2>2. CASE Ev!WaitTimeout(Loop)
      BY <1>0, <1>11, <2>2 DEF LoopWoken, Ev!WaitTimeout, Ev!EvTypeOK, Loop
    <2> QED
      BY <1>11, <2>1, <2>2 DEF LoopWoken
  <1>12. CASE LoopCheck
    BY <1>0, <1>12 DEF LoopCheck
  <1>13. CASE Tick
    BY <1>0, <1>13 DEF Tick
  <1>14. CASE UNCHANGED vars
    BY <1>0, <1>14 DEF vars, auxVars
  <1> QED
    BY <1>1, <1>2, <1>3, <1>4, <1>5, <1>6, <1>7, <1>8, <1>9, <1>10, <1>11, <1>12, <1>13, <1>14
    DEF Next, LoopStep

\* Core is an invariant.
THEOREM CoreInvariant == Spec => []Core
  <1>1. Core /\ [Next]_vars => Core'
    BY NextTypeOK, NextEvInv, NextClockInv DEF Core
  <1> QED
    BY InitCore, <1>1, PTL DEF Spec

\* No signal of run_in or of stop() is lost, and none is counted twice.
THEOREM SignalNeverLost == Spec => []SignalKept
  <1>1. Core => SignalKept
    BY DEF Core, EvInv
  <1> QED
    BY CoreInvariant, <1>1, PTL

-----------------------------------------------------------------------------
(* The lists. *)

Distinct(q) == \A j, k \in 1..Len(q) : q[j].id = q[k].id => j = k

\* run_in and its like put a task at the end of a list.
LEMMA AppendKeeps ==
    ASSUME NEW q \in Seq(Task), NEW t \in Task
    PROVE  /\ IdsOf(Append(q, t)) = IdsOf(q) \cup {t.id}
           /\ Distinct(q) /\ t.id \notin IdsOf(q) => Distinct(Append(q, t))
  <1> DEFINE r == Append(q, t)
  <1>1. Len(r) = Len(q) + 1 /\ Len(q) \in Nat /\ \A j \in 1..Len(r) : r[j] = IF j = Len(r) THEN t ELSE q[j]
    OBVIOUS
  <1> HIDE DEF r
  <1>2. IdsOf(r) = IdsOf(q) \cup {t.id}
    BY <1>1 DEF IdsOf
  <1>3. Distinct(q) /\ t.id \notin IdsOf(q) => Distinct(r)
    BY <1>1 DEF IdsOf, Distinct
  <1> QED
    BY <1>2, <1>3 DEF r

\* The elements of two lists put together.
LEMMA ConcatElements ==
    ASSUME NEW S, NEW q \in Seq(S), NEW r \in Seq(S)
    PROVE  /\ Len(q \o r) = Len(q) + Len(r) /\ Len(q) \in Nat /\ Len(r) \in Nat
           /\ \A j \in 1..Len(q) : (q \o r)[j] = q[j]
           /\ \A j \in 1..Len(r) : (q \o r)[Len(q) + j] = r[j]
           /\ \A j \in 1..Len(q \o r) :
                 j \notin 1..Len(q) => j - Len(q) \in 1..Len(r) /\ (q \o r)[j] = r[j - Len(q)]
  <1>1. /\ Len(q \o r) = Len(q) + Len(r) /\ Len(q) \in Nat /\ Len(r) \in Nat
        /\ \A j \in 1..(Len(q) + Len(r)) : (q \o r)[j] = IF j <= Len(q) THEN q[j] ELSE r[j - Len(q)]
    OBVIOUS
  <1>2. \A j \in 1..Len(q) : (q \o r)[j] = q[j]
    BY <1>1
  <1>3. ASSUME NEW j \in 1..Len(r) PROVE (q \o r)[Len(q) + j] = r[j]
    <2>1. Len(q) + j \in 1..(Len(q) + Len(r)) /\ ~(Len(q) + j <= Len(q)) /\ (Len(q) + j) - Len(q) = j
      BY <1>1
    <2>2. (q \o r)[Len(q) + j] = r[(Len(q) + j) - Len(q)]
      BY <1>1, <2>1
    <2> QED
      BY <2>1, <2>2
  <1>4. ASSUME NEW j \in 1..Len(q \o r), j \notin 1..Len(q)
        PROVE  j - Len(q) \in 1..Len(r) /\ (q \o r)[j] = r[j - Len(q)]
    BY <1>1, <1>4
  <1> QED
    BY <1>1, <1>2, <1>3, <1>4

\* The loop puts the new tasks after the old ones.
LEMMA ConcatKeeps ==
    ASSUME NEW q \in Seq(Task), NEW r \in Seq(Task), IdsOf(q) \cap IdsOf(r) = {}
    PROVE  /\ IdsOf(q \o r) = IdsOf(q) \cup IdsOf(r)
           /\ Distinct(q) /\ Distinct(r) => Distinct(q \o r)
  <1> DEFINE c == q \o r
  <1>1. /\ Len(c) = Len(q) + Len(r) /\ Len(q) \in Nat /\ Len(r) \in Nat
        /\ \A j \in 1..Len(q) : c[j] = q[j]
        /\ \A j \in 1..Len(r) : c[Len(q) + j] = r[j] /\ Len(q) + j \in 1..Len(c)
        /\ \A j \in 1..Len(c) :
              j \notin 1..Len(q) => j - Len(q) \in 1..Len(r) /\ c[j] = r[j - Len(q)]
    BY ConcatElements
  <1> HIDE DEF c
  <1>2. IdsOf(c) = IdsOf(q) \cup IdsOf(r)
    <2>1. IdsOf(c) \subseteq IdsOf(q) \cup IdsOf(r)
      BY <1>1 DEF IdsOf
    <2>2. IdsOf(q) \subseteq IdsOf(c)
      BY <1>1 DEF IdsOf
    <2>3. IdsOf(r) \subseteq IdsOf(c)
      BY <1>1 DEF IdsOf
    <2> QED
      BY <2>1, <2>2, <2>3
  <1>3. ASSUME Distinct(q), Distinct(r) PROVE Distinct(c)
    <2> SUFFICES ASSUME NEW j \in 1..Len(c), NEW k \in 1..Len(c), c[j].id = c[k].id PROVE j = k
      BY DEF Distinct
    <2>1. \A m \in 1..Len(q), n \in 1..Len(r) : q[m].id # r[n].id
      BY DEF IdsOf
    <2>2. CASE j \in 1..Len(q) /\ k \in 1..Len(q)
      BY <1>1, <1>3, <2>2 DEF Distinct
    <2>3. CASE j \in 1..Len(q) /\ k \notin 1..Len(q)
      BY <1>1, <2>1, <2>3
    <2>4. CASE j \notin 1..Len(q) /\ k \in 1..Len(q)
      BY <1>1, <2>1, <2>4
    <2>5. CASE j \notin 1..Len(q) /\ k \notin 1..Len(q)
      <3>1. r[j - Len(q)].id = r[k - Len(q)].id /\ j - Len(q) \in 1..Len(r) /\ k - Len(q) \in 1..Len(r)
        BY <1>1, <2>5
      <3>2. j - Len(q) = k - Len(q)
        BY <1>3, <3>1 DEF Distinct
      <3> QED
        BY <1>1, <3>2
    <2> QED
      BY <2>2, <2>3, <2>4, <2>5
  <1> QED
    BY <1>2, <1>3 DEF c

\* A task that has run its last time is taken out, and no other.
LEMMA EraseAtKeeps ==
    ASSUME NEW q \in Seq(Task), NEW j \in 1..Len(q), Distinct(q)
    PROVE  IdsOf(EraseAt(q, j)) = IdsOf(q) \ {q[j].id} /\ Distinct(EraseAt(q, j))
  <1> DEFINE r == EraseAt(q, j)
  <1>1. /\ Len(r) = Len(q) - 1 /\ Len(q) \in Nat
        /\ \A k \in 1..Len(r) : r[k] = IF k = j THEN q[Len(q)] ELSE q[k]
    <2>1. Len(r) = Len(q) - 1 /\ Len(q) \in Nat
      BY EraseAtElements
    <2>2. \A k \in 1..(Len(q) - 1) : r[k] = IF k = j THEN q[Len(q)] ELSE q[k]
      BY EraseAtElements
    <2> QED
      BY <2>1, <2>2
  <1> HIDE DEF r
  <1>2. ASSUME NEW x \in IdsOf(q) \ {q[j].id} PROVE x \in IdsOf(r)
    <2>1. PICK k \in 1..Len(q) : x = q[k].id
      BY <1>2 DEF IdsOf
    <2>2. CASE k = Len(q)
      <3>1. j \in 1..Len(r) /\ r[j].id = x
        BY <1>1, <1>2, <2>1, <2>2
      <3> QED
        BY <3>1 DEF IdsOf
    <2>3. CASE k # Len(q)
      <3>1. k \in 1..Len(r) /\ r[k].id = x
        BY <1>1, <1>2, <2>1, <2>3
      <3> QED
        BY <3>1 DEF IdsOf
    <2> QED
      BY <2>2, <2>3
  <1>3. ASSUME NEW x \in IdsOf(r) PROVE x \in IdsOf(q) \ {q[j].id}
    <2>1. PICK k \in 1..Len(r) : x = r[k].id
      BY <1>3 DEF IdsOf
    <2>2. PICK m \in 1..Len(q) : x = q[m].id /\ m # j
      BY <1>1, <2>1
    <2> QED
      BY <2>2 DEF IdsOf, Distinct
  <1>4. Distinct(r)
    BY <1>1 DEF Distinct
  <1> QED
    BY <1>2, <1>3, <1>4 DEF r

\* Setting the count of a task leaves the rest of the list alone.
LEMMA SameIdsKeeps ==
    ASSUME NEW q \in Seq(Task), NEW r \in Seq(Task), Len(r) = Len(q),
           \A k \in 1..Len(q) : r[k].id = q[k].id
    PROVE  IdsOf(r) = IdsOf(q) /\ (Distinct(q) => Distinct(r))
  BY DEF IdsOf, Distinct

\* What setting task->count in the scan (thread.cc:131, thread.cc:134) does to the list.
LEMMA SetCount ==
    ASSUME NEW q \in Seq(Task), NEW j \in 1..Len(q), NEW n \in Int
    PROVE  LET r == [q EXCEPT ![j] = [q[j] EXCEPT !.count = n]]
           IN  /\ r \in Seq(Task) /\ Len(r) = Len(q) /\ Len(q) \in Nat
               /\ \A k \in 1..Len(q) : /\ r[k].id = q[k].id /\ r[k].period = q[k].period
                                       /\ r[k].count = IF k = j THEN n ELSE q[k].count
  <1>1. q[j] \in Task /\ [q[j] EXCEPT !.count = n] \in Task
    <2>1. q[j] \in Task
      OBVIOUS
    <2> QED
      BY <2>1 DEF Task
  <1> DEFINE r == [q EXCEPT ![j] = [q[j] EXCEPT !.count = n]]
  <1>2. r \in Seq(Task) /\ Len(r) = Len(q) /\ Len(q) \in Nat
    BY <1>1
  <1>3. \A k \in 1..Len(q) : r[k] = IF k = j THEN [q[j] EXCEPT !.count = n] ELSE q[k]
    BY <1>1
  <1>4. \A k \in 1..Len(q) : /\ r[k].id = q[k].id /\ r[k].period = q[k].period
                             /\ r[k].count = IF k = j THEN n ELSE q[k].count
    BY <1>1, <1>3, SMTT(30) DEF Task
  <1> QED
    BY <1>2, <1>4

\* Both lists start empty.
LEMMA InitListInv == Init => ListInv
  BY DEF Init, ListInv, OnceInLists, IdsOf

\* Adding, fetching, running and erasing keep every task in one list.
LEMMA NextListInv == Core /\ ListInv /\ [Next]_vars => ListInv'
  <1> SUFFICES ASSUME Core, ListInv, [Next]_vars PROVE ListInv'
    OBVIOUS
  <1>0. /\ tasks \in Seq(Task) /\ tmp \in Seq(Task) /\ sec \in Nat
        /\ need \in [Ids -> Nat \cup {Absent}]
        /\ Absent \notin Nat
    BY DEF Core, TypeOK, Absent
  <1>1. /\ IdsOf(tasks) \cup IdsOf(tmp) = {x \in Ids : need[x] # Absent}
        /\ Distinct(tasks) /\ Distinct(tmp)
        /\ IdsOf(tasks) \cap IdsOf(tmp) = {}
    BY DEF ListInv, OnceInLists, Distinct
  <1>2. CASE UNCHANGED <<tasks, tmp, need>>
    BY <1>2, Zenon DEF ListInv, OnceInLists
  <1>3. ASSUME NEW x \in Ids, Run(x) PROVE ListInv'
    <2>1. PICK n \in FirstDelays(x) : tmp' = Append(tmp, NewTask(x, n)) /\ need' = [need EXCEPT ![x] = n]
      BY <1>3 DEF Run
    <2>2. n \in Nat /\ NewTask(x, n) \in Task /\ NewTask(x, n).id = x
      BY Constants DEF FirstDelays, NewTask, Task, Jobs
    <2>3. K * n <= MaxAge
      <3>1. CASE Job[x].kind = "daily"
        <4>1. n <= Day /\ n \in Int /\ Day \in Int /\ K \in Nat \ {0}
          BY <3>1, Constants DEF FirstDelays
        <4>2. K * n <= K * Day
          BY <4>1, Ticks
        <4> QED
          BY <2>2, <4>1, <4>2, Constants
      <3>2. CASE Job[x].kind # "daily"
        BY <3>2, Constants DEF FirstDelays
      <3> QED
        BY <3>1, <3>2
    <2>4. K * NewTask(x, n).period <= MaxAge
      BY Constants DEF NewTask
    <2>5. tasks' = tasks /\ need[x] = Absent
      BY <1>3 DEF Run
    <2>6. x \notin IdsOf(tasks) /\ x \notin IdsOf(tmp)
      BY <1>1, <2>5
    <2>7. IdsOf(tmp') = IdsOf(tmp) \cup {x} /\ Distinct(tmp')
      BY <1>0, <1>1, <2>1, <2>2, <2>6, AppendKeeps
    <2>8. {y \in Ids : need'[y] # Absent} = {y \in Ids : need[y] # Absent} \cup {x}
      BY <1>0, <2>1, <2>2
    <2>9. OnceInLists'
      BY <1>1, <2>5, <2>6, <2>7, <2>8 DEF OnceInLists, Distinct
    <2>10. \A j \in 1..Len(tmp') : K * tmp'[j].period <= MaxAge
      BY <1>0, <2>1, <2>2, <2>4 DEF ListInv
    <2>11. \A y \in Ids : need'[y] # Absent => K * need'[y] <= MaxAge
      BY <1>0, <2>1, <2>3 DEF ListInv
    <2> QED
      BY <2>5, <2>9, <2>10, <2>11 DEF ListInv
  <1>4. CASE StopJoin
    <2>1. tasks' = <<>> /\ tmp' = <<>> /\ need' = [x \in Ids |-> Absent]
      BY <1>4 DEF StopJoin
    <2> QED
      BY <2>1 DEF ListInv, OnceInLists, IdsOf
  <1>5. CASE LoopFetch
    <2>1. tasks' = tasks \o tmp /\ tmp' = <<>> /\ need' = need
      BY <1>5 DEF LoopFetch
    <2>2. IdsOf(tasks') = IdsOf(tasks) \cup IdsOf(tmp) /\ Distinct(tasks')
      BY <1>0, <1>1, <2>1, ConcatKeeps
    <2>3. IdsOf(tmp') = {} /\ Distinct(tmp') /\ Len(tmp') = 0
      BY <2>1 DEF IdsOf, Distinct
    <2>4. OnceInLists'
      BY <1>1, <2>1, <2>2, <2>3 DEF OnceInLists, Distinct
    <2>5. ASSUME NEW j \in 1..Len(tasks') PROVE K * tasks'[j].period <= MaxAge
      <3>1. CASE j \in 1..Len(tasks)
        BY <1>0, <2>1, <3>1, ConcatElements DEF ListInv
      <3>2. CASE j \notin 1..Len(tasks)
        <4>1. j - Len(tasks) \in 1..Len(tmp) /\ tasks'[j] = tmp[j - Len(tasks)]
          BY <1>0, <2>1, <2>5, <3>2, ConcatElements
        <4> QED
          BY <4>1 DEF ListInv
      <3> QED
        BY <3>1, <3>2
    <2> QED
      BY <2>1, <2>3, <2>4, <2>5 DEF ListInv
  <1>6. CASE ScanTask
    <2> DEFINE t == tasks[i]
    <2>1. i \in 1..Len(tasks) /\ tmp' = tmp
      BY <1>6 DEF ScanTask, Core, TypeOK
    <2>2. t \in Task /\ t.id \in Ids /\ t.period \in Nat /\ t.count \in Int /\ t.count - sec \in Int
      <3>1. t \in Task
        BY <1>0, <2>1
      <3> QED
        BY <1>0, <3>1 DEF Task
    <2>3. t.id \in IdsOf(tasks) /\ need[t.id] # Absent
      BY <1>1, <2>1, <2>2 DEF IdsOf
    <2>4. CASE t.count - sec > 0
      <3>1. tasks' = [tasks EXCEPT ![i] = [t EXCEPT !.count = t.count - sec]] /\ need' = need
        BY <1>6, <2>4 DEF ScanTask
      <3>2. /\ Len(tasks') = Len(tasks) /\ \A k \in 1..Len(tasks) : tasks'[k].period = tasks[k].period
            /\ IdsOf(tasks') = IdsOf(tasks) /\ Distinct(tasks')
        <4>1. /\ tasks' \in Seq(Task) /\ Len(tasks') = Len(tasks)
              /\ \A k \in 1..Len(tasks) : tasks'[k].id = tasks[k].id /\ tasks'[k].period = tasks[k].period
          BY <1>0, <2>1, <2>2, <3>1, SetCount
        <4> QED
          BY <1>0, <1>1, <4>1, SameIdsKeeps
      <3>3. OnceInLists'
        BY <1>1, <2>1, <3>1, <3>2 DEF OnceInLists, Distinct
      <3> QED
        BY <2>1, <3>1, <3>2, <3>3 DEF ListInv
    <2>5. CASE ~(t.count - sec > 0) /\ t.period > 0
      <3>1. /\ tasks' = [tasks EXCEPT ![i] = [t EXCEPT !.count = t.period]]
            /\ need' = [need EXCEPT ![t.id] = t.period]
        BY <1>6, <2>5 DEF ScanTask
      <3>2. /\ Len(tasks') = Len(tasks) /\ \A k \in 1..Len(tasks) : tasks'[k].period = tasks[k].period
            /\ IdsOf(tasks') = IdsOf(tasks) /\ Distinct(tasks')
        <4>1. /\ tasks' \in Seq(Task) /\ Len(tasks') = Len(tasks)
              /\ \A k \in 1..Len(tasks) : tasks'[k].id = tasks[k].id /\ tasks'[k].period = tasks[k].period
          BY <1>0, <2>1, <2>2, <3>1, SetCount
        <4> QED
          BY <1>0, <1>1, <4>1, SameIdsKeeps
      <3>3. {y \in Ids : need'[y] # Absent} = {y \in Ids : need[y] # Absent}
        BY <1>0, <2>2, <2>3, <3>1
      <3>4. OnceInLists'
        BY <1>1, <2>1, <3>2, <3>3 DEF OnceInLists, Distinct
      <3>5. \A y \in Ids : need'[y] # Absent => K * need'[y] <= MaxAge
        BY <1>0, <2>1, <2>2, <3>1 DEF ListInv
      <3> QED
        BY <2>1, <3>2, <3>4, <3>5 DEF ListInv
    <2>6. CASE ~(t.count - sec > 0) /\ ~(t.period > 0)
      <3>1. tasks' = EraseAt(tasks, i) /\ need' = [need EXCEPT ![t.id] = Absent]
        BY <1>6, <2>6 DEF ScanTask
      <3>2. IdsOf(tasks') = IdsOf(tasks) \ {t.id} /\ Distinct(tasks')
        BY <1>0, <1>1, <2>1, <3>1, EraseAtKeeps
      <3>3. {y \in Ids : need'[y] # Absent} = {y \in Ids : need[y] # Absent} \ {t.id}
        BY <1>0, <2>2, <3>1
      <3>4. OnceInLists'
        BY <1>1, <2>1, <2>3, <3>2, <3>3 DEF OnceInLists, Distinct
      <3>5. \A y \in Ids : need'[y] # Absent => K * need'[y] <= MaxAge
        BY <1>0, <2>2, <3>1 DEF ListInv
      <3>6. \A k \in 1..Len(tasks') : K * tasks'[k].period <= MaxAge
        <4>1. Len(tasks') = Len(tasks) - 1 /\ Len(tasks) \in Nat
          BY <1>0, <2>1, <3>1, EraseAtElements, SMTT(30)
        <4>2. \A k \in 1..(Len(tasks) - 1) : tasks'[k] = IF k = i THEN tasks[Len(tasks)] ELSE tasks[k]
          BY <1>0, <2>1, <3>1, EraseAtElements
        <4> QED
          BY <4>1, <4>2, <2>1 DEF ListInv
      <3> QED
        BY <2>1, <3>4, <3>5, <3>6 DEF ListInv
    <2> QED
      BY <2>4, <2>5, <2>6
  <1>7. StopSwap \/ StopSignal \/ LoopHead \/ ScanEnd \/ LoopWait => UNCHANGED <<tasks, tmp, need>>
    BY DEF StopSwap, StopSignal, LoopHead, ScanEnd, LoopWait, listVars
  <1>8. LoopExpire \/ LoopWoken \/ LoopCheck \/ Tick => UNCHANGED <<tasks, tmp, need>>
    BY DEF LoopExpire, LoopWoken, LoopCheck, Tick, listVars
  <1>9. UNCHANGED vars => UNCHANGED <<tasks, tmp, need>>
    BY DEF vars, listVars, auxVars
  <1> QED
    BY <1>2, <1>3, <1>4, <1>5, <1>6, <1>7, <1>8, <1>9 DEF Next, LoopStep

\* The lists hold every task that is to run, once.
THEOREM ListInvariant == Spec => []ListInv
  BY InitListInv, NextListInv, CoreInvariant, PTL DEF Spec

\* Erasing by moving the last task, reloading and fetching neither lose nor
\* duplicate a task.
THEOREM TasksNeverLost == Spec => []OnceInLists
  <1>1. ListInv => OnceInLists
    BY DEF ListInv
  <1> QED
    BY ListInvariant, <1>1, PTL

-----------------------------------------------------------------------------
(* No task runs too early. *)

\* The numbers of InTime, and what is known of them.
LEMMA Numbers ==
    ASSUME Core, ListInv
    PROVE  /\ Uncharged \in Nat /\ Slack \in Nat
           /\ pc # "end" => Uncharged <= Slack
           /\ \A j \in 1..Len(tasks) :
                 /\ tasks[j] \in Task /\ tasks[j].id \in Ids /\ tasks[j].count \in Int
                 /\ tasks[j].period \in Nat
                 /\ need[tasks[j].id] \in Nat /\ age[tasks[j].id] \in Nat
                 /\ Charged(tasks[j]) \in Int /\ Pending(j) \in Int
                 /\ Charged(tasks[j]) = K * need[tasks[j].id] - K * tasks[j].count
           /\ \A j \in 1..Len(tmp) :
                 /\ tmp[j] \in Task /\ tmp[j].id \in Ids /\ tmp[j].count \in Int
                 /\ need[tmp[j].id] \in Nat /\ age[tmp[j].id] \in Nat
                 /\ Charged(tmp[j]) \in Int
  <1>0. /\ ms \in Nat /\ sec \in Nat /\ spent \in Nat /\ waited \in Nat
        /\ tasks \in Seq(Task) /\ tmp \in Seq(Task)
        /\ age \in [Ids -> 0..MaxAge] /\ need \in [Ids -> Nat \cup {Absent}]
        /\ K * sec \in Int
    BY Constants, Ticks DEF Core, TypeOK
  <1>1. Uncharged \in Nat /\ Slack \in Nat
    BY <1>0, Constants DEF Uncharged, Slack
  <1>2. pc # "end" => Uncharged <= Slack
    <2>1. waited \in 0..(K + Late) /\ spent - waited \in 0..Busy
      BY DEF Core, ClockInv
    <2>2. CASE pc = "head"
      <3>1. ms < K + MaxRound
        BY <2>2 DEF Core, ClockInv
      <3>2. Uncharged = ms + 0
        BY <2>2 DEF Uncharged
      <3>3. \A m, a, b, k \in Nat : m < k + a => m + 0 <= a + b + k - 1
        OBVIOUS
      <3> QED
        BY <1>0, <3>1, <3>2, <3>3, Constants DEF Slack
    <2>3. CASE pc = "fetch"
      <3>1. ms < K + MaxRound /\ waited = 0
        BY <2>3 DEF Core, ClockInv
      <3>2. Uncharged = ms + spent
        BY <2>3 DEF Uncharged
      <3>3. spent <= Busy
        BY <1>0, <2>1, <3>1, Constants
      <3>4. \A m, t, a, b, k \in Nat : m < k + a /\ t <= b => m + t <= a + b + k - 1
        OBVIOUS
      <3> QED
        BY <1>0, <3>1, <3>2, <3>3, <3>4, Constants DEF Slack
    <2>4. CASE pc \in {"scan", "wait", "block", "check"}
      <3>1. ms < K
        BY <2>4 DEF Core, ClockInv
      <3>2. Uncharged = ms + spent
        BY <2>4 DEF Uncharged
      <3>3. spent <= MaxRound
        BY <1>0, <2>1, Constants
      <3> QED
        BY <1>0, <3>1, <3>2, <3>3, Constants DEF Slack
    <2> QED
      BY <2>2, <2>3, <2>4 DEF Core, TypeOK
  <1>3. ASSUME NEW t \in Task, t.id \in IdsOf(tasks) \cup IdsOf(tmp)
        PROVE  /\ t.id \in Ids /\ t.count \in Int /\ t.period \in Nat
               /\ need[t.id] \in Nat /\ age[t.id] \in Nat
               /\ Charged(t) \in Int /\ Charged(t) = K * need[t.id] - K * t.count
    <2>1. t.id \in Ids /\ t.count \in Int /\ t.period \in Nat
      BY DEF Task
    <2>2. need[t.id] \in Nat /\ age[t.id] \in Nat
      BY <1>0, <1>3, <2>1, Constants DEF ListInv, OnceInLists
    <2> QED
      BY <2>1, <2>2, Constants, Ticks DEF Charged
  <1>4. ASSUME NEW j \in 1..Len(tasks) PROVE tasks[j] \in Task /\ tasks[j].id \in IdsOf(tasks)
    BY <1>0 DEF IdsOf
  <1>5. ASSUME NEW j \in 1..Len(tmp) PROVE tmp[j] \in Task /\ tmp[j].id \in IdsOf(tmp)
    BY <1>0 DEF IdsOf
  <1>6. \A j : Pending(j) \in Int
    BY <1>0 DEF Pending
  <1> QED
    BY <1>1, <1>2, <1>3, <1>4, <1>5, <1>6

\* There is nothing to run at first.
LEMMA InitEarlyInv == Init => EarlyInv
  <1>1. 0 <= Slack
    BY Constants DEF Slack
  <1> QED
    BY <1>1 DEF Init, EarlyInv

\* A task starts to wait with no more on the books than the Slack.
LEMMA NextBooked ==
    ASSUME Core, ListInv, EarlyInv, [Next]_vars, pc' # "end"
    PROVE  \A x \in Ids : booked'[x] <= Slack
  <1>0. booked \in [Ids -> Nat] /\ tasks \in Seq(Task)
    BY DEF Core, TypeOK
  <1>1. ASSUME NEW x \in Ids, Starts(x), pc # "end" PROVE \A y \in Ids : booked'[y] <= Slack
    <2>1. booked' = [booked EXCEPT ![x] = Uncharged] /\ Uncharged <= Slack
      BY <1>1, Numbers DEF Starts
    <2> QED
      BY <1>0, <1>1, <2>1 DEF EarlyInv
  <1>2. CASE UNCHANGED booked /\ pc # "end"
    BY <1>2 DEF EarlyInv
  <1>3. ASSUME NEW x \in Ids, Run(x) PROVE \A y \in Ids : booked'[y] <= Slack
    BY <1>1, <1>3 DEF Run
  <1>4. CASE ScanTask
    <2>1. tasks[i].id \in Ids
      <3>1. i \in 1..Len(tasks)
        BY <1>4 DEF ScanTask, Core, TypeOK
      <3> QED
        BY <3>1, Numbers
    <2> QED
      BY <1>1, <1>2, <1>4, <2>1 DEF ScanTask, onceVars
  <1>5. StopSwap \/ StopSignal \/ StopJoin \/ LoopHead \/ LoopFetch \/ ScanEnd \/ LoopWait
        \/ LoopExpire \/ LoopWoken \/ LoopCheck \/ Tick \/ UNCHANGED vars
        => UNCHANGED booked /\ pc # "end"
    BY DEF StopSwap, StopSignal, StopJoin, LoopHead, LoopFetch, ScanEnd, LoopWait, LoopExpire,
           LoopWoken, LoopCheck, Tick, vars, auxVars, onceVars
  <1> QED
    BY <1>2, <1>3, <1>4, <1>5 DEF Next, LoopStep

\* Time that passes, that moves from one variable to another, and seconds that
\* are charged to the tasks keep InTime, and so does a run of a task.
LEMMA NextEarlyInv ==
    Core /\ ListInv /\ EarlyInv /\ [Next]_vars /\ Core' /\ ListInv' => EarlyInv'
  <1> SUFFICES ASSUME Core, ListInv, EarlyInv, [Next]_vars, Core', ListInv', pc' # "end"
               PROVE  /\ \A j \in 1..Len(tasks') : InTime(tasks[j], Pending(j))'
                      /\ \A j \in 1..Len(tmp') : InTime(tmp[j], 0)'
    BY NextBooked DEF EarlyInv, Slack, MaxRound
  <1> DEFINE Goal == /\ \A j \in 1..Len(tasks') : InTime(tasks[j], Pending(j))'
                     /\ \A j \in 1..Len(tmp') : InTime(tmp[j], 0)'
  <1>0. /\ ms \in Nat /\ sec \in Nat /\ spent \in Nat /\ waited \in Nat
        /\ tasks \in Seq(Task) /\ tmp \in Seq(Task) /\ i \in Nat
        /\ age \in [Ids -> 0..MaxAge] /\ need \in [Ids -> Nat \cup {Absent}]
    <2>1. TypeOK
      BY DEF Core
    <2>2. i \in Nat
      BY <2>1 DEF TypeOK
    <2>3. spent \in Nat /\ waited \in Nat
      BY <2>1, Constants DEF TypeOK
    <2> QED
      BY <2>1, <2>2, <2>3 DEF TypeOK
  <1>N. Uncharged \in Nat /\ Slack \in Nat /\ Uncharged' \in Nat /\ (pc # "end" => Uncharged <= Slack)
    <2>1. Uncharged' \in Nat
      <3>1. ms' \in Nat /\ spent' \in Nat
        BY Constants DEF Core, TypeOK
      <3>2. Uncharged' = ms' + 0 \/ Uncharged' = ms' + spent'
        BY Zenon DEF Uncharged
      <3>3. \A a, b \in Nat : a + 0 \in Nat /\ a + b \in Nat
        OBVIOUS
      <3> QED
        BY <3>1, <3>2, <3>3, Zenon
    <2> QED
      BY <2>1, Numbers
  <1>G. /\ \A x \in Ids : /\ Granted[x] = booked[x] + K * again[x]
                          /\ Granted'[x] = booked'[x] + K * again'[x]
                          /\ Granted[x] \in Nat /\ Granted'[x] \in Nat
                          /\ booked[x] \in Nat /\ again[x] \in Nat
        /\ UNCHANGED onceVars => Granted' = Granted
    <2>1. /\ booked \in [Ids -> Nat] /\ again \in [Ids -> Nat]
          /\ booked' \in [Ids -> Nat] /\ again' \in [Ids -> Nat]
      BY DEF Core, TypeOK
    <2>2. \A a, b \in Nat : a + K * b \in Nat
      BY Constants
    <2>3. \A x \in Ids : /\ Granted[x] = booked[x] + K * again[x]
                         /\ Granted'[x] = booked'[x] + K * again'[x]
      BY Zenon DEF Granted
    <2>4. UNCHANGED onceVars => Granted' = Granted
      BY DEF Granted, onceVars
    <2> QED
      BY <2>1, <2>2, <2>3, <2>4, Zenon
  <1>S. ASSUME NEW x \in Ids, Starts(x)
        PROVE  /\ Granted'[x] = Uncharged /\ age'[x] = 0
               /\ \A y \in Ids : y # x => Granted'[y] = Granted[y] /\ age'[y] = age[y]
    <2>0. booked \in [Ids -> Nat] /\ again \in [Ids -> Nat]
      BY DEF Core, TypeOK
    <2>1. booked'[x] = Uncharged /\ again'[x] = 0 /\ age'[x] = 0
      BY <1>0, <1>S, <2>0 DEF Starts
    <2>2. \A y \in Ids : y # x => booked'[y] = booked[y] /\ again'[y] = again[y] /\ age'[y] = age[y]
      BY <1>0, <1>S, <2>0 DEF Starts
    <2>3. \A a \in Nat : a + K * 0 = a
      BY Constants
    <2>4. Granted'[x] = Uncharged + K * 0
      BY <1>G, <2>1, Zenon
    <2>5. \A y \in Ids : y # x => Granted'[y] = Granted[y]
      BY <1>G, <2>2, Zenon
    <2> QED
      BY <1>N, <2>1, <2>2, <2>3, <2>4, <2>5, Zenon
  <1>1. CASE /\ UNCHANGED <<tasks, tmp, age, need, onceVars>> /\ pc # "end"
             /\ Uncharged' = Uncharged
             /\ \A j \in 1..Len(tasks) : Pending(j)' = Pending(j)
    BY <1>1, Zenon DEF EarlyInv, InTime, Charged, Granted, onceVars
  <1>2. ASSUME NEW x \in Ids, Run(x) PROVE Goal
    <2>1. PICK n \in FirstDelays(x) : tmp' = Append(tmp, NewTask(x, n)) /\ need' = [need EXCEPT ![x] = n]
      BY <1>2 DEF Run
    <2>2. n \in Nat /\ NewTask(x, n) \in Task /\ NewTask(x, n).id = x /\ NewTask(x, n).count = n
      BY Constants DEF FirstDelays, NewTask, Task, Jobs
    <2>3. /\ UNCHANGED <<tasks, pc, ms, spent, i, sec>> /\ Starts(x)
          /\ need[x] = Absent
      BY <1>2 DEF Run, clockVars, Core, TypeOK
    <2>4. Uncharged' = Uncharged /\ \A j : Pending(j)' = Pending(j)
      BY <2>3 DEF Uncharged, Pending
    <2>5. ASSUME NEW t \in Task, NEW p \in Int, t.id # x, InTime(t, p)
          PROVE  \/ age'[t.id] = MaxAge
                 \/ K * (need'[t.id] - t.count) + p + Uncharged' <= age'[t.id] + Granted'[t.id]
      <3>1. t.id \in Ids
        BY DEF Task
      <3>2. age'[t.id] = age[t.id] /\ need'[t.id] = need[t.id] /\ Granted'[t.id] = Granted[t.id]
        BY <1>0, <1>S, <2>1, <2>3, <2>5, <3>1
      <3> QED
        BY <2>4, <2>5, <3>2 DEF InTime, Charged
    <2>6. x \notin IdsOf(tasks) /\ x \notin IdsOf(tmp)
      BY <2>3 DEF ListInv, OnceInLists
    <2>7. ASSUME NEW j \in 1..Len(tasks') PROVE InTime(tasks[j], Pending(j))'
      <3>1. InTime(tasks[j], Pending(j)) /\ tasks[j] \in Task /\ Pending(j) \in Int /\ tasks[j].id # x
        BY <2>3, <2>6, <2>7, Numbers DEF EarlyInv, IdsOf
      <3> QED
        BY <2>3, <2>4, <2>5, <3>1 DEF InTime, Charged
    <2>8. ASSUME NEW j \in 1..Len(tmp') PROVE InTime(tmp[j], 0)'
      <3>1. CASE j \in 1..Len(tmp)
        <4>1. InTime(tmp[j], 0) /\ tmp[j] \in Task /\ tmp[j].id # x /\ tmp'[j] = tmp[j]
          BY <1>0, <2>1, <2>2, <2>3, <2>6, <3>1, Numbers DEF EarlyInv, IdsOf
        <4> QED
          BY <2>5, <4>1 DEF InTime, Charged
      <3>2. CASE j \notin 1..Len(tmp)
        <4>1. tmp'[j] = NewTask(x, n)
          BY <1>0, <2>1, <2>2, <2>8, <3>2
        <4>2. age'[x] = 0 /\ need'[x] = n /\ Granted'[x] = Uncharged
          BY <1>0, <1>S, <2>1, <2>3
        <4>3. K * (n - n) = 0
          BY <2>2, Constants
        <4>4. K * (need'[tmp'[j].id] - tmp'[j].count) + 0 + Uncharged' <= age'[tmp'[j].id] + Granted'[tmp'[j].id]
          BY <1>N, <2>2, <2>3, <2>4, <4>1, <4>2, <4>3
        <4> QED
          BY <4>4 DEF InTime, Charged
      <3> QED
        BY <3>1, <3>2
    <2> QED
      BY <2>7, <2>8
  <1>3. CASE StopSwap \/ StopSignal
    <2>1. /\ UNCHANGED <<tasks, tmp, age, need, onceVars, pc, ms, spent, i, sec>>
      BY <1>3 DEF StopSwap, StopSignal, listVars, clockVars
    <2> QED
      BY <1>1, <2>1 DEF Uncharged, Pending
  <1>4. CASE StopJoin
    BY <1>4 DEF StopJoin
  <1>5. CASE LoopHead
    <2>1. /\ UNCHANGED <<tasks, tmp, age, need, onceVars, ms>> /\ pc = "head" /\ pc' = "fetch" /\ spent' = 0
      BY <1>5 DEF LoopHead, listVars
    <2> QED
      BY <1>0, <1>1, <2>1 DEF Uncharged, Pending
  <1>6. CASE LoopFetch
    <2>1. /\ UNCHANGED <<age, need, spent, booked>> /\ pc = "fetch" /\ pc' = "scan" /\ i' = 1
          /\ tasks' = tasks \o tmp /\ tmp' = <<>>
      BY <1>6 DEF LoopFetch
    <2>2. /\ Uncharged' = ms' + spent /\ Uncharged = ms + spent
          /\ \A x \in Ids : again'[x] = IF ms < K /\ need[x] # Absent THEN again[x] + sec ELSE again[x]
      BY <1>6, <2>1 DEF Uncharged, LoopFetch, ChargesAgain
    <2>3. ASSUME NEW x \in Ids, need[x] # Absent
          PROVE  K * sec' \in Int /\ K * sec' + Uncharged' - Granted'[x] = Uncharged - Granted[x]
      <3>1. CASE ms >= K
        <4>1. ms' = ms % K /\ sec' = ms \div K
          BY <1>6, <3>1 DEF LoopFetch, TakeSeconds
        <4>2. /\ ms % K \in 0..(K - 1)
              /\ K * (ms \div K) \in Nat /\ K * (ms \div K) + (ms % K) = ms
          BY <1>0, Constants, DivMod
        <4>3. K * sec' \in Nat /\ ms' \in Nat /\ K * sec' + ms' = ms
          BY <4>1, <4>2
        <4>4. Granted'[x] = Granted[x]
          <5>1. again'[x] = again[x] /\ booked'[x] = booked[x]
            BY <1>0, <2>1, <2>2, <3>1, Constants
          <5> QED
            BY <1>G, <5>1, Zenon
        <4>5. PICK c \in Nat : c = K * sec' /\ c + ms' = ms
          BY <4>3
        <4>6. c \in Int /\ c + (ms' + spent) - Granted[x] = (ms + spent) - Granted[x]
          BY <1>0, <1>G, <4>3, <4>5
        <4>7. c + Uncharged' - Granted'[x] = Uncharged - Granted[x]
          BY <2>2, <4>4, <4>6, Zenon
        <4> QED
          BY <4>5, <4>6, <4>7, Zenon
      <3>2. CASE ~(ms >= K)
        <4>1. ms' = ms /\ sec' = sec
          BY <1>6, <3>2 DEF LoopFetch, TakeSeconds
        <4>2. again'[x] = again[x] + sec /\ booked'[x] = booked[x]
          BY <1>0, <2>1, <2>2, <2>3, <3>2, Constants
        <4>3. \A a, b \in Nat : K * (a + b) = K * a + K * b /\ K * a \in Nat
          BY Constants
        <4>4. K * (again[x] + sec) = K * again[x] + K * sec /\ K * again[x] \in Nat /\ K * sec \in Nat
          BY <1>0, <1>G, <4>3, Zenon
        <4> DEFINE g == K * again[x]
                   c == K * sec
        <4> HIDE DEF g, c
        <4>5. Granted'[x] = booked[x] + (g + c) /\ Granted[x] = booked[x] + g
          BY <1>G, <4>2, <4>4, Zenon DEF g, c
        <4>6. g \in Nat /\ c \in Nat /\ booked[x] \in Nat /\ ms + spent \in Nat
          BY <1>0, <1>G, <4>4 DEF g, c
        <4>7. c \in Int /\ c + (ms + spent) - (booked[x] + (g + c)) = (ms + spent) - (booked[x] + g)
          BY <4>6
        <4> QED
          BY <2>2, <4>1, <4>5, <4>7 DEF c
      <3> QED
        BY <3>1, <3>2
    <2>4. ASSUME NEW t \in Task, InTime(t, 0), Charged(t) \in Int, need[t.id] # Absent
          PROVE  \/ age[t.id] = MaxAge
                 \/ Charged(t) + K * sec' + Uncharged' <= age[t.id] + Granted'[t.id]
      <3>1. age[t.id] = MaxAge \/ Charged(t) + 0 + Uncharged <= age[t.id] + Granted[t.id]
        BY <2>4 DEF InTime
      <3>2. t.id \in Ids /\ age[t.id] \in Nat /\ Granted[t.id] \in Nat /\ Granted'[t.id] \in Nat
        BY <1>0, <1>G, Constants DEF Task
      <3>3. K * sec' \in Int /\ K * sec' + Uncharged' - Granted'[t.id] = Uncharged - Granted[t.id]
        BY <2>3, <2>4, <3>2
      <3> QED
        BY <1>N, <2>4, <3>1, <3>2, <3>3
    <2>5. ASSUME NEW j \in 1..Len(tasks') PROVE InTime(tasks[j], Pending(j))'
      <3>1. Pending(j)' = K * sec'
        BY <2>1, <2>5 DEF Pending
      <3>2. /\ tasks'[j] \in Task /\ InTime(tasks'[j], 0) /\ Charged(tasks'[j]) \in Int
            /\ need[tasks'[j].id] # Absent
        <4>1. CASE j \in 1..Len(tasks)
          <5>1. tasks'[j] = tasks[j] /\ Pending(j) = 0
            BY <1>0, <2>1, <4>1, ConcatElements DEF Pending
          <5> QED
            BY <2>1, <4>1, <5>1, Numbers DEF EarlyInv, Absent
        <4>2. CASE j \notin 1..Len(tasks)
          <5>1. j - Len(tasks) \in 1..Len(tmp) /\ tasks'[j] = tmp[j - Len(tasks)]
            BY <1>0, <2>1, <2>5, <4>2, ConcatElements
          <5> QED
            BY <2>1, <5>1, Numbers DEF EarlyInv, Absent
        <4> QED
          BY <4>1, <4>2
      <3> QED
        BY <2>1, <2>4, <3>1, <3>2 DEF InTime, Charged
    <2>6. Len(tmp') = 0
      BY <2>1
    <2> QED
      BY <2>5, <2>6
  <1>7. CASE ScanTask
    <2> DEFINE t == tasks[i]
    <2>1. /\ i \in 1..Len(tasks) /\ UNCHANGED <<tmp, pc, sec, ms, spent>> /\ pc = "scan"
      BY <1>7 DEF ScanTask, Core, TypeOK, clockVars
    <2>2. /\ t \in Task /\ t.id \in Ids /\ t.period \in Nat /\ t.count \in Int /\ t.count - sec \in Int
          /\ Charged(t) \in Int /\ Charged(t) = K * need[t.id] - K * t.count /\ age[t.id] \in Nat
          /\ K * sec \in Int /\ need[t.id] \in Nat
      BY <1>0, <2>1, Constants, Numbers, Ticks
    <2>3. Uncharged' = Uncharged
      BY <2>1 DEF Uncharged
    <2>4. /\ \A j \in 1..Len(tasks) : InTime(tasks[j], Pending(j))
          /\ \A j \in 1..Len(tmp) : InTime(tmp[j], 0)
      BY <2>1 DEF EarlyInv
    <2>5. CASE t.count - sec > 0
      <3>1. /\ tasks' = [tasks EXCEPT ![i] = [t EXCEPT !.count = t.count - sec]] /\ i' = i + 1
            /\ age' = age /\ need' = need /\ Granted' = Granted
        BY <1>7, <1>G, <2>5 DEF ScanTask
      <3>2. /\ Len(tasks') = Len(tasks)
            /\ \A k \in 1..Len(tasks) : /\ tasks'[k].id = tasks[k].id
                                        /\ tasks'[k].count = IF k = i THEN t.count - sec ELSE tasks[k].count
        <4>1. t.count - sec \in Int
          BY <2>2
        <4> QED
          BY <1>0, <2>1, <3>1, <4>1, SetCount
      <3>3. ASSUME NEW j \in 1..Len(tasks), j # i PROVE InTime(tasks[j], Pending(j))'
        <4>1. Pending(j)' = Pending(j)
          BY <1>0, <2>1, <3>1, <3>3 DEF Pending
        <4> QED
          BY <2>3, <2>4, <3>1, <3>2, <3>3, <4>1 DEF InTime, Charged
      <3>4. InTime(tasks[i], Pending(i))
        BY <2>1, <2>4
      <3>5. \/ age[t.id] = MaxAge
            \/ K * (need[t.id] - (t.count - sec)) + 0 + Uncharged <= age[t.id] + Granted[t.id]
        <4>1. Pending(i) = K * sec
          BY <1>0, <2>1 DEF Pending
        <4>2. K * (need[t.id] - (t.count - sec)) = Charged(t) + K * sec
          <5>1. \A n, c, d \in Int : K * (n - (c - d)) = (K * n - K * c) + K * d
            BY Constants
          <5>2. need[t.id] \in Int /\ t.count \in Int /\ sec \in Int
            BY <1>0, <2>2
          <5>3. K * (need[t.id] - (t.count - sec)) = (K * need[t.id] - K * t.count) + K * sec
            BY <5>1, <5>2, Zenon
          <5>4. Charged(t) = K * need[t.id] - K * t.count
            BY <2>2
          <5> QED
            BY <5>3, <5>4, Zenon
        <4>3. Granted[t.id] \in Nat
          BY <1>G, <2>2
        <4> QED
          BY <1>N, <2>2, <3>4, <4>1, <4>2, <4>3 DEF InTime
      <3>6. ASSUME NEW j \in 1..Len(tasks), j = i PROVE InTime(tasks[j], Pending(j))'
        <4>1. Pending(j)' = 0
          BY <1>0, <3>1, <3>6 DEF Pending
        <4>2. tasks'[j].id = t.id /\ tasks'[j].count = t.count - sec
          BY <2>1, <3>2, <3>6
        <4> QED
          BY <2>3, <3>1, <3>5, <4>1, <4>2 DEF InTime, Charged
      <3>7. \A j \in 1..Len(tmp') : InTime(tmp[j], 0)'
        BY <2>1, <2>3, <2>4, <3>1 DEF InTime, Charged
      <3> QED
        BY <3>2, <3>3, <3>6, <3>7
    <2>6. CASE ~(t.count - sec > 0)
      <3>1. Starts(t.id) /\ \A x \in Ids : x # t.id => need'[x] = need[x]
        BY <1>0, <1>7, <2>6 DEF ScanTask
      <3>2. ASSUME NEW u \in Task, u.id # t.id, NEW p \in Int, InTime(u, p)
            PROVE  \/ age'[u.id] = MaxAge
                   \/ K * (need'[u.id] - u.count) + p + Uncharged' <= age'[u.id] + Granted'[u.id]
        <4>1. u.id \in Ids
          BY DEF Task
        <4>2. age'[u.id] = age[u.id] /\ need'[u.id] = need[u.id] /\ Granted'[u.id] = Granted[u.id]
          BY <1>S, <2>2, <3>1, <3>2, <4>1
        <4> QED
          BY <2>3, <3>2, <4>2 DEF InTime, Charged
      <3>3. ASSUME NEW j \in 1..Len(tmp') PROVE InTime(tmp[j], 0)'
        <4>1. tmp[j] \in Task /\ InTime(tmp[j], 0)
          BY <2>1, <2>4, <3>3, Numbers
        <4>2. tmp[j].id \in IdsOf(tmp) /\ t.id \in IdsOf(tasks)
          BY <2>1, <3>3 DEF IdsOf
        <4>3. tmp[j].id # t.id
          BY <4>2 DEF ListInv, OnceInLists
        <4>4. \/ age'[tmp[j].id] = MaxAge
              \/ K * (need'[tmp[j].id] - tmp[j].count) + 0 + Uncharged' <= age'[tmp[j].id] + Granted'[tmp[j].id]
          BY <3>2, <4>1, <4>3
        <4>5. tmp' = tmp
          BY <2>1
        <4> QED
          BY <4>4, <4>5 DEF InTime, Charged
      <3>4. \A j \in 1..Len(tasks) : j # i => tasks[j].id # t.id
        BY <2>1 DEF ListInv, OnceInLists
      <3>5. CASE t.period > 0
        <4>1. /\ tasks' = [tasks EXCEPT ![i] = [t EXCEPT !.count = t.period]] /\ i' = i + 1
              /\ need' = [need EXCEPT ![t.id] = t.period]
          BY <1>7, <2>6, <3>5 DEF ScanTask
        <4>2. /\ Len(tasks') = Len(tasks)
              /\ \A k \in 1..Len(tasks) : /\ tasks'[k].id = tasks[k].id
                                          /\ tasks'[k].count = IF k = i THEN t.period ELSE tasks[k].count
          <5>1. t.period \in Int
            BY <2>2
          <5> QED
            BY <1>0, <2>1, <4>1, <5>1, SetCount
        <4>3. ASSUME NEW j \in 1..Len(tasks), j # i PROVE InTime(tasks[j], Pending(j))'
          <5>0. Pending(j) \in Int /\ tasks[j] \in Task
            BY Numbers
          <5>1. Pending(j)' = Pending(j)
            BY <1>0, <2>1, <4>1, <4>3 DEF Pending
          <5>2. tasks'[j].id = tasks[j].id /\ tasks'[j].count = tasks[j].count
            BY <4>2, <4>3
          <5>3. InTime(tasks[j], Pending(j)) /\ tasks[j].id # t.id
            BY <2>4, <3>4, <4>3
          <5> QED
            BY <3>2, <5>0, <5>1, <5>2, <5>3 DEF InTime, Charged
        <4>4. ASSUME NEW j \in 1..Len(tasks), j = i PROVE InTime(tasks[j], Pending(j))'
          <5>1. Pending(j)' = 0
            BY <1>0, <4>1, <4>4 DEF Pending
          <5>2. tasks'[j].id = t.id /\ tasks'[j].count = t.period
            BY <2>1, <4>2, <4>4
          <5>3. need'[t.id] = t.period /\ age'[t.id] = 0 /\ Granted'[t.id] = Uncharged
            BY <1>0, <1>S, <2>2, <3>1, <4>1
          <5>4. K * (t.period - t.period) = 0
            <6>1. \A a \in Int : K * (a - a) = 0
              BY Constants
            <6>2. t.period \in Int
              BY <2>2
            <6> QED
              BY <6>1, <6>2, Zenon
          <5>5. K * (need'[tasks'[j].id] - tasks'[j].count) + Pending(j)' + Uncharged' <= age'[tasks'[j].id] + Granted'[tasks'[j].id]
            BY <1>N, <2>1, <2>3, <5>1, <5>2, <5>3, <5>4
          <5> QED
            BY <5>5 DEF InTime, Charged
        <4> QED
          BY <3>3, <4>2, <4>3, <4>4
      <3>6. CASE ~(t.period > 0)
        <4>1. tasks' = EraseAt(tasks, i) /\ i' = i
          BY <1>7, <2>6, <3>6 DEF ScanTask
        <4>2. Len(tasks') = Len(tasks) - 1 /\ Len(tasks) \in Nat
          BY <1>0, <2>1, <4>1, EraseAtElements
        <4>3. \A k \in 1..(Len(tasks) - 1) : tasks'[k] = IF k = i THEN tasks[Len(tasks)] ELSE tasks[k]
          BY <1>0, <2>1, <4>1, EraseAtElements
        <4>4. ASSUME NEW j \in 1..Len(tasks') PROVE InTime(tasks[j], Pending(j))'
          <5>1. PICK m \in 1..Len(tasks) : tasks'[j] = tasks[m] /\ m # i /\ m >= j /\ (m = j \/ j = i)
            BY <2>1, <4>2, <4>3, <4>4
          <5>2. Pending(j)' = Pending(m)
            BY <1>0, <2>1, <4>1, <5>1 DEF Pending
          <5>3. Pending(m) \in Int /\ tasks[m] \in Task /\ InTime(tasks[m], Pending(m)) /\ tasks[m].id # t.id
            BY <2>4, <3>4, <5>1, Numbers
          <5> QED
            BY <3>2, <5>1, <5>2, <5>3 DEF InTime, Charged
        <4> QED
          BY <3>3, <4>4
      <3> QED
        BY <3>5, <3>6
    <2> QED
      BY <2>5, <2>6
  <1>8. CASE ScanEnd
    <2>1. /\ UNCHANGED <<tasks, tmp, age, need, onceVars, ms, spent>> /\ pc = "scan" /\ pc' = "wait" /\ i > Len(tasks)
      BY <1>8 DEF ScanEnd, listVars, clockVars
    <2>2. \A j \in 1..Len(tasks) : Pending(j)' = 0 /\ Pending(j) = 0
      BY <1>0, <2>1 DEF Pending
    <2> QED
      BY <1>1, <2>1, <2>2 DEF Uncharged
  <1>9. CASE LoopWait \/ LoopExpire \/ LoopWoken
    <2>1. /\ UNCHANGED <<tasks, tmp, age, need, onceVars, ms, spent>>
          /\ pc \in {"wait", "block"} /\ pc' \in {"block", "check"}
      BY <1>9 DEF LoopWait, LoopExpire, LoopWoken, listVars, clockVars
    <2> QED
      BY <1>1, <2>1 DEF Uncharged, Pending
  <1>10. CASE LoopCheck
    <2>1. /\ UNCHANGED <<tasks, tmp, age, need, onceVars, spent>> /\ pc = "check" /\ pc' = "head" /\ ms' = ms + spent
      BY <1>10 DEF LoopCheck, listVars
    <2> QED
      BY <1>1, <2>1 DEF Uncharged, Pending
  <1>11. CASE Tick
    <2>1. /\ UNCHANGED <<tasks, tmp, need, onceVars, ms, pc, i, sec>> /\ pc # "head" /\ pc # "end" /\ spent' = spent + 1
          /\ \A x \in Ids : age'[x] = IF age[x] < MaxAge THEN age[x] + 1 ELSE MaxAge
      BY <1>11 DEF Tick, listVars
    <2>2. Uncharged' = Uncharged + 1 /\ \A j \in 1..Len(tasks) : Pending(j)' = Pending(j)
      BY <1>0, <2>1 DEF Uncharged, Pending
    <2>3. ASSUME NEW t \in Task, NEW p \in Int, Charged(t) \in Int, InTime(t, p)
          PROVE  \/ age'[t.id] = MaxAge
                 \/ Charged(t) + p + Uncharged' <= age'[t.id] + Granted'[t.id]
      <3>1. t.id \in Ids
        BY DEF Task
      <3>2. age[t.id] \in 0..MaxAge /\ age'[t.id] = IF age[t.id] < MaxAge THEN age[t.id] + 1 ELSE MaxAge
        BY <1>0, <2>1, <3>1
      <3>3. age[t.id] = MaxAge \/ Charged(t) + p + Uncharged <= age[t.id] + Granted[t.id]
        BY <2>3 DEF InTime
      <3>4. Granted'[t.id] = Granted[t.id] /\ Granted[t.id] \in Nat
        BY <1>G, <2>1, <3>1
      <3> QED
        BY <1>N, <2>2, <2>3, <3>2, <3>3, <3>4, Constants
    <2>4. ASSUME NEW j \in 1..Len(tasks') PROVE InTime(tasks[j], Pending(j))'
      <3>1. InTime(tasks[j], Pending(j)) /\ tasks[j] \in Task /\ Pending(j) \in Int /\ Charged(tasks[j]) \in Int
        BY <2>1, <2>4, Numbers DEF EarlyInv
      <3>2. Charged(tasks[j])' = Charged(tasks[j]) /\ tasks'[j] = tasks[j] /\ j \in 1..Len(tasks)
        BY <2>1, <2>4 DEF Charged
      <3> QED
        BY <2>1, <2>2, <2>3, <2>4, <3>1, <3>2 DEF InTime
    <2>5. ASSUME NEW j \in 1..Len(tmp') PROVE InTime(tmp[j], 0)'
      <3>1. InTime(tmp[j], 0) /\ tmp[j] \in Task /\ Charged(tmp[j]) \in Int
        BY <2>1, <2>5, Numbers DEF EarlyInv
      <3>2. Charged(tmp[j])' = Charged(tmp[j]) /\ tmp'[j] = tmp[j]
        BY <2>1 DEF Charged
      <3>3. \/ age'[tmp[j].id] = MaxAge
            \/ Charged(tmp[j]) + 0 + Uncharged' <= age'[tmp[j].id] + Granted'[tmp[j].id]
        BY <2>3, <3>1
      <3> QED
        BY <3>2, <3>3 DEF InTime
    <2> QED
      BY <2>4, <2>5
  <1>12. CASE UNCHANGED vars
    <2>1. /\ UNCHANGED <<tasks, tmp, age, need, onceVars, pc, ms, spent, i, sec>>
      BY <1>12 DEF vars, listVars, clockVars, auxVars
    <2> QED
      BY <1>1, <2>1 DEF Uncharged, Pending
  <1> QED
    BY <1>2, <1>3, <1>4, <1>5, <1>6, <1>7, <1>8, <1>9, <1>10, <1>11, <1>12 DEF Next, LoopStep

\* EarlyInv is an invariant.
THEOREM EarlyInvariant == Spec => []EarlyInv
  BY InitEarlyInv, NextEarlyInv, CoreInvariant, ListInvariant, PTL DEF Spec

\* A task that runs has been charged with all the seconds it was to wait.
LEMMA RunsInTime ==
    ASSUME Core, ListInv, EarlyInv, Next, NEW x \in Ids, ran' = x
    PROVE  K * need[x] <= age[x] + booked[x] + K * again[x] /\ booked[x] <= Slack
  <1>1. ScanTask /\ ~(tasks[i].count - sec > 0) /\ x = tasks[i].id
    <2>1. ran' # NoTask
      BY Constants
    <2>2. ScanTask
      BY <2>1 DEF Next, LoopStep, Run, StopSwap, StopSignal, StopJoin, LoopHead, LoopFetch, ScanEnd,
                  LoopWait, LoopExpire, LoopWoken, LoopCheck, Tick
    <2> QED
      BY <2>1, <2>2 DEF ScanTask
  <1> DEFINE t == tasks[i]
  <1>2. i \in 1..Len(tasks) /\ pc = "scan" /\ sec \in Nat
    BY <1>1 DEF ScanTask, Core, TypeOK
  <1>3. /\ t.count \in Int /\ Charged(t) = K * need[x] - K * t.count /\ need[x] \in Nat /\ age[x] \in Nat
        /\ Uncharged \in Nat /\ InTime(t, Pending(i)) /\ Pending(i) = K * sec
    BY <1>1, <1>2, Numbers DEF EarlyInv, Pending
  <1>4. K * t.count <= K * sec /\ K * t.count \in Int /\ K * sec \in Int /\ K * need[x] \in Int
    <2>1. t.count <= sec
      BY <1>1, <1>2, <1>3
    <2> QED
      BY <1>2, <1>3, <2>1, Constants, Ticks, SMTT(30)
  <1> DEFINE g == K * again[x]
  <1>5. booked[x] \in Nat /\ g \in Nat /\ booked[x] <= Slack /\ Granted[x] = booked[x] + g
    <2>1. booked[x] \in Nat /\ again[x] \in Nat
      BY DEF Core, TypeOK
    <2>2. \A a \in Nat : K * a \in Nat
      BY Constants
    <2>3. booked[x] <= Slack
      BY <1>2 DEF EarlyInv
    <2> QED
      BY <2>1, <2>2, <2>3, Zenon DEF Granted
  <1> HIDE DEF g
  <1>6. K * need[x] <= age[x] + booked[x] + g
    <2>1. CASE age[x] = MaxAge
      <3>1. K * need[x] <= MaxAge
        BY <1>3 DEF ListInv, Absent
      <3> QED
        BY <1>3, <1>4, <1>5, <2>1, <3>1, Constants
    <2>2. CASE Charged(t) + Pending(i) + Uncharged <= age[x] + Granted[x]
      BY <1>3, <1>4, <1>5, <2>2, Constants
    <2> QED
      BY <1>1, <1>3, <2>1, <2>2 DEF InTime
  <1> QED
    BY <1>5, <1>6 DEF g

\* No task runs earlier than asked for by more than the rounds of the loop and
\* the clock account for.
THEOREM TasksNotEarly == Spec => NotEarly
  <1>1. ASSUME Core, ListInv, EarlyInv, [Next]_vars
        PROVE  [\A x \in Ids : ran' = x =>
                   /\ K * need[x] <= age[x] + booked[x] + K * again[x]
                   /\ booked[x] <= Slack]_vars
    BY <1>1, RunsInTime
  <1> QED
    BY <1>1, CoreInvariant, ListInvariant, EarlyInvariant, PTL DEF Spec, NotEarly
=============================================================================
