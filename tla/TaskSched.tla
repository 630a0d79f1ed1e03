----------------------------- MODULE TaskSched -----------------------------
(***************************************************************************)
(* TaskSched (TaskSchedImpl in thread.cc): a thread that runs functions    *)
(* after, or every, so many seconds.  The thread wakes up once a second or *)
(* when it is signaled, adds up the time its rounds took, and subtracts    *)
(* the whole seconds from the count of every task.                         *)
(*                                                                         *)
(* Composed with SyncEvent (_ev, automatic reset, the loop as its only     *)
(* waiter).  Time is counted in ticks, K of them to a second; Tick may     *)
(* happen anywhere in a round, also while a task runs.                     *)
(***************************************************************************)
EXTENDS Integers, Sequences, FiniteSets, SequencesExt

CONSTANTS
    Ids,        \* tasks
    Job,        \* what each task was added with: see Jobs
    K,          \* ticks per second
    Day,        \* seconds of a day
    Busy,       \* bound on the ticks a round spends outside _ev.wait
    Late,       \* bound on the ticks _ev.wait takes beyond its second
    MaxAge,     \* bound on the ticks that are counted for NotEarly
    MayStop     \* whether stop() is called

Jobs == [kind : {"in", "every", "daily"}, sec : Nat]

NoTask == "none"

ASSUME JobAssumption ==
    /\ Job \in [Ids -> Jobs] /\ NoTask \notin Ids
    /\ {K, Day} \subseteq Nat \ {0}
    /\ {Busy, Late, MaxAge} \subseteq Nat
    /\ K * Day <= MaxAge /\ \A x \in Ids : K * Job[x].sec <= MaxAge
    /\ MayStop \in BOOLEAN

VARIABLES
    stop,       \* _stop
    tasks,      \* _tasks
    tmp,        \* _tmp
    ms, sec,    \* the locals of loop(), in ticks and in seconds
    spent,      \* t.ms(): ticks since t.restart()
    waited,     \* ticks since _ev.wait(1000) was called
    pc,         \* where loop() is
    i,          \* its index into _tasks
    stopPc,     \* where the caller of stop() is
    signaled, consumer, at, surplus,    \* _ev
    ran,        \* auxiliary: the task the last step ran
    age,        \* auxiliary: ticks since a task was added or last ran, capped
    need,       \* auxiliary: the seconds until its next run, or Absent
    booked,     \* auxiliary: the ticks on the loop's books when a task was
                \* added or last ran
    again       \* auxiliary: the seconds it was charged with a second time

Loop == "loop"
Absent == -1
Ev == INSTANCE SyncEvent WITH Waiters <- {Loop}, Manual <- FALSE, Spurious <- FALSE

evVars == <<signaled, consumer, at, surplus>>
listVars == <<tasks, tmp>>
clockVars == <<ms, sec, spent, waited>>
onceVars == <<booked, again>>
auxVars == <<ran, age, need, onceVars>>
vars == <<stop, listVars, clockVars, pc, i, stopPc, evVars, auxVars>>

MaxRound == Busy + K + Late
Task == [id : Ids, period : Nat, count : Int]

TypeOK ==
    /\ stop \in BOOLEAN
    /\ tasks \in Seq(Task) /\ tmp \in Seq(Task)
    /\ ms \in Nat /\ sec \in Nat
    /\ spent \in 0..MaxRound /\ waited \in 0..MaxRound
    /\ pc \in {"head", "fetch", "scan", "wait", "block", "check", "end"}
    /\ i \in 1..(Len(tasks) + 1)
    /\ stopPc \in {"no", "signal", "join", "done"}
    /\ Ev!EvTypeOK
    /\ ran \in Ids \cup {NoTask}
    /\ age \in [Ids -> 0..MaxAge]
    /\ need \in [Ids -> Nat \cup {Absent}]
    /\ booked \in [Ids -> Nat] /\ again \in [Ids -> Nat]

Init ==
    /\ stop = FALSE
    /\ tasks = <<>> /\ tmp = <<>>
    /\ ms = 0 /\ sec = 0
    /\ spent = 0 /\ waited = 0
    /\ pc = "head"
    /\ i = 1
    /\ stopPc = "no"
    /\ Ev!EvInit
    /\ ran = NoTask
    /\ age = [x \in Ids |-> 0]
    /\ need = [x \in Ids |-> Absent]
    /\ booked = [x \in Ids |-> 0] /\ again = [x \in Ids |-> 0]

IdsOf(q) == {q[j].id : j \in 1..Len(q)}

\* The ticks that have passed and were not charged to any task yet: ms, and
\* the round so far, which ms holds already at the head of the loop.
Uncharged == ms + (IF pc = "head" THEN 0 ELSE spent)

\* x starts to wait.
Starts(x) ==
    /\ age' = [age EXCEPT ![x] = 0]
    /\ booked' = [booked EXCEPT ![x] = Uncharged]
    /\ again' = [again EXCEPT ![x] = 0]

-----------------------------------------------------------------------------
(* The callers: run_in, run_every, run_daily and stop. *)

\* period and count of a new task; run_daily counts to its time of day.
NewTask(x, n) ==
    [id |-> x, count |-> n,
     period |-> IF Job[x].kind = "in" THEN 0 ELSE IF Job[x].kind = "every" THEN Job[x].sec ELSE Day]

FirstDelays(x) == IF Job[x].kind = "daily" THEN 0..(Day - 1) ELSE {Job[x].sec}

\* Only run_in with sec <= 0 wakes the loop.
Run(x) ==
    /\ need[x] = Absent
    /\ \E n \in FirstDelays(x) :
          /\ tmp' = Append(tmp, NewTask(x, n))
          /\ need' = [need EXCEPT ![x] = n]
    /\ Starts(x)
    /\ IF Job[x].kind = "in" /\ Job[x].sec <= 0 THEN Ev!SetSignal ELSE UNCHANGED evVars
    /\ ran' = NoTask
    /\ UNCHANGED <<stop, tasks, clockVars, pc, i, stopPc>>

StopSwap ==
    /\ MayStop
    /\ ~stop
    /\ stop' = TRUE
    /\ stopPc' = "signal"
    /\ ran' = NoTask
    /\ UNCHANGED <<listVars, clockVars, pc, i, evVars, age, need, onceVars>>

StopSignal ==
    /\ stopPc = "signal"
    /\ Ev!SetSignal
    /\ stopPc' = "join"
    /\ ran' = NoTask
    /\ UNCHANGED <<stop, listVars, clockVars, pc, i, age, need, onceVars>>

\* _t.join(), and then both lists are freed.
StopJoin ==
    /\ stopPc = "join"
    /\ pc = "end"
    /\ tasks' = <<>> /\ tmp' = <<>>
    /\ i' = 1
    /\ need' = [x \in Ids |-> Absent]
    /\ stopPc' = "done"
    /\ ran' = NoTask
    /\ UNCHANGED <<stop, clockVars, pc, evVars, age, onceVars>>

-----------------------------------------------------------------------------
(* TaskSchedImpl::loop. *)

\* while (!_stop) { t.restart();
LoopHead ==
    /\ pc = "head"
    /\ pc' = IF stop THEN "end" ELSE "fetch"
    /\ spent' = 0 /\ waited' = 0
    /\ ran' = NoTask
    /\ UNCHANGED <<stop, listVars, ms, sec, i, stopPc, evVars, age, need, onceVars>>

\* Mutant of TakeSeconds: the seconds are not taken out of ms.
TakeSecondsKeep ==
    IF ms >= K THEN sec' = ms \div K /\ UNCHANGED ms ELSE UNCHANGED <<ms, sec>>

\* The whole seconds of the rounds so far, taken out of ms.  sec keeps its
\* old value when ms has not come to a second.
TakeSeconds ==
    IF ms >= K THEN sec' = ms \div K /\ ms' = ms % K ELSE UNCHANGED <<ms, sec>>

\* Then every task, old or new, is charged with those seconds again.
ChargesAgain ==
    again' = [x \in Ids |-> IF ms < K /\ need[x] # Absent THEN again[x] + sec ELSE again[x]]

\* Mutant of LoopFetch: the new tasks replace the old ones.
LoopFetchSwap ==
    /\ pc = "fetch"
    /\ tasks' = IF tmp = <<>> THEN tasks ELSE tmp
    /\ tmp' = <<>>
    /\ TakeSeconds
    /\ i' = 1
    /\ pc' = "scan"
    /\ ran' = NoTask
    /\ ChargesAgain
    /\ UNCHANGED <<stop, spent, waited, stopPc, evVars, age, need, booked>>

\* Move _tmp to the end of _tasks and account for the time.
LoopFetch ==
    /\ pc = "fetch"
    /\ tasks' = tasks \o tmp
    /\ tmp' = <<>>
    /\ TakeSeconds
    /\ i' = 1
    /\ pc' = "scan"
    /\ ran' = NoTask
    /\ ChargesAgain
    /\ UNCHANGED <<stop, spent, waited, stopPc, evVars, age, need, booked>>

\* Mutant of EraseAt: the last task is not moved.
EraseLast(q, j) == Front(q)

\* Erase by moving the last task to index i.
EraseAt(q, j) ==
    IF j # Len(q) THEN Front([q EXCEPT ![j] = Last(q)]) ELSE Front(q)

\* One task of the for loop; one that is erased leaves i where it is.
ScanTask ==
    /\ pc = "scan" /\ i <= Len(tasks)
    /\ LET t == tasks[i]
           n == t.count - sec
       IN  IF n > 0
           THEN /\ tasks' = [tasks EXCEPT ![i].count = n]
                /\ i' = i + 1
                /\ ran' = NoTask
                /\ UNCHANGED <<age, need, onceVars>>
           ELSE /\ ran' = t.id
                /\ Starts(t.id)
                /\ need' = [need EXCEPT ![t.id] = IF t.period > 0 THEN t.period ELSE Absent]
                /\ IF t.period > 0
                   THEN tasks' = [tasks EXCEPT ![i].count = t.period] /\ i' = i + 1
                   ELSE tasks' = EraseAt(tasks, i) /\ UNCHANGED i
    /\ UNCHANGED <<stop, tmp, clockVars, pc, stopPc, evVars>>

ScanEnd ==
    /\ pc = "scan" /\ i > Len(tasks)
    /\ pc' = "wait"
    /\ ran' = NoTask
    /\ UNCHANGED <<stop, listVars, clockVars, i, stopPc, evVars, age, need, onceVars>>

\* _ev.wait(1000): it returns at once, or the loop blocks ...
LoopWait ==
    /\ pc = "wait"
    /\ \/ Ev!WaitNow(Loop) /\ pc' = "check"
       \/ Ev!WaitBlock(Loop, "tcv") /\ pc' = "block"
    /\ ran' = NoTask
    /\ UNCHANGED <<stop, listVars, clockVars, i, stopPc, age, need, onceVars>>

\* ... until a second is over ...
LoopExpire ==
    /\ pc = "block"
    /\ waited >= K
    /\ Ev!WaitExpire(Loop)
    /\ ran' = NoTask
    /\ UNCHANGED <<stop, listVars, clockVars, pc, i, stopPc, age, need, onceVars>>

\* ... or it is signaled.
LoopWoken ==
    /\ pc = "block"
    /\ Ev!WaitReturn(Loop) \/ Ev!WaitTimeout(Loop)
    /\ pc' = "check"
    /\ ran' = NoTask
    /\ UNCHANGED <<stop, listVars, clockVars, i, stopPc, age, need, onceVars>>

\* Mutant of LoopCheck: the flag is not looked at after the wait, and the
\* signal that stop() sent is gone.
LoopCheckOn ==
    /\ pc = "check"
    /\ pc' = "fetch" /\ ms' = ms + spent
    /\ spent' = 0 /\ waited' = 0
    /\ ran' = NoTask
    /\ UNCHANGED <<stop, listVars, sec, i, stopPc, evVars, age, need, onceVars>>

\* if (_stop) return;  ms += t.ms();
LoopCheck ==
    /\ pc = "check"
    /\ IF stop THEN pc' = "end" /\ UNCHANGED ms
       ELSE pc' = "head" /\ ms' = ms + spent
    /\ ran' = NoTask
    /\ UNCHANGED <<stop, listVars, sec, spent, waited, i, stopPc, evVars, age, need, onceVars>>

\* A tick of the clock, anywhere in a round.
Tick ==
    /\ pc \notin {"head", "end"}
    /\ IF pc = "block" THEN waited < K + Late ELSE spent - waited < Busy
    /\ spent' = spent + 1
    /\ waited' = IF pc = "block" THEN waited + 1 ELSE waited
    /\ age' = [x \in Ids |-> IF age[x] < MaxAge THEN age[x] + 1 ELSE MaxAge]
    /\ ran' = NoTask
    /\ UNCHANGED <<stop, listVars, ms, sec, pc, i, stopPc, evVars, need, onceVars>>

-----------------------------------------------------------------------------
LoopStep == \/ LoopHead \/ LoopFetch \/ ScanTask \/ ScanEnd \/ LoopWait
            \/ LoopExpire \/ LoopWoken \/ LoopCheck

Next == \/ \E x \in Ids : Run(x)
        \/ StopSwap \/ StopSignal \/ StopJoin
        \/ LoopStep
        \/ Tick

Spec == Init /\ [][Next]_vars

\* The loop thread runs, time passes (however short the rounds), and stop()
\* goes on.
FairSpec ==
    /\ Spec
    /\ WF_vars(LoopStep)
    /\ SF_vars(Tick)
    /\ WF_vars(StopSignal \/ StopJoin)

-----------------------------------------------------------------------------
(* Properties. *)

\* Erasing by moving the last task, reloading and fetching neither lose nor
\* duplicate a task: a task that was added and is not done is in one of the
\* lists, once, and a one-shot task that has run is in none.
OnceInLists ==
    /\ IdsOf(tasks) \cup IdsOf(tmp) = {x \in Ids : need[x] # Absent}
    /\ \A j, k \in 1..Len(tasks) : tasks[j].id = tasks[k].id => j = k
    /\ \A j, k \in 1..Len(tmp) : tmp[j].id = tmp[k].id => j = k
    /\ IdsOf(tasks) \cap IdsOf(tmp) = {}

\* The most that is on the books when a task starts to wait: a round, the rest
\* of a second, and what the next round takes before it fetches new tasks.
Slack == MaxRound + Busy + K - 1

\* A task runs when the seconds it was added with have passed since
\* (thread.h:84, thread.h:91), but for two things that are counted exactly: the
\* time that was on the loop's books when the task was added or last ran, which
\* is less than two rounds and is taken for waited; and the seconds that rounds
\* cut short by a signal charge a second time, since sec keeps its value when
\* ms has not come to a second (thread.cc:124-131).  Nothing else makes a task
\* early: a promise weaker than "run f() once @sec seconds later" by these two.
NotEarly ==
    [][\A x \in Ids : ran' = x =>
          /\ K * need[x] <= age[x] + booked[x] + K * again[x]
          /\ booked[x] <= Slack]_vars

\* Every task that is added runs, and a periodic one again and again, unless
\* the scheduler is stopped.
EveryTaskRuns ==
    \A x \in Ids : need[x] # Absent ~> ran = x \/ stop

\* stop() returns, and by then the loop has ended.  (thread.cc:152)
StopReturns == stop ~> stopPc = "done" /\ [](pc = "end")

\* SyncEvent, seen from its user.  (thread.cc:61, thread.cc:146, thread.cc:154)
SignalKept == Ev!SignalKept
=============================================================================
