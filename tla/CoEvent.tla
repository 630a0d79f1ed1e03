------------------------------ MODULE CoEvent ------------------------------
(***************************************************************************)
(* co::Event on one scheduler: EventImpl (co.cc) with the loop, the task   *)
(* queues, the timers and the coroutine pool of the scheduler that runs    *)
(* the waiters (scheduler.h, scheduler.cc).                                *)
(*                                                                         *)
(* A timed wait can end in two ways, and both race: signal(), which may    *)
(* run in any thread, takes the whole map _co_wait and then moves each     *)
(* coroutine from S_wait to S_ready with a CAS; check_timeout(), in the    *)
(* scheduler thread, swaps the state to S_init.  Who finds S_wait resumes  *)
(* the coroutine.  The steps of signal() (take the map, each CAS, each     *)
(* call of add_ready_task) interleave with all the scheduler does.         *)
(*                                                                         *)
(* Timers are names; "due" holds those whose time has passed, in any       *)
(* order.  What the scheduler thread does to state that no other thread    *)
(* reads is merged into the step in which it happens.  One event is        *)
(* enough: a coroutine waits for one event at a time.                      *)
(***************************************************************************)
EXTENDS Naturals, Sequences, FiniteSets, SequencesExt

CONSTANTS
    Threads,        \* threads other than the scheduler that call signal()
    SchedThread,    \* the scheduler thread: its coroutines call it too
    MaxTimers,      \* bound on the timers ever added
    MaxGo,          \* bound on the calls of go(), so on the coroutines too
    LateSignals     \* whether a wait may start while a signal() is still at
                    \* work that took an earlier wait of the same coroutine

ASSUME BoundAssumption ==
    /\ SchedThread \notin Threads /\ IsFiniteSet(Threads)
    /\ {MaxTimers, MaxGo} \subseteq Nat
    /\ LateSignals \in BOOLEAN

Cos == 1..MaxGo
Timers == 1..MaxTimers
NoTimer == 0            \* null_timer_id
NoCo == 0               \* a null Coroutine*
Signallers == Threads \cup {SchedThread}

\* An element of _co_wait; one of _ready_timer_tasks has a timer (the assert
\* in add_ready_timer_task).
Entry == [co : Cos, id : Timers \cup {NoTimer}]
TimedEntry == [co : Cos, id : Timers]

VARIABLES
    state,      \* Coroutine::state: "init", "wait" or "ready"
    pos,        \* where each coroutine is: see Positions
    cur,        \* the local "id" of its current wait(ms), NoTimer in wait()
    created,    \* size of Copool::_pool (the main coroutine not counted)
    pool,       \* Copool::_ids
    coWait,     \* EventImpl::_co_wait
    taken,      \* signal(): what is left of the map each signaller took
    won,        \* signal(): the entry whose CAS succeeded, not yet added
    newTasks,   \* number of closures in TaskManager::_new_tasks
    readyTasks, \* TaskManager::_ready_tasks
    timerTasks, \* TaskManager::_ready_timer_tasks
    pc,         \* Scheduler::loop: "epoll", "tasks", "check" or "expired"
    batch,      \* the three local containers of loop()
    running,    \* Scheduler::_running while it runs, else NoCo
    timeout,    \* Scheduler::_timeout
    timers,     \* TimerManager::_timer: the coroutine of each live timer
    due,        \* the live timers whose time has come
    nTimers,    \* timers added so far
    nGo,        \* calls of go() so far
    signalled   \* auxiliary: a CAS of signal() succeeded in the current wait

coVars == <<state, pos, cur, signalled>>
poolVars == <<created, pool>>
sigVars == <<taken, won>>
queueVars == <<newTasks, readyTasks, timerTasks>>
loopVars == <<pc, batch, running, timeout>>
timerVars == <<timers, due, nTimers>>
vars == <<coVars, poolVars, coWait, sigVars, queueVars, loopVars, timerVars, nGo>>

\* "free": in the pool or not created; "run": running; "enter", "tenter": in
\* wait() or wait(ms) before the insertion into _co_wait; "wait", "twait":
\* suspended there; "sleep": suspended in co::sleep.
Positions == {"free", "run", "enter", "tenter", "wait", "twait", "sleep"}

Nothing == [new |-> 0, ready |-> <<>>, timed |-> {}]

TypeOK ==
    /\ state \in [Cos -> {"init", "wait", "ready"}]
    /\ pos \in [Cos -> Positions]
    /\ cur \in [Cos -> Timers \cup {NoTimer}]
    /\ created \in 0..MaxGo
    /\ pool \in Seq(Cos)
    /\ coWait \subseteq Entry
    /\ taken \in [Signallers -> SUBSET Entry]
    /\ won \in [Signallers -> SUBSET Entry]
    /\ newTasks \in 0..MaxGo
    /\ readyTasks \in Seq(Cos)
    /\ timerTasks \subseteq TimedEntry
    /\ pc \in {"epoll", "tasks", "check", "expired"}
    /\ batch.new \in 0..MaxGo /\ batch.ready \in Seq(Cos) /\ batch.timed \subseteq TimedEntry
    /\ running \in Cos \cup {NoCo}
    /\ timeout \in BOOLEAN
    /\ DOMAIN timers \subseteq Timers /\ \A i \in DOMAIN timers : timers[i] \in Cos
    /\ due \subseteq DOMAIN timers
    /\ nTimers \in 0..MaxTimers
    /\ nGo \in 0..MaxGo
    /\ signalled \in [Cos -> BOOLEAN]

Init ==
    /\ state = [c \in Cos |-> "init"]
    /\ pos = [c \in Cos |-> "free"]
    /\ cur = [c \in Cos |-> NoTimer]
    /\ created = 0
    /\ pool = <<>>
    /\ coWait = {}
    /\ taken = [a \in Signallers |-> {}]
    /\ won = [a \in Signallers |-> {}]
    /\ newTasks = 0
    /\ readyTasks = <<>>
    /\ timerTasks = {}
    /\ pc = "epoll"
    /\ batch = Nothing
    /\ running = NoCo
    /\ timeout = FALSE
    /\ timers = <<>>
    /\ due = {}
    /\ nTimers = 0
    /\ nGo = 0
    /\ signalled = [c \in Cos |-> FALSE]

\* std::unordered_map::insert does not replace an element with the same key.
Insert(m, e) == IF \E x \in m : x.co = e.co THEN m ELSE m \cup {e}

\* TimerManager::add_timer, erase.
AddTimer(c) ==
    /\ nTimers < MaxTimers
    /\ nTimers' = nTimers + 1
    /\ timers' = [i \in DOMAIN timers \cup {nTimers + 1} |->
                     IF i = nTimers + 1 THEN c ELSE timers[i]]
    /\ UNCHANGED due

WithoutTimer(id) == [i \in DOMAIN timers \ {id} |-> timers[i]]

-----------------------------------------------------------------------------
(* What the running coroutine does. *)

\* It is not inside signal().
Free(c) ==
    /\ running = c
    /\ pos[c] = "run"
    /\ taken[SchedThread] = {} /\ won[SchedThread] = {}

\* No signaller in another thread still holds an entry of c that it took in an
\* earlier wait; one in this thread has none, see Free.  The code does not look
\* after this; a run either assumes it or does not.
MayWait(c) ==
    LateSignals \/ \A a \in Threads : \A e \in taken[a] : e.co # c

\* EventImpl::wait(): state first, then the map, then yield.
WaitEnter(c) ==
    /\ Free(c) /\ MayWait(c)
    /\ state' = [state EXCEPT ![c] = "wait"]
    /\ cur' = [cur EXCEPT ![c] = NoTimer]
    /\ signalled' = [signalled EXCEPT ![c] = FALSE]
    /\ pos' = [pos EXCEPT ![c] = "enter"]
    /\ UNCHANGED <<poolVars, coWait, sigVars, queueVars, loopVars, timerVars, nGo>>

\* EventImpl::wait(ms): the same with a timer.
TimedWaitEnter(c) ==
    /\ Free(c) /\ MayWait(c)
    /\ AddTimer(c)
    /\ state' = [state EXCEPT ![c] = "wait"]
    /\ cur' = [cur EXCEPT ![c] = nTimers + 1]
    /\ signalled' = [signalled EXCEPT ![c] = FALSE]
    /\ pos' = [pos EXCEPT ![c] = "tenter"]
    /\ UNCHANGED <<poolVars, coWait, sigVars, queueVars, loopVars, nGo>>

WaitYield(c) ==
    /\ running = c
    /\ pos[c] \in {"enter", "tenter"}
    /\ coWait' = Insert(coWait, [co |-> c, id |-> cur[c]])
    /\ pos' = [pos EXCEPT ![c] = IF @ = "enter" THEN "wait" ELSE "twait"]
    /\ running' = NoCo
    /\ UNCHANGED <<state, cur, signalled, poolVars, sigVars, queueVars,
                   pc, batch, timeout, timerVars, nGo>>

\* co::sleep: the state stays S_init.
Sleep(c) ==
    /\ Free(c)
    /\ AddTimer(c)
    /\ pos' = [pos EXCEPT ![c] = "sleep"]
    /\ running' = NoCo
    /\ UNCHANGED <<state, cur, signalled, poolVars, coWait, sigVars, queueVars,
                   pc, batch, timeout, nGo>>

\* The coroutine returns: main_func recycles it and jumps to the main context.
Finish(c) ==
    /\ Free(c)
    /\ pool' = Append(pool, c)
    /\ pos' = [pos EXCEPT ![c] = "free"]
    /\ running' = NoCo
    /\ UNCHANGED <<state, cur, signalled, created, coWait, sigVars, queueVars,
                   pc, batch, timeout, timerVars, nGo>>

-----------------------------------------------------------------------------
(* What any thread does: go() and signal(). *)

MayCall(a) == a = SchedThread => \E c \in Cos : Free(c)

\* go(): some thread, the main one for instance, queues a closure.
Go ==
    /\ nGo < MaxGo
    /\ nGo' = nGo + 1
    /\ newTasks' = newTasks + 1
    /\ UNCHANGED <<coVars, poolVars, coWait, sigVars, readyTasks, timerTasks,
                   loopVars, timerVars>>

\* signal() takes the map under _mtx.
SignalTake(a) ==
    /\ MayCall(a)
    /\ taken[a] = {} /\ won[a] = {}
    /\ coWait # {}
    /\ taken' = [taken EXCEPT ![a] = coWait]
    /\ coWait' = {}
    /\ UNCHANGED <<coVars, poolVars, won, queueVars, loopVars, timerVars, nGo>>

\* Mutant of SignalCas: only one waiter is woken.
SignalCasOne(a, e) ==
    /\ e \in taken[a] /\ won[a] = {}
    /\ taken' = [taken EXCEPT ![a] = {}]
    /\ IF state[e.co] = "wait"
       THEN /\ state' = [state EXCEPT ![e.co] = "ready"]
            /\ signalled' = [signalled EXCEPT ![e.co] = TRUE]
            /\ won' = [won EXCEPT ![a] = {e}]
       ELSE UNCHANGED <<state, signalled, won>>
    /\ UNCHANGED <<pos, cur, poolVars, coWait, queueVars, loopVars, timerVars, nGo>>

\* One round of the loop: the CAS from S_wait to S_ready.
SignalCas(a, e) ==
    /\ e \in taken[a] /\ won[a] = {}
    /\ taken' = [taken EXCEPT ![a] = @ \ {e}]
    /\ IF state[e.co] = "wait"
       THEN /\ state' = [state EXCEPT ![e.co] = "ready"]
            /\ signalled' = [signalled EXCEPT ![e.co] = TRUE]
            /\ won' = [won EXCEPT ![a] = {e}]
       ELSE UNCHANGED <<state, signalled, won>>
    /\ UNCHANGED <<pos, cur, poolVars, coWait, queueVars, loopVars, timerVars, nGo>>

\* ... and add_ready_timer_task or add_ready_task.
SignalAdd(a) ==
    /\ \E e \in won[a] :
          IF e.id # NoTimer
          THEN timerTasks' = Insert(timerTasks, e) /\ UNCHANGED readyTasks
          ELSE readyTasks' = Append(readyTasks, e.co) /\ UNCHANGED timerTasks
    /\ won' = [won EXCEPT ![a] = {}]
    /\ UNCHANGED <<coVars, poolVars, coWait, taken, newTasks, loopVars, timerVars, nGo>>

-----------------------------------------------------------------------------
(* Scheduler::loop. *)

\* Mutant of Resumed: the timed out waiter stays in _co_wait.
ResumedListed(c) ==
    /\ running' = c
    /\ pos' = [pos EXCEPT ![c] = "run"]
    /\ state' = [state EXCEPT ![c] = IF pos[c] \in {"wait", "twait"} THEN "init" ELSE @]
    /\ UNCHANGED <<coWait, cur, signalled>>

\* Scheduler::resume(co), up to the point where the coroutine's own code goes
\* on: the end of wait() sets S_init; wait(ms) leaves _co_wait on timeout.
Resumed(c) ==
    /\ running' = c
    /\ pos' = [pos EXCEPT ![c] = "run"]
    /\ state' = [state EXCEPT ![c] = IF pos[c] \in {"wait", "twait"} THEN "init" ELSE @]
    /\ coWait' = IF pos[c] = "twait" /\ timeout THEN {e \in coWait : e.co # c} ELSE coWait
    /\ UNCHANGED <<cur, signalled>>

\* epoll_wait returned; the tasks are taken with the lock of TaskManager held.
GetAllTasks ==
    /\ pc = "epoll"
    /\ batch' = [new |-> newTasks, ready |-> readyTasks, timed |-> timerTasks]
    /\ newTasks' = 0 /\ readyTasks' = <<>> /\ timerTasks' = {}
    /\ pc' = "tasks"
    /\ UNCHANGED <<coVars, poolVars, coWait, sigVars, running, timeout, timerVars, nGo>>

\* resume(new_coroutine(...)): Copool::pop reuses the last id, or creates one.
ResumeNew ==
    /\ pc = "tasks" /\ running = NoCo
    /\ batch.new > 0
    /\ batch' = [batch EXCEPT !.new = @ - 1]
    /\ \/ /\ pool # <<>>
          /\ pool' = Front(pool)
          /\ Resumed(Last(pool))
          /\ UNCHANGED created
       \/ /\ pool = <<>>
          /\ created' = created + 1
          /\ Resumed(created + 1)
          /\ UNCHANGED pool
    /\ UNCHANGED <<sigVars, queueVars, pc, timeout, timerVars, nGo>>

ResumeReady ==
    /\ pc = "tasks" /\ running = NoCo /\ batch.new = 0
    /\ batch.ready # <<>>
    /\ batch' = [batch EXCEPT !.ready = Tail(@)]
    /\ Resumed(Head(batch.ready))
    /\ UNCHANGED <<poolVars, sigVars, queueVars, pc, timeout, timerVars, nGo>>

\* if (co->state == S_ready) del_timer(id); resume(co);
ResumeReadyTimer ==
    /\ pc = "tasks" /\ running = NoCo /\ batch.new = 0 /\ batch.ready = <<>>
    /\ \E e \in batch.timed :
          /\ batch' = [batch EXCEPT !.timed = @ \ {e}]
          /\ IF state[e.co] = "ready"
             THEN timers' = WithoutTimer(e.id) /\ due' = due \ {e.id}
             ELSE UNCHANGED <<timers, due>>
          /\ Resumed(e.co)
    /\ UNCHANGED <<poolVars, sigVars, queueVars, pc, timeout, nTimers, nGo>>

TasksDone ==
    /\ pc = "tasks" /\ running = NoCo /\ batch = Nothing
    /\ pc' = "check"
    /\ UNCHANGED <<coVars, poolVars, coWait, sigVars, queueVars, batch, running,
                   timeout, timerVars, nGo>>

\* Mutant of CheckTimer: a coroutine in S_ready is resumed too.
CheckTimerAny(id) ==
    /\ pc = "check"
    /\ id \in due
    /\ batch' = [batch EXCEPT !.ready = Append(@, timers[id])]
    /\ state' = [state EXCEPT ![timers[id]] = "init"]
    /\ timers' = WithoutTimer(id)
    /\ due' = due \ {id}
    /\ UNCHANGED <<pos, cur, signalled, poolVars, coWait, sigVars, queueVars,
                   pc, running, timeout, nTimers, nGo>>

\* Mutant of CheckTimer: the state is compared and not swapped.
CheckTimerNoSwap(id) ==
    /\ pc = "check"
    /\ id \in due
    /\ batch' = IF state[timers[id]] \in {"init", "wait"}
                THEN [batch EXCEPT !.ready = Append(@, timers[id])] ELSE batch
    /\ timers' = WithoutTimer(id)
    /\ due' = due \ {id}
    /\ UNCHANGED <<coVars, poolVars, coWait, sigVars, queueVars,
                   pc, running, timeout, nTimers, nGo>>

\* One round of the loop of check_timeout: the atomic swap decides the race
\* with signal(); the timer is erased in either case.
CheckTimer(id) ==
    /\ pc = "check"
    /\ id \in due
    /\ LET c == timers[id]
       IN  /\ batch' = IF state[c] \in {"init", "wait"}
                       THEN [batch EXCEPT !.ready = Append(@, c)] ELSE batch
           /\ state' = [state EXCEPT ![c] = "init"]
    /\ timers' = WithoutTimer(id)
    /\ due' = due \ {id}
    /\ UNCHANGED <<pos, cur, signalled, poolVars, coWait, sigVars, queueVars,
                   pc, running, timeout, nTimers, nGo>>

CheckDone ==
    /\ pc = "check" /\ due = {}
    /\ timeout' = (batch.ready # <<>>)
    /\ pc' = "expired"
    /\ UNCHANGED <<coVars, poolVars, coWait, sigVars, queueVars, batch, running,
                   timerVars, nGo>>

\* The timed out coroutines run with _timeout = true.
ResumeExpired ==
    /\ pc = "expired" /\ running = NoCo
    /\ batch.ready # <<>>
    /\ batch' = [batch EXCEPT !.ready = Tail(@)]
    /\ Resumed(Head(batch.ready))
    /\ UNCHANGED <<poolVars, sigVars, queueVars, pc, timeout, timerVars, nGo>>

\* Mutant of ExpiredDone: _timeout is not reset.
ExpiredDoneStale ==
    /\ pc = "expired" /\ running = NoCo /\ batch.ready = <<>>
    /\ pc' = "epoll"
    /\ UNCHANGED <<coVars, poolVars, coWait, sigVars, queueVars, batch, running,
                   timeout, timerVars, nGo>>

ExpiredDone ==
    /\ pc = "expired" /\ running = NoCo /\ batch.ready = <<>>
    /\ timeout' = FALSE
    /\ pc' = "epoll"
    /\ UNCHANGED <<coVars, poolVars, coWait, sigVars, queueVars, batch, running,
                   timerVars, nGo>>

\* Time passes the expiry of a timer.  check_timeout reads the clock once.
Tick(id) ==
    /\ pc # "check"
    /\ id \in DOMAIN timers \ due
    /\ due' = due \cup {id}
    /\ UNCHANGED <<coVars, poolVars, coWait, sigVars, queueVars, loopVars, timers,
                   nTimers, nGo>>

-----------------------------------------------------------------------------
Leave(c) == WaitEnter(c) \/ TimedWaitEnter(c) \/ Sleep(c) \/ Finish(c)

Loop == \/ GetAllTasks \/ ResumeNew \/ ResumeReady \/ ResumeReadyTimer \/ TasksDone
        \/ (\E id \in due : CheckTimer(id)) \/ CheckDone
        \/ ResumeExpired \/ ExpiredDone

SignalStep(a) == (\E e \in taken[a] : SignalCas(a, e)) \/ SignalAdd(a)

Next ==
    \/ \E c \in Cos : Leave(c) \/ WaitYield(c)
    \/ Go
    \/ \E a \in Signallers : SignalTake(a) \/ SignalStep(a)
    \/ Loop
    \/ \E id \in Timers : Tick(id)

Spec == Init /\ [][Next]_vars

(***************************************************************************)
(* Fairness: signal() goes on once it has taken the map, the loop goes on, *)
(* every timer gets due.  Of the program: a coroutine does not keep the    *)
(* scheduler for ever (SF, because it may call signal() in between).       *)
(***************************************************************************)
FairSpec ==
    /\ Spec
    /\ \A a \in Signallers : WF_vars(SignalStep(a))
    /\ WF_vars(\E c \in Cos : WaitYield(c))
    /\ SF_vars(\E c \in Cos : Leave(c))
    /\ WF_vars(Loop)
    /\ \A id \in Timers : SF_vars(Tick(id))

-----------------------------------------------------------------------------
(* Properties. *)

Suspended(c) == pos[c] \in {"wait", "twait", "sleep"}

Occurrences(q, c) == Cardinality({i \in 1..Len(q) : q[i] = c})

HasEntry(m, c) == IF \E e \in m : e.co = c THEN 1 ELSE 0

\* How often c is on its way to be resumed: by a signaller whose CAS won, in
\* the queues, or in the containers of the loop.
Resumes(c) ==
    Cardinality({a \in Signallers : \E e \in won[a] : e.co = c})
    + Occurrences(readyTasks, c) + HasEntry(timerTasks, c)
    + Occurrences(batch.ready, c) + HasEntry(batch.timed, c)

\* Signal and timeout between them resume a wait exactly once.  A coroutine
\* whose wait is decided (state no longer S_wait) is on its way exactly once,
\* one that still waits or runs or is free is not, so the loop resumes only
\* suspended coroutines.  And one that still waits can be reached: by the next
\* signal(), or by one that has taken it and comes to its CAS; if it is timed
\* by its timer, too.  (co.cc:95, scheduler.cc:175)
ResumedOnce ==
    \A c \in Cos :
        /\ pos[c] \in {"wait", "twait"} => Resumes(c) = IF state[c] = "wait" THEN 0 ELSE 1
        /\ ~Suspended(c) => Resumes(c) = 0
        /\ Suspended(c) /\ state[c] = "wait" =>
              \E m \in {coWait} \cup {taken[a] : a \in Signallers} :
                  \E e \in m : e.co = c /\ e.id = cur[c]
        /\ pos[c] = "twait" /\ state[c] = "wait" => cur[c] \in DOMAIN timers
        /\ pos[c] = "sleep" =>
              Resumes(c) = IF \E i \in DOMAIN timers : timers[i] = c THEN 0 ELSE 1

\* A ready timer task whose coroutine is still in S_ready names a live timer
\* of that coroutine: del_timer at scheduler.cc:138 never gets a dangling
\* iterator, because check_timeout leaves S_ready when it erases the timer.
TimerToDeleteLives ==
    \A e \in timerTasks \cup batch.timed \cup UNION {won[a] : a \in Signallers} :
        e.id # NoTimer /\ state[e.co] = "ready" =>
            e.id \in DOMAIN timers /\ timers[e.id] = e.co

\* No timer is left dangling or stray: besides TimerToDeleteLives, every live
\* timer belongs to the current wait or sleep of a suspended coroutine (or to
\* the wait it is entering), so that none outlives the call that added it.
TimersMatch ==
    /\ TimerToDeleteLives
    /\ \A i \in DOMAIN timers :
          \/ pos[timers[i]] \in {"twait", "tenter"} /\ cur[timers[i]] = i
          \/ pos[timers[i]] = "sleep"

\* Coroutines in the pool are in S_init: the assert in Copool::pop
\* (scheduler.h:86); and nobody in the pool is listed as a waiter.
PoolIsInit ==
    \A i \in 1..Len(pool) : /\ state[pool[i]] = "init"
                            /\ \A e \in coWait : e.co # pool[i]

\* wait(ms) returns true if and only if a signal reached this very wait:
\* _timeout is false exactly then.  (co.cc:82)
WaitResult ==
    [][\A c \in Cos : pos[c] = "twait" /\ pos'[c] = "run" => (~timeout <=> signalled[c])]_vars

\* A timed wait returns; and who waits in _co_wait when signal() takes the map
\* is resumed, timed or not.  (co.cc:63, co.cc:88)
WaitsEnd ==
    \A c \in Cos :
        /\ pos[c] = "twait" ~> pos[c] = "run"
        /\ Suspended(c) /\ (\E a \in Signallers : HasEntry(taken[a], c) = 1) ~> pos[c] = "run"
=============================================================================
