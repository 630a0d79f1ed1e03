---------------------------- MODULE SchedWakeup ----------------------------
(***************************************************************************)
(* How a scheduler thread is woken up, and how it is stopped.              *)
(*                                                                         *)
(* Any thread may hand a task to a scheduler (Scheduler::add_new_task,     *)
(* add_ready_task, add_ready_timer_task): it queues the task under the     *)
(* lock of TaskManager and then calls Epoll::signal, which writes one byte *)
(* into a pipe, but only if it wins a compare-and-swap on _signaled.  The  *)
(* scheduler sleeps in epoll_wait on that pipe (edge triggered), drains it *)
(* and resets _signaled in Epoll::handle_ev_pipe, and only then takes the  *)
(* queued tasks.  Scheduler::stop uses the same pipe.                      *)
(*                                                                         *)
(* The module keeps every step that another thread can see: the insertion, *)
(* the CAS, the write, the read, the reset of _signaled and the two reads  *)
(* of _stop.  Which tasks there are and what a resumed coroutine does is   *)
(* abstracted to "it may add tasks"; module CoEvent has the rest.          *)
(***************************************************************************)
EXTENDS Naturals

CONSTANTS
    OtherThreads,   \* threads other than the scheduler's own
    Sched,          \* the scheduler thread: the coroutines it runs add tasks too
    Tasks,          \* closures and coroutines that can be queued
    Stoppers        \* the threads that may call Scheduler::stop

ASSUME CallerAssumption == Sched \notin OtherThreads /\ Stoppers \subseteq OtherThreads

Callers == OtherThreads \cup {Sched}

VARIABLES
    tasks,      \* what the queues of _task_mgr hold
    signaled,   \* Epoll::_signaled
    pipe,       \* number of bytes in the pipe _fds
    edge,       \* the kernel owes epoll_wait an edge for the pipe
    got,        \* what the last epoll_wait returned: "err", "other" or "pipe"
    pc,         \* where Scheduler::loop is
    call,       \* where each caller is in add_*_task or in stop
    stopping,   \* callers in stop() whose swap of _stop returned false
    stop,       \* Scheduler::_stop
    ev,         \* Scheduler::_ev is signaled
    closed      \* Epoll::close has run

loopVars == <<got, pc>>
stopVars == <<stopping, stop, ev, closed>>
wakeVars == <<tasks, signaled, pipe, edge, got, pc, call, stopping, stop, ev, closed>>

LoopPc == {"head", "wait", "woken", "events", "swap", "run", "exit", "ended"}

WakeTypeOK ==
    /\ tasks \subseteq Tasks
    /\ signaled \in {0, 1}
    /\ pipe \in Nat
    /\ edge \in BOOLEAN
    /\ got \in {"err", "other", "pipe"}
    /\ pc \in LoopPc
    /\ call \in [Callers -> {"idle", "cas", "write", "evwait", "close"}]
    /\ stopping \subseteq Callers
    /\ stop \in BOOLEAN
    /\ ev \in BOOLEAN
    /\ closed \in BOOLEAN

WakeInit ==
    /\ tasks = {}
    /\ signaled = 0
    /\ pipe = 0
    /\ edge = FALSE
    /\ got = "other"
    /\ pc = "head"
    /\ call = [c \in Callers |-> "idle"]
    /\ stopping = {}
    /\ stop = FALSE
    /\ ev = FALSE
    /\ closed = FALSE

-----------------------------------------------------------------------------
(* The callers. *)

\* The scheduler thread is a caller only while it runs coroutines: between
\* the events of a batch and after it took the tasks.
MayCall(c) ==
    /\ call[c] = "idle"
    /\ c = Sched => pc \in {"events", "run"}

\* Mutant of AddTask: the caller does not signal.
AddTaskNoSignal(c, t) ==
    /\ MayCall(c)
    /\ t \notin tasks
    /\ tasks' = tasks \cup {t}
    /\ UNCHANGED <<call, signaled, pipe, edge, loopVars, stopVars>>

\* add_new_task, add_ready_task, add_ready_timer_task: queue first ...
AddTask(c, t) ==
    /\ MayCall(c)
    /\ t \notin tasks
    /\ tasks' = tasks \cup {t}
    /\ call' = [call EXCEPT ![c] = "cas"]
    /\ UNCHANGED <<signaled, pipe, edge, loopVars, stopVars>>

\* Where a caller continues after Epoll::signal returned.
AfterSignal(c) == IF c \in stopping THEN "evwait" ELSE "idle"

\* ... then Epoll::signal: only the caller that moves _signaled from 0 to 1
\* goes on to write.
SignalCas(c) ==
    /\ call[c] = "cas"
    /\ IF signaled = 0
       THEN signaled' = 1 /\ call' = [call EXCEPT ![c] = "write"]
       ELSE call' = [call EXCEPT ![c] = AfterSignal(c)] /\ UNCHANGED signaled
    /\ UNCHANGED <<tasks, pipe, edge, loopVars, stopVars>>

\* One byte into the pipe; after Epoll::close the write only fails.
SignalWrite(c) ==
    /\ call[c] = "write"
    /\ pipe' = IF closed THEN pipe ELSE pipe + 1
    /\ edge' = (edge \/ ~closed)
    /\ call' = [call EXCEPT ![c] = AfterSignal(c)]
    /\ UNCHANGED <<tasks, signaled, loopVars, stopVars>>

\* Mutant of StopSwap: the flag is set and nobody is woken.
StopNoSignal(c) ==
    /\ c \in Stoppers
    /\ MayCall(c)
    /\ stop' = TRUE
    /\ IF stop
       THEN UNCHANGED <<call, stopping>>
       ELSE /\ stopping' = stopping \cup {c}
            /\ call' = [call EXCEPT ![c] = "evwait"]
    /\ UNCHANGED <<tasks, signaled, pipe, edge, loopVars, ev, closed>>

\* Scheduler::stop: only the first caller goes past the swap.
StopSwap(c) ==
    /\ c \in Stoppers
    /\ MayCall(c)
    /\ stop' = TRUE
    /\ IF stop
       THEN UNCHANGED <<call, stopping>>
       ELSE /\ stopping' = stopping \cup {c}
            /\ call' = [call EXCEPT ![c] = "cas"]
    /\ UNCHANGED <<tasks, signaled, pipe, edge, loopVars, ev, closed>>

\* _ev.wait(): _ev has one waiter and is reset by it.
StopWait(c) ==
    /\ call[c] = "evwait"
    /\ ev
    /\ ev' = FALSE
    /\ call' = [call EXCEPT ![c] = "close"]
    /\ UNCHANGED <<tasks, signaled, pipe, edge, loopVars, stopping, stop, closed>>

\* _epoll.close() and return.
StopClose(c) ==
    /\ call[c] = "close"
    /\ closed' = TRUE
    /\ stopping' = stopping \ {c}
    /\ call' = [call EXCEPT ![c] = "idle"]
    /\ UNCHANGED <<tasks, signaled, pipe, edge, loopVars, stop, ev>>

-----------------------------------------------------------------------------
(* Scheduler::loop. *)

callVars == <<call, stopVars>>

\* while (!_stop)
LoopHead ==
    /\ pc = "head"
    /\ pc' = IF stop THEN "exit" ELSE "wait"
    /\ UNCHANGED <<tasks, signaled, pipe, edge, got, callVars>>

\* epoll_wait returns with the event of the pipe, and perhaps with others.
EpollPipe ==
    /\ pc = "wait"
    /\ edge /\ pipe > 0
    /\ edge' = FALSE
    /\ got' = "pipe"
    /\ pc' = "woken"
    /\ UNCHANGED <<tasks, signaled, pipe, callVars>>

\* epoll_wait returns without it: timeout, events of sockets, or an error.
EpollOther ==
    /\ pc = "wait"
    /\ got' \in {"err", "other"}
    /\ pc' = "woken"
    /\ UNCHANGED <<tasks, signaled, pipe, edge, callVars>>

\* if (_stop) break; if (n == -1) continue;
LoopWoken ==
    /\ pc = "woken"
    /\ pc' = IF stop THEN "exit" ELSE IF got = "err" THEN "head" ELSE "events"
    /\ UNCHANGED <<tasks, signaled, pipe, edge, got, callVars>>

ReadSize == IF pipe < 4 THEN pipe ELSE 4

\* Mutant of HandleEvPipe: _signaled is reset before the pipe is read.
HandleEvPipeSwapFirst ==
    \/ /\ pc = "events" /\ got = "pipe" /\ call[Sched] = "idle"
       /\ signaled' = 0
       /\ pc' = "swap"
       /\ UNCHANGED <<pipe, got, tasks, edge, callVars>>
    \/ /\ pc = "swap"
       /\ pipe' = pipe - ReadSize
       /\ got' = "other"
       /\ pc' = "events"
       /\ UNCHANGED <<signaled, tasks, edge, callVars>>

\* Epoll::handle_ev_pipe: read up to 4 bytes until a read is short, and then
\* reset _signaled.
HandleEvPipe ==
    \/ /\ pc = "events" /\ got = "pipe" /\ call[Sched] = "idle"
       /\ pipe' = pipe - ReadSize
       /\ pc' = IF ReadSize < 4 THEN "swap" ELSE "events"
       /\ UNCHANGED <<signaled, got>>
       /\ UNCHANGED <<tasks, edge, callVars>>
    \/ /\ pc = "swap"
       /\ signaled' = 0
       /\ got' = "other"
       /\ pc' = "events"
       /\ UNCHANGED pipe
       /\ UNCHANGED <<tasks, edge, callVars>>

\* _task_mgr.get_all_tasks(...), after the events of the batch.
GetAllTasks ==
    /\ pc = "events" /\ got # "pipe" /\ call[Sched] = "idle"
    /\ tasks' = {}
    /\ pc' = "run"
    /\ UNCHANGED <<signaled, pipe, edge, got, callVars>>

\* The taken tasks and the timed out coroutines have run; next iteration.
LoopEnd ==
    /\ pc = "run" /\ call[Sched] = "idle"
    /\ pc' = "head"
    /\ UNCHANGED <<tasks, signaled, pipe, edge, got, callVars>>

\* this->cleanup(); _ev.signal();
LoopExit ==
    /\ pc = "exit"
    /\ ev' = TRUE
    /\ pc' = "ended"
    /\ UNCHANGED <<tasks, signaled, pipe, edge, got, call, stopping, stop, closed>>

-----------------------------------------------------------------------------
Signal(c) == SignalCas(c) \/ SignalWrite(c)

StopRest(c) == StopWait(c) \/ StopClose(c)

Loop == \/ LoopHead \/ EpollPipe \/ LoopWoken \/ HandleEvPipe
        \/ GetAllTasks \/ LoopEnd \/ LoopExit

WakeNext ==
    \/ \E c \in Callers : \/ \E t \in Tasks : AddTask(c, t)
                          \/ Signal(c)
                          \/ StopSwap(c)
                          \/ StopRest(c)
    \/ Loop
    \/ EpollOther

WakeSpec == WakeInit /\ [][WakeNext]_wakeVars

(***************************************************************************)
(* Fairness: a thread that is inside a call goes on (none of these calls   *)
(* blocks but _ev.wait), the loop goes on, and the kernel does not pass    *)
(* over the ready pipe for ever.  epoll_wait need not time out and need    *)
(* not report anything else, and nobody has to add a task.                 *)
(***************************************************************************)
WakeFairSpec ==
    /\ WakeSpec
    /\ \A c \in Callers : WF_wakeVars(Signal(c)) /\ WF_wakeVars(StopRest(c))
    /\ WF_wakeVars(Loop)
    /\ SF_wakeVars(EpollPipe)

-----------------------------------------------------------------------------
(* Properties. *)

Writing == {c \in Callers : call[c] = "write"}

\* The pipe holds at most one byte, and _signaled = 1 stands for exactly one
\* wakeup under way: a caller about to write, the byte in the pipe, or the
\* scheduler between the read and the reset.  (epoll.h:82, epoll.cc:8)
OneWakeupUnderWay ==
    /\ pipe \in {0, 1}
    /\ signaled = 0 => pipe = 0 /\ Writing = {} /\ pc # "swap"
    /\ \A c, d \in Writing : c = d
    /\ Writing # {} => pipe = 0 /\ pc # "swap"
    /\ pc = "swap" => pipe = 0

\* Whenever the scheduler sleeps while a task is queued or _stop is set,
\* somebody is about to wake it: the edge is pending, or a caller has its CAS
\* or its write still to do.  So no order of the steps of add_*_task, stop and
\* the loop makes the scheduler sleep through them.  (scheduler.h:230-248,
\* scheduler.cc:23)
NoLostWakeup ==
    pc = "wait" /\ (tasks # {} \/ stop) =>
        \/ edge /\ pipe > 0
        \/ \E c \in Callers : call[c] \in {"cas", "write"}

\* The epoll and pipe descriptors are closed only once the loop has ended,
\* so the loop never waits on or reads a closed descriptor.  (scheduler.cc:27)
ClosedAfterLoop == closed => pc = "ended"

(***************************************************************************)
(* The inductive invariant behind the invariants above.               *)
(***************************************************************************)

\* _signaled = 1 is not forgotten: until the pipe is closed, the one wakeup
\* it stands for still exists.
SignaledHeld ==
    signaled = 1 /\ ~closed => pipe = 1 \/ Writing # {} \/ pc = "swap"

\* A byte in the pipe is reported once: by the edge still owed, or in the
\* batch of events the loop is working on.
PipeHeard == got = "pipe" /\ pc \in {"woken", "events"}

ByteReported ==
    /\ PipeHeard => pipe = 1
    /\ pipe = 1 /\ pc \notin {"exit", "ended"} => edge \/ PipeHeard

\* Somebody has a wakeup in hand.
WakeupPending ==
    pipe = 1 \/ \E c \in Callers : call[c] \in {"cas", "write"}

\* From the moment the loop has taken the tasks until it looks again, a new
\* task comes with a wakeup; and so does _stop while the loop sleeps.
TasksAnnounced ==
    /\ tasks # {} /\ pc \in {"run", "head", "wait", "woken"} => WakeupPending
    /\ stop /\ pc = "wait" => WakeupPending

\* The order of the steps of stop and of the end of the loop.
StopOrder ==
    /\ \A c \in Callers : call[c] \in {"evwait", "close"} => c \in stopping
    /\ \A c \in Callers : call[c] = "close" => pc = "ended"
    /\ ev => pc = "ended"
    /\ closed => pc = "ended"

WakeInv == /\ WakeTypeOK /\ OneWakeupUnderWay /\ SignaledHeld /\ ByteReported
           /\ TasksAnnounced /\ StopOrder

\* A queued task is taken, unless the scheduler is stopped meanwhile: even
\* when epoll_wait never times out.
EveryTaskTaken == \A t \in Tasks : t \in tasks ~> t \notin tasks \/ stop

\* After stop the loop ends, and then, never before, the descriptors it uses
\* are closed (scheduler.cc:23-29).
StopCompletes == (stop ~> closed) /\ []ClosedAfterLoop
=============================================================================
