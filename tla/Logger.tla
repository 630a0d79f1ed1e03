------------------------------- MODULE Logger -------------------------------
(***************************************************************************)
(* LevelLogger (log.cc): threads push logs into a buffer, a logging thread *)
(* swaps the buffer with its own and writes it; close() (LevelLogger::stop)*)
(* ends that thread and writes what is left; so does safe_stop(), which    *)
(* runs in a signal handler on top of some thread and takes no lock.       *)
(*                                                                         *)
(* Logs are numbered in the order in which they are pushed.  Composed with *)
(* SyncEvent (_log_event, manual reset, waited for by the logging thread). *)
(* write() is one step: opening and rotating files is left out.            *)
(***************************************************************************)
EXTENDS Naturals, Sequences, FiniteSets, SequencesExt

CONSTANTS
    Apps,           \* threads that push logs
    Closers,        \* those of them that may call log::close()
    MaxLogs,        \* bound on the logs pushed
    MaxBuf          \* max_log_buffer_size, in logs

LogThread == "log thread"
Nobody == "nobody"
Handler == "handler"

ASSUME LogAssumption ==
    /\ Closers \subseteq Apps
    /\ Apps \cap {LogThread, Nobody, Handler} = {}
    /\ MaxLogs \in Nat
    /\ MaxBuf \in Nat \ {0}

VARIABLES
    fs,         \* _fs: the logs in the buffer
    local,      \* the local buffer of thread_fun
    file,       \* what was written
    mutex,      \* who holds _log_mutex
    stop,       \* _stop: 0, 1 or 2
    th,         \* where the logging thread is
    sawSignal,  \* its local "signaled"
    app,        \* where each thread is: see AppPc
    handler,    \* where safe_stop is in the signal handler
    on,         \* the thread the handler interrupted
    signaled, consumer, at, surplus,    \* _log_event
    pushed,     \* number of logs pushed
    dropped,    \* auxiliary: logs dropped because the buffer was full
    before,     \* auxiliary: logs pushed when _stop was set
    stopper,    \* auxiliary: who set _stop, Nobody if nobody did
    returned,   \* auxiliary: threads whose close() has returned
    raced       \* auxiliary: safe_stop wrote the buffer during a push

Ev == INSTANCE SyncEvent WITH Waiters <- {LogThread}, Manual <- TRUE, Spurious <- FALSE

evVars == <<signaled, consumer, at, surplus>>
bufVars == <<fs, local, file>>
auxVars == <<before, stopper, returned, raced>>
logVars == <<pushed, dropped>>
vars == <<bufVars, mutex, stop, th, sawSignal, app, handler, on, evVars, logVars, auxVars>>

\* "push": has _log_mutex; "signal", "join", "flush": in stop().
AppPc == {"idle", "push", "signal", "join", "flush"}
Logs == 1..MaxLogs

TypeOK ==
    /\ fs \in Seq(Logs) /\ local \in Seq(Logs) /\ file \in Seq(Logs)
    /\ Len(fs) <= MaxBuf
    /\ mutex \in Apps \cup {Nobody}
    /\ stop \in 0..2
    /\ th \in {"head", "wait", "block", "check", "swap", "write", "last", "end"}
    /\ sawSignal \in BOOLEAN
    /\ app \in [Apps -> AppPc]
    /\ handler \in {"none", "spin", "write", "clear", "dead"}
    /\ on \in Apps \cup {LogThread, Nobody}
    /\ Ev!EvTypeOK
    /\ pushed \in 0..MaxLogs /\ before \in 0..MaxLogs
    /\ dropped \subseteq Logs
    /\ stopper \in Apps \cup {Handler, Nobody}
    /\ returned \subseteq Closers
    /\ raced \in BOOLEAN

Init ==
    /\ fs = <<>> /\ local = <<>> /\ file = <<>>
    /\ mutex = Nobody
    /\ stop = 0
    /\ th = "head"
    /\ sawSignal = FALSE
    /\ app = [a \in Apps |-> "idle"]
    /\ handler = "none" /\ on = Nobody
    /\ Ev!EvInit
    /\ pushed = 0 /\ dropped = {}
    /\ before = 0
    /\ stopper = Nobody
    /\ returned = {} /\ raced = FALSE

\* A thread runs unless the signal handler is on top of it, or has ended the
\* process.
Runs(t) == handler # "dead" /\ on # t

-----------------------------------------------------------------------------
(* push *)

PushLock(a) ==
    /\ Runs(a) /\ app[a] = "idle"
    /\ pushed < MaxLogs
    /\ mutex = Nobody
    /\ mutex' = a
    /\ app' = [app EXCEPT ![a] = "push"]
    /\ UNCHANGED <<bufVars, stop, th, sawSignal, handler, on, evVars, logVars, auxVars>>

\* A full buffer loses its first half, up to the end of a log.
Room(q) == IF Len(q) >= MaxBuf THEN SubSeq(q, Len(q) \div 2 + 2, Len(q)) ELSE q

\* The log goes into the buffer, and the logging thread is woken if half of
\* the capacity is used: the capacity grows, so either may be the case.
Push(a) ==
    /\ Runs(a) /\ app[a] = "push"
    /\ fs' = Append(Room(fs), pushed + 1)
    /\ pushed' = pushed + 1
    /\ dropped' = dropped \cup (ToSet(fs) \ ToSet(Room(fs)))
    /\ Ev!SetSignal \/ UNCHANGED evVars
    /\ mutex' = Nobody
    /\ app' = [app EXCEPT ![a] = "idle"]
    /\ UNCHANGED <<local, file, stop, th, sawSignal, handler, on, auxVars>>

-----------------------------------------------------------------------------
(* thread_fun *)

\* while (!_stop)
ThreadHead ==
    /\ Runs(LogThread) /\ th = "head"
    /\ th' = IF stop # 0 THEN "last" ELSE "wait"
    /\ UNCHANGED <<bufVars, mutex, stop, sawSignal, app, handler, on, evVars, logVars, auxVars>>

\* bool signaled = _log_event.wait(128);
ThreadWait ==
    /\ Runs(LogThread)
    /\ \/ /\ th = "wait"
          /\ \/ Ev!WaitNow(LogThread) /\ th' = "check" /\ sawSignal' = TRUE
             \/ Ev!WaitBlock(LogThread, "tcv") /\ th' = "block" /\ UNCHANGED sawSignal
       \/ /\ th = "block"
          /\ \/ Ev!WaitExpire(LogThread) /\ UNCHANGED <<th, sawSignal>>
             \/ Ev!WaitReturn(LogThread) /\ th' = "check" /\ sawSignal' = TRUE
             \/ Ev!WaitTimeout(LogThread) /\ th' = "check" /\ sawSignal' = FALSE
    /\ UNCHANGED <<bufVars, mutex, stop, app, handler, on, logVars, auxVars>>

\* if (_stop) break;
ThreadCheck ==
    /\ Runs(LogThread) /\ th = "check"
    /\ th' = IF stop # 0 THEN "last" ELSE "swap"
    /\ UNCHANGED <<bufVars, mutex, stop, sawSignal, app, handler, on, evVars, logVars, auxVars>>

\* With _log_mutex: swap the buffers, reset the event.
ThreadSwap ==
    /\ Runs(LogThread) /\ th = "swap"
    /\ mutex = Nobody
    /\ IF fs # <<>> THEN local' = fs /\ fs' = local ELSE UNCHANGED <<fs, local>>
    /\ IF sawSignal THEN Ev!ResetEvent(LogThread) ELSE UNCHANGED evVars
    /\ th' = "write"
    /\ UNCHANGED <<file, mutex, stop, sawSignal, app, handler, on, logVars, auxVars>>

\* Mutant of ThreadWrite: the local buffer is not cleared.
ThreadWriteKeep ==
    /\ Runs(LogThread) /\ th = "write"
    /\ file' = file \o local
    /\ th' = "head"
    /\ UNCHANGED <<fs, local, mutex, stop, sawSignal, app, handler, on, evVars, logVars, auxVars>>

ThreadWrite ==
    /\ Runs(LogThread) /\ th = "write"
    /\ file' = file \o local
    /\ local' = <<>>
    /\ th' = "head"
    /\ UNCHANGED <<fs, mutex, stop, sawSignal, app, handler, on, evVars, logVars, auxVars>>

\* Mutant of ThreadLast: _stop is left as it is.
ThreadLastSilent ==
    /\ Runs(LogThread) /\ th = "last"
    /\ th' = "end"
    /\ UNCHANGED <<bufVars, mutex, stop, sawSignal, app, handler, on, evVars, logVars, auxVars>>

\* atomic_swap(&_stop, 2);
ThreadLast ==
    /\ Runs(LogThread) /\ th = "last"
    /\ stop' = 2
    /\ th' = "end"
    /\ UNCHANGED <<bufVars, mutex, sawSignal, app, handler, on, evVars, logVars, auxVars>>

-----------------------------------------------------------------------------
(* stop, called by close() *)

\* Only the first caller goes past the CAS, the others return.  A thread
\* calls close() once.
StopCas(a) ==
    /\ Runs(a) /\ a \in Closers \ returned /\ app[a] = "idle"
    /\ IF stop = 0
       THEN /\ stop' = 1
            /\ before' = pushed /\ stopper' = a
            /\ app' = [app EXCEPT ![a] = "signal"]
            /\ UNCHANGED returned
       ELSE /\ returned' = returned \cup {a}
            /\ UNCHANGED <<stop, before, stopper, app>>
    /\ UNCHANGED <<bufVars, mutex, th, sawSignal, handler, on, evVars, logVars, raced>>

StopSignal(a) ==
    /\ Runs(a) /\ app[a] = "signal"
    /\ Ev!SetSignal
    /\ app' = [app EXCEPT ![a] = "join"]
    /\ UNCHANGED <<bufVars, mutex, stop, th, sawSignal, handler, on, logVars, auxVars>>

\* Mutant of StopJoin: the logging thread is not joined.
StopNoJoin(a) ==
    /\ Runs(a) /\ app[a] = "join"
    /\ app' = [app EXCEPT ![a] = "flush"]
    /\ UNCHANGED <<bufVars, mutex, stop, th, sawSignal, handler, on, evVars, logVars, auxVars>>

StopJoin(a) ==
    /\ Runs(a) /\ app[a] = "join"
    /\ th = "end"
    /\ app' = [app EXCEPT ![a] = "flush"]
    /\ UNCHANGED <<bufVars, mutex, stop, th, sawSignal, handler, on, evVars, logVars, auxVars>>

\* With _log_mutex: write what is left.
StopFlush(a) ==
    /\ Runs(a) /\ app[a] = "flush"
    /\ mutex = Nobody
    /\ file' = file \o fs
    /\ fs' = <<>>
    /\ app' = [app EXCEPT ![a] = "idle"]
    /\ returned' = returned \cup {a}
    /\ UNCHANGED <<local, mutex, stop, th, sawSignal, handler, on, evVars, logVars, before, stopper, raced>>

-----------------------------------------------------------------------------
(* on_signal: safe_stop(), then the signal is raised again and kills. *)

OnSignal(t) ==
    /\ handler = "none"
    /\ t = LogThread => th # "end"
    /\ on' = t
    /\ IF stop = 0
       THEN /\ stop' = 1
            /\ before' = pushed /\ stopper' = Handler
            /\ handler' = "spin"
       ELSE handler' = "dead" /\ UNCHANGED <<stop, before, stopper>>
    /\ UNCHANGED <<bufVars, mutex, th, sawSignal, app, evVars, logVars, returned, raced>>

\* while (_stop != 2) select(...)
SafeSpin ==
    /\ handler = "spin"
    /\ stop = 2
    /\ handler' = "write"
    /\ UNCHANGED <<bufVars, mutex, stop, th, sawSignal, app, on, evVars, logVars, auxVars>>

\* Without the lock.  A push at the same time may move or free what is being
\* written: then some of it is not.  Another thread may also push between the
\* write ...
SafeWrite ==
    /\ handler = "write"
    /\ \/ file' = file \o fs /\ UNCHANGED raced
       \/ /\ mutex # Nobody /\ fs # <<>>
          /\ \E k \in 0..Len(fs) - 1 : file' = file \o SubSeq(fs, 1, k)
          /\ raced' = TRUE
    /\ handler' = "clear"
    /\ UNCHANGED <<fs, local, mutex, stop, th, sawSignal, app, on, evVars, logVars, before, stopper, returned>>

\* ... and the clear.
SafeClear ==
    /\ handler = "clear"
    /\ fs' = <<>>
    /\ handler' = "dead"
    /\ UNCHANGED <<local, file, mutex, stop, th, sawSignal, app, on, evVars, logVars, auxVars>>

-----------------------------------------------------------------------------
Thread == ThreadHead \/ ThreadWait \/ ThreadCheck \/ ThreadSwap \/ ThreadWrite \/ ThreadLast

Stop(a) == StopSignal(a) \/ StopJoin(a) \/ StopFlush(a)

Safe == SafeSpin \/ SafeWrite \/ SafeClear

Next ==
    \/ \E a \in Apps : PushLock(a) \/ Push(a) \/ StopCas(a) \/ Stop(a)
    \/ Thread
    \/ \E t \in Apps \cup {LogThread} : OnSignal(t)
    \/ Safe

Spec == Init /\ [][Next]_vars

(***************************************************************************)
(* Fairness: the logging thread, a push, stop and the handler go on.  SF   *)
(* where a step waits for _log_mutex: the mutex is not denied for ever.    *)
(* Nobody has to push, to close or to be interrupted.                      *)
(***************************************************************************)
FairSpec ==
    /\ Spec
    /\ WF_vars(Thread) /\ SF_vars(ThreadSwap)
    /\ \A a \in Apps : WF_vars(Push(a)) /\ SF_vars(Stop(a))
    /\ WF_vars(Safe)

-----------------------------------------------------------------------------
(* Properties. *)

Dead == handler = "dead"

\* Logs are written in the order of their pushes and never twice, over the
\* swaps of the two buffers and whoever writes them; and one that was pushed
\* before the logger was stopped is somewhere on that way unless the buffer
\* was full, or safe_stop raced with a push.  (Not looked at while safe_stop
\* has written and not cleared.)  (log.cc:116, log.cc:228, log.cc:191)
LogsKept ==
    handler # "clear" =>
        LET way == file \o local \o fs
        IN  /\ \A i, j \in 1..Len(way) : i < j => way[i] < way[j]
            /\ ~raced => \A n \in 1..(IF stop = 0 THEN pushed ELSE before) :
                            n \in ToSet(way) \cup dropped

\* Who has stopped the logger has written everything that was pushed before:
\* close() when it returns; safe_stop when the process is left to die, if no
\* thread pushed while it wrote.  (log.cc:185, log.cc:199)
StopWritesAll ==
    \/ stopper \in returned
    \/ stopper = Handler /\ Dead /\ ~raced
    => \A n \in 1..before : n \in ToSet(file) \cup dropped

\* close() and safe_stop come to an end, unless the process dies meanwhile.
\* They hang in two cases, which are excepted, and in no other: the signal has
\* interrupted the logging thread, for whose end safe_stop spins, or a thread
\* that holds _log_mutex, for which the logging thread may wait.
\* (log.cc:188, log.cc:202)
StopEnds ==
    stopper # Nobody ~>
        \/ Dead
        \/ stopper \in returned
        \/ handler = "spin" /\ on \in {LogThread, mutex}
=============================================================================
