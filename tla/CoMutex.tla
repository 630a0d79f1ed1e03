------------------------------ MODULE CoMutex ------------------------------
(***************************************************************************)
(* co::Mutex (MutexImpl in co.cc) on schedulers that run in threads of     *)
(* their own.                                                              *)
(*                                                                         *)
(* A coroutine that finds the mutex taken queues itself and yields to its  *)
(* scheduler; unlock pops the first waiter and, after it has released the  *)
(* inner lock _mtx, hands it to the scheduler the waiter belongs to.       *)
(* Between these steps any other thread may run: the unlocker can pop a    *)
(* coroutine that has queued itself and has not yielded yet.  _lock stays  *)
(* true over the hand-over.                                                *)
(*                                                                         *)
(* Of the scheduler only what this needs is kept: which coroutine runs,    *)
(* and which coroutines were given to add_ready_task.  A coroutine outside *)
(* lock() may yield (sleep, wait for a socket) and come back at any time,  *)
(* also while it holds the mutex.  Bodies under _mtx are one step.         *)
(***************************************************************************)
EXTENDS Naturals, Sequences

CONSTANTS
    Cos,        \* coroutines
    Threads,    \* threads that are not schedulers; they use try_lock only
    Scheds,     \* schedulers
    Home,       \* the scheduler each coroutine runs in
    None        \* no coroutine, no scheduler, no owner

Actors == Cos \cup Threads

ASSUME ActorAssumption ==
    /\ Cos \cap Threads = {}
    /\ Home \in [Cos -> Scheds]
    /\ None \notin Actors \cup Scheds

VARIABLES
    lock,       \* MutexImpl::_lock
    coWait,     \* MutexImpl::_co_wait
    mode,       \* where an actor is: see Modes
    hand,       \* the waiter unlock popped and did not hand over yet
    coS,        \* Coroutine::s, None while the union still holds cb
    ready,      \* TaskManager::_ready_tasks of each scheduler
    running,    \* Scheduler::_running
    asleep,     \* coroutines that have not started or yielded elsewhere
    owner       \* auxiliary: whose turn it is

vars == <<lock, coWait, mode, hand, coS, ready, running, asleep, owner>>

\* "out": not inside the mutex; "in": between lock and unlock; "queued": in
\* lock(), in the queue, not yet yielded; "yielded": suspended in lock();
\* "unlock": in unlock(), between _mtx.unlock() and add_ready_task.
Modes == {"out", "in", "queued", "yielded", "unlock"}

TypeOK ==
    /\ lock \in BOOLEAN
    /\ coWait \in Seq(Cos)
    /\ mode \in [Actors -> Modes]
    /\ hand \in [Actors -> Cos \cup {None}]
    /\ coS \in [Cos -> Scheds \cup {None}]
    /\ ready \in [Scheds -> SUBSET Cos]
    /\ running \in [Scheds -> Cos \cup {None}]
    /\ asleep \in SUBSET Cos
    /\ owner \in Actors \cup {None}

Init ==
    /\ lock = FALSE
    /\ coWait = <<>>
    /\ mode = [a \in Actors |-> "out"]
    /\ hand = [a \in Actors |-> None]
    /\ coS = [c \in Cos |-> None]
    /\ ready = [s \in Scheds |-> {}]
    /\ running = [s \in Scheds |-> None]
    /\ asleep = Cos
    /\ owner = None

\* Code is executed by threads, and by the running coroutine of a scheduler.
Executes(a) == a \in Cos => running[Home[a]] = a

-----------------------------------------------------------------------------
(* The scheduler, reduced. *)

\* A new coroutine starts, or one that slept is resumed.
Wake(c) ==
    /\ c \in asleep
    /\ running[Home[c]] = None
    /\ running' = [running EXCEPT ![Home[c]] = c]
    /\ asleep' = asleep \ {c}
    /\ UNCHANGED <<lock, coWait, mode, hand, coS, ready, owner>>

\* The running coroutine yields outside the mutex's code: co::sleep, I/O.
Sleep(c) ==
    /\ running[Home[c]] = c
    /\ mode[c] \in {"out", "in"}
    /\ running' = [running EXCEPT ![Home[c]] = None]
    /\ asleep' = asleep \cup {c}
    /\ UNCHANGED <<lock, coWait, mode, hand, coS, ready, owner>>

\* The loop resumes a ready task: lock() returns in it, and it has the lock.
Resume(s, c) ==
    /\ running[s] = None
    /\ c \in ready[s]
    /\ ready' = [ready EXCEPT ![s] = @ \ {c}]
    /\ running' = [running EXCEPT ![s] = c]
    /\ mode' = [mode EXCEPT ![c] = "in"]
    /\ UNCHANGED <<lock, coWait, hand, coS, asleep, owner>>

-----------------------------------------------------------------------------
(* MutexImpl. *)

\* try_lock, and lock when the mutex is free.
TryLock(a) ==
    /\ Executes(a) /\ mode[a] = "out"
    /\ ~lock
    /\ lock' = TRUE
    /\ mode' = [mode EXCEPT ![a] = "in"]
    /\ owner' = a
    /\ UNCHANGED <<coWait, hand, coS, ready, running, asleep>>

\* Mutant of LockQueue: the waiter goes to the front of the queue.
LockQueueFront(c) ==
    /\ Executes(c) /\ mode[c] = "out"
    /\ lock
    /\ coS' = [coS EXCEPT ![c] = Home[c]]
    /\ coWait' = <<c>> \o coWait
    /\ mode' = [mode EXCEPT ![c] = "queued"]
    /\ UNCHANGED <<lock, hand, ready, running, asleep, owner>>

\* lock when the mutex is taken: note the scheduler and queue up ...
LockQueue(c) ==
    /\ Executes(c) /\ mode[c] = "out"
    /\ lock
    /\ coS' = [coS EXCEPT ![c] = Home[c]]
    /\ coWait' = Append(coWait, c)
    /\ mode' = [mode EXCEPT ![c] = "queued"]
    /\ UNCHANGED <<lock, hand, ready, running, asleep, owner>>

\* ... then yield to the scheduler.
LockYield(c) ==
    /\ mode[c] = "queued"
    /\ Executes(c)
    /\ running' = [running EXCEPT ![Home[c]] = None]
    /\ mode' = [mode EXCEPT ![c] = "yielded"]
    /\ UNCHANGED <<lock, coWait, hand, coS, ready, asleep, owner>>

\* Mutant of UnlockFree: the lock is freed although a coroutine waits.
UnlockFreeAlways(a) ==
    /\ Executes(a) /\ mode[a] = "in"
    /\ lock' = FALSE
    /\ mode' = [mode EXCEPT ![a] = "out"]
    /\ owner' = None
    /\ UNCHANGED <<coWait, hand, coS, ready, running, asleep>>

\* unlock without waiters.
UnlockFree(a) ==
    /\ Executes(a) /\ mode[a] = "in"
    /\ coWait = <<>>
    /\ lock' = FALSE
    /\ mode' = [mode EXCEPT ![a] = "out"]
    /\ owner' = None
    /\ UNCHANGED <<coWait, hand, coS, ready, running, asleep>>

\* Mutant of UnlockPop: the waiter is woken to compete for a free lock.
UnlockPopFree(a) ==
    /\ Executes(a) /\ mode[a] = "in"
    /\ coWait # <<>>
    /\ hand' = [hand EXCEPT ![a] = Head(coWait)]
    /\ coWait' = Tail(coWait)
    /\ mode' = [mode EXCEPT ![a] = "unlock"]
    /\ owner' = Head(coWait)
    /\ lock' = FALSE
    /\ UNCHANGED <<coS, ready, running, asleep>>

\* unlock with waiters: pop the first one, _lock stays true ...
UnlockPop(a) ==
    /\ Executes(a) /\ mode[a] = "in"
    /\ coWait # <<>>
    /\ hand' = [hand EXCEPT ![a] = Head(coWait)]
    /\ coWait' = Tail(coWait)
    /\ mode' = [mode EXCEPT ![a] = "unlock"]
    /\ owner' = Head(coWait)
    /\ UNCHANGED <<lock, coS, ready, running, asleep>>

\* Mutant of UnlockReady: the waiter is given to the unlocker's scheduler.
UnlockReadyHere(a) ==
    /\ Executes(a) /\ mode[a] = "unlock" /\ a \in Cos
    /\ ready' = [ready EXCEPT ![Home[a]] = @ \cup {hand[a]}]
    /\ hand' = [hand EXCEPT ![a] = None]
    /\ mode' = [mode EXCEPT ![a] = "out"]
    /\ UNCHANGED <<lock, coWait, coS, running, asleep, owner>>

\* ... and give it to its scheduler: co->s->add_ready_task(co).
UnlockReady(a) ==
    /\ Executes(a) /\ mode[a] = "unlock"
    /\ ready' = [ready EXCEPT ![coS[hand[a]]] = @ \cup {hand[a]}]
    /\ hand' = [hand EXCEPT ![a] = None]
    /\ mode' = [mode EXCEPT ![a] = "out"]
    /\ UNCHANGED <<lock, coWait, coS, running, asleep, owner>>

-----------------------------------------------------------------------------
Unlock(a) == UnlockFree(a) \/ UnlockPop(a)

Next ==
    \/ \E c \in Cos : Wake(c) \/ Sleep(c) \/ LockQueue(c) \/ LockYield(c)
    \/ \E a \in Actors : TryLock(a) \/ Unlock(a) \/ UnlockReady(a)
    \/ \E s \in Scheds, c \in Cos : Resume(s, c)

Spec == Init /\ [][Next]_vars

(***************************************************************************)
(* Fairness.  lock() and unlock() go on once begun.  The loop of a         *)
(* scheduler takes all ready tasks in every round, so it cannot pass over  *)
(* one for ever (SF on Resume), and resumes a sleeping coroutine once its  *)
(* time has come (SF on Wake).  Of the program: a coroutine does not keep  *)
(* its scheduler for ever, and who holds the mutex unlocks it in the end.  *)
(***************************************************************************)
FairSpec ==
    /\ Spec
    /\ \A c \in Cos : /\ WF_vars(LockYield(c))
                      /\ WF_vars(Sleep(c))
                      /\ SF_vars(Wake(c))
    /\ \A a \in Actors : SF_vars(Unlock(a)) /\ WF_vars(UnlockReady(a))
    /\ \A s \in Scheds, c \in Cos : SF_vars(Resume(s, c))

-----------------------------------------------------------------------------
(* Properties. *)

InLock == {c \in Cos : mode[c] \in {"queued", "yielded"}}

\* Two actors are never both between lock and unlock, not even while the
\* lock is handed over: the coroutine unlock popped counts as the holder.
MutualExclusion ==
    \A a, b \in Actors :
        a # b /\ mode[a] = "in" =>
            mode[b] # "in" /\ hand[b] = None /\ \A s \in Scheds : b \notin ready[s]

\* The loop resumes only coroutines that have yielded: one that was popped
\* between its push into _co_wait and its yield is still running, and its
\* scheduler cannot look at its ready tasks before.
ResumeYielded ==
    \A s \in Scheds : running[s] = None =>
        \A c \in ready[s] : Home[c] = s /\ mode[c] = "yielded"

(***************************************************************************)
(* The inductive invariant.                                                *)
(***************************************************************************)

\* _lock tells whether there is an owner; a free mutex has no waiters.
LockInv ==
    /\ lock <=> owner # None
    /\ ~lock => coWait = <<>>
    /\ \A a \in Actors : mode[a] = "in" => owner = a
    /\ \A a \in Actors : mode[a] \in {"out", "unlock"} => owner # a

\* Who is in the queue is there once, inside lock(), and has its s set.
QueueInv ==
    /\ \A i, j \in 1..Len(coWait) : coWait[i] = coWait[j] => i = j
    /\ \A i \in 1..Len(coWait) : /\ coWait[i] \in InLock
                                 /\ coWait[i] # owner
    /\ \A c \in InLock : coS[c] = Home[c]

\* The lock is on its way to at most one coroutine, the owner.
HandOverInv ==
    /\ \A a \in Actors : hand[a] # None <=> mode[a] = "unlock"
    /\ \A a \in Actors : hand[a] # None => hand[a] = owner /\ hand[a] \in InLock
    /\ \A a, b \in Actors : hand[a] # None /\ hand[b] # None => a = b
    /\ \A s \in Scheds : \A c \in ready[s] :
          /\ c = owner /\ c \in InLock /\ Home[c] = s
          /\ \A a \in Actors : hand[a] = None
    /\ \A c \in InLock : \/ \E i \in 1..Len(coWait) : coWait[i] = c
                         \/ \E a \in Actors : hand[a] = c
                         \/ c \in ready[Home[c]]

\* A coroutine runs in its own scheduler, or is suspended in one place.
RunInv ==
    /\ \A s \in Scheds : running[s] # None => Home[running[s]] = s
    /\ \A c \in Cos : mode[c] \in {"queued", "unlock"} => running[Home[c]] = c
    /\ \A c \in Cos : mode[c] = "yielded" => running[Home[c]] # c /\ c \notin asleep
    /\ \A c \in asleep : running[Home[c]] # c /\ mode[c] \in {"out", "in"}
    /\ \A t \in Threads : mode[t] \in {"out", "in", "unlock"}

IInv == TypeOK /\ LockInv /\ QueueInv /\ HandOverInv /\ RunInv

\* The mutex is a FIFO lock with direct hand-over: what it promises.
Abstract == INSTANCE FairLock WITH Nobody <- None, queue <- coWait
ImplementsFairLock == Abstract!Spec

\* A coroutine that waits in lock() gets the lock.
NoStarvation == \A c \in Cos : c \in InLock ~> mode[c] = "in"
=============================================================================
