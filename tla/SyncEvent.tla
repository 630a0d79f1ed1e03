----------------------------- MODULE SyncEvent -----------------------------
(***************************************************************************)
(* SyncEvent (class Monitor in thread.h): an event for threads made of a   *)
(* mutex, a condition variable, a flag and the number of waiters.          *)
(*                                                                         *)
(* Every method holds _lock, so it is one step, but a waiter gives _lock   *)
(* up inside _cv.wait: it is in the wait set of _cv until it is notified,  *)
(* its time is over or, if Spurious, for no reason at all, and then has to *)
(* get _lock again before the rest of wait() runs.                         *)
(***************************************************************************)
EXTENDS Naturals, FiniteSets

CONSTANTS
    Waiters,    \* threads that call wait()
    Manual,     \* _manual_reset
    Spurious    \* whether _cv.wait may return without a notification

VARIABLES
    signaled,   \* _signaled
    consumer,   \* _consumer
    at,         \* where each waiter is: see Places
    surplus     \* auxiliary: effective signals minus waits that returned true

evVars == <<signaled, consumer, at, surplus>>

\* "out": not in wait(); "cv", "tcv": in the wait set, without and with a
\* time limit; "woken", "expired": about to get _lock again.
Places == {"out", "cv", "tcv", "woken", "expired"}

EvTypeOK ==
    /\ signaled \in BOOLEAN
    /\ consumer \in Nat
    /\ at \in [Waiters -> Places]
    /\ surplus \in {0, 1}

EvInit ==
    /\ signaled = FALSE
    /\ consumer = 0
    /\ at = [w \in Waiters |-> "out"]
    /\ surplus = 0

\* The end of a wait that returns true.
Consume(n) ==
    /\ signaled' = IF ~Manual /\ n = 0 THEN FALSE ELSE signaled
    /\ surplus' = IF surplus > 0 THEN surplus - 1 ELSE 0

\* wait() and wait(ms) up to the condition variable: TRUE at once if the flag
\* is set.
WaitNow(w) ==
    /\ at[w] = "out"
    /\ signaled
    /\ Consume(consumer)
    /\ UNCHANGED <<consumer, at>>

WaitBlock(w, place) ==
    /\ at[w] = "out"
    /\ ~signaled
    /\ consumer' = consumer + 1
    /\ at' = [at EXCEPT ![w] = place]
    /\ UNCHANGED <<signaled, surplus>>

Blocked(w) == at[w] \in {"cv", "tcv"}

\* wait_for runs out of time, or either wait wakes up spuriously.
WaitExpire(w) ==
    /\ at[w] = "tcv"
    /\ at' = [at EXCEPT ![w] = "expired"]
    /\ UNCHANGED <<signaled, consumer, surplus>>

WaitSpurious(w) ==
    /\ Spurious
    /\ Blocked(w)
    /\ at' = [at EXCEPT ![w] = "woken"]
    /\ UNCHANGED <<signaled, consumer, surplus>>

\* The rest of wait() and of wait(ms) with the lock: true ...
WaitReturn(w) ==
    /\ at[w] = "woken"
    /\ consumer' = consumer - 1
    /\ Consume(consumer - 1)
    /\ at' = [at EXCEPT ![w] = "out"]

\* Mutant of WaitTimeout: the flag is reset on this path, too.
WaitTimeoutReset(w) ==
    /\ at[w] = "expired"
    /\ consumer' = consumer - 1
    /\ at' = [at EXCEPT ![w] = "out"]
    /\ signaled' = FALSE
    /\ UNCHANGED surplus

\* ... or false.
WaitTimeout(w) ==
    /\ at[w] = "expired"
    /\ consumer' = consumer - 1
    /\ at' = [at EXCEPT ![w] = "out"]
    /\ UNCHANGED <<signaled, surplus>>

\* signal(): notify_one only if the flag was not set.
SetSignal ==
    IF signaled
    THEN UNCHANGED evVars
    ELSE /\ signaled' = TRUE
         /\ surplus' = 1
         /\ IF \E w \in Waiters : Blocked(w)
            THEN \E w \in Waiters : Blocked(w) /\ at' = [at EXCEPT ![w] = "woken"]
            ELSE UNCHANGED at
         /\ UNCHANGED consumer

\* reset(), called by the waiter itself (the log thread does).
ResetEvent(w) ==
    /\ at[w] = "out"
    /\ signaled' = FALSE
    /\ surplus' = 0
    /\ UNCHANGED <<consumer, at>>

EvNext ==
    \/ \E w \in Waiters : \/ WaitNow(w)
                          \/ WaitBlock(w, "cv") \/ WaitBlock(w, "tcv")
                          \/ WaitExpire(w) \/ WaitSpurious(w)
                          \/ WaitReturn(w) \/ WaitTimeout(w) \/ ResetEvent(w)
    \/ SetSignal

EvSpec == EvInit /\ [][EvNext]_evVars

-----------------------------------------------------------------------------
(* Properties. *)

\* A waiter that comes back from the condition variable without a timeout
\* finds the flag set: the assertions at thread.h:28 and thread.h:43.
WokenIsSignaled == \A w \in Waiters : at[w] = "woken" => signaled

\* With one waiter and automatic reset, the flag is set exactly while there
\* is a signal that no wait has returned true for, and nobody sleeps on a set
\* flag: a signal that races with a timeout is kept for the next wait, and is
\* not counted twice.  (thread.h:34-56)
SignalKept ==
    /\ ~Manual => (signaled <=> surplus = 1)
    /\ signaled => \A w \in Waiters : ~Blocked(w)
=============================================================================
