------------------------------ MODULE FairLock ------------------------------
(***************************************************************************)
(* What co::Mutex promises: a lock with one owner and a FIFO queue of      *)
(* waiters.  A released lock goes straight to the oldest waiter, so nobody *)
(* can take it in between.  CoMutex implements this specification.         *)
(***************************************************************************)
EXTENDS Naturals, Sequences

CONSTANTS
    Actors,
    Nobody      \* not an actor

VARIABLES owner, queue

Init == owner = Nobody /\ queue = <<>>

\* A free lock has no waiters, and is taken at once.
Acquire(a) ==
    /\ owner = Nobody /\ queue = <<>>
    /\ owner' = a
    /\ UNCHANGED queue

\* A taken lock is waited for at the end of the queue.
Request(a) ==
    /\ owner \notin {Nobody, a}
    /\ \A i \in 1..Len(queue) : queue[i] # a
    /\ queue' = Append(queue, a)
    /\ UNCHANGED owner

\* The owner hands the lock to the first waiter, or frees it.
Release(a) ==
    /\ owner = a
    /\ \/ queue = <<>> /\ owner' = Nobody /\ UNCHANGED queue
       \/ queue # <<>> /\ owner' = Head(queue) /\ queue' = Tail(queue)

Next == \E a \in Actors : Acquire(a) \/ Request(a) \/ Release(a)

Spec == Init /\ [][Next]_<<owner, queue>>
=============================================================================
