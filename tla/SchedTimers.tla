---------------------------- MODULE SchedTimers ----------------------------
(***************************************************************************)
(* The timers of a scheduler: TimerManager with its hint iterator _it, the *)
(* time _wait_ms that Scheduler hands to epoll_wait, and two users of      *)
(* timers that run in coroutines: co::sleep and IoEvent, whose destructor  *)
(* deletes a timer that did not expire.                                    *)
(*                                                                         *)
(* All of this is one thread.  What makes it delicate is that timers are   *)
(* named by iterators into a multimap: each of _it, the ids that IoEvent   *)
(* keeps over several waits, and the erasure of expired timers must leave  *)
(* no iterator to an erased element.  Nodes of the multimap are the names  *)
(* Nodes; an erased node may be used again.                                *)
(*                                                                         *)
(* Instead of absolute times a timer has the milliseconds it has left,     *)
(* which every Tick lowers.  _wait_ms is an unsigned integer, of the width *)
(* of int, that epoll_wait takes as a signed one.                          *)
(***************************************************************************)
EXTENDS Integers, Sequences, FiniteSets, SequencesExt

CONSTANTS
    Users,      \* coroutines
    Nodes,      \* nodes of the multimap
    IntMax,     \* the largest int
    Delays,     \* the milliseconds coroutines wait
    Busy        \* bound on the ticks from a check_timeout to the next epoll_wait

NoNode == "end"             \* _timer.end() and null_timer_id
NoUser == "main"            \* no coroutine is running
UintMax == 2 * IntMax + 1   \* the largest unsigned integer of the same width
Infinite == UintMax         \* (uint32) -1

ASSUME TimerAssumption ==
    /\ IntMax \in Nat /\ Busy \in Nat
    /\ Delays \subseteq 0..UintMax
    /\ NoNode \notin Nodes /\ NoUser \notin Users
    /\ Cardinality(Nodes) >= Cardinality(Users)

VARIABLES
    timer,      \* _timer: sequence of [node, user, left], earliest first
    it,         \* _it
    waitMs,     \* Scheduler::_wait_ms
    tid,        \* IoEvent::_id of each coroutine
    where,      \* "out", "run", "sleep" or "io": where each coroutine is
    pc,         \* "epoll", "events" or "expired"
    batch,      \* ready_tasks as filled by check_timeout
    running,    \* the coroutine that runs
    slept,      \* ticks epoll_wait has taken so far
    busy,       \* ticks since check_timeout read the clock
    rem         \* auxiliary: what is left of the time a coroutine waits

timerVars == <<timer, it>>
userVars == <<tid, where, rem>>
vars == <<timerVars, waitMs, userVars, pc, batch, running, slept, busy>>

\* epoll_wait(efd, ev, 1024, (int) ms): a negative timeout is infinite.
Blocks(ms) == ms > IntMax

MaxLeft == UintMax + 1
MinLeft == -(2 * Busy + 2)

TypeOK ==
    /\ \A k \in 1..Len(timer) : /\ timer[k].node \in Nodes /\ timer[k].user \in Users
                                /\ timer[k].left \in MinLeft..MaxLeft
    /\ it \in Nodes \cup {NoNode}
    /\ waitMs \in 0..UintMax
    /\ tid \in [Users -> Nodes \cup {NoNode}]
    /\ where \in [Users -> {"out", "run", "sleep", "io"}]
    /\ pc \in {"epoll", "events", "expired"}
    /\ batch \in Seq(Users)
    /\ running \in Users \cup {NoUser}
    /\ slept \in 0..MaxLeft
    /\ busy \in 0..Busy
    /\ rem \in [Users -> MinLeft..MaxLeft]

Init ==
    /\ timer = <<>>
    /\ it = NoNode
    /\ waitMs = Infinite
    /\ tid = [u \in Users |-> NoNode]
    /\ where = [u \in Users |-> "out"]
    /\ pc = "epoll"
    /\ batch = <<>>
    /\ running = NoUser
    /\ slept = 0
    /\ busy = 0
    /\ rem = [u \in Users |-> 0]

Live == {timer[k].node : k \in 1..Len(timer)}

-----------------------------------------------------------------------------
(* TimerManager. *)

Earlier(ms) == Cardinality({k \in 1..Len(timer) : timer[k].left < ms})
NotLater(ms) == Cardinality({k \in 1..Len(timer) : timer[k].left <= ms})

\* A new timer n at position p of the multimap.
InsertTimer(u, ms, n, p) ==
    timer' = InsertAt(timer, p, [node |-> n, user |-> u, left |-> ms])

\* add_timer: after the timers of the same time; _it is left alone.
AddTimer(u, ms) ==
    \E n \in Nodes \ Live :
        /\ InsertTimer(u, ms, n, NotLater(ms) + 1)
        /\ UNCHANGED it

\* add_io_timer: the library chooses the place among the timers of the same
\* time from the hint; _it is the new timer.
AddIoTimer(u, ms) ==
    \E n \in Nodes \ Live, p \in (Earlier(ms) + 1)..(NotLater(ms) + 1) :
        /\ InsertTimer(u, ms, n, p)
        /\ it' = n
        /\ tid' = [tid EXCEPT ![u] = n]

IndexOf(n) == CHOOSE k \in 1..Len(timer) : timer[k].node = n

\* ++_it for the iterator of node n.
Successor(n) == IF IndexOf(n) = Len(timer) THEN NoNode ELSE timer[IndexOf(n) + 1].node

\* Mutant of DelTimer: the hint is left on the erased timer.
DelTimerOnly(n) ==
    /\ UNCHANGED it
    /\ timer' = RemoveAt(timer, IndexOf(n))

\* del_timer: step the hint over the timer, then erase it.
DelTimer(n) ==
    /\ it' = IF it = n THEN Successor(n) ELSE it
    /\ timer' = RemoveAt(timer, IndexOf(n))

\* Mutant of Expired: a timer expires a millisecond early.
ExpiredEarly == Cardinality({k \in 1..Len(timer) : timer[k].left <= 1})

\* check_timeout: how many timers at the front have expired, where _it goes
\* and what is returned as the time to wait.
Expired == Cardinality({k \in 1..Len(timer) : timer[k].left <= 0})

HintAfter(n) ==
    IF it # NoNode /\ timer[IndexOf(it)].left <= 0
    THEN IF n = Len(timer) THEN NoNode ELSE timer[n + 1].node
    ELSE it

\* Mutant of NextWait: the time to the last timer.
LastWait(rest) == IF rest = <<>> THEN Infinite ELSE Last(rest).left % (UintMax + 1)

NextWait(rest) == IF rest = <<>> THEN Infinite ELSE Head(rest).left % (UintMax + 1)

-----------------------------------------------------------------------------
(* Scheduler: the time to wait. *)

\* Mutant of LowerWait: the time is not lowered.
KeepWait(ms) == UNCHANGED waitMs

\* if (_wait_ms > ms) _wait_ms = ms;
LowerWait(ms) == waitMs' = IF waitMs > ms THEN ms ELSE waitMs

-----------------------------------------------------------------------------
(* What the running coroutine does. *)

\* It yields in mode w, to wait ms milliseconds.
Yields(u, w) ==
    /\ where' = [where EXCEPT ![u] = w]
    /\ running' = NoUser
    /\ UNCHANGED <<pc, batch, slept, busy>>

\* co::sleep
Sleep(u, ms) ==
    /\ running = u /\ tid[u] = NoNode
    /\ LowerWait(ms)
    /\ AddTimer(u, ms)
    /\ rem' = [rem EXCEPT ![u] = ms]
    /\ Yields(u, "sleep")
    /\ UNCHANGED tid

\* IoEvent::wait(ms): a timer is added by the first wait only.
IoWait(u, ms) ==
    /\ running = u
    /\ IF tid[u] = NoNode
       THEN /\ LowerWait(ms)
            /\ AddIoTimer(u, ms)
            /\ rem' = [rem EXCEPT ![u] = ms]
       ELSE UNCHANGED <<waitMs, timerVars, tid, rem>>
    /\ Yields(u, "io")

\* ~IoEvent(): the coroutine goes on without the timer.
IoDone(u) ==
    /\ running = u
    /\ tid[u] # NoNode
    /\ DelTimer(tid[u])
    /\ tid' = [tid EXCEPT ![u] = NoNode]
    /\ UNCHANGED <<waitMs, where, rem, pc, batch, running, slept, busy>>

\* The coroutine ends or waits for something that has no timer.
Finish(u) ==
    /\ running = u /\ tid[u] = NoNode
    /\ Yields(u, "out")
    /\ UNCHANGED <<timerVars, waitMs, tid, rem>>

-----------------------------------------------------------------------------
(* Scheduler::loop. *)

\* epoll_wait returns: its time is over, or something else woke it.
EpollTimeout ==
    /\ pc = "epoll"
    /\ ~Blocks(waitMs) /\ slept >= waitMs
    /\ pc' = "events"
    /\ UNCHANGED <<timerVars, waitMs, userVars, batch, running, slept, busy>>

EpollWoken ==
    /\ pc = "epoll"
    /\ pc' = "events"
    /\ UNCHANGED <<timerVars, waitMs, userVars, batch, running, slept, busy>>

Runs(u) ==
    /\ running' = u
    /\ where' = [where EXCEPT ![u] = "run"]

\* An event of a socket, or a task, resumes a coroutine; IoEvent keeps _id.
ResumeReady(u) ==
    /\ pc = "events" /\ running = NoUser
    /\ where[u] \in {"out", "io"}
    /\ Runs(u)
    /\ UNCHANGED <<timerVars, waitMs, tid, rem, pc, batch, slept, busy>>

\* check_timeout, called when all tasks have run.
CheckTimeout ==
    /\ pc = "events" /\ running = NoUser
    /\ batch' = [k \in 1..Expired |-> timer[k].user]
    /\ it' = HintAfter(Expired)
    /\ timer' = SubSeq(timer, Expired + 1, Len(timer))
    /\ waitMs' = NextWait(timer')
    /\ busy' = 0
    /\ pc' = "expired"
    /\ UNCHANGED <<userVars, running, slept>>

\* A timed out coroutine is resumed; IoEvent forgets _id.
ResumeExpired ==
    /\ pc = "expired" /\ running = NoUser
    /\ batch # <<>>
    /\ batch' = Tail(batch)
    /\ Runs(Head(batch))
    /\ tid' = [tid EXCEPT ![Head(batch)] = NoNode]
    /\ UNCHANGED <<timerVars, waitMs, rem, pc, slept, busy>>

ExpiredDone ==
    /\ pc = "expired" /\ running = NoUser /\ batch = <<>>
    /\ pc' = "epoll"
    /\ slept' = 0
    /\ UNCHANGED <<timerVars, waitMs, userVars, batch, running, busy>>

\* A millisecond passes: in epoll_wait, as long as it may sleep, or while
\* coroutines run.
Tick ==
    /\ IF pc = "epoll"
       THEN /\ timer # <<>> /\ Head(timer).left > MinLeft
            /\ Blocks(waitMs) \/ slept < waitMs
            /\ slept' = IF slept < MaxLeft THEN slept + 1 ELSE slept
            /\ UNCHANGED busy
       ELSE /\ busy < Busy
            /\ busy' = busy + 1
            /\ UNCHANGED slept
    /\ timer' = [k \in 1..Len(timer) |-> [timer[k] EXCEPT !.left = @ - 1]]
    /\ rem' = [u \in Users |-> IF rem[u] > MinLeft THEN rem[u] - 1 ELSE MinLeft]
    /\ UNCHANGED <<it, waitMs, tid, where, pc, batch, running>>

-----------------------------------------------------------------------------
Leave(u) == \/ \E ms \in Delays : Sleep(u, ms) \/ IoWait(u, ms)
            \/ Finish(u)

Loop == EpollTimeout \/ CheckTimeout \/ ResumeExpired \/ ExpiredDone

Next == \/ \E u \in Users : Leave(u) \/ IoDone(u) \/ ResumeReady(u)
        \/ Loop \/ EpollWoken \/ Tick

Spec == Init /\ [][Next]_vars

(***************************************************************************)
(* Fairness: the loop goes on, a coroutine does not keep the scheduler,    *)
(* and time passes (SF: no endless run takes no time).  Nothing has to     *)
(* wake epoll_wait but its own timeout.  CheckTimeout is SF: the tasks of  *)
(* one round are finite in number.                                         *)
(***************************************************************************)
FairSpec ==
    /\ Spec
    /\ WF_vars(Loop) /\ SF_vars(CheckTimeout)
    /\ SF_vars(Tick)
    /\ \A u \in Users : WF_vars(Leave(u) \/ IoDone(u))

-----------------------------------------------------------------------------
(* Properties. *)

\* No iterator dangles.  The hint is a timer of the multimap, or its end; and
\* the id an IoEvent keeps is the iterator of its own live timer, except for
\* one that has expired and waits to be resumed: so the destructor erases its
\* timer and no other one, however events and timeouts are interleaved.  Who
\* sleeps or waits with a time limit has one timer, or is expired.
\* (scheduler.h:165, scheduler.cc:180, io_event.h:47)
IteratorsLive ==
    /\ it \in Live \cup {NoNode}
    /\ \A u \in Users : tid[u] # NoNode /\ (\A k \in 1..Len(batch) : batch[k] # u) =>
          \E k \in 1..Len(timer) : timer[k].node = tid[u] /\ timer[k].user = u
    /\ \A u \in Users :
          Cardinality({k \in 1..Len(timer) : timer[k].user = u})
          + Cardinality({k \in 1..Len(batch) : batch[k] = u})
              = IF where[u] \in {"sleep", "io"} \/ tid[u] # NoNode THEN 1 ELSE 0

\* A coroutine is not resumed by its timer before its time is over.
NotEarly == \A k \in 1..Len(batch) : rem[batch[k]] <= 0

\* When the scheduler goes to sleep it does not sleep past the next timer, by
\* more than the time its coroutines took since the clock was read: what
\* check_timeout returns is the "time(ms) to wait for the next timeout"
\* (scheduler.h:170).
NoOversleep ==
    pc = "epoll" /\ slept = 0 /\ timer # <<>> =>
        ~Blocks(waitMs) /\ waitMs <= Head(timer).left + busy

\* Everyone who waits with a time limit is resumed, even if nothing but the
\* timeout of epoll_wait wakes the scheduler.
TimerFires == \A u \in Users : where[u] \in {"sleep", "io"} ~> where[u] = "run"
=============================================================================
