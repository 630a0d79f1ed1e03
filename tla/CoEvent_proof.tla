--------------------------- MODULE CoEvent_proof ---------------------------
(***************************************************************************)
(* Proofs about CoEvent, for any number of coroutines, timers and threads  *)
(* that call signal(), if no wait starts while a signal() is at work that  *)
(* took an earlier wait of the coroutine (LateSignals = FALSE): a wait is  *)
(* resumed exactly once and wait(ms) returns what happened, timers and the *)
(* coroutines that added them belong together, and the pool holds only     *)
(* coroutines in S_init.                                                   *)
(***************************************************************************)
EXTENDS CoEvent, FiniteSetTheorems, TLAPS

Batches == [new : 0..MaxGo, ready : Seq(Cos), timed : SUBSET TimedEntry]
TypeInv == TypeOK /\ batch \in Batches

\* The loop: which containers hold something, and when _timeout is set.
LoopInv ==
    /\ running # NoCo => pc \in {"tasks", "expired"}
    /\ \A c \in Cos : pos[c] \in {"run", "enter", "tenter"} <=> running = c
    /\ pc = "epoll" => batch.new = 0 /\ batch.ready = <<>> /\ batch.timed = {}
    /\ pc \in {"check", "expired"} => batch.new = 0 /\ batch.timed = {}
    /\ timeout => pc = "expired"
    /\ pc = "expired" /\ batch.ready # <<>> => timeout

\* The pool: coroutines are created one after the other, for calls of go(),
\* and those in the pool are free.
PoolInv ==
    /\ created + newTasks + batch.new <= nGo
    /\ \A c \in Cos : c > created => pos[c] = "free"
    /\ \A i \in 1..Len(pool) : pos[pool[i]] = "free" /\ pool[i] <= created
    /\ \A i, j \in 1..Len(pool) : pool[i] = pool[j] => i = j

\* What the state says at each position.
StateInv ==
    \A c \in Cos :
       /\ pos[c] \in {"free", "run", "sleep"} => state[c] = "init"
       /\ pos[c] \in {"enter", "tenter"} => state[c] = "wait"
       /\ pos[c] = "wait" => state[c] # "init"
       /\ pos[c] \in {"enter", "wait"} => cur[c] = NoTimer
       /\ pos[c] \in {"tenter", "twait"} => cur[c] # NoTimer
       /\ state[c] = "wait" => ~signalled[c]
       /\ state[c] = "ready" => signalled[c]

\* A timer belongs to one coroutine, which sleeps or is in the wait that added
\* it; a wait has its timer until check_timeout sets S_init.
TimerInv ==
    /\ DOMAIN timers \subseteq 1..nTimers
    /\ \A i \in DOMAIN timers :
          \/ pos[timers[i]] \in {"twait", "tenter"} /\ cur[timers[i]] = i
          \/ pos[timers[i]] = "sleep"
    /\ \A i, j \in DOMAIN timers : timers[i] = timers[j] => i = j
    /\ \A c \in Cos : pos[c] \in {"twait", "tenter"} =>
          IF state[c] = "init" THEN cur[c] \notin DOMAIN timers
          ELSE cur[c] \in DOMAIN timers /\ timers[cur[c]] = c
    /\ \A c \in Cos : cur[c] \in 0..nTimers

\* Who is in the map waits, and was not signalled; what a signaller took is
\* from the present wait if its CAS can succeed, and not in the map as well;
\* who waits can be reached.
EntryInv ==
    /\ \A e \in coWait : pos[e.co] \in {"wait", "twait"} /\ e.id = cur[e.co] /\ ~signalled[e.co]
    /\ \A a \in Signallers : \A e \in taken[a] :
          /\ pos[e.co] \notin {"enter", "tenter"}
          /\ state[e.co] = "wait" => e.id = cur[e.co]
          /\ \A f \in coWait : f.co # e.co
    /\ \A c \in Cos : pos[c] \in {"wait", "twait"} /\ state[c] = "wait" =>
          \/ \E e \in coWait : e.co = c
          \/ \E a \in Signallers : \E e \in taken[a] : e.co = c /\ e.id = cur[c]

\* Who is on its way to be resumed after a signal, and after a timeout.
BySignal(c) == pos[c] \in {"wait", "twait"} /\ state[c] # "wait" /\ signalled[c]
ByTimeout(c) == pos[c] \in {"twait", "sleep"} /\ state[c] = "init" /\ (pos[c] = "twait" => ~signalled[c])

WonInv ==
    \A a \in Signallers : /\ \A e \in won[a] : BySignal(e.co) /\ e.id = cur[e.co]
                          /\ \A e, f \in won[a] : e = f

QueueInv ==
    /\ \A i \in 1..Len(readyTasks) : BySignal(readyTasks[i]) /\ pos[readyTasks[i]] = "wait"
    /\ \A e \in timerTasks \cup batch.timed : BySignal(e.co) /\ pos[e.co] = "twait" /\ e.id = cur[e.co]
    /\ \A i \in 1..Len(batch.ready) :
          IF pc = "tasks" THEN BySignal(batch.ready[i]) /\ pos[batch.ready[i]] = "wait"
          ELSE ByTimeout(batch.ready[i])

\* How often it is on its way.
CountInv ==
    \A c \in Cos :
       /\ pos[c] \in {"wait", "twait"} => Resumes(c) = IF state[c] = "wait" THEN 0 ELSE 1
       /\ ~Suspended(c) => Resumes(c) = 0
       /\ pos[c] = "sleep" => Resumes(c) = IF \E i \in DOMAIN timers : timers[i] = c THEN 0 ELSE 1

Inv == /\ TypeInv /\ LoopInv /\ PoolInv /\ StateInv /\ TimerInv /\ EntryInv /\ WonInv
       /\ QueueInv /\ CountInv

-----------------------------------------------------------------------------
(* Counting. *)

\* How often c is at index i, for all indices of a queue.
At(q, c) == {i \in 1..Len(q) : q[i] = c}

\* The count of a queue is a number, and positive for who is in the queue.
LEMMA OccurrencesType ==
    ASSUME NEW S, NEW q \in Seq(S), NEW c
    PROVE  /\ IsFiniteSet(At(q, c)) /\ Occurrences(q, c) = Cardinality(At(q, c))
           /\ Occurrences(q, c) \in Nat
           /\ Occurrences(q, c) = 0 <=> \A i \in 1..Len(q) : q[i] # c
  <1>1. Len(q) \in Nat
    OBVIOUS
  <1>2. IsFiniteSet(1..Len(q))
    BY <1>1, FS_Interval
  <1>3. IsFiniteSet(At(q, c))
    BY <1>2, FS_Subset DEF At
  <1>4. Occurrences(q, c) = Cardinality(At(q, c))
    BY DEF Occurrences, At
  <1>5. Cardinality(At(q, c)) \in Nat /\ (Cardinality(At(q, c)) = 0 <=> At(q, c) = {})
    BY <1>3, FS_CardinalityType, FS_EmptySet
  <1> QED
    BY <1>3, <1>4, <1>5 DEF At

\* The counts after a new task and after the first was taken.
LEMMA OccurrencesAppend ==
    ASSUME NEW S, NEW q \in Seq(S), NEW d \in S, NEW c
    PROVE  Occurrences(Append(q, d), c) = Occurrences(q, c) + (IF c = d THEN 1 ELSE 0)
  <1> DEFINE n == Len(q) + 1
             r == Append(q, d)
  <1>1. /\ r \in Seq(S) /\ Len(q) \in Nat /\ Len(r) = n /\ r[n] = d
        /\ \A i \in 1..Len(q) : r[i] = q[i]
    OBVIOUS
  <1>2. Occurrences(r, c) = Cardinality(At(r, c)) /\ Occurrences(q, c) = Cardinality(At(q, c))
    BY <1>1, OccurrencesType
  <1>3. IsFiniteSet(At(q, c)) /\ n \notin At(q, c) /\ Cardinality(At(q, c)) \in Nat
    <2>1. n \notin At(q, c)
      BY <1>1 DEF At
    <2> QED
      BY <2>1, OccurrencesType
  <1> HIDE DEF r, n
  <1>4. CASE c = d
    <2>1. At(r, c) = At(q, c) \cup {n}
      BY <1>1, <1>4 DEF At, n
    <2> QED
      BY <1>2, <1>3, <1>4, <2>1, FS_AddElement DEF r
  <1>5. CASE c # d
    <2>1. At(r, c) = At(q, c)
      BY <1>1, <1>5 DEF At, n
    <2> QED
      BY <1>2, <1>3, <1>5, <2>1 DEF r
  <1> QED
    BY <1>4, <1>5

\* The first element counts once, the others as before.
LEMMA OccurrencesTail ==
    ASSUME NEW S, NEW q \in Seq(S), q # <<>>, NEW c
    PROVE  Occurrences(q, c) = Occurrences(Tail(q), c) + (IF c = Head(q) THEN 1 ELSE 0)
  <1> DEFINE r == Tail(q)
             A == At(q, c) \ {1}
             f == [i \in A |-> i - 1]
  <1>1. /\ r \in Seq(S) /\ Len(q) \in Nat /\ Len(q) >= 1 /\ Len(r) = Len(q) - 1 /\ Head(q) = q[1]
        /\ \A i \in 1..(Len(q) - 1) : r[i] = q[i + 1]
    OBVIOUS
  <1> HIDE DEF r
  <1>2. Occurrences(r, c) = Cardinality(At(r, c)) /\ Occurrences(q, c) = Cardinality(At(q, c))
    BY <1>1, OccurrencesType
  <1>3. IsFiniteSet(At(q, c)) /\ Cardinality(At(q, c)) \in Nat
    BY OccurrencesType
  <1>4. IsFiniteSet(A) /\ Cardinality(A) = IF 1 \in At(q, c) THEN Cardinality(At(q, c)) - 1
                                           ELSE Cardinality(At(q, c))
    BY <1>3, FS_RemoveElement
  <1>5. ExistsBijection(A, At(r, c))
    <2>1. \A i \in A : i \in 2..Len(q) /\ q[i] = c
      BY <1>1 DEF At
    <2>2. \A i \in A : f[i] \in 1..Len(r) /\ r[f[i]] = c
      BY <1>1, <2>1
    <2>3. f \in [A -> At(r, c)] /\ \A i, j \in A : f[i] = f[j] => i = j
      <3>1. \A i \in A : f[i] \in At(r, c)
        BY <2>2 DEF At
      <3>2. \A i, j \in A : i - 1 = j - 1 => i = j
        BY <2>1
      <3> QED
        BY <3>1, <3>2
    <2>4. ASSUME NEW j \in At(r, c) PROVE \E i \in A : f[i] = j
      <3>1. j + 1 \in A /\ f[j + 1] = j
        BY <1>1, <2>4 DEF At
      <3> QED
        BY <3>1
    <2> HIDE DEF f, A
    <2>5. f \in Bijection(A, At(r, c))
      BY <2>3, <2>4 DEF Bijection, Injection, Surjection, IsInjective
    <2> QED
      BY <2>5 DEF ExistsBijection
  <1>6. Cardinality(At(r, c)) = Cardinality(A)
    BY <1>4, <1>5, FS_Bijection
  <1>7. 1 \in At(q, c) <=> c = Head(q)
    BY <1>1 DEF At
  <1> QED
    BY <1>2, <1>3, <1>4, <1>6, <1>7 DEF r

\* An empty queue counts nobody.
LEMMA NothingCounts == \A c : Occurrences(<<>>, c) = 0 /\ HasEntry({}, c) = 0
  <1> TAKE c
  <1>1. {i \in 1..Len(<<>>) : <<>>[i] = c} = {}
    OBVIOUS
  <1> QED
    BY <1>1, FS_EmptySet DEF Occurrences, HasEntry

\* The signallers whose CAS won for c.
Winners(c) == {a \in Signallers : \E e \in won[a] : e.co = c}

\* The assumptions, one by one.
LEMMA Constants ==
    /\ SchedThread \notin Threads /\ IsFiniteSet(Signallers) /\ LateSignals \in BOOLEAN
    /\ MaxTimers \in Nat /\ MaxGo \in Nat /\ SchedThread \in Signallers
    /\ Cos = 1..MaxGo /\ Timers = 1..MaxTimers /\ NoTimer = 0 /\ NoCo = 0 /\ NoCo \notin Cos /\ NoTimer \notin Timers
  BY BoundAssumption, FS_AddElement DEF Cos, Timers, NoTimer, NoCo, Signallers

\* The parts of the sum are numbers.
LEMMA WinnersType ==
    ASSUME NEW c
    PROVE  /\ IsFiniteSet(Winners(c)) /\ Cardinality(Winners(c)) \in Nat
           /\ Cardinality(Winners(c)) = 0 <=> \A a \in Signallers : \A e \in won[a] : e.co # c
  <1>1. IsFiniteSet(Winners(c))
    BY Constants, FS_Subset DEF Winners
  <1>2. Cardinality(Winners(c)) \in Nat /\ (Cardinality(Winners(c)) = 0 <=> Winners(c) = {})
    BY <1>1, FS_CardinalityType, FS_EmptySet
  <1> QED
    BY <1>1, <1>2 DEF Winners

\* Resumes as a sum of numbers.
LEMMA ResumesSum ==
    ASSUME TypeInv, NEW c \in Cos
    PROVE  /\ Resumes(c) = Cardinality(Winners(c)) + Occurrences(readyTasks, c) + HasEntry(timerTasks, c)
                           + Occurrences(batch.ready, c) + HasEntry(batch.timed, c)
           /\ Cardinality(Winners(c)) \in Nat /\ Occurrences(readyTasks, c) \in Nat
           /\ HasEntry(timerTasks, c) \in 0..1 /\ Occurrences(batch.ready, c) \in Nat
           /\ HasEntry(batch.timed, c) \in 0..1
  <1>1. readyTasks \in Seq(Cos) /\ batch.ready \in Seq(Cos)
    BY DEF TypeInv, TypeOK
  <1>2. Occurrences(readyTasks, c) \in Nat /\ Occurrences(batch.ready, c) \in Nat
    BY <1>1, OccurrencesType
  <1>3. HasEntry(timerTasks, c) \in 0..1 /\ HasEntry(batch.timed, c) \in 0..1
    BY DEF HasEntry
  <1> QED
    BY <1>2, <1>3, WinnersType DEF Resumes, Winners

\* A step that moves nobody leaves the counts alone.
LEMMA SameResumes ==
    ASSUME UNCHANGED <<won, readyTasks, timerTasks>>, batch'.ready = batch.ready, batch'.timed = batch.timed, NEW c
    PROVE  Resumes(c)' = Resumes(c)
  BY DEF Resumes, Occurrences, HasEntry

-----------------------------------------------------------------------------
(* The initial state. *)

\* At the start nothing is queued and nobody exists.
LEMMA InitInv == Init => Inv
  <1> SUFFICES ASSUME Init PROVE Inv
    OBVIOUS
  <1>1. TypeInv
    <2>1. batch \in Batches
      BY Constants DEF Init, Batches, Nothing
    <2>2. DOMAIN timers = {} /\ due = {}
      BY DEF Init
    <2>3. /\ state \in [Cos -> {"init", "wait", "ready"}] /\ pos \in [Cos -> Positions]
          /\ cur \in [Cos -> Timers \cup {NoTimer}] /\ signalled \in [Cos -> BOOLEAN]
          /\ taken \in [Signallers -> SUBSET Entry] /\ won \in [Signallers -> SUBSET Entry]
      BY DEF Init, Positions
    <2>4. pool \in Seq(Cos) /\ readyTasks \in Seq(Cos)
      BY DEF Init
    <2>5. created \in 0..MaxGo /\ newTasks \in 0..MaxGo /\ nGo \in 0..MaxGo /\ nTimers \in 0..MaxTimers
      BY Constants DEF Init
    <2>6. /\ coWait \subseteq Entry /\ timerTasks \subseteq TimedEntry
          /\ pc \in {"epoll", "tasks", "check", "expired"} /\ running \in Cos \cup {NoCo} /\ timeout \in BOOLEAN
      BY DEF Init
    <2> QED
      BY <2>1, <2>2, <2>3, <2>4, <2>5, <2>6 DEF TypeInv, TypeOK, Batches
  <1>2. LoopInv
    BY Constants DEF Init, LoopInv, Nothing
  <1>3. PoolInv
    BY DEF Init, PoolInv, Nothing
  <1>4. StateInv
    BY DEF Init, StateInv
  <1>5. TimerInv /\ EntryInv
    BY Constants DEF Init, TimerInv, EntryInv
  <1>6. WonInv /\ QueueInv
    BY DEF Init, WonInv, QueueInv, Nothing
  <1>7. CountInv
    <2> SUFFICES ASSUME NEW c \in Cos PROVE Resumes(c) = 0
      BY DEF Init, CountInv, Suspended
    <2>1. Cardinality(Winners(c)) = 0
      BY WinnersType DEF Init
    <2>4. /\ Occurrences(readyTasks, c) = 0 /\ Occurrences(batch.ready, c) = 0
          /\ HasEntry(timerTasks, c) = 0 /\ HasEntry(batch.timed, c) = 0
      BY NothingCounts DEF Init, Nothing
    <2> QED
      BY <1>1, <2>1, <2>4, ResumesSum
  <1> QED
    BY <1>1, <1>2, <1>3, <1>4, <1>5, <1>6, <1>7 DEF Inv

-----------------------------------------------------------------------------
(* What the running coroutine does. *)

\* The running coroutine has no timer, and nobody is about to resume it.
LEMMA RunningAlone ==
    ASSUME Inv, NEW c \in Cos, running = c
    PROVE  /\ pos[c] \in {"run", "enter", "tenter"} /\ pc \in {"tasks", "expired"} /\ running # NoCo
           /\ pos[c] \in {"run", "enter"} => \A i \in DOMAIN timers : timers[i] # c
           /\ \A e \in coWait : e.co # c
           /\ \A a \in Signallers : \A e \in won[a] : e.co # c
           /\ \A i \in 1..Len(readyTasks) : readyTasks[i] # c
           /\ \A e \in timerTasks \cup batch.timed : e.co # c
           /\ \A i \in 1..Len(batch.ready) : batch.ready[i] # c
           /\ \A i \in 1..Len(pool) : pool[i] # c
           /\ Resumes(c) = 0 /\ c <= created
  <1>1. pos[c] \in {"run", "enter", "tenter"} /\ pc \in {"tasks", "expired"} /\ running # NoCo
    BY Constants DEF Inv, LoopInv
  <1>2. pos[c] \in {"run", "enter"} => \A i \in DOMAIN timers : timers[i] # c
    BY DEF Inv, TimerInv
  <1>3. /\ \A e \in coWait : e.co # c
        /\ \A a \in Signallers : \A e \in won[a] : e.co # c
    BY <1>1 DEF Inv, EntryInv, WonInv, BySignal
  <1>4. /\ \A i \in 1..Len(readyTasks) : readyTasks[i] # c
        /\ \A e \in timerTasks \cup batch.timed : e.co # c
        /\ \A i \in 1..Len(batch.ready) : batch.ready[i] # c
    BY <1>1 DEF Inv, QueueInv, BySignal, ByTimeout
  <1>5. \A i \in 1..Len(pool) : pool[i] # c
    BY <1>1 DEF Inv, PoolInv
  <1>6. Resumes(c) = 0
    BY <1>1 DEF Inv, CountInv, Suspended
  <1>7. c <= created
    BY <1>1, Constants DEF Inv, PoolInv, TypeInv, TypeOK
  <1> QED
    BY <1>1, <1>2, <1>3, <1>4, <1>5, <1>6, <1>7

\* The positions, states and marks of the others stay when those of c change:
\* the queues and the map hold only others, and stay in order.
LEMMA OthersWait ==
    ASSUME Inv, NEW c \in Cos, running = c,
           \A d \in Cos : d # c => /\ pos'[d] = pos[d] /\ state'[d] = state[d] /\ cur'[d] = cur[d]
                                   /\ signalled'[d] = signalled[d],
           UNCHANGED <<won, readyTasks, timerTasks, batch, pc>>
    PROVE  /\ WonInv' /\ QueueInv'
           /\ \A d \in Cos : Resumes(d)' = Resumes(d)
  <1>0. /\ \A a \in Signallers : \A e \in won[a] : e.co # c /\ e.co \in Cos
        /\ \A i \in 1..Len(readyTasks) : readyTasks[i] # c /\ readyTasks[i] \in Cos
        /\ \A e \in timerTasks \cup batch.timed : e.co # c /\ e.co \in Cos
        /\ \A i \in 1..Len(batch.ready) : batch.ready[i] # c /\ batch.ready[i] \in Cos
    BY RunningAlone, SMTT(30) DEF Inv, TypeInv, TypeOK, Entry, TimedEntry
  <1>1. WonInv'
    BY <1>0 DEF Inv, WonInv, BySignal
  <1>2. QueueInv'
    BY <1>0 DEF Inv, QueueInv, BySignal, ByTimeout
  <1> QED
    BY <1>1, <1>2, SameResumes

\* The pool when the position of the running coroutine changes.
LEMMA PoolSame ==
    ASSUME Inv, NEW c \in Cos, running = c, \A d \in Cos : d # c => pos'[d] = pos[d],
           UNCHANGED <<created, newTasks, batch, nGo, pool>>
    PROVE  PoolInv'
  <1>1. \A i \in 1..Len(pool) : pool[i] # c /\ pool[i] \in Cos
    BY RunningAlone DEF Inv, TypeInv, TypeOK
  <1>2. ~(c > created)
    BY RunningAlone, Constants DEF Inv, TypeInv, TypeOK
  <1> QED
    BY <1>1, <1>2 DEF Inv, PoolInv

\* wait() begins.
LEMMA WaitEnterInv == ASSUME Inv, ~LateSignals, NEW c \in Cos, WaitEnter(c) PROVE Inv'
  <1>0. /\ running = c /\ pos[c] = "run"
        /\ UNCHANGED <<created, pool, coWait, taken, won, newTasks, readyTasks, timerTasks, pc, batch, running,
                       timeout, timers, due, nTimers, nGo>>
        /\ state' = [state EXCEPT ![c] = "wait"] /\ cur' = [cur EXCEPT ![c] = NoTimer]
        /\ signalled' = [signalled EXCEPT ![c] = FALSE] /\ pos' = [pos EXCEPT ![c] = "enter"]
    BY DEF WaitEnter, Free, poolVars, sigVars, queueVars, loopVars, timerVars
  <1>1. /\ state \in [Cos -> {"init", "wait", "ready"}] /\ pos \in [Cos -> Positions]
        /\ cur \in [Cos -> Timers \cup {NoTimer}] /\ signalled \in [Cos -> BOOLEAN]
    BY DEF Inv, TypeInv, TypeOK
  <1>2. /\ pos'[c] = "enter" /\ state'[c] = "wait" /\ cur'[c] = NoTimer /\ signalled'[c] = FALSE
        /\ \A d \in Cos : d # c => /\ pos'[d] = pos[d] /\ state'[d] = state[d] /\ cur'[d] = cur[d]
                                   /\ signalled'[d] = signalled[d]
    BY <1>0, <1>1
  <1>3. \A a \in Signallers : \A e \in taken[a] : e.co # c
    BY DEF WaitEnter, MayWait, Free, Signallers
  <1>4. TypeInv'
    BY <1>0 DEF Inv, TypeInv, TypeOK, Positions
  <1>5. LoopInv'
    BY <1>0, <1>2 DEF Inv, LoopInv
  <1>6. PoolInv'
    BY <1>0, <1>2, PoolSame
  <1>7. StateInv'
    BY <1>2 DEF Inv, StateInv
  <1>8. TimerInv'
    <2>1. \A i \in DOMAIN timers : timers[i] # c /\ timers[i] \in Cos
      BY <1>0, RunningAlone DEF Inv, TypeInv, TypeOK
    <2>2. nTimers \in Nat /\ 0 \in 0..nTimers
      BY DEF Inv, TypeInv, TypeOK
    <2> QED
      BY <1>0, <1>2, <2>1, <2>2, Constants DEF Inv, TimerInv
  <1>9. EntryInv'
    <2>1. \A e \in coWait : e.co # c /\ e.co \in Cos
      BY <1>0, RunningAlone DEF Inv, TypeInv, TypeOK, Entry
    <2>2. \A a \in Signallers : \A e \in taken[a] : e.co \in Cos
      BY DEF Inv, TypeInv, TypeOK, Entry
    <2> QED
      BY <1>0, <1>2, <1>3, <2>1, <2>2 DEF Inv, EntryInv
  <1>10. WonInv' /\ QueueInv' /\ \A d \in Cos : Resumes(d)' = Resumes(d)
    BY <1>0, <1>2, OthersWait
  <1>11. CountInv'
    BY <1>0, <1>2, <1>10, RunningAlone DEF Inv, CountInv, Suspended
  <1> QED
    BY <1>4, <1>5, <1>6, <1>7, <1>8, <1>9, <1>10, <1>11 DEF Inv

\* wait(ms) begins: the same with a new timer.
LEMMA TimedWaitEnterInv == ASSUME Inv, ~LateSignals, NEW c \in Cos, TimedWaitEnter(c) PROVE Inv'
  <1> DEFINE n == nTimers + 1
  <1>0. /\ running = c /\ pos[c] = "run" /\ nTimers < MaxTimers /\ nTimers' = n
        /\ timers' = [i \in DOMAIN timers \cup {n} |-> IF i = n THEN c ELSE timers[i]]
        /\ UNCHANGED <<created, pool, coWait, taken, won, newTasks, readyTasks, timerTasks, pc, batch, running,
                       timeout, due, nGo>>
        /\ state' = [state EXCEPT ![c] = "wait"] /\ cur' = [cur EXCEPT ![c] = n]
        /\ signalled' = [signalled EXCEPT ![c] = FALSE] /\ pos' = [pos EXCEPT ![c] = "tenter"]
    BY DEF TimedWaitEnter, AddTimer, Free, poolVars, sigVars, queueVars, loopVars, timerVars
  <1>1. /\ state \in [Cos -> {"init", "wait", "ready"}] /\ pos \in [Cos -> Positions]
        /\ cur \in [Cos -> Timers \cup {NoTimer}] /\ signalled \in [Cos -> BOOLEAN]
        /\ nTimers \in Nat /\ n \in Timers /\ n \in 0..MaxTimers /\ n # NoTimer
    BY <1>0, Constants DEF Inv, TypeInv, TypeOK
  <1>2. /\ pos'[c] = "tenter" /\ state'[c] = "wait" /\ cur'[c] = n /\ signalled'[c] = FALSE
        /\ \A d \in Cos : d # c => /\ pos'[d] = pos[d] /\ state'[d] = state[d] /\ cur'[d] = cur[d]
                                   /\ signalled'[d] = signalled[d]
    BY <1>0, <1>1
  <1>3. \A a \in Signallers : \A e \in taken[a] : e.co # c
    BY DEF TimedWaitEnter, MayWait, Free, Signallers
  <1>T. /\ n \notin DOMAIN timers /\ DOMAIN timers' = DOMAIN timers \cup {n} /\ timers'[n] = c
        /\ \A i \in DOMAIN timers : timers'[i] = timers[i] /\ timers[i] # c /\ timers[i] \in Cos /\ i \in 1..nTimers
    <2>1. DOMAIN timers \subseteq 1..nTimers
      BY DEF Inv, TimerInv
    <2>2. n \notin DOMAIN timers
      BY <1>1, <2>1
    <2>3. \A i \in DOMAIN timers : timers[i] # c /\ timers[i] \in Cos
      BY <1>0, RunningAlone DEF Inv, TypeInv, TypeOK
    <2> QED
      BY <1>0, <2>1, <2>2, <2>3
  <1> HIDE DEF n
  <1>4. TypeInv'
    <2>1. DOMAIN timers' \subseteq Timers /\ (\A i \in DOMAIN timers' : timers'[i] \in Cos) /\ due' \subseteq DOMAIN timers'
      BY <1>0, <1>1, <1>T DEF Inv, TypeInv, TypeOK
    <2>2. /\ state' \in [Cos -> {"init", "wait", "ready"}] /\ pos' \in [Cos -> Positions]
          /\ cur' \in [Cos -> Timers \cup {NoTimer}] /\ signalled' \in [Cos -> BOOLEAN]
      BY <1>0, <1>1 DEF Positions
    <2> QED
      BY <1>0, <1>1, <2>1, <2>2 DEF Inv, TypeInv, TypeOK
  <1>5. LoopInv'
    BY <1>0, <1>2 DEF Inv, LoopInv
  <1>6. PoolInv'
    BY <1>0, <1>2, PoolSame
  <1>7. StateInv'
    BY <1>1, <1>2 DEF Inv, StateInv
  <1>8. TimerInv'
    <2>1. DOMAIN timers' \subseteq 1..nTimers'
      BY <1>0, <1>1, <1>T DEF n
    <2>2. \A i \in DOMAIN timers' : \/ pos'[timers'[i]] \in {"twait", "tenter"} /\ cur'[timers'[i]] = i
                                    \/ pos'[timers'[i]] = "sleep"
      BY <1>2, <1>T DEF Inv, TimerInv
    <2>3. \A i, j \in DOMAIN timers' : timers'[i] = timers'[j] => i = j
      BY <1>T DEF Inv, TimerInv
    <2>4. ASSUME NEW d \in Cos, pos'[d] \in {"twait", "tenter"}
          PROVE  IF state'[d] = "init" THEN cur'[d] \notin DOMAIN timers'
                 ELSE cur'[d] \in DOMAIN timers' /\ timers'[cur'[d]] = d
      <3>1. CASE d = c
        BY <1>2, <1>T, <3>1
      <3>2. CASE d # c
        <4>1. cur[d] # n
          BY <1>1 DEF Inv, TimerInv, n
        <4> QED
          BY <1>2, <1>T, <2>4, <3>2, <4>1 DEF Inv, TimerInv
      <3> QED
        BY <3>1, <3>2
    <2>5. \A d \in Cos : cur'[d] \in 0..nTimers'
      <3>1. \A d \in Cos : cur[d] \in 0..nTimers
        BY DEF Inv, TimerInv
      <3> QED
        BY <1>0, <1>1, <1>2, <3>1 DEF n
    <2> QED
      BY <2>1, <2>2, <2>3, <2>4, <2>5 DEF TimerInv
  <1>9. EntryInv'
    <2>1. \A e \in coWait : e.co # c /\ e.co \in Cos
      BY <1>0, RunningAlone DEF Inv, TypeInv, TypeOK, Entry
    <2>2. \A a \in Signallers : \A e \in taken[a] : e.co \in Cos
      BY DEF Inv, TypeInv, TypeOK, Entry
    <2> QED
      BY <1>0, <1>2, <1>3, <2>1, <2>2 DEF Inv, EntryInv
  <1>10. WonInv' /\ QueueInv' /\ \A d \in Cos : Resumes(d)' = Resumes(d)
    BY <1>0, <1>2, OthersWait
  <1>11. CountInv'
    <2>1. \A d \in Cos : d # c => ((\E i \in DOMAIN timers' : timers'[i] = d) <=> (\E i \in DOMAIN timers : timers[i] = d))
      BY <1>T
    <2>2. Resumes(c) = 0
      BY <1>0, RunningAlone
    <2> SUFFICES ASSUME NEW d \in Cos
                 PROVE  /\ pos'[d] \in {"wait", "twait"} => Resumes(d) = IF state'[d] = "wait" THEN 0 ELSE 1
                        /\ ~Suspended(d)' => Resumes(d) = 0
                        /\ pos'[d] = "sleep" => Resumes(d) = IF \E i \in DOMAIN timers' : timers'[i] = d THEN 0 ELSE 1
      BY <1>10 DEF CountInv
    <2>3. CASE d = c
      BY <1>2, <2>2, <2>3
    <2>4. CASE d # c
      BY <1>2, <2>1, <2>4 DEF Inv, CountInv, Suspended
    <2> QED
      BY <2>3, <2>4
  <1> QED
    BY <1>4, <1>5, <1>6, <1>7, <1>8, <1>9, <1>10, <1>11 DEF Inv

\* wait() enters the coroutine into the map and yields.
LEMMA WaitYieldInv == ASSUME Inv, NEW c \in Cos, WaitYield(c) PROVE Inv'
  <1> DEFINE new == [co |-> c, id |-> cur[c]]
             p == IF pos[c] = "enter" THEN "wait" ELSE "twait"
  <1>0. /\ running = c /\ pos[c] \in {"enter", "tenter"} /\ running' = NoCo
        /\ UNCHANGED <<state, cur, signalled, created, pool, taken, won, newTasks, readyTasks, timerTasks, pc, batch,
                       timeout, timers, due, nTimers, nGo>>
        /\ coWait' = Insert(coWait, new) /\ pos' = [pos EXCEPT ![c] = p]
    BY DEF WaitYield, poolVars, sigVars, queueVars, timerVars
  <1>1. /\ pos \in [Cos -> Positions] /\ cur[c] \in Timers \cup {NoTimer} /\ p \in {"wait", "twait"}
        /\ new \in Entry /\ new.co = c /\ new.id = cur[c]
    BY DEF Inv, TypeInv, TypeOK, Entry
  <1>2. pos'[c] = p /\ \A d \in Cos : d # c => pos'[d] = pos[d]
    BY <1>0, <1>1
  <1>3. coWait' = coWait \cup {new}
    BY <1>0, <1>1, RunningAlone DEF Insert
  <1>S. state[c] = "wait" /\ ~signalled[c]
    BY <1>0 DEF Inv, StateInv
  <1> HIDE DEF new
  <1>4. TypeInv'
    <2>1. coWait' \subseteq Entry /\ pos' \in [Cos -> Positions] /\ running' \in Cos \cup {NoCo}
      BY <1>0, <1>1, <1>3 DEF Inv, TypeInv, TypeOK, Positions
    <2> QED
      BY <1>0, <2>1 DEF Inv, TypeInv, TypeOK
  <1>5. LoopInv'
    BY <1>0, <1>1, <1>2, Constants DEF Inv, LoopInv
  <1>6. PoolInv'
    BY <1>0, <1>2, PoolSame
  <1>7. StateInv'
    BY <1>0, <1>2 DEF Inv, StateInv
  <1>8. TimerInv'
    <2>1. \A i \in DOMAIN timers : timers[i] \in Cos /\ (timers[i] = c => pos[c] = "tenter" /\ cur[c] = i)
      BY <1>0 DEF Inv, TypeInv, TypeOK, TimerInv
    <2> QED
      BY <1>0, <1>2, <2>1 DEF Inv, TimerInv
  <1>9. EntryInv'
    <2>1. \A e \in coWait : e.co # c /\ e.co \in Cos
      BY <1>0, RunningAlone DEF Inv, TypeInv, TypeOK, Entry
    <2>2. \A a \in Signallers : \A e \in taken[a] : e.co \in Cos /\ e.co # c
      BY <1>0 DEF Inv, TypeInv, TypeOK, Entry, EntryInv
    <2>3. \A e \in coWait' : pos'[e.co] \in {"wait", "twait"} /\ e.id = cur'[e.co] /\ ~signalled'[e.co]
      BY <1>0, <1>1, <1>2, <1>3, <1>S, <2>1 DEF Inv, EntryInv
    <2>4. \A a \in Signallers : \A e \in taken'[a] :
             /\ pos'[e.co] \notin {"enter", "tenter"} /\ (state'[e.co] = "wait" => e.id = cur'[e.co])
             /\ \A f \in coWait' : f.co # e.co
      BY <1>0, <1>1, <1>2, <1>3, <2>2 DEF Inv, EntryInv
    <2>5. \A d \in Cos : pos'[d] \in {"wait", "twait"} /\ state'[d] = "wait" =>
             \/ \E e \in coWait' : e.co = d
             \/ \E a \in Signallers : \E e \in taken'[a] : e.co = d /\ e.id = cur'[d]
      BY <1>0, <1>1, <1>2, <1>3 DEF Inv, EntryInv
    <2> QED
      BY <2>3, <2>4, <2>5 DEF EntryInv
  <1>10. WonInv' /\ QueueInv' /\ \A d \in Cos : Resumes(d)' = Resumes(d)
    BY <1>0, <1>2, OthersWait
  <1>11. CountInv'
    BY <1>0, <1>1, <1>2, <1>10, <1>S, RunningAlone DEF Inv, CountInv, Suspended
  <1> QED
    BY <1>4, <1>5, <1>6, <1>7, <1>8, <1>9, <1>10, <1>11 DEF Inv

\* co::sleep
LEMMA SleepInv == ASSUME Inv, NEW c \in Cos, Sleep(c) PROVE Inv'
  <1> DEFINE n == nTimers + 1
  <1>0. /\ running = c /\ pos[c] = "run" /\ nTimers < MaxTimers /\ nTimers' = n /\ running' = NoCo
        /\ timers' = [i \in DOMAIN timers \cup {n} |-> IF i = n THEN c ELSE timers[i]]
        /\ UNCHANGED <<state, cur, signalled, created, pool, coWait, taken, won, newTasks, readyTasks, timerTasks, pc,
                       batch, timeout, due, nGo>>
        /\ pos' = [pos EXCEPT ![c] = "sleep"]
    BY DEF Sleep, AddTimer, Free, poolVars, sigVars, queueVars, timerVars
  <1>1. pos \in [Cos -> Positions] /\ nTimers \in Nat /\ n \in Timers /\ n \in 0..MaxTimers
    BY <1>0, Constants DEF Inv, TypeInv, TypeOK
  <1>2. pos'[c] = "sleep" /\ \A d \in Cos : d # c => pos'[d] = pos[d]
    BY <1>0, <1>1
  <1>T. /\ n \notin DOMAIN timers /\ DOMAIN timers' = DOMAIN timers \cup {n} /\ timers'[n] = c
        /\ \A i \in DOMAIN timers : timers'[i] = timers[i] /\ timers[i] # c /\ timers[i] \in Cos /\ i \in 1..nTimers
    <2>1. DOMAIN timers \subseteq 1..nTimers
      BY DEF Inv, TimerInv
    <2>2. n \notin DOMAIN timers
      BY <1>1, <2>1
    <2>3. \A i \in DOMAIN timers : timers[i] # c /\ timers[i] \in Cos
      BY <1>0, RunningAlone DEF Inv, TypeInv, TypeOK
    <2> QED
      BY <1>0, <2>1, <2>2, <2>3
  <1> HIDE DEF n
  <1>4. TypeInv'
    <2>1. DOMAIN timers' \subseteq Timers /\ (\A i \in DOMAIN timers' : timers'[i] \in Cos) /\ due' \subseteq DOMAIN timers'
      BY <1>0, <1>1, <1>T DEF Inv, TypeInv, TypeOK
    <2>2. pos' \in [Cos -> Positions] /\ running' \in Cos \cup {NoCo}
      BY <1>0, <1>1 DEF Positions
    <2> QED
      BY <1>0, <1>1, <2>1, <2>2 DEF Inv, TypeInv, TypeOK
  <1>5. LoopInv'
    BY <1>0, <1>2, Constants DEF Inv, LoopInv
  <1>6. PoolInv'
    BY <1>0, <1>2, PoolSame
  <1>7. StateInv'
    BY <1>0, <1>2 DEF Inv, StateInv
  <1>8. TimerInv'
    <2>1. DOMAIN timers' \subseteq 1..nTimers'
      BY <1>0, <1>1, <1>T DEF n
    <2>2. \A i \in DOMAIN timers' : \/ pos'[timers'[i]] \in {"twait", "tenter"} /\ cur'[timers'[i]] = i
                                    \/ pos'[timers'[i]] = "sleep"
      BY <1>0, <1>2, <1>T DEF Inv, TimerInv
    <2>3. \A i, j \in DOMAIN timers' : timers'[i] = timers'[j] => i = j
      BY <1>T DEF Inv, TimerInv
    <2>4. \A d \in Cos : cur[d] \in 0..nTimers /\ cur[d] # n /\ cur'[d] \in 0..nTimers'
      BY <1>0, <1>1 DEF Inv, TimerInv, n
    <2>5. \A d \in Cos : pos'[d] \in {"twait", "tenter"} =>
             IF state'[d] = "init" THEN cur'[d] \notin DOMAIN timers'
             ELSE cur'[d] \in DOMAIN timers' /\ timers'[cur'[d]] = d
      BY <1>0, <1>2, <1>T, <2>4 DEF Inv, TimerInv
    <2> QED
      BY <2>1, <2>2, <2>3, <2>4, <2>5 DEF TimerInv
  <1>9. EntryInv'
    <2>1. \A e \in coWait : e.co # c /\ e.co \in Cos
      BY <1>0, RunningAlone DEF Inv, TypeInv, TypeOK, Entry
    <2>2. \A a \in Signallers : \A e \in taken[a] : e.co \in Cos
      BY DEF Inv, TypeInv, TypeOK, Entry
    <2> QED
      BY <1>0, <1>2, <2>1, <2>2 DEF Inv, EntryInv
  <1>10. WonInv' /\ QueueInv' /\ \A d \in Cos : Resumes(d)' = Resumes(d)
    BY <1>0, <1>2, OthersWait
  <1>11. CountInv'
    <2>1. \A d \in Cos : d # c => ((\E i \in DOMAIN timers' : timers'[i] = d) <=> (\E i \in DOMAIN timers : timers[i] = d))
      BY <1>T
    <2>2. Resumes(c) = 0 /\ \E i \in DOMAIN timers' : timers'[i] = c
      BY <1>0, <1>T, RunningAlone
    <2> SUFFICES ASSUME NEW d \in Cos
                 PROVE  /\ pos'[d] \in {"wait", "twait"} => Resumes(d) = IF state'[d] = "wait" THEN 0 ELSE 1
                        /\ ~Suspended(d)' => Resumes(d) = 0
                        /\ pos'[d] = "sleep" => Resumes(d) = IF \E i \in DOMAIN timers' : timers'[i] = d THEN 0 ELSE 1
      BY <1>10 DEF CountInv
    <2>3. CASE d = c
      BY <1>2, <2>2, <2>3 DEF Suspended
    <2>4. CASE d # c
      <3>1. pos'[d] = pos[d] /\ state' = state
        BY <1>0, <1>2, <2>4
      <3>2. (\E i \in DOMAIN timers' : timers'[i] = d) <=> (\E i \in DOMAIN timers : timers[i] = d)
        BY <2>1, <2>4
      <3> QED
        BY <3>1, <3>2 DEF Inv, CountInv, Suspended
    <2> QED
      BY <2>3, <2>4
  <1> QED
    BY <1>4, <1>5, <1>6, <1>7, <1>8, <1>9, <1>10, <1>11 DEF Inv

\* The coroutine ends and goes to the pool.
LEMMA FinishInv == ASSUME Inv, NEW c \in Cos, Finish(c) PROVE Inv'
  <1>0. /\ running = c /\ pos[c] = "run" /\ running' = NoCo /\ pool' = Append(pool, c)
        /\ UNCHANGED <<state, cur, signalled, created, coWait, taken, won, newTasks, readyTasks, timerTasks, pc,
                       batch, timeout, timers, due, nTimers, nGo>>
        /\ pos' = [pos EXCEPT ![c] = "free"]
    BY DEF Finish, Free, sigVars, queueVars, timerVars
  <1>1. pos \in [Cos -> Positions] /\ pool \in Seq(Cos)
    BY DEF Inv, TypeInv, TypeOK
  <1>2. pos'[c] = "free" /\ \A d \in Cos : d # c => pos'[d] = pos[d]
    BY <1>0, <1>1
  <1>4. TypeInv'
    <2>1. pos' \in [Cos -> Positions] /\ running' \in Cos \cup {NoCo} /\ pool' \in Seq(Cos)
      BY <1>0, <1>1 DEF Positions
    <2> QED
      BY <1>0, <2>1 DEF Inv, TypeInv, TypeOK
  <1>5. LoopInv'
    BY <1>0, <1>2, Constants DEF Inv, LoopInv
  <1>6. PoolInv'
    <2>1. \A i \in 1..Len(pool) : pool[i] # c /\ pool[i] \in Cos
      BY <1>0, <1>1, RunningAlone
    <2>2. c <= created /\ created \in Nat
      BY <1>0, RunningAlone DEF Inv, TypeInv, TypeOK
    <2>3. /\ Len(pool) \in Nat /\ Len(pool') = Len(pool) + 1 /\ pool'[Len(pool) + 1] = c
          /\ \A i \in 1..Len(pool) : pool'[i] = pool[i]
      BY <1>0, <1>1
    <2>4. \A i \in 1..Len(pool') : (i \in 1..Len(pool) /\ pool'[i] = pool[i]) \/ (i = Len(pool) + 1 /\ pool'[i] = c)
      BY <2>3
    <2>5. \A i \in 1..Len(pool') : pos'[pool'[i]] = "free" /\ pool'[i] <= created
      BY <1>2, <2>1, <2>2, <2>4 DEF Inv, PoolInv
    <2>6. \A i, j \in 1..Len(pool') : pool'[i] = pool'[j] => i = j
      BY <2>1, <2>4 DEF Inv, PoolInv
    <2> QED
      BY <1>0, <1>2, <2>5, <2>6 DEF Inv, PoolInv
  <1>7. StateInv'
    BY <1>0, <1>2 DEF Inv, StateInv
  <1>8. TimerInv'
    <2>1. \A i \in DOMAIN timers : timers[i] # c /\ timers[i] \in Cos
      BY <1>0, RunningAlone DEF Inv, TypeInv, TypeOK
    <2> QED
      BY <1>0, <1>2, <2>1 DEF Inv, TimerInv
  <1>9. EntryInv'
    <2>1. \A e \in coWait : e.co # c /\ e.co \in Cos
      BY <1>0, RunningAlone DEF Inv, TypeInv, TypeOK, Entry
    <2>2. \A a \in Signallers : \A e \in taken[a] : e.co \in Cos
      BY DEF Inv, TypeInv, TypeOK, Entry
    <2> QED
      BY <1>0, <1>2, <2>1, <2>2 DEF Inv, EntryInv
  <1>10. WonInv' /\ QueueInv' /\ \A d \in Cos : Resumes(d)' = Resumes(d)
    BY <1>0, <1>2, OthersWait
  <1>11. CountInv'
    BY <1>0, <1>2, <1>10, RunningAlone DEF Inv, CountInv, Suspended
  <1> QED
    BY <1>4, <1>5, <1>6, <1>7, <1>8, <1>9, <1>10, <1>11 DEF Inv

-----------------------------------------------------------------------------
(* What any thread does, and the steps of the loop that resume nobody. *)

\* A step that leaves the coroutines, the timers and the queues alone.
LEMMA QuietInv ==
    ASSUME Inv, TypeInv', LoopInv', PoolInv', EntryInv', QueueInv',
           UNCHANGED <<state, pos, cur, signalled, won, readyTasks, timerTasks, batch, timers, nTimers>>
    PROVE  Inv'
  <1>1. StateInv' /\ TimerInv'
    BY DEF Inv, StateInv, TimerInv
  <1>2. WonInv'
    BY DEF Inv, WonInv, BySignal
  <1>3. \A c \in Cos : Resumes(c)' = Resumes(c)
    BY SameResumes
  <1>4. CountInv'
    BY <1>3 DEF Inv, CountInv, Suspended
  <1> QED
    BY <1>1, <1>2, <1>4 DEF Inv

\* go() queues a closure.
LEMMA GoInv == ASSUME Inv, Go PROVE Inv'
  <1>0. /\ nGo < MaxGo /\ nGo' = nGo + 1 /\ newTasks' = newTasks + 1
        /\ UNCHANGED <<state, pos, cur, signalled, created, pool, coWait, taken, won, readyTasks, timerTasks, pc, batch,
                       running, timeout, timers, due, nTimers>>
    BY DEF Go, coVars, poolVars, sigVars, loopVars, timerVars
  <1>1. created \in 0..MaxGo /\ newTasks \in 0..MaxGo /\ nGo \in 0..MaxGo /\ batch.new \in 0..MaxGo /\ MaxGo \in Nat
    BY Constants DEF Inv, TypeInv, TypeOK
  <1>2. created + newTasks + batch.new <= nGo
    BY DEF Inv, PoolInv
  <1>3. newTasks' \in 0..MaxGo /\ nGo' \in 0..MaxGo /\ created + newTasks' + batch.new <= nGo'
    BY <1>0, <1>1, <1>2
  <1>4. TypeInv'
    BY <1>0, <1>3 DEF Inv, TypeInv, TypeOK
  <1>5. LoopInv' /\ PoolInv'
    BY <1>0, <1>3 DEF Inv, LoopInv, PoolInv
  <1>6. EntryInv' /\ QueueInv'
    BY <1>0 DEF Inv, EntryInv, QueueInv, BySignal, ByTimeout
  <1> QED
    BY <1>0, <1>4, <1>5, <1>6, QuietInv

\* signal() takes the map.
LEMMA SignalTakeInv == ASSUME Inv, NEW a \in Signallers, SignalTake(a) PROVE Inv'
  <1>0. /\ taken[a] = {} /\ taken' = [taken EXCEPT ![a] = coWait] /\ coWait' = {}
        /\ UNCHANGED <<state, pos, cur, signalled, created, pool, won, newTasks, readyTasks, timerTasks, pc, batch,
                       running, timeout, timers, due, nTimers, nGo>>
    BY DEF SignalTake, coVars, poolVars, queueVars, loopVars, timerVars
  <1>1. taken \in [Signallers -> SUBSET Entry] /\ coWait \subseteq Entry
    BY DEF Inv, TypeInv, TypeOK
  <1>2. taken'[a] = coWait /\ \A b \in Signallers : b # a => taken'[b] = taken[b]
    BY <1>0, <1>1
  <1>4. TypeInv'
    <2>1. taken' \in [Signallers -> SUBSET Entry] /\ coWait' \subseteq Entry
      BY <1>0, <1>1
    <2> QED
      BY <1>0, <2>1 DEF Inv, TypeInv, TypeOK
  <1>5. LoopInv' /\ PoolInv'
    BY <1>0 DEF Inv, LoopInv, PoolInv
  <1>6. QueueInv'
    BY <1>0 DEF Inv, QueueInv, BySignal, ByTimeout
  <1>7. EntryInv'
    <2>1. \A b \in Signallers : \A e \in taken'[b] :
             pos[e.co] \notin {"enter", "tenter"} /\ (state[e.co] = "wait" => e.id = cur[e.co])
      BY <1>2 DEF Inv, EntryInv
    <2>2. ASSUME NEW c \in Cos, pos[c] \in {"wait", "twait"}, state[c] = "wait"
          PROVE  \E b \in Signallers : \E e \in taken'[b] : e.co = c /\ e.id = cur[c]
      <3>1. CASE \E e \in coWait : e.co = c
        BY <1>2, <3>1 DEF Inv, EntryInv
      <3>2. CASE \E b \in Signallers : \E e \in taken[b] : e.co = c /\ e.id = cur[c]
        BY <1>0, <1>2, <3>2
      <3> QED
        BY <2>2, <3>1, <3>2 DEF Inv, EntryInv
    <2> QED
      BY <1>0, <2>1, <2>2 DEF EntryInv
  <1> QED
    BY <1>0, <1>4, <1>5, <1>6, <1>7, QuietInv

\* The loop goes from the tasks to the timers, and back to epoll_wait.
LEMMA PhaseInv == ASSUME Inv, TasksDone \/ CheckDone \/ ExpiredDone PROVE Inv'
  <1>0. UNCHANGED <<state, pos, cur, signalled, created, pool, coWait, taken, won, newTasks, readyTasks, timerTasks,
                    batch, running, timers, due, nTimers, nGo>>
    BY DEF TasksDone, CheckDone, ExpiredDone, coVars, poolVars, sigVars, queueVars, timerVars
  <1>1. \/ pc = "tasks" /\ pc' = "check" /\ running = NoCo /\ batch.new = 0 /\ batch.ready = <<>> /\ batch.timed = {}
              /\ timeout' = timeout
        \/ pc = "check" /\ pc' = "expired" /\ timeout' = (batch.ready # <<>>)
        \/ pc = "expired" /\ pc' = "epoll" /\ running = NoCo /\ batch.ready = <<>> /\ timeout' = FALSE
    BY DEF TasksDone, CheckDone, ExpiredDone, Nothing
  <1>2. timeout' \in BOOLEAN /\ pc' \in {"epoll", "tasks", "check", "expired"}
    BY <1>1 DEF Inv, TypeInv, TypeOK
  <1>4. TypeInv'
    BY <1>0, <1>2 DEF Inv, TypeInv, TypeOK
  <1>3. /\ running' # NoCo => pc' \in {"tasks", "expired"}
        /\ pc' = "epoll" => batch'.new = 0 /\ batch'.ready = <<>> /\ batch'.timed = {}
        /\ pc' \in {"check", "expired"} => batch'.new = 0 /\ batch'.timed = {}
    BY <1>0, <1>1 DEF Inv, LoopInv
  <1>T. (timeout' => pc' = "expired") /\ (pc' = "expired" /\ batch'.ready # <<>> => timeout')
    <2>1. timeout => pc = "expired"
      BY DEF Inv, LoopInv
    <2>2. CASE pc' = "check"
      BY <1>1, <2>1, <2>2
    <2>3. CASE pc' = "expired"
      BY <1>0, <1>1, <2>3, Zenon
    <2>4. CASE pc' = "epoll"
      BY <1>1, <2>4
    <2> QED
      BY <1>1, <2>2, <2>3, <2>4
  <1>5. LoopInv'
    BY <1>0, <1>3, <1>T DEF Inv, LoopInv
  <1>6. PoolInv' /\ EntryInv'
    BY <1>0 DEF Inv, PoolInv, EntryInv
  <1>7. QueueInv'
    BY <1>0, <1>1 DEF Inv, QueueInv, BySignal, ByTimeout
  <1> QED
    BY <1>0, <1>4, <1>5, <1>6, <1>7, QuietInv

\* A timer gets due.
LEMMA TickInv == ASSUME Inv, NEW id \in Timers, Tick(id) PROVE Inv'
  <1>0. /\ id \in DOMAIN timers /\ due' = due \cup {id}
        /\ UNCHANGED <<state, pos, cur, signalled, created, pool, coWait, taken, won, newTasks, readyTasks, timerTasks,
                       pc, batch, running, timeout, timers, nTimers, nGo>>
    BY DEF Tick, coVars, poolVars, sigVars, queueVars, loopVars
  <1>1. TypeInv'
    BY <1>0 DEF Inv, TypeInv, TypeOK
  <1>2. LoopInv' /\ PoolInv' /\ EntryInv'
    BY <1>0 DEF Inv, LoopInv, PoolInv, EntryInv
  <1>3. QueueInv'
    BY <1>0 DEF Inv, QueueInv, BySignal, ByTimeout
  <1> QED
    BY <1>0, <1>1, <1>2, <1>3, QuietInv

\* get_all_tasks: what was queued is in the containers of the loop, which
\* were empty.
LEMMA GetAllTasksInv == ASSUME Inv, GetAllTasks PROVE Inv'
  <1>0. /\ pc = "epoll" /\ pc' = "tasks" /\ newTasks' = 0 /\ readyTasks' = <<>> /\ timerTasks' = {}
        /\ batch' = [new |-> newTasks, ready |-> readyTasks, timed |-> timerTasks]
        /\ UNCHANGED <<state, pos, cur, signalled, created, pool, coWait, taken, won,
                       running, timeout, timers, due, nTimers, nGo>>
    BY DEF GetAllTasks, coVars, poolVars, sigVars, timerVars
  <1>1. /\ newTasks \in 0..MaxGo /\ readyTasks \in Seq(Cos) /\ timerTasks \subseteq TimedEntry /\ MaxGo \in Nat
        /\ created \in Nat /\ nGo \in Nat
    BY Constants DEF Inv, TypeInv, TypeOK
  <1>2. batch.new = 0 /\ batch.ready = <<>> /\ batch.timed = {} /\ ~timeout /\ running = NoCo
    BY <1>0 DEF Inv, LoopInv
  <1>3. batch'.new = newTasks /\ batch'.ready = readyTasks /\ batch'.timed = timerTasks
    BY <1>0
  <1>4. TypeInv'
    <2>1. batch' \in Batches
      BY <1>0, <1>1 DEF Batches
    <2>2. newTasks' \in 0..MaxGo /\ readyTasks' \in Seq(Cos) /\ timerTasks' \subseteq TimedEntry
      BY <1>0, <1>1
    <2> QED
      BY <1>0, <1>1, <1>3, <2>1, <2>2 DEF Inv, TypeInv, TypeOK
  <1>5. LoopInv'
    BY <1>0, <1>2 DEF Inv, LoopInv
  <1>6. PoolInv'
    <2>1. created + newTasks' + batch'.new <= nGo
      BY <1>0, <1>1, <1>2, <1>3 DEF Inv, PoolInv
    <2> QED
      BY <1>0, <2>1 DEF Inv, PoolInv
  <1>7. StateInv' /\ TimerInv' /\ EntryInv'
    BY <1>0 DEF Inv, StateInv, TimerInv, EntryInv
  <1>8. WonInv'
    BY <1>0 DEF Inv, WonInv, BySignal
  <1>9. QueueInv'
    BY <1>0, <1>3 DEF Inv, QueueInv, BySignal
  <1>10. ASSUME NEW c \in Cos PROVE Resumes(c)' = Resumes(c)
    <2>1. Winners(c)' = Winners(c)
      BY <1>0 DEF Winners
    <2>2. /\ Occurrences(readyTasks, c)' = 0 /\ HasEntry(timerTasks, c)' = 0
          /\ Occurrences(batch.ready, c) = 0 /\ HasEntry(batch.timed, c) = 0
      BY <1>0, <1>2, NothingCounts
    <2>3. /\ Occurrences(batch.ready, c)' = Occurrences(readyTasks, c)
          /\ HasEntry(batch.timed, c)' = HasEntry(timerTasks, c)
      BY <1>3 DEF Occurrences, HasEntry
    <2>4. TypeInv
      BY DEF Inv
    <2>5. /\ Resumes(c)' = Cardinality(Winners(c)) + 0 + 0 + Occurrences(readyTasks, c) + HasEntry(timerTasks, c)
      BY <2>1, <2>2, <2>3 DEF Resumes, Winners
    <2> QED
      BY <2>2, <2>4, <2>5, ResumesSum
  <1>11. CountInv'
    BY <1>0, <1>10 DEF Inv, CountInv, Suspended
  <1> QED
    BY <1>4, <1>5, <1>6, <1>7, <1>8, <1>9, <1>11 DEF Inv

\* The CAS of signal().  It succeeds only for a wait that is in no queue and
\* no longer in the map.
LEMMA SignalCasInv == ASSUME Inv, NEW a \in Signallers, NEW e \in taken[a], SignalCas(a, e) PROVE Inv'
  <1> DEFINE c == e.co
  <1>0. /\ won[a] = {} /\ taken' = [taken EXCEPT ![a] = @ \ {e}]
        /\ UNCHANGED <<pos, cur, created, pool, coWait, newTasks, readyTasks, timerTasks, pc, batch,
                       running, timeout, timers, due, nTimers, nGo>>
    BY DEF SignalCas, poolVars, queueVars, loopVars, timerVars
  <1>1. /\ taken \in [Signallers -> SUBSET Entry] /\ won \in [Signallers -> SUBSET Entry] /\ c \in Cos /\ e \in Entry
        /\ state \in [Cos -> {"init", "wait", "ready"}] /\ signalled \in [Cos -> BOOLEAN]
    BY DEF Inv, TypeInv, TypeOK, Entry
  <1>2. taken' \in [Signallers -> SUBSET Entry] /\ taken'[a] = taken[a] \ {e} /\ \A b \in Signallers : b # a => taken'[b] = taken[b]
    BY <1>0, <1>1
  <1>3. \A b \in Signallers : \A f \in taken'[b] : f \in taken[b]
    BY <1>2
  <1>4. \A d \in Cos : (\E b \in Signallers : \E f \in taken[b] : f.co = d /\ f.id = cur[d]) =>
            d = c \/ \E b \in Signallers : \E f \in taken'[b] : f.co = d /\ f.id = cur[d]
    BY <1>2
  <1> HIDE DEF c
  <1>5. LoopInv' /\ PoolInv'
    BY <1>0 DEF Inv, LoopInv, PoolInv
  <1>6. CASE state[c] # "wait"
    <2>0. UNCHANGED <<state, signalled, won>>
      BY <1>6 DEF SignalCas, c
    <2>1. TypeInv'
      BY <1>0, <1>2, <2>0 DEF Inv, TypeInv, TypeOK
    <2>2. EntryInv'
      BY <1>0, <1>3, <1>4, <1>6, <2>0 DEF Inv, EntryInv
    <2>3. QueueInv'
      BY <1>0, <2>0 DEF Inv, QueueInv, BySignal, ByTimeout
    <2> QED
      BY <1>0, <1>5, <2>0, <2>1, <2>2, <2>3, QuietInv
  <1>7. CASE state[c] = "wait"
    <2>0. /\ state' = [state EXCEPT ![c] = "ready"] /\ signalled' = [signalled EXCEPT ![c] = TRUE]
          /\ won' = [won EXCEPT ![a] = {e}]
      BY <1>7 DEF SignalCas, c
    <2>1. /\ state'[c] = "ready" /\ signalled'[c] = TRUE /\ won'[a] = {e}
          /\ \A d \in Cos : d # c => state'[d] = state[d] /\ signalled'[d] = signalled[d]
          /\ \A b \in Signallers : b # a => won'[b] = won[b]
      BY <1>1, <2>0
    <2>2. pos[c] \in {"wait", "twait"} /\ e.id = cur[c] /\ \A f \in coWait : f.co # c
      <3>1. pos[c] \notin {"enter", "tenter"} /\ e.id = cur[c] /\ \A f \in coWait : f.co # c
        BY <1>7 DEF Inv, EntryInv, c
      <3>2. pos[c] \in Positions /\ pos[c] \notin {"free", "run", "sleep"}
        BY <1>1, <1>7 DEF Inv, StateInv, TypeInv, TypeOK
      <3> QED
        BY <3>1, <3>2 DEF Positions
    <2>3. TypeInv'
      <3>1. /\ state' \in [Cos -> {"init", "wait", "ready"}] /\ signalled' \in [Cos -> BOOLEAN]
            /\ won' \in [Signallers -> SUBSET Entry]
        BY <1>1, <2>0
      <3> QED
        BY <1>0, <1>2, <3>1 DEF Inv, TypeInv, TypeOK
    <2>4. StateInv'
      BY <1>0, <2>1, <2>2 DEF Inv, StateInv
    <2>5. TimerInv'
      BY <1>0, <1>7, <2>1 DEF Inv, TimerInv
    <2>6. EntryInv'
      <3>1. \A f \in coWait : f.co \in Cos /\ f.co # c
        BY <2>2 DEF Inv, TypeInv, TypeOK, Entry
      <3>2. \A b \in Signallers : \A f \in taken[b] : f.co \in Cos
        BY DEF Inv, TypeInv, TypeOK, Entry
      <3>3. \A f \in coWait' : pos'[f.co] \in {"wait", "twait"} /\ f.id = cur'[f.co] /\ ~signalled'[f.co]
        BY <1>0, <2>1, <3>1 DEF Inv, EntryInv
      <3>4. \A b \in Signallers : \A f \in taken'[b] :
              /\ pos'[f.co] \notin {"enter", "tenter"} /\ (state'[f.co] = "wait" => f.id = cur'[f.co])
              /\ \A g \in coWait' : g.co # f.co
        BY <1>0, <1>3, <2>1, <3>2 DEF Inv, EntryInv
      <3>5. \A d \in Cos : pos'[d] \in {"wait", "twait"} /\ state'[d] = "wait" =>
              \/ \E f \in coWait' : f.co = d
              \/ \E b \in Signallers : \E f \in taken'[b] : f.co = d /\ f.id = cur'[d]
        BY <1>0, <1>4, <2>1 DEF Inv, EntryInv
      <3> QED
        BY <3>3, <3>4, <3>5 DEF EntryInv
    <2>7. WonInv'
      <3>1. \A b \in Signallers : \A f \in won[b] : f.co # c /\ f.co \in Cos
        BY <1>1, <1>7 DEF Inv, WonInv, BySignal, Entry
      <3>2. ASSUME NEW b \in Signallers, b # a
            PROVE  (\A f \in won'[b] : BySignal(f.co)' /\ f.id = cur'[f.co]) /\ (\A f, g \in won'[b] : f = g)
        BY <1>0, <2>1, <3>1, <3>2 DEF Inv, WonInv, BySignal
      <3>3. (\A f \in won'[a] : BySignal(f.co)' /\ f.id = cur'[f.co]) /\ (\A f, g \in won'[a] : f = g)
        BY <1>0, <2>1, <2>2 DEF BySignal, c
      <3> QED
        BY <3>2, <3>3 DEF WonInv
    <2>8. QueueInv'
      <3>1. /\ \A i \in 1..Len(readyTasks) : readyTasks[i] # c /\ readyTasks[i] \in Cos
            /\ \A f \in timerTasks \cup batch.timed : f.co # c /\ f.co \in Cos
            /\ \A i \in 1..Len(batch.ready) : batch.ready[i] # c /\ batch.ready[i] \in Cos
        <4>1. /\ \A i \in 1..Len(readyTasks) : readyTasks[i] \in Cos
              /\ \A f \in timerTasks \cup batch.timed : f.co \in Cos
              /\ \A i \in 1..Len(batch.ready) : batch.ready[i] \in Cos
          BY DEF Inv, TypeInv, TypeOK, TimedEntry
        <4>2. \A d : BySignal(d) \/ ByTimeout(d) => d # c
          BY <1>7 DEF BySignal, ByTimeout
        <4>3. /\ \A i \in 1..Len(readyTasks) : BySignal(readyTasks[i])
              /\ \A f \in timerTasks \cup batch.timed : BySignal(f.co)
              /\ \A i \in 1..Len(batch.ready) : BySignal(batch.ready[i]) \/ ByTimeout(batch.ready[i])
          BY DEF Inv, QueueInv
        <4> QED
          BY <4>1, <4>2, <4>3
      <3> QED
        BY <1>0, <2>1, <3>1 DEF Inv, QueueInv, BySignal, ByTimeout
    <2>9. ASSUME NEW d \in Cos PROVE Resumes(d)' = IF d = c THEN 1 ELSE Resumes(d)
      <3>1. CASE d # c
        <4>1. Winners(d)' = Winners(d)
          BY <1>0, <2>1, <3>1 DEF Winners, c
        <4> QED
          BY <1>0, <3>1, <4>1 DEF Resumes, Winners
      <3>2. CASE d = c
        <4>1. Winners(c)' = Winners(c) \cup {a} /\ a \notin Winners(c)
          BY <1>0, <2>1 DEF Winners, c
        <4>2. Cardinality(Winners(c)') = Cardinality(Winners(c)) + 1
          BY <4>1, WinnersType, FS_AddElement
        <4>3. Resumes(c) = 0
          BY <1>1, <1>7, <2>2 DEF Inv, CountInv
        <4>4. TypeInv
          BY DEF Inv
        <4>5. Resumes(c)' = Cardinality(Winners(c)') + Occurrences(readyTasks, c) + HasEntry(timerTasks, c)
                           + Occurrences(batch.ready, c) + HasEntry(batch.timed, c)
          BY <1>0 DEF Resumes, Winners
        <4> QED
          BY <1>1, <3>2, <4>2, <4>3, <4>4, <4>5, ResumesSum, SMTT(30)
      <3> QED
        BY <3>1, <3>2
    <2>10. CountInv'
      <3> SUFFICES ASSUME NEW d \in Cos
                   PROVE  /\ pos'[d] \in {"wait", "twait"} => Resumes(d)' = IF state'[d] = "wait" THEN 0 ELSE 1
                          /\ ~Suspended(d)' => Resumes(d)' = 0
                          /\ pos'[d] = "sleep" => Resumes(d)' = IF \E i \in DOMAIN timers' : timers'[i] = d THEN 0 ELSE 1
        BY DEF CountInv
      <3>1. CASE d = c
        BY <1>0, <2>1, <2>2, <2>9, <3>1 DEF Suspended
      <3>2. CASE d # c
        BY <1>0, <2>1, <2>9, <3>2 DEF Inv, CountInv, Suspended
      <3> QED
        BY <3>1, <3>2
    <2> QED
      BY <1>5, <2>3, <2>4, <2>5, <2>6, <2>7, <2>8, <2>10 DEF Inv
  <1> QED
    BY <1>6, <1>7

\* The coroutine goes from the signaller to a queue of the scheduler.
LEMMA SignalAddInv == ASSUME Inv, NEW a \in Signallers, SignalAdd(a) PROVE Inv'
  <1>0. PICK e \in won[a] : IF e.id # NoTimer
                            THEN timerTasks' = Insert(timerTasks, e) /\ UNCHANGED readyTasks
                            ELSE readyTasks' = Append(readyTasks, e.co) /\ UNCHANGED timerTasks
    BY DEF SignalAdd
  <1> DEFINE c == e.co
  <1>1. /\ won' = [won EXCEPT ![a] = {}]
        /\ UNCHANGED <<state, pos, cur, signalled, created, pool, coWait, taken, newTasks, pc, batch,
                       running, timeout, timers, due, nTimers, nGo>>
    BY DEF SignalAdd, coVars, poolVars, loopVars, timerVars
  <1>2. /\ won \in [Signallers -> SUBSET Entry] /\ c \in Cos /\ e \in Entry /\ e.id \in Timers \cup {NoTimer}
        /\ readyTasks \in Seq(Cos) /\ timerTasks \subseteq TimedEntry /\ batch \in Batches
    BY DEF Inv, TypeInv, TypeOK, Entry
  <1>3. won'[a] = {} /\ (\A b \in Signallers : b # a => won'[b] = won[b]) /\ won' \in [Signallers -> SUBSET Entry]
    BY <1>1, <1>2
  <1>4. BySignal(c) /\ e.id = cur[c] /\ won[a] = {e}
    BY DEF Inv, WonInv
  <1>5. (e.id # NoTimer => pos[c] = "twait") /\ (e.id = NoTimer => pos[c] = "wait")
    BY <1>2, <1>4 DEF BySignal, Inv, StateInv
  <1>6. Winners(c)' = Winners(c) \ {a} /\ a \in Winners(c)
    BY <1>3 DEF Winners
  <1>7. \A d \in Cos : d # c => Winners(d)' = Winners(d)
    BY <1>3, <1>4 DEF Winners
  <1>8. Cardinality(Winners(c)') = Cardinality(Winners(c)) - 1 /\ Cardinality(Winners(c)) \in Nat /\ Cardinality(Winners(c)) # 0
    <2>1. IsFiniteSet(Winners(c)) /\ Cardinality(Winners(c)) \in Nat
      BY WinnersType
    <2>2. Cardinality(Winners(c)) # 0
      BY <1>6, <2>1, FS_EmptySet
    <2> QED
      BY <1>6, <2>1, <2>2, FS_RemoveElement
  <1>9. Resumes(c) = 1
    BY <1>2, <1>4 DEF BySignal, Inv, CountInv
  <1> HIDE DEF c
  <1>10. TypeInv
    BY DEF Inv
  <1>11. HasEntry(timerTasks, c) = 0
    <2>1. /\ Resumes(c) = Cardinality(Winners(c)) + Occurrences(readyTasks, c) + HasEntry(timerTasks, c)
                           + Occurrences(batch.ready, c) + HasEntry(batch.timed, c)
          /\ Occurrences(readyTasks, c) \in Nat /\ HasEntry(timerTasks, c) \in 0..1
          /\ Occurrences(batch.ready, c) \in Nat /\ HasEntry(batch.timed, c) \in 0..1
      BY <1>2, <1>10, ResumesSum DEF c
    <2> QED
      BY <1>8, <1>9, <2>1
  <1>12. ASSUME e.id # NoTimer PROVE TypeInv' /\ QueueInv' /\ \A d \in Cos : Resumes(d)' = Resumes(d)
    <2>1. timerTasks' = timerTasks \cup {e} /\ UNCHANGED readyTasks
      BY <1>0, <1>11, <1>12 DEF Insert, HasEntry, c
    <2>2. TypeInv'
      <3>1. timerTasks' \subseteq TimedEntry
        BY <1>2, <1>12, <2>1 DEF Entry, TimedEntry
      <3> QED
        BY <1>1, <1>3, <2>1, <3>1 DEF Inv, TypeInv, TypeOK
    <2>3. QueueInv'
      <3>1. BySignal(c)' /\ pos'[c] = "twait" /\ e.id = cur'[c]
        BY <1>1, <1>4, <1>5, <1>12 DEF BySignal
      <3>2. \A f \in timerTasks \cup batch.timed : BySignal(f.co)' /\ pos'[f.co] = "twait" /\ f.id = cur'[f.co]
        BY <1>1 DEF Inv, QueueInv, BySignal
      <3>3. \A f \in timerTasks' \cup batch'.timed : BySignal(f.co)' /\ pos'[f.co] = "twait" /\ f.id = cur'[f.co]
        BY <1>1, <2>1, <3>1, <3>2 DEF c
      <3> QED
        BY <1>1, <2>1, <3>3 DEF Inv, QueueInv, BySignal, ByTimeout
    <2>4. ASSUME NEW d \in Cos PROVE Resumes(d)' = Resumes(d)
      <3>1. Resumes(d)' = Cardinality(Winners(d)') + Occurrences(readyTasks, d) + HasEntry(timerTasks', d)
                          + Occurrences(batch.ready, d) + HasEntry(batch.timed, d)
        BY <1>1, <2>1 DEF Resumes, Winners
      <3>2. CASE d = c
        <4>1. HasEntry(timerTasks', c) = 1
          BY <2>1 DEF HasEntry, c
        <4> QED
          BY <1>2, <1>8, <1>10, <1>11, <3>1, <3>2, <4>1, ResumesSum
      <3>3. CASE d # c
        <4>1. HasEntry(timerTasks', d) = HasEntry(timerTasks, d)
          BY <2>1, <3>3 DEF HasEntry, c
        <4> QED
          BY <1>7, <1>10, <3>1, <3>3, <4>1, ResumesSum
      <3> QED
        BY <3>2, <3>3
    <2> QED
      BY <2>2, <2>3, <2>4
  <1>13. ASSUME e.id = NoTimer PROVE TypeInv' /\ QueueInv' /\ \A d \in Cos : Resumes(d)' = Resumes(d)
    <2>1. readyTasks' = Append(readyTasks, c) /\ UNCHANGED timerTasks
      BY <1>0, <1>13 DEF c
    <2>2. TypeInv'
      <3>1. readyTasks' \in Seq(Cos)
        BY <1>2, <2>1
      <3> QED
        BY <1>1, <1>3, <2>1, <3>1 DEF Inv, TypeInv, TypeOK
    <2>3. QueueInv'
      <3>1. BySignal(c) /\ pos[c] = "wait" /\ \A d : BySignal(d)' <=> BySignal(d)
        BY <1>1, <1>4, <1>5, <1>13 DEF BySignal
      <3>2. \A i \in 1..Len(readyTasks) : BySignal(readyTasks[i]) /\ pos[readyTasks[i]] = "wait"
        BY DEF Inv, QueueInv
      <3>3. \A i \in 1..Len(readyTasks') : readyTasks'[i] = c \/ (i \in 1..Len(readyTasks) /\ readyTasks'[i] = readyTasks[i])
        BY <1>2, <2>1
      <3>4. \A i \in 1..Len(readyTasks') : BySignal(readyTasks'[i]) /\ pos[readyTasks'[i]] = "wait"
        BY <3>1, <3>2, <3>3
      <3>5. \A f \in timerTasks \cup batch.timed : BySignal(f.co)' /\ pos'[f.co] = "twait" /\ f.id = cur'[f.co]
        BY <1>1 DEF Inv, QueueInv, BySignal
      <3>6. \A i \in 1..Len(batch'.ready) :
               IF pc' = "tasks" THEN BySignal(batch.ready[i])' /\ pos'[batch'.ready[i]] = "wait" ELSE ByTimeout(batch.ready[i])'
        BY <1>1 DEF Inv, QueueInv, BySignal, ByTimeout
      <3>7. \A i \in 1..Len(readyTasks') : BySignal(readyTasks[i])' /\ pos'[readyTasks'[i]] = "wait"
        BY <1>1, <3>4 DEF BySignal
      <3> QED
        BY <1>1, <2>1, <3>5, <3>6, <3>7 DEF QueueInv
    <2>4. ASSUME NEW d \in Cos PROVE Resumes(d)' = Resumes(d)
      <3>1. Resumes(d)' = Cardinality(Winners(d)') + Occurrences(readyTasks', d) + HasEntry(timerTasks, d)
                          + Occurrences(batch.ready, d) + HasEntry(batch.timed, d)
        BY <1>1, <2>1 DEF Resumes, Winners
      <3>2. CASE d = c
        <4>1. Occurrences(readyTasks', c) = Occurrences(readyTasks, c) + 1
          BY <1>2, <2>1, OccurrencesAppend
        <4> QED
          BY <1>2, <1>8, <1>10, <3>1, <3>2, <4>1, ResumesSum
      <3>3. CASE d # c
        <4>1. Occurrences(readyTasks', d) = Occurrences(readyTasks, d)
          <5>1. Occurrences(readyTasks', d) = Occurrences(readyTasks, d) + 0
            BY <1>2, <2>1, <3>3, OccurrencesAppend
          <5> QED
            BY <1>10, <5>1, ResumesSum
        <4> QED
          BY <1>7, <1>10, <3>1, <3>3, <4>1, ResumesSum
      <3> QED
        BY <3>2, <3>3
    <2> QED
      BY <2>2, <2>3, <2>4
  <1>14. TypeInv' /\ QueueInv' /\ \A d \in Cos : Resumes(d)' = Resumes(d)
    BY <1>12, <1>13
  <1>15. LoopInv' /\ PoolInv' /\ StateInv' /\ TimerInv' /\ EntryInv'
    BY <1>1 DEF Inv, LoopInv, PoolInv, StateInv, TimerInv, EntryInv
  <1>16. WonInv'
    BY <1>1, <1>3 DEF Inv, WonInv, BySignal
  <1>17. CountInv'
    BY <1>1, <1>14 DEF Inv, CountInv, Suspended
  <1> QED
    BY <1>14, <1>15, <1>16, <1>17 DEF Inv

-----------------------------------------------------------------------------
(* The steps of the loop that resume a coroutine. *)

\* What resume() needs: the coroutine is in no queue afterwards, it has no
\* timer, and if it is in the map then it takes itself out.
LEMMA ResumedInv ==
    ASSUME Inv, TypeInv', PoolInv', NEW c \in Cos, running = NoCo, pc \in {"tasks", "expired"}, Resumed(c),
           UNCHANGED <<taken, won, readyTasks, timerTasks, pc, timeout, nTimers>>,
           pc = "expired" => batch'.new = 0 /\ timeout,
           batch'.timed \subseteq batch.timed, \A e \in batch'.timed : e.co # c,
           \A i \in 1..Len(batch'.ready) : batch'.ready[i] # c /\ \E j \in 1..Len(batch.ready) : batch'.ready[i] = batch.ready[j],
           \A a \in Signallers : \A e \in won[a] : e.co # c,
           \A i \in 1..Len(readyTasks) : readyTasks[i] # c,
           \A e \in timerTasks : e.co # c,
           DOMAIN timers' \subseteq DOMAIN timers,
           \A i \in DOMAIN timers' : timers'[i] = timers[i] /\ timers[i] # c,
           \A i \in DOMAIN timers : timers[i] # c => i \in DOMAIN timers',
           \A e \in coWait : e.co = c => pos[c] = "twait" /\ timeout,
           Resumes(c)' = 0, \A d \in Cos : d # c => Resumes(d)' = Resumes(d)
    PROVE  Inv'
  <1>0. /\ running' = c /\ pos' = [pos EXCEPT ![c] = "run"] /\ cur' = cur /\ signalled' = signalled
        /\ state' = [state EXCEPT ![c] = IF pos[c] \in {"wait", "twait"} THEN "init" ELSE @]
        /\ coWait' = IF pos[c] = "twait" /\ timeout THEN {e \in coWait : e.co # c} ELSE coWait
    BY DEF Resumed
  <1>1. /\ state \in [Cos -> {"init", "wait", "ready"}] /\ pos \in [Cos -> Positions]
        /\ \A d \in Cos : pos[d] \notin {"run", "enter", "tenter"}
    <2>1. \A d \in Cos : pos[d] \in {"run", "enter", "tenter"} <=> running = d
      BY DEF Inv, LoopInv
    <2>2. \A d \in Cos : pos[d] \notin {"run", "enter", "tenter"}
      BY <2>1, Constants
    <2> QED
      BY <2>2 DEF Inv, TypeInv, TypeOK
  <1>2. /\ pos'[c] = "run" /\ state'[c] = "init"
        /\ \A d \in Cos : d # c => pos'[d] = pos[d] /\ state'[d] = state[d]
    <2>1. pos[c] \notin {"wait", "twait"} => state[c] = "init"
      BY <1>1 DEF Inv, StateInv, Positions
    <2> QED
      BY <1>0, <1>1, <2>1
  <1>3. coWait' = {e \in coWait : e.co # c}
    BY <1>0
  <1>4. LoopInv'
    <2>1. \A d \in Cos : pos'[d] \in {"run", "enter", "tenter"} <=> running' = d
      BY <1>0, <1>1, <1>2
    <2>2. pc = "expired" => batch.timed = {}
      BY DEF Inv, LoopInv
    <2>3. timeout => pc = "expired"
      BY DEF Inv, LoopInv
    <2> QED
      BY <2>1, <2>2, <2>3 DEF LoopInv
  <1>5. StateInv'
    BY <1>0, <1>2 DEF Inv, StateInv
  <1>6. TimerInv'
    <2>1. \A i \in DOMAIN timers : timers[i] \in Cos
      BY DEF Inv, TypeInv, TypeOK
    <2>2. DOMAIN timers' \subseteq 1..nTimers' /\ (\A d \in Cos : cur'[d] \in 0..nTimers')
      BY <1>0 DEF Inv, TimerInv
    <2>3. \A i \in DOMAIN timers' : \/ pos'[timers'[i]] \in {"twait", "tenter"} /\ cur'[timers'[i]] = i
                                    \/ pos'[timers'[i]] = "sleep"
      BY <1>0, <1>2, <2>1 DEF Inv, TimerInv
    <2>4. \A i, j \in DOMAIN timers' : timers'[i] = timers'[j] => i = j
      BY DEF Inv, TimerInv
    <2>5. ASSUME NEW d \in Cos, pos'[d] \in {"twait", "tenter"}
          PROVE  IF state'[d] = "init" THEN cur'[d] \notin DOMAIN timers'
                 ELSE cur'[d] \in DOMAIN timers' /\ timers'[cur'[d]] = d
      <3>1. d # c /\ pos[d] \in {"twait", "tenter"} /\ state'[d] = state[d] /\ cur'[d] = cur[d]
        BY <1>0, <1>2, <2>5
      <3>2. IF state[d] = "init" THEN cur[d] \notin DOMAIN timers ELSE cur[d] \in DOMAIN timers /\ timers[cur[d]] = d
        BY <3>1 DEF Inv, TimerInv
      <3> QED
        BY <3>1, <3>2
    <2> QED
      BY <2>2, <2>3, <2>4, <2>5 DEF TimerInv
  <1>7. EntryInv'
    <2>1. (\A e \in coWait : e.co \in Cos) /\ \A a \in Signallers : \A e \in taken[a] : e.co \in Cos
      BY DEF Inv, TypeInv, TypeOK, Entry
    <2>2. \A e \in coWait' : pos'[e.co] \in {"wait", "twait"} /\ e.id = cur'[e.co] /\ ~signalled'[e.co]
      BY <1>0, <1>2, <1>3, <2>1 DEF Inv, EntryInv
    <2>3. \A a \in Signallers : \A e \in taken'[a] :
             /\ pos'[e.co] \notin {"enter", "tenter"} /\ (state'[e.co] = "wait" => e.id = cur'[e.co])
             /\ \A f \in coWait' : f.co # e.co
      BY <1>0, <1>2, <1>3, <2>1 DEF Inv, EntryInv
    <2>4. \A d \in Cos : pos'[d] \in {"wait", "twait"} /\ state'[d] = "wait" =>
             \/ \E e \in coWait' : e.co = d
             \/ \E a \in Signallers : \E e \in taken'[a] : e.co = d /\ e.id = cur'[d]
      BY <1>0, <1>2, <1>3 DEF Inv, EntryInv
    <2> QED
      BY <2>2, <2>3, <2>4 DEF EntryInv
  <1>8. \A d \in Cos : d # c => (BySignal(d)' <=> BySignal(d)) /\ (ByTimeout(d)' <=> ByTimeout(d))
    BY <1>0, <1>2 DEF BySignal, ByTimeout
  <1>9. WonInv'
    <2>1. \A a \in Signallers : \A e \in won[a] : e.co \in Cos
      BY DEF Inv, TypeInv, TypeOK, Entry
    <2> QED
      BY <1>0, <1>8, <2>1 DEF Inv, WonInv
  <1>10. QueueInv'
    <2>1. /\ \A i \in 1..Len(readyTasks) : readyTasks[i] \in Cos
          /\ \A e \in timerTasks \cup batch.timed : e.co \in Cos
          /\ \A i \in 1..Len(batch.ready) : batch.ready[i] \in Cos
      BY SMTT(30) DEF Inv, TypeInv, TypeOK, TimedEntry
    <2>2. \A i \in 1..Len(readyTasks') : BySignal(readyTasks[i])' /\ pos'[readyTasks'[i]] = "wait"
      BY <1>2, <1>8, <2>1 DEF Inv, QueueInv, BySignal
    <2>3. \A e \in timerTasks' \cup batch'.timed : BySignal(e.co)' /\ pos'[e.co] = "twait" /\ e.id = cur'[e.co]
      BY <1>0, <1>2, <1>8, <2>1 DEF Inv, QueueInv
    <2>4. ASSUME NEW i \in 1..Len(batch'.ready)
          PROVE  IF pc' = "tasks" THEN BySignal(batch.ready[i])' /\ pos'[batch'.ready[i]] = "wait" ELSE ByTimeout(batch.ready[i])'
      <3>1. PICK j \in 1..Len(batch.ready) : batch'.ready[i] = batch.ready[j]
        BY <2>4
      <3> DEFINE d == batch.ready[j]
      <3>2. d \in Cos /\ d # c /\ batch'.ready[i] = d
        BY <2>1, <3>1, <2>4
      <3>3. IF pc = "tasks" THEN BySignal(d) /\ pos[d] = "wait" ELSE ByTimeout(d)
        BY DEF Inv, QueueInv
      <3> HIDE DEF d
      <3>4. pos'[d] = pos[d] /\ state'[d] = state[d] /\ cur'[d] = cur[d] /\ signalled'[d] = signalled[d]
        BY <1>0, <1>2, <3>2
      <3> QED
        BY <3>2, <3>3, <3>4 DEF BySignal, ByTimeout
    <2> QED
      BY <2>2, <2>3, <2>4 DEF QueueInv
  <1>11. CountInv'
    <2> SUFFICES ASSUME NEW d \in Cos
                 PROVE  /\ pos'[d] \in {"wait", "twait"} => Resumes(d)' = IF state'[d] = "wait" THEN 0 ELSE 1
                        /\ ~Suspended(d)' => Resumes(d)' = 0
                        /\ pos'[d] = "sleep" => Resumes(d)' = IF \E i \in DOMAIN timers' : timers'[i] = d THEN 0 ELSE 1
      BY DEF CountInv
    <2>1. CASE d = c
      BY <1>2, <2>1 DEF Suspended
    <2>2. CASE d # c
      <3>1. pos'[d] = pos[d] /\ state'[d] = state[d] /\ Resumes(d)' = Resumes(d)
        BY <1>2, <2>2
      <3>2. (\E i \in DOMAIN timers' : timers'[i] = d) <=> (\E i \in DOMAIN timers : timers[i] = d)
        BY <2>2
      <3> QED
        BY <3>1, <3>2 DEF Inv, CountInv, Suspended
    <2> QED
      BY <2>1, <2>2
  <1> QED
    BY <1>4, <1>5, <1>6, <1>7, <1>9, <1>10, <1>11 DEF Inv

\* The loop starts a coroutine: from the pool, or a new one.
LEMMA ResumeNewInv == ASSUME Inv, ResumeNew PROVE Inv'
  <1>0. /\ pc = "tasks" /\ running = NoCo /\ batch.new > 0 /\ batch' = [batch EXCEPT !.new = @ - 1]
        /\ UNCHANGED <<taken, won, newTasks, readyTasks, timerTasks, pc, timeout, timers, due, nTimers, nGo>>
    BY DEF ResumeNew, sigVars, queueVars, timerVars
  <1>1. /\ batch \in Batches /\ batch.new \in 0..MaxGo /\ created \in 0..MaxGo /\ newTasks \in Nat /\ nGo \in 0..MaxGo
        /\ pool \in Seq(Cos) /\ MaxGo \in Nat /\ batch.ready \in Seq(Cos) /\ batch.timed \subseteq TimedEntry
    BY Constants DEF Inv, TypeInv, TypeOK
  <1>2. batch' \in Batches /\ batch'.new = batch.new - 1 /\ batch'.ready = batch.ready /\ batch'.timed = batch.timed
    <2>1. batch'.new = batch.new - 1 /\ batch'.ready = batch.ready /\ batch'.timed = batch.timed
      BY <1>0, <1>1 DEF Batches
    <2>2. batch.new - 1 \in 0..MaxGo
      BY <1>0, <1>1
    <2> QED
      BY <1>0, <1>1, <2>1, <2>2 DEF Batches
  <1>3. created + newTasks + batch.new <= nGo
    BY DEF Inv, PoolInv
  <1>4. PICK c \in Cos :
           /\ pos[c] = "free" /\ Resumed(c) /\ pool' \in Seq(Cos) /\ created' \in 0..MaxGo /\ c <= created'
           /\ created <= created' /\ created' <= created + 1
           /\ Len(pool') <= Len(pool) /\ \A i \in 1..Len(pool') : pool'[i] = pool[i] /\ pool[i] # c
    <2>1. ASSUME pool # <<>>, pool' = Front(pool), Resumed(Last(pool)), created' = created
          PROVE  \E c \in Cos :
                   /\ pos[c] = "free" /\ Resumed(c) /\ pool' \in Seq(Cos) /\ created' \in 0..MaxGo /\ c <= created'
                   /\ created <= created' /\ created' <= created + 1
                   /\ Len(pool') <= Len(pool) /\ \A i \in 1..Len(pool') : pool'[i] = pool[i] /\ pool[i] # c
      <3> DEFINE n == Len(pool)
                 c == pool[n]
      <3>1. n \in Nat /\ n > 0 /\ c = Last(pool) /\ c \in Cos
        BY <1>1, <2>1 DEF Last
      <3>2. pool' = [i \in 1..(n - 1) |-> pool[i]]
        BY <1>1, <2>1 DEF Front
      <3>3. pool' \in Seq(Cos) /\ Len(pool') = n - 1 /\ \A i \in 1..(n - 1) : pool'[i] = pool[i]
        BY <1>1, <3>1, <3>2
      <3>4. pos[c] = "free" /\ c <= created /\ \A i \in 1..(n - 1) : pool[i] # c
        BY <3>1 DEF Inv, PoolInv
      <3> QED
        BY <1>1, <2>1, <3>1, <3>3, <3>4
    <2>2. ASSUME created' = created + 1, Resumed(created + 1), pool' = pool, pool = <<>>
          PROVE  \E c \in Cos :
                   /\ pos[c] = "free" /\ Resumed(c) /\ pool' \in Seq(Cos) /\ created' \in 0..MaxGo /\ c <= created'
                   /\ created <= created' /\ created' <= created + 1
                   /\ Len(pool') <= Len(pool) /\ \A i \in 1..Len(pool') : pool'[i] = pool[i] /\ pool[i] # c
      <3>1. created + 1 \in Cos
        BY <1>0, <1>1, <1>3, Constants, SMTT(30)
      <3>2. pos[created + 1] = "free"
        BY <1>1, <3>1 DEF Inv, PoolInv
      <3>3. created + 1 <= created' /\ created <= created' /\ created' <= created + 1 /\ created' \in 0..MaxGo
        BY <1>1, <2>2, <3>1, Constants
      <3>4. pool' \in Seq(Cos) /\ Len(pool') <= Len(pool) /\ \A i \in 1..Len(pool') : pool'[i] = pool[i] /\ pool[i] # created + 1
        BY <1>1, <2>2
      <3> QED
        BY <2>2, <3>1, <3>2, <3>3, <3>4
    <2> QED
      BY <2>1, <2>2 DEF ResumeNew
  <1>5. running' = c /\ pos' = [pos EXCEPT ![c] = "run"] /\ state' = state /\ coWait' = coWait /\ cur' = cur /\ signalled' = signalled
    BY <1>4 DEF Resumed, Inv, TypeInv, TypeOK
  <1>6. TypeInv'
    <2>1. pos' \in [Cos -> Positions] /\ running' \in Cos \cup {NoCo}
      BY <1>5 DEF Inv, TypeInv, TypeOK, Positions
    <2> QED
      BY <1>0, <1>1, <1>2, <1>4, <1>5, <2>1 DEF Inv, TypeInv, TypeOK, Batches
  <1>7. PoolInv'
    <2>1. pos'[c] = "run" /\ \A d \in Cos : d # c => pos'[d] = pos[d]
      BY <1>5 DEF Inv, TypeInv, TypeOK
    <2>2. created' + newTasks' + batch'.new <= nGo'
      BY <1>0, <1>1, <1>2, <1>3, <1>4
    <2>3. \A d \in Cos : d > created' => d # c /\ d > created
      BY <1>1, <1>4, Constants
    <2>4. Len(pool') \in Nat /\ Len(pool) \in Nat /\ \A i \in 1..Len(pool') : i \in 1..Len(pool) /\ pool[i] \in Cos
      BY <1>1, <1>4
    <2>5. \A i \in 1..Len(pool') : pos'[pool'[i]] = "free" /\ pool'[i] <= created
      BY <1>4, <2>1, <2>4 DEF Inv, PoolInv
    <2>6. \A i \in 1..Len(pool') : pool'[i] <= created'
      BY <1>1, <1>4, <2>4, <2>5, Constants, SMTT(30)
    <2>7. \A i, j \in 1..Len(pool') : pool'[i] = pool'[j] => i = j
      BY <1>4, <2>4 DEF Inv, PoolInv
    <2> QED
      BY <2>1, <2>2, <2>3, <2>5, <2>6, <2>7 DEF Inv, PoolInv
  <1>8. /\ \A e \in coWait : e.co # c
        /\ \A a \in Signallers : \A e \in won[a] : e.co # c
        /\ \A i \in 1..Len(readyTasks) : readyTasks[i] # c
        /\ \A e \in timerTasks \cup batch.timed : e.co # c
        /\ \A i \in 1..Len(batch.ready) : batch.ready[i] # c
    BY <1>4 DEF Inv, EntryInv, WonInv, QueueInv, BySignal, ByTimeout
  <1>9. \A i \in DOMAIN timers : timers[i] # c
    BY <1>4 DEF Inv, TimerInv
  <1>10. Resumes(c) = 0 /\ \A d \in Cos : Resumes(d)' = Resumes(d)
    BY <1>0, <1>2, <1>4, SameResumes DEF Inv, CountInv, Suspended
  <1> QED
    BY <1>0, <1>2, <1>4, <1>6, <1>7, <1>8, <1>9, <1>10, ResumedInv

\* The first task of the loop is there once, and nowhere else.
LEMMA HeadOnce ==
    ASSUME Inv, batch.ready # <<>>, pc \in {"tasks", "expired"}, NEW c, c = Head(batch.ready)
    PROVE  /\ c \in Cos /\ Resumes(c) = 1 /\ Suspended(c)
           /\ \A i \in DOMAIN timers : timers[i] # c
           /\ \A a \in Signallers : \A e \in won[a] : e.co # c
           /\ \A i \in 1..Len(readyTasks) : readyTasks[i] # c
           /\ \A e \in timerTasks \cup batch.timed : e.co # c
           /\ \A i \in 1..Len(Tail(batch.ready)) : Tail(batch.ready)[i] # c
           /\ \A e \in coWait : e.co = c => pos[c] = "twait" /\ timeout
  <1>1. TypeInv /\ batch.ready \in Seq(Cos) /\ readyTasks \in Seq(Cos)
    BY DEF Inv, TypeInv, TypeOK
  <1>2. c \in Cos /\ c = batch.ready[1] /\ 1 \in 1..Len(batch.ready) /\ Tail(batch.ready) \in Seq(Cos)
    BY <1>1
  <1>3. IF pc = "tasks" THEN BySignal(c) /\ pos[c] = "wait" ELSE ByTimeout(c)
    BY <1>2 DEF Inv, QueueInv
  <1>4. Occurrences(batch.ready, c) = Occurrences(Tail(batch.ready), c) + 1 /\ Occurrences(Tail(batch.ready), c) \in Nat
    <2>1. Occurrences(batch.ready, c) = Occurrences(Tail(batch.ready), c) + 1
      BY <1>1, OccurrencesTail
    <2> QED
      BY <1>2, <2>1, OccurrencesType
  <1>5. /\ Resumes(c) = Cardinality(Winners(c)) + Occurrences(readyTasks, c) + HasEntry(timerTasks, c)
                         + Occurrences(batch.ready, c) + HasEntry(batch.timed, c)
        /\ Cardinality(Winners(c)) \in Nat /\ Occurrences(readyTasks, c) \in Nat
        /\ HasEntry(timerTasks, c) \in 0..1 /\ HasEntry(batch.timed, c) \in 0..1
    BY <1>1, <1>2, ResumesSum
  <1>6. Resumes(c) # 0
    BY <1>4, <1>5
  <1>7. Suspended(c) /\ Resumes(c) = 1
    BY <1>2, <1>6 DEF Inv, CountInv, Suspended
  <1>8. /\ Cardinality(Winners(c)) = 0 /\ Occurrences(readyTasks, c) = 0 /\ HasEntry(timerTasks, c) = 0
        /\ HasEntry(batch.timed, c) = 0 /\ Occurrences(Tail(batch.ready), c) = 0
    BY <1>4, <1>5, <1>7
  <1>9. /\ \A a \in Signallers : \A e \in won[a] : e.co # c
        /\ \A e \in timerTasks \cup batch.timed : e.co # c
    BY <1>8, WinnersType DEF HasEntry
  <1>10. /\ \A i \in 1..Len(readyTasks) : readyTasks[i] # c
         /\ \A i \in 1..Len(Tail(batch.ready)) : Tail(batch.ready)[i] # c
    BY <1>1, <1>2, <1>8, OccurrencesType
  <1>11. \A i \in DOMAIN timers : timers[i] # c
    <2> SUFFICES ASSUME NEW i \in DOMAIN timers, timers[i] = c PROVE FALSE
      OBVIOUS
    <2>1. (pos[c] \in {"twait", "tenter"} /\ cur[c] = i) \/ pos[c] = "sleep"
      BY DEF Inv, TimerInv
    <2>2. ByTimeout(c)
      BY <1>3, <2>1
    <2>3. CASE pos[c] = "sleep"
      BY <1>2, <1>7, <2>3 DEF Inv, CountInv
    <2>4. CASE pos[c] = "twait" /\ cur[c] = i
      BY <1>2, <2>2, <2>4 DEF Inv, TimerInv, ByTimeout
    <2> QED
      BY <2>1, <2>2, <2>3, <2>4 DEF ByTimeout
  <1>12. \A e \in coWait : e.co = c => pos[c] = "twait" /\ timeout
    <2> SUFFICES ASSUME NEW e \in coWait, e.co = c PROVE pos[c] = "twait" /\ timeout
      OBVIOUS
    <2>1. pos[c] \in {"wait", "twait"} /\ ~signalled[c]
      BY DEF Inv, EntryInv
    <2>2. pc = "expired" /\ ByTimeout(c)
      BY <1>3, <2>1 DEF BySignal
    <2> QED
      BY <2>1, <2>2 DEF ByTimeout, Inv, LoopInv
  <1> QED
    BY <1>2, <1>7, <1>9, <1>10, <1>11, <1>12

\* It is resumed, after a signal or a timeout.
LEMMA ResumeHeadInv == ASSUME Inv, ResumeReady \/ ResumeExpired PROVE Inv'
  <1> DEFINE c == Head(batch.ready)
  <1>0. /\ pc \in {"tasks", "expired"} /\ running = NoCo /\ batch.ready # <<>> /\ batch' = [batch EXCEPT !.ready = Tail(@)]
        /\ Resumed(c)
        /\ UNCHANGED <<created, pool, taken, won, newTasks, readyTasks, timerTasks, pc, timeout, timers, due, nTimers, nGo>>
    BY DEF ResumeReady, ResumeExpired, poolVars, sigVars, queueVars, timerVars
  <1> HIDE DEF c
  <1>1. batch \in Batches /\ batch.ready \in Seq(Cos) /\ TypeInv /\ pos \in [Cos -> Positions]
    BY DEF Inv, TypeInv, TypeOK
  <1>2. batch' \in Batches /\ batch'.new = batch.new /\ batch'.ready = Tail(batch.ready) /\ batch'.timed = batch.timed
    <2>1. batch'.new = batch.new /\ batch'.ready = Tail(batch.ready) /\ batch'.timed = batch.timed
      BY <1>0, <1>1 DEF Batches
    <2>2. Tail(batch.ready) \in Seq(Cos)
      BY <1>0, <1>1
    <2> QED
      BY <1>0, <1>1, <2>1, <2>2 DEF Batches
  <1>3. /\ c \in Cos /\ Resumes(c) = 1 /\ Suspended(c)
        /\ \A i \in DOMAIN timers : timers[i] # c
        /\ \A a \in Signallers : \A e \in won[a] : e.co # c
        /\ \A i \in 1..Len(readyTasks) : readyTasks[i] # c
        /\ \A e \in timerTasks \cup batch.timed : e.co # c
        /\ \A i \in 1..Len(batch'.ready) : batch'.ready[i] # c
        /\ \A e \in coWait : e.co = c => pos[c] = "twait" /\ timeout
    BY <1>0, <1>2, HeadOnce DEF c
  <1>4. /\ running' = c /\ pos' = [pos EXCEPT ![c] = "run"] /\ cur' = cur /\ signalled' = signalled
        /\ state' = [state EXCEPT ![c] = IF pos[c] \in {"wait", "twait"} THEN "init" ELSE @]
        /\ coWait' = IF pos[c] = "twait" /\ timeout THEN {e \in coWait : e.co # c} ELSE coWait
    BY <1>0 DEF Resumed
  <1>5. TypeInv'
    <2>1. /\ pos' \in [Cos -> Positions] /\ running' \in Cos \cup {NoCo} /\ coWait' \subseteq Entry
          /\ state' \in [Cos -> {"init", "wait", "ready"}]
      BY <1>3, <1>4 DEF Inv, TypeInv, TypeOK, Positions
    <2> QED
      BY <1>0, <1>2, <1>4, <2>1 DEF Inv, TypeInv, TypeOK, Batches
  <1>6. PoolInv'
    <2>1. pos'[c] = "run" /\ pos[c] # "free" /\ \A d \in Cos : d # c => pos'[d] = pos[d]
      BY <1>1, <1>3, <1>4 DEF Suspended
    <2>2. \A i \in 1..Len(pool) : pool[i] \in Cos
      BY DEF Inv, TypeInv, TypeOK
    <2> QED
      BY <1>0, <1>2, <2>1, <2>2 DEF Inv, PoolInv
  <1>7. \A i \in 1..Len(batch'.ready) : \E j \in 1..Len(batch.ready) : batch'.ready[i] = batch.ready[j]
    <2>1. \A i \in 1..Len(Tail(batch.ready)) : i + 1 \in 1..Len(batch.ready) /\ Tail(batch.ready)[i] = batch.ready[i + 1]
      BY <1>0, <1>1
    <2> QED
      BY <1>2, <2>1
  <1>8. ASSUME NEW d \in Cos PROVE Resumes(d)' = IF d = c THEN 0 ELSE Resumes(d)
    <2>1. Resumes(d)' = Cardinality(Winners(d)) + Occurrences(readyTasks, d) + HasEntry(timerTasks, d)
                        + Occurrences(Tail(batch.ready), d) + HasEntry(batch.timed, d)
      BY <1>0, <1>2 DEF Resumes, Winners
    <2>2. Occurrences(batch.ready, d) = Occurrences(Tail(batch.ready), d) + (IF d = c THEN 1 ELSE 0)
      BY <1>0, <1>1, OccurrencesTail DEF c
    <2>3. Tail(batch.ready) \in Seq(Cos)
      BY <1>0, <1>1
    <2>4. Occurrences(Tail(batch.ready), d) \in Nat
      BY <2>3, OccurrencesType
    <2>5. /\ Resumes(d) = Cardinality(Winners(d)) + Occurrences(readyTasks, d) + HasEntry(timerTasks, d)
                           + Occurrences(batch.ready, d) + HasEntry(batch.timed, d)
          /\ Cardinality(Winners(d)) \in Nat /\ Occurrences(readyTasks, d) \in Nat
          /\ HasEntry(timerTasks, d) \in 0..1 /\ HasEntry(batch.timed, d) \in 0..1
      BY <1>1, ResumesSum
    <2>6. CASE d = c
      BY <1>3, <2>1, <2>2, <2>4, <2>5, <2>6
    <2>7. CASE d # c
      BY <2>1, <2>2, <2>4, <2>5, <2>7
    <2> QED
      BY <2>6, <2>7
  <1>9. pc = "expired" => batch'.new = 0 /\ timeout
    BY <1>0, <1>2 DEF Inv, LoopInv
  <1> QED
    BY <1>0, <1>2, <1>3, <1>5, <1>6, <1>7, <1>8, <1>9, ResumedInv

\* A timed wait is resumed after a signal; its timer is deleted, unless
\* check_timeout did so.
LEMMA ResumeReadyTimerInv == ASSUME Inv, ResumeReadyTimer PROVE Inv'
  <1>0. /\ pc = "tasks" /\ running = NoCo
        /\ UNCHANGED <<created, pool, taken, won, newTasks, readyTasks, timerTasks, pc, timeout, nTimers, nGo>>
    BY DEF ResumeReadyTimer, poolVars, sigVars, queueVars
  <1>1. PICK e \in batch.timed :
          /\ batch' = [batch EXCEPT !.timed = @ \ {e}]
          /\ IF state[e.co] = "ready" THEN timers' = WithoutTimer(e.id) /\ due' = due \ {e.id} ELSE UNCHANGED <<timers, due>>
          /\ Resumed(e.co)
    BY DEF ResumeReadyTimer
  <1> DEFINE c == e.co
  <1>2. /\ batch \in Batches /\ TypeInv /\ pos \in [Cos -> Positions] /\ c \in Cos /\ e \in TimedEntry
        /\ batch.timed \subseteq TimedEntry /\ state \in [Cos -> {"init", "wait", "ready"}]
        /\ DOMAIN timers \subseteq Timers /\ (\A i \in DOMAIN timers : timers[i] \in Cos) /\ due \subseteq DOMAIN timers
    BY DEF Inv, TypeInv, TypeOK, TimedEntry
  <1>3. batch' \in Batches /\ batch'.new = batch.new /\ batch'.ready = batch.ready /\ batch'.timed = batch.timed \ {e}
    BY <1>1, <1>2 DEF Batches
  <1>4. BySignal(c) /\ pos[c] = "twait" /\ e.id = cur[c] /\ \A f \in batch.timed : f.co = c => f.id = cur[c]
    BY DEF Inv, QueueInv
  <1>5. \A f \in batch'.timed : f.co # c
    BY <1>2, <1>3, <1>4 DEF TimedEntry
  <1>6. Resumes(c) = 1
    BY <1>2, <1>4 DEF BySignal, Inv, CountInv
  <1>7. HasEntry(batch.timed, c) = 1 /\ HasEntry(batch'.timed, c) = 0
    BY <1>5 DEF HasEntry
  <1>T. /\ DOMAIN timers' \subseteq DOMAIN timers /\ due' \subseteq DOMAIN timers'
        /\ \A i \in DOMAIN timers' : timers'[i] = timers[i] /\ timers[i] # c
        /\ \A i \in DOMAIN timers : timers[i] # c => i \in DOMAIN timers'
    <2>1. \A i \in DOMAIN timers : timers[i] = c => i = e.id
      BY <1>4 DEF Inv, TimerInv
    <2>2. CASE state[c] = "ready"
      <3>1. timers' = [i \in DOMAIN timers \ {e.id} |-> timers[i]] /\ due' = due \ {e.id}
        BY <1>1, <2>2 DEF WithoutTimer
      <3>2. e.id \in DOMAIN timers /\ timers[e.id] = c
        BY <1>2, <1>4, <2>2 DEF Inv, TimerInv
      <3> QED
        BY <1>2, <2>1, <3>1, <3>2
    <2>3. CASE state[c] # "ready"
      <3>1. UNCHANGED <<timers, due>>
        BY <1>1, <2>3
      <3>2. state[c] = "init"
        BY <1>2, <1>4, <2>3 DEF BySignal
      <3>3. e.id \notin DOMAIN timers
        BY <1>2, <1>4, <3>2 DEF Inv, TimerInv
      <3> QED
        BY <1>2, <2>1, <3>1, <3>3
    <2> QED
      BY <2>2, <2>3
  <1>R. Resumed(c)
    BY <1>1
  <1> HIDE DEF c
  <1>8. /\ Resumes(c) = Cardinality(Winners(c)) + Occurrences(readyTasks, c) + HasEntry(timerTasks, c)
                         + Occurrences(batch.ready, c) + HasEntry(batch.timed, c)
        /\ Cardinality(Winners(c)) \in Nat /\ Occurrences(readyTasks, c) \in Nat
        /\ HasEntry(timerTasks, c) \in 0..1 /\ Occurrences(batch.ready, c) \in Nat
    BY <1>2, ResumesSum
  <1>9. /\ Cardinality(Winners(c)) = 0 /\ Occurrences(readyTasks, c) = 0 /\ HasEntry(timerTasks, c) = 0
        /\ Occurrences(batch.ready, c) = 0
    BY <1>6, <1>7, <1>8
  <1>10. /\ \A a \in Signallers : \A f \in won[a] : f.co # c
         /\ \A f \in timerTasks : f.co # c
    BY <1>9, WinnersType DEF HasEntry
  <1>11. /\ \A i \in 1..Len(readyTasks) : readyTasks[i] # c
         /\ \A i \in 1..Len(batch.ready) : batch.ready[i] # c
    <2>1. readyTasks \in Seq(Cos) /\ batch.ready \in Seq(Cos)
      BY DEF Inv, TypeInv, TypeOK
    <2> QED
      BY <1>9, <2>1, OccurrencesType
  <1>12. \A f \in coWait : f.co # c
    BY <1>4 DEF Inv, EntryInv, BySignal
  <1>13. ASSUME NEW d \in Cos PROVE Resumes(d)' = IF d = c THEN 0 ELSE Resumes(d)
    <2>1. Resumes(d)' = Cardinality(Winners(d)) + Occurrences(readyTasks, d) + HasEntry(timerTasks, d)
                        + Occurrences(batch.ready, d) + HasEntry(batch'.timed, d)
      BY <1>0, <1>3 DEF Resumes, Winners
    <2>2. CASE d = c
      BY <1>7, <1>9, <2>1, <2>2
    <2>3. CASE d # c
      <3>1. HasEntry(batch'.timed, d) = HasEntry(batch.timed, d)
        BY <1>3, <2>3 DEF HasEntry, c
      <3> QED
        BY <1>2, <2>1, <2>3, <3>1, ResumesSum
    <2> QED
      BY <2>2, <2>3
  <1>14. /\ running' = c /\ pos' = [pos EXCEPT ![c] = "run"] /\ cur' = cur /\ signalled' = signalled
         /\ state' = [state EXCEPT ![c] = IF pos[c] \in {"wait", "twait"} THEN "init" ELSE @]
         /\ coWait' = IF pos[c] = "twait" /\ timeout THEN {f \in coWait : f.co # c} ELSE coWait
    BY <1>R DEF Resumed
  <1>15. TypeInv'
    <2>1. /\ pos' \in [Cos -> Positions] /\ running' \in Cos \cup {NoCo} /\ coWait' \subseteq Entry
          /\ state' \in [Cos -> {"init", "wait", "ready"}]
      BY <1>2, <1>14 DEF Inv, TypeInv, TypeOK, Positions
    <2>2. DOMAIN timers' \subseteq Timers /\ \A i \in DOMAIN timers' : timers'[i] \in Cos
      BY <1>2, <1>T
    <2> QED
      BY <1>0, <1>3, <1>14, <1>T, <2>1, <2>2 DEF Inv, TypeInv, TypeOK, Batches
  <1>16. PoolInv'
    <2>1. pos'[c] = "run" /\ pos[c] # "free" /\ \A d \in Cos : d # c => pos'[d] = pos[d]
      BY <1>2, <1>4, <1>14
    <2>2. \A i \in 1..Len(pool) : pool[i] \in Cos
      BY DEF Inv, TypeInv, TypeOK
    <2> QED
      BY <1>0, <1>3, <2>1, <2>2 DEF Inv, PoolInv
  <1> QED
    BY <1>0, <1>2, <1>3, <1>5, <1>R, <1>T, <1>10, <1>11, <1>12, <1>13, <1>15, <1>16, ResumedInv

\* check_timeout: the swap of the state decides against signal().
LEMMA CheckTimerInv == ASSUME Inv, NEW id \in due, CheckTimer(id) PROVE Inv'
  <1> DEFINE c == timers[id]
  <1>0. /\ pc = "check"
        /\ batch' = IF state[c] \in {"init", "wait"} THEN [batch EXCEPT !.ready = Append(@, c)] ELSE batch
        /\ state' = [state EXCEPT ![c] = "init"]
        /\ timers' = [i \in DOMAIN timers \ {id} |-> timers[i]] /\ due' = due \ {id}
        /\ UNCHANGED <<pos, cur, signalled, created, pool, coWait, taken, won, newTasks, readyTasks, timerTasks,
                       pc, running, timeout, nTimers, nGo>>
    BY DEF CheckTimer, WithoutTimer, poolVars, sigVars, queueVars
  <1>1. /\ batch \in Batches /\ TypeInv /\ pos \in [Cos -> Positions] /\ id \in DOMAIN timers /\ c \in Cos
        /\ batch.ready \in Seq(Cos) /\ state \in [Cos -> {"init", "wait", "ready"}]
    BY DEF Inv, TypeInv, TypeOK
  <1>2. running = NoCo /\ \A d \in Cos : pos[d] \notin {"run", "enter", "tenter"}
    <2>1. running = NoCo /\ \A d \in Cos : pos[d] \in {"run", "enter", "tenter"} <=> running = d
      BY <1>0 DEF Inv, LoopInv
    <2> QED
      BY <2>1, Constants
  <1>3. (pos[c] = "twait" /\ cur[c] = id) \/ pos[c] = "sleep"
    BY <1>1, <1>2 DEF Inv, TimerInv
  <1>4. /\ state[c] = "init" => pos[c] = "sleep"
        /\ pos[c] = "sleep" => state[c] = "init"
        /\ state[c] = "wait" => ~signalled[c]
        /\ state[c] = "ready" => signalled[c]
    <2>1. pos[c] = "twait" => state[c] # "init"
      BY <1>1, <1>3 DEF Inv, TimerInv
    <2> QED
      BY <1>1, <1>3, <2>1 DEF Inv, StateInv
  <1>T. /\ DOMAIN timers' = DOMAIN timers \ {id}
        /\ \A i \in DOMAIN timers' : timers'[i] = timers[i] /\ timers[i] # c
    BY <1>0, <1>1 DEF Inv, TimerInv
  <1>S. state'[c] = "init" /\ \A d \in Cos : d # c => state'[d] = state[d]
    BY <1>0, <1>1
  <1> DEFINE added == state[c] \in {"init", "wait"}
  <1>5. /\ batch' \in Batches /\ batch'.new = batch.new /\ batch'.timed = batch.timed
        /\ batch'.ready = IF added THEN Append(batch.ready, c) ELSE batch.ready
    <2>1. CASE added
      <3>1. batch' = [batch EXCEPT !.ready = Append(@, c)]
        BY <1>0, <2>1
      <3>2. batch'.new = batch.new /\ batch'.timed = batch.timed /\ batch'.ready = Append(batch.ready, c)
        BY <1>1, <3>1 DEF Batches
      <3>3. Append(batch.ready, c) \in Seq(Cos)
        BY <1>1
      <3> QED
        BY <1>1, <2>1, <3>1, <3>2, <3>3 DEF Batches
    <2>2. CASE ~added
      BY <1>0, <1>1, <2>2
    <2> QED
      BY <2>1, <2>2
  <1> HIDE DEF c
  <1>6. TypeInv'
    <2>1. state' \in [Cos -> {"init", "wait", "ready"}]
      BY <1>0, <1>1
    <2>2. DOMAIN timers' \subseteq Timers /\ (\A i \in DOMAIN timers' : timers'[i] \in Cos) /\ due' \subseteq DOMAIN timers'
      BY <1>0, <1>T DEF Inv, TypeInv, TypeOK
    <2> QED
      BY <1>0, <1>5, <2>1, <2>2 DEF Inv, TypeInv, TypeOK, Batches
  <1>7. LoopInv' /\ PoolInv'
    BY <1>0, <1>5 DEF Inv, LoopInv, PoolInv
  <1>8. StateInv'
    BY <1>0, <1>3, <1>S DEF Inv, StateInv
  <1>9. TimerInv'
    <2>1. DOMAIN timers' \subseteq 1..nTimers' /\ (\A d \in Cos : cur'[d] \in 0..nTimers')
      BY <1>0, <1>T DEF Inv, TimerInv
    <2>2. \A i \in DOMAIN timers' : \/ pos'[timers'[i]] \in {"twait", "tenter"} /\ cur'[timers'[i]] = i
                                    \/ pos'[timers'[i]] = "sleep"
      BY <1>0, <1>T DEF Inv, TimerInv
    <2>3. \A i, j \in DOMAIN timers' : timers'[i] = timers'[j] => i = j
      BY <1>T DEF Inv, TimerInv
    <2>4. ASSUME NEW d \in Cos, pos'[d] \in {"twait", "tenter"}
          PROVE  IF state'[d] = "init" THEN cur'[d] \notin DOMAIN timers'
                 ELSE cur'[d] \in DOMAIN timers' /\ timers'[cur'[d]] = d
      <3>1. CASE d = c
        <4>1. cur'[d] = id
          BY <1>0, <1>3, <2>4, <3>1
        <4> QED
          BY <1>S, <1>T, <3>1, <4>1
      <3>2. CASE d # c
        <4>1. IF state[d] = "init" THEN cur[d] \notin DOMAIN timers ELSE cur[d] \in DOMAIN timers /\ timers[cur[d]] = d
          BY <1>0, <2>4 DEF Inv, TimerInv
        <4> QED
          BY <1>0, <1>S, <1>T, <3>2, <4>1 DEF c
      <3> QED
        BY <3>1, <3>2
    <2> QED
      BY <2>1, <2>2, <2>3, <2>4 DEF TimerInv
  <1>10. EntryInv'
    <2>1. \A a \in Signallers : \A e \in taken[a] : e.co \in Cos
      BY DEF Inv, TypeInv, TypeOK, Entry
    <2> QED
      BY <1>0, <1>S, <2>1 DEF Inv, EntryInv
  <1>11. \A d \in Cos : (BySignal(d) => BySignal(d)') /\ (ByTimeout(d) => ByTimeout(d)')
    BY <1>0, <1>S DEF BySignal, ByTimeout
  <1>12. WonInv'
    <2>1. \A a \in Signallers : \A e \in won[a] : e.co \in Cos
      BY DEF Inv, TypeInv, TypeOK, Entry
    <2> QED
      BY <1>0, <1>11, <2>1 DEF Inv, WonInv
  <1>13. QueueInv'
    <2>1. /\ \A i \in 1..Len(readyTasks) : readyTasks[i] \in Cos
          /\ \A e \in timerTasks \cup batch.timed : e.co \in Cos
          /\ \A i \in 1..Len(batch.ready) : batch.ready[i] \in Cos
      BY DEF Inv, TypeInv, TypeOK, TimedEntry
    <2>2. \A i \in 1..Len(readyTasks') : BySignal(readyTasks[i])' /\ pos'[readyTasks'[i]] = "wait"
      BY <1>0, <1>11, <2>1 DEF Inv, QueueInv, BySignal
    <2>3. \A e \in timerTasks' \cup batch'.timed : BySignal(e.co)' /\ pos'[e.co] = "twait" /\ e.id = cur'[e.co]
      BY <1>0, <1>5, <1>11, <2>1 DEF Inv, QueueInv
    <2>4. ASSUME NEW i \in 1..Len(batch'.ready) PROVE ByTimeout(batch.ready[i])'
      <3> DEFINE d == batch'.ready[i]
      <3>1. (d = c /\ added) \/ (i \in 1..Len(batch.ready) /\ d = batch.ready[i])
        BY <1>1, <1>5, <2>4
      <3>2. CASE d = c /\ added
        BY <1>0, <1>3, <1>4, <1>S, <3>2 DEF ByTimeout
      <3>3. CASE i \in 1..Len(batch.ready) /\ d = batch.ready[i]
        <4>1. ByTimeout(batch.ready[i]) /\ batch.ready[i] \in Cos
          BY <1>0, <2>1, <3>3 DEF Inv, QueueInv
        <4>2. ByTimeout(d) /\ d \in Cos
          BY <3>3, <4>1
        <4> HIDE DEF d
        <4>3. pos'[d] \in {"twait", "sleep"} /\ state'[d] = "init" /\ (pos'[d] = "twait" => ~signalled'[d])
          BY <1>0, <1>S, <4>2 DEF ByTimeout
        <4> QED
          BY <4>3 DEF ByTimeout, d
      <3> QED
        BY <3>1, <3>2, <3>3
    <2> QED
      BY <1>0, <2>2, <2>3, <2>4 DEF QueueInv
  <1>14. ASSUME NEW d \in Cos PROVE Resumes(d)' = IF d = c /\ added THEN Resumes(d) + 1 ELSE Resumes(d)
    <2>1. Resumes(d)' = Cardinality(Winners(d)) + Occurrences(readyTasks, d) + HasEntry(timerTasks, d)
                        + Occurrences(batch'.ready, d) + HasEntry(batch.timed, d)
      BY <1>0, <1>5 DEF Resumes, Winners
    <2>2. Occurrences(batch'.ready, d) = IF d = c /\ added THEN Occurrences(batch.ready, d) + 1 ELSE Occurrences(batch.ready, d)
      <3>1. CASE added
        <4>1. Occurrences(batch'.ready, d) = Occurrences(batch.ready, d) + (IF d = c THEN 1 ELSE 0)
          BY <1>1, <1>5, <3>1, OccurrencesAppend
        <4>2. Occurrences(batch.ready, d) \in Nat
          BY <1>1, OccurrencesType
        <4> QED
          BY <3>1, <4>1, <4>2
      <3>2. CASE ~added
        BY <1>5, <3>2
      <3> QED
        BY <3>1, <3>2
    <2>3. /\ Resumes(d) = Cardinality(Winners(d)) + Occurrences(readyTasks, d) + HasEntry(timerTasks, d)
                           + Occurrences(batch.ready, d) + HasEntry(batch.timed, d)
          /\ Cardinality(Winners(d)) \in Nat /\ Occurrences(readyTasks, d) \in Nat
          /\ HasEntry(timerTasks, d) \in 0..1 /\ Occurrences(batch.ready, d) \in Nat /\ HasEntry(batch.timed, d) \in 0..1
      BY <1>1, ResumesSum
    <2>4. CASE d = c /\ added
      BY <2>1, <2>2, <2>3, <2>4
    <2>5. CASE ~(d = c /\ added)
      BY <2>1, <2>2, <2>3, <2>5
    <2> QED
      BY <2>4, <2>5
  <1>15. CountInv'
    <2> SUFFICES ASSUME NEW d \in Cos
                 PROVE  /\ pos'[d] \in {"wait", "twait"} => Resumes(d)' = IF state'[d] = "wait" THEN 0 ELSE 1
                        /\ ~Suspended(d)' => Resumes(d)' = 0
                        /\ pos'[d] = "sleep" => Resumes(d)' = IF \E i \in DOMAIN timers' : timers'[i] = d THEN 0 ELSE 1
      BY DEF CountInv
    <2>1. CASE d = c
      <3>1. ~\E i \in DOMAIN timers' : timers'[i] = c
        BY <1>T
      <3>2. Resumes(d)' = 1
        <4>1. CASE added
          <5>1. Resumes(c) = 0
            <6>1. CASE pos[c] = "sleep"
              BY <1>1, <6>1 DEF Inv, CountInv, c
            <6>2. CASE pos[c] = "twait"
              <7>1. state[c] = "wait"
                BY <1>4, <4>1, <6>2
              <7> QED
                BY <1>1, <6>2, <7>1 DEF Inv, CountInv
            <6> QED
              BY <1>3, <6>1, <6>2
          <5> QED
            BY <1>14, <2>1, <4>1, <5>1
        <4>2. CASE ~added
          <5>1. state[c] = "ready" /\ pos[c] = "twait"
            BY <1>1, <1>3, <1>4, <4>2
          <5>2. Resumes(c) = 1
            BY <1>1, <5>1 DEF Inv, CountInv
          <5> QED
            BY <1>14, <2>1, <4>2, <5>2
        <4> QED
          BY <4>1, <4>2
      <3> QED
        BY <1>0, <1>3, <1>S, <2>1, <3>1, <3>2 DEF Suspended
    <2>2. CASE d # c
      <3>1. pos'[d] = pos[d] /\ state'[d] = state[d] /\ Resumes(d)' = Resumes(d)
        BY <1>0, <1>S, <1>14, <2>2
      <3>2. (\E i \in DOMAIN timers' : timers'[i] = d) <=> (\E i \in DOMAIN timers : timers[i] = d)
        BY <1>T, <2>2 DEF c
      <3> QED
        BY <3>1, <3>2 DEF Inv, CountInv, Suspended
    <2> QED
      BY <2>1, <2>2
  <1> QED
    BY <1>6, <1>7, <1>8, <1>9, <1>10, <1>12, <1>13, <1>15 DEF Inv

-----------------------------------------------------------------------------
(* The theorems. *)

\* Every step keeps the invariant.
LEMMA NextInv == ASSUME Inv, ~LateSignals, [Next]_vars PROVE Inv'
  <1>1. ASSUME NEW c \in Cos, Leave(c) \/ WaitYield(c) PROVE Inv'
    BY <1>1, WaitEnterInv, TimedWaitEnterInv, SleepInv, FinishInv, WaitYieldInv DEF Leave
  <1>2. ASSUME NEW a \in Signallers, SignalTake(a) \/ SignalStep(a) PROVE Inv'
    BY <1>2, SignalTakeInv, SignalCasInv, SignalAddInv DEF SignalStep
  <1>3. ASSUME Loop PROVE Inv'
    BY <1>3, GetAllTasksInv, ResumeNewInv, ResumeHeadInv, ResumeReadyTimerInv, PhaseInv, CheckTimerInv DEF Loop
  <1>4. ASSUME UNCHANGED vars PROVE Inv'
    <2>1. UNCHANGED <<state, pos, cur, signalled, created, pool, coWait, taken, won, newTasks, readyTasks, timerTasks,
                      pc, batch, running, timeout, timers, due, nTimers, nGo>>
      BY <1>4 DEF vars, coVars, poolVars, sigVars, queueVars, loopVars, timerVars
    <2>2. TypeInv' /\ LoopInv' /\ PoolInv' /\ EntryInv'
      BY <2>1 DEF Inv, TypeInv, TypeOK, LoopInv, PoolInv, EntryInv
    <2>3. QueueInv'
      BY <2>1 DEF Inv, QueueInv, BySignal, ByTimeout
    <2> QED
      BY <2>1, <2>2, <2>3, QuietInv
  <1> QED
    BY <1>1, <1>2, <1>3, <1>4, GoInv, TickInv DEF Next

\* The inductive invariant holds in every reachable state.
THEOREM EventInvariant == ASSUME ~LateSignals PROVE Spec => []Inv
  <1>1. Init => Inv
    BY InitInv
  <1>2. Inv /\ [Next]_vars => Inv'
    BY NextInv
  <1> QED
    BY <1>1, <1>2, PTL DEF Spec

\* Signal and timeout between them resume a wait exactly once, and a wait that
\* is not decided can be reached (EventImpl::wait, signal, check_timeout).
THEOREM ResumedExactlyOnce == ASSUME ~LateSignals PROVE Spec => []ResumedOnce
  <1>1. Inv => ResumedOnce
    <2> SUFFICES ASSUME Inv, NEW c \in Cos
                 PROVE  /\ pos[c] \in {"wait", "twait"} => Resumes(c) = IF state[c] = "wait" THEN 0 ELSE 1
                        /\ ~Suspended(c) => Resumes(c) = 0
                        /\ Suspended(c) /\ state[c] = "wait" =>
                              \E m \in {coWait} \cup {taken[a] : a \in Signallers} :
                                  \E e \in m : e.co = c /\ e.id = cur[c]
                        /\ pos[c] = "twait" /\ state[c] = "wait" => cur[c] \in DOMAIN timers
                        /\ pos[c] = "sleep" =>
                              Resumes(c) = IF \E i \in DOMAIN timers : timers[i] = c THEN 0 ELSE 1
      BY DEF ResumedOnce
    <2>1. /\ pos[c] \in {"wait", "twait"} => Resumes(c) = IF state[c] = "wait" THEN 0 ELSE 1
          /\ ~Suspended(c) => Resumes(c) = 0
          /\ pos[c] = "sleep" => Resumes(c) = IF \E i \in DOMAIN timers : timers[i] = c THEN 0 ELSE 1
      BY DEF Inv, CountInv
    <2>2. ASSUME Suspended(c), state[c] = "wait"
          PROVE  \E m \in {coWait} \cup {taken[a] : a \in Signallers} : \E e \in m : e.co = c /\ e.id = cur[c]
      <3>1. pos[c] \in {"wait", "twait"}
        BY <2>2 DEF Suspended, Inv, StateInv
      <3>2. \/ \E e \in coWait : e.co = c /\ e.id = cur[c]
            \/ \E a \in Signallers : \E e \in taken[a] : e.co = c /\ e.id = cur[c]
        BY <2>2, <3>1 DEF Inv, EntryInv
      <3> QED
        BY <3>2
    <2>3. pos[c] = "twait" /\ state[c] = "wait" => cur[c] \in DOMAIN timers
      BY DEF Inv, TimerInv
    <2> QED
      BY <2>1, <2>2, <2>3
  <1> QED
    BY <1>1, EventInvariant, PTL

\* del_timer gets no dangling iterator, and no timer outlives the wait or the
\* sleep that added it (scheduler.cc, EventImpl::wait).
THEOREM NoStrayTimer == ASSUME ~LateSignals PROVE Spec => []TimersMatch
  <1>1. Inv => TimersMatch
    <2> SUFFICES ASSUME Inv PROVE TimersMatch
      OBVIOUS
    <2>1. ASSUME NEW e \in timerTasks \cup batch.timed \cup UNION {won[a] : a \in Signallers},
                 e.id # NoTimer, state[e.co] = "ready"
          PROVE  e.id \in DOMAIN timers /\ timers[e.id] = e.co
      <3>1. BySignal(e.co) /\ e.id = cur[e.co] /\ e.co \in Cos
        <4>1. CASE e \in timerTasks \cup batch.timed
          BY <4>1 DEF Inv, QueueInv, TypeInv, TypeOK, TimedEntry
        <4>2. CASE \E a \in Signallers : e \in won[a]
          BY <4>2 DEF Inv, WonInv, TypeInv, TypeOK, Entry
        <4> QED
          BY <2>1, <4>1, <4>2
      <3>2. pos[e.co] = "twait"
        BY <2>1, <3>1 DEF BySignal, Inv, StateInv
      <3> QED
        BY <2>1, <3>1, <3>2 DEF Inv, TimerInv
    <2>2. TimerToDeleteLives
      BY <2>1 DEF TimerToDeleteLives
    <2> QED
      BY <2>2 DEF TimersMatch, Inv, TimerInv
  <1> QED
    BY <1>1, EventInvariant, PTL

\* Copool::pop never meets a coroutine that is not in S_init, or that is
\* still listed as a waiter.
THEOREM PoolAlwaysInit == ASSUME ~LateSignals PROVE Spec => []PoolIsInit
  <1>1. Inv => PoolIsInit
    <2> SUFFICES ASSUME Inv, NEW i \in 1..Len(pool)
                 PROVE  state[pool[i]] = "init" /\ \A e \in coWait : e.co # pool[i]
      BY DEF PoolIsInit
    <2>1. pos[pool[i]] = "free" /\ pool[i] \in Cos
      BY DEF Inv, PoolInv, TypeInv, TypeOK
    <2> QED
      BY <2>1 DEF Inv, StateInv, EntryInv
  <1> QED
    BY <1>1, EventInvariant, PTL

\* wait(ms) returns true if and only if a signal reached this very wait.
THEOREM WaitTellsTruth == ASSUME ~LateSignals PROVE Spec => WaitResult
  <1> DEFINE Told == \A c \in Cos : pos[c] = "twait" /\ pos'[c] = "run" => (~timeout <=> signalled[c])
  <1>1. Inv /\ [Next]_vars => [Told]_vars
    <2> SUFFICES ASSUME Inv, Next, NEW c \in Cos, pos[c] = "twait", pos'[c] = "run"
                 PROVE  ~timeout <=> signalled[c]
      BY DEF Told
    <2>1. pos \in [Cos -> Positions] /\ (timeout => pc = "expired") /\ timeout \in BOOLEAN /\ signalled[c] \in BOOLEAN
      BY DEF Inv, TypeInv, TypeOK, LoopInv
    <2>2. \A d \in Cos : Leave(d) \/ WaitYield(d) => pos'[c] # "run"
      BY <2>1 DEF Leave, WaitEnter, TimedWaitEnter, Sleep, Finish, WaitYield
    <2>3. \A d \in Cos : Resumed(d) => d = c
      BY <2>1 DEF Resumed
    <2>4. CASE ResumeNew
      <3>1. PICK d \in Cos : pos[d] = "free" /\ Resumed(d)
        <4>1. pool \in Seq(Cos) /\ created \in 0..MaxGo /\ created + newTasks + batch.new <= nGo /\ batch.new > 0
              /\ nGo \in 0..MaxGo /\ newTasks \in Nat /\ batch.new \in Nat
          BY <2>4, Constants DEF Inv, TypeInv, TypeOK, PoolInv, ResumeNew
        <4>2. CASE pool # <<>> /\ Resumed(Last(pool))
          <5>1. Last(pool) = pool[Len(pool)] /\ Len(pool) \in 1..Len(pool) /\ Last(pool) \in Cos
            BY <4>1, <4>2 DEF Last
          <5> QED
            BY <4>2, <5>1 DEF Inv, PoolInv
        <4>3. CASE Resumed(created + 1)
          <5>1. created + 1 \in Cos /\ created + 1 > created
            BY <4>1, Constants
          <5> QED
            BY <4>3, <5>1 DEF Inv, PoolInv
        <4> QED
          BY <2>4, <4>2, <4>3 DEF ResumeNew
      <3> QED
        BY <2>3, <3>1
    <2>5. CASE ResumeReady \/ ResumeExpired
      <3> DEFINE h == Head(batch.ready)
      <3>1. Resumed(h) /\ batch.ready # <<>> /\ pc \in {"tasks", "expired"} /\ batch.ready \in Seq(Cos)
        BY <2>5 DEF ResumeReady, ResumeExpired, Inv, TypeInv, TypeOK
      <3>2. h \in Cos /\ h = batch.ready[1] /\ 1 \in 1..Len(batch.ready)
        BY <3>1
      <3>3. h = c
        BY <2>3, <3>1, <3>2
      <3>4. IF pc = "tasks" THEN pos[c] = "wait" ELSE ByTimeout(c)
        BY <3>2, <3>3 DEF Inv, QueueInv
      <3>5. pc = "expired" /\ timeout
        BY <3>1, <3>4 DEF Inv, LoopInv
      <3> QED
        BY <3>4, <3>5 DEF ByTimeout
    <2>6. CASE ResumeReadyTimer
      <3>1. PICK e \in batch.timed : Resumed(e.co)
        BY <2>6 DEF ResumeReadyTimer
      <3>2. e.co \in Cos /\ BySignal(e.co) /\ ~timeout
        BY <2>1, <2>6 DEF Inv, QueueInv, TypeInv, TypeOK, TimedEntry, ResumeReadyTimer
      <3> QED
        BY <2>3, <3>1, <3>2 DEF BySignal
    <2>7. \A a \in Signallers : SignalTake(a) \/ SignalStep(a) => UNCHANGED pos
      BY DEF SignalTake, SignalStep, SignalCas, SignalAdd, coVars
    <2>8. Go \/ GetAllTasks \/ TasksDone \/ CheckDone \/ ExpiredDone => UNCHANGED pos
      BY DEF Go, GetAllTasks, TasksDone, CheckDone, ExpiredDone, coVars
    <2>9. (\A id \in due : CheckTimer(id) => UNCHANGED pos) /\ (\A id \in Timers : Tick(id) => UNCHANGED pos)
      BY DEF CheckTimer, Tick, coVars
    <2> QED
      BY <2>2, <2>4, <2>5, <2>6, <2>7, <2>8, <2>9 DEF Next, Loop
  <1>2. WaitResult <=> [][Told]_vars
    BY DEF WaitResult
  <1> HIDE DEF Told
  <1> QED
    BY <1>1, <1>2, EventInvariant, PTL DEF Spec
=============================================================================
