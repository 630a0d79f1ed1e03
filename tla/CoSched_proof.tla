--------------------------- MODULE CoSched_proof ---------------------------
(***************************************************************************)
(* Proofs about CoMutex, for any number of coroutines, threads and         *)
(* schedulers: mutual exclusion, resumption of yielded coroutines only,    *)
(* and that MutexImpl implements FairLock.  Proofs about SchedWakeup, for  *)
(* any set of threads, of tasks and of threads that call stop: the wakeup  *)
(* protocol between add_*_task and the loop loses no wakeup, and the       *)
(* descriptors outlive the loop.                                           *)
(***************************************************************************)
EXTENDS CoMutex, SchedWakeup, TLAPS

\* A new mutex, with coroutines that have not started, satisfies IInv.
LEMMA InitIInv == Init => IInv
  <1> SUFFICES ASSUME Init PROVE IInv
    OBVIOUS
  <1> USE ActorAssumption DEF Init
  <1>1. TypeOK
    <2>1. coWait \in Seq(Cos)
      OBVIOUS
    <2>2. None \notin Actors /\ Home \in [Cos -> Scheds]
      OBVIOUS
    <2> QED
      BY <2>1, <2>2 DEF TypeOK, Modes
  <1>2. InLock = {}
    BY DEF InLock, Actors
  <1>3. LockInv /\ QueueInv /\ HandOverInv /\ RunInv
    BY <1>1, <1>2 DEF TypeOK, LockInv, QueueInv, HandOverInv, RunInv, Actors
  <1> QED
    BY <1>1, <1>3 DEF IInv

\* Every step of MutexImpl and of the schedulers preserves IInv.  The steps
\* that move a coroutine into or out of _co_wait are the ones that need care.
LEMMA NextIInv == IInv /\ [Next]_vars => IInv'
  <1> SUFFICES ASSUME IInv, [Next]_vars PROVE IInv'
    OBVIOUS
  <1> USE ActorAssumption
      DEF IInv, TypeOK, LockInv, QueueInv, HandOverInv, RunInv, InLock, Actors, Modes
  <1>1. ASSUME NEW c \in Cos, Wake(c) PROVE IInv'
    BY <1>1 DEF Wake
  <1>2. ASSUME NEW c \in Cos, Sleep(c) PROVE IInv'
    BY <1>2 DEF Sleep
  <1>3. ASSUME NEW c \in Cos, LockQueue(c) PROVE IInv'
    <2> USE <1>3 DEF LockQueue, Executes
    <2>1. coWait' \in Seq(Cos) /\ Len(coWait') = Len(coWait) + 1
      OBVIOUS
    <2>2. \A i \in 1..Len(coWait') : coWait'[i] = IF i = Len(coWait') THEN c ELSE coWait[i]
      BY <2>1
    <2>3. \A i \in 1..Len(coWait) : coWait[i] # c /\ coWait'[i] = coWait[i]
      BY <2>1, <2>2
    <2>4. InLock' = InLock \cup {c}
      OBVIOUS
    <2>5. TypeOK'
      BY <2>1
    <2>6. LockInv'
      OBVIOUS
    <2>7. QueueInv'
      BY <2>1, <2>2, <2>3, <2>4
    <2>8. HandOverInv'
      <3>1. ASSUME NEW d \in InLock'
            PROVE  \/ \E i \in 1..Len(coWait') : coWait'[i] = d
                   \/ \E b \in Actors : hand'[b] = d
                   \/ d \in ready'[Home[d]]
        <4>1. CASE d = c
          BY <4>1, <2>1, <2>2
        <4>2. CASE d \in InLock
          BY <4>2, <2>1, <2>3
        <4> QED
          BY <3>1, <4>1, <4>2, <2>4
      <3>2. c # owner
        OBVIOUS
      <3> QED
        BY <3>1, <3>2, <2>4
    <2>9. RunInv'
      OBVIOUS
    <2> QED
      BY <2>5, <2>6, <2>7, <2>8, <2>9
  <1>4. ASSUME NEW c \in Cos, LockYield(c) PROVE IInv'
    BY <1>4 DEF LockYield, Executes
  <1>5. ASSUME NEW a \in Actors, TryLock(a) PROVE IInv'
    BY <1>5 DEF TryLock, Executes
  <1>6. ASSUME NEW a \in Actors, UnlockFree(a) PROVE IInv'
    <2> USE <1>6 DEF UnlockFree, Executes
    <2>1. InLock' = InLock
      OBVIOUS
    <2>2. (\A b \in Actors : hand[b] = None) /\ \A s \in Scheds : ready[s] = {}
      BY <2>1
    <2>3. TypeOK' /\ RunInv'
      OBVIOUS
    <2>4. QueueInv'
      <3>1. coWait' = <<>> /\ Len(coWait') = 0
        OBVIOUS
      <3> QED
        BY <2>1, <3>1
    <2>5. LockInv'
      OBVIOUS
    <2>6. HandOverInv'
      <3>1. hand' = hand /\ ready' = ready /\ InLock = {}
        BY <2>2
      <3>2. \A b \in Actors : mode'[b] # "unlock"
        BY <2>2
      <3> QED
        BY <2>1, <2>2, <3>1, <3>2
    <2> QED
      BY <2>3, <2>4, <2>5, <2>6
  <1>7. ASSUME NEW a \in Actors, UnlockPop(a) PROVE IInv'
    <2> USE <1>7 DEF UnlockPop, Executes
    <2>1. /\ coWait' \in Seq(Cos) /\ Len(coWait') = Len(coWait) - 1
          /\ Len(coWait) \in Nat \ {0} /\ Head(coWait) = coWait[1]
      OBVIOUS
    <2>2. \A i \in 1..Len(coWait') : i + 1 \in 1..Len(coWait) /\ coWait'[i] = coWait[i + 1]
      BY <2>1
    <2>3. Head(coWait) \in InLock /\ Head(coWait) # a
      BY <2>1
    <2>4. InLock' = InLock
      BY <2>3
    <2>5. TypeOK'
      BY <2>1
    <2>6. LockInv'
      BY <2>3
    <2>7. QueueInv'
      BY <2>1, <2>2, <2>4
    <2>8. HandOverInv'
      <3>1. ASSUME NEW d \in InLock
            PROVE  \/ \E i \in 1..Len(coWait') : coWait'[i] = d
                   \/ \E b \in Actors : hand'[b] = d
                   \/ d \in ready'[Home[d]]
        <4>1. CASE \E i \in 1..Len(coWait) : coWait[i] = d
          <5>1. PICK i \in 1..Len(coWait) : coWait[i] = d
            BY <4>1
          <5>2. CASE i = 1
            BY <5>1, <5>2, <2>1
          <5>3. CASE i # 1
            <6>1. i - 1 \in 1..Len(coWait')
              BY <5>3, <2>1
            <6>2. coWait'[i - 1] = coWait[(i - 1) + 1]
              BY <6>1, <2>2
            <6>3. (i - 1) + 1 = i
              OBVIOUS
            <6> QED
              BY <6>1, <6>2, <6>3, <5>1
          <5> QED
            BY <5>2, <5>3
        <4>2. CASE \E b \in Actors : hand[b] = d
          BY <4>2
        <4> QED
          BY <3>1, <4>1, <4>2
      <3>2. \A b \in Actors : hand[b] = None
        OBVIOUS
      <3>3. \A s \in Scheds : ready[s] = {}
        BY <2>3
      <3>4. \A b \in Actors : hand'[b] = IF b = a THEN Head(coWait) ELSE None
        BY <3>2
      <3>5. Head(coWait) # None /\ mode' = [mode EXCEPT ![a] = "unlock"] /\ owner' = Head(coWait)
        BY <2>3
      <3>6. \A b \in Actors : b # a => mode[b] # "unlock"
        BY <3>2
      <3>7. \A b \in Actors : hand'[b] # None <=> mode'[b] = "unlock"
        BY <3>4, <3>5, <3>6
      <3>8. ready' = ready
        OBVIOUS
      <3> QED
        BY <3>1, <3>3, <3>4, <3>5, <3>7, <3>8, <2>3, <2>4 DEF HandOverInv
    <2>9. RunInv'
      OBVIOUS
    <2> QED
      BY <2>5, <2>6, <2>7, <2>8, <2>9
  <1>8. ASSUME NEW a \in Actors, UnlockReady(a) PROVE IInv'
    BY <1>8 DEF UnlockReady, Executes
  <1>9. ASSUME NEW s \in Scheds, NEW c \in Cos, Resume(s, c) PROVE IInv'
    BY <1>9 DEF Resume
  <1>10. CASE UNCHANGED vars
    BY <1>10 DEF vars
  <1> QED
    BY <1>1, <1>2, <1>3, <1>4, <1>5, <1>6, <1>7, <1>8, <1>9, <1>10
    DEF Next, Unlock

\* IInv is an invariant of the specification.
LEMMA IInvAlways == Spec => []IInv
  BY InitIInv, NextIInv, PTL DEF Spec

\* Type correctness of the mutex, the coroutines and the schedulers.
THEOREM TypeCorrect == Spec => []TypeOK
  <1>1. IInv => TypeOK
    BY DEF IInv
  <1> QED
    BY <1>1, IInvAlways, PTL

\* No two actors are between lock and unlock, hand-over included.
THEOREM Exclusion == Spec => []MutualExclusion
  <1>1. ASSUME IInv, NEW a \in Actors, NEW b \in Actors, a # b, mode[a] = "in"
        PROVE  mode[b] # "in" /\ hand[b] = None /\ \A s \in Scheds : b \notin ready[s]
    BY <1>1 DEF IInv, TypeOK, LockInv, HandOverInv, InLock
  <1>2. IInv => MutualExclusion
    BY <1>1 DEF MutualExclusion
  <1> QED
    BY <1>2, IInvAlways, PTL

\* The loop resumes only coroutines of its own that have yielded in lock().
THEOREM ResumesYieldedOnly == Spec => []ResumeYielded
  <1>1. ASSUME IInv, NEW s \in Scheds, running[s] = None, NEW c \in ready[s]
        PROVE  Home[c] = s /\ mode[c] = "yielded"
    BY <1>1, ActorAssumption DEF IInv, TypeOK, HandOverInv, RunInv, InLock, Actors
  <1>2. IInv => ResumeYielded
    BY <1>1 DEF ResumeYielded
  <1> QED
    BY <1>2, IInvAlways, PTL

\* MutexImpl implements the FIFO lock: each step maps to a step of FairLock
\* or leaves owner and queue alone.
THEOREM MutexImplementsFairLock == Spec => ImplementsFairLock
  <1> USE ActorAssumption
  <1>1. Init => Abstract!Init
    BY DEF Init, Abstract!Init
  <1>2. ASSUME IInv, [Next]_vars
        PROVE  [Abstract!Next]_<<owner, coWait>>
    <2> USE <1>2 DEF IInv, TypeOK
    <2>1. ASSUME NEW c \in Cos, LockQueue(c) PROVE Abstract!Request(c)
      <3>1. c \in Actors /\ mode[c] = "out" /\ lock
        BY <2>1 DEF LockQueue, Actors
      <3>2. owner \notin {None, c}
        BY <3>1 DEF LockInv
      <3>3. \A i \in 1..Len(coWait) : coWait[i] # c
        BY <3>1 DEF QueueInv, InLock
      <3> QED
        BY <2>1, <3>2, <3>3 DEF LockQueue, Abstract!Request
    <2>2. ASSUME NEW a \in Actors, TryLock(a) PROVE Abstract!Acquire(a)
      BY <2>2 DEF TryLock, LockInv, Abstract!Acquire
    <2>3. ASSUME NEW a \in Actors, UnlockFree(a) PROVE Abstract!Release(a)
      BY <2>3 DEF UnlockFree, LockInv, Abstract!Release
    <2>4. ASSUME NEW a \in Actors, UnlockPop(a) PROVE Abstract!Release(a)
      BY <2>4 DEF UnlockPop, LockInv, Abstract!Release
    <2>5. ASSUME NEW c \in Cos, Wake(c) \/ Sleep(c) \/ LockYield(c)
          PROVE  UNCHANGED <<owner, coWait>>
      BY <2>5 DEF Wake, Sleep, LockYield
    <2>6. ASSUME NEW a \in Actors, UnlockReady(a) PROVE UNCHANGED <<owner, coWait>>
      BY <2>6 DEF UnlockReady
    <2>7. ASSUME NEW s \in Scheds, NEW c \in Cos, Resume(s, c)
          PROVE  UNCHANGED <<owner, coWait>>
      BY <2>7 DEF Resume
    <2>8. CASE UNCHANGED vars
      BY <2>8 DEF vars
    <2> QED
      BY <2>1, <2>2, <2>3, <2>4, <2>5, <2>6, <2>7, <2>8
      DEF Next, Unlock, Abstract!Next, Actors
  <1> QED
    BY <1>1, <1>2, IInvAlways, PTL DEF Spec, ImplementsFairLock, Abstract!Spec

-----------------------------------------------------------------------------
(* The wakeup protocol of Epoll. *)

\* WakeInv holds initially.
LEMMA WakeupInit == WakeInit => WakeInv
  <1> SUFFICES ASSUME WakeInit PROVE WakeInv
    OBVIOUS
  <1> USE DEF WakeInit
  <1>1. WakeTypeOK
    BY DEF WakeTypeOK, LoopPc
  <1>2. Writing = {}
    BY DEF Writing
  <1>3. OneWakeupUnderWay /\ SignaledHeld /\ ByteReported
    BY <1>2 DEF OneWakeupUnderWay, SignaledHeld, ByteReported, PipeHeard
  <1>4. TasksAnnounced /\ StopOrder
    BY DEF TasksAnnounced, StopOrder
  <1> QED
    BY <1>1, <1>3, <1>4 DEF WakeInv

\* Every step of a caller or of the loop preserves WakeInv.
LEMMA WakeupNext == WakeInv /\ [WakeNext]_wakeVars => WakeInv'
  <1> SUFFICES ASSUME WakeInv, [WakeNext]_wakeVars PROVE WakeInv'
    OBVIOUS
  <1> USE CallerAssumption
      DEF WakeInv, WakeTypeOK, OneWakeupUnderWay, SignaledHeld, ByteReported, PipeHeard,
          TasksAnnounced, WakeupPending, StopOrder, Writing, Callers, LoopPc,
          loopVars, stopVars, callVars
  <1>1. ASSUME NEW c \in Callers, NEW t \in Tasks, AddTask(c, t) PROVE WakeInv'
    BY <1>1 DEF AddTask, MayCall
  <1>2. ASSUME NEW c \in Callers, SignalCas(c) PROVE WakeInv'
    BY <1>2 DEF SignalCas, AfterSignal
  <1>3. ASSUME NEW c \in Callers, SignalWrite(c) PROVE WakeInv'
    <2> USE <1>3 DEF SignalWrite, AfterSignal
    <2>1. edge' \in BOOLEAN /\ (edge' <=> edge \/ ~closed)
      OBVIOUS
    <2>2. WakeTypeOK'
      BY <2>1
    <2>3. OneWakeupUnderWay' /\ SignaledHeld'
      OBVIOUS
    <2>4. ByteReported' /\ TasksAnnounced' /\ StopOrder'
      BY <2>1
    <2> QED
      BY <2>2, <2>3, <2>4
  <1>4. ASSUME NEW c \in Callers, StopSwap(c) PROVE WakeInv'
    BY <1>4 DEF StopSwap, MayCall
  <1>5. ASSUME NEW c \in Callers, StopWait(c) PROVE WakeInv'
    BY <1>5 DEF StopWait
  <1>6. ASSUME NEW c \in Callers, StopClose(c) PROVE WakeInv'
    BY <1>6 DEF StopClose
  <1>7. CASE LoopHead
    BY <1>7 DEF LoopHead
  <1>8. CASE EpollPipe
    <2> USE <1>8 DEF EpollPipe
    <2>1. WakeTypeOK'
      OBVIOUS
    <2>2. OneWakeupUnderWay' /\ SignaledHeld' /\ ByteReported'
      OBVIOUS
    <2>3. TasksAnnounced' /\ StopOrder'
      OBVIOUS
    <2> QED
      BY <2>1, <2>2, <2>3
  <1>9. CASE EpollOther
    BY <1>9 DEF EpollOther
  <1>10. CASE LoopWoken
    BY <1>10 DEF LoopWoken
  <1>11. CASE HandleEvPipe
    BY <1>11 DEF HandleEvPipe, ReadSize
  <1>12. CASE GetAllTasks
    BY <1>12 DEF GetAllTasks
  <1>13. CASE LoopEnd
    BY <1>13 DEF LoopEnd
  <1>14. CASE LoopExit
    BY <1>14 DEF LoopExit
  <1>15. CASE UNCHANGED wakeVars
    BY <1>15 DEF wakeVars
  <1> QED
    BY <1>1, <1>2, <1>3, <1>4, <1>5, <1>6, <1>7, <1>8, <1>9, <1>10, <1>11,
       <1>12, <1>13, <1>14, <1>15
    DEF WakeNext, Signal, StopRest, Loop

\* WakeInv is an invariant of the specification.
LEMMA WakeupAlways == WakeSpec => []WakeInv
  BY WakeupInit, WakeupNext, PTL DEF WakeSpec

\* The variables of Epoll, of the loop and of the callers keep their types.
THEOREM WakeupTypes == WakeSpec => []WakeTypeOK
  <1>1. WakeInv => WakeTypeOK
    BY DEF WakeInv
  <1> QED
    BY <1>1, WakeupAlways, PTL

\* _signaled = 1 stands for one wakeup, and the pipe holds at most one byte.
THEOREM OneWakeup == WakeSpec => []OneWakeupUnderWay
  <1>1. WakeInv => OneWakeupUnderWay
    BY DEF WakeInv
  <1> QED
    BY <1>1, WakeupAlways, PTL

\* The scheduler never sleeps through a queued task, nor through _stop.
THEOREM WakeupNeverLost == WakeSpec => []NoLostWakeup
  <1>1. ASSUME WakeInv, pc = "wait", WakeupPending
        PROVE  \/ edge /\ pipe > 0
               \/ \E c \in Callers : call[c] \in {"cas", "write"}
    BY <1>1 DEF WakeInv, ByteReported, PipeHeard, WakeupPending
  <1>2. WakeInv => NoLostWakeup
    BY <1>1 DEF NoLostWakeup, WakeInv, TasksAnnounced
  <1> QED
    BY <1>2, WakeupAlways, PTL

\* Epoll::close runs only after the loop has ended.
THEOREM DescriptorsOutliveLoop == WakeSpec => []ClosedAfterLoop
  <1>1. WakeInv => ClosedAfterLoop
    BY DEF WakeInv, StopOrder, ClosedAfterLoop
  <1> QED
    BY <1>1, WakeupAlways, PTL
=============================================================================
