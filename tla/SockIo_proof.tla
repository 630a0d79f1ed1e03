---------------------------- MODULE SockIo_proof ----------------------------
(***************************************************************************)
(* Proofs about SockIo, for any schedulers, coroutines, descriptors, sizes *)
(* and programs whose coroutines share sockets with care (~Careless: a     *)
(* socket is used in one scheduler at a time, a direction by one coroutine *)
(* at a time, and one that was shut down is only closed): the event map,   *)
(* the kernel and the calls agree, no edge is lost, and an event resumes   *)
(* only the coroutine that waits for it.                                   *)
(***************************************************************************)
EXTENDS SockIo, TLAPS

\* A coroutine outside a call has no trace of one, and none has crashed.
OutInv ==
    \A c \in Cos : /\ op[c].at # "crash"
                   /\ op[c].at = "out" => op[c] = NoOp
                   /\ op[c].at # "out" => op[c].fd \in Fds

\* The socket of a call is open and, but for one that is about to be closed,
\* was not shut down.
OpenInv ==
    \A c \in Cos : op[c].at # "out" =>
       /\ sock[op[c].fd].open
       /\ op[c].at # "closing" => ~sock[op[c].fd].shut

\* Calls on one socket are in one scheduler and for different directions, and
\* poll and close have it for themselves.
ShareInv ==
    \A b, c \in Cos : b # c /\ op[b].fd = op[c].fd /\ op[c].fd # 0 =>
       /\ SchedOf[b] = SchedOf[c] /\ op[b].dir # op[c].dir
       /\ op[b].kind # "poll" /\ op[b].at # "closing"

\* The information of a usable socket is there, and is the one that a hooked
\* call looked up when it began.
InfoInv ==
    /\ \A f \in Fds : sock[f].open /\ ~sock[f].shut =>
          info[f].gen # 0 /\ sock[f].nonblock /\ info[f].nonblock = sock[f].want
    /\ \A c \in Cos : InCall(c) /\ op[c].gen # 0 => info[op[c].fd].gen = op[c].gen

\* A coroutine runs in its own scheduler, does not wait meanwhile, and one
\* that is in the middle of a call and does not wait runs.
RunInv ==
    \A c \in Cos :
       /\ \A s \in Scheds : running[s] = c => s = SchedOf[c] /\ op[c].at \in {"out", "try", "again"}
       /\ op[c].at \in {"try", "again"} => Runs(c)

\* The map holds just the coroutines that have registered.
MapInv ==
    /\ \A f \in Fds, d \in Dirs : evMap[f][d] # NoCo =>
          Registered(evMap[f][d]) /\ op[evMap[f][d]].fd = f /\ op[evMap[f][d]].dir = d
    /\ \A c \in Cos : Registered(c) => evMap[op[c].fd][op[c].dir] = c
    /\ \A c \in Cos : op[c].at = "wait" => Registered(c)

\* The kernel watches what the map holds, in the scheduler of the coroutines
\* that wait, and reports nothing else but errors.
KernelInv ==
    /\ \A s \in Scheds, f \in Fds :
          Watched(s, f) => /\ interest[s][f].data = evMap[f]
                           /\ interest[s][f].mask = {d \in Dirs : evMap[f][d] # NoCo}
    /\ \A s \in Scheds, f \in Fds, d \in Dirs :
          evMap[f][d] # NoCo => (Watched(s, f) <=> s = SchedOf[evMap[f][d]])
    /\ \A s \in Scheds, f \in Fds :
          /\ edge[s][f] \subseteq interest[s][f].mask \cup {"e"}
          /\ edge[s][f] # {} => Watched(s, f)

\* A registered coroutine that waits, or is about to because its last system
\* call would block, has an event coming as soon as its socket is ready.
EdgeOf(c) ==
    /\ op[c].at = "wait" \/ (op[c].at = "again" /\ op[c].has)
    /\ op[c].dir \in Ready(op[c].fd)
    => \/ op[c].dir \in edge[SchedOf[c]][op[c].fd]
       \/ op[c].at = "wait" /\ \E x \in batch[SchedOf[c]] : x.co = c
EdgeInv == \A c \in Cos : EdgeOf(c)

\* The events at hand are for coroutines that wait for them.
BatchInv ==
    \A s \in Scheds : \A x \in batch[s] :
       /\ SchedOf[x.co] = s
       /\ op[x.co].at = "wait" /\ op[x.co].fd = x.fd /\ op[x.co].dir = x.dir

IInv == /\ TypeOK /\ OutInv /\ OpenInv /\ ShareInv /\ InfoInv /\ RunInv
        /\ MapInv /\ KernelInv /\ EdgeInv /\ BatchInv
----------------------------------------------------------------------------
\* There are two directions.
LEMMA TwoDirs ==
    \A d \in Dirs : Other(d) \in Dirs /\ Other(d) # d /\ Dirs = {d, Other(d)}
<1> SUFFICES ASSUME NEW d \in Dirs
             PROVE  Other(d) \in Dirs /\ Other(d) # d /\ Dirs = {d, Other(d)}
  OBVIOUS
<1>1. \E e \in Dirs : e # d
  BY DEF Dirs
<1>2. Other(d) \in Dirs /\ Other(d) # d
  BY <1>1 DEF Other
<1> QED
  BY <1>2 DEF Dirs

\* The coroutines in the entry of f all belong to scheduler s.
InOne(f, s) == \A d \in Dirs : evMap[f][d] # NoCo => SchedOf[evMap[f][d]] = s

\* The coroutines that are registered for the socket of a call belong to the
\* scheduler of the call.
LEMMA OneLaw ==
    ASSUME TypeOK, OutInv, ShareInv, MapInv, NEW c \in Cos, op[c].at # "out"
    PROVE  InOne(op[c].fd, SchedOf[c])
<1> SUFFICES ASSUME NEW d \in Dirs, evMap[op[c].fd][d] # NoCo
             PROVE  SchedOf[evMap[op[c].fd][d]] = SchedOf[c]
  BY DEF InOne
<1>1. op[c].fd \in Fds /\ op[c].fd # 0
  BY SockAssumption DEF OutInv
<1>2. PICK b \in Cos : b = evMap[op[c].fd][d]
  BY <1>1 DEF TypeOK, EpollTypeOK
<1>3. op[b].fd = op[c].fd
  BY <1>1, <1>2 DEF MapInv
<1> QED
  BY <1>1, <1>2, <1>3 DEF ShareInv

\* What a registered call knows about the map and the kernel.
LEMMA RegisteredLaw ==
    ASSUME TypeOK, OutInv, MapInv, KernelInv, NEW c \in Cos, Registered(c)
    PROVE  /\ op[c].fd \in Fds /\ op[c].dir \in Dirs
           /\ evMap[op[c].fd][op[c].dir] = c
           /\ op[c].dir \in interest[SchedOf[c]][op[c].fd].mask
<1>1. op[c].at # "out"
  BY DEF Registered, InCall
<1>2. op[c].fd \in Fds /\ op[c].dir \in Dirs
  BY <1>1 DEF OutInv, TypeOK, Ops
<1>4. evMap[op[c].fd][op[c].dir] = c
  BY DEF MapInv
<1>5. c # NoCo
  BY SockAssumption
<1>7. SchedOf[c] \in Scheds
  BY SockAssumption
<1>8. Watched(SchedOf[c], op[c].fd)
  BY <1>2, <1>4, <1>5, <1>7 DEF KernelInv
<1>9. interest[SchedOf[c]][op[c].fd].mask = {d \in Dirs : evMap[op[c].fd][d] # NoCo}
  BY <1>2, <1>7, <1>8 DEF KernelInv
<1> QED
  BY <1>2, <1>4, <1>5, <1>9

\* The directions that an entry of the map has a coroutine for.
InUse(data) == {d \in Dirs : data[d] # NoCo}

\* epoll_ctl that makes the entry of a descriptor, in the instance of the
\* scheduler that uses it, agree with what the map is set to.
LEMMA CtlLaw ==
    ASSUME EpollTypeOK, KernelInv, NEW f \in Fds, NEW s \in Scheds,
           NEW ready, NEW data \in [Dirs -> Cos \cup {NoCo}],
           InOne(f, s), \A d \in Dirs : data[d] # NoCo => SchedOf[data[d]] = s,
           evMap' = [evMap EXCEPT ![f] = data], Ctl(s, f, InUse(data), data, ready)
    PROVE  /\ EpollTypeOK' /\ KernelInv'
           /\ \A t \in Scheds, g \in Fds : g # f \/ t # s => edge'[t][g] = edge[t][g]
           /\ InUse(data) \cap ready \subseteq edge'[s][f]
<1> DEFINE mask == InUse(data)
           n == [mask |-> mask, data |-> data]
           e == IF mask = {} THEN {} ELSE (mask \cap ready) \cup (edge[s][f] \cap {"e"})
<1>1. interest' = [interest EXCEPT ![s][f] = n] /\ edge' = [edge EXCEPT ![s][f] = e]
  BY DEF Ctl
<1>2. interest'[s][f] = n /\ edge'[s][f] = e
  BY <1>1 DEF EpollTypeOK
<1>3. \A t \in Scheds, g \in Fds : g # f \/ t # s =>
         interest'[t][g] = interest[t][g] /\ edge'[t][g] = edge[t][g]
  BY <1>1 DEF EpollTypeOK
<1>4. evMap'[f] = data /\ \A g \in Fds : g # f => evMap'[g] = evMap[g]
  BY DEF EpollTypeOK
<1>5. \A t \in Scheds : t # s => ~Watched(t, f)
  <2> SUFFICES ASSUME NEW t \in Scheds, Watched(t, f) PROVE t = s
    OBVIOUS
  <2>1. \E d \in Dirs : evMap[f][d] # NoCo
    BY DEF KernelInv, Watched
  <2> QED
    BY <2>1 DEF KernelInv, InOne
<1>6. EpollTypeOK'
  <2>1. n \in [mask: SUBSET Dirs, data: [Dirs -> Cos \cup {NoCo}]]
    BY DEF InUse
  <2>2. evMap' \in [Fds -> [Dirs -> Cos \cup {NoCo}]]
    BY DEF EpollTypeOK
  <2>3. interest' \in [Scheds -> [Fds -> [mask: SUBSET Dirs, data: [Dirs -> Cos \cup {NoCo}]]]]
    BY <1>1, <2>1 DEF EpollTypeOK
  <2>4. e \in SUBSET (Dirs \cup {"e"})
    BY DEF InUse
  <2>5. edge' \in [Scheds -> [Fds -> SUBSET (Dirs \cup {"e"})]]
    BY <1>1, <2>4 DEF EpollTypeOK
  <2> QED
    BY <2>2, <2>3, <2>5 DEF EpollTypeOK
<1>7. ASSUME NEW t \in Scheds, NEW g \in Fds, Watched(t, g)'
      PROVE  /\ interest'[t][g].data = evMap'[g]
             /\ interest'[t][g].mask = {d \in Dirs : evMap'[g][d] # NoCo}
  <2>1. CASE g = f
    <3>1. t = s
      BY <2>1, <1>7, <1>3, <1>5 DEF Watched
    <3> QED
      BY <2>1, <3>1, <1>2, <1>4 DEF InUse
  <2>2. CASE g # f
    BY <2>2, <1>3, <1>4, <1>7 DEF KernelInv, Watched
  <2> QED
    BY <2>1, <2>2
<1>8. ASSUME NEW t \in Scheds, NEW g \in Fds, NEW d \in Dirs, evMap'[g][d] # NoCo
      PROVE  Watched(t, g)' <=> t = SchedOf[evMap'[g][d]]
  <2>1. CASE g = f
    <3>1. mask # {} /\ SchedOf[evMap'[g][d]] = s
      BY <2>1, <1>4, <1>8 DEF InUse
    <3>2. t # s => ~Watched(t, f)'
      BY <1>3, <1>5 DEF Watched
    <3> QED
      BY <2>1, <3>1, <3>2, <1>2 DEF Watched
  <2>2. CASE g # f
    BY <2>2, <1>3, <1>4, <1>8 DEF KernelInv, Watched
  <2> QED
    BY <2>1, <2>2
<1>9. ASSUME NEW t \in Scheds, NEW g \in Fds
      PROVE  /\ edge'[t][g] \subseteq interest'[t][g].mask \cup {"e"}
             /\ edge'[t][g] # {} => Watched(t, g)'
  <2>1. CASE g # f \/ t # s
    BY <2>1, <1>3 DEF KernelInv, Watched
  <2>2. CASE g = f /\ t = s
    BY <2>2, <1>2 DEF Watched
  <2> QED
    BY <2>1, <2>2
<1>10. KernelInv'
  BY <1>7, <1>8, <1>9 DEF KernelInv
<1> QED
  BY <1>2, <1>3, <1>6, <1>10

\* del_ev_read and del_ev_write of a direction that is in use: it leaves the
\* map and the kernel, and the other direction is reported again if ready.
LEMMA DelLaw ==
    ASSUME EpollTypeOK, KernelInv, NEW f \in Fds, NEW d \in Dirs, NEW s \in Scheds,
           NEW ready \in SUBSET Dirs,
           evMap[f][d] # NoCo, InOne(f, s), DelEvent(s, f, d, ready)
    PROVE  /\ evMap' = [evMap EXCEPT ![f] = [evMap[f] EXCEPT ![d] = NoCo]]
           /\ EpollTypeOK' /\ KernelInv'
           /\ \A t \in Scheds, g \in Fds : g # f \/ t # s => edge'[t][g] = edge[t][g]
           /\ \A e \in ready : e # d /\ evMap[f][e] # NoCo => e \in edge'[s][f]
<1> DEFINE o == Other(d)
<1>0. o \in Dirs /\ o # d /\ Dirs = {d, o}
  BY TwoDirs
<1>d. PICK data : data = [evMap[f] EXCEPT ![d] = NoCo]
  OBVIOUS
<1>1. evMap' = [evMap EXCEPT ![f] = data]
  BY <1>d DEF DelEvent
<1>3. Watched(s, f)
  BY DEF KernelInv, InOne
<1>4. data \in [Dirs -> Cos \cup {NoCo}] /\ data[d] = NoCo /\ data[o] = evMap[f][o]
  BY <1>0, <1>d DEF EpollTypeOK
<1>5. Ctl(s, f, InUse(data), data, ready)
  <2>1. CASE evMap[f][o] = NoCo
    <3>1. data = Nobody /\ InUse(data) = {}
      BY <1>0, <1>4, <2>1 DEF Nobody, InUse
    <3>2. Ctl(s, f, {}, Nobody, ready)
      BY <1>3, <2>1 DEF DelEvent
    <3> QED
      BY <3>1, <3>2
  <2>2. CASE evMap[f][o] # NoCo
    <3>1. InUse(data) = {o}
      BY <1>0, <1>4, <2>2 DEF InUse
    <3>2. Ctl(s, f, {o}, data, ready)
      BY <1>3, <1>d, <2>2 DEF DelEvent
    <3> QED
      BY <3>1, <3>2
  <2> QED
    BY <2>1, <2>2
<1>6. /\ EpollTypeOK' /\ KernelInv'
      /\ \A t \in Scheds, g \in Fds : g # f \/ t # s => edge'[t][g] = edge[t][g]
      /\ InUse(data) \cap ready \subseteq edge'[s][f]
  <2>1. \A e \in Dirs : data[e] # NoCo => SchedOf[data[e]] = s
    BY <1>0, <1>4 DEF InOne
  <2> QED
    BY <1>1, <1>4, <1>5, <2>1, CtlLaw
<1>7. \A e \in ready : e # d /\ evMap[f][e] # NoCo => e \in edge'[s][f]
  BY <1>0, <1>4, <1>6 DEF InUse
<1> QED
  BY <1>1, <1>6, <1>7, <1>d

\* add_ev_read and add_ev_write of a direction that is not in use succeed, and
\* both directions are reported again if ready.
LEMMA AddLaw ==
    ASSUME EpollTypeOK, KernelInv, NEW f \in Fds, NEW d \in Dirs, NEW s \in Scheds,
           NEW ready \in SUBSET Dirs, NEW c \in Cos,
           evMap[f][d] = NoCo, InOne(f, s), s = SchedOf[c]
    PROVE  /\ AddEventOk(s, f, d)
           /\ AddEvent(s, f, d, c, ready) =>
              /\ evMap' = [evMap EXCEPT ![f] = [evMap[f] EXCEPT ![d] = c]]
              /\ EpollTypeOK' /\ KernelInv'
              /\ \A t \in Scheds, g \in Fds : g # f \/ t # s => edge'[t][g] = edge[t][g]
              /\ \A e \in ready : e = d \/ evMap[f][e] # NoCo => e \in edge'[s][f]
<1> DEFINE o == Other(d)
<1>d. PICK data : data = [evMap[f] EXCEPT ![d] = c]
  OBVIOUS
<1>0. o \in Dirs /\ o # d /\ Dirs = {d, o} /\ c # NoCo
  BY TwoDirs, SockAssumption
<1>1. Watched(s, f) = (evMap[f][o] # NoCo)
  <2>1. ASSUME Watched(s, f) PROVE evMap[f][o] # NoCo
    <3>1. \E e \in Dirs : evMap[f][e] # NoCo
      BY <2>1 DEF KernelInv, Watched
    <3> QED
      BY <3>1, <1>0
  <2>2. ASSUME evMap[f][o] # NoCo PROVE Watched(s, f)
    BY <1>0, <2>2 DEF KernelInv, InOne
  <2>3. Watched(s, f) \in BOOLEAN
    BY DEF Watched
  <2> QED
    BY <2>1, <2>2, <2>3
<1>2. AddEventOk(s, f, d)
  BY <1>1 DEF AddEventOk
<1>3. SUFFICES ASSUME AddEvent(s, f, d, c, ready)
               PROVE  /\ evMap' = [evMap EXCEPT ![f] = [evMap[f] EXCEPT ![d] = c]]
                      /\ EpollTypeOK' /\ KernelInv'
                      /\ \A t \in Scheds, g \in Fds : g # f \/ t # s => edge'[t][g] = edge[t][g]
                      /\ \A e \in ready : e = d \/ evMap[f][e] # NoCo => e \in edge'[s][f]
  BY <1>2
<1>4. data \in [Dirs -> Cos \cup {NoCo}] /\ data[d] = c /\ data[o] = evMap[f][o]
  BY <1>0, <1>d DEF EpollTypeOK
<1>5. evMap' = [evMap EXCEPT ![f] = data]
  BY <1>1, <1>3, <1>d DEF AddEvent
<1>6. InUse(data) = {d} \cup (IF evMap[f][o] # NoCo THEN {o} ELSE {})
  BY <1>0, <1>4 DEF InUse
<1>7. Ctl(s, f, InUse(data), data, ready)
  BY <1>1, <1>3, <1>6, <1>d DEF AddEvent
<1>8. /\ EpollTypeOK' /\ KernelInv'
      /\ \A t \in Scheds, g \in Fds : g # f \/ t # s => edge'[t][g] = edge[t][g]
      /\ InUse(data) \cap ready \subseteq edge'[s][f]
  <2>1. \A e \in Dirs : data[e] # NoCo => SchedOf[data[e]] = s
    BY <1>0, <1>4 DEF InOne
  <2> QED
    BY <1>4, <1>5, <1>7, <2>1, CtlLaw
<1>9. \A e \in ready : e = d \/ evMap[f][e] # NoCo => e \in edge'[s][f]
  BY <1>0, <1>4, <1>8 DEF InUse
<1> QED
  BY <1>5, <1>8, <1>9, <1>d

\* A step that leaves the map and the kernel alone.
LEMMA EpollKept ==
    ASSUME EpollTypeOK, KernelInv, UNCHANGED epollVars
    PROVE  EpollTypeOK' /\ KernelInv'
<1>1. EpollTypeOK'
  BY DEF epollVars, EpollTypeOK
<1>2. KernelInv'
  BY DEF KernelInv, Watched, epollVars
<1> QED
  BY <1>1, <1>2

\* del_event(fd): the descriptor leaves the map and the kernel.
LEMMA DelAllLaw ==
    ASSUME EpollTypeOK, KernelInv, NEW f \in Fds, NEW s \in Scheds,
           InOne(f, s), DelAll(s, f)
    PROVE  /\ evMap' = [evMap EXCEPT ![f] = Nobody]
           /\ EpollTypeOK' /\ KernelInv'
           /\ \A t \in Scheds, g \in Fds : g # f => edge'[t][g] = edge[t][g]
<1>1. CASE evMap[f] = Nobody
  <2>1. UNCHANGED epollVars
    BY <1>1 DEF DelAll
  <2>2. evMap' = [evMap EXCEPT ![f] = Nobody]
    BY <1>1, <2>1 DEF epollVars, EpollTypeOK
  <2>3. EpollTypeOK' /\ KernelInv'
    BY <2>1, EpollKept
  <2> QED
    BY <2>1, <2>2, <2>3 DEF epollVars
<1>2. CASE evMap[f] # Nobody
  <2>1. evMap' = [evMap EXCEPT ![f] = Nobody] /\ Ctl(s, f, {}, Nobody, {})
    BY <1>2 DEF DelAll
  <2>2. PICK data \in [Dirs -> Cos \cup {NoCo}] : data = Nobody
    BY DEF Nobody
  <2>a. InUse(data) = {} /\ \A d \in Dirs : data[d] = NoCo
    BY <2>2 DEF Nobody, InUse
  <2>r. PICK ready \in SUBSET Dirs : ready = {}
    OBVIOUS
  <2>b. evMap' = [evMap EXCEPT ![f] = data] /\ Ctl(s, f, InUse(data), data, ready)
    BY <2>1, <2>2, <2>a, <2>r
  <2>3. /\ EpollTypeOK' /\ KernelInv'
        /\ \A t \in Scheds, g \in Fds : g # f \/ t # s => edge'[t][g] = edge[t][g]
    <3>1. \A d \in Dirs : data[d] # NoCo => SchedOf[data[d]] = s
      BY <2>a
    <3> QED
      BY <2>b, <3>1, CtlLaw
  <2> QED
    BY <2>1, <2>3
<1> QED
  BY <1>1, <1>2
----------------------------------------------------------------------------
\* The calls of the coroutines other than c are what they were.
OthersKept(c) == \A b \in Cos : b # c => op'[b] = op[b]

\* The events that are still to be reported to coroutines other than c are.
EdgesKept(c) ==
    \A b \in Cos : /\ b # c /\ Registered(b) /\ op[b].dir \in Ready(op[b].fd)
                   /\ op[b].dir \in edge[SchedOf[b]][op[b].fd]
                   => op[b].dir \in edge'[SchedOf[b]][op[b].fd]

\* No socket that somebody else uses becomes ready.
ReadyKept(c) ==
    \A b \in Cos, f \in Fds, d \in Dirs :
       b # c /\ Registered(b) /\ op[b].fd = f /\ op[b].dir = d /\ (d \in Ready(f))' => d \in Ready(f)

\* ~IoEvent: a call that does not wait any more gives back its registration.
LEMMA FinishLaw ==
    ASSUME IInv, NEW c \in Cos, InCall(c),
           op[c].at = "wait" => op[c].kind # "poll",
           IF op[c].has THEN DelEvent(SchedOf[c], op[c].fd, op[c].dir, Ready(op[c].fd))
           ELSE UNCHANGED epollVars,
           OthersKept(c), op'[c].at # "wait", ~op'[c].has
    PROVE  EpollTypeOK' /\ KernelInv' /\ MapInv' /\ EdgesKept(c)
<1> DEFINE f == op[c].fd
           d == op[c].dir
           s == SchedOf[c]
<1>0. /\ EpollTypeOK /\ TypeOK /\ OutInv /\ OpenInv /\ MapInv /\ KernelInv /\ ShareInv
      /\ c # NoCo /\ s \in Scheds /\ f \in Fds /\ d \in Dirs
  BY SockAssumption DEF IInv, TypeOK, OutInv, InCall, Ops
<1>1. ~Registered(c)'
  BY DEF Registered
<1>2. \A b \in Cos : b # c => Registered(b)' = Registered(b)
  BY DEF Registered, OthersKept, InCall
<1>3. Registered(c) = op[c].has
  BY <1>0 DEF Registered, InCall, TypeOK, Ops
<1>4. CASE op[c].has
  <2>1. Registered(c) /\ evMap[f][d] = c /\ InOne(f, s)
    BY <1>0, <1>3, <1>4, RegisteredLaw, OneLaw DEF InCall
  <2>2. Ready(f) \in SUBSET Dirs
    BY DEF Ready
  <2>3. /\ evMap' = [evMap EXCEPT ![f] = [evMap[f] EXCEPT ![d] = NoCo]]
        /\ EpollTypeOK' /\ KernelInv'
        /\ \A t \in Scheds, g \in Fds : g # f \/ t # s => edge'[t][g] = edge[t][g]
        /\ \A e \in Ready(f) : e # d /\ evMap[f][e] # NoCo => e \in edge'[s][f]
    BY <1>0, <1>4, <2>1, <2>2, DelLaw
  <2>4. /\ evMap'[f][d] = NoCo
        /\ \A g \in Fds, e \in Dirs : g # f \/ e # d => evMap'[g][e] = evMap[g][e]
    BY <1>0, <2>3 DEF EpollTypeOK
  <2>5. MapInv'
    <3>1. ASSUME NEW g \in Fds, NEW e \in Dirs, evMap'[g][e] # NoCo
          PROVE  /\ Registered(evMap[g][e])' /\ op'[evMap'[g][e]].fd = g
                 /\ op'[evMap'[g][e]].dir = e
      <4>1. evMap'[g][e] = evMap[g][e] /\ (g # f \/ e # d)
        BY <2>4, <3>1
      <4>2. /\ Registered(evMap[g][e]) /\ op[evMap[g][e]].fd = g /\ op[evMap[g][e]].dir = e
            /\ evMap[g][e] \in Cos
        BY <1>0, <3>1, <4>1 DEF MapInv, EpollTypeOK
      <4>3. PICK b \in Cos : b = evMap[g][e]
        BY <4>2
      <4>4. b # c /\ Registered(b)
        BY <4>1, <4>2, <4>3
      <4> QED
        BY <1>2, <4>1, <4>2, <4>3, <4>4 DEF OthersKept
    <3>2. ASSUME NEW b \in Cos, Registered(b)'
          PROVE  evMap'[op'[b].fd][op'[b].dir] = b
      <4>1. b # c /\ Registered(b) /\ op'[b] = op[b]
        BY <1>1, <1>2, <3>2 DEF OthersKept
      <4>2. evMap[op[b].fd][op[b].dir] = b /\ op[b].fd \in Fds /\ op[b].dir \in Dirs
        BY <1>0, <4>1, RegisteredLaw
      <4> QED
        BY <2>1, <2>4, <4>1, <4>2
    <3>3. ASSUME NEW b \in Cos, op'[b].at = "wait"
          PROVE  Registered(b)'
      BY <1>0, <1>2, <3>3 DEF MapInv, OthersKept
    <3> QED
      BY <3>1, <3>2, <3>3 DEF MapInv
  <2>6. EdgesKept(c)
    <3> SUFFICES ASSUME NEW b \in Cos, b # c, Registered(b), op[b].dir \in Ready(op[b].fd),
                        op[b].dir \in edge[SchedOf[b]][op[b].fd]
                 PROVE  op[b].dir \in edge'[SchedOf[b]][op[b].fd]
      BY DEF EdgesKept
    <3>1. /\ evMap[op[b].fd][op[b].dir] = b /\ op[b].fd \in Fds /\ op[b].dir \in Dirs
          /\ b # NoCo /\ SchedOf[b] \in Scheds
      BY <1>0, RegisteredLaw, SockAssumption
    <3>2. CASE op[b].fd = f
      <4>1. op[b].dir # d
        BY <2>1, <3>1, <3>2
      <4>2. SchedOf[b] = s
        BY <2>1, <3>1, <3>2 DEF InOne
      <4> QED
        BY <2>3, <3>1, <3>2, <4>1, <4>2
    <3>3. CASE op[b].fd # f
      BY <2>3, <3>1, <3>3
    <3> QED
      BY <3>2, <3>3
  <2> QED
    BY <2>3, <2>5, <2>6
<1>5. CASE ~op[c].has
  <2>1. UNCHANGED epollVars
    BY <1>5
  <2>2. EpollTypeOK' /\ KernelInv'
    BY <1>0, <2>1, EpollKept
  <2>3. ~Registered(c)
    BY <1>3, <1>5
  <2>4. MapInv'
    <3>1. ASSUME NEW g \in Fds, NEW e \in Dirs, evMap[g][e] # NoCo
          PROVE  /\ Registered(evMap[g][e])' /\ op'[evMap[g][e]].fd = g
                 /\ op'[evMap[g][e]].dir = e
      <4>1. /\ Registered(evMap[g][e]) /\ op[evMap[g][e]].fd = g /\ op[evMap[g][e]].dir = e
            /\ evMap[g][e] \in Cos
        BY <1>0, <3>1 DEF MapInv, EpollTypeOK
      <4>2. PICK b \in Cos : b = evMap[g][e]
        BY <4>1
      <4>3. b # c /\ Registered(b) /\ evMap'[g][e] = b
        BY <2>1, <2>3, <4>1, <4>2 DEF epollVars
      <4> QED
        BY <1>2, <4>1, <4>2, <4>3 DEF OthersKept
    <3>2. ASSUME NEW b \in Cos, Registered(b)'
          PROVE  evMap[op'[b].fd][op'[b].dir] = b
      BY <1>0, <1>1, <1>2, <3>2 DEF OthersKept, MapInv
    <3>3. ASSUME NEW b \in Cos, op'[b].at = "wait"
          PROVE  Registered(b)'
      BY <1>0, <1>2, <3>3 DEF MapInv, OthersKept
    <3> QED
      BY <2>1, <3>1, <3>2, <3>3 DEF MapInv, epollVars
  <2>5. EdgesKept(c)
    BY <2>1 DEF EdgesKept, epollVars
  <2> QED
    BY <2>2, <2>4, <2>5
<1> QED
  BY <1>4, <1>5

\* A step that leaves the map and the registrations alone.
LEMMA MapKept ==
    ASSUME EpollTypeOK, MapInv, UNCHANGED epollVars,
           \A b \in Cos : Registered(b)' = Registered(b),
           \A b \in Cos : Registered(b) => op'[b].fd = op[b].fd /\ op'[b].dir = op[b].dir,
           \A b \in Cos : op'[b].at = "wait" => Registered(b)'
    PROVE  MapInv'
<1>1. ASSUME NEW g \in Fds, NEW e \in Dirs, evMap[g][e] # NoCo
      PROVE  /\ Registered(evMap[g][e])' /\ op'[evMap[g][e]].fd = g
             /\ op'[evMap[g][e]].dir = e
  <2>1. /\ Registered(evMap[g][e]) /\ op[evMap[g][e]].fd = g /\ op[evMap[g][e]].dir = e
        /\ evMap[g][e] \in Cos
    BY <1>1 DEF MapInv, EpollTypeOK
  <2>2. PICK b \in Cos : b = evMap[g][e]
    BY <2>1
  <2>3. Registered(b) /\ evMap'[g][e] = b
    BY <2>1, <2>2 DEF epollVars
  <2> QED
    BY <2>1, <2>2, <2>3
<1>2. ASSUME NEW b \in Cos, Registered(b)'
      PROVE  evMap[op'[b].fd][op'[b].dir] = b
  BY <1>2 DEF MapInv
<1> QED
  BY <1>1, <1>2 DEF MapInv, epollVars

\* IoEvent::wait of a call that has no registration yet: the registration
\* succeeds, and what the socket is ready for is reported.
LEMMA WaitLaw ==
    ASSUME IInv, NEW c \in Cos, op[c].at = "again", ~op[c].has
    PROVE  /\ AddEventOk(SchedOf[c], op[c].fd, op[c].dir)
           /\ /\ AddEvent(SchedOf[c], op[c].fd, op[c].dir, c, Ready(op[c].fd))
              /\ UNCHANGED sock /\ OthersKept(c) /\ Registered(c)'
              /\ op'[c].fd = op[c].fd /\ op'[c].dir = op[c].dir
              => /\ EpollTypeOK' /\ KernelInv' /\ MapInv' /\ EdgesKept(c)
                 /\ op[c].dir \in Ready(op[c].fd) =>
                       op[c].dir \in edge'[SchedOf[c]][op[c].fd]
<1> DEFINE f == op[c].fd
           d == op[c].dir
           s == SchedOf[c]
<1>0. /\ EpollTypeOK /\ TypeOK /\ OutInv /\ OpenInv /\ MapInv /\ KernelInv /\ ShareInv
      /\ c # NoCo /\ s \in Scheds /\ f \in Fds /\ d \in Dirs
  BY SockAssumption DEF IInv, TypeOK, OutInv, InCall, Ops
<1>1. ~Registered(c)
  BY DEF Registered, InCall
<1>2. InOne(f, s)
  BY <1>0, OneLaw
<1>3. evMap[f][d] = NoCo
  <2> SUFFICES ASSUME evMap[f][d] # NoCo PROVE FALSE
    OBVIOUS
  <2>1. PICK b \in Cos : b = evMap[f][d]
    BY <1>0 DEF EpollTypeOK
  <2>2. Registered(b) /\ op[b].fd = f /\ op[b].dir = d
    BY <1>0, <2>1 DEF MapInv
  <2>3. b # c /\ f # 0
    BY <1>0, <1>1, <2>2, SockAssumption
  <2> QED
    BY <1>0, <2>2, <2>3 DEF ShareInv
<1>4. Ready(f) \in SUBSET Dirs
  BY DEF Ready
<1>5. AddEventOk(s, f, d)
  <2>1. \A e \in Dirs : e # d => e = Other(d)
    BY <1>0, TwoDirs
  <2>2. Other(d) \in Dirs
    BY <1>0, TwoDirs
  <2>3. Watched(s, f) => evMap[f][Other(d)] # NoCo
    BY <1>0, <1>3, <2>1 DEF KernelInv, Watched
  <2>4. evMap[f][Other(d)] # NoCo => Watched(s, f)
    BY <1>0, <1>2, <2>2 DEF KernelInv, InOne
  <2>5. Watched(s, f) \in BOOLEAN
    BY DEF Watched
  <2> QED
    BY <2>3, <2>4, <2>5 DEF AddEventOk
<1>6. SUFFICES ASSUME AddEvent(s, f, d, c, Ready(f)), UNCHANGED sock, OthersKept(c),
                      Registered(c)', op'[c].fd = f, op'[c].dir = d
               PROVE  /\ EpollTypeOK' /\ KernelInv' /\ MapInv' /\ EdgesKept(c)
                      /\ d \in Ready(f) => d \in edge'[s][f]
  BY <1>5
<1>8. /\ evMap' = [evMap EXCEPT ![f] = [evMap[f] EXCEPT ![d] = c]]
      /\ EpollTypeOK' /\ KernelInv'
      /\ \A t \in Scheds, g \in Fds : g # f \/ t # s => edge'[t][g] = edge[t][g]
      /\ \A e \in Ready(f) : e = d \/ evMap[f][e] # NoCo => e \in edge'[s][f]
  BY <1>0, <1>2, <1>3, <1>4, <1>6, AddLaw
<1>9. /\ evMap'[f][d] = c
      /\ \A g \in Fds, e \in Dirs : g # f \/ e # d => evMap'[g][e] = evMap[g][e]
  BY <1>0, <1>8 DEF EpollTypeOK
<1>10. \A b \in Cos : b # c => Registered(b)' = Registered(b)
  BY <1>6 DEF Registered, OthersKept, InCall
<1>11. MapInv'
  <2>1. ASSUME NEW g \in Fds, NEW e \in Dirs, evMap'[g][e] # NoCo
        PROVE  /\ Registered(evMap[g][e])' /\ op'[evMap'[g][e]].fd = g
               /\ op'[evMap'[g][e]].dir = e
    <3>1. CASE g = f /\ e = d
      BY <1>6, <1>9, <3>1
    <3>2. CASE g # f \/ e # d
      <4>1. /\ Registered(evMap[g][e]) /\ op[evMap[g][e]].fd = g /\ op[evMap[g][e]].dir = e
            /\ evMap[g][e] \in Cos /\ evMap'[g][e] = evMap[g][e]
        BY <1>0, <1>9, <2>1, <3>2 DEF MapInv, EpollTypeOK
      <4>2. PICK b \in Cos : b = evMap[g][e]
        BY <4>1
      <4>3. b # c /\ Registered(b)
        BY <1>1, <4>1, <4>2
      <4> QED
        BY <1>6, <1>10, <4>1, <4>2, <4>3 DEF OthersKept
    <3> QED
      BY <3>1, <3>2
  <2>2. ASSUME NEW b \in Cos, Registered(b)'
        PROVE  evMap'[op'[b].fd][op'[b].dir] = b
    <3>1. CASE b = c
      BY <1>6, <1>9, <3>1
    <3>2. CASE b # c
      <4>1. Registered(b) /\ op'[b] = op[b]
        BY <1>6, <1>10, <2>2, <3>2 DEF OthersKept
      <4>2. evMap[op[b].fd][op[b].dir] = b /\ op[b].fd \in Fds /\ op[b].dir \in Dirs
        BY <1>0, <4>1, RegisteredLaw
      <4>3. b # NoCo
        BY SockAssumption
      <4> QED
        BY <1>3, <1>9, <4>1, <4>2, <4>3
    <3> QED
      BY <3>1, <3>2
  <2>3. ASSUME NEW b \in Cos, op'[b].at = "wait"
        PROVE  Registered(b)'
    BY <1>0, <1>6, <1>10, <2>3 DEF MapInv, OthersKept
  <2> QED
    BY <2>1, <2>2, <2>3 DEF MapInv
<1>12. EdgesKept(c)
  <2> SUFFICES ASSUME NEW b \in Cos, b # c, Registered(b), op[b].dir \in Ready(op[b].fd),
                      op[b].dir \in edge[SchedOf[b]][op[b].fd]
               PROVE  op[b].dir \in edge'[SchedOf[b]][op[b].fd]
    BY DEF EdgesKept
  <2>1. /\ evMap[op[b].fd][op[b].dir] = b /\ op[b].fd \in Fds /\ op[b].dir \in Dirs
        /\ b # NoCo /\ SchedOf[b] \in Scheds
    BY <1>0, RegisteredLaw, SockAssumption
  <2>2. CASE op[b].fd = f
    <3>1. SchedOf[b] = s
      BY <1>2, <2>1, <2>2 DEF InOne
    <3> QED
      BY <1>8, <2>1, <2>2, <3>1
  <2>3. CASE op[b].fd # f
    BY <1>8, <2>1, <2>3
  <2> QED
    BY <2>2, <2>3
<1> QED
  BY <1>8, <1>11, <1>12

\* What frees a descriptor altogether, for a coroutine that has it for itself.
LEMMA FreeLaw ==
    ASSUME IInv, NEW c \in Cos, NEW f \in Fds,
           \A b \in Cos : b # c => op[b].fd # f,
           Registered(c) => op[c].fd = f,
           evMap' = [evMap EXCEPT ![f] = Nobody],
           \A t \in Scheds, g \in Fds : g # f => edge'[t][g] = edge[t][g],
           OthersKept(c), op'[c].at # "wait", ~op'[c].has
    PROVE  MapInv' /\ EdgesKept(c)
<1>0. EpollTypeOK /\ TypeOK /\ OutInv /\ OpenInv /\ MapInv /\ KernelInv
  BY DEF IInv, TypeOK
<1>1. ~Registered(c)'
  BY DEF Registered
<1>2. \A b \in Cos : b # c => Registered(b)' = Registered(b)
  BY DEF Registered, OthersKept, InCall
<1>3. /\ \A e \in Dirs : evMap'[f][e] = NoCo
      /\ \A g \in Fds : g # f => evMap'[g] = evMap[g]
  BY <1>0 DEF EpollTypeOK, Nobody
<1>4. ASSUME NEW g \in Fds, NEW e \in Dirs, evMap'[g][e] # NoCo
      PROVE  /\ Registered(evMap[g][e])' /\ op'[evMap'[g][e]].fd = g
             /\ op'[evMap'[g][e]].dir = e
  <2>1. /\ Registered(evMap[g][e]) /\ op[evMap[g][e]].fd = g /\ op[evMap[g][e]].dir = e
        /\ evMap[g][e] \in Cos /\ evMap'[g][e] = evMap[g][e] /\ g # f
    BY <1>0, <1>3, <1>4 DEF MapInv, EpollTypeOK
  <2>2. PICK b \in Cos : b = evMap[g][e]
    BY <2>1
  <2>3. b # c /\ Registered(b)
    BY <2>1, <2>2
  <2> QED
    BY <1>2, <2>1, <2>2, <2>3 DEF OthersKept
<1>5. ASSUME NEW b \in Cos, Registered(b)'
      PROVE  evMap'[op'[b].fd][op'[b].dir] = b
  <2>1. b # c /\ Registered(b) /\ op'[b] = op[b] /\ op[b].fd # f
    BY <1>1, <1>2, <1>5 DEF OthersKept
  <2>2. evMap[op[b].fd][op[b].dir] = b /\ op[b].fd \in Fds
    BY <1>0, <2>1, RegisteredLaw
  <2> QED
    BY <1>3, <2>1, <2>2
<1>6. ASSUME NEW b \in Cos, op'[b].at = "wait"
      PROVE  Registered(b)'
  BY <1>0, <1>2, <1>6 DEF MapInv, OthersKept
<1>7. MapInv'
  BY <1>4, <1>5, <1>6 DEF MapInv
<1>8. EdgesKept(c)
  <2> SUFFICES ASSUME NEW b \in Cos, b # c, Registered(b),
                      op[b].dir \in edge[SchedOf[b]][op[b].fd]
               PROVE  op[b].dir \in edge'[SchedOf[b]][op[b].fd]
    BY DEF EdgesKept
  <2>1. op[b].fd \in Fds /\ SchedOf[b] \in Scheds
    BY <1>0, RegisteredLaw, SockAssumption
  <2> QED
    BY <2>1
<1> QED
  BY <1>7, <1>8

----------------------------------------------------------------------------
\* No open socket is closed or shut down, and what is open has its information.
SocksKept ==
    /\ \A g \in Fds : sock[g].open =>
          /\ sock'[g].open /\ sock'[g].shut = sock[g].shut
          /\ info'[g].gen = info[g].gen
    /\ \A g \in Fds : sock'[g].open /\ ~sock'[g].shut =>
          info'[g].gen # 0 /\ sock'[g].nonblock /\ info'[g].nonblock = sock'[g].want

\* c ends its call or goes on with it.
Stays(c) ==
    \/ op'[c] = NoOp
    \/ /\ InCall(c) /\ op'[c].at \in {"try", "again", "wait"}
       /\ op'[c].fd = op[c].fd /\ op'[c].dir = op[c].dir
       /\ op'[c].kind = op[c].kind /\ op'[c].gen = op[c].gen

\* The calls after a step of one of them that touches no other.
LEMMA StayLaw ==
    ASSUME IInv, SocksKept, NEW c, OthersKept(c), c \in Cos => Stays(c)
    PROVE  OutInv' /\ OpenInv' /\ ShareInv' /\ InfoInv'
<1>0. TypeOK /\ OutInv /\ OpenInv /\ ShareInv /\ InfoInv
  BY DEF IInv
<1>1. \A b \in Cos : \/ op'[b] = NoOp
                     \/ op'[b] = op[b]
                     \/ /\ op[b].at \in {"try", "again", "wait"}
                        /\ op'[b].at \in {"try", "again", "wait"}
                        /\ op'[b].fd = op[b].fd /\ op'[b].dir = op[b].dir
                        /\ op'[b].kind = op[b].kind /\ op'[b].gen = op[b].gen
  BY DEF Stays, OthersKept, InCall
<1>2. NoOp.at = "out" /\ NoOp.fd = 0 /\ NoOp.gen = 0
  BY DEF NoOp
<1>3. OutInv'
  BY <1>0, <1>1, <1>2 DEF OutInv
<1>4. OpenInv'
  BY <1>0, <1>1, <1>2 DEF OpenInv, OutInv, SocksKept
<1>5. ShareInv'
  <2> SUFFICES ASSUME NEW a \in Cos, NEW b \in Cos, a # b, op'[a].fd = op'[b].fd, op'[b].fd # 0
               PROVE  /\ SchedOf[a] = SchedOf[b] /\ op'[a].dir # op'[b].dir
                      /\ op'[a].kind # "poll" /\ op'[a].at # "closing"
    BY DEF ShareInv
  <2>1. /\ op[a].fd = op'[a].fd /\ op[a].dir = op'[a].dir /\ op[a].kind = op'[a].kind
        /\ op'[a].at = "closing" => op[a].at = "closing"
    BY <1>1, <1>2
  <2>2. op[b].fd = op'[b].fd /\ op[b].dir = op'[b].dir
    BY <1>1, <1>2
  <2> QED
    BY <1>0, <2>1, <2>2 DEF ShareInv
<1>6. InfoInv'
  <2>1. ASSUME NEW b \in Cos, InCall(b)', op'[b].gen # 0
        PROVE  info'[op'[b].fd].gen = op'[b].gen
    <3>1. op'[b] # NoOp
      BY <1>2, <2>1
    <3>2. InCall(b) /\ op'[b].fd = op[b].fd /\ op'[b].gen = op[b].gen
      BY <1>1, <2>1, <3>1 DEF InCall
    <3>3. op[b].at # "out" /\ op[b].fd \in Fds
      BY <1>0, <3>2 DEF InCall, OutInv
    <3>4. sock[op[b].fd].open
      BY <1>0, <3>3 DEF OpenInv
    <3> QED
      BY <1>0, <2>1, <3>2, <3>3, <3>4 DEF InfoInv, SocksKept
  <2> QED
    BY <2>1 DEF InfoInv, SocksKept
<1> QED
  BY <1>3, <1>4, <1>5, <1>6

\* The events of the other coroutines after a step of one of them.
LEMMA EdgeLaw ==
    ASSUME IInv, NEW c, OthersKept(c), EdgesKept(c), ReadyKept(c), c \in Cos => EdgeOf(c)',
           \A b \in Cos : b # c => \A x \in batch[SchedOf[b]] : x.co = b => x \in batch'[SchedOf[b]]
    PROVE  EdgeInv'
<1> SUFFICES ASSUME NEW b \in Cos, b # c PROVE EdgeOf(b)'
  BY DEF EdgeInv
<1>0. TypeOK /\ OutInv /\ OpenInv /\ MapInv /\ KernelInv /\ EdgeOf(b)
  BY DEF IInv, EdgeInv
<1>1. op'[b] = op[b]
  BY DEF OthersKept
<1> SUFFICES ASSUME op[b].at = "wait" \/ (op[b].at = "again" /\ op[b].has),
                    (op[b].dir \in Ready(op[b].fd))'
             PROVE  \/ op[b].dir \in edge'[SchedOf[b]][op[b].fd]
                    \/ op[b].at = "wait" /\ \E x \in batch'[SchedOf[b]] : x.co = b
  BY <1>1 DEF EdgeOf
<1>2. Registered(b)
  BY <1>0 DEF MapInv, Registered, InCall
<1>3. op[b].fd \in Fds /\ op[b].dir \in Dirs
  BY <1>0, <1>2, RegisteredLaw
<1>4. PICK f \in Fds, d \in Dirs : f = op[b].fd /\ d = op[b].dir
  BY <1>3
<1>5. (d \in Ready(f))'
  BY <1>1, <1>4 DEF Ready
<1>6. d \in Ready(f)
  BY <1>2, <1>4, <1>5 DEF ReadyKept
<1>7. op[b].dir \in Ready(op[b].fd)
  BY <1>4, <1>6
<1>8. \/ op[b].dir \in edge[SchedOf[b]][op[b].fd]
      \/ op[b].at = "wait" /\ \E x \in batch[SchedOf[b]] : x.co = b
  BY <1>0, <1>7 DEF EdgeOf
<1> QED
  BY <1>2, <1>7, <1>8 DEF EdgesKept
----------------------------------------------------------------------------
\* A step that changes no call and leaves the events alone.
LEMMA IdleLaw ==
    ASSUME IInv, SocksKept, UNCHANGED <<epollVars, op, batch>>, TypeOK', RunInv',
           \A f \in Fds : sock[f].open => Ready(f)' = Ready(f)
    PROVE  IInv'
<1>0. /\ TypeOK /\ EpollTypeOK /\ OutInv /\ OpenInv /\ MapInv /\ KernelInv /\ BatchInv
      /\ NoCo \notin Cos
  BY SockAssumption DEF IInv, TypeOK
<1>1. OthersKept(NoCo) /\ EdgesKept(NoCo)
  BY DEF OthersKept, EdgesKept, epollVars
<1>2. ReadyKept(NoCo)
  <2> SUFFICES ASSUME NEW b \in Cos, NEW f \in Fds, NEW d \in Dirs,
                      Registered(b), op[b].fd = f, (d \in Ready(f))'
               PROVE  d \in Ready(f)
    BY DEF ReadyKept
  <2>1. op[b].at # "out"
    BY DEF Registered, InCall
  <2>2. sock[f].open
    BY <1>0, <2>1 DEF OpenInv
  <2> QED
    BY <2>2
<1>3. OutInv' /\ OpenInv' /\ ShareInv' /\ InfoInv'
  BY <1>0, <1>1, StayLaw
<1>5. KernelInv'
  BY <1>0, EpollKept
<1>6. \A b \in Cos : Registered(b)' = Registered(b)
  BY DEF Registered, InCall
<1>7. MapInv'
  BY <1>0, <1>6, MapKept DEF MapInv
<1>8. EdgeInv'
  BY <1>0, <1>1, <1>2, EdgeLaw
<1>9. BatchInv'
  BY <1>0 DEF BatchInv
<1> QED
  BY <1>3, <1>5, <1>7, <1>8, <1>9 DEF IInv

\* A step that leaves the sockets and their information alone.
LEMMA SocksLaw ==
    ASSUME IInv, UNCHANGED <<sock, info>>
    PROVE  /\ SocksKept /\ \A f \in Fds : Ready(f)' = Ready(f)
           /\ \A c : ReadyKept(c)
<1>1. SocksKept
  BY DEF IInv, InfoInv, SocksKept
<1>2. \A f \in Fds : Ready(f)' = Ready(f)
  BY DEF Ready
<1>3. \A c : ReadyKept(c)
  BY <1>2 DEF ReadyKept
<1> QED
  BY <1>1, <1>2, <1>3

\* A coroutine is resumed for another reason than a socket.
LEMMA EnterStep ==
    ASSUME IInv, NEW c \in Cos, Enter(c)
    PROVE  IInv'
<1>1. TypeOK' /\ RunInv'
  <2>1. SchedOf[c] \in Scheds /\ NoCo \notin Cos
    BY SockAssumption
  <2>2. TypeOK'
    BY <2>1 DEF IInv, TypeOK, EpollTypeOK, Enter, epollVars
  <2>3. RunInv'
    BY <2>1 DEF IInv, TypeOK, RunInv, Enter, Runs
  <2> QED
    BY <2>2, <2>3
<1> QED
  BY <1>1, SocksLaw, IdleLaw DEF Enter

\* A coroutine yields for another reason than a socket.
LEMMA LeaveStep ==
    ASSUME IInv, NEW c \in Cos, Leave(c)
    PROVE  IInv'
<1>1. TypeOK' /\ RunInv'
  <2>1. SchedOf \in [Cos -> Scheds] /\ NoCo \notin Cos
    BY SockAssumption
  <2>2. TypeOK'
    BY <2>1 DEF IInv, TypeOK, EpollTypeOK, Leave, epollVars
  <2>3. RunInv'
    BY <2>1 DEF IInv, TypeOK, RunInv, Leave, Runs, Free
  <2> QED
    BY <2>2, <2>3
<1> QED
  BY <1>1, SocksLaw, IdleLaw DEF Leave

\* setsockopt changes no more than a time limit.
LEMMA SetsockoptStep ==
    ASSUME IInv, NEW c \in Cos, Setsockopt(c)
    PROVE  IInv'
<1>1. PICK f \in Fds, d \in Dirs : info' = [info EXCEPT ![f].timed[d] = TRUE]
  BY DEF Setsockopt
<1>2. UNCHANGED <<epollVars, sock, op, running, batch, opened, prog>>
  BY DEF Setsockopt
<1>3. TypeOK'
  <2>1. info' \in [Fds -> Infos]
    BY <1>1 DEF IInv, TypeOK, Infos
  <2> QED
    BY <1>2, <2>1 DEF IInv, TypeOK, EpollTypeOK, epollVars
<1>4. RunInv'
  BY <1>2 DEF IInv, RunInv, Runs
<1>5. \A g \in Fds : info'[g].gen = info[g].gen /\ info'[g].nonblock = info[g].nonblock
  BY <1>1 DEF IInv, TypeOK
<1>6. SocksKept
  BY <1>2, <1>5 DEF IInv, InfoInv, SocksKept
<1>7. \A g \in Fds : Ready(g)' = Ready(g)
  BY <1>2 DEF Ready
<1> QED
  BY <1>2, <1>3, <1>4, <1>6, <1>7, IdleLaw

\* fcntl keeps the socket non-blocking and remembers the flag.
LEMMA FcntlStep ==
    ASSUME IInv, NEW c \in Cos, Fcntl(c)
    PROVE  IInv'
<1>1. PICK f \in Fds, nb \in BOOLEAN :
         /\ sock[f].open /\ ~sock[f].shut
         /\ sock' = [sock EXCEPT ![f].nonblock = FcntlKernel(info[f], nb), ![f].want = nb]
         /\ info' = [info EXCEPT ![f] = FcntlInfo(@, nb)]
  BY DEF Fcntl
<1>2. UNCHANGED <<epollVars, op, running, batch, opened, prog>>
  BY DEF Fcntl
<1>3. FcntlKernel(info[f], nb) = TRUE /\ FcntlInfo(info[f], nb) = [info[f] EXCEPT !.nonblock = nb]
  BY <1>1 DEF IInv, InfoInv, FcntlKernel, FcntlInfo
<1>4. TypeOK'
  <2>1. info \in [Fds -> Infos] /\ sock \in [Fds -> Sockets]
    BY DEF IInv, TypeOK
  <2>2. [info[f] EXCEPT !.nonblock = nb] \in Infos
    BY <2>1 DEF Infos
  <2>3. info' \in [Fds -> Infos]
    BY <1>1, <1>3, <2>1, <2>2
  <2>4. [sock[f] EXCEPT !.nonblock = TRUE, !.want = nb] \in Sockets
    BY <2>1 DEF Sockets
  <2>5. sock' = [sock EXCEPT ![f] = [sock[f] EXCEPT !.nonblock = TRUE, !.want = nb]]
    BY <1>1, <1>3, <2>1
  <2>6. sock' \in [Fds -> Sockets]
    BY <2>1, <2>4, <2>5
  <2> QED
    BY <1>2, <2>3, <2>6 DEF IInv, TypeOK, EpollTypeOK, epollVars
<1>5. RunInv'
  BY <1>2 DEF IInv, RunInv, Runs
<1>6. /\ \A g \in Fds : info'[g].gen = info[g].gen
      /\ \A g \in Fds : g # f => info'[g] = info[g] /\ sock'[g] = sock[g]
      /\ info'[f].nonblock = nb /\ sock'[f].want = nb /\ sock'[f].nonblock = TRUE
      /\ \A g \in Fds : /\ sock'[g].open = sock[g].open /\ sock'[g].broken = sock[g].broken
                        /\ sock'[g].shut = sock[g].shut /\ sock'[g].in = sock[g].in
                        /\ sock'[g].eof = sock[g].eof /\ sock'[g].room = sock[g].room
  BY <1>1, <1>3 DEF IInv, TypeOK, Infos, Sockets
<1>7. SocksKept
  BY <1>6 DEF IInv, InfoInv, SocksKept
<1>8. \A g \in Fds : Ready(g)' = Ready(g)
  BY <1>6 DEF Ready
<1> QED
  BY <1>2, <1>4, <1>5, <1>7, <1>8, IdleLaw

\* A new socket: it takes a descriptor that nobody uses and has its information.
LEMMA CreatedLaw ==
    ASSUME IInv, NEW nb \in BOOLEAN, NEW socks, Created(nb, socks),
           socks \in [Fds -> Sockets],
           \A g \in Fds : /\ socks[g].open = sock[g].open
                          /\ socks[g].shut = sock[g].shut /\ socks[g].want = sock[g].want
                          /\ socks[g].nonblock = sock[g].nonblock
    PROVE  /\ SocksKept /\ \A g \in Fds : sock[g].open => sock'[g] = socks[g]
           /\ sock' \in [Fds -> Sockets]
           /\ info' \in [Fds -> Infos]
           /\ opened' \in 0..MaxOpen
<1>0. /\ opened \in 0..MaxOpen /\ opened < MaxOpen /\ opened' = opened + 1 /\ MaxOpen \in Nat
      /\ prog.fds \subseteq Fds /\ Room \in Nat /\ MaxIn \in Nat
  BY SockAssumption DEF IInv, TypeOK, Created
<1>1. PICK f \in FreeFds :
        /\ sock' = [socks EXCEPT ![f] =
                     [Closed EXCEPT !.open = TRUE, !.room = Room,
                                    !.want = nb, !.nonblock = FcntlKernel(NewByFd(nb), nb)]]
        /\ info' = [info EXCEPT ![f] = NewByFd(nb)]
  BY DEF Created
<1>2. f \in Fds /\ ~sock[f].open
  BY <1>0, <1>1 DEF FreeFds
<1>3. NewByFd(nb) \in Infos /\ NewByFd(nb).gen = opened + 1 /\ NewByFd(nb).nonblock = nb
  <2>1. NoInfo \in Infos /\ TimeLimits \in [Dirs -> BOOLEAN]
    BY <1>0 DEF NoInfo, Infos, TimeLimits
  <2>2. PICK n \in 0..MaxOpen : n = opened + 1 /\ n # 0
    BY <1>0
  <2>3. PICK x : x = [NoInfo EXCEPT !.gen = n, !.timed = TimeLimits]
    OBVIOUS
  <2>4. x \in Infos /\ x.gen = n /\ x.gen # 0
    BY <2>1, <2>2, <2>3 DEF Infos
  <2>5. NewByFd(nb) = [x EXCEPT !.nonblock = nb]
    BY <2>2, <2>3, <2>4 DEF NewByFd, FcntlInfo
  <2> QED
    BY <2>2, <2>4, <2>5 DEF Infos
<1>4. FcntlKernel(NewByFd(nb), nb) = TRUE
  BY <1>0, <1>3 DEF FcntlKernel
<1> DEFINE new == [Closed EXCEPT !.open = TRUE, !.room = Room,
                                 !.want = nb, !.nonblock = TRUE]
<1>5. new \in Sockets /\ new.want = nb /\ new.nonblock = TRUE /\ new.open = TRUE
  <2>1. Closed \in Sockets
    BY <1>0 DEF Closed, Sockets
  <2>2. Room \in 0..Room
    BY <1>0
  <2> QED
    BY <2>1, <2>2 DEF Sockets
<1>6. /\ sock' = [socks EXCEPT ![f] = new]
      /\ info' = [info EXCEPT ![f] = NewByFd(nb)]
  BY <1>1, <1>4
<1> HIDE DEF new
<1>7. sock'[f] = new /\ \A g \in Fds : g # f => sock'[g] = socks[g]
  BY <1>2, <1>6
<1>8. info \in [Fds -> Infos]
  BY DEF IInv, TypeOK
<1>9. info'[f] = NewByFd(nb) /\ \A g \in Fds : g # f => info'[g] = info[g]
  BY <1>2, <1>6, <1>8
<1>10. NewByFd(nb).gen # 0 /\ NewByFd(nb).nonblock = nb
  BY <1>0, <1>3
<1>11. SocksKept
  <2>1. ASSUME NEW g \in Fds, sock[g].open
        PROVE  /\ sock'[g].open /\ sock'[g].shut = sock[g].shut
               /\ info'[g].gen = info[g].gen
    BY <1>2, <1>7, <1>9, <2>1
  <2>2. ASSUME NEW g \in Fds, sock'[g].open, ~sock'[g].shut
        PROVE  info'[g].gen # 0 /\ sock'[g].nonblock /\ info'[g].nonblock = sock'[g].want
    <3>1. CASE g = f
      BY <3>1, <1>5, <1>7, <1>9, <1>10
    <3>2. CASE g # f
      BY <2>2, <3>2, <1>7, <1>9 DEF IInv, InfoInv
    <3> QED
      BY <3>1, <3>2
  <2> QED
    BY <2>1, <2>2 DEF SocksKept
<1>12. info' \in [Fds -> Infos]
  BY <1>2, <1>3, <1>6, <1>8
<1>13. sock' \in [Fds -> Sockets]
  BY <1>2, <1>5, <1>6
<1>14. opened' \in 0..MaxOpen
  BY <1>0
<1> QED
  BY <1>2, <1>7, <1>11, <1>12, <1>13, <1>14

\* socket() disturbs no call.
LEMMA SocketStep ==
    ASSUME IInv, NEW c \in Cos, Socket(c)
    PROVE  IInv'
<1>1. PICK nb \in BOOLEAN : Created(nb, sock)
  BY DEF Socket, Flags
<1>2. UNCHANGED <<epollVars, op, running, batch, prog>>
  BY <1>1 DEF Socket, Created
<1>3. sock \in [Fds -> Sockets]
  BY DEF IInv, TypeOK
<1>4. /\ SocksKept /\ \A g \in Fds : sock[g].open => sock'[g] = sock[g]
      /\ sock' \in [Fds -> Sockets]
      /\ info' \in [Fds -> Infos]
      /\ opened' \in 0..MaxOpen
  BY <1>1, <1>3, CreatedLaw
<1>5. TypeOK'
  BY <1>2, <1>4 DEF IInv, TypeOK, EpollTypeOK, epollVars
<1>6. RunInv'
  BY <1>2 DEF IInv, RunInv, Runs
<1>7. \A f \in Fds : sock[f].open => Ready(f)' = Ready(f)
  BY <1>4 DEF Ready
<1> QED
  BY <1>2, <1>4, <1>5, <1>6, <1>7, IdleLaw

\* A call begins: nobody else uses its direction of the socket.
LEMMA CallBegins ==
    ASSUME IInv, ~Careless, NEW c \in Cos, NEW f \in Fds, NEW d \in Dirs,
           NEW kind \in Kinds \ {"direct"}, NEW hook \in BOOLEAN, NEW timed \in BOOLEAN,
           Call(c, f, d, kind, hook, timed), kind = "poll" => MayTakeAll(c, f)
    PROVE  IInv'
<1>0. /\ TypeOK /\ EpollTypeOK /\ OutInv /\ OpenInv /\ ShareInv /\ InfoInv /\ RunInv /\ MapInv
      /\ KernelInv /\ EdgeInv /\ BatchInv
  BY DEF IInv, TypeOK
<1>1. /\ Runs(c) /\ op[c].at = "out" /\ sock[f].open /\ ~sock[f].shut
      /\ \A b \in Cos : b # c /\ op[b].fd = f =>
            /\ SchedOf[b] = SchedOf[c] /\ op[b].dir # d
            /\ op[b].kind # "poll" /\ op[b].at # "closing"
      /\ UNCHANGED <<epollVars, sock, info, running, batch, opened, prog>>
  BY DEF Call, Free, MayCall
<1>2. info[f].gen # 0 /\ info[f] \in Infos
  BY <1>0, <1>1 DEF InfoInv, TypeOK
<1>3. /\ Need \in Nat /\ Chunk \in Nat /\ Need > 0 /\ Chunk > 0 /\ f \in Nat /\ f # 0
      /\ MaxOpen \in Nat /\ SchedOf[c] \in Scheds /\ NoCo \notin Cos
  BY SockAssumption
<1>4. NoOp \in Ops
  BY <1>3 DEF NoOp, Ops, Places, Dirs, Kinds
<1>5. PICK n \in 0..Need : n = IF kind = "all" THEN Need ELSE 1
  BY <1>3
<1>6. PICK first \in 0..Need : first = IF n < Chunk THEN n ELSE Chunk
  BY <1>3
<1>7. PICK left \in 0..Need : left = n - first
  BY <1>3, <1>5, <1>6
<1>8. PICK k \in Kinds : k = IF hook /\ info[f].nonblock THEN "direct" ELSE kind
  BY DEF Kinds
<1>9. PICK at \in {"again", "try"} : at = IF kind \in {"once", "poll"} THEN "again" ELSE "try"
  OBVIOUS
<1>10. PICK limit \in BOOLEAN : limit = IF hook /\ kind = "once" THEN info[f].timed[d] ELSE timed
  BY <1>2 DEF Infos
<1>11. PICK gen \in 0..MaxOpen : gen = IF hook /\ kind = "some" THEN info[f].gen ELSE 0
  BY <1>2, <1>3 DEF Infos
<1>12. PICK new : new = [NoOp EXCEPT !.fd = f, !.dir = d, !.remain = first, !.left = left,
                            !.kind = k, !.at = at, !.timed = limit, !.gen = gen]
  OBVIOUS
<1>13. /\ new \in Ops /\ new.fd = f /\ new.dir = d /\ new.kind = k /\ new.at = at
       /\ new.gen = gen /\ new.has = FALSE
  <2>1. NoOp.has = FALSE
    BY DEF NoOp
  <2>2. at \in Places
    BY <1>9 DEF Places
  <2> QED
    BY <1>4, <1>12, <2>1, <2>2 DEF Ops
<1>14. op' = [op EXCEPT ![c] = IF hook /\ info[f].nonblock /\ kind = "once" THEN NoOp ELSE new]
  <2>1. op' = [op EXCEPT ![c] =
          IF hook /\ info[f].nonblock /\ kind = "once" THEN NoOp
          ELSE [NoOp EXCEPT !.fd = f, !.dir = d, !.remain = first, !.left = n - first,
                  !.kind = IF hook /\ info[f].nonblock THEN "direct" ELSE kind,
                  !.at = IF hook /\ info[f].gen = 0 THEN "crash"
                         ELSE IF kind \in {"once", "poll"} THEN "again" ELSE "try",
                  !.timed = IF hook /\ kind = "once" THEN info[f].timed[d] ELSE timed,
                  !.gen = IF hook /\ kind = "some" THEN info[f].gen ELSE 0]]
    BY <1>5, <1>6 DEF Call
  <2>2. (IF hook /\ info[f].gen = 0 THEN "crash"
         ELSE IF kind \in {"once", "poll"} THEN "again" ELSE "try") = at
    BY <1>2, <1>9
  <2> QED
    BY <1>7, <1>8, <1>10, <1>11, <1>12, <2>1, <2>2
<1>15. op[c] = NoOp
  BY <1>0, <1>1 DEF OutInv
<1>16. op' \in [Cos -> Ops]
  BY <1>0, <1>4, <1>13, <1>14 DEF TypeOK
<1>17. TypeOK'
  BY <1>0, <1>1, <1>16 DEF TypeOK, EpollTypeOK, epollVars
<1>18. OthersKept(c)
  BY <1>0, <1>14 DEF OthersKept, TypeOK
<1>19. CASE hook /\ info[f].nonblock /\ kind = "once"
  <2>1. UNCHANGED op
    BY <1>0, <1>14, <1>15, <1>19 DEF TypeOK
  <2>2. RunInv'
    BY <1>0, <1>1, <2>1 DEF RunInv, Runs
  <2> QED
    BY <1>1, <1>17, <2>1, <2>2, SocksLaw, IdleLaw
<1>20. CASE ~(hook /\ info[f].nonblock /\ kind = "once")
  <2>1. op'[c] = new
    BY <1>0, <1>14, <1>20 DEF TypeOK
  <2>2. \A b \in Cos : Registered(b)' = Registered(b)
    <3>1. ~Registered(c)' /\ ~Registered(c)
      BY <1>1, <1>9, <1>13, <2>1, <1>15 DEF Registered, InCall, NoOp
    <3>2. \A b \in Cos : b # c => Registered(b)' = Registered(b)
      BY <1>18 DEF Registered, InCall, OthersKept
    <3>3. \A b \in Cos : Registered(b) \in BOOLEAN /\ Registered(b)' \in BOOLEAN
      BY <1>0, <1>16 DEF Registered, InCall, TypeOK, Ops
    <3> QED
      BY <3>1, <3>2, <3>3
  <2>3. OutInv'
    BY <1>0, <1>9, <1>13, <1>18, <2>1 DEF OutInv, OthersKept
  <2>4. OpenInv'
    BY <1>0, <1>1, <1>9, <1>13, <1>18, <2>1 DEF OpenInv, OthersKept
  <2>5. ShareInv'
    <3> SUFFICES ASSUME NEW a \in Cos, NEW b \in Cos, a # b, op'[a].fd = op'[b].fd, op'[b].fd # 0
                 PROVE  /\ SchedOf[a] = SchedOf[b] /\ op'[a].dir # op'[b].dir
                        /\ op'[a].kind # "poll" /\ op'[a].at # "closing"
      BY DEF ShareInv
    <3>1. CASE a = c
      <4>1. op[b].fd = f /\ op'[b] = op[b] /\ b # c
        BY <1>13, <1>18, <2>1, <3>1 DEF OthersKept
      <4>2. op[b].dir # d /\ SchedOf[b] = SchedOf[c]
        BY <1>1, <4>1
      <4>3. kind # "poll"
        BY <4>1 DEF MayTakeAll
      <4>4. k # "poll"
        BY <1>8, <4>3
      <4> QED
        BY <1>9, <1>13, <2>1, <3>1, <4>1, <4>2, <4>4
    <3>2. CASE b = c
      <4>1. op[a].fd = f /\ op'[a] = op[a] /\ a # c
        BY <1>13, <1>18, <2>1, <3>2 DEF OthersKept
      <4> QED
        BY <1>1, <1>13, <2>1, <3>2, <4>1
    <3>3. CASE a # c /\ b # c
      BY <1>0, <1>18, <3>3 DEF ShareInv, OthersKept
    <3> QED
      BY <3>1, <3>2, <3>3
  <2>6. InfoInv'
    <3>1. info' = info /\ sock' = sock
      BY <1>1
    <3>2. ASSUME NEW b \in Cos, InCall(b)', op'[b].gen # 0
          PROVE  info[op'[b].fd].gen = op'[b].gen
      <4>1. CASE b = c
        BY <1>11, <1>13, <2>1, <3>2, <4>1
      <4>2. CASE b # c
        BY <1>0, <1>18, <3>2, <4>2 DEF InfoInv, InCall, OthersKept
      <4> QED
        BY <4>1, <4>2
    <3> QED
      BY <1>0, <3>1, <3>2 DEF InfoInv
  <2>7. RunInv'
    BY <1>0, <1>1, <1>9, <1>13, <1>18, <2>1 DEF RunInv, Runs, OthersKept
  <2>8. KernelInv'
    BY <1>0, <1>1, SocksLaw, EpollKept
  <2>9. MapInv'
    <3>1. \A b \in Cos : Registered(b) => op'[b].fd = op[b].fd /\ op'[b].dir = op[b].dir
      BY <1>1, <1>15, <1>18 DEF OthersKept, Registered, InCall, NoOp
    <3>2. \A b \in Cos : op'[b].at = "wait" => Registered(b)'
      BY <1>0, <1>9, <1>13, <1>18, <2>1, <2>2 DEF MapInv, OthersKept
    <3> QED
      BY <1>0, <1>1, <2>2, <3>1, <3>2, MapKept
  <2>10. EdgeInv'
    <3>1. EdgesKept(c) /\ ReadyKept(c)
      BY <1>1, SocksLaw DEF EdgesKept, epollVars
    <3>2. EdgeOf(c)'
      BY <1>9, <1>13, <2>1 DEF EdgeOf
    <3> QED
      BY <1>1, <1>18, <3>1, <3>2, EdgeLaw
  <2>11. BatchInv'
    <3> SUFFICES ASSUME NEW s \in Scheds, NEW x \in batch[s]
                 PROVE  /\ SchedOf[x.co] = s
                        /\ op'[x.co].at = "wait" /\ op'[x.co].fd = x.fd /\ op'[x.co].dir = x.dir
      BY <1>1 DEF BatchInv
    <3>1. x.co \in Cos
      BY <1>0 DEF TypeOK, Events
    <3>2. x.co # c
      BY <1>0, <1>1 DEF BatchInv
    <3> QED
      BY <1>0, <1>18, <3>1, <3>2 DEF BatchInv, OthersKept
  <2> QED
    BY <1>17, <2>3, <2>4, <2>5, <2>6, <2>7, <2>8, <2>9, <2>10, <2>11 DEF IInv
<1> QED
  BY <1>19, <1>20

----------------------------------------------------------------------------
\* The events at hand are not for a coroutine that does not wait.
LEMMA BatchLaw ==
    ASSUME IInv, NEW c \in Cos, op[c].at # "wait", OthersKept(c), UNCHANGED batch
    PROVE  BatchInv'
<1>0. TypeOK /\ BatchInv
  BY DEF IInv
<1> SUFFICES ASSUME NEW s \in Scheds, NEW x \in batch[s]
             PROVE  /\ SchedOf[x.co] = s
                    /\ op'[x.co].at = "wait" /\ op'[x.co].fd = x.fd /\ op'[x.co].dir = x.dir
  BY DEF BatchInv
<1>1. x.co \in Cos
  BY <1>0 DEF TypeOK, Events
<1>2. x.co # c
  BY <1>0 DEF BatchInv
<1> QED
  BY <1>0, <1>1, <1>2 DEF BatchInv, OthersKept

\* A running call ends, or goes on without its registration.
LEMMA CallReleases ==
    ASSUME IInv, TypeOK', NEW c \in Cos, Runs(c), op[c].at = "try", OthersKept(c), Stays(c),
           op'[c].at \in {"out", "try"}, ~op'[c].has,
           IF op[c].has THEN DelEvent(SchedOf[c], op[c].fd, op[c].dir, Ready(op[c].fd))
           ELSE UNCHANGED epollVars,
           SocksKept, ReadyKept(c), UNCHANGED <<running, batch>>
    PROVE  IInv'
<1>1. OutInv' /\ OpenInv' /\ ShareInv' /\ InfoInv'
  BY StayLaw
<1>2. KernelInv' /\ MapInv' /\ EdgesKept(c)
  BY FinishLaw DEF InCall
<1>3. EdgeOf(c)'
  BY DEF EdgeOf
<1>4. EdgeInv'
  BY <1>2, <1>3, EdgeLaw
<1>5. BatchInv'
  BY BatchLaw
<1>6. RunInv'
  BY DEF IInv, RunInv, Runs, OthersKept
<1> QED
  BY <1>1, <1>2, <1>4, <1>5, <1>6 DEF IInv

\* A running call goes on as it is.
LEMMA CallGoesOn ==
    ASSUME IInv, TypeOK', NEW c \in Cos, Runs(c), op[c].at = "try", OthersKept(c), Stays(c),
           op'[c].at \in {"try", "again"}, op'[c].has = op[c].has,
           op'[c].at = "again" => ~(op[c].dir \in Ready(op[c].fd))',
           UNCHANGED epollVars, SocksKept, ReadyKept(c), UNCHANGED <<running, batch>>
    PROVE  IInv'
<1>0. EpollTypeOK /\ TypeOK /\ MapInv /\ KernelInv
  BY DEF IInv, TypeOK
<1>1. OutInv' /\ OpenInv' /\ ShareInv' /\ InfoInv'
  BY StayLaw
<1>2. KernelInv'
  BY <1>0, EpollKept
<1>3. op'[c].fd = op[c].fd /\ op'[c].dir = op[c].dir
  BY DEF Stays, NoOp
<1>4. \A b \in Cos : Registered(b)' = Registered(b)
  <2>1. Registered(c)' = Registered(c)
    BY DEF Registered, InCall
  <2>2. \A b \in Cos : b # c => Registered(b)' = Registered(b)
    BY DEF Registered, InCall, OthersKept
  <2> QED
    BY <2>1, <2>2
<1>5. MapInv'
  <2>1. \A b \in Cos : Registered(b) => op'[b].fd = op[b].fd /\ op'[b].dir = op[b].dir
    BY <1>3 DEF OthersKept
  <2>2. \A b \in Cos : op'[b].at = "wait" => Registered(b)'
    BY <1>0, <1>4 DEF MapInv, OthersKept
  <2> QED
    BY <1>0, <1>4, <2>1, <2>2, MapKept
<1>6. EdgeInv'
  <2>1. EdgesKept(c)
    BY DEF EdgesKept, epollVars
  <2>2. EdgeOf(c)'
    BY DEF EdgeOf
  <2> QED
    BY <2>1, <2>2, EdgeLaw
<1>7. BatchInv'
  BY BatchLaw
<1>8. RunInv'
  BY DEF IInv, RunInv, Runs, OthersKept
<1> QED
  BY <1>1, <1>2, <1>5, <1>6, <1>7, <1>8 DEF IInv

\* EAGAIN: the socket is not ready, so a later event is a new edge.
LEMMA SysCallAgainStep ==
    ASSUME IInv, NEW c \in Cos, SysCallAgain(c)
    PROVE  IInv'
<1>0. TypeOK /\ op[c] \in Ops
  BY DEF IInv, TypeOK
<1>1. /\ Runs(c) /\ op[c].at = "try" /\ ~(op[c].dir \in Ready(op[c].fd))
      /\ op' = [op EXCEPT ![c].at = "again"]
      /\ UNCHANGED <<epollVars, sock, info, running, batch, opened, prog>>
  BY DEF SysCallAgain
<1>2. OthersKept(c) /\ op'[c] = [op[c] EXCEPT !.at = "again"]
  BY <1>0, <1>1 DEF TypeOK, OthersKept
<1>3. op'[c] \in Ops /\ op'[c].at = "again" /\ op'[c].has = op[c].has /\ Stays(c)
  BY <1>0, <1>1, <1>2 DEF Ops, Places, Stays, InCall
<1>4. TypeOK'
  <2>1. op' \in [Cos -> Ops]
    BY <1>0, <1>1, <1>2, <1>3 DEF TypeOK
  <2> QED
    BY <1>0, <1>1, <2>1 DEF TypeOK, EpollTypeOK, epollVars
<1>5. ~(op[c].dir \in Ready(op[c].fd))'
  <2>1. op'[c].dir = op[c].dir /\ op'[c].fd = op[c].fd
    BY <1>0, <1>2 DEF Ops
  <2> QED
    BY <1>1, <2>1 DEF Ready
<1>6. SocksKept /\ ReadyKept(c)
  BY <1>1, SocksLaw
<1> QED
  BY <1>1, <1>2, <1>3, <1>4, <1>5, <1>6, CallGoesOn

\* A system call that ends the call.
LEMMA SysCallEndsStep ==
    ASSUME IInv, NEW c \in Cos, SysCallEnds(c)
    PROVE  IInv'
<1>0. TypeOK /\ op[c] \in Ops
  BY DEF IInv, TypeOK
<1>1. /\ Runs(c) /\ op[c].at = "try" /\ op' = [op EXCEPT ![c] = NoOp]
      /\ IF op[c].has THEN DelEvent(SchedOf[c], op[c].fd, op[c].dir, Ready(op[c].fd))
         ELSE UNCHANGED epollVars
      /\ UNCHANGED <<sock, info, running, batch, opened, prog>>
  BY DEF SysCallEnds, Finish
<1>2. OthersKept(c) /\ op'[c] = NoOp
  BY <1>0, <1>1 DEF TypeOK, OthersKept
<1>3. NoOp \in Ops /\ NoOp.at = "out" /\ NoOp.has = FALSE
  BY SockAssumption DEF NoOp, Ops, Places, Dirs, Kinds
<1>4. SocksKept /\ ReadyKept(c)
  BY <1>1, SocksLaw
<1>5. EpollTypeOK'
  BY <1>1, <1>2, <1>3, <1>4, FinishLaw DEF InCall
<1>6. TypeOK'
  <2>1. op' \in [Cos -> Ops]
    BY <1>0, <1>1, <1>3 DEF TypeOK
  <2> QED
    BY <1>0, <1>1, <1>5, <2>1 DEF TypeOK
<1> QED
  BY <1>1, <1>2, <1>3, <1>4, <1>6, CallReleases DEF Stays

\* A system call moves no more than there is, and only in its own direction.
LEMMA MovedLaw ==
    ASSUME IInv, NEW c \in Cos, op[c].at = "try"
    PROVE  /\ Moves(op[c]) \in 0..op[c].remain
           /\ Moved(op[c]) \in [Fds -> Sockets]
           /\ \A g \in Fds : /\ Moved(op[c])[g].open = sock[g].open
                             /\ Moved(op[c])[g].broken = sock[g].broken
                             /\ Moved(op[c])[g].shut = sock[g].shut
                             /\ Moved(op[c])[g].want = sock[g].want
                             /\ Moved(op[c])[g].nonblock = sock[g].nonblock
                             /\ Moved(op[c])[g].eof = sock[g].eof
           /\ \A g \in Fds : g # op[c].fd => Moved(op[c])[g] = sock[g]
           /\ op[c].dir = "r" => Moved(op[c])[op[c].fd].room = sock[op[c].fd].room
           /\ op[c].dir = "w" => Moved(op[c])[op[c].fd].in = sock[op[c].fd].in
<1> DEFINE o == op[c]
           f == o.fd
<1>0. /\ op[c] \in Ops /\ f \in Fds /\ sock \in [Fds -> Sockets] /\ sock[f] \in Sockets
      /\ MaxIn \in Nat /\ Room \in Nat /\ Need \in Nat
  BY SockAssumption DEF IInv, TypeOK, OutInv
<1>1. o.remain \in Nat /\ sock[f].in \in 0..MaxIn /\ sock[f].room \in 0..Room /\ o.dir \in {"r", "w"}
  BY <1>0 DEF Ops, Sockets, Dirs
<1>2. /\ Moves(o) \in 0..o.remain
      /\ o.dir = "r" => Moves(o) <= sock[f].in
      /\ o.dir # "r" => Moves(o) <= sock[f].room
  BY <1>1 DEF Moves
<1>3. CASE o.dir = "r"
  <2>1. PICK n \in 0..MaxIn : n = sock[f].in - Moves(o)
    BY <1>0, <1>1, <1>2, <1>3
  <2>2. PICK new : new = [sock[f] EXCEPT !.in = n]
    OBVIOUS
  <2>3. /\ new \in Sockets /\ new.open = sock[f].open /\ new.broken = sock[f].broken
        /\ new.shut = sock[f].shut /\ new.want = sock[f].want
        /\ new.nonblock = sock[f].nonblock /\ new.eof = sock[f].eof
        /\ new.room = sock[f].room
    BY <1>0, <2>2 DEF Sockets
  <2>4. Moved(o) = [sock EXCEPT ![f] = new]
    BY <1>3, <2>1, <2>2 DEF Moved
  <2>5. Moved(o) \in [Fds -> Sockets]
    BY <1>0, <2>3, <2>4
  <2>6. Moved(o)[f] = new /\ \A g \in Fds : g # f => Moved(o)[g] = sock[g]
    BY <1>0, <2>4
  <2> QED
    BY <1>2, <1>3, <2>3, <2>5, <2>6
<1>4. CASE o.dir # "r"
  <2>1. PICK n \in 0..Room : n = sock[f].room - Moves(o)
    BY <1>0, <1>1, <1>2, <1>4
  <2>2. PICK new : new = [sock[f] EXCEPT !.room = n]
    OBVIOUS
  <2>3. /\ new \in Sockets /\ new.open = sock[f].open /\ new.broken = sock[f].broken
        /\ new.shut = sock[f].shut /\ new.want = sock[f].want
        /\ new.nonblock = sock[f].nonblock /\ new.eof = sock[f].eof
        /\ new.in = sock[f].in
    BY <1>0, <2>2 DEF Sockets
  <2>4. Moved(o) = [sock EXCEPT ![f] = new]
    BY <1>4, <2>1, <2>2 DEF Moved
  <2>5. Moved(o) \in [Fds -> Sockets]
    BY <1>0, <2>3, <2>4
  <2>6. Moved(o)[f] = new /\ \A g \in Fds : g # f => Moved(o)[g] = sock[g]
    BY <1>0, <2>4
  <2> QED
    BY <1>2, <1>4, <2>3, <2>5, <2>6
<1> QED
  BY <1>3, <1>4

\* So nobody else sees its socket become ready.
LEMMA MovedReady ==
    ASSUME IInv, NEW c \in Cos, op[c].at = "try",
           \A g \in Fds : sock[g].open => sock'[g] = Moved(op[c])[g]
    PROVE  ReadyKept(c)
<1>0. OpenInv /\ ShareInv /\ op[c].dir \in {"r", "w"} /\ op[c].fd \in Fds /\ op[c].fd # 0
  BY SockAssumption DEF IInv, TypeOK, OutInv, Ops, Dirs
<1> SUFFICES ASSUME NEW b \in Cos, NEW f \in Fds, NEW d \in Dirs, b # c, Registered(b),
                    op[b].fd = f, op[b].dir = d, (d \in Ready(f))'
             PROVE  d \in Ready(f)
  BY DEF ReadyKept
<1>1. op[b].at # "out" /\ sock[f].open
  BY <1>0 DEF Registered, InCall, OpenInv
<1>2. sock'[f] = Moved(op[c])[f]
  BY <1>1
<1>3. CASE f # op[c].fd
  <2>1. sock'[f] = sock[f]
    BY <1>2, <1>3, MovedLaw
  <2> QED
    BY <2>1 DEF Ready
<1>4. CASE f = op[c].fd
  <2>1. d # op[c].dir
    BY <1>0, <1>4 DEF ShareInv
  <2>2. /\ sock'[f].eof = sock[f].eof /\ sock'[f].open = sock[f].open
        /\ sock'[f].broken = sock[f].broken
    BY <1>2, MovedLaw
  <2>3. CASE d = "r"
    <3>1. op[c].dir = "w"
      BY <1>0, <2>1, <2>3
    <3>2. sock'[f].in = sock[f].in
      BY <1>2, <1>4, <3>1, MovedLaw
    <3> QED
      BY <2>2, <2>3, <3>2 DEF Ready
  <2>4. CASE d = "w"
    <3>1. op[c].dir = "r"
      BY <1>0, <2>1, <2>4
    <3>2. sock'[f].room = sock[f].room
      BY <1>2, <1>4, <3>1, MovedLaw
    <3> QED
      BY <2>2, <2>4, <3>2 DEF Ready
  <2> QED
    BY <2>3, <2>4 DEF Dirs
<1> QED
  BY <1>3, <1>4

\* A system call that moves bytes: the call ends, goes on with the rest of its
\* chunk, or with the next one.
LEMMA SysCallMovesStep ==
    ASSUME IInv, NEW c \in Cos, SysCallMoves(c)
    PROVE  IInv'
<1> DEFINE o == op[c]
           ends == IF o.has THEN DelEvent(SchedOf[c], o.fd, o.dir, Ready(o.fd))
                   ELSE UNCHANGED epollVars
<1>0. /\ TypeOK /\ op \in [Cos -> Ops] /\ op[c] \in Ops /\ MaxOpen \in Nat /\ Chunk \in Nat
      /\ Chunk > 0 /\ Need \in Nat
  BY SockAssumption DEF IInv, TypeOK
<1>1. Runs(c) /\ o.at = "try" /\ sock[o.fd].open /\ Moves(o) > 0 /\ UNCHANGED <<running, batch>>
  BY DEF SysCallMoves
<1>2. NoOp \in Ops /\ NoOp.at = "out" /\ NoOp.has = FALSE
  BY SockAssumption DEF NoOp, Ops, Places, Dirs, Kinds
<1>3. CASE o.kind = "accept" /\ opened < MaxOpen /\ FreeFds # {}
  <2>1. PICK nb \in BOOLEAN : Created(nb, Moved(o))
    BY <1>3 DEF SysCallMoves, Flags
  <2>2. op' = [op EXCEPT ![c] = NoOp] /\ ends
    BY <1>3 DEF SysCallMoves, Finish
  <2>3. UNCHANGED prog
    BY <2>1 DEF Created
  <2>4. PICK socks : socks = Moved(o)
    OBVIOUS
  <2>5. /\ socks \in [Fds -> Sockets]
        /\ \A g \in Fds : /\ socks[g].open = sock[g].open
                          /\ socks[g].shut = sock[g].shut /\ socks[g].want = sock[g].want
                          /\ socks[g].nonblock = sock[g].nonblock
    BY <1>1, <2>4, MovedLaw
  <2>6. Created(nb, socks)
    BY <2>1, <2>4
  <2>7. /\ SocksKept /\ \A g \in Fds : sock[g].open => sock'[g] = socks[g]
        /\ sock' \in [Fds -> Sockets] /\ info' \in [Fds -> Infos] /\ opened' \in 0..MaxOpen
    BY <2>5, <2>6, CreatedLaw
  <2>8. ReadyKept(c)
    BY <1>1, <2>4, <2>7, MovedReady
  <2>9. OthersKept(c) /\ op'[c] = NoOp /\ op' \in [Cos -> Ops]
    BY <1>0, <1>2, <2>2 DEF OthersKept
  <2>10. EpollTypeOK'
    BY <1>1, <1>2, <2>2, <2>7, <2>9, FinishLaw DEF InCall
  <2>11. TypeOK'
    BY <1>0, <1>1, <2>3, <2>7, <2>9, <2>10 DEF TypeOK
  <2> QED
    BY <1>1, <1>2, <2>2, <2>7, <2>8, <2>9, <2>11, CallReleases DEF Stays
<1>4. CASE ~(o.kind = "accept" /\ opened < MaxOpen /\ FreeFds # {})
  <2>1. /\ sock' = IF o.kind = "accept" THEN sock ELSE Moved(o)
        /\ UNCHANGED <<info, opened, prog>>
    BY <1>4 DEF SysCallMoves
  <2>2. sock' \in [Fds -> Sockets]
    BY <1>0, <1>1, <2>1, MovedLaw DEF TypeOK
  <2>3. SocksKept
    <3>1. \A g \in Fds : /\ sock'[g].open = sock[g].open
                         /\ sock'[g].shut = sock[g].shut /\ sock'[g].want = sock[g].want
                         /\ sock'[g].nonblock = sock[g].nonblock /\ info'[g] = info[g]
      BY <1>1, <2>1, MovedLaw
    <3> QED
      BY <3>1 DEF IInv, InfoInv, SocksKept
  <2>4. ReadyKept(c)
    <3>1. CASE o.kind = "accept"
      BY <2>1, <3>1, SocksLaw
    <3>2. CASE o.kind # "accept"
      BY <1>1, <2>1, <3>2, MovedReady
    <3> QED
      BY <3>1, <3>2
  <2>5. CASE o.kind # "all" \/ (Moves(o) = o.remain /\ o.left = 0)
    <3>1. op' = [op EXCEPT ![c] = NoOp] /\ ends
      BY <1>4, <2>5 DEF SysCallMoves, Finish
    <3>2. OthersKept(c) /\ op'[c] = NoOp /\ op' \in [Cos -> Ops]
      BY <1>0, <1>2, <3>1 DEF OthersKept
    <3>3. EpollTypeOK'
      BY <1>1, <1>2, <2>3, <3>1, <3>2, FinishLaw DEF InCall
    <3>4. TypeOK'
      BY <1>0, <1>1, <2>1, <2>2, <3>2, <3>3 DEF TypeOK
    <3> QED
      BY <1>1, <1>2, <2>3, <2>4, <3>1, <3>2, <3>4, CallReleases DEF Stays
  <2>6. CASE ~(o.kind # "all" \/ (Moves(o) = o.remain /\ o.left = 0)) /\ Moves(o) < o.remain
    <3>1. op' = [op EXCEPT ![c].remain = @ - Moves(o)] /\ UNCHANGED epollVars
      BY <1>4, <2>6 DEF SysCallMoves
    <3>2. PICK n \in 0..Need : n = o.remain - Moves(o)
      BY <1>0, <1>1, MovedLaw DEF Ops
    <3>3. OthersKept(c) /\ op'[c] = [op[c] EXCEPT !.remain = n]
      BY <1>0, <3>1, <3>2 DEF OthersKept
    <3>4. op'[c] \in Ops /\ op'[c].at = "try" /\ op'[c].has = op[c].has /\ Stays(c)
      BY <1>0, <1>1, <3>2, <3>3 DEF Ops, Stays, InCall
    <3>5. op' \in [Cos -> Ops]
      <4>1. op' = [op EXCEPT ![c] = [op[c] EXCEPT !.remain = n]]
        BY <1>0, <3>1, <3>2
      <4> QED
        BY <1>0, <3>3, <3>4, <4>1
    <3>6. TypeOK'
      BY <1>0, <1>1, <2>1, <2>2, <3>1, <3>5 DEF TypeOK, EpollTypeOK, epollVars
    <3> QED
      BY <1>1, <2>3, <2>4, <3>1, <3>3, <3>4, <3>6, CallGoesOn
  <2>7. CASE ~(o.kind # "all" \/ (Moves(o) = o.remain /\ o.left = 0)) /\ ~(Moves(o) < o.remain)
    <3>1. PICK n \in 0..Need : n = IF o.left < Chunk THEN o.left ELSE Chunk
      BY <1>0 DEF Ops
    <3>2. /\ op' = [op EXCEPT ![c].remain = n, ![c].left = @ - n, ![c].has = FALSE]
          /\ ends
      BY <1>4, <2>7, <3>1 DEF SysCallMoves
    <3>3. PICK l \in 0..Need : l = o.left - n
      BY <1>0, <3>1 DEF Ops
    <3>4. op' = [op EXCEPT ![c] = [op[c] EXCEPT !.remain = n, !.left = l, !.has = FALSE]]
      BY <1>0, <3>2, <3>3
    <3>5. OthersKept(c) /\ op'[c] = [op[c] EXCEPT !.remain = n, !.left = l, !.has = FALSE]
      BY <1>0, <3>4 DEF OthersKept
    <3>6. op'[c] \in Ops /\ op'[c].at = "try" /\ op'[c].has = FALSE /\ Stays(c)
      <4>1. op'[c] \in Ops
        BY <1>0, <3>5 DEF Ops
      <4>2. /\ op'[c].at = "try" /\ op'[c].has = FALSE /\ op'[c].fd = op[c].fd
            /\ op'[c].dir = op[c].dir /\ op'[c].kind = op[c].kind /\ op'[c].gen = op[c].gen
        BY <1>0, <1>1, <3>5 DEF Ops
      <4> QED
        BY <1>1, <4>1, <4>2 DEF Stays, InCall
    <3>7. op' \in [Cos -> Ops]
      BY <1>0, <3>4, <3>5, <3>6
    <3>8. EpollTypeOK'
      BY <1>1, <2>3, <3>2, <3>5, <3>6, FinishLaw DEF InCall
    <3>9. TypeOK'
      BY <1>0, <1>1, <2>1, <2>2, <3>7, <3>8 DEF TypeOK
    <3> QED
      BY <1>1, <2>3, <2>4, <3>2, <3>5, <3>6, <3>9, CallReleases
  <2> QED
    BY <2>5, <2>6, <2>7
<1> QED
  BY <1>3, <1>4

----------------------------------------------------------------------------
\* IoEvent::wait registers the call, or finds it registered.
LEMMA IoWaitStep ==
    ASSUME IInv, NEW c \in Cos, IoWait(c)
    PROVE  IInv'
<1> DEFINE o == op[c]
           f == o.fd
           d == o.dir
           s == SchedOf[c]
<1>0. /\ TypeOK /\ EpollTypeOK /\ op \in [Cos -> Ops] /\ op[c] \in Ops /\ f \in Fds /\ d \in Dirs
      /\ OutInv /\ OpenInv /\ MapInv /\ KernelInv /\ InfoInv /\ RunInv /\ EdgeInv
      /\ s \in Scheds /\ c # NoCo /\ o.at = "again"
  BY SockAssumption DEF IInv, TypeOK, OutInv, Ops, IoWait
<1>1. /\ Runs(c) /\ running' = [running EXCEPT ![s] = NoCo]
      /\ UNCHANGED <<sock, info, batch, opened, prog>>
  BY DEF IoWait
<1>2. ~(o.gen # 0 /\ info[f].gen # o.gen)
  BY <1>0 DEF InfoInv, InCall
<1>3. AddEventOk(s, f, d)
  <2>1. CASE o.has
    <3>1. evMap[f][d] = c
      BY <1>0, <2>1 DEF MapInv, Registered, InCall
    <3> QED
      BY <1>0, <3>1 DEF AddEventOk
  <2>2. CASE ~o.has
    BY <1>0, <2>2, WaitLaw
  <2> QED
    BY <2>1, <2>2
<1>4. PICK limit \in BOOLEAN : limit = IF o.gen # 0 THEN info[f].timed[d] ELSE o.timed
  BY <1>0 DEF TypeOK, Infos, Ops
<1>5. PICK has \in BOOLEAN : has = (o.kind # "poll" /\ (o.has \/ AddEventOk(s, f, d)))
  OBVIOUS
<1>6. has = (o.kind # "poll")
  BY <1>3, <1>5
<1>7. /\ op' = [op EXCEPT ![c].at = "wait", ![c].timed = limit, ![c].has = has]
      /\ IF o.has THEN UNCHANGED epollVars ELSE AddEvent(s, f, d, c, Ready(f))
  BY <1>2, <1>3, <1>4, <1>5 DEF IoWait
<1>8. op' = [op EXCEPT ![c] = [op[c] EXCEPT !.at = "wait", !.timed = limit, !.has = has]]
  BY <1>0, <1>7
<1>9. OthersKept(c) /\ op'[c] = [op[c] EXCEPT !.at = "wait", !.timed = limit, !.has = has]
  BY <1>0, <1>8 DEF OthersKept
<1>10. op'[c] \in Ops
  <2>1. "wait" \in Places
    BY DEF Places
  <2> QED
    BY <1>0, <1>9, <2>1 DEF Ops
<1>11. /\ op'[c].at = "wait" /\ op'[c].has = has /\ op'[c].fd = f /\ op'[c].dir = d
       /\ op'[c].kind = o.kind /\ op'[c].gen = o.gen
  BY <1>0, <1>9 DEF Ops
<1>12. op' \in [Cos -> Ops]
  BY <1>0, <1>8, <1>9, <1>10
<1>13. Registered(c)'
  BY <1>6, <1>11 DEF Registered, InCall
<1>14. SocksKept /\ ReadyKept(c) /\ Stays(c) /\ \A g \in Fds : Ready(g)' = Ready(g)
  BY <1>0, <1>1, <1>11, SocksLaw DEF Stays, InCall
<1>15. OutInv' /\ OpenInv' /\ ShareInv' /\ InfoInv'
  BY <1>9, <1>14, StayLaw
<1>16. RunInv'
  <2>1. running'[s] = NoCo /\ \A t \in Scheds : t # s => running'[t] = running[t]
    BY <1>0, <1>1 DEF TypeOK
  <2>2. SchedOf \in [Cos -> Scheds] /\ NoCo \notin Cos
    BY SockAssumption
  <2>3. ASSUME NEW b \in Cos, NEW t \in Scheds, running'[t] = b
        PROVE  t = SchedOf[b] /\ op'[b].at \in {"out", "try", "again"}
    <3>1. t # s /\ running[t] = b
      BY <2>1, <2>2, <2>3
    <3>2. t = SchedOf[b] /\ op[b].at \in {"out", "try", "again"}
      BY <1>0, <3>1 DEF RunInv
    <3>3. b # c
      BY <3>1, <3>2
    <3> QED
      BY <1>9, <3>2, <3>3 DEF OthersKept
  <2>4. ASSUME NEW b \in Cos, op'[b].at \in {"try", "again"}
        PROVE  Runs(b)'
    <3>1. b # c /\ op[b] = op'[b]
      BY <1>9, <1>11, <2>4 DEF OthersKept
    <3>2. running[SchedOf[b]] = b
      BY <1>0, <2>4, <3>1 DEF RunInv, Runs
    <3>3. SchedOf[b] # s /\ SchedOf[b] \in Scheds
      BY <1>1, <2>2, <3>1, <3>2 DEF Runs
    <3> QED
      BY <2>1, <3>2, <3>3 DEF Runs
  <2> QED
    BY <2>3, <2>4 DEF RunInv
<1>17. BatchInv'
  BY <1>0, <1>1, <1>9, BatchLaw
<1>18. /\ EpollTypeOK' /\ KernelInv' /\ MapInv' /\ EdgesKept(c)
       /\ d \in Ready(f) => d \in edge'[s][f]
  <2>1. CASE o.has
    <3>1. UNCHANGED epollVars
      BY <1>7, <2>1
    <3>2. EpollTypeOK' /\ KernelInv'
      BY <1>0, <1>14, <3>1, EpollKept
    <3>3. \A b \in Cos : Registered(b)' = Registered(b)
      <4>1. Registered(c)
        BY <1>0, <2>1 DEF Registered, InCall
      <4>2. \A b \in Cos : b # c => Registered(b)' = Registered(b)
        BY <1>9 DEF Registered, InCall, OthersKept
      <4>3. Registered(c) \in BOOLEAN /\ Registered(c)' \in BOOLEAN
        BY <1>0, <1>10 DEF Registered, InCall, Ops
      <4> QED
        BY <1>13, <4>1, <4>2, <4>3
    <3>4. \A b \in Cos : Registered(b) => op'[b].fd = op[b].fd /\ op'[b].dir = op[b].dir
      BY <1>9, <1>11 DEF OthersKept
    <3>5. \A b \in Cos : op'[b].at = "wait" => Registered(b)'
      BY <1>0, <1>9, <1>13, <3>3 DEF MapInv, OthersKept
    <3>6. MapInv'
      BY <1>0, <3>1, <3>3, <3>4, <3>5, MapKept
    <3>7. EdgesKept(c)
      BY <3>1 DEF EdgesKept, epollVars
    <3>8. d \in Ready(f) => d \in edge[s][f]
      BY <1>0, <2>1 DEF EdgeInv, EdgeOf
    <3> QED
      BY <3>1, <3>2, <3>6, <3>7, <3>8 DEF epollVars
  <2>2. CASE ~o.has
    BY <1>0, <1>1, <1>7, <1>9, <1>11, <1>13, <2>2, WaitLaw
  <2> QED
    BY <2>1, <2>2
<1>19. EdgeOf(c)'
  <2>1. Ready(op[c].fd)' = Ready(f)
    BY <1>1, <1>11 DEF Ready
  <2> QED
    BY <1>11, <1>18, <2>1 DEF EdgeOf
<1>20. EdgeInv'
  BY <1>1, <1>9, <1>14, <1>18, <1>19, EdgeLaw
<1>21. TypeOK'
  <2>1. running' \in [Scheds -> Cos \cup {NoCo}]
    BY <1>0, <1>1 DEF TypeOK
  <2> QED
    BY <1>0, <1>1, <1>12, <1>18, <2>1 DEF TypeOK
<1> QED
  BY <1>15, <1>16, <1>17, <1>18, <1>20, <1>21 DEF IInv

\* A coroutine is resumed from its wait.
LEMMA WokenLaw ==
    ASSUME IInv, NEW c \in Cos, NEW timeout \in BOOLEAN, op[c].at = "wait", Woken(c, timeout),
           running[SchedOf[c]] = NoCo, running' = [running EXCEPT ![SchedOf[c]] = c],
           UNCHANGED <<sock, info, opened, prog>>,
           batch' \in [Scheds -> SUBSET Events],
           \A s \in Scheds : \A x \in batch'[s] : x \in batch[s] /\ x.co # c,
           \A s \in Scheds : \A x \in batch[s] : x.co # c => x \in batch'[s]
    PROVE  IInv'
<1> DEFINE o == op[c]
           f == o.fd
           s == SchedOf[c]
<1>0. /\ TypeOK /\ EpollTypeOK /\ op \in [Cos -> Ops] /\ op[c] \in Ops /\ f \in Fds /\ f # 0
      /\ OutInv /\ OpenInv /\ ShareInv /\ MapInv /\ KernelInv /\ RunInv /\ BatchInv
      /\ SchedOf \in [Cos -> Scheds] /\ s \in Scheds /\ NoCo \notin Cos
  BY SockAssumption DEF IInv, TypeOK, OutInv
<1>1. NoOp \in Ops /\ NoOp.at = "out" /\ NoOp.has = FALSE
  BY SockAssumption DEF NoOp, Ops, Places, Dirs, Kinds
<1>2. SocksKept /\ ReadyKept(c)
  BY SocksLaw
<1>3. Registered(c) /\ InOne(f, s)
  BY <1>0, OneLaw DEF MapInv
<1>4. /\ EpollTypeOK' /\ KernelInv' /\ MapInv' /\ EdgesKept(c) /\ OthersKept(c)
      /\ op' \in [Cos -> Ops] /\ Stays(c) /\ op'[c].at \in {"out", "try"}
  <2>1. CASE o.kind = "poll"
    <3>1. DelAll(s, f) /\ op' = [op EXCEPT ![c] = NoOp]
      BY <2>1 DEF Woken
    <3>2. OthersKept(c) /\ op'[c] = NoOp /\ op' \in [Cos -> Ops]
      BY <1>0, <1>1, <3>1 DEF OthersKept
    <3>4. /\ evMap' = [evMap EXCEPT ![f] = Nobody]
          /\ EpollTypeOK' /\ KernelInv'
          /\ \A t \in Scheds, g \in Fds : g # f => edge'[t][g] = edge[t][g]
      BY <1>0, <1>3, <3>1, DelAllLaw
    <3>5. \A b \in Cos : b # c => op[b].fd # f
      BY <1>0, <2>1 DEF ShareInv
    <3>6. MapInv' /\ EdgesKept(c)
      BY <1>0, <1>1, <3>2, <3>4, <3>5, FreeLaw
    <3> QED
      BY <1>1, <3>2, <3>4, <3>6 DEF Stays
  <2>2. CASE o.kind # "poll" /\ (timeout \/ o.kind = "once")
    <3>1. /\ op' = [op EXCEPT ![c] = NoOp]
          /\ IF o.has THEN DelEvent(s, f, o.dir, Ready(f)) ELSE UNCHANGED epollVars
      BY <2>2 DEF Woken, Finish
    <3>2. OthersKept(c) /\ op'[c] = NoOp /\ op' \in [Cos -> Ops]
      BY <1>0, <1>1, <3>1 DEF OthersKept
    <3>3. EpollTypeOK' /\ KernelInv' /\ MapInv' /\ EdgesKept(c)
      BY <1>1, <1>2, <2>2, <3>1, <3>2, FinishLaw DEF InCall
    <3> QED
      BY <1>1, <3>2, <3>3 DEF Stays
  <2>3. CASE o.kind # "poll" /\ ~(timeout \/ o.kind = "once")
    <3>1. op' = [op EXCEPT ![c].at = "try"] /\ UNCHANGED epollVars
      BY <2>3 DEF Woken
    <3>2. op' = [op EXCEPT ![c] = [op[c] EXCEPT !.at = "try"]]
      BY <1>0, <3>1
    <3>3. OthersKept(c) /\ op'[c] = [op[c] EXCEPT !.at = "try"]
      BY <1>0, <3>2 DEF OthersKept
    <3>4. op'[c] \in Ops
      <4>1. "try" \in Places
        BY DEF Places
      <4> QED
        BY <1>0, <3>3, <4>1 DEF Ops
    <3>5. /\ op'[c].at = "try" /\ op'[c].has = o.has /\ op'[c].fd = f /\ op'[c].dir = o.dir
          /\ op'[c].kind = o.kind /\ op'[c].gen = o.gen
      BY <1>0, <3>3 DEF Ops
    <3>6. op' \in [Cos -> Ops]
      BY <1>0, <3>2, <3>3, <3>4
    <3>7. EpollTypeOK' /\ KernelInv'
      BY <1>0, <1>2, <3>1, EpollKept
    <3>8. \A b \in Cos : Registered(b)' = Registered(b)
      <4>1. o.has
        BY <1>3, <2>3 DEF Registered
      <4>2. Registered(c)'
        BY <3>5, <4>1 DEF Registered, InCall
      <4>3. \A b \in Cos : b # c => Registered(b)' = Registered(b)
        BY <3>3 DEF Registered, InCall, OthersKept
      <4>4. Registered(c) \in BOOLEAN /\ Registered(c)' \in BOOLEAN
        BY <1>0, <3>4 DEF Registered, InCall, Ops
      <4> QED
        BY <1>3, <4>2, <4>3, <4>4
    <3>9. \A b \in Cos : Registered(b) => op'[b].fd = op[b].fd /\ op'[b].dir = op[b].dir
      BY <3>3, <3>5 DEF OthersKept
    <3>10. \A b \in Cos : op'[b].at = "wait" => Registered(b)'
      BY <1>0, <3>3, <3>5, <3>8 DEF MapInv, OthersKept
    <3>11. MapInv'
      BY <1>0, <3>1, <3>8, <3>9, <3>10, MapKept
    <3>12. EdgesKept(c)
      BY <3>1 DEF EdgesKept, epollVars
    <3> QED
      BY <3>3, <3>5, <3>6, <3>7, <3>11, <3>12 DEF Stays, InCall
  <2> QED
    BY <2>1, <2>2, <2>3
<1>5. OutInv' /\ OpenInv' /\ ShareInv' /\ InfoInv'
  BY <1>2, <1>4, StayLaw
<1>6. EdgeInv'
  <2>1. EdgeOf(c)'
    BY <1>4 DEF EdgeOf
  <2>2. \A b \in Cos : b # c => \A x \in batch[SchedOf[b]] : x.co = b => x \in batch'[SchedOf[b]]
    BY <1>0
  <2> QED
    BY <1>2, <1>4, <2>1, <2>2, EdgeLaw
<1>7. BatchInv'
  <2> SUFFICES ASSUME NEW t \in Scheds, NEW x \in batch'[t]
               PROVE  /\ SchedOf[x.co] = t
                      /\ op'[x.co].at = "wait" /\ op'[x.co].fd = x.fd /\ op'[x.co].dir = x.dir
    BY DEF BatchInv
  <2>1. x \in batch[t] /\ x.co # c /\ x.co \in Cos
    BY DEF Events
  <2> QED
    BY <1>0, <1>4, <2>1 DEF BatchInv, OthersKept
<1>8. RunInv'
  <2>1. \A b \in Cos : b # c => op'[b] = op[b]
    BY <1>4 DEF OthersKept
  <2>2. running'[s] = c /\ \A t \in Scheds : t # s => running'[t] = running[t]
    BY <1>0 DEF TypeOK
  <2>3. ASSUME NEW b \in Cos, NEW t \in Scheds, running'[t] = b
        PROVE  t = SchedOf[b] /\ op'[b].at \in {"out", "try", "again"}
    <3>1. CASE t = s
      BY <1>4, <2>2, <2>3, <3>1
    <3>2. CASE t # s
      <4>1. running[t] = b
        BY <2>2, <2>3, <3>2
      <4>2. t = SchedOf[b] /\ op[b].at \in {"out", "try", "again"}
        BY <1>0, <4>1 DEF RunInv
      <4> QED
        BY <2>1, <3>2, <4>2
    <3> QED
      BY <3>1, <3>2
  <2>4. ASSUME NEW b \in Cos, op'[b].at \in {"try", "again"}
        PROVE  Runs(b)'
    <3>1. CASE b = c
      BY <2>2, <3>1 DEF Runs
    <3>2. CASE b # c
      <4>1. running[SchedOf[b]] = b
        BY <1>0, <2>1, <2>4, <3>2 DEF RunInv, Runs
      <4>2. SchedOf[b] \in Scheds /\ SchedOf[b] # s
        BY <1>0, <4>1
      <4> QED
        BY <2>2, <4>1, <4>2 DEF Runs
    <3> QED
      BY <3>1, <3>2
  <2> QED
    BY <2>3, <2>4 DEF RunInv
<1>9. TypeOK'
  <2>1. running' \in [Scheds -> Cos \cup {NoCo}]
    BY <1>0 DEF TypeOK
  <2> QED
    BY <1>0, <1>4, <2>1 DEF TypeOK
<1> QED
  BY <1>4, <1>5, <1>6, <1>7, <1>8, <1>9 DEF IInv

\* A timer resumes a coroutine that has no event at hand.
LEMMA ResumeForTimeoutStep ==
    ASSUME IInv, NEW c \in Cos, ResumeForTimeout(c)
    PROVE  IInv'
<1>1. /\ running[SchedOf[c]] = NoCo /\ batch[SchedOf[c]] = {} /\ op[c].at = "wait"
      /\ running' = [running EXCEPT ![SchedOf[c]] = c] /\ Woken(c, TRUE)
      /\ UNCHANGED <<sock, info, batch, opened, prog>>
  BY DEF ResumeForTimeout
<1>2. batch' \in [Scheds -> SUBSET Events]
  BY <1>1 DEF IInv, TypeOK
<1>3. \A s \in Scheds : \A x \in batch[s] : x.co # c
  BY <1>1 DEF IInv, BatchInv
<1> QED
  BY <1>1, <1>2, <1>3, WokenLaw

\* An event resumes the coroutine that waits for it.
LEMMA ResumeForEventStep ==
    ASSUME IInv, NEW s \in Scheds, ResumeForEvent(s)
    PROVE  IInv'
<1>0. TypeOK /\ BatchInv
  BY DEF IInv
<1>1. PICK x \in batch[s] :
        /\ running' = [running EXCEPT ![s] = x.co]
        /\ batch' = [batch EXCEPT ![s] = @ \ {x}]
        /\ IF op[x.co].at = "wait" THEN Woken(x.co, FALSE)
           ELSE op' = [op EXCEPT ![x.co].at = "crash"] /\ UNCHANGED epollVars
  BY DEF ResumeForEvent
<1>2. running[s] = NoCo /\ UNCHANGED <<sock, info, opened, prog>>
  BY DEF ResumeForEvent
<1>3. x \in Events /\ x.co \in Cos
  BY <1>0 DEF TypeOK, Events
<1>4. PICK c \in Cos : c = x.co
  BY <1>3
<1>5. SchedOf[c] = s /\ op[c].at = "wait" /\ Woken(c, FALSE)
  BY <1>0, <1>1, <1>4 DEF BatchInv
<1>6. batch' \in [Scheds -> SUBSET Events]
  BY <1>0, <1>1 DEF TypeOK
<1>7. batch'[s] = batch[s] \ {x} /\ \A t \in Scheds : t # s => batch'[t] = batch[t]
  BY <1>0, <1>1 DEF TypeOK
<1>8. ASSUME NEW y \in batch[s], y.co = c
      PROVE  y = x
  <2>1. y.fd = x.fd /\ y.dir = x.dir /\ y.co = x.co
    BY <1>0, <1>4, <1>8 DEF BatchInv
  <2>2. y \in Events
    BY <1>0 DEF TypeOK
  <2> QED
    BY <1>3, <2>1, <2>2 DEF Events
<1>9. \A t \in Scheds : t # s => \A y \in batch[t] : y.co # c
  BY <1>0, <1>5 DEF BatchInv
<1>10. \A t \in Scheds : \A y \in batch'[t] : y \in batch[t] /\ y.co # c
  BY <1>7, <1>8, <1>9
<1>11. \A t \in Scheds : \A y \in batch[t] : y.co # c => y \in batch'[t]
  BY <1>4, <1>7
<1>12. running[SchedOf[c]] = NoCo /\ running' = [running EXCEPT ![SchedOf[c]] = c]
  BY <1>1, <1>2, <1>4, <1>5
<1> QED
  BY <1>2, <1>5, <1>6, <1>10, <1>11, <1>12, WokenLaw

\* epoll_wait hands every event to the coroutine that waits for it.
LEMMA EpollWaitStep ==
    ASSUME IInv, NEW s \in Scheds, EpollWait(s)
    PROVE  IInv'
<1>0. /\ TypeOK /\ EpollTypeOK /\ OutInv /\ OpenInv /\ MapInv /\ KernelInv /\ RunInv /\ EdgeInv
      /\ BatchInv /\ NoCo \notin Cos /\ SchedOf \in [Cos -> Scheds]
  BY SockAssumption DEF IInv, TypeOK
<1>1. /\ running[s] = NoCo /\ batch[s] = {}
      /\ batch' = [batch EXCEPT ![s] =
           {x \in Events : <<x.dir, x.co>> \in Ud(edge[s][x.fd], interest[s][x.fd].data)}]
      /\ edge' = [edge EXCEPT ![s] = [f \in Fds |-> {}]]
      /\ UNCHANGED <<evMap, interest, sock, info, op, running, opened, prog>>
  BY DEF EpollWait
<1>2. batch' \in [Scheds -> SUBSET Events]
  BY <1>0, <1>1 DEF TypeOK
<1>3. \A x \in Events : x \in batch'[s] <=>
         /\ x.dir \in edge[s][x.fd] \/ edge[s][x.fd] = {"e"}
         /\ x.co = interest[s][x.fd].data[x.dir] /\ x.co # NoCo
  <2>1. batch'[s] = {x \in Events : <<x.dir, x.co>> \in Ud(edge[s][x.fd], interest[s][x.fd].data)}
    BY <1>0, <1>1 DEF TypeOK
  <2>2. ASSUME NEW x \in Events
        PROVE  <<x.dir, x.co>> \in Ud(edge[s][x.fd], interest[s][x.fd].data) <=>
                 /\ x.dir \in edge[s][x.fd] \/ edge[s][x.fd] = {"e"}
                 /\ x.co = interest[s][x.fd].data[x.dir] /\ x.co # NoCo
    BY DEF Ud, Events
  <2> QED
    BY <2>1, <2>2
<1>4. \A t \in Scheds : t # s => batch'[t] = batch[t] /\ edge'[t] = edge[t]
  BY <1>0, <1>1 DEF TypeOK, EpollTypeOK
<1>5. edge' \in [Scheds -> [Fds -> SUBSET (Dirs \cup {"e"})]] /\ \A f \in Fds : edge'[s][f] = {}
  BY <1>0, <1>1 DEF EpollTypeOK
<1>6. EpollTypeOK' /\ TypeOK'
  BY <1>0, <1>1, <1>2, <1>5 DEF TypeOK, EpollTypeOK
<1>7. OutInv' /\ OpenInv' /\ ShareInv' /\ InfoInv' /\ RunInv'
  BY <1>1 DEF IInv, OutInv, OpenInv, ShareInv, InfoInv, RunInv, InCall, Runs
<1>8. MapInv'
  BY <1>0, <1>1 DEF MapInv, Registered, InCall
<1>9. KernelInv'
  <2>1. \A t \in Scheds, f \in Fds : /\ edge'[t][f] \subseteq interest[t][f].mask \cup {"e"}
                                      /\ edge'[t][f] # {} => Watched(t, f)
    BY <1>0, <1>4, <1>5 DEF KernelInv
  <2> QED
    BY <1>0, <1>1, <2>1 DEF KernelInv, Watched
<1>10. BatchInv'
  <2> SUFFICES ASSUME NEW t \in Scheds, NEW x \in batch'[t]
               PROVE  /\ SchedOf[x.co] = t
                      /\ op[x.co].at = "wait" /\ op[x.co].fd = x.fd /\ op[x.co].dir = x.dir
    BY <1>1 DEF BatchInv
  <2>1. CASE t # s
    BY <1>0, <1>4, <2>1 DEF BatchInv
  <2>2. CASE t = s
    <3>1. x \in Events /\ x.fd \in Fds /\ x.dir \in Dirs
      BY <1>2, <2>2 DEF Events
    <3>2. edge[s][x.fd] # {} /\ x.co = interest[s][x.fd].data[x.dir] /\ x.co # NoCo
      BY <1>3, <2>2, <3>1
    <3>3. Watched(s, x.fd)
      BY <1>0, <3>1, <3>2 DEF KernelInv
    <3>4. interest[s][x.fd].data = evMap[x.fd]
      BY <1>0, <3>1, <3>3 DEF KernelInv
    <3>5. PICK b \in Cos : b = x.co /\ b = evMap[x.fd][x.dir]
      BY <1>0, <3>1, <3>2, <3>4 DEF EpollTypeOK
    <3>6. Registered(b) /\ op[b].fd = x.fd /\ op[b].dir = x.dir
      BY <1>0, <3>1, <3>2, <3>4, <3>5 DEF MapInv
    <3>7. SchedOf[b] = s
      BY <1>0, <3>1, <3>2, <3>3, <3>5 DEF KernelInv
    <3>8. op[b].at = "wait"
      <4>1. op[b].at \in {"try", "again", "wait"}
        BY <3>6 DEF Registered, InCall
      <4>2. op[b].at \in {"try", "again"} => running[s] = b
        BY <1>0, <3>7 DEF RunInv, Runs
      <4> QED
        BY <1>0, <1>1, <4>1, <4>2
    <3> QED
      BY <2>2, <3>5, <3>6, <3>7, <3>8
  <2> QED
    BY <2>1, <2>2
<1>11. EdgeInv'
  <2> SUFFICES ASSUME NEW b \in Cos PROVE EdgeOf(b)'
    BY DEF EdgeInv
  <2>1. op' = op /\ Ready(op[b].fd)' = Ready(op[b].fd)
    BY <1>1 DEF Ready
  <2>2. SUFFICES ASSUME op[b].at = "wait" \/ (op[b].at = "again" /\ op[b].has),
                        op[b].dir \in Ready(op[b].fd)
                 PROVE  \/ op[b].dir \in edge'[SchedOf[b]][op[b].fd]
                        \/ op[b].at = "wait" /\ \E x \in batch'[SchedOf[b]] : x.co = b
    BY <2>1 DEF EdgeOf
  <2>3. \/ op[b].dir \in edge[SchedOf[b]][op[b].fd]
        \/ op[b].at = "wait" /\ \E x \in batch[SchedOf[b]] : x.co = b
    BY <1>0, <2>2 DEF EdgeInv, EdgeOf
  <2>4. CASE SchedOf[b] # s
    BY <1>0, <1>4, <2>3, <2>4
  <2>5. CASE SchedOf[b] = s
    <3>1. op[b].dir \in edge[s][op[b].fd]
      BY <1>1, <2>3, <2>5
    <3>2. op[b].at = "wait"
      BY <1>0, <1>1, <2>2, <2>5 DEF RunInv, Runs
    <3>3. Registered(b)
      BY <1>0, <3>2 DEF MapInv
    <3>4. /\ op[b].fd \in Fds /\ op[b].dir \in Dirs /\ evMap[op[b].fd][op[b].dir] = b
          /\ op[b].dir \in interest[s][op[b].fd].mask
      BY <1>0, <2>5, <3>3, RegisteredLaw
    <3>5. interest[s][op[b].fd].data = evMap[op[b].fd]
      BY <1>0, <3>4 DEF KernelInv, Watched
    <3>6. PICK x \in Events : x = [co |-> b, fd |-> op[b].fd, dir |-> op[b].dir]
      BY <3>4 DEF Events
    <3>7. x.co = b /\ x.fd = op[b].fd /\ x.dir = op[b].dir
      BY <3>6
    <3>8. x \in batch'[s]
      BY <1>0, <1>3, <3>1, <3>4, <3>5, <3>7
    <3> QED
      BY <2>5, <3>2, <3>7, <3>8
  <2> QED
    BY <2>4, <2>5
<1> QED
  BY <1>6, <1>7, <1>8, <1>9, <1>10, <1>11 DEF IInv

----------------------------------------------------------------------------
\* A coroutine that is in no call has f for itself: nobody is registered for it.
LEMMA AloneNobody ==
    ASSUME IInv, NEW c \in Cos, NEW f \in Fds, op[c].at \in {"out", "closing"},
           \A b \in Cos : b # c => op[b].fd # f
    PROVE  /\ ~Registered(c) /\ evMap[f] = Nobody
           /\ \A s \in Scheds : ~Watched(s, f)
<1>0. EpollTypeOK /\ MapInv /\ KernelInv /\ OutInv
  BY DEF IInv, TypeOK
<1>1. ~Registered(c)
  BY DEF Registered, InCall
<1>2. \A d \in Dirs : evMap[f][d] = NoCo
  <2> SUFFICES ASSUME NEW d \in Dirs, evMap[f][d] # NoCo PROVE FALSE
    OBVIOUS
  <2>1. PICK b \in Cos : b = evMap[f][d]
    BY <1>0 DEF EpollTypeOK
  <2>2. Registered(b) /\ op[b].fd = f
    BY <1>0, <2>1 DEF MapInv
  <2> QED
    BY <1>1, <2>2
<1>3. evMap[f] = Nobody
  BY <1>0, <1>2 DEF EpollTypeOK, Nobody
<1>4. \A s \in Scheds : ~Watched(s, f)
  BY <1>0, <1>2 DEF KernelInv, Watched
<1> QED
  BY <1>1, <1>3, <1>4

\* A step on a socket that c has for itself.
LEMMA AloneLaw ==
    ASSUME IInv, TypeOK', NEW c \in Cos, NEW f \in Fds, op[c].at \in {"out", "closing"},
           \A b \in Cos : b # c => op[b].fd # f, OthersKept(c),
           \A g \in Fds : g # f => sock'[g] = sock[g] /\ info'[g] = info[g],
           sock'[f].open /\ ~sock'[f].shut =>
              info'[f].gen # 0 /\ sock'[f].nonblock /\ info'[f].nonblock = sock'[f].want,
           \/ op'[c] = NoOp
           \/ /\ op'[c].at = "closing" /\ op'[c].fd = f /\ ~op'[c].has
              /\ sock'[f].open,
           evMap' = [evMap EXCEPT ![f] = Nobody],
           \A t \in Scheds, g \in Fds : g # f => edge'[t][g] = edge[t][g],
           KernelInv', RunInv', UNCHANGED batch
    PROVE  IInv'
<1>0. /\ TypeOK /\ OutInv /\ OpenInv /\ ShareInv /\ InfoInv /\ NoOp.at = "out" /\ NoOp.fd = 0
      /\ NoOp.has = FALSE
  BY DEF IInv, NoOp
<1>1. ~Registered(c)
  BY AloneNobody
<1>2. \A b \in Cos : b # c => op'[b] = op[b] /\ op[b].fd # f
  BY DEF OthersKept
<1>3. op'[c].at # "wait" /\ ~op'[c].has /\ op'[c].at # "again"
  BY <1>0
<1>4. OutInv'
  BY <1>0, <1>2 DEF OutInv
<1>5. OpenInv'
  BY <1>0, <1>2 DEF OpenInv, OutInv
<1>6. ShareInv'
  <2> SUFFICES ASSUME NEW a \in Cos, NEW b \in Cos, a # b, op'[a].fd = op'[b].fd, op'[b].fd # 0
               PROVE  /\ SchedOf[a] = SchedOf[b] /\ op'[a].dir # op'[b].dir
                      /\ op'[a].kind # "poll" /\ op'[a].at # "closing"
    BY DEF ShareInv
  <2>1. a # c /\ b # c
    BY <1>0, <1>2
  <2> QED
    BY <1>0, <1>2, <2>1 DEF ShareInv
<1>7. InfoInv'
  <2>1. ASSUME NEW b \in Cos, InCall(b)', op'[b].gen # 0
        PROVE  info'[op'[b].fd].gen = op'[b].gen
    <3>1. b # c
      BY <1>0, <2>1 DEF InCall
    <3>2. op'[b] = op[b] /\ op[b].fd # f /\ InCall(b)
      BY <1>2, <2>1, <3>1 DEF InCall
    <3>3. op[b].fd \in Fds
      BY <1>0, <3>2 DEF InCall, OutInv
    <3> QED
      BY <1>0, <2>1, <3>2, <3>3 DEF InfoInv
  <2>2. ASSUME NEW g \in Fds, sock'[g].open, ~sock'[g].shut
        PROVE  info'[g].gen # 0 /\ sock'[g].nonblock /\ info'[g].nonblock = sock'[g].want
    BY <1>0, <2>2 DEF InfoInv
  <2> QED
    BY <2>1, <2>2 DEF InfoInv
<1>8. MapInv' /\ EdgesKept(c)
  BY <1>1, <1>3, FreeLaw
<1>9. ReadyKept(c)
  <2> SUFFICES ASSUME NEW b \in Cos, NEW g \in Fds, NEW d \in Dirs, b # c, op[b].fd = g,
                      (d \in Ready(g))'
               PROVE  d \in Ready(g)
    BY DEF ReadyKept
  <2>1. sock'[g] = sock[g]
    BY <1>2
  <2> QED
    BY <2>1 DEF Ready
<1>10. EdgeInv'
  <2>1. EdgeOf(c)'
    BY <1>3 DEF EdgeOf
  <2> QED
    BY <1>8, <1>9, <2>1, EdgeLaw
<1>11. BatchInv'
  BY BatchLaw
<1> QED
  BY <1>4, <1>5, <1>6, <1>7, <1>8, <1>10, <1>11 DEF IInv

\* A socket that a careful coroutine takes altogether.
LEMMA TakenLaw ==
    ASSUME IInv, ~Careless, NEW c \in Cos, NEW f \in Fds, Free(c), MayTakeAll(c, f)
    PROVE  /\ op[c].at = "out" /\ op[c] = NoOp /\ \A b \in Cos : b # c => op[b].fd # f
  BY DEF Free, MayTakeAll, IInv, OutInv

\* shutdown() of a socket that nobody else uses.
LEMMA ShutdownStep ==
    ASSUME IInv, ~Careless, NEW c \in Cos, Shutdown(c)
    PROVE  IInv'
<1>0. /\ TypeOK /\ EpollTypeOK /\ KernelInv /\ InfoInv /\ RunInv /\ SchedOf[c] \in Scheds
      /\ sock \in [Fds -> Sockets] /\ info \in [Fds -> Infos]
  BY SockAssumption DEF IInv, TypeOK
<1>1. PICK f \in Fds, how \in {"r", "w", "b"} :
        /\ sock[f].open /\ MayTakeAll(c, f) /\ (Careless \/ ~sock[f].shut)
        /\ info' = [info EXCEPT ![f] = ShutInfo]
        /\ sock' = [sock EXCEPT ![f].shut = TRUE, ![f].eof = @ \/ how # "w"]
        /\ op' = IF info[f].gen = 0 THEN [op EXCEPT ![c].at = "crash"] ELSE op
        /\ IF how = "b" THEN DelAll(SchedOf[c], f) ELSE DelEvent(SchedOf[c], f, how, Ready(f))
  BY DEF Shutdown
<1>2. Free(c) /\ UNCHANGED <<running, batch, opened, prog>>
  BY DEF Shutdown
<1>3. op[c].at = "out" /\ op[c] = NoOp /\ \A b \in Cos : b # c => op[b].fd # f
  BY <1>1, <1>2, TakenLaw
<1>4. evMap[f] = Nobody
  BY <1>3, AloneNobody
<1>5. op' = op
  BY <1>0, <1>1 DEF InfoInv
<1>6. PICK eof \in BOOLEAN : eof = (sock[f].eof \/ how # "w")
  OBVIOUS
<1>7. sock' = [sock EXCEPT ![f] = [sock[f] EXCEPT !.shut = TRUE, !.eof = eof]]
  BY <1>0, <1>1, <1>6
<1>8. /\ sock'[f] = [sock[f] EXCEPT !.shut = TRUE, !.eof = eof]
      /\ \A g \in Fds : g # f => sock'[g] = sock[g]
  BY <1>0, <1>7
<1>9. sock'[f] \in Sockets /\ sock'[f].shut = TRUE
  <2>1. sock[f] \in Sockets
    BY <1>0
  <2>2. sock'[f] \in Sockets
    BY <1>8, <2>1 DEF Sockets
  <2>3. sock'[f].shut = TRUE
    BY <1>8, <2>1 DEF Sockets
  <2> QED
    BY <2>2, <2>3
<1>10. sock' \in [Fds -> Sockets]
  BY <1>0, <1>7, <1>8, <1>9
<1>11. info' \in [Fds -> Infos] /\ \A g \in Fds : g # f => info'[g] = info[g]
  <2>1. NoInfo \in Infos
    BY SockAssumption DEF NoInfo, Infos
  <2> QED
    BY <1>0, <1>1, <2>1 DEF ShutInfo
<1>12. InOne(f, SchedOf[c])
  BY <1>4 DEF InOne, Nobody
<1>13. /\ evMap' = [evMap EXCEPT ![f] = Nobody]
       /\ EpollTypeOK' /\ KernelInv'
       /\ \A t \in Scheds, g \in Fds : g # f => edge'[t][g] = edge[t][g]
  <2>1. CASE how = "b"
    BY <1>0, <1>1, <1>12, <2>1, DelAllLaw
  <2>2. CASE how # "b"
    <3>1. how \in Dirs
      BY <1>1, <2>2 DEF Dirs
    <3>2. evMap[f][how] = NoCo
      BY <1>4, <3>1 DEF Nobody
    <3>3. UNCHANGED epollVars
      BY <1>1, <2>2, <3>2 DEF DelEvent
    <3>4. EpollTypeOK' /\ KernelInv'
      BY <1>0, <3>3, EpollKept
    <3>5. evMap' = [evMap EXCEPT ![f] = Nobody]
      BY <1>0, <1>4, <3>3 DEF epollVars, EpollTypeOK
    <3> QED
      BY <3>3, <3>4, <3>5 DEF epollVars
  <2> QED
    BY <2>1, <2>2
<1>14. TypeOK'
  BY <1>0, <1>2, <1>5, <1>10, <1>11, <1>13 DEF TypeOK
<1>15. RunInv'
  BY <1>0, <1>2, <1>5 DEF RunInv, Runs
<1>16. OthersKept(c) /\ op'[c] = NoOp
  BY <1>3, <1>5 DEF OthersKept
<1> QED
  BY <1>2, <1>3, <1>8, <1>9, <1>11, <1>13, <1>14, <1>15, <1>16, AloneLaw

\* close() of a socket that nobody else uses.
LEMMA CloseLaw ==
    ASSUME IInv, NEW c \in Cos, NEW f \in Fds, op[c].at \in {"out", "closing"},
           \A b \in Cos : b # c => op[b].fd # f, CloseFd(c, f)
    PROVE  /\ EpollTypeOK' /\ KernelInv' /\ sock' \in [Fds -> Sockets] /\ info' \in [Fds -> Infos]
           /\ evMap' = [evMap EXCEPT ![f] = Nobody] /\ sock'[f].open = FALSE
           /\ \A g \in Fds : g # f => sock'[g] = sock[g] /\ info'[g] = info[g]
           /\ \A t \in Scheds, g \in Fds : g # f => edge'[t][g] = edge[t][g]
<1>0. /\ TypeOK /\ EpollTypeOK /\ KernelInv /\ sock \in [Fds -> Sockets] /\ info \in [Fds -> Infos]
      /\ NoInfo \in Infos /\ Closed \in Sockets /\ Closed.open = FALSE
  BY SockAssumption DEF IInv, TypeOK, NoInfo, Infos, Closed, Sockets
<1>1. /\ info' = [info EXCEPT ![f] = NoInfo] /\ sock' = [sock EXCEPT ![f] = Closed]
      /\ evMap' = [evMap EXCEPT ![f] = Nobody]
      /\ interest' = [s \in Scheds |-> [interest[s] EXCEPT ![f] = Unwatched]]
      /\ edge' = [s \in Scheds |-> [edge[s] EXCEPT ![f] = {}]]
  BY DEF CloseFd, KernelClose
<1>2. /\ sock' \in [Fds -> Sockets] /\ info' \in [Fds -> Infos] /\ sock'[f].open = FALSE
      /\ \A g \in Fds : g # f => sock'[g] = sock[g] /\ info'[g] = info[g]
  BY <1>0, <1>1
<1>3. /\ evMap'[f] = Nobody
      /\ \A g \in Fds : g # f => evMap'[g] = evMap[g]
  BY <1>0, <1>1 DEF EpollTypeOK
<1>4. \A t \in Scheds : interest'[t][f] = Unwatched /\ edge'[t][f] = {}
  BY <1>0, <1>1 DEF EpollTypeOK
<1>5. \A t \in Scheds, g \in Fds : g # f =>
         interest'[t][g] = interest[t][g] /\ edge'[t][g] = edge[t][g]
  BY <1>0, <1>1 DEF EpollTypeOK
<1>6. EpollTypeOK'
  <2>1. Unwatched \in [mask: SUBSET Dirs, data: [Dirs -> Cos \cup {NoCo}]]
    BY DEF Unwatched, Nobody
  <2>2. evMap' \in [Fds -> [Dirs -> Cos \cup {NoCo}]]
    BY <1>0, <1>1 DEF EpollTypeOK, Nobody
  <2>3. interest' \in [Scheds -> [Fds -> [mask: SUBSET Dirs, data: [Dirs -> Cos \cup {NoCo}]]]]
    BY <1>0, <1>1, <2>1 DEF EpollTypeOK
  <2>4. edge' \in [Scheds -> [Fds -> SUBSET (Dirs \cup {"e"})]]
    BY <1>0, <1>1 DEF EpollTypeOK
  <2> QED
    BY <2>2, <2>3, <2>4 DEF EpollTypeOK
<1>7. ASSUME NEW t \in Scheds, NEW g \in Fds, Watched(t, g)'
      PROVE  /\ interest'[t][g].data = evMap'[g]
             /\ interest'[t][g].mask = {d \in Dirs : evMap'[g][d] # NoCo}
  <2>1. g # f
    BY <1>4, <1>7 DEF Watched, Unwatched
  <2>2. Watched(t, g)
    BY <1>5, <1>7, <2>1 DEF Watched
  <2> QED
    BY <1>0, <1>3, <1>5, <2>1, <2>2 DEF KernelInv
<1>8. ASSUME NEW t \in Scheds, NEW g \in Fds, NEW d \in Dirs, evMap'[g][d] # NoCo
      PROVE  Watched(t, g)' <=> t = SchedOf[evMap'[g][d]]
  <2>1. g # f
    BY <1>3, <1>8 DEF Nobody
  <2> QED
    BY <1>0, <1>3, <1>5, <1>8, <2>1 DEF KernelInv, Watched
<1>9. ASSUME NEW t \in Scheds, NEW g \in Fds
      PROVE  /\ edge'[t][g] \subseteq interest'[t][g].mask \cup {"e"}
             /\ edge'[t][g] # {} => Watched(t, g)'
  <2>1. CASE g = f
    BY <1>4, <2>1
  <2>2. CASE g # f
    BY <1>0, <1>5, <2>2 DEF KernelInv, Watched
  <2> QED
    BY <2>1, <2>2
<1>10. KernelInv'
  BY <1>7, <1>8, <1>9 DEF KernelInv
<1> QED
  BY <1>1, <1>2, <1>5, <1>6, <1>10

\* close() takes the socket out of the map and of the kernel at once.
LEMMA CloseStep ==
    ASSUME IInv, ~Careless, NEW c \in Cos, Close(c)
    PROVE  IInv'
<1>1. PICK f \in Fds : sock[f].open /\ MayTakeAll(c, f) /\ CloseFd(c, f)
  BY DEF Close
<1>2. Free(c) /\ UNCHANGED <<op, running, batch, opened, prog>>
  BY DEF Close
<1>3. op[c].at = "out" /\ op[c] = NoOp /\ \A b \in Cos : b # c => op[b].fd # f
  BY <1>1, <1>2, TakenLaw
<1>4. /\ EpollTypeOK' /\ KernelInv' /\ sock' \in [Fds -> Sockets] /\ info' \in [Fds -> Infos]
      /\ evMap' = [evMap EXCEPT ![f] = Nobody] /\ sock'[f].open = FALSE
      /\ \A g \in Fds : g # f => sock'[g] = sock[g] /\ info'[g] = info[g]
      /\ \A t \in Scheds, g \in Fds : g # f => edge'[t][g] = edge[t][g]
  BY <1>1, <1>3, CloseLaw
<1>5. TypeOK'
  BY <1>2, <1>4 DEF IInv, TypeOK
<1>6. RunInv'
  BY <1>2 DEF IInv, RunInv, Runs
<1>7. OthersKept(c) /\ op'[c] = NoOp
  BY <1>2, <1>3 DEF OthersKept
<1> QED
  BY <1>2, <1>3, <1>4, <1>5, <1>6, <1>7, AloneLaw

\* co::close() after its sleep: nobody has come to use the socket.
LEMMA CloseSleptStep ==
    ASSUME IInv, NEW c \in Cos, CloseSlept(c)
    PROVE  IInv'
<1>0. /\ TypeOK /\ OutInv /\ ShareInv /\ RunInv /\ op[c].at = "closing" /\ op \in [Cos -> Ops]
      /\ SchedOf \in [Cos -> Scheds] /\ NoCo \notin Cos /\ Fds \subseteq Nat \ {0}
  BY SockAssumption DEF IInv, TypeOK, CloseSlept
<1>1. PICK f \in Fds : f = op[c].fd
  BY <1>0 DEF OutInv
<1>2. /\ running[SchedOf[c]] = NoCo /\ CloseFd(c, f) /\ op' = [op EXCEPT ![c] = NoOp]
      /\ running' = [running EXCEPT ![SchedOf[c]] = c] /\ UNCHANGED <<batch, opened, prog>>
  BY <1>1 DEF CloseSlept
<1>3. \A b \in Cos : b # c => op[b].fd # f
  BY <1>0, <1>1 DEF ShareInv
<1>4. /\ EpollTypeOK' /\ KernelInv' /\ sock' \in [Fds -> Sockets] /\ info' \in [Fds -> Infos]
      /\ evMap' = [evMap EXCEPT ![f] = Nobody] /\ sock'[f].open = FALSE
      /\ \A g \in Fds : g # f => sock'[g] = sock[g] /\ info'[g] = info[g]
      /\ \A t \in Scheds, g \in Fds : g # f => edge'[t][g] = edge[t][g]
  BY <1>0, <1>2, <1>3, CloseLaw
<1>5. NoOp \in Ops /\ NoOp.at = "out"
  BY SockAssumption DEF NoOp, Ops, Places, Dirs, Kinds
<1>6. OthersKept(c) /\ op'[c] = NoOp /\ op' \in [Cos -> Ops]
  BY <1>0, <1>2, <1>5 DEF OthersKept
<1>7. TypeOK'
  BY <1>0, <1>2, <1>4, <1>6 DEF TypeOK
<1>8. RunInv'
  BY <1>0, <1>2, <1>5, <1>6 DEF RunInv, Runs, OthersKept, TypeOK
<1> QED
  BY <1>0, <1>2, <1>3, <1>4, <1>6, <1>7, <1>8, AloneLaw

\* co::close() before its sleep.
LEMMA CloseLaterStep ==
    ASSUME IInv, ~Careless, NEW c \in Cos, CloseLater(c)
    PROVE  IInv'
<1>0. /\ TypeOK /\ EpollTypeOK /\ KernelInv /\ RunInv /\ op \in [Cos -> Ops] /\ op[c] \in Ops
      /\ SchedOf \in [Cos -> Scheds] /\ SchedOf[c] \in Scheds /\ NoCo \notin Cos /\ InfoInv
  BY SockAssumption DEF IInv, TypeOK
<1>1. PICK f \in Fds :
        /\ sock[f].open /\ MayTakeAll(c, f)
        /\ DelAll(SchedOf[c], f)
        /\ op' = [op EXCEPT ![c].at = "closing", ![c].fd = f]
  BY DEF CloseLater
<1>2. /\ Free(c) /\ running' = [running EXCEPT ![SchedOf[c]] = NoCo]
      /\ UNCHANGED <<sock, info, batch, opened, prog>>
  BY DEF CloseLater
<1>3. op[c].at = "out" /\ op[c] = NoOp /\ \A b \in Cos : b # c => op[b].fd # f
  BY <1>1, <1>2, TakenLaw
<1>4. InOne(f, SchedOf[c])
  BY <1>3, AloneNobody DEF InOne, Nobody
<1>5. /\ evMap' = [evMap EXCEPT ![f] = Nobody]
      /\ EpollTypeOK' /\ KernelInv'
      /\ \A t \in Scheds, g \in Fds : g # f => edge'[t][g] = edge[t][g]
  BY <1>0, <1>1, <1>4, DelAllLaw
<1>6. op' = [op EXCEPT ![c] = [op[c] EXCEPT !.at = "closing", !.fd = f]]
  BY <1>0, <1>1
<1>7. OthersKept(c) /\ op'[c] = [op[c] EXCEPT !.at = "closing", !.fd = f]
  BY <1>0, <1>6 DEF OthersKept
<1>8. op'[c] \in Ops
  <2>1. "closing" \in Places
    BY DEF Places
  <2> QED
    BY <1>0, <1>7, <2>1 DEF Ops
<1>9. op'[c].at = "closing" /\ op'[c].fd = f /\ op'[c].has = op[c].has
  BY <1>0, <1>7 DEF Ops
<1>10. op[c].has = FALSE
  BY <1>3 DEF NoOp
<1>11. op' \in [Cos -> Ops]
  BY <1>0, <1>6, <1>7, <1>8
<1>12. TypeOK'
  <2>1. running' \in [Scheds -> Cos \cup {NoCo}]
    BY <1>0, <1>2 DEF TypeOK
  <2> QED
    BY <1>0, <1>2, <1>5, <1>11, <2>1 DEF TypeOK
<1>13. RunInv'
  <2>1. /\ running'[SchedOf[c]] = NoCo
        /\ \A t \in Scheds : t # SchedOf[c] => running'[t] = running[t]
    BY <1>0, <1>2 DEF TypeOK
  <2>2. ASSUME NEW b \in Cos, NEW t \in Scheds, running'[t] = b
        PROVE  t = SchedOf[b] /\ op'[b].at \in {"out", "try", "again"}
    <3>1. t # SchedOf[c] /\ running[t] = b
      BY <1>0, <2>1, <2>2
    <3>2. t = SchedOf[b] /\ op[b].at \in {"out", "try", "again"}
      BY <1>0, <3>1 DEF RunInv
    <3> QED
      BY <1>7, <3>1, <3>2 DEF OthersKept
  <2>3. ASSUME NEW b \in Cos, op'[b].at \in {"try", "again"}
        PROVE  Runs(b)'
    <3>1. b # c /\ op[b] = op'[b]
      BY <1>7, <1>9, <2>3 DEF OthersKept
    <3>2. running[SchedOf[b]] = b
      BY <1>0, <2>3, <3>1 DEF RunInv, Runs
    <3>3. SchedOf[b] # SchedOf[c] /\ SchedOf[b] \in Scheds
      BY <1>0, <1>2, <3>1, <3>2 DEF Free, Runs
    <3> QED
      BY <2>1, <3>2, <3>3 DEF Runs
  <2> QED
    BY <2>2, <2>3 DEF RunInv
<1>14. sock'[f].open /\ ~sock'[f].shut =>
          info'[f].gen # 0 /\ sock'[f].nonblock /\ info'[f].nonblock = sock'[f].want
  BY <1>0, <1>2 DEF InfoInv
<1> QED
  BY <1>1, <1>2, <1>3, <1>4, <1>5, <1>7, <1>9, <1>10, <1>12, <1>13, <1>14, AloneLaw

----------------------------------------------------------------------------
\* The network changes what a socket is ready for, and the kernel reports the
\* directions it changes.
LEMMA PeerLaw ==
    ASSUME IInv, NEW f \in Fds, NEW ev \in SUBSET (Dirs \cup {"e"}), NEW new \in Sockets,
           sock' = [sock EXCEPT ![f] = new], Report(f, ev),
           new.open = sock[f].open, new.shut = sock[f].shut,
           new.nonblock = sock[f].nonblock, new.want = sock[f].want,
           "r" \notin ev => new.in = sock[f].in /\ new.eof = sock[f].eof,
           "w" \notin ev => new.room = sock[f].room /\ new.broken = sock[f].broken,
           UNCHANGED <<info, op, running, batch, opened, prog>>
    PROVE  IInv'
<1>0. /\ TypeOK /\ EpollTypeOK /\ OutInv /\ OpenInv /\ MapInv /\ KernelInv /\ EdgeInv /\ BatchInv
      /\ RunInv /\ NoCo \notin Cos /\ SchedOf \in [Cos -> Scheds]
  BY SockAssumption DEF IInv, TypeOK
<1>1. sock'[f] = new /\ \A g \in Fds : g # f => sock'[g] = sock[g]
  BY <1>0 DEF TypeOK
<1>2. sock' \in [Fds -> Sockets]
  BY <1>0 DEF TypeOK
<1>3. evMap' = evMap /\ interest' = interest
  BY DEF Report
<1>4. /\ \A s \in Scheds, g \in Fds : g # f => edge'[s][g] = edge[s][g]
      /\ \A s \in Scheds : Watched(s, f) =>
            edge'[s][f] = edge[s][f] \cup (ev \cap (interest[s][f].mask \cup {"e"}))
      /\ \A s \in Scheds : ~Watched(s, f) => edge'[s][f] = edge[s][f]
  <2>1. edge' = [s \in Scheds |-> [edge[s] EXCEPT ![f] =
                   IF Watched(s, f) THEN @ \cup (ev \cap (interest[s][f].mask \cup {"e"}))
                   ELSE @]]
    BY DEF Report
  <2>2. \A s \in Scheds : edge[s] \in [Fds -> SUBSET (Dirs \cup {"e"})]
    BY <1>0 DEF EpollTypeOK
  <2> QED
    BY <2>1, <2>2
<1>5. edge' \in [Scheds -> [Fds -> SUBSET (Dirs \cup {"e"})]]
  BY <1>0 DEF Report, EpollTypeOK
<1>6. TypeOK'
  BY <1>0, <1>2, <1>3, <1>5 DEF TypeOK, EpollTypeOK
<1>7. \A g \in Fds : /\ sock'[g].open = sock[g].open
                     /\ sock'[g].shut = sock[g].shut /\ sock'[g].want = sock[g].want
                     /\ sock'[g].nonblock = sock[g].nonblock /\ info'[g] = info[g]
  BY <1>1
<1>8. SocksKept
  BY <1>7 DEF IInv, InfoInv, SocksKept
<1>9. OthersKept(NoCo)
  BY DEF OthersKept
<1>10. OutInv' /\ OpenInv' /\ ShareInv' /\ InfoInv'
  BY <1>0, <1>8, <1>9, StayLaw
<1>11. MapInv'
  BY <1>0, <1>3 DEF MapInv, Registered, InCall
<1>12. KernelInv'
  <2>1. \A s \in Scheds, g \in Fds : Watched(s, g)' <=> Watched(s, g)
    BY <1>3 DEF Watched
  <2>2. ASSUME NEW s \in Scheds, NEW g \in Fds
        PROVE  /\ edge'[s][g] \subseteq interest'[s][g].mask \cup {"e"}
               /\ edge'[s][g] # {} => Watched(s, g)'
    <3>1. edge[s][g] \subseteq interest[s][g].mask \cup {"e"} /\ (edge[s][g] # {} => Watched(s, g))
      BY <1>0 DEF KernelInv
    <3> QED
      BY <1>3, <1>4, <2>1, <3>1
  <2>3. ASSUME NEW s \in Scheds, NEW g \in Fds, Watched(s, g)'
        PROVE  /\ interest'[s][g].data = evMap'[g]
               /\ interest'[s][g].mask = {e \in Dirs : evMap'[g][e] # NoCo}
    BY <1>0, <1>3, <2>1, <2>3 DEF KernelInv
  <2>4. ASSUME NEW s \in Scheds, NEW g \in Fds, NEW e \in Dirs, evMap'[g][e] # NoCo
        PROVE  Watched(s, g)' <=> s = SchedOf[evMap'[g][e]]
    BY <1>0, <1>3, <2>1, <2>4 DEF KernelInv
  <2> QED
    BY <2>2, <2>3, <2>4 DEF KernelInv
<1>13. EdgeInv'
  <2> SUFFICES ASSUME NEW b \in Cos, op[b].at = "wait" \/ (op[b].at = "again" /\ op[b].has),
                      (op[b].dir \in Ready(op[b].fd))'
               PROVE  \/ op[b].dir \in edge'[SchedOf[b]][op[b].fd]
                      \/ op[b].at = "wait" /\ \E x \in batch[SchedOf[b]] : x.co = b
    BY DEF EdgeInv, EdgeOf
  <2>1. Registered(b)
    BY <1>0 DEF MapInv, Registered, InCall
  <2>2. /\ op[b].fd \in Fds /\ op[b].dir \in Dirs /\ SchedOf[b] \in Scheds
        /\ op[b].dir \in interest[SchedOf[b]][op[b].fd].mask
    BY <1>0, <2>1, RegisteredLaw
  <2>3. CASE op[b].fd = f /\ op[b].dir \in ev
    BY <1>4, <2>2, <2>3 DEF Watched
  <2>4. CASE ~(op[b].fd = f /\ op[b].dir \in ev)
    <3>1. PICK g \in Fds, e \in Dirs : g = op[b].fd /\ e = op[b].dir
      BY <2>2
    <3>2. (e \in Ready(g))'
      BY <3>1 DEF Ready
    <3>3. e \in Ready(g)
      <4>1. CASE g # f
        BY <1>1, <3>2, <4>1 DEF Ready
      <4>2. CASE g = f /\ e = "r"
        <5>1. "r" \notin ev
          BY <2>4, <3>1, <4>2
        <5>2. sock'[f].in = sock[f].in /\ sock'[f].eof = sock[f].eof /\ sock'[f].open = sock[f].open
          BY <1>1, <5>1
        <5> QED
          BY <3>2, <4>2, <5>2 DEF Ready
      <4>3. CASE g = f /\ e = "w"
        <5>1. "w" \notin ev
          BY <2>4, <3>1, <4>3
        <5>2. /\ sock'[f].room = sock[f].room /\ sock'[f].broken = sock[f].broken
              /\ sock'[f].open = sock[f].open
          BY <1>1, <5>1
        <5> QED
          BY <3>2, <4>3, <5>2 DEF Ready
      <4> QED
        BY <4>1, <4>2, <4>3 DEF Dirs
    <3>4. op[b].dir \in Ready(op[b].fd)
      BY <3>1, <3>3
    <3>5. \/ op[b].dir \in edge[SchedOf[b]][op[b].fd]
          \/ op[b].at = "wait" /\ \E x \in batch[SchedOf[b]] : x.co = b
      BY <1>0, <3>4 DEF EdgeInv, EdgeOf
    <3> QED
      BY <1>4, <2>2, <3>5
  <2> QED
    BY <2>3, <2>4
<1>14. BatchInv' /\ RunInv'
  BY <1>0 DEF BatchInv, RunInv, Runs
<1> QED
  BY <1>6, <1>10, <1>11, <1>12, <1>13, <1>14 DEF IInv

\* What arrives from the network is reported to whoever is registered.
LEMMA PeerStep ==
    ASSUME IInv, NEW f \in Fds,
           PeerSends(f) \/ PeerCloses(f) \/ PeerResets(f) \/ PeerFails(f) \/ PeerTakes(f)
    PROVE  IInv'
<1>0. sock \in [Fds -> Sockets] /\ sock[f] \in Sockets /\ Room \in Nat /\ MaxIn \in Nat
  BY SockAssumption DEF IInv, TypeOK
<1>1. CASE PeerSends(f)
  <2>1. sock[f].in \in 0..MaxIn /\ sock[f].in < MaxIn
    BY <1>0, <1>1 DEF Sockets, PeerSends
  <2>2. PICK n \in 0..MaxIn : n = sock[f].in + 1
    BY <1>0, <2>1
  <2>3. PICK new : new = [sock[f] EXCEPT !.in = n]
    OBVIOUS
  <2>4. /\ new \in Sockets /\ new.open = sock[f].open /\ new.broken = sock[f].broken
        /\ new.shut = sock[f].shut /\ new.nonblock = sock[f].nonblock
        /\ new.want = sock[f].want /\ new.room = sock[f].room
    BY <1>0, <2>3 DEF Sockets
  <2>5. sock' = [sock EXCEPT ![f] = new]
    BY <1>1, <2>2, <2>3 DEF PeerSends
  <2>6. Report(f, {"r"}) /\ UNCHANGED <<info, op, running, batch, opened, prog>> /\ "r" \in Dirs
    BY <1>1 DEF PeerSends, Dirs
  <2> QED
    BY <2>4, <2>5, <2>6, PeerLaw
<1>2. CASE PeerCloses(f)
  <2>1. PICK new : new = [sock[f] EXCEPT !.eof = TRUE]
    OBVIOUS
  <2>2. /\ new \in Sockets /\ new.open = sock[f].open /\ new.broken = sock[f].broken
        /\ new.shut = sock[f].shut /\ new.nonblock = sock[f].nonblock
        /\ new.want = sock[f].want /\ new.room = sock[f].room
    BY <1>0, <2>1 DEF Sockets
  <2>3. sock' = [sock EXCEPT ![f] = new]
    BY <1>2, <2>1 DEF PeerCloses
  <2>4. Report(f, {"r"}) /\ UNCHANGED <<info, op, running, batch, opened, prog>> /\ "r" \in Dirs
    BY <1>2 DEF PeerCloses, Dirs
  <2> QED
    BY <2>2, <2>3, <2>4, PeerLaw
<1>3. CASE PeerTakes(f)
  <2>1. PICK new : new = [sock[f] EXCEPT !.room = Room]
    OBVIOUS
  <2>2. Room \in 0..Room
    BY <1>0
  <2>3. /\ new \in Sockets /\ new.open = sock[f].open /\ new.broken = sock[f].broken
        /\ new.shut = sock[f].shut /\ new.nonblock = sock[f].nonblock
        /\ new.want = sock[f].want /\ new.in = sock[f].in /\ new.eof = sock[f].eof
    BY <1>0, <2>1, <2>2 DEF Sockets
  <2>4. sock' = [sock EXCEPT ![f] = new]
    BY <1>3, <2>1 DEF PeerTakes
  <2>5. Report(f, {"w"}) /\ UNCHANGED <<info, op, running, batch, opened, prog>> /\ "w" \in Dirs
    BY <1>3 DEF PeerTakes, Dirs
  <2> QED
    BY <2>3, <2>4, <2>5, PeerLaw
<1>4. CASE PeerResets(f)
  <2>1. PICK new : new = [sock[f] EXCEPT !.eof = TRUE, !.broken = TRUE]
    OBVIOUS
  <2>2. /\ new \in Sockets /\ new.open = sock[f].open
        /\ new.shut = sock[f].shut /\ new.nonblock = sock[f].nonblock
        /\ new.want = sock[f].want
    BY <1>0, <2>1 DEF Sockets
  <2>3. sock' = [sock EXCEPT ![f] = new]
    BY <1>4, <2>1 DEF PeerResets
  <2>4. /\ Report(f, {"r", "w", "e"}) /\ UNCHANGED <<info, op, running, batch, opened, prog>>
        /\ {"r", "w", "e"} \in SUBSET (Dirs \cup {"e"})
    BY <1>4 DEF PeerResets, Dirs
  <2> QED
    BY <2>2, <2>3, <2>4, PeerLaw
<1>5. CASE PeerFails(f)
  <2>1. sock' = [sock EXCEPT ![f] = sock[f]]
    BY <1>0, <1>5 DEF PeerFails
  <2>2. /\ Report(f, {"e"}) /\ UNCHANGED <<info, op, running, batch, opened, prog>>
        /\ {"e"} \in SUBSET (Dirs \cup {"e"})
    BY <1>5 DEF PeerFails
  <2> QED
    BY <1>0, <2>1, <2>2, PeerLaw
<1> QED
  BY <1>1, <1>2, <1>3, <1>4, <1>5

----------------------------------------------------------------------------
\* The invariant holds at first, and every step of a careful program keeps it.
LEMMA InitIInv == Init => IInv
<1> SUFFICES ASSUME Init PROVE IInv
  OBVIOUS
<1>0. /\ evMap = [f \in Fds |-> Nobody]
      /\ interest = [s \in Scheds |-> [f \in Fds |-> Unwatched]]
      /\ edge = [s \in Scheds |-> [f \in Fds |-> {}]]
      /\ sock = [f \in Fds |-> Closed] /\ info = [f \in Fds |-> NoInfo]
      /\ op = [c \in Cos |-> NoOp] /\ running = [s \in Scheds |-> NoCo]
      /\ batch = [s \in Scheds |-> {}] /\ opened = 0 /\ prog \in Programs
  BY DEF Init, EpollInit
<1>1. NoOp \in Ops /\ NoInfo \in Infos /\ Closed \in Sockets
  BY SockAssumption DEF NoOp, Ops, Places, Dirs, Kinds, NoInfo, Infos, Closed, Sockets
<1>2. NoOp.at = "out" /\ NoOp.fd = 0 /\ Closed.open = FALSE /\ Unwatched.mask = {}
  BY DEF NoOp, Closed, Unwatched
<1>3. EpollTypeOK
  <2>1. Unwatched \in [mask: SUBSET Dirs, data: [Dirs -> Cos \cup {NoCo}]]
    BY DEF Unwatched, Nobody
  <2> QED
    BY <1>0, <2>1 DEF EpollTypeOK, Nobody
<1>4. TypeOK
  BY <1>0, <1>1, <1>3, SockAssumption DEF TypeOK
<1>5. OutInv /\ OpenInv /\ ShareInv
  BY <1>0, <1>2 DEF OutInv, OpenInv, ShareInv
<1>6. InfoInv
  BY <1>0, <1>2 DEF InfoInv, InCall
<1>7. RunInv
  BY <1>0, <1>2, SockAssumption DEF RunInv
<1>8. MapInv
  BY <1>0, <1>2 DEF MapInv, Registered, InCall, Nobody
<1>9. KernelInv
  BY <1>0, <1>2 DEF KernelInv, Watched, Nobody
<1>10. EdgeInv /\ BatchInv
  BY <1>0, <1>2 DEF EdgeInv, EdgeOf, BatchInv
<1> QED
  BY <1>4, <1>5, <1>6, <1>7, <1>8, <1>9, <1>10 DEF IInv

\* The steps, one by one.
LEMMA NextIInv ==
    ASSUME IInv, ~Careless, [Next]_vars
    PROVE  IInv'
<1>1. CASE UNCHANGED vars
  <2>1. UNCHANGED <<epollVars, sock, info, op, running, batch, opened, prog>>
    BY <1>1 DEF vars, epollVars
  <2>2. TypeOK'
    BY <2>1 DEF IInv, TypeOK, EpollTypeOK, epollVars
  <2>3. RunInv'
    BY <2>1 DEF IInv, RunInv, Runs
  <2> QED
    BY <2>1, <2>2, <2>3, SocksLaw, IdleLaw
<1>2. ASSUME NEW c \in Cos, Enter(c) \/ Leave(c) \/ Socket(c) \/ Fcntl(c) \/ Setsockopt(c)
      PROVE  IInv'
  BY <1>2, EnterStep, LeaveStep, SocketStep, FcntlStep, SetsockoptStep
<1>3. ASSUME NEW c \in Cos,
             \/ HookedCall(c) \/ RecvSome(c) \/ RecvAll(c) \/ Accept(c)
             \/ Connect(c) \/ EpollWaitHook(c) \/ Poll(c)
      PROVE  IInv'
  <2>k. {"some", "all", "accept", "once", "poll"} \subseteq Kinds \ {"direct"} /\ {"r", "w"} = Dirs
    BY DEF Kinds, Dirs
  <2>1. CASE HookedCall(c)
    <3>1. PICK f \in Fds, d \in Dirs : Call(c, f, d, "some", TRUE, FALSE)
      BY <2>1 DEF HookedCall
    <3> QED
      BY <2>k, <3>1, CallBegins
  <2>2. CASE RecvSome(c)
    <3>1. PICK f \in Fds, d \in Dirs, timed \in BOOLEAN : Call(c, f, d, "some", FALSE, timed)
      BY <2>2 DEF RecvSome
    <3> QED
      BY <2>k, <3>1, CallBegins
  <2>3. CASE RecvAll(c)
    <3>1. PICK f \in Fds, d \in Dirs, timed \in BOOLEAN : Call(c, f, d, "all", FALSE, timed)
      BY <2>3 DEF RecvAll
    <3> QED
      BY <2>k, <3>1, CallBegins
  <2>4. CASE Accept(c)
    <3>1. PICK f \in Fds : Call(c, f, "r", "accept", TRUE, FALSE)
      BY <2>4 DEF Accept
    <3> QED
      BY <2>k, <3>1, CallBegins
  <2>5. CASE Connect(c)
    <3>1. PICK f \in Fds : \/ \E timed \in BOOLEAN : Call(c, f, "w", "once", FALSE, timed)
                          \/ Call(c, f, "w", "once", TRUE, FALSE)
      BY <2>5 DEF Connect
    <3> QED
      BY <2>k, <3>1, CallBegins
  <2>6. CASE EpollWaitHook(c)
    <3>1. PICK f \in Fds, timed \in BOOLEAN : Call(c, f, "r", "once", FALSE, timed)
      BY <2>6 DEF EpollWaitHook
    <3> QED
      BY <2>k, <3>1, CallBegins
  <2>7. CASE Poll(c)
    <3>1. PICK f \in Fds, d \in Dirs, timed \in BOOLEAN : 
                MayTakeAll(c, f) /\ Call(c, f, d, "poll", FALSE, timed)
      BY <2>7 DEF Poll
    <3> QED
      BY <2>k, <3>1, CallBegins
  <2> QED
    BY <1>3, <2>1, <2>2, <2>3, <2>4, <2>5, <2>6, <2>7
<1>4. ASSUME NEW c \in Cos, CallStep(c)
      PROVE  IInv'
  BY <1>4, SysCallMovesStep, SysCallEndsStep, SysCallAgainStep, IoWaitStep DEF CallStep
<1>5. ASSUME NEW c \in Cos,
             ResumeForTimeout(c) \/ Shutdown(c) \/ Close(c) \/ CloseLater(c) \/ CloseSlept(c)
      PROVE  IInv'
  BY <1>5, ResumeForTimeoutStep, ShutdownStep, CloseStep, CloseLaterStep, CloseSleptStep
<1>6. ASSUME NEW s \in Scheds, Loop(s)
      PROVE  IInv'
  BY <1>6, EpollWaitStep, ResumeForEventStep DEF Loop
<1>7. ASSUME NEW f \in Fds,
             PeerSends(f) \/ PeerCloses(f) \/ PeerResets(f) \/ PeerFails(f) \/ PeerTakes(f)
      PROVE  IInv'
  BY <1>7, PeerStep
<1> QED
  BY <1>1, <1>2, <1>3, <1>4, <1>5, <1>6, <1>7 DEF Next

\* The invariant holds as long as the program is careful.
LEMMA SpecIInv == ASSUME ~Careless PROVE Spec => []IInv
<1>1. IInv /\ [Next]_vars => IInv'
  BY NextIInv
<1> QED
  BY <1>1, InitIInv, PTL DEF Spec

\* For careful programs the event map, what the kernel watches and the calls
\* that have registered always agree, whatever the calls, time limits,
\* closures, reuses of descriptors and moves of a socket to another scheduler;
\* and no socket in use blocks its scheduler (epoll.cc:68-145, hook.cc:320-342).
THEOREM MapMatchesKernel == ASSUME ~Careless PROVE Spec => []EntriesMatch
<1>1. IInv => EntriesMatch
  <2> SUFFICES ASSUME IInv PROVE EntriesMatch
    OBVIOUS
  <2>1. \A f \in Fds, d \in Dirs : evMap[f][d] # NoCo =>
           Registered(evMap[f][d]) /\ op[evMap[f][d]].fd = f /\ op[evMap[f][d]].dir = d
    BY DEF IInv, MapInv
  <2>2. \A c \in Cos : Registered(c) => evMap[op[c].fd][op[c].dir] = c
    BY DEF IInv, MapInv
  <2>3. /\ \A s \in Scheds, f \in Fds :
             Watched(s, f) => /\ interest[s][f].data = evMap[f]
                              /\ interest[s][f].mask = {d \in Dirs : evMap[f][d] # NoCo}
        /\ \A s \in Scheds, f \in Fds, d \in Dirs :
             evMap[f][d] # NoCo => (Watched(s, f) <=> s = SchedOf[evMap[f][d]])
    BY DEF IInv, KernelInv
  <2>4. ASSUME NEW f \in Fds, sock[f].open, ~sock[f].shut
        PROVE  sock[f].nonblock /\ FcntlGet(f) = sock[f].want
    <3>1. info[f].gen # 0 /\ sock[f].nonblock /\ info[f].nonblock = sock[f].want
      BY <2>4 DEF IInv, InfoInv
    <3>2. sock[f].want \in BOOLEAN
      BY DEF IInv, TypeOK, Sockets
    <3> QED
      BY <3>1, <3>2 DEF FcntlGet
  <2> QED
    BY <2>1, <2>2, <2>3, <2>4 DEF EntriesMatch
<1> QED
  BY <1>1, SpecIInv, PTL

\* For careful programs no edge is lost: whenever a coroutine waits for a
\* socket that is ready, an event for it is still to be reported or at hand,
\* though edges are reported once and the failed system call came before the
\* registration (hook.cc:256-265, io_event.h:50-62).
THEOREM EdgesNeverLost == ASSUME ~Careless PROVE Spec => []NoLostEdge
<1>1. IInv => NoLostEdge
  BY DEF IInv, EdgeInv, EdgeOf, NoLostEdge
<1> QED
  BY <1>1, SpecIInv, PTL

\* For careful programs an event resumes only the coroutine that waits for it
\* at that time, and no call meets information that is missing or freed: they
\* make no call after shutdown, which frees it (hook.cc:106-109, 129-152,
\* scheduler.cc:100-103).
THEOREM NeverStrayResume == ASSUME ~Careless PROVE Spec => []NoStrayResume
<1>1. IInv => NoStrayResume
  BY DEF IInv, OutInv, BatchInv, NoStrayResume
<1> QED
  BY <1>1, SpecIInv, PTL

\* For careful programs the state keeps its types.
THEOREM TypesKept == ASSUME ~Careless PROVE Spec => []TypeOK
<1>1. IInv => TypeOK
  BY DEF IInv
<1> QED
  BY <1>1, SpecIInv, PTL
=============================================================================
