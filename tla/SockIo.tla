------------------------------- MODULE SockIo -------------------------------
(***************************************************************************)
(* Blocking socket calls of coroutines: IoEvent (io_event.h), the socket   *)
(* functions of co (sock.cc) and the hooked system calls with the          *)
(* information kept per descriptor (hook.cc), on top of the event map of   *)
(* Epoll and the part of Scheduler::loop that resumes waiters.             *)
(*                                                                         *)
(* A call tries the system call; when that would block, it registers the   *)
(* descriptor, adds a timer if there is a time limit, and yields; woken,   *)
(* it tries again; its end removes what it registered.  The coroutines of  *)
(* one scheduler run one at a time, the network and the other schedulers   *)
(* at any time.  A socket is the bytes that can be read, the end of the    *)
(* stream, the room in its send buffer, and whether the peer has reset the *)
(* connection.  A call interrupted by a signal (EINTR) just tries again,   *)
(* which is a stuttering step.                                             *)
(*                                                                         *)
(* Careless = FALSE: a socket is used in one scheduler at a time (any one: *)
(* tcp::Server accepts a connection in one and serves it in another), a    *)
(* direction by one coroutine at a time; poll, shutdown and close come     *)
(* when no other coroutine is in a call on that socket; a socket that was  *)
(* shut down, even for one direction, is only closed.                      *)
(***************************************************************************)
EXTENDS Epoll

CONSTANTS
    SchedOf,    \* the scheduler of each coroutine
    MaxIn,      \* bytes (or connections) that a socket holds
    Room,       \* size of a send buffer
    Need,       \* bytes that recvn and send are asked for
    Chunk,      \* co_max_recv_size, co_max_send_size
    MaxOpen,    \* how many sockets are created
    Programs,   \* what the coroutines do: see Tasks
    Careless

VARIABLES
    sock,       \* kernel: the state of each descriptor
    info,       \* Hook::_infos
    op,         \* the call each coroutine is in
    running,    \* Scheduler::_running
    batch,      \* events for which the loop has still to resume a coroutine
    opened,     \* how many sockets were created
    prog        \* the program that runs: what each coroutine does, descriptors

vars == <<evMap, interest, edge, sock, info, op, running, batch, opened, prog>>

\* broken: the peer has reset the connection, so nothing can be sent;
\* nonblock: the flag of the kernel; want: the flag the user set; shut:
\* shutdown was called.
Closed == [open |-> FALSE, in |-> 0, eof |-> FALSE, room |-> 0, broken |-> FALSE,
           nonblock |-> FALSE, want |-> FALSE, shut |-> FALSE]
\* nonblock: _user_flags; timed: whether a call has a time limit; gen tells
\* one allocation from another.
NoInfo == [gen |-> 0, nonblock |-> FALSE, timed |-> [d \in Dirs |-> FALSE]]
NoOp == [at |-> "out", fd |-> 0, dir |-> "r", kind |-> "some", remain |-> 0,
         left |-> 0, timed |-> FALSE, has |-> FALSE, gen |-> 0]

\* "some": the first system call that does not block ends it; "all": recvn and
\* send; "accept"; "once": connect and epoll_wait, which wait once; "poll";
\* "direct": the system call itself.
Kinds == {"some", "all", "accept", "once", "poll", "direct"}
Tasks == (Kinds \ {"direct"}) \cup {"open", "nonblock", "set", "close"}
Sockets == [open: BOOLEAN, in: 0..MaxIn, eof: BOOLEAN, room: 0..Room, broken: BOOLEAN,
            nonblock: BOOLEAN, want: BOOLEAN, shut: BOOLEAN]
Infos == [gen: 0..MaxOpen, nonblock: BOOLEAN, timed: [Dirs -> BOOLEAN]]
\* An event as the loop sees it: whom it resumes, and for what.
Events == [co: Cos, fd: Fds, dir: Dirs]
Places == {"out", "try", "again", "wait", "closing", "crash"}
Ops == [at: Places, fd: Fds \cup {0}, dir: Dirs, kind: Kinds, remain: 0..Need,
        left: 0..Need, timed: BOOLEAN, has: BOOLEAN, gen: 0..MaxOpen]

ASSUME SockAssumption ==
    /\ SchedOf \in [Cos -> Scheds]
    /\ Programs \subseteq [uses: [Cos -> SUBSET Tasks], fds: SUBSET Fds]
    /\ NoCo \notin Cos /\ Fds \subseteq Nat \ {0}
    /\ {MaxIn, Room, Need, Chunk, MaxOpen} \subseteq Nat
    /\ Room > 0 /\ Need > 0 /\ Chunk > 0
    /\ Careless \in BOOLEAN

TypeOK ==
    /\ EpollTypeOK
    /\ sock \in [Fds -> Sockets]
    /\ info \in [Fds -> Infos]
    /\ op \in [Cos -> Ops]
    /\ running \in [Scheds -> Cos \cup {NoCo}]
    /\ batch \in [Scheds -> SUBSET Events]
    /\ opened \in 0..MaxOpen
    /\ prog \in Programs

Init ==
    /\ EpollInit
    /\ sock = [f \in Fds |-> Closed]
    /\ info = [f \in Fds |-> NoInfo]
    /\ op = [c \in Cos |-> NoOp]
    /\ running = [s \in Scheds |-> NoCo]
    /\ batch = [s \in Scheds |-> {}]
    /\ opened = 0
    /\ prog \in Programs

----------------------------------------------------------------------------
Ready(f) ==
    {d \in Dirs : /\ sock[f].open
                  /\ IF d = "r" THEN sock[f].in > 0 \/ sock[f].eof
                     ELSE sock[f].room > 0 \/ sock[f].broken}
Runs(c) == running[SchedOf[c]] = c
Free(c) == Runs(c) /\ op[c].at = "out"
InCall(c) == op[c].at \in {"try", "again", "wait"}

\* What Careless = FALSE asks of the program.
MayCall(c, f, d) ==
    \/ Careless
    \/ /\ ~sock[f].shut
       /\ \A b \in Cos \ {c} : op[b].fd = f =>
             /\ SchedOf[b] = SchedOf[c] /\ op[b].dir # d
             /\ op[b].kind # "poll" /\ op[b].at # "closing"
MayTakeAll(c, f) == Careless \/ \A b \in Cos \ {c} : op[b].fd # f

\* fcntl(F_SETFL): a socket with information stays non-blocking in the
\* kernel, and the flag the user asked for is remembered.
FcntlKernel(hi, param) == param \/ hi.gen # 0
FcntlInfo(hi, param) == IF hi.gen # 0 THEN [hi EXCEPT !.nonblock = param] ELSE hi

\* fcntl(F_GETFL): what the user sees.
FcntlGet(f) == sock[f].nonblock /\ (info[f].gen # 0 => info[f].nonblock)

\* _Get_timeout: the kernel has no time limit for a new socket.  new_by_fd also
\* calls fcntl(F_SETFL), with the flags the socket was created with.
TimeLimits == [d \in Dirs |-> FALSE]
NewByFd(nb) == FcntlInfo([NoInfo EXCEPT !.gen = opened + 1, !.timed = TimeLimits], nb)

\* on_shutdown: every case falls through to the one that frees the information.
ShutInfo == NoInfo

Flags(c) == {nb \in BOOLEAN : nb => "nonblock" \in prog.uses[c]}

\* The kernel hands out the lowest free descriptor.
FreeFds == {f \in prog.fds : ~sock[f].open}
Created(nb, socks) ==
    /\ opened < MaxOpen
    /\ opened' = opened + 1 /\ UNCHANGED prog
    /\ \E f \in FreeFds :
       /\ \A g \in FreeFds : f <= g
       /\ sock' = [socks EXCEPT ![f] =
                     [Closed EXCEPT !.open = TRUE, !.room = Room,
                                    !.want = nb, !.nonblock = FcntlKernel(NewByFd(nb), nb)]]
       /\ info' = [info EXCEPT ![f] = NewByFd(nb)]

----------------------------------------------------------------------------
\* Coroutines enter and leave the scheduler for other reasons than sockets.
Enter(c) ==
    /\ running[SchedOf[c]] = NoCo /\ batch[SchedOf[c]] = {}
    /\ op[c].at = "out" /\ prog.uses[c] # {}
    /\ running' = [running EXCEPT ![SchedOf[c]] = c]
    /\ UNCHANGED <<epollVars, sock, info, op, batch, opened, prog>>

Leave(c) ==
    /\ Free(c)
    /\ running' = [running EXCEPT ![SchedOf[c]] = NoCo]
    /\ UNCHANGED <<epollVars, sock, info, op, batch, opened, prog>>

\* socket(), also with SOCK_NONBLOCK if the program does that; accept4 is alike.
Socket(c) ==
    /\ Free(c) /\ "open" \in prog.uses[c]
    /\ \E nb \in Flags(c) : Created(nb, sock)
    /\ UNCHANGED <<epollVars, op, running, batch>>

\* fcntl(F_SETFL) with or without O_NONBLOCK.
Fcntl(c) ==
    /\ Free(c) /\ "set" \in prog.uses[c]
    /\ \E f \in Fds, nb \in BOOLEAN :
          /\ sock[f].open /\ ~sock[f].shut
          /\ sock' = [sock EXCEPT ![f].nonblock = FcntlKernel(info[f], nb), ![f].want = nb]
          /\ info' = [info EXCEPT ![f] = FcntlInfo(@, nb)]
    /\ UNCHANGED <<epollVars, op, running, batch, opened, prog>>

\* setsockopt(SO_RCVTIMEO or SO_SNDTIMEO): from now on calls have a time
\* limit; {0, 0} is a limit of 0 ms, too.
Setsockopt(c) ==
    /\ Free(c) /\ "set" \in prog.uses[c]
    /\ \E f \in Fds, d \in Dirs :
          /\ sock[f].open /\ info[f].gen # 0
          /\ info' = [info EXCEPT ![f].timed[d] = TRUE]
    /\ UNCHANGED <<epollVars, sock, op, running, batch, opened, prog>>

----------------------------------------------------------------------------
\* A call begins.  hook: a hooked system call, which looks for the information
\* of the descriptor (a missing one is dereferenced) and leaves a socket alone
\* that the user made non-blocking.  Otherwise a function of co, which is told
\* its time limit.
Call(c, f, d, kind, hook, timed) ==
    LET n == IF kind = "all" THEN Need ELSE 1
        first == IF n < Chunk THEN n ELSE Chunk
        direct == hook /\ info[f].nonblock
        new == [NoOp EXCEPT !.fd = f, !.dir = d, !.remain = first, !.left = n - first,
                  !.kind = IF direct THEN "direct" ELSE kind,
                  !.at = IF hook /\ info[f].gen = 0 THEN "crash"
                         ELSE IF kind \in {"once", "poll"} THEN "again" ELSE "try",
                  !.timed = IF hook /\ kind = "once" THEN info[f].timed[d] ELSE timed,
                  !.gen = IF hook /\ kind = "some" THEN info[f].gen ELSE 0]
    IN /\ Free(c) /\ sock[f].open /\ kind \in prog.uses[c]
       /\ MayCall(c, f, d)
       /\ op' = [op EXCEPT ![c] = IF direct /\ kind = "once" THEN NoOp ELSE new]
       /\ UNCHANGED <<epollVars, sock, info, running, batch, opened, prog>>

\* read, readv, recv, recvfrom, recvmsg and their counterparts for writing.
HookedCall(c) == \E f \in Fds, d \in Dirs : Call(c, f, d, "some", TRUE, FALSE)

\* co::recv, co::recvfrom, co::sendto.
RecvSome(c) == \E f \in Fds, d \in Dirs, timed \in BOOLEAN : Call(c, f, d, "some", FALSE, timed)

\* co::recvn, co::send.
RecvAll(c) == \E f \in Fds, d \in Dirs, timed \in BOOLEAN : Call(c, f, d, "all", FALSE, timed)

\* accept and accept4, which wait without a time limit.
Accept(c) == \E f \in Fds : Call(c, f, "r", "accept", TRUE, FALSE)

\* co::connect and connect, whose first system call said EINPROGRESS, and
\* epoll_wait, which makes none before it waits.
Connect(c) ==
    \E f \in Fds :
       \/ \E timed \in BOOLEAN : Call(c, f, "w", "once", FALSE, timed)
       \/ Call(c, f, "w", "once", TRUE, FALSE)
EpollWaitHook(c) == \E f \in Fds, timed \in BOOLEAN : Call(c, f, "r", "once", FALSE, timed)

\* poll of a single descriptor.
Poll(c) ==
    \E f \in Fds, d \in Dirs, timed \in BOOLEAN :
       MayTakeAll(c, f) /\ Call(c, f, d, "poll", FALSE, timed)

\* The end of a call: ~IoEvent removes the registration.
Finish(c, o) ==
    /\ op' = [op EXCEPT ![c] = NoOp]
    /\ IF o.has THEN DelEvent(SchedOf[c], o.fd, o.dir, Ready(o.fd)) ELSE UNCHANGED epollVars

\* The system call of a call: bytes are moved, it fails or finds the end of
\* the stream, or it would block.
Moves(o) == LET n == IF o.dir = "r" THEN sock[o.fd].in
                     ELSE IF sock[o.fd].broken THEN 0 ELSE sock[o.fd].room
            IN IF n < o.remain THEN n ELSE o.remain
Moved(o) == IF o.dir = "r" THEN [sock EXCEPT ![o.fd].in = @ - Moves(o)]
            ELSE [sock EXCEPT ![o.fd].room = @ - Moves(o)]

SysCallMoves(c) ==
    LET o == op[c] IN
    /\ Runs(c) /\ o.at = "try" /\ sock[o.fd].open /\ Moves(o) > 0
    /\ UNCHANGED <<running, batch>>
    /\ IF o.kind = "accept" /\ opened < MaxOpen /\ FreeFds # {}
       THEN (\E nb \in Flags(c) : Created(nb, Moved(o))) /\ Finish(c, o)
       ELSE /\ sock' = IF o.kind = "accept" THEN sock ELSE Moved(o) \* no descriptor left
            /\ UNCHANGED <<info, opened, prog>>
            /\ IF o.kind # "all" \/ (Moves(o) = o.remain /\ o.left = 0)
               THEN Finish(c, o)
               ELSE IF Moves(o) < o.remain
               THEN op' = [op EXCEPT ![c].remain = @ - Moves(o)] /\ UNCHANGED epollVars
               ELSE \* the next chunk of recvn or send has an IoEvent of its own
                    LET n == IF o.left < Chunk THEN o.left ELSE Chunk
                    IN /\ op' = [op EXCEPT ![c].remain = n, ![c].left = @ - n, ![c].has = FALSE]
                       /\ IF o.has THEN DelEvent(SchedOf[c], o.fd, o.dir, Ready(o.fd))
                          ELSE UNCHANGED epollVars

\* The end of the stream, a closed descriptor, a direct call that would block,
\* a connection that was reset (EPIPE, ECONNRESET), or any other error: the
\* network may leave one on the socket at any time.
SysCallEnds(c) ==
    LET o == op[c] IN
    /\ Runs(c) /\ o.at = "try"
    /\ Finish(c, o)
    /\ UNCHANGED <<sock, info, running, batch, opened, prog>>

\* EAGAIN.  Without O_NONBLOCK in the kernel the thread of the scheduler would
\* block here.
SysCallAgain(c) ==
    LET o == op[c] IN
    /\ Runs(c) /\ o.at = "try" /\ o.kind # "direct"
    /\ sock[o.fd].open /\ sock[o.fd].nonblock /\ o.dir \notin Ready(o.fd)
    /\ op' = [op EXCEPT ![c].at = "again"]
    /\ UNCHANGED <<epollVars, sock, info, running, batch, opened, prog>>

\* Mutant of IoWait: a call that has waited before registers nothing, though
\* the chunk at hand has an IoEvent of its own.
IoWaitOnce(c) ==
    LET o == op[c] IN
    /\ Runs(c) /\ o.at = "again"
    /\ op' = [op EXCEPT ![c].at = "wait", ![c].has = o.kind # "poll"]
    /\ running' = [running EXCEPT ![SchedOf[c]] = NoCo]
    /\ IF o.has \/ (o.left = 0 /\ o.kind = "all") THEN UNCHANGED epollVars
       ELSE AddEvent(SchedOf[c], o.fd, o.dir, c, Ready(o.fd))
    /\ UNCHANGED <<sock, info, batch, opened, prog>>

\* IoEvent::wait up to yield.  A hooked read or write takes its time limit
\* from the information it looked up when it began: gone by now, it is a use
\* after free.  When poll cannot register the descriptor it looks at it every 17 ms
\* (PollLoop in module Numbers) and is no longer followed here.
IoWait(c) ==
    LET o == op[c]
        ok == AddEventOk(SchedOf[c], o.fd, o.dir)
        freed == o.gen # 0 /\ info[o.fd].gen # o.gen
        limit == IF o.gen # 0 THEN info[o.fd].timed[o.dir] ELSE o.timed
    IN /\ Runs(c) /\ o.at = "again"
       /\ running' = [running EXCEPT ![SchedOf[c]] = NoCo]
       /\ UNCHANGED <<sock, info, batch, opened, prog>>
       /\ IF freed
          THEN op' = [op EXCEPT ![c].at = "crash"] /\ UNCHANGED epollVars
          ELSE IF o.kind = "poll" /\ ~ok
          THEN op' = [op EXCEPT ![c] = NoOp] /\ UNCHANGED epollVars
          ELSE /\ op' = [op EXCEPT ![c].at = "wait", ![c].timed = limit,
                                   ![c].has = o.kind # "poll" /\ (o.has \/ ok)]
               /\ IF o.has THEN UNCHANGED epollVars
                  ELSE AddEvent(SchedOf[c], o.fd, o.dir, c, Ready(o.fd))

\* A wait ends: for an event the call goes on, and a call that waits once, or
\* whose time is over, ends.  poll removes the descriptor altogether.
Woken(c, timeout) ==
    LET o == op[c] IN
    IF o.kind = "poll"
    THEN DelAll(SchedOf[c], o.fd) /\ op' = [op EXCEPT ![c] = NoOp]
    ELSE IF timeout \/ o.kind = "once" THEN Finish(c, o)
    ELSE op' = [op EXCEPT ![c].at = "try"] /\ UNCHANGED epollVars

----------------------------------------------------------------------------
\* The loop: epoll_wait reports every descriptor with an event.
EpollWait(s) ==
    /\ running[s] = NoCo /\ batch[s] = {} /\ \E f \in Fds : edge[s][f] # {}
    /\ batch' = [batch EXCEPT ![s] =
                   {x \in Events : <<x.dir, x.co>> \in Ud(edge[s][x.fd], interest[s][x.fd].data)}]
    /\ edge' = [edge EXCEPT ![s] = [f \in Fds |-> {}]]
    /\ UNCHANGED <<evMap, interest, sock, info, op, running, opened, prog>>

\* The loop resumes a coroutine for an event; one that does not wait for a
\* socket is resumed in the middle of something else.  The order is that of
\* the kernel, so any event may be next.
ResumeForEvent(s) ==
    /\ running[s] = NoCo
    /\ \E x \in batch[s] :
          /\ running' = [running EXCEPT ![s] = x.co]
          /\ batch' = [batch EXCEPT ![s] = @ \ {x}]
          /\ IF op[x.co].at = "wait" THEN Woken(x.co, FALSE)
             ELSE op' = [op EXCEPT ![x.co].at = "crash"] /\ UNCHANGED epollVars
    /\ UNCHANGED <<sock, info, opened, prog>>

\* After the events: a timer has expired.
ResumeForTimeout(c) ==
    /\ running[SchedOf[c]] = NoCo /\ batch[SchedOf[c]] = {}
    /\ op[c].at = "wait" /\ op[c].timed
    /\ running' = [running EXCEPT ![SchedOf[c]] = c]
    /\ Woken(c, TRUE)
    /\ UNCHANGED <<sock, info, batch, opened, prog>>

----------------------------------------------------------------------------
\* shutdown(): on_shutdown, which needs the information to be there.  Then the
\* event of that direction, or both, is removed.
Shutdown(c) ==
    /\ Free(c) /\ "close" \in prog.uses[c]
    /\ \E f \in Fds, how \in {"r", "w", "b"} :
          /\ sock[f].open /\ MayTakeAll(c, f) /\ (Careless \/ ~sock[f].shut)
          /\ info' = [info EXCEPT ![f] = ShutInfo]
          /\ sock' = [sock EXCEPT ![f].shut = TRUE, ![f].eof = @ \/ how # "w"]
          /\ op' = IF info[f].gen = 0 THEN [op EXCEPT ![c].at = "crash"] ELSE op
          /\ IF how = "b" THEN DelAll(SchedOf[c], f) ELSE DelEvent(SchedOf[c], f, how, Ready(f))
    /\ UNCHANGED <<running, batch, opened, prog>>

\* close(): the information, then the events, then the descriptor.
CloseFd(c, f) ==
    /\ info' = [info EXCEPT ![f] = NoInfo]
    /\ sock' = [sock EXCEPT ![f] = Closed]
    /\ evMap' = [evMap EXCEPT ![f] = Nobody]
    /\ KernelClose(f)

Close(c) ==
    /\ Free(c) /\ "close" \in prog.uses[c]
    /\ \E f \in Fds : sock[f].open /\ MayTakeAll(c, f) /\ CloseFd(c, f)
    /\ UNCHANGED <<op, running, batch, opened, prog>>

\* co::close(fd, ms): the events go at once, the descriptor after a sleep.
CloseLater(c) ==
    /\ Free(c) /\ "close" \in prog.uses[c]
    /\ \E f \in Fds :
          /\ sock[f].open /\ MayTakeAll(c, f)
          /\ DelAll(SchedOf[c], f)
          /\ op' = [op EXCEPT ![c].at = "closing", ![c].fd = f]
    /\ running' = [running EXCEPT ![SchedOf[c]] = NoCo]
    /\ UNCHANGED <<sock, info, batch, opened, prog>>

CloseSlept(c) ==
    /\ running[SchedOf[c]] = NoCo /\ batch[SchedOf[c]] = {} /\ op[c].at = "closing"
    /\ CloseFd(c, op[c].fd)
    /\ op' = [op EXCEPT ![c] = NoOp]
    /\ running' = [running EXCEPT ![SchedOf[c]] = c]
    /\ UNCHANGED <<batch, opened, prog>>

----------------------------------------------------------------------------
\* The network: bytes arrive, the peer closes or resets the connection, the
\* peer takes what was sent, an error is reported that is not the end of the
\* connection.
PeerSends(f) ==
    /\ sock[f].open /\ ~sock[f].eof /\ sock[f].in < MaxIn
    /\ sock' = [sock EXCEPT ![f].in = @ + 1]
    /\ Report(f, {"r"})
    /\ UNCHANGED <<info, op, running, batch, opened, prog>>

PeerCloses(f) ==
    /\ sock[f].open /\ ~sock[f].eof
    /\ sock' = [sock EXCEPT ![f].eof = TRUE]
    /\ Report(f, {"r"})
    /\ UNCHANGED <<info, op, running, batch, opened, prog>>

PeerResets(f) ==
    /\ sock[f].open /\ ~sock[f].broken
    /\ sock' = [sock EXCEPT ![f].eof = TRUE, ![f].broken = TRUE]
    /\ Report(f, {"r", "w", "e"})
    /\ UNCHANGED <<info, op, running, batch, opened, prog>>

PeerFails(f) ==
    /\ sock[f].open
    /\ Report(f, {"e"})
    /\ UNCHANGED <<sock, info, op, running, batch, opened, prog>>

PeerTakes(f) ==
    /\ sock[f].open /\ sock[f].room < Room /\ ~sock[f].broken
    /\ sock' = [sock EXCEPT ![f].room = Room]
    /\ Report(f, {"w"})
    /\ UNCHANGED <<info, op, running, batch, opened, prog>>

Loop(s) == EpollWait(s) \/ ResumeForEvent(s)
CallStep(c) == SysCallMoves(c) \/ SysCallEnds(c) \/ SysCallAgain(c) \/ IoWait(c)

Next ==
    \/ \E c \in Cos : \/ Enter(c) \/ Leave(c) \/ Socket(c) \/ Fcntl(c) \/ Setsockopt(c)
                      \/ HookedCall(c) \/ RecvSome(c) \/ RecvAll(c) \/ Accept(c)
                      \/ Connect(c) \/ EpollWaitHook(c) \/ Poll(c) \/ CallStep(c)
                      \/ ResumeForTimeout(c) \/ Shutdown(c) \/ Close(c)
                      \/ CloseLater(c) \/ CloseSlept(c)
    \/ \E s \in Scheds : Loop(s)
    \/ \E f \in Fds : PeerSends(f) \/ PeerCloses(f) \/ PeerResets(f)
                      \/ PeerFails(f) \/ PeerTakes(f)

Spec == Init /\ [][Next]_vars
----------------------------------------------------------------------------
\* The map, the kernel and the calls agree: an entry of the map stands for a
\* coroutine that has registered in its present call and has not finished it,
\* every such coroutine has its entry, and the kernel of that coroutine's
\* scheduler, and of no other, watches just these directions, with just these
\* coroutines: also after the descriptor went from one scheduler to another,
\* as each connection that tcp::Server accepts does, and after it was reused.
\* And a socket never blocks the scheduler, while the user sees the flag it
\* asked for (epoll.cc:68-145, hook.cc:320-342, tcp.cc:54-71).
Registered(c) == \/ op[c].at = "wait" /\ op[c].kind = "poll"
                 \/ op[c].has /\ InCall(c)
EntriesMatch ==
    /\ \A f \in Fds, d \in Dirs :
          LET c == evMap[f][d] IN
          c # NoCo => Registered(c) /\ op[c].fd = f /\ op[c].dir = d
    /\ \A c \in Cos : Registered(c) => evMap[op[c].fd][op[c].dir] = c
    /\ \A s \in Scheds, f \in Fds :
          Watched(s, f) => /\ interest[s][f].data = evMap[f]
                           /\ interest[s][f].mask = {d \in Dirs : evMap[f][d] # NoCo}
    /\ \A s \in Scheds, f \in Fds, d \in Dirs :
          evMap[f][d] # NoCo => (Watched(s, f) <=> s = SchedOf[evMap[f][d]])
    /\ \A f \in Fds : sock[f].open /\ ~sock[f].shut =>
          sock[f].nonblock /\ FcntlGet(f) = sock[f].want

\* A coroutine that waits for a socket that is ready (or broken) is going to be
\* resumed: the event is still to be reported, or it is in the batch at hand.  Edge
\* triggered events come once, and the system call that found nothing was made
\* before the registration (hook.cc:256-265, io_event.h:50-62).
NoLostEdge ==
    \A c \in Cos :
       op[c].at = "wait" /\ op[c].dir \in Ready(op[c].fd) =>
          \/ op[c].dir \in edge[SchedOf[c]][op[c].fd]
          \/ \E x \in batch[SchedOf[c]] : x.co = c

\* The loop resumes a coroutine only for what it waits for at that time, on the
\* scheduler it belongs to (so for one event at most), and a hooked call on a
\* socket that nobody has shut down finds its information, when it begins and
\* after each wait (hook.cc:106-109, scheduler.cc:100-103).
NoStrayResume ==
    /\ \A c \in Cos : op[c].at # "crash"
    /\ \A s \in Scheds : \A x \in batch[s] :
          /\ SchedOf[x.co] = s
          /\ op[x.co].at = "wait" /\ op[x.co].fd = x.fd /\ op[x.co].dir = x.dir

=============================================================================
