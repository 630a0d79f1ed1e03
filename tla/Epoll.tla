------------------------------- MODULE Epoll -------------------------------
(***************************************************************************)
(* The event map of Epoll (epoll.h, epoll.cc, Linux) and the kernel's side *)
(* of it.  _ev_map holds, for each descriptor, the coroutine that waits    *)
(* for EV_read (high half) and the one that waits for EV_write (low half). *)
(* It is static, so all schedulers share it, while each scheduler has an   *)
(* epoll instance of its own.  Events are edge triggered.                  *)
(***************************************************************************)
EXTENDS Naturals, FiniteSets

CONSTANTS
    Scheds,     \* schedulers
    Fds,        \* descriptors
    Cos,        \* coroutines
    NoCo        \* the id 0: no coroutine

VARIABLES
    evMap,      \* _ev_map
    interest,   \* kernel: what each epoll instance watches
    edge        \* kernel: events to report, per instance and descriptor; "e" is
                \* EPOLLERR or EPOLLHUP, which need not be asked for

epollVars == <<evMap, interest, edge>>

Dirs == {"r", "w"}
Nobody == [d \in Dirs |-> NoCo]
Unwatched == [mask |-> {}, data |-> Nobody]

EpollTypeOK ==
    /\ evMap \in [Fds -> [Dirs -> Cos \cup {NoCo}]]
    /\ interest \in [Scheds -> [Fds -> [mask: SUBSET Dirs, data: [Dirs -> Cos \cup {NoCo}]]]]
    /\ edge \in [Scheds -> [Fds -> SUBSET (Dirs \cup {"e"})]]

EpollInit ==
    /\ evMap = [f \in Fds |-> Nobody]
    /\ interest = [s \in Scheds |-> [f \in Fds |-> Unwatched]]
    /\ edge = [s \in Scheds |-> [f \in Fds |-> {}]]

Other(d) == CHOOSE e \in Dirs : e # d
Watched(s, f) == interest[s][f].mask # {}

\* epoll_ctl with ADD, MOD and DEL.  ready is what the descriptor is ready
\* for now: a new or changed entry reports it again.  An error that was not
\* reported yet still is.
Ctl(s, f, mask, data, ready) ==
    /\ interest' = [interest EXCEPT ![s][f] = [mask |-> mask, data |-> data]]
    /\ edge' = [edge EXCEPT ![s][f] =
                   IF mask = {} THEN {} ELSE (mask \cap ready) \cup (@ \cap {"e"})]

\* add_ev_read and add_ev_write: a slot that is taken is left alone and the
\* answer is true all the same.  ADD fails for a watched descriptor, MOD for
\* one that is not; then the map keeps its value and the answer is false.
AddEvent(s, f, d, c, ready) ==
    LET x == evMap[f]
        data == [x EXCEPT ![d] = c]
        other == x[Other(d)] # NoCo
    IN IF x[d] # NoCo \/ Watched(s, f) # other
       THEN UNCHANGED epollVars
       ELSE /\ Ctl(s, f, {d} \cup (IF other THEN {Other(d)} ELSE {}), data, ready)
            /\ evMap' = [evMap EXCEPT ![f] = data]

\* What add_ev_read and add_ev_write return.
AddEventOk(s, f, d) ==
    evMap[f][d] # NoCo \/ Watched(s, f) = (evMap[f][Other(d)] # NoCo)

\* Mutant of DelEvent: the entry is removed from the map and the kernel even
\* when the other direction is in use.
DelEventBoth(s, f, d, ready) ==
    IF evMap[f][d] = NoCo
    THEN UNCHANGED epollVars
    ELSE /\ evMap' = [evMap EXCEPT ![f] = Nobody]
         /\ interest' = [interest EXCEPT ![s][f] = Unwatched]
         /\ edge' = [edge EXCEPT ![s][f] = {}]

\* Mutant of DelEvent: the kernel goes on watching the direction.
DelEventMapOnly(s, f, d, ready) ==
    /\ evMap' = [evMap EXCEPT ![f][d] = NoCo]
    /\ UNCHANGED <<interest, edge>>

\* del_ev_read and del_ev_write: the map first, then DEL, or MOD when the
\* other direction remains; a failure is only logged.
DelEvent(s, f, d, ready) ==
    IF evMap[f][d] = NoCo
    THEN UNCHANGED epollVars
    ELSE /\ evMap' = [evMap EXCEPT ![f][d] = NoCo]
         /\ IF ~Watched(s, f)
            THEN UNCHANGED <<interest, edge>>
            ELSE IF evMap[f][Other(d)] = NoCo
                 THEN Ctl(s, f, {}, Nobody, ready)
                 ELSE Ctl(s, f, {Other(d)}, [evMap[f] EXCEPT ![d] = NoCo], ready)

\* del_event(fd): both directions.
DelAll(s, f) ==
    IF evMap[f] = Nobody
    THEN UNCHANGED epollVars
    ELSE /\ evMap' = [evMap EXCEPT ![f] = Nobody]
         /\ Ctl(s, f, {}, Nobody, {})

\* The coroutines that loop() resumes for an event, with the direction each
\* waits for: ud() puts the waiter into the low half (EPOLLIN) or the high half
\* (EPOLLOUT), or leaves both where they are: with both events, and with
\* neither, when there is only an error.
Ud(events, data) ==
    {<<d, data[d]>> : d \in {e \in Dirs : data[e] # NoCo /\ (e \in events \/ events = {"e"})}}

\* Kernel: something happened to the descriptor; every instance that watches it
\* will report what it asked for, and errors.
Report(f, events) ==
    /\ edge' = [s \in Scheds |-> [edge[s] EXCEPT ![f] =
                   IF Watched(s, f) THEN @ \cup (events \cap (interest[s][f].mask \cup {"e"}))
                   ELSE @]]
    /\ UNCHANGED <<evMap, interest>>

\* Kernel: close() of a descriptor removes it from every instance.
KernelClose(f) ==
    /\ interest' = [s \in Scheds |-> [interest[s] EXCEPT ![f] = Unwatched]]
    /\ edge' = [s \in Scheds |-> [edge[s] EXCEPT ![f] = {}]]
=============================================================================
