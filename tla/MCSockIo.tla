------------------------------ MODULE MCSockIo ------------------------------
(* An instance of SockIo for TLC. *)
EXTENDS SockIo, TLC

CONSTANTS c1, c2, c3, s1, s2

MCSchedOf == (c1 :> s1) @@ (c2 :> s1) @@ (c3 :> s2)

\* Two coroutines share a socket, the first one doing everything
\* but accepting and setting options.
Shared == [uses |-> (c1 :> Tasks \ {"accept", "set"}) @@ (c2 :> {"some", "all"}) @@ (c3 :> {}),
           fds |-> {1}]
\* Connections are accepted in one scheduler, read and closed in another.
Server == [uses |-> (c1 :> {"open", "accept"}) @@ (c2 :> {})
                    @@ (c3 :> {"some", "close"}), fds |-> {1, 2}]
\* Two schedulers that get the same descriptor one after the other, with options.
Reuse == [uses |-> (c1 :> {"open", "nonblock", "set", "some", "poll", "close"}) @@ (c2 :> {})
                   @@ (c3 :> {"open", "some", "once", "close"}), fds |-> {1}]
MCPrograms == {Shared, Server, Reuse}
=============================================================================
