-------------------------------- MODULE Http --------------------------------
(***************************************************************************)
(* The HTTP server and client of so/http.cc over connections of so/tcp.cc. *)
(*                                                                         *)
(* Foreign peers send requests without waiting for the answers; the client *)
(* of the library makes one call after the other.  The server runs         *)
(* on_connection in a coroutine per connection, all in one scheduler.  A   *)
(* message is a start line and header lines, which are some pieces, the    *)
(* end with the empty line, and a body of one piece, if any; the           *)
(* pieces arrive one by one, or never.  How a header is read and written   *)
(* is the subject of module HttpText.  Every wait has a time limit, which  *)
(* may expire at any time, and a send may fail half way.                   *)
(***************************************************************************)
EXTENDS CoPool, FiniteSets

CONSTANTS
    MaxConn,    \* connections
    Scenes,     \* what happens: see below
    Requests,   \* see below
    MaxHeader,  \* http_max_header_size
    MaxIdle,    \* http_max_idle_conn
    LogInfo     \* whether logs of level info are written

Conns == 1..MaxConn
Srv == CHOOSE s \in PoolScheds : TRUE
NoBuf == 0

\* err: what parse_req answers; lines: the pieces before the end of the
\* header; len: of the body; conn: the header Connection.  process() decides
\* how many pieces the header of the response has, and whether parse_res can
\* read it (a status without a text, say, it cannot).
Connection == {"", "close", "Close", "keep-alive"}
RequestType == [http10: BOOLEAN, conn: Connection, len: 0..1, err: {0, 400, 405, 505},
                lines: Nat \ {0}, resLines: Nat \ {0}, resOk: BOOLEAN]

\* The connections of foreign peers, how many requests each of them sends, and
\* how many calls the client makes.
SceneType == [foreign: SUBSET Conns, reqs: Nat, calls: Nat]

ASSUME HttpAssumption ==
    /\ Requests \subseteq RequestType /\ Scenes \subseteq SceneType
    /\ PoolScheds # {} /\ NoBuf \notin Elems
    /\ {MaxCap, MaxConn, MaxHeader, MaxIdle} \subseteq Nat /\ LogInfo \in BOOLEAN

VARIABLES
    up, down,           \* the pieces under way on each connection
    seenUp, seenDown,   \* how many of them have arrived
    closedC, closedS,   \* the ends that were closed
    sent,               \* the requests that were sent on each connection
    srv,                \* where on_connection is
    buf, held,          \* its buffer and the pieces in it
    req,                \* the pieces of the request it processes
    res10,              \* whether the version of its Res is HTTP/1.0
    answers,            \* the responses it has sent
    connNum,            \* _conn_num
    cli, cfd, cbuf,     \* where the client is, its connection, its buffer
    calls, got,         \* how many calls it made, and their results
    scene

netVars == <<up, down, seenUp, seenDown, closedC, closedS, sent, scene>>
cliVars == <<cli, cfd, cbuf, calls, got>>
srvVars == <<srv, buf, held, req, res10, answers, connNum>>
vars == <<netVars, cliVars, srvVars, poolVars>>

\* The k-th piece of the n-th message, and all of them.
PieceType == [k: Nat, n: Nat, msg: RequestType]
Piece(k, n, r) == [k |-> k, n |-> n, msg |-> r]
Pieces(r) == r.lines + 1 + r.len
Message(n, r) == [k \in 1..Pieces(r) |-> Piece(k, n, r)]

\* find("\r\n\r\n"), 0 if there is none; the length of the first message.
FindEnd(q) ==
    LET ends == {i \in DOMAIN q : q[i].k = q[i].msg.lines + 1}
    IN IF ends = {} THEN 0 ELSE CHOOSE i \in ends : \A j \in ends : i <= j
Total(q) == FindEnd(q) + q[FindEnd(q)].msg.len

Served(i) == srv[i] \notin {"none", "new", "end"}

Init ==
    /\ PoolInit
    /\ up = [i \in Conns |-> <<>>] /\ down = [i \in Conns |-> <<>>]
    /\ seenUp = [i \in Conns |-> 0] /\ seenDown = [i \in Conns |-> 0]
    /\ closedC = {} /\ closedS = {}
    /\ sent = [i \in Conns |-> <<>>]
    /\ scene \in Scenes
    /\ srv = [i \in Conns |-> IF i \in scene.foreign THEN "new" ELSE "none"]
    /\ buf = [i \in Conns |-> NoBuf] /\ held = [i \in Conns |-> <<>>]
    /\ req = [i \in Conns |-> <<>>] /\ res10 = [i \in Conns |-> FALSE]
    /\ answers = [i \in Conns |-> <<>>] /\ connNum = 0
    /\ cli = "idle" /\ cfd = 0 /\ cbuf = <<>> /\ calls = 0 /\ got = {}

----------------------------------------------------------------------------
\* The network, and the peers: they send as they like, and leave.
DeliverUp(i) ==
    /\ seenUp[i] < Len(up[i]) /\ i \notin closedS
    /\ seenUp' = [seenUp EXCEPT ![i] = @ + 1]
    /\ UNCHANGED <<up, down, seenDown, closedC, closedS, sent, scene, cliVars, srvVars, poolVars>>

DeliverDown(i) ==
    /\ seenDown[i] < Len(down[i]) /\ i \notin closedC /\ i \notin scene.foreign
    /\ seenDown' = [seenDown EXCEPT ![i] = @ + 1]
    /\ UNCHANGED <<up, down, seenUp, closedC, closedS, sent, scene, cliVars, srvVars, poolVars>>

\* all = FALSE: an error or the time limit cuts the send short.
Send(i, r, all) ==
    LET m == Message(Len(sent[i]) + 1, r)
    IN /\ up' = [up EXCEPT ![i] = @ \o IF all THEN m ELSE SubSeq(m, 1, 1)]
       /\ sent' = [sent EXCEPT ![i] = Append(@, r)]

PeerSends(i) ==
    /\ i \notin closedC /\ Len(sent[i]) < scene.reqs
    /\ \E r \in Requests : Send(i, r, TRUE)
    /\ UNCHANGED <<down, seenUp, seenDown, closedC, closedS, scene, cliVars, srvVars, poolVars>>

PeerCloses(i) ==
    /\ i \notin closedC /\ sent[i] # <<>>
    /\ closedC' = closedC \cup {i}
    /\ UNCHANGED <<up, down, seenUp, seenDown, closedS, sent, scene, cliVars, srvVars, poolVars>>

EofUp(i) == i \in closedC /\ seenUp[i] = 0 /\ up[i] = <<>>
EofDown(i) == i \in closedS /\ down[i] = <<>>

\* recv of n pieces that have arrived.
TakeUp(i, n) ==
    /\ up' = [up EXCEPT ![i] = SubSeq(@, n + 1, Len(@))]
    /\ seenUp' = [seenUp EXCEPT ![i] = @ - n]
TakeDown(i, n) ==
    /\ down' = [down EXCEPT ![i] = SubSeq(@, n + 1, Len(@))]
    /\ seenDown' = [seenDown EXCEPT ![i] = @ - n]

----------------------------------------------------------------------------
\* The server: on_connection.  The connection is counted in an expression that
\* is evaluated only if logs of level info are written.
ServerStart(i) ==
    /\ srv[i] = "new"
    /\ srv' = [srv EXCEPT ![i] = "recv"]
    /\ connNum' = IF LogInfo THEN connNum + 1 ELSE connNum
    /\ UNCHANGED <<netVars, cliVars, buf, held, req, res10, answers, poolVars>>

\* The end of a connection.  close() and reset_tcp_socket() without delay; the
\* buffer goes back to the pool, or is deleted if it has grown beyond 1 MB.
Cleanup(i) ==
    /\ srv' = [srv EXCEPT ![i] = "end"]
    /\ closedS' = closedS \cup {i}
    /\ connNum' = connNum - 1
    /\ held' = [held EXCEPT ![i] = <<>>]
    /\ IF buf[i] = NoBuf THEN UNCHANGED <<buf, poolVars>>
       ELSE /\ buf' = [buf EXCEPT ![i] = NoBuf]
            /\ \/ PushElem(Srv, buf[i])
               \/ alive' = alive \ {buf[i]} /\ UNCHANGED <<pools, cbs>>

\* Without a buffer it waits for the first byte, for http_conn_idle_sec.
RecvFirst(i) ==
    /\ srv[i] = "recv" /\ buf[i] = NoBuf /\ seenUp[i] > 0
    /\ held' = [held EXCEPT ![i] = SubSeq(up[i], 1, 1)]
    /\ TakeUp(i, 1)
    /\ \E e \in Elems : PopElem(Srv, e) /\ buf' = [buf EXCEPT ![i] = e]
    /\ UNCHANGED <<down, seenDown, closedC, closedS, sent, scene, cliVars, srv, req, res10, answers, connNum>>

RecvIdle(i) ==
    /\ srv[i] = "recv" /\ buf[i] = NoBuf /\ seenUp[i] = 0 /\ ~EofUp(i)
    /\ connNum > MaxIdle
    /\ Cleanup(i)
    /\ UNCHANGED <<up, down, seenUp, seenDown, closedC, sent, scene, cliVars, req, res10, answers>>

\* With one, it reads until the header is complete, or too long.
RecvHeader(i) ==
    /\ srv[i] = "recv" /\ buf[i] # NoBuf /\ FindEnd(held[i]) = 0
    /\ \/ /\ Len(held[i]) > MaxHeader
          /\ srv' = [srv EXCEPT ![i] = "failed"]
          /\ UNCHANGED <<up, seenUp, held>>
       \/ /\ Len(held[i]) <= MaxHeader /\ seenUp[i] > 0
          /\ held' = [held EXCEPT ![i] = @ \o SubSeq(up[i], 1, seenUp[i])]
          /\ TakeUp(i, seenUp[i])
          /\ UNCHANGED srv
    /\ UNCHANGED <<down, seenDown, closedC, closedS, sent, scene, cliVars, buf, req, res10, answers,
                   connNum, poolVars>>

\* Mutant of Parse: what follows the request in the buffer is thrown away.
ParseForget(i, q) ==
    /\ req' = [req EXCEPT ![i] = SubSeq(q, 1, Total(q))]
    /\ srv' = [srv EXCEPT ![i] = "process"]
    /\ PushElem(Srv, buf[i])
    /\ buf' = [buf EXCEPT ![i] = NoBuf] /\ held' = [held EXCEPT ![i] = <<>>]

\* Mutant of Parse: the buffer goes back to the pool with the rest in it.
ParseShare(i, q) ==
    LET rest == SubSeq(q, Total(q) + 1, Len(q))
    IN /\ req' = [req EXCEPT ![i] = SubSeq(q, 1, Total(q))]
       /\ srv' = [srv EXCEPT ![i] = "process"]
       /\ PushElem(Srv, buf[i])
       /\ buf' = [buf EXCEPT ![i] = IF rest = <<>> THEN NoBuf ELSE @]
       /\ held' = [held EXCEPT ![i] = rest]

\* The request is complete: it leaves the buffer, which goes back to the pool
\* unless the next request has begun in it.
Parse(i, q) ==
    LET rest == SubSeq(q, Total(q) + 1, Len(q))
    IN /\ req' = [req EXCEPT ![i] = SubSeq(q, 1, Total(q))]
       /\ srv' = [srv EXCEPT ![i] = "process"]
       /\ held' = [held EXCEPT ![i] = rest]
       /\ IF rest = <<>> THEN PushElem(Srv, buf[i]) /\ buf' = [buf EXCEPT ![i] = NoBuf]
          ELSE UNCHANGED <<buf, poolVars>>

\* A response: its header and its body, or a part of it.
Respond(i, a, all) ==
    LET m == Message(a.n, [a.msg EXCEPT !.lines = a.msg.resLines])
    IN /\ down' = [down EXCEPT ![i] = @ \o IF all THEN m ELSE SubSeq(m, 1, 1)]
       /\ answers' = [answers EXCEPT ![i] = Append(@, a)]

\* parse_req: an error is answered and the connection is reset later.
ParseReq(i) ==
    LET q == held[i]
        m == q[FindEnd(q)]
    IN /\ srv[i] = "recv" /\ buf[i] # NoBuf /\ FindEnd(q) # 0
       /\ IF m.msg.err # 0
          THEN /\ \E all \in BOOLEAN :
                     Respond(i, [n |-> m.n, status |-> m.msg.err, http10 |-> FALSE,
                                 body |-> 0, msg |-> [m.msg EXCEPT !.len = 0]], all)
               /\ srv' = [srv EXCEPT ![i] = "failed"]
               /\ UNCHANGED <<up, seenUp, held, req, buf, poolVars>>
          ELSE /\ UNCHANGED <<down, answers>>
               /\ \/ Len(q) >= Total(q) /\ Parse(i, q) /\ UNCHANGED <<up, seenUp>>
                  \/ /\ Len(q) < Total(q) /\ seenUp[i] > 0    \* recvn of the rest
                     /\ Parse(i, q \o SubSeq(up[i], 1, 1)) /\ TakeUp(i, 1)
       /\ UNCHANGED <<seenDown, closedC, closedS, sent, scene, cliVars, res10, connNum>>

\* The peer closed the connection before the request was complete.
RecvZero(i) ==
    /\ srv[i] = "recv" /\ EofUp(i)
    /\ \/ buf[i] = NoBuf
       \/ FindEnd(held[i]) = 0 /\ Len(held[i]) <= MaxHeader
       \/ FindEnd(held[i]) # 0 /\ held[i][FindEnd(held[i])].msg.err = 0 /\ Len(held[i]) < Total(held[i])
    /\ Cleanup(i)
    /\ UNCHANGED <<up, down, seenUp, seenDown, closedC, sent, scene, cliVars, req, res10, answers>>

\* A request that has begun must be complete in time, and any recv may fail.
RecvErr(i) ==
    /\ srv[i] = "recv" /\ ~EofUp(i) /\ seenUp[i] = 0
    /\ \/ buf[i] = NoBuf
       \/ FindEnd(held[i]) = 0 /\ Len(held[i]) <= MaxHeader
       \/ FindEnd(held[i]) # 0 /\ held[i][FindEnd(held[i])].msg.err = 0 /\ Len(held[i]) < Total(held[i])
    /\ srv' = [srv EXCEPT ![i] = "failed"]
    /\ UNCHANGED <<netVars, cliVars, buf, held, req, res10, answers, connNum, poolVars>>

\* HTTP/1.0: the connection is closed unless it is to be kept alive;
\* HTTP/1.1: it is kept unless the header says "close", in lower case.
NeedClose(r) == IF r.http10 THEN r.conn # "keep-alive" ELSE r.conn = "close"

\* process() and the response.  Res::clear leaves the version as it is.
Process(i, all) ==
    LET m == Head(req[i])
        body == IF Len(req[i]) > FindEnd(req[i]) THEN Last(req[i]).n ELSE 0
        ten == res10[i] \/ m.msg.http10
    IN /\ srv[i] = "process"
       /\ Respond(i, [n |-> m.n, status |-> 200, http10 |-> ten, body |-> body, msg |-> m.msg], all)
       /\ res10' = [res10 EXCEPT ![i] = ten]
       /\ req' = [req EXCEPT ![i] = <<>>]
       /\ IF all /\ NeedClose(m.msg) THEN Cleanup(i)
          ELSE /\ srv' = [srv EXCEPT ![i] = IF all THEN "recv" ELSE "failed"]
               /\ UNCHANGED <<closedS, connNum, held, buf, poolVars>>
       /\ UNCHANGED <<up, seenUp, seenDown, closedC, sent, scene, cliVars>>

\* err_end: the connection is reset a second later.
ServerReset(i) ==
    /\ srv[i] = "failed"
    /\ Cleanup(i)
    /\ UNCHANGED <<up, down, seenUp, seenDown, closedC, sent, scene, cliVars, req, res10, answers>>

----------------------------------------------------------------------------
\* The client: call().  Every error ends in disconnect().
Idle == UNCHANGED <<srvVars, poolVars>>

\* Mutant of CallFails: the connection is kept.
CallFailsKeep(status) ==
    /\ cli' = "idle" /\ cbuf' = <<>>
    /\ got' = got \cup {[call |-> calls, status |-> status, n |-> 0, fd |-> cfd]}
    /\ UNCHANGED <<calls, cfd, closedC>>

CallFails(status) ==
    /\ cli' = "idle" /\ cbuf' = <<>> /\ cfd' = 0
    /\ got' = got \cup {[call |-> calls, status |-> status, n |-> 0, fd |-> cfd]}
    /\ closedC' = closedC \cup {cfd}
    /\ UNCHANGED calls

Call ==
    /\ cli = "idle" /\ calls < scene.calls
    /\ calls' = calls + 1
    /\ cli' = IF cfd = 0 THEN "connect" ELSE "send"
    /\ UNCHANGED <<netVars, cfd, cbuf, got>> /\ Idle

\* connect(): tcp::Client::connect; tcp::Server::loop accepts the connection.
Connect ==
    /\ cli = "connect"
    /\ \/ \E i \in Conns :
             /\ srv[i] = "none" /\ \A j \in Conns : srv[j] = "none" => i <= j
             /\ cfd' = i /\ cli' = "send" /\ srv' = [srv EXCEPT ![i] = "new"] /\ UNCHANGED got
       \/ /\ cli' = "idle" /\ UNCHANGED <<cfd, srv>>
          /\ got' = got \cup {[call |-> calls, status |-> 577, n |-> 0, fd |-> 0]}
    /\ UNCHANGED <<netVars, cbuf, calls, buf, held, req, res10, answers, connNum, poolVars>>

SendRequest ==
    /\ cli = "send"
    /\ \E r \in {q \in Requests : q.err = 0} :
          \/ Send(cfd, r, TRUE) /\ cli' = "head" /\ UNCHANGED <<cfd, cbuf, calls, got, closedC>>
          \/ \E status \in {579, 581} : Send(cfd, r, FALSE) /\ CallFails(status)
    /\ UNCHANGED <<down, seenUp, seenDown, closedS, scene>> /\ Idle

\* The header of the response, and the body if it has arrived with it.
RecvResponse ==
    LET q == cbuf \o SubSeq(down[cfd], 1, seenDown[cfd])
    IN /\ cli = "head" /\ Len(cbuf) <= MaxHeader /\ seenDown[cfd] > 0
       /\ TakeDown(cfd, seenDown[cfd])
       /\ IF FindEnd(q) # 0 /\ ~q[FindEnd(q)].msg.resOk THEN CallFails(500)    \* parse_err
          ELSE IF FindEnd(q) # 0 /\ Len(q) > Total(q) THEN CallFails(500)       \* content_length_err
          ELSE IF FindEnd(q) # 0 /\ Len(q) = Total(q)
          THEN /\ got' = got \cup {[call |-> calls, status |-> 200, n |-> q[FindEnd(q)].n, fd |-> cfd]}
               /\ cli' = "idle" /\ cbuf' = <<>> /\ UNCHANGED <<cfd, calls, closedC>>
          ELSE /\ cli' = IF FindEnd(q) = 0 THEN "head" ELSE "body"
               /\ cbuf' = q /\ UNCHANGED <<cfd, calls, got, closedC>>
       /\ UNCHANGED <<up, seenUp, closedS, sent, scene>> /\ Idle

RecvBody ==
    /\ cli = "body" /\ seenDown[cfd] > 0
    /\ TakeDown(cfd, 1)
    /\ got' = got \cup {[call |-> calls, status |-> 200, n |-> cbuf[FindEnd(cbuf)].n, fd |-> cfd]}
    /\ cli' = "idle" /\ cbuf' = <<>>
    /\ UNCHANGED <<up, seenUp, closedC, closedS, sent, scene, cfd, calls>> /\ Idle

\* The header is too long, or the rest of the response does not arrive.
RecvFails ==
    /\ \/ cli = "head" /\ Len(cbuf) > MaxHeader /\ CallFails(500)
       \/ /\ cli = "body" \/ (cli = "head" /\ Len(cbuf) <= MaxHeader)
          /\ seenDown[cfd] = 0
          /\ \/ EofDown(cfd) /\ CallFails(578)
             \/ ~EofDown(cfd) /\ \E status \in {580, 582} : CallFails(status)
    /\ UNCHANGED <<up, down, seenUp, seenDown, closedS, sent, scene>> /\ Idle

----------------------------------------------------------------------------
ClientStep == Connect \/ SendRequest \/ RecvResponse \/ RecvBody \/ RecvFails

ServerStep(i) ==
    \/ ServerStart(i) \/ RecvFirst(i) \/ RecvIdle(i) \/ RecvHeader(i) \/ ParseReq(i)
    \/ RecvZero(i) \/ RecvErr(i) \/ ServerReset(i)
    \/ \E all \in BOOLEAN : Process(i, all)

Next ==
    \/ Call \/ ClientStep
    \/ \E i \in Conns : DeliverUp(i) \/ DeliverDown(i) \/ ServerStep(i)
    \/ \E i \in scene.foreign : PeerSends(i) \/ PeerCloses(i)

Spec == Init /\ [][Next]_vars
----------------------------------------------------------------------------
TypeOK ==
    /\ PoolTypeOK
    /\ srv \in [Conns -> {"none", "new", "recv", "process", "failed", "end"}]
    /\ buf \in [Conns -> Elems \cup {NoBuf}]
    /\ cli \in {"idle", "connect", "send", "head", "body"} /\ cfd \in 0..MaxConn
    /\ {up, down, held, req} \subseteq [Conns -> Seq(PieceType)] /\ cbuf \in Seq(PieceType)
    /\ sent \in [Conns -> Seq(RequestType)]
    /\ \A i \in Conns : seenUp[i] \in 0..Len(up[i]) /\ seenDown[i] \in 0..Len(down[i])

\* The requests of a connection are answered in the order they were sent, each
\* once and with its own body, even when they arrive in one buffer and in
\* pieces; and no further request is answered after one that does not let the
\* connection go on (http.cc:57-162).
InOrder ==
    \A i \in Conns : \A k \in DOMAIN answers[i] :
       LET a == answers[i][k]
           r == sent[i][k]
       IN /\ a.n = k /\ a.status = (IF r.err = 0 THEN 200 ELSE r.err)
          /\ r.err = 0 => a.body = (IF r.len = 0 THEN 0 ELSE k)
          /\ k < Len(answers[i]) =>
                r.err = 0 /\ (IF r.http10 THEN r.conn = "keep-alive" ELSE r.conn # "close")

\* Each buffer is in the pool or in the hands of one connection; a connection
\* that has none has no unread bytes either; and the connections that are
\* counted are the ones being served, if logs of level info are written
\* (http.cc:51-52, 119-125, 184-190).
BuffersOwnedOnce ==
    /\ PoolOwnsOnce
    /\ \A i \in Conns :
          IF buf[i] = NoBuf THEN held[i] = <<>>
          ELSE /\ Served(i) /\ held[i] # <<>> /\ buf[i] \in alive \ Range(pools[Srv])
               /\ \A j \in Conns : buf[i] = buf[j] => i = j
    /\ LogInfo => connNum = Cardinality({i \in Conns : Served(i)})

\* A call that succeeds has the response to its own request: the one that was
\* sent last on its connection, in full (http.cc:204-299).
OwnAnswer ==
    \A g \in got : g.status = 200 =>
       /\ g.n = Cardinality({h \in got : h.fd = g.fd /\ h.call <= g.call})
       /\ \E k \in DOMAIN answers[g.fd] : answers[g.fd][k].n = g.n
=============================================================================
