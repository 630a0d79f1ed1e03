-------------------------------- MODULE Rpc --------------------------------
(***************************************************************************)
(* The RPC client and server of so/rpc.cc over connections of so/tcp.cc.   *)
(*                                                                         *)
(* A client makes one call after the other and connects when it has no     *)
(* connection; the server runs on_connection in a coroutine per            *)
(* connection, all in one scheduler.  With a password both first go        *)
(* through the handshake of auth().  A message is a header of two pieces   *)
(* (the magic number is in the first, the length in the second) and a body *)
(* of one; the pieces arrive one by one, or never.  Every wait has a time  *)
(* limit, which may expire at any time, and a send may fail half way.      *)
(* Both ends are those of the library, so a message that is read from its  *)
(* beginning is well formed; read from elsewhere its magic number is       *)
(* wrong.                                                                  *)
(***************************************************************************)
EXTENDS CoPool, FiniteSets

CONSTANTS
    MaxConn,        \* connections the client may make
    MaxCalls,       \* calls the client makes
    ServerPass,     \* the server's password, None if it has none
    ClientPasses,   \* the passwords the client may have
    None,
    MaxIdle,        \* rpc_max_idle_conn
    LogInfo         \* whether logs of level info are written

Conns == 1..MaxConn
Srv == CHOOSE s \in PoolScheds : TRUE
NoBuf == 0

ASSUME RpcAssumption ==
    /\ PoolScheds # {} /\ NoBuf \notin Elems /\ MaxCap \in Nat
    /\ {MaxConn, MaxCalls, MaxIdle} \subseteq Nat /\ LogInfo \in BOOLEAN

VARIABLES
    up, down,       \* the pieces under way on each connection
    seenUp, seenDown, \* how many of them have arrived
    closedC, closedS, \* the ends that were closed
    srv,            \* where on_connection is, per connection
    buf,            \* its buffer
    connNum,        \* _conn_num
    cli,            \* where the client is
    cfd,            \* its connection, 0 if none
    pass,           \* its password
    calls,          \* how many calls it made
    got             \* the responses it got: <<call, answer>>

netVars == <<up, down, seenUp, seenDown, closedC, closedS>>
cliVars == <<cli, cfd, pass, calls, got>>
srvVars == <<srv, buf, connNum>>
vars == <<netVars, cliVars, srvVars, poolVars>>

\* Messages: what a body says.
Body(method, arg) == [method |-> method, arg |-> arg]
Pieces(b) == <<[part |-> 1, body |-> b], [part |-> 2, body |-> b], [part |-> 3, body |-> b]>>
Md5(p, nonce) == <<p, nonce>>

ServerPlaces == {"none", "new", "auth1", "auth1b", "auth2", "auth2b", "head", "body",
                 "failed", "closing", "end"}
ClientPlaces == {"idle", "connect", "nonce", "nonceb", "result", "resultb", "send",
                 "res", "resb", "astray", "aborted"}

Served(i) == srv[i] \in {"head", "body", "closing"}

Init ==
    /\ PoolInit
    /\ up = [i \in Conns |-> <<>>] /\ down = [i \in Conns |-> <<>>]
    /\ seenUp = [i \in Conns |-> 0] /\ seenDown = [i \in Conns |-> 0]
    /\ closedC = {} /\ closedS = {}
    /\ srv = [i \in Conns |-> "none"]
    /\ buf = [i \in Conns |-> NoBuf]
    /\ connNum = 0
    /\ cli = "idle" /\ cfd = 0 /\ calls = 0 /\ got = {}
    /\ pass \in ClientPasses

----------------------------------------------------------------------------
\* The network.
DeliverUp(i) ==
    /\ seenUp[i] < Len(up[i]) /\ i \notin closedS
    /\ seenUp' = [seenUp EXCEPT ![i] = @ + 1]
    /\ UNCHANGED <<up, down, seenDown, closedC, closedS, cliVars, srvVars, poolVars>>

DeliverDown(i) ==
    /\ seenDown[i] < Len(down[i]) /\ i \notin closedC
    /\ seenDown' = [seenDown EXCEPT ![i] = @ + 1]
    /\ UNCHANGED <<up, down, seenUp, closedC, closedS, cliVars, srvVars, poolVars>>

\* recvn of n pieces: q of them are taken from the stream.
TakeUp(i, n) ==
    /\ up' = [up EXCEPT ![i] = SubSeq(@, n + 1, Len(@))]
    /\ seenUp' = [seenUp EXCEPT ![i] = @ - n]
TakeDown(i, n) ==
    /\ down' = [down EXCEPT ![i] = SubSeq(@, n + 1, Len(@))]
    /\ seenDown' = [seenDown EXCEPT ![i] = @ - n]

\* All that was sent has arrived and the other end is closed: recv returns 0.
EofUp(i) == i \in closedC /\ seenUp[i] = Len(up[i])
EofDown(i) == i \in closedS /\ seenDown[i] = Len(down[i])

\* A send: all pieces go out, or an error or the time limit leaves only some.
SendUp(i, b, ok) ==
    up' = [up EXCEPT ![i] = @ \o IF ok THEN Pieces(b) ELSE SubSeq(Pieces(b), 1, 1)]
SendDown(i, b, ok) ==
    down' = [down EXCEPT ![i] = @ \o IF ok THEN Pieces(b) ELSE SubSeq(Pieces(b), 1, 1)]

----------------------------------------------------------------------------
\* The client.  Every error ends in disconnect(): the call returns nothing.
\* Mutant of ClientFail: after an error the connection is kept.
ClientFailKeep ==
    /\ cli' = "idle"
    /\ UNCHANGED <<cfd, closedC, pass, calls, got>>

ClientFail ==
    /\ cli' = "idle" /\ cfd' = 0
    /\ closedC' = closedC \cup {cfd}
    /\ UNCHANGED <<pass, calls, got>>

Idle == UNCHANGED <<srvVars, poolVars>>

\* call(): connects first if there is no connection.
Call ==
    /\ cli = "idle" /\ calls < MaxCalls
    /\ calls' = calls + 1
    /\ cli' = IF cfd = 0 THEN "connect" ELSE "send"
    /\ UNCHANGED <<netVars, cfd, pass, got>> /\ Idle

\* connect(): tcp::Client::connect, and the first message of auth(), which may
\* not go out whole: then the connection is closed again.
\* tcp::Server::loop accepts and starts on_connection.
Connect(ok) ==
    /\ cli = "connect"
    /\ \E i \in Conns :
          /\ srv[i] = "none" /\ \A j \in Conns : srv[j] = "none" => i <= j
          /\ srv' = [srv EXCEPT ![i] = "new"]
          /\ \/ pass = None /\ cli' = "send" /\ cfd' = i /\ UNCHANGED <<up, closedC>>
             \/ pass # None /\ SendUp(i, Body("auth", None), ok)
                /\ IF ok THEN cli' = "nonce" /\ cfd' = i /\ UNCHANGED closedC
                   ELSE cli' = "idle" /\ cfd' = 0 /\ closedC' = closedC \cup {i}
    /\ UNCHANGED <<down, seenUp, seenDown, closedS, pass, calls, got, buf, connNum, poolVars>>

ConnectFails ==
    /\ cli = "connect"
    /\ cli' = "idle"
    /\ UNCHANGED <<netVars, cfd, pass, calls, got>> /\ Idle

\* A whole header arrives.
ClientHeader ==
    /\ cli \in {"nonce", "result", "res"} /\ seenDown[cfd] >= 2
    /\ TakeDown(cfd, 2)
    /\ IF down[cfd][1].part = 1
       THEN /\ cli' = CASE cli = "nonce" -> "nonceb" [] cli = "result" -> "resultb" [] cli = "res" -> "resb"
            /\ UNCHANGED <<cfd, closedC, pass, calls, got>>
       ELSE ClientFail
    /\ UNCHANGED <<up, seenUp, closedS>> /\ Idle

\* auth() reads a header with recv, which may return the first piece only.
\* The second header then has the length of the first one.  The length of the
\* first is what the stack held: too long, or negative, and resize aborts the
\* process, or some length.
ClientShort ==
    /\ cli \in {"nonce", "result"} /\ seenDown[cfd] = 1
    /\ TakeDown(cfd, 1)
    /\ \/ (cli = "nonce" \/ down[cfd][1].part # 1) /\ ClientFail
       \/ down[cfd][1].part = 1 /\ cli' = "astray" /\ UNCHANGED <<cfd, closedC, pass, calls, got>>
       \/ /\ down[cfd][1].part = 1 /\ cli = "nonce"
          /\ cli' = "aborted" /\ cfd' = 0 /\ closedC' = closedC \cup {cfd}
          /\ UNCHANGED <<pass, calls, got>>
    /\ UNCHANGED <<up, seenUp, closedS>> /\ Idle

\* recvn of that many bytes, from the middle of the header on: it fails, or
\* takes some of the pieces, which begin with a byte of a length and are no JSON.
ClientStray ==
    /\ cli = "astray"
    /\ \E n \in 0..seenDown[cfd] : TakeDown(cfd, n)
    /\ ClientFail
    /\ UNCHANGED <<up, seenUp, closedS>> /\ Idle

\* auth(): the body with the nonce; the answer is sent, or the send fails.  A
\* server without a password answers without a nonce.
ClientNonce(ok) ==
    /\ cli = "nonceb" /\ seenDown[cfd] >= 1
    /\ TakeDown(cfd, 1)
    /\ LET b == down[cfd][1].body IN
       IF b.method # "nonce" THEN ClientFail /\ UNCHANGED up
       ELSE /\ SendUp(cfd, Body("md5", Md5(pass, b.arg)), ok)
            /\ IF ok THEN cli' = "result" /\ UNCHANGED <<cfd, closedC, pass, calls, got>>
               ELSE ClientFail
    /\ UNCHANGED <<seenUp, closedS>> /\ Idle

ClientResult ==
    /\ cli = "resultb" /\ seenDown[cfd] >= 1
    /\ TakeDown(cfd, 1)
    /\ IF down[cfd][1].body = Body("ok", None)
       THEN cli' = "send" /\ UNCHANGED <<cfd, closedC, pass, calls, got>>
       ELSE ClientFail
    /\ UNCHANGED <<up, seenUp, closedS>> /\ Idle

\* call(): the request is sent.
ClientSend(ok) ==
    /\ cli = "send"
    /\ SendUp(cfd, Body("req", calls), ok)
    /\ IF ok THEN cli' = "res" /\ UNCHANGED <<cfd, closedC, pass, calls, got>>
       ELSE ClientFail
    /\ UNCHANGED <<down, seenUp, seenDown, closedS>> /\ Idle

ClientResponse ==
    /\ cli = "resb" /\ seenDown[cfd] >= 1
    /\ TakeDown(cfd, 1)
    /\ got' = got \cup {<<calls, down[cfd][1].body>>}
    /\ cli' = "idle"
    /\ UNCHANGED <<up, seenUp, closedC, closedS, cfd, pass, calls>> /\ Idle

\* Mutant of ClientTimeout: there is no time limit for the body of a response.
ClientTimeoutNone ==
    /\ \/ cli \in {"nonce", "nonceb", "result", "resultb"} /\ seenDown[cfd] = 0
          /\ TakeDown(cfd, 0)
       \/ cli = "res" /\ seenDown[cfd] < 2
          /\ TakeDown(cfd, seenDown[cfd])
    /\ ClientFail
    /\ UNCHANGED <<up, seenUp, closedS>> /\ Idle

\* The time limit of a recv, or the end of the stream: what has arrived of
\* the header or the body is gone.
ClientTimeout ==
    /\ \/ cli \in {"nonce", "nonceb", "result", "resultb", "resb"} /\ seenDown[cfd] = 0
          /\ TakeDown(cfd, 0)
       \/ cli = "res" /\ seenDown[cfd] < 2
          /\ TakeDown(cfd, seenDown[cfd])
    /\ ClientFail
    /\ UNCHANGED <<up, seenUp, closedS>> /\ Idle

----------------------------------------------------------------------------
\* The server: on_connection.  Without a password, or after auth(), the
\* connection is counted, in an expression that is evaluated only if logs of
\* level info are written.
Counted == connNum' = IF LogInfo THEN connNum + 1 ELSE connNum

ServerStart(i) ==
    /\ srv[i] = "new"
    /\ \/ ServerPass # None /\ srv' = [srv EXCEPT ![i] = "auth1"] /\ UNCHANGED connNum
       \/ ServerPass = None /\ srv' = [srv EXCEPT ![i] = "head"] /\ Counted
    /\ UNCHANGED <<netVars, cliVars, buf, poolVars>>

\* Mutant of ServerAuth: the answer is not compared with what it has to be.
ServerAuthAny(i, ok) ==
    /\ srv[i] = "auth2b" /\ seenUp[i] >= 1
    /\ TakeUp(i, 1)
    /\ SendDown(i, Body("ok", None), ok)
    /\ IF ok THEN srv' = [srv EXCEPT ![i] = "head"] /\ Counted
       ELSE srv' = [srv EXCEPT ![i] = "failed"] /\ UNCHANGED connNum
    /\ UNCHANGED <<seenDown, closedC, closedS, cliVars, buf, poolVars>>

\* auth(): the headers, the request for a nonce, and the answer.
ServerAuthHeader(i) ==
    /\ srv[i] \in {"auth1", "auth2"} /\ seenUp[i] >= 2
    /\ TakeUp(i, 2)
    /\ srv' = [srv EXCEPT ![i] = IF up[i][1].part # 1 THEN "failed"
                                 ELSE IF @ = "auth1" THEN "auth1b" ELSE "auth2b"]
    /\ UNCHANGED <<down, seenDown, closedC, closedS, cliVars, buf, connNum, poolVars>>

ServerNonce(i, ok) ==
    /\ srv[i] = "auth1b" /\ seenUp[i] >= 1
    /\ TakeUp(i, 1)
    /\ IF up[i][1].body.method # "auth" THEN srv' = [srv EXCEPT ![i] = "failed"] /\ UNCHANGED down
       ELSE /\ SendDown(i, Body("nonce", i), ok)
            /\ srv' = [srv EXCEPT ![i] = IF ok THEN "auth2" ELSE "failed"]
    /\ UNCHANGED <<seenDown, closedC, closedS, cliVars, buf, connNum, poolVars>>

ServerAuth(i, ok) ==
    /\ srv[i] = "auth2b" /\ seenUp[i] >= 1
    /\ TakeUp(i, 1)
    /\ LET good == up[i][1].body = Body("md5", Md5(ServerPass, i)) IN
       /\ IF up[i][1].body.method = "md5"
          THEN SendDown(i, Body(IF good THEN "ok" ELSE "no", None), ok)
          ELSE UNCHANGED down
       /\ IF good /\ ok THEN srv' = [srv EXCEPT ![i] = "head"] /\ Counted
          ELSE srv' = [srv EXCEPT ![i] = "failed"] /\ UNCHANGED connNum
    /\ UNCHANGED <<seenDown, closedC, closedS, cliVars, buf, poolVars>>

ServerAuthTimeout(i) ==
    /\ \/ srv[i] \in {"auth1", "auth2"} /\ seenUp[i] < 2
       \/ srv[i] \in {"auth1b", "auth2b"} /\ seenUp[i] < 1
    /\ TakeUp(i, seenUp[i])
    /\ srv' = [srv EXCEPT ![i] = "failed"]
    /\ UNCHANGED <<down, seenDown, closedC, closedS, cliVars, buf, connNum, poolVars>>

\* After a failed auth() the connection is reset 3 seconds later.
ServerRefuse(i) ==
    /\ srv[i] = "failed"
    /\ srv' = [srv EXCEPT ![i] = "end"]
    /\ closedS' = closedS \cup {i}
    /\ UNCHANGED <<up, down, seenUp, seenDown, closedC, cliVars, buf, connNum, poolVars>>

\* The service loop: a header; the buffer is taken from the pool if the
\* connection has none.
ServerHeader(i) ==
    /\ srv[i] = "head" /\ seenUp[i] >= 2
    /\ TakeUp(i, 2)
    /\ IF up[i][1].part # 1
       THEN srv' = [srv EXCEPT ![i] = "closing"] /\ UNCHANGED <<buf, poolVars>>
       ELSE /\ srv' = [srv EXCEPT ![i] = "body"]
            /\ IF buf[i] # NoBuf THEN UNCHANGED <<buf, poolVars>>
               ELSE \E e \in Elems : PopElem(Srv, e) /\ buf' = [buf EXCEPT ![i] = e]
    /\ UNCHANGED <<down, seenDown, closedC, closedS, cliVars, connNum>>

\* The body; the service is called and the response sent.
ServerBody(i, ok) ==
    /\ srv[i] = "body" /\ seenUp[i] >= 1
    /\ TakeUp(i, 1)
    /\ SendDown(i, Body("res", up[i][1].body), ok)
    /\ srv' = [srv EXCEPT ![i] = IF ok THEN "head" ELSE "closing"]
    /\ UNCHANGED <<seenDown, closedC, closedS, cliVars, buf, connNum, poolVars>>

\* The end of a connection: the descriptor is closed, the connection is no
\* longer counted, the buffer goes back to the pool.
Cleanup(i) ==
    /\ srv' = [srv EXCEPT ![i] = "end"]
    /\ closedS' = closedS \cup {i}
    /\ connNum' = connNum - 1
    /\ IF buf[i] = NoBuf THEN UNCHANGED <<buf, poolVars>>
       ELSE PushElem(Srv, buf[i]) /\ buf' = [buf EXCEPT ![i] = NoBuf]

\* Mutant of ServerIdle: the buffer that goes back to the pool is not forgotten.
ServerIdleKeep(i) ==
    /\ srv[i] = "head" /\ seenUp[i] < 2 /\ ~EofUp(i)
    /\ TakeUp(i, seenUp[i])
    /\ IF connNum > MaxIdle THEN Cleanup(i)
       ELSE /\ IF buf[i] = NoBuf THEN UNCHANGED poolVars ELSE PushElem(Srv, buf[i])
            /\ UNCHANGED <<srv, buf, connNum, closedS>>
    /\ UNCHANGED <<down, seenDown, closedC, cliVars>>

\* No header for rpc_conn_idle_sec: too many connections, and this one is
\* closed; otherwise it gives its buffer back and waits again, and what has
\* arrived of a header is lost.
ServerIdle(i) ==
    /\ srv[i] = "head" /\ seenUp[i] < 2 /\ ~EofUp(i)
    /\ TakeUp(i, seenUp[i])
    /\ IF connNum > MaxIdle THEN Cleanup(i)
       ELSE /\ IF buf[i] = NoBuf THEN UNCHANGED <<buf, poolVars>>
               ELSE PushElem(Srv, buf[i]) /\ buf' = [buf EXCEPT ![i] = NoBuf]
            /\ UNCHANGED <<srv, connNum, closedS>>
    /\ UNCHANGED <<down, seenDown, closedC, cliVars>>

\* The client has closed the connection.
ServerEof(i) ==
    /\ srv[i] \in {"head", "body"} /\ EofUp(i) /\ seenUp[i] < (IF srv[i] = "head" THEN 2 ELSE 1)
    /\ Cleanup(i)
    /\ UNCHANGED <<up, down, seenUp, seenDown, closedC, cliVars>>

\* The body does not arrive in time, or recvn fails for another reason.
ServerRecvErr(i) ==
    /\ ~EofUp(i)
    /\ \/ srv[i] = "body" /\ seenUp[i] = 0
       \/ srv[i] = "head" /\ seenUp[i] < 2
    /\ srv' = [srv EXCEPT ![i] = "closing"]
    /\ UNCHANGED <<netVars, cliVars, buf, connNum, poolVars>>

\* After an error the connection is reset a second later.
ServerReset(i) ==
    /\ srv[i] = "closing"
    /\ Cleanup(i)
    /\ UNCHANGED <<up, down, seenUp, seenDown, closedC, cliVars>>

----------------------------------------------------------------------------
ClientStep ==
    \/ ConnectFails \/ ClientHeader \/ ClientShort \/ ClientStray \/ ClientResult \/ ClientResponse
    \/ ClientTimeout
    \/ \E ok \in BOOLEAN : Connect(ok) \/ ClientNonce(ok) \/ ClientSend(ok)

ServerStep(i) ==
    \/ ServerStart(i) \/ ServerAuthHeader(i) \/ ServerAuthTimeout(i) \/ ServerRefuse(i)
    \/ ServerHeader(i) \/ ServerIdle(i) \/ ServerEof(i) \/ ServerRecvErr(i) \/ ServerReset(i)
    \/ \E ok \in BOOLEAN : ServerNonce(i, ok) \/ ServerAuth(i, ok) \/ ServerBody(i, ok)

Next ==
    \/ Call \/ ClientStep
    \/ \E i \in Conns : DeliverUp(i) \/ DeliverDown(i) \/ ServerStep(i)

Spec == Init /\ [][Next]_vars

\* The client goes on or its time limits expire.
FairSpec == Spec /\ WF_vars(ClientStep)

----------------------------------------------------------------------------
TypeOK ==
    /\ PoolTypeOK
    /\ srv \in [Conns -> ServerPlaces] /\ buf \in [Conns -> Elems \cup {NoBuf}]
    /\ cli \in ClientPlaces /\ cfd \in 0..MaxConn /\ calls \in 0..MaxCalls
    /\ \A i \in Conns : seenUp[i] \in 0..Len(up[i]) /\ seenDown[i] \in 0..Len(down[i])

\* A call that returns a response returns the response to its own request:
\* never the one to an earlier request whose time was over, although that one
\* may still arrive, and never a piece of a message (rpc.cc:350-409).
AnswersMatch == \A g \in got : g[2] = Body("res", Body("req", g[1]))

\* A server with a password serves only connections of clients that know it,
\* and a client that knows it may use a connection only after the server has
\* accepted it (rpc.cc:78-82, 335-338).
AuthedOnly ==
    ServerPass # None =>
       \A i \in Conns : Served(i) \/ (cfd = i /\ cli \in {"send", "res", "resb"} /\ pass # None)
                        => pass = ServerPass

\* Each buffer is in the pool or in the hands of one connection, and the
\* connections that are counted are the ones being served, if logs of level info
\* are written (rpc.cc:84-85, 103-107, 169-174).
BuffersOwnedOnce ==
    /\ PoolOwnsOnce
    /\ \A i \in Conns : buf[i] # NoBuf =>
          /\ Served(i) /\ buf[i] \in alive \ Range(pools[Srv])
          /\ \A j \in Conns : buf[i] = buf[j] => i = j
    /\ LogInfo => connNum = Cardinality({i \in Conns : Served(i)})

\* Every call returns, though any message may be lost, if the process is not
\* aborted (rpc.cc:350-409, 410-500).
CallsReturn == (cli # "idle") ~> (cli \in {"idle", "aborted"})

=============================================================================
