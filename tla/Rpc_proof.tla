----------------------------- MODULE Rpc_proof -----------------------------
(***************************************************************************)
(* Proofs about Rpc, for any number of connections, calls and buffers, any *)
(* passwords and any limits of the pool and of idle connections: a call    *)
(* gets the response to its own request, only clients that know the        *)
(* password are served, and no buffer has two owners.                      *)
(***************************************************************************)
EXTENDS Rpc, FiniteSetTheorems, TLAPS

\* What a client with password p sends, and what the server answers it: "ok"
\* only if the password is right.
Requests(p) ==
    {Body("auth", None)} \cup {Body("md5", Md5(p, n)) : n \in Conns}
    \cup {Body("req", n) : n \in 0..MaxCalls}

Answers(p) ==
    {Body("nonce", n) : n \in Conns} \cup {Body("no", None)}
    \cup {b \in {Body("ok", None)} : p = ServerPass}
    \cup {Body("res", b) : b \in Requests(p)}

Piece(k, b) == [part |-> k, body |-> b]
PiecesOf(bodies) == [part : 1..3, body : bodies]

\* The streams, and where the client may be without a connection.
UpInv ==
    /\ up \in [Conns -> Seq(PiecesOf(Requests(pass)))] /\ seenUp \in [Conns -> Nat]
    /\ \A i \in Conns : seenUp[i] <= Len(up[i])

DownInv ==
    /\ down \in [Conns -> Seq(PiecesOf(Answers(pass)))] /\ seenDown \in [Conns -> Nat]
    /\ \A i \in Conns : seenDown[i] <= Len(down[i])

PlaceInv ==
    /\ srv \in [Conns -> ServerPlaces]
    /\ cli \in ClientPlaces /\ cfd \in 0..MaxConn /\ calls \in 0..MaxCalls
    /\ cli = "connect" => cfd = 0
    /\ cli \notin {"idle", "connect", "aborted"} => cfd # 0
    /\ \A i \in Conns : srv[i] = "none" => Len(up[i]) = 0 /\ Len(down[i]) = 0 /\ cfd # i

NetInv == UpInv /\ DownInv /\ PlaceInv

\* q is what is left of message b from its k-th piece on; nothing, if k = 4.
Rest(q, b, k) == Len(q) = 4 - k /\ \A j \in 1..Len(q) : q[j] = Piece(k + j - 1, b)
Begun(q, b) == Len(q) = 1 /\ q[1] = Piece(1, b)

\* The connection of the client is used in turns: there is a request under way,
\* or an answer, or nothing, and an answer that is read in state "resb" is the
\* one to the request of the call.
MidMessage == {"body", "auth1b", "auth2b"}

UpTalk(i) ==
    \E b \in Requests(pass), k \in 1..4 :
       /\ Rest(up[i], b, k)
       /\ srv[i] \in MidMessage => k = 3
       /\ cli \in {"res", "resb"} => b = Body("req", calls)

DownTalk(i) ==
    \E b \in Answers(pass), k \in 1..4 :
       /\ Rest(down[i], b, k) \/ (k = 1 /\ Begun(down[i], b))
       /\ cli \in {"nonceb", "resultb", "resb"} => k = 3
       /\ k = 3 => cli \in {"nonceb", "resultb", "resb"}
       /\ k = 2 => cli = "astray"
       /\ cli \in {"res", "resb"} => b = Body("res", Body("req", calls))

TalkInv ==
    cfd # 0 =>
       /\ Len(up[cfd]) = 0 \/ Len(down[cfd]) = 0
       /\ cli \in {"idle", "send"} => Len(up[cfd]) = 0 /\ Len(down[cfd]) = 0
       /\ UpTalk(cfd) /\ DownTalk(cfd)

\* Who was let in knows the password.
AuthInv ==
    ServerPass # None =>
       /\ \A i \in Conns : Served(i) => pass = ServerPass
       /\ cfd # 0 /\ cli \in {"idle", "send", "res", "resb"} /\ pass # None => pass = ServerPass

\* The pool: nothing is in it twice or in it and in use, what is in it exists,
\* and only a connection that is served has a buffer, of its own.
OwnInv ==
    /\ pools \in [PoolScheds -> Seq(Elems)] /\ buf \in [Conns -> Elems \cup {NoBuf}]
    /\ \A s, t \in PoolScheds : \A k \in 1..Len(pools[s]), m \in 1..Len(pools[t]) :
          pools[s][k] = pools[t][m] => s = t /\ k = m
    /\ \A s \in PoolScheds : \A k \in 1..Len(pools[s]) :
          pools[s][k] \in alive /\ \A i \in Conns : buf[i] # pools[s][k]
    /\ \A i \in Conns : buf[i] # NoBuf => buf[i] \in alive /\ Served(i)
    /\ \A i, j \in Conns : buf[i] = buf[j] /\ buf[i] # NoBuf => i = j

\* The connections that are counted, if logs of level info are written.
ServedConns == {i \in Conns : Served(i)}
CountInv == connNum \in Int /\ (LogInfo => connNum = Cardinality(ServedConns))

-----------------------------------------------------------------------------
(* Streams. *)

\* recvn takes pieces from the front of a stream.
LEMMA TakeElements ==
    ASSUME NEW S, NEW q \in Seq(S), NEW n \in 0..Len(q)
    PROVE  LET r == SubSeq(q, n + 1, Len(q))
           IN  r \in Seq(S) /\ Len(r) = Len(q) - n /\ \A j \in 1..Len(r) : r[j] = q[n + j]
  <1> DEFINE r == SubSeq(q, n + 1, Len(q))
  <1>1. Len(q) \in Nat /\ r \in Seq(S) /\ Len(r) = Len(q) - n
    OBVIOUS
  <1>2. \A j \in 1..(Len(q) - n) : r[j] = q[n + j]
    OBVIOUS
  <1> QED
    BY <1>1, <1>2

\* What is left of a message after n more pieces were taken.
LEMMA TakeRest ==
    ASSUME NEW S, NEW q \in Seq(S), NEW b, NEW k \in 1..4, Rest(q, b, k), NEW n \in 0..Len(q)
    PROVE  k + n \in 1..4 /\ Rest(SubSeq(q, n + 1, Len(q)), b, k + n)
  <1> DEFINE r == SubSeq(q, n + 1, Len(q))
  <1>1. Len(q) = 4 - k /\ \A j \in 1..Len(q) : q[j] = Piece(k + j - 1, b)
    BY DEF Rest
  <1>2. Len(r) = Len(q) - n /\ \A j \in 1..Len(r) : r[j] = q[n + j]
    BY TakeElements
  <1> HIDE DEF r
  <1>3. ASSUME NEW j \in 1..Len(r) PROVE r[j] = Piece((k + n) + j - 1, b)
    <2>1. n + j \in 1..Len(q) /\ k + (n + j) - 1 = (k + n) + j - 1
      BY <1>1, <1>2
    <2>2. q[n + j] = Piece(k + (n + j) - 1, b)
      BY <1>1, <2>1
    <2> QED
      BY <1>2, <2>1, <2>2
  <1>4. k + n \in 1..4 /\ Len(r) = 4 - (k + n)
    BY <1>1, <1>2
  <1> QED
    BY <1>3, <1>4 DEF Rest, r

\* An answer to the nonce that is right for password p was made with p.
LEMMA OwnPassword ==
    ASSUME NEW p, NEW q, NEW n, Body("md5", Md5(q, n)) \in Requests(p)
    PROVE  p = q
  <1>1. \A m, b : Body("md5", m).method = "md5" /\ Body("md5", m).arg = m
    BY DEF Body
  <1>2. Body("auth", None).method = "auth" /\ \A m : Body("req", m).method = "req"
    BY DEF Body
  <1>3. PICK m \in Conns : Body("md5", Md5(q, n)) = Body("md5", Md5(p, m))
    BY <1>1, <1>2 DEF Requests
  <1>4. Md5(q, n) = Md5(p, m)
    BY <1>1, <1>3
  <1> QED
    BY <1>4 DEF Md5

\* The server says "ok" only if the password is right.
LEMMA OkPassword == ASSUME NEW p, Body("ok", None) \in Answers(p) PROVE p = ServerPass
  <1>1. \A m : Body("nonce", m).method = "nonce" /\ Body("no", m).method = "no" /\ Body("res", m).method = "res"
    BY DEF Body
  <1>2. Body("ok", None).method = "ok"
    BY DEF Body
  <1> QED
    BY <1>1, <1>2 DEF Answers

\* The pieces of a message, all of them or only the first.
LEMMA PiecesElements ==
    ASSUME NEW S, NEW b \in S
    PROVE  /\ Pieces(b) \in Seq(PiecesOf(S)) /\ Rest(Pieces(b), b, 1)
           /\ SubSeq(Pieces(b), 1, 1) \in Seq(PiecesOf(S)) /\ Begun(SubSeq(Pieces(b), 1, 1), b)
  <1>1. \A j \in 1..3 : Piece(j, b) \in PiecesOf(S)
    BY DEF Piece, PiecesOf
  <1>2. Pieces(b) = <<Piece(1, b), Piece(2, b), Piece(3, b)>>
    BY DEF Pieces, Piece
  <1>3. Pieces(b) \in Seq(PiecesOf(S)) /\ Len(Pieces(b)) = 3
    BY <1>1, <1>2
  <1>4. \A j \in 1..3 : Pieces(b)[j] = Piece(j, b)
    BY <1>2
  <1>5. Rest(Pieces(b), b, 1)
    BY <1>3, <1>4 DEF Rest
  <1>6. /\ SubSeq(Pieces(b), 1, 1) \in Seq(PiecesOf(S))
        /\ Len(SubSeq(Pieces(b), 1, 1)) = 1 /\ SubSeq(Pieces(b), 1, 1)[1] = Pieces(b)[1]
    BY <1>3
  <1> QED
    BY <1>3, <1>4, <1>5, <1>6 DEF Begun

\* A send on a stream puts pieces after those that are there.
LEMMA SendElements ==
    ASSUME NEW S, NEW q \in Seq(S), NEW r \in Seq(S)
    PROVE  q \o r \in Seq(S) /\ Len(q \o r) = Len(q) + Len(r) /\ (Len(q) = 0 => q \o r = r)
  <1>1. q \o r \in Seq(S) /\ Len(q \o r) = Len(q) + Len(r)
    OBVIOUS
  <1>2. ASSUME Len(q) = 0 PROVE q \o r = r
    <2>1. q = <<>>
      BY <1>2
    <2> QED
      BY <2>1
  <1> QED
    BY <1>1, <1>2

\* The server receives n pieces that have arrived on one connection.
LEMMA UpTaken ==
    ASSUME UpInv, NEW i \in Conns, NEW n \in 0..seenUp[i], TakeUp(i, n), pass' = pass
    PROVE  /\ UpInv'
           /\ \A j \in Conns : j # i => up'[j] = up[j]
           /\ n \in 0..Len(up[i]) /\ up'[i] = SubSeq(up[i], n + 1, Len(up[i]))
           /\ Len(up'[i]) = Len(up[i]) - n
  <1> DEFINE S == PiecesOf(Requests(pass))
  <1> HIDE DEF S
  <1>1. up \in [Conns -> Seq(S)] /\ seenUp \in [Conns -> Nat] /\ seenUp[i] <= Len(up[i]) /\ n \in 0..Len(up[i])
    BY DEF UpInv, S
  <1>2. /\ up' = [up EXCEPT ![i] = SubSeq(up[i], n + 1, Len(up[i]))]
        /\ seenUp' = [seenUp EXCEPT ![i] = seenUp[i] - n]
    BY DEF TakeUp
  <1>3. SubSeq(up[i], n + 1, Len(up[i])) \in Seq(S) /\ Len(SubSeq(up[i], n + 1, Len(up[i]))) = Len(up[i]) - n
    BY <1>1, TakeElements
  <1>4. up' \in [Conns -> Seq(S)] /\ seenUp' \in [Conns -> Nat]
    BY <1>1, <1>2, <1>3
  <1>5. up'[i] = SubSeq(up[i], n + 1, Len(up[i])) /\ \A j \in Conns : j # i => up'[j] = up[j]
    BY <1>1, <1>2
  <1>6. ASSUME NEW j \in Conns PROVE seenUp'[j] <= Len(up'[j])
    BY <1>1, <1>2, <1>3, <1>5 DEF UpInv
  <1>7. PiecesOf(Requests(pass))' = S
    BY DEF S, PiecesOf, Requests
  <1> QED
    BY <1>1, <1>3, <1>4, <1>5, <1>6, <1>7 DEF UpInv

\* The same on the way to the client.
LEMMA DownTaken ==
    ASSUME DownInv, NEW i \in Conns, NEW n \in 0..seenDown[i], TakeDown(i, n), pass' = pass
    PROVE  /\ DownInv'
           /\ \A j \in Conns : j # i => down'[j] = down[j]
           /\ n \in 0..Len(down[i]) /\ down'[i] = SubSeq(down[i], n + 1, Len(down[i]))
           /\ Len(down'[i]) = Len(down[i]) - n
  <1> DEFINE S == PiecesOf(Answers(pass))
  <1> HIDE DEF S
  <1>1. /\ down \in [Conns -> Seq(S)] /\ seenDown \in [Conns -> Nat]
        /\ seenDown[i] <= Len(down[i]) /\ n \in 0..Len(down[i])
    BY DEF DownInv, S
  <1>2. /\ down' = [down EXCEPT ![i] = SubSeq(down[i], n + 1, Len(down[i]))]
        /\ seenDown' = [seenDown EXCEPT ![i] = seenDown[i] - n]
    BY DEF TakeDown
  <1>3. /\ SubSeq(down[i], n + 1, Len(down[i])) \in Seq(S)
        /\ Len(SubSeq(down[i], n + 1, Len(down[i]))) = Len(down[i]) - n
    BY <1>1, TakeElements
  <1>4. down' \in [Conns -> Seq(S)] /\ seenDown' \in [Conns -> Nat]
    BY <1>1, <1>2, <1>3
  <1>5. down'[i] = SubSeq(down[i], n + 1, Len(down[i])) /\ \A j \in Conns : j # i => down'[j] = down[j]
    BY <1>1, <1>2
  <1>6. ASSUME NEW j \in Conns PROVE seenDown'[j] <= Len(down'[j])
    BY <1>1, <1>2, <1>3, <1>5 DEF DownInv
  <1>7. PiecesOf(Answers(pass))' = S
    BY DEF S, PiecesOf, Answers, Requests
  <1> QED
    BY <1>1, <1>3, <1>4, <1>5, <1>6, <1>7 DEF DownInv

\* A send of the client, of a whole message if ok.
LEMMA UpSent ==
    ASSUME UpInv, NEW i \in Conns, NEW b \in Requests(pass), NEW ok \in BOOLEAN, SendUp(i, b, ok),
           seenUp' = seenUp, pass' = pass
    PROVE  /\ UpInv'
           /\ \A j \in Conns : j # i => up'[j] = up[j]
           /\ Len(up[i]) = 0 /\ ok => Rest(up'[i], b, 1)
  <1> DEFINE S == PiecesOf(Requests(pass))
             r == IF ok THEN Pieces(b) ELSE SubSeq(Pieces(b), 1, 1)
  <1>1. r \in Seq(S) /\ (ok => Rest(r, b, 1))
    BY PiecesElements
  <1> HIDE DEF S, r
  <1>2. up \in [Conns -> Seq(S)] /\ seenUp \in [Conns -> Nat]
    BY DEF UpInv, S
  <1>3. up' = [up EXCEPT ![i] = up[i] \o r]
    BY DEF SendUp, r
  <1>4. /\ up[i] \o r \in Seq(S) /\ Len(up[i] \o r) = Len(up[i]) + Len(r)
        /\ Len(up[i]) = 0 => up[i] \o r = r
    BY <1>1, <1>2, SendElements
  <1>5. up' \in [Conns -> Seq(S)] /\ up'[i] = up[i] \o r /\ \A j \in Conns : j # i => up'[j] = up[j]
    BY <1>2, <1>3, <1>4
  <1>6. ASSUME NEW j \in Conns PROVE seenUp'[j] <= Len(up'[j])
    <2>1. Len(r) \in Nat /\ Len(up[i]) \in Nat /\ seenUp[j] <= Len(up[j])
      BY <1>1, <1>2 DEF UpInv
    <2> QED
      BY <1>2, <1>4, <1>5, <2>1
  <1>7. PiecesOf(Requests(pass))' = S
    BY DEF S, PiecesOf, Requests
  <1> QED
    BY <1>1, <1>2, <1>4, <1>5, <1>6, <1>7 DEF UpInv

\* A send of the server.
LEMMA DownSent ==
    ASSUME DownInv, NEW i \in Conns, NEW b \in Answers(pass), NEW ok \in BOOLEAN, SendDown(i, b, ok),
           seenDown' = seenDown, pass' = pass
    PROVE  /\ DownInv'
           /\ \A j \in Conns : j # i => down'[j] = down[j]
           /\ Len(down[i]) = 0 => Rest(down'[i], b, 1) \/ Begun(down'[i], b)
  <1> DEFINE S == PiecesOf(Answers(pass))
             r == IF ok THEN Pieces(b) ELSE SubSeq(Pieces(b), 1, 1)
  <1>1. r \in Seq(S) /\ (Rest(r, b, 1) \/ Begun(r, b))
    BY PiecesElements
  <1> HIDE DEF S, r
  <1>2. down \in [Conns -> Seq(S)] /\ seenDown \in [Conns -> Nat]
    BY DEF DownInv, S
  <1>3. down' = [down EXCEPT ![i] = down[i] \o r]
    BY DEF SendDown, r
  <1>4. /\ down[i] \o r \in Seq(S) /\ Len(down[i] \o r) = Len(down[i]) + Len(r)
        /\ Len(down[i]) = 0 => down[i] \o r = r
    BY <1>1, <1>2, SendElements
  <1>5. down' \in [Conns -> Seq(S)] /\ down'[i] = down[i] \o r /\ \A j \in Conns : j # i => down'[j] = down[j]
    BY <1>2, <1>3, <1>4
  <1>6. ASSUME NEW j \in Conns PROVE seenDown'[j] <= Len(down'[j])
    <2>1. Len(r) \in Nat /\ Len(down[i]) \in Nat /\ seenDown[j] <= Len(down[j])
      BY <1>1, <1>2 DEF DownInv
    <2> QED
      BY <1>2, <1>4, <1>5, <2>1
  <1>7. PiecesOf(Answers(pass))' = S
    BY DEF S, PiecesOf, Answers, Requests
  <1> QED
    BY <1>1, <1>2, <1>4, <1>5, <1>6, <1>7 DEF DownInv

\* A stream that is left alone.
LEMMA StreamsSame ==
    /\ UpInv /\ UNCHANGED <<up, seenUp, pass>> => UpInv'
    /\ DownInv /\ UNCHANGED <<down, seenDown, pass>> => DownInv'
  BY DEF UpInv, DownInv, PiecesOf, Requests, Answers

-----------------------------------------------------------------------------
(* The connections. *)

\* The assumptions, one by one.
LEMMA Constants ==
    /\ PoolScheds # {} /\ NoBuf \notin Elems /\ MaxCap \in Nat
    /\ MaxConn \in Nat /\ MaxCalls \in Nat /\ MaxIdle \in Nat /\ LogInfo \in BOOLEAN
    /\ Conns = 1..MaxConn /\ 0 \notin Conns /\ Srv \in PoolScheds
  BY RpcAssumption DEF Conns, Srv

\* No connection was made yet.
LEMMA InitNetInv == Init => NetInv
  BY Constants DEF Init, NetInv, UpInv, DownInv, PlaceInv, ServerPlaces, ClientPlaces

\* What a place on the server's side may become without harm to PlaceInv.
LEMMA ServerMoves ==
    ASSUME PlaceInv, NEW i \in Conns, srv[i] # "none", NEW p \in ServerPlaces \ {"none"},
           srv' = [srv EXCEPT ![i] = p], UNCHANGED <<cli, cfd, calls>>,
           \A j \in Conns : j # i => up'[j] = up[j] /\ down'[j] = down[j]
    PROVE  PlaceInv'
  BY DEF PlaceInv

\* What the client may do without harm to PlaceInv.
LEMMA ClientMoves ==
    ASSUME PlaceInv, cfd \in Conns, srv' = srv, cli' \in ClientPlaces, calls' \in 0..MaxCalls,
           \/ cfd' = cfd /\ cli' # "connect"
           \/ cfd' = 0 /\ cli' \in {"idle", "connect", "aborted"},
           \A j \in Conns : j # cfd => up'[j] = up[j] /\ down'[j] = down[j]
    PROVE  PlaceInv'
  BY Constants DEF PlaceInv

\* Every step keeps the streams and the places in order.
LEMMA NextNetInv == NetInv /\ [Next]_vars => NetInv'
  <1> SUFFICES ASSUME NetInv, [Next]_vars PROVE NetInv'
    OBVIOUS
  <1> USE DEF NetInv, netVars, cliVars, srvVars
  <1>0. /\ cli \in ClientPlaces /\ calls \in 0..MaxCalls
        /\ cli \notin {"idle", "connect", "aborted"} => cfd \in Conns
        /\ srv \in [Conns -> ServerPlaces]
        /\ \A i \in Conns : seenUp[i] \in Nat /\ seenDown[i] \in Nat
    BY Constants DEF PlaceInv, UpInv, DownInv
  <1>1. CASE Call
    <2>1. UpInv' /\ DownInv'
      BY <1>1, StreamsSame DEF Call
    <2>2. UNCHANGED <<up, down, srv, cfd>> /\ calls' \in 0..MaxCalls /\ cli' = IF cfd = 0 THEN "connect" ELSE "send"
      BY <1>0, <1>1, Constants DEF Call, Idle
    <2>3. PlaceInv'
      <3>1. CASE cfd = 0
        BY <2>2, <3>1 DEF PlaceInv, ClientPlaces
      <3>2. CASE cfd # 0
        BY <2>2, <3>2 DEF PlaceInv, ClientPlaces
      <3> QED
        BY <3>1, <3>2
    <2> QED
      BY <2>1, <2>3
  <1>2. ASSUME NEW ok \in BOOLEAN, Connect(ok) PROVE NetInv'
    <2>1. PICK i \in Conns : /\ srv[i] = "none" /\ srv' = [srv EXCEPT ![i] = "new"]
                             /\ UNCHANGED up \/ SendUp(i, Body("auth", None), ok)
                             /\ \/ cfd' = i /\ cli' \in {"send", "nonce"}
                                \/ cfd' = 0 /\ cli' = "idle"
      BY <1>2 DEF Connect
    <2>2. UNCHANGED <<down, seenUp, seenDown, pass, calls>>
      BY <1>2 DEF Connect
    <2>3. UpInv' /\ \A j \in Conns : j # i => up'[j] = up[j]
      <3>1. Body("auth", None) \in Requests(pass)
        BY DEF Requests
      <3> QED
        BY <2>1, <2>2, <3>1, UpSent, StreamsSame
    <2>4. DownInv'
      BY <2>2, StreamsSame
    <2>5. PlaceInv'
      <3>1. srv' \in [Conns -> ServerPlaces] /\ \A j \in Conns : srv'[j] = "none" => j # i /\ srv[j] = "none"
        BY <1>0, <2>1 DEF ServerPlaces
      <3>2. cli' \in {"send", "nonce", "idle"} /\ cli' \in ClientPlaces
        BY <2>1 DEF ClientPlaces
      <3>3. cfd' \in 0..MaxConn /\ cfd' \in {0, i} /\ (cli' # "idle" => cfd' # 0) /\ i # 0
        BY <2>1, Constants
      <3>4. calls' \in 0..MaxCalls
        BY <1>0, <2>2
      <3>5. \A j \in Conns : srv'[j] = "none" => Len(up'[j]) = 0 /\ Len(down'[j]) = 0 /\ cfd' # j
        BY <2>2, <2>3, <3>1, <3>3, Constants DEF PlaceInv
      <3> QED
        BY <3>1, <3>2, <3>3, <3>4, <3>5 DEF PlaceInv
    <2> QED
      BY <2>3, <2>4, <2>5
  <1>3. CASE ConnectFails
    <2>1. UpInv' /\ DownInv'
      BY <1>3, StreamsSame DEF ConnectFails
    <2>2. PlaceInv'
      BY <1>3, Constants DEF ConnectFails, PlaceInv, ClientPlaces, Idle
    <2> QED
      BY <2>1, <2>2
  <1>4. CASE ClientHeader \/ ClientShort \/ ClientStray
    <2>1. /\ cfd \in Conns /\ UNCHANGED <<up, seenUp, srv, pass, calls>> /\ cli' \in ClientPlaces
          /\ \/ cfd' = cfd /\ cli' # "connect"
             \/ cfd' = 0 /\ cli' \in {"idle", "connect", "aborted"}
      <3>1. CASE ClientHeader
        BY <1>0, <3>1 DEF ClientHeader, ClientFail, Idle, ClientPlaces
      <3>2. CASE ClientShort \/ ClientStray
        BY <1>0, <3>2 DEF ClientShort, ClientStray, ClientFail, Idle, ClientPlaces
      <3> QED
        BY <1>4, <3>1, <3>2
    <2>2. PICK n \in 0..seenDown[cfd] : TakeDown(cfd, n)
      BY <1>0, <1>4, <2>1 DEF ClientHeader, ClientShort, ClientStray
    <2>3. DownInv' /\ \A j \in Conns : j # cfd => down'[j] = down[j]
      BY <2>1, <2>2, DownTaken
    <2>4. UpInv'
      BY <2>1, StreamsSame
    <2>5. PlaceInv'
      BY <1>0, <2>1, <2>3, ClientMoves
    <2> QED
      BY <2>3, <2>4, <2>5
  <1>5. ASSUME NEW ok \in BOOLEAN, ClientNonce(ok) PROVE NetInv'
    <2>1. /\ cfd \in Conns /\ UNCHANGED <<seenUp, srv, pass, calls>> /\ cli' \in ClientPlaces
          /\ TakeDown(cfd, 1) /\ 1 \in 0..seenDown[cfd]
          /\ \/ cfd' = cfd /\ cli' # "connect"
             \/ cfd' = 0 /\ cli' \in {"idle", "connect"}
      BY <1>0, <1>5 DEF ClientNonce, ClientFail, Idle, ClientPlaces
    <2>2. DownInv' /\ \A j \in Conns : j # cfd => down'[j] = down[j]
      BY <2>1, DownTaken
    <2>3. UpInv' /\ \A j \in Conns : j # cfd => up'[j] = up[j]
      <3>1. CASE up' = up
        BY <2>1, <3>1, StreamsSame
      <3>2. CASE /\ down[cfd][1].body.method = "nonce"
                 /\ SendUp(cfd, Body("md5", Md5(pass, down[cfd][1].body.arg)), ok)
        <4>1. down[cfd][1] \in PiecesOf(Answers(pass))
          BY <2>1 DEF DownInv
        <4>2. down[cfd][1].body \in Answers(pass)
          BY <4>1 DEF PiecesOf
        <4>3. down[cfd][1].body.arg \in Conns
          BY <3>2, <4>2 DEF Answers, Body
        <4>4. Body("md5", Md5(pass, down[cfd][1].body.arg)) \in Requests(pass)
          BY <4>3 DEF Requests
        <4> QED
          BY <2>1, <3>2, <4>4, UpSent
      <3> QED
        BY <1>5, <3>1, <3>2 DEF ClientNonce
    <2>4. PlaceInv'
      BY <1>0, <2>1, <2>2, <2>3, ClientMoves
    <2> QED
      BY <2>2, <2>3, <2>4
  <1>6. CASE ClientResult
    <2>1. /\ cfd \in Conns /\ UNCHANGED <<up, seenUp, srv, pass, calls>> /\ cli' \in ClientPlaces
          /\ TakeDown(cfd, 1) /\ 1 \in 0..seenDown[cfd]
          /\ \/ cfd' = cfd /\ cli' # "connect"
             \/ cfd' = 0 /\ cli' \in {"idle", "connect"}
      BY <1>0, <1>6 DEF ClientResult, ClientFail, Idle, ClientPlaces
    <2>2. DownInv' /\ \A j \in Conns : j # cfd => down'[j] = down[j]
      BY <2>1, DownTaken
    <2>3. UpInv' /\ PlaceInv'
      BY <1>0, <2>1, <2>2, StreamsSame, ClientMoves
    <2> QED
      BY <2>2, <2>3
  <1>7. ASSUME NEW ok \in BOOLEAN, ClientSend(ok) PROVE NetInv'
    <2>1. /\ cfd \in Conns /\ UNCHANGED <<down, seenUp, seenDown, srv, pass, calls>> /\ cli' \in ClientPlaces
          /\ SendUp(cfd, Body("req", calls), ok)
          /\ \/ cfd' = cfd /\ cli' # "connect"
             \/ cfd' = 0 /\ cli' \in {"idle", "connect"}
      BY <1>0, <1>7 DEF ClientSend, ClientFail, Idle, ClientPlaces
    <2>2. Body("req", calls) \in Requests(pass)
      BY <1>0 DEF Requests
    <2>3. UpInv' /\ \A j \in Conns : j # cfd => up'[j] = up[j]
      BY <2>1, <2>2, UpSent
    <2>4. DownInv' /\ PlaceInv'
      BY <1>0, <2>1, <2>3, StreamsSame, ClientMoves
    <2> QED
      BY <2>3, <2>4
  <1>8. CASE ClientResponse
    <2>1. /\ cfd \in Conns /\ UNCHANGED <<up, seenUp, srv, pass, calls, cfd>> /\ cli' = "idle"
          /\ TakeDown(cfd, 1) /\ 1 \in 0..seenDown[cfd]
      BY <1>0, <1>8 DEF ClientResponse, Idle
    <2>2. DownInv' /\ \A j \in Conns : j # cfd => down'[j] = down[j]
      BY <2>1, DownTaken
    <2>3. UpInv' /\ PlaceInv'
      BY <1>0, <2>1, <2>2, StreamsSame, ClientMoves DEF ClientPlaces
    <2> QED
      BY <2>2, <2>3
  <1>9. CASE ClientTimeout
    <2>1. /\ cfd \in Conns /\ UNCHANGED <<up, seenUp, srv, pass, calls>> /\ cli' = "idle" /\ cfd' = 0
      BY <1>0, <1>9 DEF ClientTimeout, ClientFail, Idle
    <2>2. PICK n \in 0..seenDown[cfd] : TakeDown(cfd, n)
      BY <1>0, <1>9, <2>1 DEF ClientTimeout
    <2>3. DownInv' /\ \A j \in Conns : j # cfd => down'[j] = down[j]
      BY <2>1, <2>2, DownTaken
    <2>4. UpInv' /\ PlaceInv'
      BY <1>0, <2>1, <2>3, StreamsSame, ClientMoves DEF ClientPlaces
    <2> QED
      BY <2>3, <2>4
  <1>10. ASSUME NEW i \in Conns, DeliverUp(i) PROVE NetInv'
    <2>1. UpInv'
      <3>1. UNCHANGED <<up, pass>> /\ seenUp' = [seenUp EXCEPT ![i] = seenUp[i] + 1] /\ seenUp[i] < Len(up[i])
        BY <1>10 DEF DeliverUp
      <3>2. PiecesOf(Requests(pass))' = PiecesOf(Requests(pass))
        BY <3>1 DEF PiecesOf, Requests
      <3>3. \A j \in Conns : Len(up[j]) \in Nat
        BY DEF UpInv
      <3> QED
        BY <3>1, <3>2, <3>3 DEF UpInv
    <2>2. DownInv' /\ PlaceInv'
      BY <1>10, StreamsSame DEF DeliverUp, PlaceInv
    <2> QED
      BY <2>1, <2>2
  <1>11. ASSUME NEW i \in Conns, DeliverDown(i) PROVE NetInv'
    <2>1. DownInv'
      <3>1. UNCHANGED <<down, pass>> /\ seenDown' = [seenDown EXCEPT ![i] = seenDown[i] + 1] /\ seenDown[i] < Len(down[i])
        BY <1>11 DEF DeliverDown
      <3>2. PiecesOf(Answers(pass))' = PiecesOf(Answers(pass))
        BY <3>1 DEF PiecesOf, Answers, Requests
      <3>3. \A j \in Conns : Len(down[j]) \in Nat
        BY DEF DownInv
      <3> QED
        BY <3>1, <3>2, <3>3 DEF DownInv
    <2>2. UpInv' /\ PlaceInv'
      BY <1>11, StreamsSame DEF DeliverDown, PlaceInv
    <2> QED
      BY <2>1, <2>2
  <1>12. ASSUME NEW i \in Conns, ServerStart(i) \/ ServerRefuse(i) \/ ServerEof(i) \/ ServerRecvErr(i) \/ ServerReset(i)
         PROVE  NetInv'
    <2>1. /\ UNCHANGED <<up, down, seenUp, seenDown, pass, cli, cfd, calls>> /\ srv[i] # "none"
          /\ \E p \in ServerPlaces \ {"none"} : srv' = [srv EXCEPT ![i] = p]
      BY <1>12 DEF ServerStart, ServerRefuse, ServerEof, ServerRecvErr, ServerReset, Cleanup, ServerPlaces
    <2> QED
      BY <2>1, StreamsSame, ServerMoves
  <1>13. ASSUME NEW i \in Conns, ServerAuthHeader(i) \/ ServerAuthTimeout(i) \/ ServerHeader(i) \/ ServerIdle(i)
         PROVE  NetInv'
    <2>1. /\ UNCHANGED <<down, seenDown, pass, cli, cfd, calls>> /\ srv[i] # "none"
          /\ \E p \in ServerPlaces \ {"none"} : srv' = [srv EXCEPT ![i] = p]
      <3>1. CASE ServerAuthHeader(i)
        BY <3>1 DEF ServerAuthHeader, ServerPlaces
      <3>2. CASE ServerAuthTimeout(i)
        BY <3>2 DEF ServerAuthTimeout, ServerPlaces
      <3>3. CASE ServerHeader(i)
        BY <3>3 DEF ServerHeader, ServerPlaces
      <3>4. CASE ServerIdle(i)
        <4>1. srv[i] = "head" /\ (srv' = srv \/ srv' = [srv EXCEPT ![i] = "end"])
          BY <3>4 DEF ServerIdle, Cleanup
        <4>2. srv = [srv EXCEPT ![i] = "head"]
          BY <1>0, <4>1
        <4> QED
          BY <3>4, <4>1, <4>2 DEF ServerIdle, ServerPlaces
      <3> QED
        BY <1>13, <3>1, <3>2, <3>3, <3>4
    <2>2. PICK n \in 0..seenUp[i] : TakeUp(i, n)
      BY <1>0, <1>13 DEF ServerAuthHeader, ServerAuthTimeout, ServerHeader, ServerIdle
    <2>3. UpInv' /\ \A j \in Conns : j # i => up'[j] = up[j]
      BY <2>1, <2>2, UpTaken
    <2> QED
      BY <2>1, <2>3, StreamsSame, ServerMoves
  <1>14. ASSUME NEW i \in Conns, NEW ok \in BOOLEAN, ServerNonce(i, ok) \/ ServerAuth(i, ok) \/ ServerBody(i, ok)
         PROVE  NetInv'
    <2>0. UNCHANGED <<seenDown, pass, cli, cfd, calls>> /\ seenUp[i] >= 1 /\ TakeUp(i, 1)
      BY <1>14 DEF ServerNonce, ServerAuth, ServerBody
    <2>1. /\ UNCHANGED <<seenDown, pass, cli, cfd, calls>> /\ srv[i] # "none"
          /\ \E p \in ServerPlaces \ {"none"} : srv' = [srv EXCEPT ![i] = p]
          /\ 1 \in 0..seenUp[i] /\ TakeUp(i, 1)
      <3>1. srv[i] # "none"
        BY <1>14 DEF ServerNonce, ServerAuth, ServerBody
      <3>2. PICK p \in {"failed", "auth2", "head", "closing"} : srv' = [srv EXCEPT ![i] = p]
        BY <1>14 DEF ServerNonce, ServerAuth, ServerBody
      <3>3. p \in ServerPlaces \ {"none"}
        BY DEF ServerPlaces
      <3>4. 1 \in 0..seenUp[i]
        BY <1>0, <2>0
      <3> QED
        BY <2>0, <3>1, <3>2, <3>3, <3>4
    <2>2. UpInv' /\ \A j \in Conns : j # i => up'[j] = up[j]
      BY <2>1, UpTaken
    <2>3. up[i][1].body \in Requests(pass)
      <3>1. up[i][1] \in PiecesOf(Requests(pass))
        BY <2>1 DEF UpInv
      <3> QED
        BY <3>1 DEF PiecesOf
    <2>4. DownInv' /\ \A j \in Conns : j # i => down'[j] = down[j]
      <3>1. CASE down' = down
        BY <2>1, <3>1, StreamsSame
      <3>2. ASSUME NEW b \in Answers(pass), SendDown(i, b, ok)
            PROVE  DownInv' /\ \A j \in Conns : j # i => down'[j] = down[j]
        BY <2>1, <3>2, DownSent
      <3>3. CASE ServerNonce(i, ok)
        <4>1. Body("nonce", i) \in Answers(pass)
          BY DEF Answers
        <4> QED
          BY <3>1, <3>2, <3>3, <4>1 DEF ServerNonce
      <3>4. CASE ServerAuth(i, ok)
        <4>1. Body("no", None) \in Answers(pass)
          BY DEF Answers
        <4>2. up[i][1].body = Body("md5", Md5(ServerPass, i)) => Body("ok", None) \in Answers(pass)
          <5>1. up[i][1].body = Body("md5", Md5(ServerPass, i)) => pass = ServerPass
            BY <2>3, OwnPassword
          <5> QED
            BY <5>1 DEF Answers
        <4> QED
          BY <3>1, <3>2, <3>4, <4>1, <4>2 DEF ServerAuth
      <3>5. CASE ServerBody(i, ok)
        <4>1. Body("res", up[i][1].body) \in Answers(pass)
          BY <2>3 DEF Answers
        <4> QED
          BY <3>2, <3>5, <4>1 DEF ServerBody
      <3> QED
        BY <1>14, <3>3, <3>4, <3>5
    <2> QED
      BY <2>1, <2>2, <2>4, ServerMoves
  <1>15. CASE UNCHANGED vars
    BY <1>15, StreamsSame DEF vars, PlaceInv
  <1> QED
    BY <1>1, <1>2, <1>3, <1>4, <1>5, <1>6, <1>7, <1>8, <1>9, <1>10, <1>11, <1>12, <1>13, <1>14, <1>15
    DEF Next, ClientStep, ServerStep

\* The streams and the places are in order in every behaviour.
THEOREM NetInvariant == Spec => []NetInv
  BY InitNetInv, NextNetInv, PTL DEF Spec

-----------------------------------------------------------------------------
(* Who is let in. *)

\* Nobody was let in yet.
LEMMA InitAuthInv == Init => AuthInv
  BY DEF Init, AuthInv, Served

\* The server serves a connection only after the right answer to its nonce,
\* and the client goes on only after the server's "ok".
LEMMA NextAuthInv == NetInv /\ AuthInv /\ [Next]_vars => AuthInv'
  <1> SUFFICES ASSUME NetInv, AuthInv, [Next]_vars, ServerPass # None,
                      \A i \in Conns : Served(i) => pass = ServerPass,
                      cfd # 0 /\ cli \in {"idle", "send", "res", "resb"} /\ pass # None => pass = ServerPass
               PROVE  /\ \A i \in Conns : Served(i)' => pass' = ServerPass
                      /\ cfd' # 0 /\ cli' \in {"idle", "send", "res", "resb"} /\ pass' # None
                            => pass' = ServerPass
    BY DEF AuthInv
  <1> DEFINE Goal == /\ \A i \in Conns : Served(i)' => pass' = ServerPass
                     /\ cfd' # 0 /\ cli' \in {"idle", "send", "res", "resb"} /\ pass' # None
                           => pass' = ServerPass
  <1> USE DEF netVars, cliVars, srvVars, Idle
  <1>0. /\ srv \in [Conns -> ServerPlaces] /\ (cli \notin {"idle", "connect", "aborted"} => cfd \in Conns)
        /\ \A i \in Conns : seenUp[i] \in Nat /\ seenDown[i] \in Nat
    BY Constants DEF NetInv, PlaceInv, UpInv, DownInv
  <1>1. CASE Call \/ ConnectFails
    <2>1. UNCHANGED <<srv, pass, cfd>> /\ (cfd = 0 \/ cli = "idle")
      BY <1>1 DEF Call, ConnectFails, NetInv, PlaceInv
    <2> QED
      BY <2>1 DEF Served
  <1>2. ASSUME NEW ok \in BOOLEAN, Connect(ok) PROVE Goal
    <2>1. PICK i \in Conns : srv' = [srv EXCEPT ![i] = "new"]
      BY <1>2 DEF Connect
    <2>2. pass' = pass /\ (cli' = "nonce" \/ cfd' = 0 \/ pass = None)
      BY <1>2 DEF Connect
    <2>3. \A j \in Conns : Served(j)' => Served(j)
      BY <1>0, <2>1 DEF Served
    <2> QED
      BY <2>2, <2>3
  <1>3. CASE \/ ClientHeader \/ ClientShort \/ ClientStray \/ ClientResponse \/ ClientTimeout
             \/ \E ok \in BOOLEAN : ClientNonce(ok) \/ ClientSend(ok)
    <2>1. UNCHANGED <<srv, pass>>
      BY <1>3 DEF ClientHeader, ClientShort, ClientStray, ClientResponse, ClientTimeout, ClientNonce,
                  ClientSend, ClientFail
    <2>2. \/ cfd' = 0
          \/ cli' \in {"resb", "idle", "res"} /\ cfd' = cfd /\ cli \in {"res", "resb", "send"}
          \/ cli' \in {"nonceb", "resultb", "result", "astray"}
      BY <1>3 DEF ClientHeader, ClientShort, ClientStray, ClientResponse, ClientTimeout, ClientNonce,
                  ClientSend, ClientFail
    <2> QED
      BY <2>1, <2>2 DEF Served
  <1>4. CASE ClientResult
    <2>1. UNCHANGED <<srv, pass>> /\ (cfd' = 0 \/ down[cfd][1].body = Body("ok", None)) /\ seenDown[cfd] >= 1
      BY <1>4 DEF ClientResult, ClientFail
    <2>2. cfd \in Conns
      BY <1>0, <1>4 DEF ClientResult
    <2>3. down[cfd][1] \in PiecesOf(Answers(pass))
      BY <1>0, <2>1, <2>2 DEF NetInv, DownInv
    <2>4. down[cfd][1].body \in Answers(pass)
      BY <2>3 DEF PiecesOf
    <2>5. cfd' = 0 \/ pass = ServerPass
      BY <2>1, <2>4, OkPassword
    <2> QED
      BY <2>1, <2>5 DEF Served
  <1>5. ASSUME NEW i \in Conns, NEW ok \in BOOLEAN, ServerAuth(i, ok) PROVE Goal
    <2>1. UNCHANGED <<cli, cfd, pass>> /\ seenUp[i] >= 1
      BY <1>5 DEF ServerAuth
    <2>2. \/ srv' = [srv EXCEPT ![i] = "head"] /\ up[i][1].body = Body("md5", Md5(ServerPass, i))
          \/ srv' = [srv EXCEPT ![i] = "failed"]
      BY <1>5 DEF ServerAuth
    <2>3. up[i][1] \in PiecesOf(Requests(pass))
      BY <1>0, <2>1 DEF NetInv, UpInv
    <2>4. up[i][1].body \in Requests(pass)
      BY <2>3 DEF PiecesOf
    <2>5. \A j \in Conns : Served(j)' => Served(j) \/ pass = ServerPass
      BY <1>0, <2>2, <2>4, OwnPassword DEF Served
    <2> QED
      BY <2>1, <2>5
  <1>6. ASSUME NEW i \in Conns,
               \/ DeliverUp(i) \/ DeliverDown(i) \/ ServerStart(i) \/ ServerAuthHeader(i)
               \/ ServerAuthTimeout(i) \/ ServerRefuse(i) \/ ServerEof(i) \/ ServerRecvErr(i)
               \/ ServerReset(i) \/ \E ok \in BOOLEAN : ServerNonce(i, ok)
        PROVE  Goal
    <2>1. UNCHANGED <<cli, cfd, pass>>
      BY <1>6 DEF DeliverUp, DeliverDown, ServerStart, ServerAuthHeader, ServerAuthTimeout, ServerRefuse,
                  ServerEof, ServerRecvErr, ServerReset, ServerNonce
    <2>2. \/ srv' = srv
          \/ \E p \in {"auth1", "failed", "auth1b", "auth2b", "auth2", "end"} : srv' = [srv EXCEPT ![i] = p]
          \/ srv' = [srv EXCEPT ![i] = "closing"] /\ srv[i] \in {"body", "head"}
      BY <1>6 DEF DeliverUp, DeliverDown, ServerStart, ServerAuthHeader, ServerAuthTimeout, ServerRefuse,
                  ServerEof, ServerRecvErr, ServerReset, ServerNonce, Cleanup
    <2>3. \A j \in Conns : Served(j)' => Served(j)
      BY <1>0, <2>2 DEF Served
    <2> QED
      BY <2>1, <2>3
  <1>7. ASSUME NEW i \in Conns, ServerHeader(i) \/ ServerIdle(i) \/ \E ok \in BOOLEAN : ServerBody(i, ok)
        PROVE  Goal
    <2>1. UNCHANGED <<cli, cfd, pass>> /\ Served(i)
      BY <1>7 DEF ServerHeader, ServerIdle, ServerBody, Served
    <2>2. \E p : srv' = [srv EXCEPT ![i] = p]
      <3>1. srv' = srv => srv' = [srv EXCEPT ![i] = srv[i]]
        BY <1>0
      <3> QED
        BY <1>7, <3>1 DEF ServerHeader, ServerIdle, ServerBody, Cleanup
    <2>3. \A j \in Conns : Served(j)' => Served(j)
      BY <1>0, <2>1, <2>2 DEF Served
    <2> QED
      BY <2>1, <2>3
  <1>8. CASE UNCHANGED vars
    BY <1>8 DEF vars, Served
  <1> QED
    BY <1>1, <1>2, <1>3, <1>4, <1>5, <1>6, <1>7, <1>8 DEF Next, ClientStep, ServerStep

\* A server with a password serves only clients that know it.
THEOREM OnlyAuthed == Spec => []AuthedOnly
  <1>1. NetInv /\ AuthInv => AuthedOnly
    BY Constants DEF NetInv, PlaceInv, AuthInv, AuthedOnly
  <1> QED
    BY InitAuthInv, NextAuthInv, NetInvariant, <1>1, PTL DEF Spec

-----------------------------------------------------------------------------
(* Requests and responses. *)

\* Nothing was asked yet.
LEMMA InitTalkInv == Init => TalkInv /\ AnswersMatch
  BY DEF Init, TalkInv, AnswersMatch

\* Nothing is left of a message.
LEMMA NothingLeft ==
    ASSUME NEW S, NEW q \in Seq(S), Len(q) = 0, NEW b
    PROVE  Rest(q, b, 4)
  BY DEF Rest

\* A step of the server that leaves the conversation with the client alone.
LEMMA TalkSame ==
    ASSUME NetInv, TalkInv, UNCHANGED <<cli, cfd, calls, pass>>,
           cfd # 0 => /\ up'[cfd] = up[cfd] /\ down'[cfd] = down[cfd]
                      /\ srv'[cfd] \in MidMessage => srv'[cfd] = srv[cfd]
    PROVE  TalkInv'
  <1> SUFFICES ASSUME cfd # 0 PROVE TalkInv'
    BY DEF TalkInv
  <1>1. UpTalk(cfd) /\ DownTalk(cfd)
    BY DEF TalkInv
  <1>2. PICK b \in Requests(pass), k \in 1..4 :
             /\ Rest(up[cfd], b, k) /\ (srv[cfd] \in MidMessage => k = 3)
             /\ cli \in {"res", "resb"} => b = Body("req", calls)
    BY <1>1 DEF UpTalk
  <1>3. UpTalk(cfd)'
    BY <1>2 DEF UpTalk, Requests
  <1>4. DownTalk(cfd)'
    BY <1>1 DEF DownTalk, Answers, Requests
  <1> QED
    BY <1>3, <1>4 DEF TalkInv

\* The server takes n pieces of the client's request, and reads on only if a
\* whole header was there.
LEMMA TalkTaken ==
    ASSUME NetInv, TalkInv, UNCHANGED <<cli, cfd, calls, pass, down>>,
           NEW i \in Conns, NEW n \in 0..seenUp[i], TakeUp(i, n),
           \A j \in Conns : j # i => srv'[j] = srv[j],
           srv'[i] \in MidMessage => n = 2 /\ up[i][1].part = 1
    PROVE  TalkInv'
  <1>0. up \in [Conns -> Seq(PiecesOf(Requests(pass)))] /\ (cfd # 0 => cfd \in Conns)
    BY Constants DEF NetInv, UpInv, PlaceInv
  <1>1. /\ \A j \in Conns : j # i => up'[j] = up[j]
        /\ n \in 0..Len(up[i]) /\ up'[i] = SubSeq(up[i], n + 1, Len(up[i])) /\ Len(up'[i]) = Len(up[i]) - n
    BY UpTaken DEF NetInv
  <1>2. CASE cfd # i
    BY <1>0, <1>1, <1>2, TalkSame
  <1>3. CASE cfd = i
    <2>1. cfd # 0 /\ UpTalk(i) /\ DownTalk(i)
      BY <1>3, Constants DEF TalkInv
    <2>2. PICK b \in Requests(pass), k \in 1..4 :
               /\ Rest(up[i], b, k)
               /\ cli \in {"res", "resb"} => b = Body("req", calls)
      BY <2>1 DEF UpTalk
    <2>3. k + n \in 1..4 /\ Rest(up'[i], b, k + n)
      BY <1>0, <1>1, <2>2, TakeRest
    <2>4. srv'[i] \in MidMessage => k + n = 3
      <3> SUFFICES ASSUME srv'[i] \in MidMessage PROVE k = 1 /\ n = 2
        OBVIOUS
      <3>1. n = 2 /\ up[i][1].part = 1
        OBVIOUS
      <3>2. 1 \in 1..Len(up[i])
        BY <1>0, <1>1, <3>1
      <3>3. up[i][1] = Piece(k + 1 - 1, b) /\ k + 1 - 1 = k
        BY <2>2, <3>2 DEF Rest
      <3> QED
        BY <3>1, <3>3 DEF Piece
    <2>5. UpTalk(i)'
      BY <2>2, <2>3, <2>4 DEF UpTalk, Requests
    <2>6. DownTalk(i)'
      BY <2>1 DEF DownTalk, Answers, Requests
    <2>7. Len(up[i]) \in Nat /\ Len(up'[i]) \in Nat
      BY <1>0, <1>1
    <2>8. /\ Len(up'[i]) = 0 \/ Len(down'[i]) = 0
          /\ cli' \in {"idle", "send"} => Len(up'[i]) = 0 /\ Len(down'[i]) = 0
      BY <1>1, <1>3, <2>1, <2>7 DEF TalkInv
    <2> QED
      BY <1>3, <2>5, <2>6, <2>8 DEF TalkInv
  <1> QED
    BY <1>2, <1>3

\* The server has read a message and answers it, or not.
LEMMA TalkAnswered ==
    ASSUME NetInv, TalkInv, UNCHANGED <<cli, cfd, calls, pass, seenDown>>,
           NEW i \in Conns, seenUp[i] >= 1, TakeUp(i, 1),
           srv[i] \in MidMessage, srv'[i] \notin MidMessage,
           \A j \in Conns : j # i => srv'[j] = srv[j],
           NEW b \in Answers(pass), NEW ok \in BOOLEAN, down' = down \/ SendDown(i, b, ok),
           up[i][1].body = Body("req", calls) /\ down' # down => b = Body("res", Body("req", calls))
    PROVE  TalkInv'
  <1>0. /\ up \in [Conns -> Seq(PiecesOf(Requests(pass)))] /\ (cfd # 0 => cfd \in Conns)
        /\ down \in [Conns -> Seq(PiecesOf(Answers(pass)))] /\ 1 \in 0..seenUp[i]
    <2>1. up \in [Conns -> Seq(PiecesOf(Requests(pass)))] /\ 1 \in 0..seenUp[i]
      BY DEF NetInv, UpInv
    <2>2. down \in [Conns -> Seq(PiecesOf(Answers(pass)))]
      BY DEF NetInv, DownInv
    <2>3. cfd # 0 => cfd \in Conns
      BY Constants DEF NetInv, PlaceInv
    <2> QED
      BY <2>1, <2>2, <2>3
  <1>1. /\ \A j \in Conns : j # i => up'[j] = up[j]
        /\ 1 \in 0..Len(up[i]) /\ up'[i] = SubSeq(up[i], 1 + 1, Len(up[i])) /\ Len(up'[i]) = Len(up[i]) - 1
    BY <1>0, UpTaken DEF NetInv
  <1>2. CASE down' = down
    BY <1>0, <1>2, TalkTaken
  <1>3. CASE SendDown(i, b, ok) /\ down' # down
    <2>1. /\ \A j \in Conns : j # i => down'[j] = down[j]
          /\ Len(down[i]) = 0 => Rest(down'[i], b, 1) \/ Begun(down'[i], b)
      BY <1>3, DownSent DEF NetInv
    <2>2. CASE cfd # i
      BY <1>0, <1>1, <2>1, <2>2, TalkSame
    <2>3. CASE cfd = i
      <3>1. cfd # 0 /\ UpTalk(i) /\ DownTalk(i)
        BY <2>3, Constants DEF TalkInv
      <3>2. PICK m \in Requests(pass), k \in 1..4 :
                 /\ Rest(up[i], m, k) /\ k = 3
                 /\ cli \in {"res", "resb"} => m = Body("req", calls)
        BY <3>1 DEF UpTalk
      <3>3. Len(up[i]) = 1 /\ up[i][1] = Piece(3 + 1 - 1, m)
        BY <3>2 DEF Rest
      <3>4. Len(down[i]) = 0 /\ cli \notin {"idle", "send"}
        BY <2>3, <3>1, <3>3 DEF TalkInv
      <3>5. cli \notin {"nonceb", "resultb", "resb"}
        BY <3>1, <3>4 DEF DownTalk, Rest
      <3>6. up[i][1].body = m
        BY <3>3 DEF Piece
      <3>7. Len(up'[i]) = 0 /\ Rest(up'[i], m, 4)
        BY <1>1, <3>3 DEF Rest
      <3>8. UpTalk(i)'
        BY <3>2, <3>7 DEF UpTalk, Requests
      <3>9. DownTalk(i)'
        <4>1. b \in Answers(pass)' /\ (Rest(down'[i], b, 1) \/ Begun(down'[i], b))
          BY <2>1, <3>4 DEF Answers, Requests
        <4>2. cli' \in {"res", "resb"} => b = Body("res", Body("req", calls))'
          BY <1>3, <3>2, <3>6
        <4>3. cli' \notin {"nonceb", "resultb", "resb"}
          BY <3>5
        <4> QED
          BY <4>1, <4>2, <4>3 DEF DownTalk
      <3> QED
        BY <2>3, <3>4, <3>7, <3>8, <3>9 DEF TalkInv
    <2> QED
      BY <2>2, <2>3
  <1> QED
    BY <1>2, <1>3

\* The client reads a header: then it has the body of a whole message before it.
LEMMA TalkHeader ==
    ASSUME NetInv, TalkInv, UNCHANGED <<cfd, calls, pass, up, srv>>, cfd \in Conns,
           seenDown[cfd] >= 2, TakeDown(cfd, 2), down[cfd][1].part = 1,
           cli \in {"nonce", "result", "res"}, cli' \in {"nonceb", "resultb", "resb"},
           cli' = "resb" <=> cli = "res"
    PROVE  TalkInv'
  <1>0. down \in [Conns -> Seq(PiecesOf(Answers(pass)))] /\ 2 \in 0..seenDown[cfd] /\ cfd # 0
    BY Constants DEF NetInv, DownInv, PlaceInv
  <1>1. /\ 2 \in 0..Len(down[cfd]) /\ down'[cfd] = SubSeq(down[cfd], 2 + 1, Len(down[cfd]))
        /\ Len(down'[cfd]) = Len(down[cfd]) - 2
    BY <1>0, DownTaken DEF NetInv
  <1>2. UpTalk(cfd) /\ DownTalk(cfd) /\ Len(up[cfd]) = 0
    BY <1>0, <1>1 DEF TalkInv
  <1>3. PICK b \in Answers(pass), k \in 1..4 :
             /\ Rest(down[cfd], b, k) \/ (k = 1 /\ Begun(down[cfd], b))
             /\ k # 2
             /\ cli \in {"res", "resb"} => b = Body("res", Body("req", calls))
    BY <1>2 DEF DownTalk
  <1>4. Rest(down[cfd], b, k) /\ k = 1
    <2>1. Len(down[cfd]) # 1 /\ Len(down[cfd]) # 0
      BY <1>0, <1>1
    <2>2. Rest(down[cfd], b, k)
      BY <1>3, <2>1 DEF Begun
    <2>3. Len(down[cfd]) = 4 - k
      BY <2>2 DEF Rest
    <2> QED
      BY <1>3, <2>1, <2>2, <2>3
  <1>5. Rest(down'[cfd], b, 1 + 2)
    BY <1>0, <1>1, <1>4, TakeRest
  <1>6. DownTalk(cfd)'
    <2>1. b \in Answers(pass)' /\ Rest(down'[cfd], b, 3)
      BY <1>5 DEF Answers, Requests
    <2>2. cli' \in {"res", "resb"} => b = Body("res", Body("req", calls))'
      BY <1>3
    <2> QED
      BY <2>1, <2>2 DEF DownTalk
  <1>7. UpTalk(cfd)'
    <2>1. PICK m \in Requests(pass), j \in 1..4 :
             /\ Rest(up[cfd], m, j) /\ (srv[cfd] \in MidMessage => j = 3)
             /\ cli \in {"res", "resb"} => m = Body("req", calls)
      BY <1>2 DEF UpTalk
    <2> QED
      BY <2>1 DEF UpTalk, Requests
  <1> QED
    BY <1>0, <1>2, <1>6, <1>7 DEF TalkInv

\* The client reads the first piece of a header: then the rest of an answer is
\* before it, or nothing.
LEMMA TalkShort ==
    ASSUME NetInv, TalkInv, UNCHANGED <<cfd, calls, pass, up, srv>>, cfd \in Conns,
           seenDown[cfd] = 1, TakeDown(cfd, 1), cli \in {"nonce", "result"}, cli' = "astray"
    PROVE  TalkInv'
  <1>0. down \in [Conns -> Seq(PiecesOf(Answers(pass)))] /\ 1 \in 0..seenDown[cfd] /\ cfd # 0
    BY Constants DEF NetInv, DownInv, PlaceInv
  <1>1. /\ 1 \in 0..Len(down[cfd]) /\ down'[cfd] = SubSeq(down[cfd], 1 + 1, Len(down[cfd]))
        /\ Len(down'[cfd]) = Len(down[cfd]) - 1
    BY <1>0, DownTaken DEF NetInv
  <1>2. UpTalk(cfd) /\ DownTalk(cfd) /\ Len(up[cfd]) = 0
    BY <1>0, <1>1 DEF TalkInv
  <1>3. PICK b \in Answers(pass), k \in 1..4 :
             /\ Rest(down[cfd], b, k) \/ (k = 1 /\ Begun(down[cfd], b))
             /\ k \notin {2, 3}
    BY <1>2 DEF DownTalk
  <1>4. k = 1
    BY <1>1, <1>3 DEF Rest
  <1>5. DownTalk(cfd)'
    <2>1. b \in Answers(pass)'
      BY DEF Answers, Requests
    <2>2. CASE Rest(down[cfd], b, k)
      <3>1. Rest(down'[cfd], b, 1 + 1)
        BY <1>0, <1>1, <1>4, <2>2, TakeRest
      <3> QED
        BY <2>1, <3>1 DEF DownTalk
    <2>3. CASE Begun(down[cfd], b)
      <3>1. Len(down'[cfd]) = 0
        BY <1>1, <2>3 DEF Begun
      <3>2. Rest(down'[cfd], b, 4)
        BY <3>1 DEF Rest
      <3> QED
        BY <2>1, <3>2 DEF DownTalk
    <2> QED
      BY <1>3, <2>2, <2>3
  <1>6. UpTalk(cfd)'
    <2>1. PICK m \in Requests(pass), j \in 1..4 :
             Rest(up[cfd], m, j) /\ (srv[cfd] \in MidMessage => j = 3)
      BY <1>2 DEF UpTalk
    <2> QED
      BY <2>1 DEF UpTalk, Requests
  <1> QED
    BY <1>0, <1>2, <1>5, <1>6 DEF TalkInv

\* The client has read a message: nothing is under way, and if it is in state
\* "resb" it was the response to its request.
LEMMA TalkRead ==
    ASSUME NetInv, TalkInv, cfd \in Conns, pass' = pass,
           cli \in {"nonceb", "resultb", "resb"}, seenDown[cfd] >= 1, TakeDown(cfd, 1)
    PROVE  /\ Len(up[cfd]) = 0 /\ Len(down'[cfd]) = 0
           /\ cli = "resb" => down[cfd][1].body = Body("res", Body("req", calls))
           /\ srv[cfd] \notin MidMessage
  <1>0. down \in [Conns -> Seq(PiecesOf(Answers(pass)))] /\ 1 \in 0..seenDown[cfd] /\ cfd # 0
    BY Constants DEF NetInv, DownInv, PlaceInv
  <1>1. Len(down'[cfd]) = Len(down[cfd]) - 1
    BY <1>0, DownTaken DEF NetInv
  <1>2. UpTalk(cfd) /\ DownTalk(cfd)
    BY <1>0, <1>1 DEF TalkInv
  <1>3. PICK b \in Answers(pass), k \in 1..4 :
             /\ Rest(down[cfd], b, k) /\ k = 3
             /\ cli = "resb" => b = Body("res", Body("req", calls))
    BY <1>2 DEF DownTalk
  <1>4. Len(down[cfd]) = 1 /\ down[cfd][1] = Piece(3 + 1 - 1, b)
    BY <1>3 DEF Rest
  <1>5. down[cfd][1].body = b
    BY <1>4 DEF Piece
  <1>6. Len(up[cfd]) = 0
    BY <1>0, <1>4 DEF TalkInv
  <1>7. srv[cfd] \notin MidMessage
    BY <1>2, <1>6 DEF UpTalk, Rest
  <1> QED
    BY <1>1, <1>3, <1>4, <1>5, <1>6, <1>7

\* A connection on which nothing is under way.
LEMMA TalkQuiet ==
    ASSUME NetInv', cfd' \in Conns, Len(up'[cfd']) = 0, Len(down'[cfd']) = 0,
           srv'[cfd'] \notin MidMessage, cli' \in {"idle", "send"}
    PROVE  TalkInv'
  <1>1. up'[cfd'] \in Seq(PiecesOf(Requests(pass))') /\ down'[cfd'] \in Seq(PiecesOf(Answers(pass))')
    BY DEF NetInv, UpInv, DownInv
  <1>2. Body("auth", None) \in Requests(pass)' /\ Body("no", None) \in Answers(pass)'
    BY DEF Requests, Answers
  <1>3. Rest(up'[cfd'], Body("auth", None), 4) /\ Rest(down'[cfd'], Body("no", None), 4)
    BY <1>1, NothingLeft
  <1>4. UpTalk(cfd)' /\ DownTalk(cfd)'
    BY <1>2, <1>3 DEF UpTalk, DownTalk
  <1> QED
    BY <1>4 DEF TalkInv

\* The client has sent a request.
LEMMA TalkAsked ==
    ASSUME NetInv', cfd' \in Conns, NEW m \in Requests(pass'), Rest(up'[cfd'], m, 1), Len(down'[cfd']) = 0,
           srv'[cfd'] \notin MidMessage, cli' \in {"nonce", "result", "res"},
           cli' = "res" => m = Body("req", calls')
    PROVE  TalkInv'
  <1>1. down'[cfd'] \in Seq(PiecesOf(Answers(pass))')
    BY DEF NetInv, DownInv
  <1>2. UpTalk(cfd)'
    BY DEF UpTalk
  <1>3. DownTalk(cfd)'
    <2>1. CASE cli' = "res"
      <3>1. Body("res", Body("req", calls')) \in Answers(pass')
        BY <2>1 DEF Answers
      <3>2. Rest(down'[cfd'], Body("res", Body("req", calls')), 4)
        BY <1>1, NothingLeft
      <3> QED
        BY <2>1, <3>1, <3>2 DEF DownTalk
    <2>2. CASE cli' # "res"
      <3>1. Body("no", None) \in Answers(pass')
        BY DEF Answers
      <3>2. Rest(down'[cfd'], Body("no", None), 4)
        BY <1>1, NothingLeft
      <3> QED
        BY <2>2, <3>1, <3>2 DEF DownTalk
    <2> QED
      BY <2>1, <2>2
  <1> QED
    BY <1>2, <1>3 DEF TalkInv

\* Every step keeps the client and the server taking turns.
LEMMA NextTalkInv ==
    NetInv /\ TalkInv /\ AnswersMatch /\ NetInv' /\ [Next]_vars => TalkInv' /\ AnswersMatch'
  <1> SUFFICES ASSUME NetInv, TalkInv, AnswersMatch, NetInv', [Next]_vars PROVE TalkInv' /\ AnswersMatch'
    OBVIOUS
  <1> USE DEF netVars, cliVars, srvVars, Idle
  <1>A. /\ srv \in [Conns -> ServerPlaces]
        /\ \A i \in Conns : seenUp[i] \in Nat /\ seenDown[i] \in Nat
    BY DEF NetInv, PlaceInv, UpInv, DownInv
  <1>B. (cli \notin {"idle", "connect", "aborted"} => cfd \in Conns) /\ (cfd \in Conns \/ cfd = 0)
    BY Constants DEF NetInv, PlaceInv
  <1>0. /\ srv \in [Conns -> ServerPlaces] /\ (cli \notin {"idle", "connect", "aborted"} => cfd \in Conns)
        /\ \A i \in Conns : seenUp[i] \in Nat /\ seenDown[i] \in Nat
        /\ cfd \in Conns \/ cfd = 0
    BY <1>A, <1>B
  <1>S. cfd \in Conns => cfd # 0
    BY Constants
  <1>F. cfd' = 0 => TalkInv'
    BY DEF TalkInv
  <1>G. got' = got => AnswersMatch'
    BY DEF AnswersMatch
  <1>1. CASE Call
    <2>1. UNCHANGED <<up, down, srv, cfd, pass, got>> /\ cli = "idle" /\ (cfd # 0 => cli' = "send")
      BY <1>1 DEF Call
    <2>2. ASSUME cfd # 0 PROVE TalkInv'
      <3>1. Len(up[cfd]) = 0 /\ Len(down[cfd]) = 0 /\ UpTalk(cfd)
        BY <2>1, <2>2 DEF TalkInv
      <3>2. srv[cfd] \notin MidMessage
        BY <3>1 DEF UpTalk, Rest
      <3> QED
        BY <1>0, <2>1, <2>2, <3>1, <3>2, TalkQuiet
    <2> QED
      BY <1>F, <1>G, <2>1, <2>2
  <1>2. ASSUME NEW ok \in BOOLEAN, Connect(ok) PROVE TalkInv' /\ AnswersMatch'
    <2>1. PICK i \in Conns : /\ srv[i] = "none" /\ srv' = [srv EXCEPT ![i] = "new"]
                             /\ \/ cfd' = 0
                                \/ cfd' = i /\ cli' = "send" /\ UNCHANGED up
                                \/ cfd' = i /\ ok /\ cli' = "nonce" /\ SendUp(i, Body("auth", None), ok)
      BY <1>2 DEF Connect
    <2>2. UNCHANGED <<down, seenUp, seenDown, pass, calls, got>>
      BY <1>2 DEF Connect
    <2>3. Len(up[i]) = 0 /\ Len(down[i]) = 0 /\ srv'[i] \notin MidMessage
      BY <1>0, <2>1 DEF NetInv, PlaceInv, MidMessage
    <2>4. CASE cfd' = i /\ cli' = "send" /\ UNCHANGED up
      BY <2>1, <2>2, <2>3, <2>4, TalkQuiet, <1>G
    <2>5. CASE cfd' = i /\ ok /\ cli' = "nonce" /\ SendUp(i, Body("auth", None), ok)
      <3>1. Body("auth", None) \in Requests(pass) /\ pass' = pass
        BY <2>2 DEF Requests
      <3>2. Rest(up'[i], Body("auth", None), 1)
        BY <2>2, <2>3, <2>5, <3>1, UpSent DEF NetInv
      <3> QED
        BY <2>1, <2>2, <2>3, <2>5, <3>1, <3>2, TalkAsked, <1>G
    <2> QED
      BY <1>F, <1>G, <2>1, <2>2, <2>4, <2>5
  <1>3. CASE ConnectFails
    <2>1. cfd' = 0 /\ got' = got
      BY <1>3 DEF ConnectFails, NetInv, PlaceInv
    <2> QED
      BY <1>F, <1>G, <2>1
  <1>4. CASE ClientHeader \/ ClientShort \/ ClientStray
    <2>1. cfd \in Conns /\ UNCHANGED <<up, srv, got>>
      BY <1>0, <1>4 DEF ClientHeader, ClientShort, ClientStray, ClientFail
    <2>2. CASE cfd' = 0
      BY <1>F, <1>G, <2>1, <2>2
    <2>3. CASE cfd' # 0 /\ ClientHeader
      <3>1. /\ UNCHANGED <<cfd, calls, pass>> /\ seenDown[cfd] >= 2 /\ TakeDown(cfd, 2) /\ down[cfd][1].part = 1
            /\ cli \in {"nonce", "result", "res"} /\ cli' \in {"nonceb", "resultb", "resb"}
            /\ cli' = "resb" <=> cli = "res"
        BY <2>3 DEF ClientHeader, ClientFail
      <3> QED
        BY <1>G, <2>1, <3>1, TalkHeader
    <2>4. CASE cfd' # 0 /\ ClientShort
      <3>1. /\ UNCHANGED <<cfd, calls, pass>> /\ seenDown[cfd] = 1 /\ TakeDown(cfd, 1)
            /\ cli \in {"nonce", "result"} /\ cli' = "astray"
        BY <2>4 DEF ClientShort, ClientFail
      <3> QED
        BY <1>G, <2>1, <3>1, TalkShort
    <2> QED
      BY <1>4, <2>2, <2>3, <2>4 DEF ClientStray, ClientFail
  <1>5. ASSUME NEW ok \in BOOLEAN, ClientNonce(ok) PROVE TalkInv' /\ AnswersMatch'
    <2>1. /\ cfd \in Conns /\ UNCHANGED <<srv, got, seenUp, pass>> /\ cli = "nonceb"
          /\ seenDown[cfd] >= 1 /\ TakeDown(cfd, 1)
      BY <1>0, <1>5 DEF ClientNonce, ClientFail
    <2>2. CASE cfd' = 0
      BY <1>F, <1>G, <2>1, <2>2
    <2>3. CASE cfd' # 0
      <3> DEFINE m == Body("md5", Md5(pass, down[cfd][1].body.arg))
      <3>1. ok /\ cfd' = cfd /\ cli' = "result" /\ SendUp(cfd, m, ok) /\ down[cfd][1].body.method = "nonce"
        BY <1>5, <2>3 DEF ClientNonce, ClientFail
      <3>2. Len(up[cfd]) = 0 /\ Len(down'[cfd]) = 0 /\ srv[cfd] \notin MidMessage
        BY <2>1, TalkRead
      <3>3. m \in Requests(pass)
        <4>1. down[cfd][1] \in PiecesOf(Answers(pass))
          BY <1>0, <2>1 DEF NetInv, DownInv
        <4>2. down[cfd][1].body \in Answers(pass)
          BY <4>1 DEF PiecesOf
        <4>3. down[cfd][1].body.arg \in Conns
          BY <3>1, <4>2 DEF Answers, Body
        <4> QED
          BY <4>3 DEF Requests
      <3> HIDE DEF m
      <3>4. Rest(up'[cfd], m, 1)
        BY <2>1, <3>1, <3>2, <3>3, UpSent DEF NetInv
      <3> QED
        BY <1>G, <2>1, <3>1, <3>2, <3>3, <3>4, TalkAsked
    <2> QED
      BY <2>2, <2>3
  <1>6. CASE ClientResult
    <2>1. /\ cfd \in Conns /\ UNCHANGED <<up, srv, got, pass>> /\ cli = "resultb"
          /\ seenDown[cfd] >= 1 /\ TakeDown(cfd, 1)
      BY <1>0, <1>6 DEF ClientResult, ClientFail
    <2>2. CASE cfd' = 0
      BY <1>F, <1>G, <2>1, <2>2
    <2>3. CASE cfd' # 0
      <3>1. cfd' = cfd /\ cli' = "send"
        BY <1>6, <2>3 DEF ClientResult, ClientFail
      <3>2. Len(up[cfd]) = 0 /\ Len(down'[cfd]) = 0 /\ srv[cfd] \notin MidMessage
        BY <2>1, TalkRead
      <3> QED
        BY <1>G, <2>1, <3>1, <3>2, TalkQuiet
    <2> QED
      BY <2>2, <2>3
  <1>7. ASSUME NEW ok \in BOOLEAN, ClientSend(ok) PROVE TalkInv' /\ AnswersMatch'
    <2>1. /\ cfd \in Conns /\ UNCHANGED <<srv, got, seenUp, pass, calls, down>> /\ cli = "send"
          /\ SendUp(cfd, Body("req", calls), ok)
      BY <1>0, <1>7 DEF ClientSend, ClientFail
    <2>2. CASE cfd' = 0
      BY <1>F, <1>G, <2>1, <2>2
    <2>3. CASE cfd' # 0
      <3>1. ok /\ cfd' = cfd /\ cli' = "res"
        BY <1>7, <2>3 DEF ClientSend, ClientFail
      <3>2. Len(up[cfd]) = 0 /\ Len(down[cfd]) = 0 /\ UpTalk(cfd)
        BY <1>S, <2>1 DEF TalkInv
      <3>3. srv[cfd] \notin MidMessage
        BY <3>2 DEF UpTalk, Rest
      <3>4. Body("req", calls) \in Requests(pass)
        BY DEF Requests, NetInv, PlaceInv
      <3>5. Rest(up'[cfd], Body("req", calls), 1)
        BY <2>1, <3>1, <3>2, <3>4, UpSent DEF NetInv
      <3> QED
        BY <1>G, <2>1, <3>1, <3>2, <3>3, <3>4, <3>5, TalkAsked
    <2> QED
      BY <2>2, <2>3
  <1>8. CASE ClientResponse
    <2>1. /\ cfd \in Conns /\ UNCHANGED <<up, srv, pass, cfd, calls>> /\ cli = "resb" /\ cli' = "idle"
          /\ seenDown[cfd] >= 1 /\ TakeDown(cfd, 1) /\ got' = got \cup {<<calls, down[cfd][1].body>>}
      BY <1>0, <1>8 DEF ClientResponse
    <2>2. /\ Len(up[cfd]) = 0 /\ Len(down'[cfd]) = 0 /\ srv[cfd] \notin MidMessage
          /\ down[cfd][1].body = Body("res", Body("req", calls))
      BY <2>1, TalkRead
    <2>3. TalkInv'
      BY <2>1, <2>2, TalkQuiet
    <2>4. AnswersMatch'
      BY <2>1, <2>2 DEF AnswersMatch
    <2> QED
      BY <2>3, <2>4
  <1>9. CASE ClientTimeout
    <2>1. cfd' = 0 /\ got' = got
      BY <1>9 DEF ClientTimeout, ClientFail
    <2> QED
      BY <1>F, <1>G, <2>1
  <1>10. ASSUME NEW i \in Conns,
                \/ DeliverUp(i) \/ DeliverDown(i) \/ ServerStart(i) \/ ServerRefuse(i)
                \/ ServerEof(i) \/ ServerRecvErr(i) \/ ServerReset(i)
         PROVE  TalkInv' /\ AnswersMatch'
    <2>1. UNCHANGED <<cli, cfd, calls, pass, got, up, down>>
      BY <1>10 DEF DeliverUp, DeliverDown, ServerStart, ServerRefuse, ServerEof, ServerRecvErr, ServerReset
    <2>2. srv' = srv \/ \E p \in {"auth1", "head", "end", "closing"} : srv' = [srv EXCEPT ![i] = p]
      BY <1>10 DEF DeliverUp, DeliverDown, ServerStart, ServerRefuse, ServerEof, ServerRecvErr, ServerReset,
                   Cleanup
    <2>3. \A j \in Conns : srv'[j] \in MidMessage => srv'[j] = srv[j]
      BY <1>0, <2>2 DEF MidMessage
    <2> QED
      BY <1>0, <1>G, <2>1, <2>3, TalkSame
  <1>11. ASSUME NEW i \in Conns, ServerAuthHeader(i) \/ ServerAuthTimeout(i) \/ ServerHeader(i) \/ ServerIdle(i)
         PROVE  TalkInv' /\ AnswersMatch'
    <2>1. UNCHANGED <<cli, cfd, calls, pass, got, down>>
      BY <1>11 DEF ServerAuthHeader, ServerAuthTimeout, ServerHeader, ServerIdle
    <2>2. CASE ServerAuthHeader(i) \/ ServerHeader(i)
      <3>1. /\ 2 \in 0..seenUp[i] /\ TakeUp(i, 2)
            /\ \E p : srv' = [srv EXCEPT ![i] = p] /\ (p \in {"closing", "failed"} \/ up[i][1].part = 1)
        BY <1>0, <2>2 DEF ServerAuthHeader, ServerHeader
      <3>2. /\ \A j \in Conns : j # i => srv'[j] = srv[j]
            /\ srv'[i] \in MidMessage => up[i][1].part = 1
        BY <1>0, <3>1 DEF MidMessage
      <3> QED
        BY <1>G, <2>1, <3>1, <3>2, TalkTaken
    <2>3. CASE ServerAuthTimeout(i) \/ ServerIdle(i)
      <3>1. seenUp[i] \in 0..seenUp[i] /\ TakeUp(i, seenUp[i])
        BY <1>0, <2>3 DEF ServerAuthTimeout, ServerIdle
      <3>2. \/ srv' = srv /\ srv[i] = "head"
            \/ \E p \in {"failed", "end"} : srv' = [srv EXCEPT ![i] = p]
        BY <2>3 DEF ServerAuthTimeout, ServerIdle, Cleanup
      <3>3. srv'[i] \notin MidMessage /\ \A j \in Conns : j # i => srv'[j] = srv[j]
        BY <1>0, <3>2 DEF MidMessage
      <3> QED
        BY <1>G, <2>1, <3>1, <3>3, TalkTaken
    <2> QED
      BY <1>11, <2>2, <2>3
  <1>12. ASSUME NEW i \in Conns, NEW ok \in BOOLEAN, ServerNonce(i, ok) \/ ServerAuth(i, ok) \/ ServerBody(i, ok)
         PROVE  TalkInv' /\ AnswersMatch'
    <2>1. UNCHANGED <<cli, cfd, calls, pass, got, seenDown>> /\ seenUp[i] >= 1 /\ TakeUp(i, 1)
      BY <1>12 DEF ServerNonce, ServerAuth, ServerBody
    <2>2. srv[i] \in MidMessage /\ \E p \in {"failed", "auth2", "head", "closing"} : srv' = [srv EXCEPT ![i] = p]
      BY <1>12 DEF ServerNonce, ServerAuth, ServerBody, MidMessage
    <2>3. srv'[i] \notin MidMessage /\ \A j \in Conns : j # i => srv'[j] = srv[j]
      BY <1>0, <2>2 DEF MidMessage
    <2>4. up[i][1].body \in Requests(pass)
      <3>1. up[i][1] \in PiecesOf(Requests(pass))
        BY <1>0, <2>1 DEF NetInv, UpInv
      <3> QED
        BY <3>1 DEF PiecesOf
    <2>5. \A m, x : Body(m, x).method = m
      BY DEF Body
    <2>6. CASE ServerNonce(i, ok)
      <3>1. Body("nonce", i) \in Answers(pass)
        BY DEF Answers
      <3>2. down' = down \/ SendDown(i, Body("nonce", i), ok)
        BY <2>6 DEF ServerNonce
      <3>3. down' # down => up[i][1].body # Body("req", calls)
        BY <2>5, <2>6 DEF ServerNonce
      <3> QED
        BY <1>G, <2>1, <2>2, <2>3, <3>1, <3>2, <3>3, TalkAnswered
    <2>7. CASE ServerAuth(i, ok)
      <3> DEFINE good == up[i][1].body = Body("md5", Md5(ServerPass, i))
      <3>1. good => pass = ServerPass
        BY <2>4, OwnPassword
      <3>2. PICK b \in Answers(pass) : down' = down \/ SendDown(i, b, ok)
        <4>1. Body("no", None) \in Answers(pass) /\ (good => Body("ok", None) \in Answers(pass))
          BY <3>1 DEF Answers
        <4> QED
          BY <2>7, <4>1 DEF ServerAuth
      <3>3. down' # down => up[i][1].body # Body("req", calls)
        BY <2>5, <2>7 DEF ServerAuth
      <3> QED
        BY <1>G, <2>1, <2>2, <2>3, <3>2, <3>3, TalkAnswered
    <2>8. CASE ServerBody(i, ok)
      <3>1. Body("res", up[i][1].body) \in Answers(pass)
        BY <2>4 DEF Answers
      <3>2. SendDown(i, Body("res", up[i][1].body), ok)
        BY <2>8 DEF ServerBody
      <3> QED
        BY <1>G, <2>1, <2>2, <2>3, <3>1, <3>2, TalkAnswered
    <2> QED
      BY <1>12, <2>6, <2>7, <2>8
  <1>13. CASE UNCHANGED vars
    BY <1>13, <1>G, TalkSame DEF vars
  <1> QED
    BY <1>1, <1>2, <1>3, <1>4, <1>5, <1>6, <1>7, <1>8, <1>9, <1>10, <1>11, <1>12, <1>13
    DEF Next, ClientStep, ServerStep

\* A call that returns a response returns the one to its own request, however
\* many calls, connections, time limits and failures there were before.
THEOREM AnswersAlwaysMatch == Spec => []AnswersMatch
  BY InitTalkInv, NextTalkInv, NetInvariant, PTL DEF Spec

-----------------------------------------------------------------------------
(* Buffers. *)

\* The last element of a stack and the others.
LEMMA StackElements ==
    ASSUME NEW S, NEW q \in Seq(S)
    PROVE  /\ q # <<>> => /\ Len(q) \in Nat /\ Len(q) >= 1 /\ Last(q) = q[Len(q)] /\ Last(q) \in S
                          /\ Front(q) \in Seq(S) /\ Len(Front(q)) = Len(q) - 1
                          /\ \A k \in 1..Len(Front(q)) : Front(q)[k] = q[k]
           /\ \A e \in S : /\ Append(q, e) \in Seq(S) /\ Len(Append(q, e)) = Len(q) + 1
                           /\ \A k \in 1..Len(q) : Append(q, e)[k] = q[k]
                           /\ Append(q, e)[Len(q) + 1] = e
  <1>1. ASSUME q # <<>>
        PROVE  /\ Len(q) \in Nat /\ Len(q) >= 1 /\ Last(q) = q[Len(q)] /\ Last(q) \in S
               /\ Front(q) \in Seq(S) /\ Len(Front(q)) = Len(q) - 1
               /\ \A k \in 1..Len(Front(q)) : Front(q)[k] = q[k]
    <2>1. Len(q) \in Nat /\ Len(q) >= 1
      BY <1>1
    <2>2. Last(q) = q[Len(q)] /\ Last(q) \in S
      BY <2>1 DEF Last
    <2>3. Front(q) = SubSeq(q, 1, Len(q) - 1)
      BY DEF Front
    <2>4. \A n \in 0..Len(q) : /\ SubSeq(q, 1, n) \in Seq(S) /\ Len(SubSeq(q, 1, n)) = n
                               /\ \A k \in 1..n : SubSeq(q, 1, n)[k] = q[k]
      BY <2>1
    <2>5. Len(q) - 1 \in 0..Len(q)
      BY <2>1
    <2>6. /\ Front(q) \in Seq(S) /\ Len(Front(q)) = Len(q) - 1
          /\ \A k \in 1..(Len(q) - 1) : Front(q)[k] = q[k]
      BY <2>3, <2>4, <2>5, Zenon
    <2> QED
      BY <2>1, <2>2, <2>6
  <1>2. ASSUME NEW e \in S
        PROVE  /\ Append(q, e) \in Seq(S) /\ Len(Append(q, e)) = Len(q) + 1
               /\ \A k \in 1..Len(q) : Append(q, e)[k] = q[k]
               /\ Append(q, e)[Len(q) + 1] = e
    OBVIOUS
  <1> QED
    BY <1>1, <1>2

\* pop() for a connection that has no buffer.
LEMMA PopOwns ==
    ASSUME OwnInv, NEW i \in Conns, buf[i] = NoBuf, NEW e \in Elems, PopElem(Srv, e),
           buf' = [buf EXCEPT ![i] = e], Served(i)', \A j \in Conns : j # i /\ Served(j) => Served(j)'
    PROVE  OwnInv'
  <1>0. Srv \in PoolScheds /\ NoBuf \notin Elems /\ pools \in [PoolScheds -> Seq(Elems)]
    BY Constants DEF OwnInv
  <1>1. buf' \in [Conns -> Elems \cup {NoBuf}] /\ buf'[i] = e /\ \A j \in Conns : j # i => buf'[j] = buf[j]
    BY DEF OwnInv
  <1>2. CASE pools[Srv] # <<>>
    <2>1. e = Last(pools[Srv]) /\ pools' = [pools EXCEPT ![Srv] = Front(pools[Srv])] /\ alive' = alive
      BY <1>2 DEF PopElem
    <2>2. /\ Len(pools[Srv]) \in Nat /\ Len(pools[Srv]) >= 1 /\ e = pools[Srv][Len(pools[Srv])]
          /\ Front(pools[Srv]) \in Seq(Elems) /\ Len(Front(pools[Srv])) = Len(pools[Srv]) - 1
          /\ \A k \in 1..Len(Front(pools[Srv])) : Front(pools[Srv])[k] = pools[Srv][k]
      BY <1>0, <1>2, <2>1, StackElements
    <2>3. pools' \in [PoolScheds -> Seq(Elems)]
      BY <1>0, <2>1, <2>2
    <2>4. \A s \in PoolScheds : \A k \in 1..Len(pools'[s]) :
             k \in 1..Len(pools[s]) /\ pools'[s][k] = pools[s][k] /\ pools[s][k] # e
      <3> SUFFICES ASSUME NEW s \in PoolScheds, NEW k \in 1..Len(pools'[s])
                   PROVE  k \in 1..Len(pools[s]) /\ pools'[s][k] = pools[s][k] /\ pools[s][k] # e
        OBVIOUS
      <3>1. CASE s = Srv
        <4>1. pools'[s] = Front(pools[s])
          BY <1>0, <2>1, <3>1
        <4>2. k \in 1..Len(pools[s]) /\ k # Len(pools[s]) /\ pools'[s][k] = pools[s][k]
          BY <2>2, <3>1, <4>1
        <4>3. Len(pools[s]) \in 1..Len(pools[s])
          BY <2>2, <3>1
        <4> QED
          BY <2>2, <3>1, <4>2, <4>3 DEF OwnInv
      <3>2. CASE s # Srv
        <4>1. pools'[s] = pools[s]
          BY <1>0, <2>1, <3>2
        <4>2. Len(pools[Srv]) \in 1..Len(pools[Srv])
          BY <2>2
        <4> QED
          BY <1>0, <2>2, <3>2, <4>1, <4>2 DEF OwnInv
      <3> QED
        BY <3>1, <3>2
    <2>5. e \in alive /\ \A j \in Conns : buf[j] # e
      <3>1. Len(pools[Srv]) \in 1..Len(pools[Srv])
        BY <2>2
      <3> QED
        BY <1>0, <2>2, <3>1 DEF OwnInv
    <2>6. \A s, t \in PoolScheds : \A k \in 1..Len(pools'[s]), m \in 1..Len(pools'[t]) :
             pools'[s][k] = pools'[t][m] => s = t /\ k = m
      BY <2>4 DEF OwnInv
    <2>7. \A s \in PoolScheds : \A k \in 1..Len(pools'[s]) :
             pools'[s][k] \in alive' /\ \A j \in Conns : buf'[j] # pools'[s][k]
      BY <1>1, <2>1, <2>4 DEF OwnInv
    <2>8. \A j \in Conns : buf'[j] # NoBuf => buf'[j] \in alive' /\ Served(j)'
      BY <1>1, <2>1, <2>5 DEF OwnInv
    <2>9. \A j, k \in Conns : buf'[j] = buf'[k] /\ buf'[j] # NoBuf => j = k
      BY <1>1, <2>5 DEF OwnInv
    <2> QED
      BY <1>1, <2>3, <2>6, <2>7, <2>8, <2>9 DEF OwnInv
  <1>3. CASE pools[Srv] = <<>>
    <2>1. e \notin alive /\ alive' = alive \cup {e} /\ pools' = pools
      BY <1>3 DEF PopElem
    <2>2. \A j \in Conns : buf[j] # e
      BY <1>0, <2>1 DEF OwnInv
    <2>3. \A s \in PoolScheds : \A k \in 1..Len(pools[s]) : pools[s][k] # e
      BY <2>1 DEF OwnInv
    <2>4. \A s \in PoolScheds : \A k \in 1..Len(pools'[s]) :
             pools'[s][k] \in alive' /\ \A j \in Conns : buf'[j] # pools'[s][k]
      BY <1>1, <2>1, <2>3 DEF OwnInv
    <2>5. \A j \in Conns : buf'[j] # NoBuf => buf'[j] \in alive' /\ Served(j)'
      BY <1>1, <2>1 DEF OwnInv
    <2>6. \A j, k \in Conns : buf'[j] = buf'[k] /\ buf'[j] # NoBuf => j = k
      BY <1>1, <2>2 DEF OwnInv
    <2> QED
      BY <1>1, <2>1, <2>4, <2>5, <2>6 DEF OwnInv
  <1> QED
    BY <1>2, <1>3

\* push() of the buffer of a connection, which forgets it.
LEMMA PushOwns ==
    ASSUME OwnInv, NEW i \in Conns, buf[i] # NoBuf, PushElem(Srv, buf[i]),
           buf' = [buf EXCEPT ![i] = NoBuf], \A j \in Conns : j # i /\ Served(j) => Served(j)'
    PROVE  OwnInv'
  <1>0. /\ Srv \in PoolScheds /\ NoBuf \notin Elems /\ pools \in [PoolScheds -> Seq(Elems)]
        /\ buf[i] \in Elems /\ buf[i] \in alive
    BY Constants DEF OwnInv
  <1>1. buf' \in [Conns -> Elems \cup {NoBuf}] /\ buf'[i] = NoBuf /\ \A j \in Conns : j # i => buf'[j] = buf[j]
    BY DEF OwnInv
  <1>2. \A j \in Conns : buf'[j] # NoBuf => j # i /\ buf[j] # buf[i] /\ buf[j] \in alive /\ Served(j)'
    BY <1>1 DEF OwnInv
  <1>3. \A j, k \in Conns : buf'[j] = buf'[k] /\ buf'[j] # NoBuf => j = k
    BY <1>1 DEF OwnInv
  <1>4. CASE Len(pools[Srv]) < MaxCap
    <2> DEFINE n == Len(pools[Srv]) + 1
    <2>1. pools' = [pools EXCEPT ![Srv] = Append(pools[Srv], buf[i])] /\ alive' = alive
      BY <1>4 DEF PushElem
    <2>2. /\ Append(pools[Srv], buf[i]) \in Seq(Elems) /\ Len(Append(pools[Srv], buf[i])) = n
          /\ \A k \in 1..Len(pools[Srv]) : Append(pools[Srv], buf[i])[k] = pools[Srv][k]
          /\ Append(pools[Srv], buf[i])[n] = buf[i] /\ Len(pools[Srv]) \in Nat
      BY <1>0, StackElements
    <2>3. pools' \in [PoolScheds -> Seq(Elems)]
      BY <1>0, <2>1, <2>2
    <2> HIDE DEF n
    <2>4. \A s \in PoolScheds : \A k \in 1..Len(pools'[s]) :
             \/ s = Srv /\ k = n /\ pools'[s][k] = buf[i]
             \/ k \in 1..Len(pools[s]) /\ pools'[s][k] = pools[s][k]
      BY <1>0, <2>1, <2>2 DEF n
    <2>5. \A s \in PoolScheds : \A k \in 1..Len(pools[s]) :
             pools[s][k] # buf[i] /\ pools[s][k] \in alive /\ \A j \in Conns : buf[j] # pools[s][k]
      BY DEF OwnInv
    <2>6. \A s, t \in PoolScheds : \A k \in 1..Len(pools'[s]), m \in 1..Len(pools'[t]) :
             pools'[s][k] = pools'[t][m] => s = t /\ k = m
      <3> SUFFICES ASSUME NEW s \in PoolScheds, NEW t \in PoolScheds,
                          NEW k \in 1..Len(pools'[s]), NEW m \in 1..Len(pools'[t]), pools'[s][k] = pools'[t][m]
                   PROVE  s = t /\ k = m
        OBVIOUS
      <3>1. CASE k \in 1..Len(pools[s]) /\ pools'[s][k] = pools[s][k]
        <4>0. pools[s][k] # buf[i] /\ pools'[t][m] = pools[s][k]
          BY <2>5, <3>1
        <4>1. m \in 1..Len(pools[t]) /\ pools'[t][m] = pools[t][m]
          BY <2>4, <4>0, Zenon
        <4>2. k \in 1..Len(pools[s]) /\ m \in 1..Len(pools[t]) /\ pools[s][k] = pools[t][m]
          BY <3>1, <4>1
        <4>3. \A u, v \in PoolScheds : \A x \in 1..Len(pools[u]), y \in 1..Len(pools[v]) :
                 pools[u][x] = pools[v][y] => u = v /\ x = y
          BY DEF OwnInv
        <4> QED
          BY <4>2, <4>3
      <3>2. CASE s = Srv /\ k = n /\ pools'[s][k] = buf[i]
        BY <2>4, <2>5, <3>2
      <3> QED
        BY <2>4, <3>1, <3>2
    <2>7. \A s \in PoolScheds : \A k \in 1..Len(pools'[s]) : pools'[s][k] \in Elems
      BY <2>3
    <2>8. \A s \in PoolScheds : \A k \in 1..Len(pools'[s]) :
             pools'[s][k] \in alive' /\ \A j \in Conns : buf'[j] # pools'[s][k]
      BY <1>0, <1>1, <1>2, <2>1, <2>4, <2>5, <2>7
    <2> QED
      BY <1>1, <1>2, <1>3, <2>1, <2>3, <2>6, <2>8 DEF OwnInv
  <1>5. CASE ~(Len(pools[Srv]) < MaxCap)
    <2>1. alive' = alive \ {buf[i]} /\ pools' = pools
      BY <1>5 DEF PushElem
    <2>2. \A s \in PoolScheds : \A k \in 1..Len(pools[s]) : pools[s][k] \in Elems
      BY <1>0
    <2>3. \A s \in PoolScheds : \A k \in 1..Len(pools'[s]) :
             pools'[s][k] \in alive' /\ \A j \in Conns : buf'[j] # pools'[s][k]
      BY <1>0, <1>1, <1>2, <2>1, <2>2 DEF OwnInv
    <2> QED
      BY <1>1, <1>2, <1>3, <2>1, <2>3 DEF OwnInv
  <1> QED
    BY <1>4, <1>5

\* A step that uses no buffer, of connections that stay served.
LEMMA SameOwns ==
    ASSUME OwnInv, UNCHANGED <<buf, pools, alive>>,
           \A j \in Conns : buf[j] # NoBuf /\ Served(j) => Served(j)'
    PROVE  OwnInv'
  BY DEF OwnInv

\* The end of a connection.
LEMMA CleanupOwns ==
    ASSUME OwnInv, NEW i \in Conns, srv \in [Conns -> ServerPlaces], Cleanup(i)
    PROVE  OwnInv'
  <1>1. \A j \in Conns : j # i /\ Served(j) => Served(j)'
    BY DEF Cleanup, Served
  <1>2. CASE buf[i] = NoBuf
    BY <1>1, <1>2, SameOwns DEF Cleanup, poolVars
  <1>3. CASE buf[i] # NoBuf
    BY <1>1, <1>3, PushOwns DEF Cleanup
  <1> QED
    BY <1>2, <1>3

\* Every step keeps the buffers apart.
LEMMA NextOwnInv == NetInv /\ OwnInv /\ [Next]_vars => OwnInv'
  <1> SUFFICES ASSUME NetInv, OwnInv, [Next]_vars PROVE OwnInv'
    OBVIOUS
  <1> USE DEF netVars, cliVars, srvVars, poolVars, Idle
  <1>0. srv \in [Conns -> ServerPlaces] /\ \A i \in Conns : buf[i] # NoBuf => Served(i)
    BY DEF NetInv, PlaceInv, OwnInv
  <1>1. CASE \/ Call \/ ConnectFails \/ ClientHeader \/ ClientShort \/ ClientStray \/ ClientResult \/ ClientResponse \/ ClientTimeout
             \/ \E ok \in BOOLEAN : ClientNonce(ok) \/ ClientSend(ok)
             \/ \E i \in Conns : DeliverUp(i) \/ DeliverDown(i)
             \/ UNCHANGED vars
    <2>1. UNCHANGED <<srv, buf, pools, alive>>
      BY <1>1 DEF Call, ConnectFails, ClientHeader, ClientShort, ClientStray, ClientResult,
                  ClientResponse, ClientTimeout,
                  ClientNonce, ClientSend, DeliverUp, DeliverDown, vars
    <2> QED
      BY <2>1, SameOwns DEF Served
  <1>2. ASSUME NEW ok \in BOOLEAN, Connect(ok) PROVE OwnInv'
    <2>1. PICK i \in Conns : srv[i] = "none" /\ srv' = [srv EXCEPT ![i] = "new"]
      BY <1>2 DEF Connect
    <2>2. UNCHANGED <<buf, pools, alive>>
      BY <1>2 DEF Connect
    <2>3. \A j \in Conns : Served(j) => Served(j)'
      BY <1>0, <2>1 DEF Served
    <2> QED
      BY <2>2, <2>3, SameOwns
  <1>3. ASSUME NEW i \in Conns,
               \/ ServerStart(i) \/ ServerAuthHeader(i) \/ ServerAuthTimeout(i) \/ ServerRefuse(i)
               \/ ServerRecvErr(i)
               \/ \E ok \in BOOLEAN : ServerNonce(i, ok) \/ ServerAuth(i, ok) \/ ServerBody(i, ok)
        PROVE  OwnInv'
    <2>1. UNCHANGED <<buf, pools, alive>>
      BY <1>3 DEF ServerStart, ServerAuthHeader, ServerAuthTimeout, ServerRefuse, ServerRecvErr, ServerNonce,
                  ServerAuth, ServerBody
    <2>2. \/ srv[i] \in {"new", "auth1", "auth1b", "auth2", "auth2b", "failed"} /\ \E p : srv' = [srv EXCEPT ![i] = p]
          \/ \E p \in {"head", "closing"} : srv' = [srv EXCEPT ![i] = p]
      BY <1>3 DEF ServerStart, ServerAuthHeader, ServerAuthTimeout, ServerRefuse, ServerRecvErr, ServerNonce,
                  ServerAuth, ServerBody
    <2>3. \A j \in Conns : Served(j) => Served(j)'
      BY <1>0, <2>2 DEF Served
    <2> QED
      BY <2>1, <2>3, SameOwns
  <1>4. ASSUME NEW i \in Conns, ServerHeader(i) PROVE OwnInv'
    <2>1. srv[i] = "head" /\ (srv' = [srv EXCEPT ![i] = "closing"] \/ srv' = [srv EXCEPT ![i] = "body"])
      BY <1>4 DEF ServerHeader
    <2>2. Served(i)' /\ \A j \in Conns : Served(j) => Served(j)'
      BY <1>0, <2>1 DEF Served
    <2>3. CASE UNCHANGED <<buf, pools, alive>>
      BY <2>2, <2>3, SameOwns
    <2>4. ASSUME NEW e \in Elems, buf[i] = NoBuf, PopElem(Srv, e), buf' = [buf EXCEPT ![i] = e] PROVE OwnInv'
      BY <2>2, <2>4, PopOwns
    <2> QED
      BY <1>4, <2>3, <2>4 DEF ServerHeader
  <1>5. ASSUME NEW i \in Conns, ServerIdle(i) PROVE OwnInv'
    <2>1. CASE Cleanup(i)
      BY <1>0, <2>1, CleanupOwns
    <2>2. CASE srv' = srv /\ UNCHANGED <<buf, pools, alive>>
      BY <2>2, SameOwns DEF Served
    <2>3. CASE /\ srv' = srv /\ buf[i] # NoBuf /\ PushElem(Srv, buf[i])
               /\ buf' = [buf EXCEPT ![i] = NoBuf]
      <3>1. \A j \in Conns : Served(j) => Served(j)'
        BY <2>3 DEF Served
      <3> QED
        BY <2>3, <3>1, PushOwns
    <2> QED
      BY <1>5, <2>1, <2>2, <2>3 DEF ServerIdle
  <1>6. ASSUME NEW i \in Conns, ServerEof(i) \/ ServerReset(i) PROVE OwnInv'
    BY <1>0, <1>6, CleanupOwns DEF ServerEof, ServerReset
  <1> QED
    BY <1>1, <1>2, <1>3, <1>4, <1>5, <1>6 DEF Next, ClientStep, ServerStep

\* The number of connections that are served when one of them comes or goes.
LEMMA ServedCount ==
    ASSUME NEW i \in Conns
    PROVE  /\ IsFiniteSet(ServedConns) /\ Cardinality(ServedConns) \in Nat
           /\ i \notin ServedConns => Cardinality(ServedConns \cup {i}) = Cardinality(ServedConns) + 1
           /\ i \in ServedConns => Cardinality(ServedConns \ {i}) = Cardinality(ServedConns) - 1
  <1>1. IsFiniteSet(Conns)
    BY Constants, FS_Interval
  <1>2. IsFiniteSet(ServedConns)
    BY <1>1, FS_Subset DEF ServedConns
  <1> QED
    BY <1>2, FS_CardinalityType, FS_AddElement, FS_RemoveElement

\* A place on the server's side changes and the count with it, or not.
LEMMA CountMoves ==
    ASSUME CountInv, NEW i \in Conns, srv \in [Conns -> ServerPlaces], NEW p, srv' = [srv EXCEPT ![i] = p],
           LET now == p \in {"head", "body", "closing"} IN
           \/ (Served(i) <=> now) /\ connNum' = connNum
           \/ ~Served(i) /\ now /\ Counted
           \/ Served(i) /\ ~now /\ connNum' = connNum - 1
    PROVE  CountInv'
  <1> DEFINE now == p \in {"head", "body", "closing"}
  <1>1. Served(i)' <=> now
    BY DEF Served
  <1>2. \A j \in Conns : j # i => (Served(j)' <=> Served(j))
    BY DEF Served
  <1> HIDE DEF now
  <1>3. CASE (Served(i) <=> now) /\ connNum' = connNum
    <2>1. ServedConns' = ServedConns
      BY <1>1, <1>2, <1>3 DEF ServedConns
    <2> QED
      BY <1>3, <2>1 DEF CountInv
  <1>4. CASE ~Served(i) /\ now /\ Counted
    <2>1. ServedConns' = ServedConns \cup {i} /\ i \notin ServedConns
      BY <1>1, <1>2, <1>4 DEF ServedConns
    <2>2. Cardinality(ServedConns') = Cardinality(ServedConns) + 1
      BY <2>1, ServedCount
    <2> QED
      BY <1>4, <2>2 DEF CountInv, Counted
  <1>5. CASE Served(i) /\ ~now /\ connNum' = connNum - 1
    <2>1. ServedConns' = ServedConns \ {i} /\ i \in ServedConns
      BY <1>1, <1>2, <1>5 DEF ServedConns
    <2>2. Cardinality(ServedConns') = Cardinality(ServedConns) - 1
      BY <2>1, ServedCount
    <2> QED
      BY <1>5, <2>2 DEF CountInv
  <1> QED
    BY <1>3, <1>4, <1>5 DEF now

\* Every step counts right.
LEMMA NextCountInv == NetInv /\ CountInv /\ [Next]_vars => CountInv'
  <1> SUFFICES ASSUME NetInv, CountInv, [Next]_vars PROVE CountInv'
    OBVIOUS
  <1> USE DEF netVars, cliVars, srvVars, poolVars, Idle
  <1>0. srv \in [Conns -> ServerPlaces]
    BY DEF NetInv, PlaceInv
  <1>1. CASE UNCHANGED <<srv, connNum>>
    <2>1. ServedConns' = ServedConns
      BY <1>1 DEF ServedConns, Served
    <2> QED
      BY <1>1, <2>1 DEF CountInv
  <1>2. CASE \/ Call \/ ConnectFails \/ ClientHeader \/ ClientShort \/ ClientStray \/ ClientResult \/ ClientResponse \/ ClientTimeout
             \/ \E ok \in BOOLEAN : ClientNonce(ok) \/ ClientSend(ok)
             \/ \E i \in Conns : DeliverUp(i) \/ DeliverDown(i)
             \/ UNCHANGED vars
    BY <1>1, <1>2 DEF Call, ConnectFails, ClientHeader, ClientShort, ClientStray, ClientResult,
                  ClientResponse, ClientTimeout,
                  ClientNonce, ClientSend, DeliverUp, DeliverDown, vars
  <1>3. ASSUME NEW ok \in BOOLEAN, Connect(ok) PROVE CountInv'
    <2>1. PICK i \in Conns : srv[i] = "none" /\ srv' = [srv EXCEPT ![i] = "new"]
      BY <1>3 DEF Connect
    <2>2. connNum' = connNum /\ ~Served(i)
      BY <1>3, <2>1 DEF Connect, Served
    <2> QED
      BY <1>0, <2>1, <2>2, CountMoves
  <1>4. ASSUME NEW i \in Conns, ServerStart(i) \/ \E ok \in BOOLEAN : ServerAuth(i, ok) PROVE CountInv'
    <2>1. ~Served(i)
      BY <1>4 DEF ServerStart, ServerAuth, Served
    <2>2. \/ srv' = [srv EXCEPT ![i] = "head"] /\ Counted
          \/ \E p \in {"auth1", "failed"} : srv' = [srv EXCEPT ![i] = p] /\ connNum' = connNum
      BY <1>4 DEF ServerStart, ServerAuth
    <2> QED
      BY <1>0, <2>1, <2>2, CountMoves
  <1>5. ASSUME NEW i \in Conns,
               \/ ServerAuthHeader(i) \/ ServerAuthTimeout(i) \/ ServerRefuse(i)
               \/ \E ok \in BOOLEAN : ServerNonce(i, ok)
        PROVE  CountInv'
    <2>1. ~Served(i) /\ connNum' = connNum
      BY <1>5 DEF ServerAuthHeader, ServerAuthTimeout, ServerRefuse, ServerNonce, Served
    <2>2. \E p \in {"auth1b", "auth2b", "auth2", "failed", "end"} : srv' = [srv EXCEPT ![i] = p]
      BY <1>5 DEF ServerAuthHeader, ServerAuthTimeout, ServerRefuse, ServerNonce
    <2> QED
      BY <1>0, <2>1, <2>2, CountMoves
  <1>6. ASSUME NEW i \in Conns,
               ServerHeader(i) \/ ServerRecvErr(i) \/ \E ok \in BOOLEAN : ServerBody(i, ok)
        PROVE  CountInv'
    <2>1. Served(i) /\ connNum' = connNum
      BY <1>6 DEF ServerHeader, ServerRecvErr, ServerBody, Served
    <2>2. \E p \in {"closing", "head", "body"} : srv' = [srv EXCEPT ![i] = p]
      BY <1>6 DEF ServerHeader, ServerRecvErr, ServerBody
    <2> QED
      BY <1>0, <2>1, <2>2, CountMoves
  <1>7. ASSUME NEW i \in Conns, ServerIdle(i) \/ ServerEof(i) \/ ServerReset(i) PROVE CountInv'
    <2>1. Served(i) /\ (UNCHANGED <<srv, connNum>> \/ Cleanup(i))
      BY <1>7 DEF ServerIdle, ServerEof, ServerReset, Served
    <2>2. Cleanup(i) => srv' = [srv EXCEPT ![i] = "end"] /\ connNum' = connNum - 1
      BY DEF Cleanup
    <2> QED
      BY <1>0, <1>1, <2>1, <2>2, CountMoves
  <1> QED
    BY <1>2, <1>3, <1>4, <1>5, <1>6, <1>7 DEF Next, ClientStep, ServerStep

\* No connection, no buffer.
LEMMA InitPool == Init => OwnInv /\ CountInv
  <1> SUFFICES ASSUME Init PROVE OwnInv /\ CountInv
    OBVIOUS
  <1>1. OwnInv
    BY Constants DEF Init, PoolInit, OwnInv
  <1>2. ServedConns = {} /\ connNum = 0
    BY DEF Init, ServedConns, Served
  <1> QED
    BY <1>1, <1>2, FS_EmptySet DEF CountInv

\* A buffer is in the pool or in the hands of one connection, and if logs of
\* level info are written the connections that are counted are those served.
THEOREM OneOwner == Spec => []BuffersOwnedOnce
  <1>1. OwnInv /\ CountInv => BuffersOwnedOnce
    <2> SUFFICES ASSUME OwnInv, CountInv PROVE BuffersOwnedOnce
      OBVIOUS
    <2>1. Srv \in PoolScheds /\ \A s \in PoolScheds : DOMAIN pools[s] = 1..Len(pools[s])
      BY Constants DEF OwnInv
    <2>2. PoolOwnsOnce
      BY <2>1 DEF OwnInv, PoolOwnsOnce, Range
    <2>3. \A i \in Conns : buf[i] # NoBuf =>
             /\ Served(i) /\ buf[i] \in alive \ Range(pools[Srv])
             /\ \A j \in Conns : buf[i] = buf[j] => i = j
      BY <2>1 DEF OwnInv, Range
    <2> QED
      BY <2>2, <2>3 DEF BuffersOwnedOnce, CountInv, ServedConns
  <1> QED
    BY <1>1, InitPool, NextOwnInv, NextCountInv, NetInvariant, PTL DEF Spec
=============================================================================
