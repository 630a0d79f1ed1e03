----------------------------- MODULE Http_proof -----------------------------
(***************************************************************************)
(* Proofs about Http, for any number of connections, requests, calls and   *)
(* buffers, any length of a header and any limits of the pool, of headers  *)
(* and of idle connections: requests are answered in order, the client     *)
(* gets the answer to its own request, and no buffer has two owners.       *)
(***************************************************************************)
EXTENDS Http, FiniteSetTheorems, SequenceTheorems, TLAPS

ServerPlaces == {"none", "new", "recv", "process", "failed", "end"}
ClientPlaces == {"idle", "connect", "send", "head", "body"}
AnswerType == [n: Nat, status: Nat, http10: BOOLEAN, body: Nat, msg: RequestType]
ResultType == [call: Nat, status: Nat, n: Nat, fd: 0..MaxConn]

\* The streams.
UpInv ==
    /\ up \in [Conns -> Seq(PieceType)] /\ seenUp \in [Conns -> Nat]
    /\ \A i \in Conns : seenUp[i] <= Len(up[i])
    /\ sent \in [Conns -> Seq(RequestType)]
DownInv ==
    /\ down \in [Conns -> Seq(PieceType)] /\ seenDown \in [Conns -> Nat]
    /\ \A i \in Conns : seenDown[i] <= Len(down[i])
    /\ answers \in [Conns -> Seq(AnswerType)]

\* Where the server and the client are.
PlaceInv ==
    /\ scene \in SceneType
    /\ srv \in [Conns -> ServerPlaces] /\ res10 \in [Conns -> BOOLEAN]
    /\ held \in [Conns -> Seq(PieceType)] /\ req \in [Conns -> Seq(PieceType)]
    /\ cli \in ClientPlaces /\ cfd \in 0..MaxConn /\ cbuf \in Seq(PieceType) /\ calls \in Nat
    /\ cli = "connect" => cfd = 0
    /\ cli \notin {"idle", "connect"} => cfd # 0
    /\ cli \notin {"head", "body"} => Len(cbuf) = 0
    /\ cfd # 0 => srv[cfd] # "none" /\ cfd \notin closedC /\ cfd \notin scene.foreign
    /\ \A i \in Conns : srv[i] = "none" =>
          /\ i \notin closedC /\ i \notin scene.foreign
          /\ Len(sent[i]) = 0 /\ Len(answers[i]) = 0 /\ Len(down[i]) = 0
          /\ \A g \in got : g.fd # i

\* q is a part of the stream of the requests s: the pieces of a message come
\* one after the other, and then the next message begins.
Follows(q, s, j) ==
    LET n == q[j].n
        k == q[j].k
        rest == Pieces(s[n]) - k
    IN /\ n \in 1..Len(s) /\ k \in 1..Pieces(s[n]) /\ q[j] = Piece(k, n, s[n])
       /\ \A d \in 0..rest : j + d <= Len(q) => q[j + d] = Piece(k + d, n, s[n])
       /\ j + rest < Len(q) => n < Len(s) /\ q[j + rest + 1] = Piece(1, n + 1, s[n + 1])
Flow(q, s) == \A j \in 1..Len(q) : Follows(q, s, j)

\* It begins with message a + 1, and it ends with the last message of s.
Begins(q, s, a) == Len(q) > 0 => a < Len(s) /\ q[1] = Piece(1, a + 1, s[a + 1])
Ends(q, s, a) ==
    IF Len(q) = 0 THEN a = Len(s)
    ELSE q[Len(q)].n = Len(s) /\ q[Len(q)].k = Pieces(s[Len(s)])

\* As long as the server goes on with a connection, what it has not answered is
\* in the request at hand, the buffer and the stream, from the first piece of
\* the next request on; and all that it has answered let it go on.
Stream(i) == req[i] \o (held[i] \o up[i])
Active(i) == srv[i] \in {"none", "new", "recv", "process"}
StreamOf(i) ==
    /\ Flow(Stream(i), sent[i]) /\ Begins(Stream(i), sent[i], Len(answers[i]))
    /\ i \notin closedC => Ends(Stream(i), sent[i], Len(answers[i]))
    /\ IF srv[i] = "process"
       THEN /\ Len(req[i]) > 0 /\ Len(req[i]) = Pieces(req[i][1].msg)
            /\ req[i][1].msg.err = 0
       ELSE Len(req[i]) = 0
    /\ \A k \in 1..Len(answers[i]) : sent[i][k].err = 0 /\ ~NeedClose(sent[i][k])
StreamInv == \A i \in Conns : Active(i) => StreamOf(i)

\* The answers so far.
AnswerOf(i, k) ==
    LET a == answers[i][k]
        r == sent[i][k]
    IN /\ a.n = k /\ a.status = (IF r.err = 0 THEN 200 ELSE r.err)
       /\ r.err = 0 => a.body = (IF r.len = 0 THEN 0 ELSE k)
       /\ k < Len(answers[i]) => r.err = 0 /\ ~NeedClose(r)
AnswersOf(i) ==
    /\ Len(answers[i]) <= Len(sent[i])
    /\ \A k \in 1..Len(answers[i]) : AnswerOf(i, k)
AnswerInv == \A i \in Conns : AnswersOf(i)

\* The connection of the client is used in turns: nothing is left of an answer
\* when it sends the next request, and what it has got or will get of an answer
\* is the one to its last request, or the first piece of it.
Waits == cli \in {"head", "body"}
Reply(r) == [r EXCEPT !.lines = r.resLines]
AnswerTo(q, n, r) ==
    /\ Len(q) \in {1, Pieces(r)}
    /\ \A j \in 1..Len(q) : q[j] = Piece(j, n, r)
Talk(i) ==
    LET n == Len(sent[i])
        q == cbuf \o down[i]
    IN /\ \A k \in 1..n : sent[i][k].err = 0
       /\ IF Waits
          THEN /\ n > 0
               /\ \/ Len(answers[i]) = n - 1 /\ Len(q) = 0
                  \/ Len(answers[i]) = n /\ AnswerTo(q, n, Reply(sent[i][n]))
          ELSE Len(answers[i]) = n /\ Len(q) = 0
       /\ cli = "head" => Len(cbuf) <= sent[i][n].resLines
       /\ cli = "body" => Len(cbuf) = sent[i][n].resLines + 1 /\ sent[i][n].len = 1
TalkInv == \A i \in Conns : cfd = i => Talk(i)

\* The results of the calls.  A request was sent on a connection for each call
\* that is over and for the one under way.
OnConn(i) == {g \in got : g.fd = i}
GotInv ==
    /\ IsFiniteSet(got) /\ got \subseteq ResultType
    /\ \A g \in got : g.call <= calls /\ (cli # "idle" => g.call < calls)
    /\ \A i \in Conns : cfd = i => Len(sent[i]) = Cardinality(OnConn(i)) + (IF Waits THEN 1 ELSE 0)

\* A result that is a response is the one to the call's own request.
Earlier(g) == {h \in got : h.fd = g.fd /\ h.call <= g.call}
OkInv ==
    \A g \in got : g.status = 200 =>
       /\ g.fd \in Conns /\ g.n = Cardinality(Earlier(g))
       /\ \E k \in 1..Len(answers[g.fd]) : answers[g.fd][k].n = g.n

\* The pool: nothing is in it twice or in it and in use, what is in it exists,
\* and only a connection that is served has a buffer, of its own.
OwnInv ==
    /\ pools \in [PoolScheds -> Seq(Elems)] /\ buf \in [Conns -> Elems \cup {NoBuf}]
    /\ \A s, t \in PoolScheds : \A k \in 1..Len(pools[s]), m \in 1..Len(pools[t]) :
          pools[s][k] = pools[t][m] => s = t /\ k = m
    /\ \A s \in PoolScheds : \A k \in 1..Len(pools[s]) :
          pools[s][k] \in alive /\ \A i \in Conns : buf[i] # pools[s][k]
    /\ \A i \in Conns : buf[i] # NoBuf => buf[i] \in alive /\ Served(i)
    /\ \A i, j \in Conns : buf[i] = buf[j] /\ buf[i] # NoBuf => i = j

\* There are bytes in a buffer, and nowhere else.
HeldInv == \A i \in Conns : buf[i] = NoBuf <=> Len(held[i]) = 0

\* The connections that are counted, if logs of level info are written.
ServedConns == {i \in Conns : Served(i)}
CountInv == connNum \in Int /\ (LogInfo => connNum = Cardinality(ServedConns))

-----------------------------------------------------------------------------
(* Streams. *)

\* Two parts of a stream, one after the other.
LEMMA CatElements ==
    ASSUME NEW S, NEW q \in Seq(S), NEW r \in Seq(S)
    PROVE  /\ q \o r \in Seq(S) /\ Len(q \o r) = Len(q) + Len(r)
           /\ Len(q) \in Nat /\ Len(r) \in Nat
           /\ \A j \in 1..Len(q) : (q \o r)[j] = q[j]
           /\ \A j \in 1..Len(r) : (q \o r)[Len(q) + j] = r[j]
           /\ Len(q) = 0 => q \o r = r
           /\ Len(r) = 0 => q \o r = q
  <1>1. /\ q \o r \in Seq(S) /\ Len(q \o r) = Len(q) + Len(r)
        /\ Len(q) \in Nat /\ Len(r) \in Nat
    OBVIOUS
  <1>2. \A j \in 1..Len(q) : (q \o r)[j] = q[j]
    OBVIOUS
  <1>3. \A j \in 1..Len(r) : (q \o r)[Len(q) + j] = r[j]
    OBVIOUS
  <1>4. Len(q) = 0 => q \o r = r
    BY ConcatEmptySeq, EmptySeq
  <1>5. Len(r) = 0 => q \o r = q
    BY ConcatEmptySeq, EmptySeq
  <1> QED
    BY <1>1, <1>2, <1>3, <1>4, <1>5

\* The first n pieces and the rest.
LEMMA CutElements ==
    ASSUME NEW S, NEW q \in Seq(S), NEW n \in 0..Len(q)
    PROVE  /\ SubSeq(q, 1, n) \in Seq(S) /\ Len(SubSeq(q, 1, n)) = n
           /\ \A j \in 1..n : SubSeq(q, 1, n)[j] = q[j]
           /\ SubSeq(q, n + 1, Len(q)) \in Seq(S) /\ Len(SubSeq(q, n + 1, Len(q))) = Len(q) - n
           /\ \A j \in 1..(Len(q) - n) : SubSeq(q, n + 1, Len(q))[j] = q[n + j]
           /\ SubSeq(q, 1, n) \o SubSeq(q, n + 1, Len(q)) = q
  <1>1. Len(q) \in Nat /\ SubSeq(q, 1, n) \in Seq(S) /\ Len(SubSeq(q, 1, n)) = n
    OBVIOUS
  <1>2. \A j \in 1..n : SubSeq(q, 1, n)[j] = q[j]
    OBVIOUS
  <1>3. SubSeq(q, n + 1, Len(q)) \in Seq(S) /\ Len(SubSeq(q, n + 1, Len(q))) = Len(q) - n
    OBVIOUS
  <1>4. \A j \in 1..(Len(q) - n) : SubSeq(q, n + 1, Len(q))[j] = q[n + j]
    OBVIOUS
  <1>5. SubSeq(q, 1, n) \o SubSeq(q, n + 1, Len(q)) = SubSeq(q, 1, Len(q))
    <2>1. 1 \in 1..(Len(q) + 1) /\ n \in (1 - 1)..Len(q) /\ Len(q) \in n..Len(q)
      BY <1>1
    <2> QED
      BY <2>1, ConcatAdjacentSubSeq, Zenon
  <1>6. SubSeq(q, 1, Len(q)) = q
    BY SubSeqFull
  <1> QED
    BY <1>1, <1>2, <1>3, <1>4, <1>5, <1>6

\* recv moves n pieces from the stream to the buffer: together they are the same.
LEMMA MovedSame ==
    ASSUME NEW S, NEW h \in Seq(S), NEW q \in Seq(S), NEW n \in 0..Len(q)
    PROVE  (h \o SubSeq(q, 1, n)) \o SubSeq(q, n + 1, Len(q)) = h \o q
  <1> DEFINE a == SubSeq(q, 1, n)
             b == SubSeq(q, n + 1, Len(q))
  <1>1. a \in Seq(S) /\ b \in Seq(S)
    BY CutElements
  <1>2. a \o b = q
    BY CutElements
  <1> HIDE DEF a, b
  <1>3. (h \o a) \o b = h \o (a \o b)
    BY <1>1, ConcatAssociative
  <1>4. (h \o a) \o b = h \o q
    BY <1>2, <1>3
  <1> QED
    BY <1>4 DEF a, b

\* The pieces of a message: two or more.
LEMMA PiecesNat ==
    ASSUME NEW r \in RequestType
    PROVE  /\ Pieces(r) \in Nat /\ Pieces(r) >= 2 /\ Pieces(r) = r.lines + 1 + r.len
           /\ r.lines \in Nat /\ r.lines >= 1 /\ r.len \in 0..1
  BY DEF Pieces, RequestType

LEMMA MessageElements ==
    ASSUME NEW n \in Nat, NEW r \in RequestType
    PROVE  /\ Message(n, r) \in Seq(PieceType) /\ Len(Message(n, r)) = Pieces(r)
           /\ \A j \in 1..Pieces(r) : Message(n, r)[j] = Piece(j, n, r)
  <1>1. Pieces(r) \in Nat
    BY PiecesNat
  <1>2. \A j \in 1..Pieces(r) : Piece(j, n, r) \in PieceType
    BY <1>1 DEF Piece, PieceType
  <1>3. Message(n, r) \in [1..Pieces(r) -> PieceType]
    BY <1>2 DEF Message
  <1>4. Message(n, r) \in Seq(PieceType) /\ Len(Message(n, r)) = Pieces(r)
    BY <1>1, <1>3
  <1>5. \A j \in 1..Pieces(r) : Message(n, r)[j] = Piece(j, n, r)
    BY DEF Message
  <1> QED
    BY <1>1, <1>4, <1>5

\* What follows after n pieces of a stream is a stream.
LEMMA FlowRest ==
    ASSUME NEW q \in Seq(PieceType), NEW s \in Seq(RequestType), NEW t \in Seq(PieceType), NEW n \in Nat,
           Len(q) = n + Len(t), \A j \in 1..Len(t) : t[j] = q[n + j], Flow(q, s)
    PROVE  Flow(t, s)
  <1> SUFFICES ASSUME NEW j \in 1..Len(t) PROVE Follows(t, s, j)
    BY DEF Flow
  <1> DEFINE m == t[j].n
             k == t[j].k
             rest == Pieces(s[m]) - k
  <1>1. n + j \in 1..Len(q) /\ t[j] = q[n + j]
    OBVIOUS
  <1>2. Follows(q, s, n + j)
    BY <1>1 DEF Flow
  <1>3. /\ m \in 1..Len(s) /\ k \in 1..Pieces(s[m]) /\ t[j] = Piece(k, m, s[m])
        /\ \A d \in 0..rest : (n + j) + d <= Len(q) => q[(n + j) + d] = Piece(k + d, m, s[m])
        /\ (n + j) + rest < Len(q) => m < Len(s) /\ q[(n + j) + rest + 1] = Piece(1, m + 1, s[m + 1])
    BY <1>1, <1>2 DEF Follows
  <1>4. Pieces(s[m]) \in Nat /\ rest \in Nat
    BY <1>3, PiecesNat
  <1> HIDE DEF m, k, rest
  <1>5. ASSUME NEW d \in 0..rest, j + d <= Len(t) PROVE t[j + d] = Piece(k + d, m, s[m])
    <2>1. j + d \in 1..Len(t) /\ (n + j) + d <= Len(q) /\ n + (j + d) = (n + j) + d
      BY <1>4, <1>5
    <2>2. t[j + d] = q[n + (j + d)]
      BY <2>1
    <2> QED
      BY <1>3, <2>1, <2>2
  <1>6. ASSUME j + rest < Len(t) PROVE m < Len(s) /\ t[j + rest + 1] = Piece(1, m + 1, s[m + 1])
    <2>1. j + rest + 1 \in 1..Len(t) /\ (n + j) + rest < Len(q) /\ n + (j + rest + 1) = (n + j) + rest + 1
      BY <1>4, <1>6
    <2>2. t[j + rest + 1] = q[n + (j + rest + 1)]
      BY <2>1
    <2> QED
      BY <1>3, <2>1, <2>2
  <1> QED
    BY <1>3, <1>5, <1>6 DEF Follows, m, k, rest

\* The first message of a stream.
LEMMA FlowHead ==
    ASSUME NEW q \in Seq(PieceType), NEW s \in Seq(RequestType), NEW a \in Nat,
           Flow(q, s), Begins(q, s, a), Len(q) > 0
    PROVE  /\ a < Len(s) /\ s[a + 1] \in RequestType
           /\ \A j \in 1..Len(q) : j <= Pieces(s[a + 1]) => q[j] = Piece(j, a + 1, s[a + 1])
           /\ Len(q) > Pieces(s[a + 1]) =>
                 a + 1 < Len(s) /\ q[Pieces(s[a + 1]) + 1] = Piece(1, a + 2, s[a + 2])
  <1> DEFINE r == s[a + 1]
  <1>1. a < Len(s) /\ q[1] = Piece(1, a + 1, r) /\ r \in RequestType
    BY DEF Begins
  <1>2. q[1].n = a + 1 /\ q[1].k = 1
    BY <1>1 DEF Piece
  <1>3. Follows(q, s, 1)
    BY DEF Flow
  <1>4. Pieces(r) \in Nat /\ Pieces(r) >= 2
    BY <1>1, PiecesNat
  <1>5. /\ \A d \in 0..(Pieces(r) - 1) : 1 + d <= Len(q) => q[1 + d] = Piece(1 + d, a + 1, r)
        /\ 1 + (Pieces(r) - 1) < Len(q) =>
              a + 1 < Len(s) /\ q[1 + (Pieces(r) - 1) + 1] = Piece(1, a + 1 + 1, s[a + 1 + 1])
    BY <1>2, <1>3 DEF Follows
  <1> HIDE DEF r
  <1>6. ASSUME NEW j \in 1..Len(q), j <= Pieces(r) PROVE q[j] = Piece(j, a + 1, r)
    <2>1. j - 1 \in 0..(Pieces(r) - 1) /\ 1 + (j - 1) = j
      BY <1>4, <1>6
    <2> QED
      BY <1>5, <2>1
  <1>7. 1 + (Pieces(r) - 1) = Pieces(r) /\ 1 + (Pieces(r) - 1) + 1 = Pieces(r) + 1 /\ a + 1 + 1 = a + 2
    BY <1>4
  <1>8. Len(q) > Pieces(r) => a + 1 < Len(s) /\ q[Pieces(r) + 1] = Piece(1, a + 2, s[a + 2])
    BY <1>4, <1>5, <1>7
  <1> QED
    BY <1>1, <1>6, <1>8 DEF r

\* The header and the length of the first message in a buffer.
Front1(q, n, r) == \A j \in 1..Len(q) : j <= Pieces(r) => q[j] = Piece(j, n, r)
LEMMA FindEndLaw ==
    ASSUME NEW q \in Seq(PieceType), NEW n \in Nat, NEW r \in RequestType, Front1(q, n, r)
    PROVE  /\ FindEnd(q) = IF Len(q) > r.lines THEN r.lines + 1 ELSE 0
           /\ FindEnd(q) # 0 =>
                 /\ FindEnd(q) \in 1..Len(q) /\ q[FindEnd(q)] = Piece(r.lines + 1, n, r)
                 /\ Total(q) = Pieces(r)
  <1> DEFINE ends == {i \in DOMAIN q : q[i].k = q[i].msg.lines + 1}
             e == r.lines + 1
  <1>1. r.lines \in Nat /\ r.lines >= 1 /\ r.len \in Nat /\ Pieces(r) = r.lines + 1 + r.len /\ Len(q) \in Nat
    BY DEF RequestType, Pieces
  <1>2. DOMAIN q = 1..Len(q)
    OBVIOUS
  <1>3. ASSUME NEW j \in 1..Len(q), j <= e PROVE j \in ends <=> j = e
    <2>1. q[j] = Piece(j, n, r)
      BY <1>1, <1>3 DEF Front1
    <2>2. q[j].k = j /\ q[j].msg.lines = r.lines
      BY <2>1 DEF Piece
    <2> QED
      BY <1>2, <2>2
  <1>4. CASE Len(q) > r.lines
    <2>1. e \in 1..Len(q) /\ e \in ends
      BY <1>1, <1>3, <1>4
    <2>2. \A j \in ends : e <= j
      BY <1>1, <1>2, <1>3
    <2>3. \A i \in ends : (\A j \in ends : i <= j) => i = e
      BY <1>1, <1>2, <2>1, <2>2
    <2>4. FindEnd(q) = CHOOSE i \in ends : \A j \in ends : i <= j
      BY <2>1 DEF FindEnd
    <2> HIDE DEF ends, e
    <2>5. FindEnd(q) = e
      BY <2>1, <2>2, <2>3, <2>4
    <2>6. q[e] = Piece(e, n, r)
      BY <1>1, <2>1 DEF Front1, e
    <2>7. Total(q) = Pieces(r)
      BY <1>1, <2>5, <2>6 DEF Total, Piece, e
    <2> QED
      BY <1>4, <2>1, <2>5, <2>6, <2>7 DEF e
  <1>5. CASE ~(Len(q) > r.lines)
    <2>1. ends = {}
      <3>1. ASSUME NEW j \in 1..Len(q) PROVE j \notin ends
        <4>1. j <= e /\ j # e
          BY <1>1, <1>5
        <4> QED
          BY <1>3, <4>1
      <3> QED
        BY <1>2, <3>1
    <2> QED
      BY <1>5, <2>1 DEF FindEnd
  <1> QED
    BY <1>4, <1>5

\* A message, or its first pieces, is sent after a stream that ends with the
\* last message before it.
LEMMA FlowMore ==
    ASSUME NEW q \in Seq(PieceType), NEW s \in Seq(RequestType), NEW a \in Nat, NEW r \in RequestType,
           NEW m \in Seq(PieceType), Len(m) > 0, Len(m) <= Pieces(r),
           \A j \in 1..Len(m) : m[j] = Piece(j, Len(s) + 1, r),
           Flow(q, s), Begins(q, s, a), Ends(q, s, a)
    PROVE  /\ Flow(q \o m, Append(s, r)) /\ Begins(q \o m, Append(s, r), a)
           /\ Len(m) = Pieces(r) => Ends(q \o m, Append(s, r), a)
  <1> DEFINE u == q \o m
             v == Append(s, r)
             c == Len(q)
  <1>1. /\ u \in Seq(PieceType) /\ Len(u) = c + Len(m) /\ c \in Nat /\ Len(m) \in Nat
        /\ \A j \in 1..c : u[j] = q[j]
        /\ \A j \in 1..Len(m) : u[c + j] = m[j]
    BY CatElements
  <1>2. /\ v \in Seq(RequestType) /\ Len(v) = Len(s) + 1 /\ Len(s) \in Nat
        /\ v[Len(s) + 1] = r /\ \A j \in 1..Len(s) : v[j] = s[j]
    BY AppendProperties
  <1>3. Pieces(r) \in Nat
    BY PiecesNat
  <1>4. ASSUME NEW j \in 1..c
        PROVE  \A d \in Nat : d <= Pieces(s[q[j].n]) - q[j].k => j + d <= c
    <2> DEFINE n == q[j].n
               k == q[j].k
               z == Pieces(s[n])
    <2>1. /\ n \in 1..Len(s) /\ k \in 1..z
          /\ \A d \in 0..(z - k) : j + d <= Len(q) => q[j + d] = Piece(k + d, n, s[n])
      BY DEF Flow, Follows
    <2>2. z \in Nat
      BY <2>1, PiecesNat
    <2>3. q[c].n = Len(s) /\ q[c].k = Pieces(s[Len(s)])
      BY DEF Ends
    <2> HIDE DEF n, k, z
    <2>4. ASSUME NEW d \in Nat, d <= z - k, j + d > c PROVE FALSE
      <3>1. c - j \in 0..(z - k) /\ j + (c - j) = c /\ c - j < d
        BY <1>1, <2>1, <2>2, <2>4
      <3>2. q[c] = Piece(k + (c - j), n, s[n])
        BY <1>1, <2>1, <3>1
      <3>3. q[c].n = n /\ q[c].k = k + (c - j)
        BY <3>2 DEF Piece
      <3>4. n = Len(s) /\ k + (c - j) = z
        BY <2>3, <3>3 DEF z
      <3> QED
        BY <1>1, <2>1, <2>2, <2>4, <3>1, <3>4
    <2>5. \A d \in Nat : d <= z - k => j + d <= c
      BY <1>1, <2>4
    <2> QED
      BY <2>5 DEF n, k, z
  <1> HIDE DEF u, v, c
  <1>5. ASSUME NEW j \in 1..c PROVE Follows(u, v, j)
    <2> DEFINE n == q[j].n
               k == q[j].k
               rest == Pieces(s[n]) - k
    <2>1. /\ n \in 1..Len(s) /\ k \in 1..Pieces(s[n]) /\ q[j] = Piece(k, n, s[n])
          /\ \A d \in 0..rest : j + d <= Len(q) => q[j + d] = Piece(k + d, n, s[n])
          /\ j + rest < Len(q) => n < Len(s) /\ q[j + rest + 1] = Piece(1, n + 1, s[n + 1])
      BY DEF Flow, Follows, c
    <2>2. rest \in Nat /\ j + rest <= c /\ \A d \in 0..rest : j + d <= c
      <3>1. Pieces(s[n]) \in Nat
        BY <2>1, PiecesNat
      <3>2. rest \in Nat
        BY <2>1, <3>1
      <3> QED
        BY <1>4, <3>2
    <2>3. u[j] = q[j] /\ v[n] = s[n]
      BY <1>1, <1>2, <2>1
    <2> HIDE DEF n, k, rest
    <2>4. ASSUME NEW d \in 0..rest PROVE u[j + d] = Piece(k + d, n, s[n])
      <3>1. j + d \in 1..c
        BY <1>1, <2>2
      <3> QED
        BY <1>1, <2>1, <2>2, <3>1 DEF c
    <2>5. ASSUME j + rest < Len(u) PROVE n < Len(v) /\ u[j + rest + 1] = Piece(1, n + 1, v[n + 1])
      <3>1. CASE j + rest < c
        <4>1. j + rest + 1 \in 1..c
          BY <1>1, <2>2, <3>1
        <4>2. n < Len(s) /\ q[j + rest + 1] = Piece(1, n + 1, s[n + 1]) /\ n + 1 \in 1..Len(s)
          BY <1>2, <2>1, <3>1 DEF c
        <4>3. u[j + rest + 1] = q[j + rest + 1] /\ v[n + 1] = s[n + 1] /\ n < Len(v)
          BY <1>1, <1>2, <2>1, <4>1, <4>2
        <4> QED
          BY <4>2, <4>3
      <3>2. CASE j + rest = c
        <4>1. q[c] = Piece(k + rest, n, s[n])
          BY <2>1, <2>2, <3>2 DEF c
        <4>2. q[c].n = Len(s)
          BY <1>1 DEF Ends, c
        <4>3. n = Len(s)
          BY <4>1, <4>2 DEF Piece
        <4>4. u[c + 1] = m[1] /\ m[1] = Piece(1, Len(s) + 1, r)
          BY <1>1
        <4>5. j + rest + 1 = c + 1 /\ n < Len(v) /\ v[n + 1] = r
          BY <1>1, <1>2, <3>2, <4>3
        <4> QED
          BY <4>3, <4>4, <4>5
      <3>3. j + rest \in Nat /\ c \in Nat /\ j + rest <= c
        BY <1>1, <2>2
      <3> QED
        BY <3>1, <3>2, <3>3
    <2> QED
      BY <1>1, <1>2, <2>1, <2>3, <2>4, <2>5 DEF Follows, n, k, rest
  <1>6. ASSUME NEW j \in (c + 1)..Len(u) PROVE Follows(u, v, j)
    <2>1. j - c \in 1..Len(m) /\ c + (j - c) = j
      BY <1>1
    <2>2. u[j] = Piece(j - c, Len(s) + 1, r)
      BY <1>1, <2>1
    <2>3. u[j].n = Len(s) + 1 /\ u[j].k = j - c
      BY <2>2 DEF Piece
    <2>4. ASSUME NEW d \in 0..(Pieces(r) - (j - c)), j + d <= Len(u)
          PROVE  u[j + d] = Piece((j - c) + d, Len(s) + 1, r)
      <3>1. (j - c) + d \in 1..Len(m) /\ c + ((j - c) + d) = j + d
        BY <1>1, <1>3, <2>1, <2>4
      <3> QED
        BY <1>1, <3>1
    <2>5. ~(j + (Pieces(r) - (j - c)) < Len(u))
      BY <1>1, <1>3, <2>1
    <2>6. j - c \in 1..Pieces(r)
      BY <1>1, <1>3, <2>1
    <2> QED
      BY <1>2, <2>2, <2>3, <2>4, <2>5, <2>6 DEF Follows
  <1>7. Flow(u, v)
    BY <1>1, <1>5, <1>6 DEF Flow
  <1>8. Begins(u, v, a)
    <2>1. CASE c = 0
      <3>1. a = Len(s) /\ u[1] = Piece(1, Len(s) + 1, r)
        BY <1>1, <2>1 DEF Ends, c
      <3> QED
        BY <1>1, <1>2, <3>1 DEF Begins
    <2>2. CASE c > 0
      <3>1. a < Len(s) /\ q[1] = Piece(1, a + 1, s[a + 1]) /\ a + 1 \in 1..Len(s)
        BY <1>2, <2>2 DEF Begins, c
      <3> QED
        BY <1>1, <1>2, <2>2, <3>1 DEF Begins
    <2> QED
      BY <1>1, <2>1, <2>2
  <1>9. ASSUME Len(m) = Pieces(r) PROVE Ends(u, v, a)
    <2>0. Len(m) \in 1..Len(m)
      BY <1>1
    <2>1. u[c + Len(m)] = Piece(Len(m), Len(s) + 1, r)
      BY <1>1, <2>0
    <2>2. u[Len(u)].n = Len(v) /\ u[Len(u)].k = Pieces(v[Len(v)])
      BY <1>1, <1>2, <1>9, <2>1 DEF Piece
    <2> QED
      BY <1>1, <2>2 DEF Ends
  <1> QED
    BY <1>7, <1>8, <1>9 DEF u, v

-----------------------------------------------------------------------------
(* The ends of the connections. *)
NetInv == UpInv /\ DownInv /\ PlaceInv

\* The assumptions, one by one.
LEMMA Constants ==
    /\ PoolScheds # {} /\ NoBuf \notin Elems /\ MaxCap \in Nat
    /\ MaxConn \in Nat /\ MaxHeader \in Nat /\ MaxIdle \in Nat /\ LogInfo \in BOOLEAN
    /\ Conns = 1..MaxConn /\ 0 \notin Conns /\ Srv \in PoolScheds
    /\ \A r \in Requests : r \in RequestType
    /\ \A s \in Scenes : s \in SceneType
  BY HttpAssumption DEF Conns, Srv

\* The server receives n pieces that have arrived on one connection.
LEMMA UpTaken ==
    ASSUME UpInv, NEW i \in Conns, NEW n \in 0..seenUp[i], TakeUp(i, n), sent' = sent
    PROVE  /\ UpInv' /\ n \in 0..Len(up[i]) /\ up'[i] = SubSeq(up[i], n + 1, Len(up[i]))
           /\ \A j \in Conns : j # i => up'[j] = up[j]
  <1>1. /\ up \in [Conns -> Seq(PieceType)] /\ seenUp \in [Conns -> Nat]
        /\ seenUp[i] <= Len(up[i]) /\ n \in 0..Len(up[i])
    BY DEF UpInv
  <1>2. /\ up' = [up EXCEPT ![i] = SubSeq(up[i], n + 1, Len(up[i]))]
        /\ seenUp' = [seenUp EXCEPT ![i] = seenUp[i] - n]
    BY DEF TakeUp
  <1>3. /\ SubSeq(up[i], n + 1, Len(up[i])) \in Seq(PieceType)
        /\ Len(SubSeq(up[i], n + 1, Len(up[i]))) = Len(up[i]) - n
    BY <1>1, CutElements
  <1>4. up' \in [Conns -> Seq(PieceType)] /\ seenUp' \in [Conns -> Nat]
    BY <1>1, <1>2, <1>3
  <1>5. up'[i] = SubSeq(up[i], n + 1, Len(up[i])) /\ \A j \in Conns : j # i => up'[j] = up[j]
    BY <1>1, <1>2
  <1>6. ASSUME NEW j \in Conns PROVE seenUp'[j] <= Len(up'[j])
    BY <1>1, <1>2, <1>3, <1>5 DEF UpInv
  <1> QED
    BY <1>1, <1>4, <1>5, <1>6 DEF UpInv

\* The same on the way to the client.
LEMMA DownTaken ==
    ASSUME DownInv, NEW i \in Conns, NEW n \in 0..seenDown[i], TakeDown(i, n), answers' = answers
    PROVE  /\ DownInv' /\ n \in 0..Len(down[i]) /\ down'[i] = SubSeq(down[i], n + 1, Len(down[i]))
           /\ \A j \in Conns : j # i => down'[j] = down[j]
  <1>1. /\ down \in [Conns -> Seq(PieceType)] /\ seenDown \in [Conns -> Nat]
        /\ seenDown[i] <= Len(down[i]) /\ n \in 0..Len(down[i])
    BY DEF DownInv
  <1>2. /\ down' = [down EXCEPT ![i] = SubSeq(down[i], n + 1, Len(down[i]))]
        /\ seenDown' = [seenDown EXCEPT ![i] = seenDown[i] - n]
    BY DEF TakeDown
  <1>3. /\ SubSeq(down[i], n + 1, Len(down[i])) \in Seq(PieceType)
        /\ Len(SubSeq(down[i], n + 1, Len(down[i]))) = Len(down[i]) - n
    BY <1>1, CutElements
  <1>4. down' \in [Conns -> Seq(PieceType)] /\ seenDown' \in [Conns -> Nat]
    BY <1>1, <1>2, <1>3
  <1>5. down'[i] = SubSeq(down[i], n + 1, Len(down[i])) /\ \A j \in Conns : j # i => down'[j] = down[j]
    BY <1>1, <1>2
  <1>6. ASSUME NEW j \in Conns PROVE seenDown'[j] <= Len(down'[j])
    BY <1>1, <1>2, <1>3, <1>5 DEF DownInv
  <1> QED
    BY <1>1, <1>4, <1>5, <1>6 DEF DownInv

\* A message that is sent in full, or only its first piece.
LEMMA SentPieces ==
    ASSUME NEW n \in Nat, NEW r \in RequestType, NEW all \in BOOLEAN
    PROVE  LET m == IF all THEN Message(n, r) ELSE SubSeq(Message(n, r), 1, 1)
           IN  /\ m \in Seq(PieceType) /\ Len(m) = (IF all THEN Pieces(r) ELSE 1)
               /\ Len(m) > 0 /\ Len(m) <= Pieces(r)
               /\ \A j \in 1..Len(m) : m[j] = Piece(j, n, r)
  <1> DEFINE w == Message(n, r)
  <1>1. /\ w \in Seq(PieceType) /\ Len(w) = Pieces(r) /\ Pieces(r) \in Nat /\ Pieces(r) >= 2
        /\ \A j \in 1..Pieces(r) : w[j] = Piece(j, n, r)
    BY MessageElements, PiecesNat
  <1> HIDE DEF w
  <1>2. /\ SubSeq(w, 1, 1) \in Seq(PieceType) /\ Len(SubSeq(w, 1, 1)) = 1
        /\ \A j \in 1..1 : SubSeq(w, 1, 1)[j] = w[j]
    <2>1. 1 \in 0..Len(w)
      BY <1>1
    <2> QED
      BY <1>1, <2>1, CutElements
  <1>3. CASE all
    BY <1>1, <1>3 DEF w
  <1>4. CASE ~all
    BY <1>1, <1>2, <1>4 DEF w
  <1> QED
    BY <1>3, <1>4

\* A request is sent.
LEMMA Sends ==
    ASSUME UpInv, NEW i \in Conns, NEW r \in RequestType, NEW all \in BOOLEAN, Send(i, r, all), seenUp' = seenUp
    PROVE  /\ UpInv' /\ \A j \in Conns : j # i => up'[j] = up[j] /\ sent'[j] = sent[j]
           /\ sent'[i] = Append(sent[i], r) /\ Len(sent[i]) \in Nat
           /\ \E m \in Seq(PieceType) :
                 /\ up'[i] = up[i] \o m
                 /\ Len(m) > 0 /\ Len(m) <= Pieces(r) /\ (all => Len(m) = Pieces(r))
                 /\ \A j \in 1..Len(m) : m[j] = Piece(j, Len(sent[i]) + 1, r)
  <1> DEFINE n == Len(sent[i]) + 1
             m == IF all THEN Message(n, r) ELSE SubSeq(Message(n, r), 1, 1)
  <1>1. /\ up \in [Conns -> Seq(PieceType)] /\ seenUp \in [Conns -> Nat] /\ sent \in [Conns -> Seq(RequestType)]
        /\ \A j \in Conns : seenUp[j] <= Len(up[j])
    BY DEF UpInv
  <1>2. Len(sent[i]) \in Nat /\ n \in Nat
    BY <1>1
  <1>3. /\ m \in Seq(PieceType) /\ Len(m) > 0 /\ Len(m) <= Pieces(r) /\ (all => Len(m) = Pieces(r))
        /\ \A j \in 1..Len(m) : m[j] = Piece(j, n, r)
    BY <1>2, SentPieces
  <1>4. up' = [up EXCEPT ![i] = up[i] \o m] /\ sent' = [sent EXCEPT ![i] = Append(sent[i], r)]
    BY DEF Send
  <1> HIDE DEF m, n
  <1>5. up[i] \o m \in Seq(PieceType) /\ Len(up[i] \o m) = Len(up[i]) + Len(m) /\ Len(up[i]) \in Nat
    BY <1>1, <1>3, CatElements
  <1>6. /\ up'[i] = up[i] \o m /\ sent'[i] = Append(sent[i], r)
        /\ \A j \in Conns : j # i => up'[j] = up[j] /\ sent'[j] = sent[j]
    BY <1>1, <1>4
  <1>7. Append(sent[i], r) \in Seq(RequestType)
    BY <1>1
  <1>8. up' \in [Conns -> Seq(PieceType)] /\ sent' \in [Conns -> Seq(RequestType)]
    BY <1>1, <1>4, <1>5, <1>7
  <1>9. \A j \in Conns : seenUp'[j] <= Len(up'[j])
    <2>1. Len(m) \in Nat /\ seenUp[i] \in Nat /\ Len(up'[i]) = Len(up[i]) + Len(m) /\ seenUp[i] <= Len(up[i])
      BY <1>1, <1>3, <1>5, <1>6
    <2>2. seenUp[i] <= Len(up'[i])
      BY <1>5, <2>1
    <2> QED
      BY <1>1, <1>6, <2>2
  <1> QED
    BY <1>1, <1>2, <1>3, <1>6, <1>8, <1>9 DEF UpInv, n

\* A response is sent.
LEMMA Responds ==
    ASSUME DownInv, NEW i \in Conns, NEW a \in AnswerType, NEW all \in BOOLEAN, Respond(i, a, all),
           seenDown' = seenDown
    PROVE  LET r == Reply(a.msg)
           IN  /\ DownInv' /\ r \in RequestType
               /\ \A j \in Conns : j # i => down'[j] = down[j] /\ answers'[j] = answers[j]
               /\ answers'[i] = Append(answers[i], a) /\ Len(answers[i]) \in Nat
               /\ \E m \in Seq(PieceType) :
                     /\ down'[i] = down[i] \o m
                     /\ Len(m) \in {1, Pieces(r)} /\ \A j \in 1..Len(m) : m[j] = Piece(j, a.n, r)
  <1> DEFINE r == Reply(a.msg)
             m == IF all THEN Message(a.n, r) ELSE SubSeq(Message(a.n, r), 1, 1)
  <1>1. /\ down \in [Conns -> Seq(PieceType)] /\ seenDown \in [Conns -> Nat]
        /\ answers \in [Conns -> Seq(AnswerType)] /\ \A j \in Conns : seenDown[j] <= Len(down[j])
    BY DEF DownInv
  <1>2. r \in RequestType /\ a.n \in Nat
    BY DEF AnswerType, RequestType, Reply
  <1> HIDE DEF r
  <1>3. /\ m \in Seq(PieceType) /\ Len(m) > 0 /\ Len(m) \in {1, Pieces(r)}
        /\ \A j \in 1..Len(m) : m[j] = Piece(j, a.n, r)
    BY <1>2, SentPieces
  <1>4. down' = [down EXCEPT ![i] = down[i] \o m] /\ answers' = [answers EXCEPT ![i] = Append(answers[i], a)]
    BY DEF Respond, Reply, r
  <1> HIDE DEF m
  <1>5. down[i] \o m \in Seq(PieceType) /\ Len(down[i] \o m) = Len(down[i]) + Len(m) /\ Len(down[i]) \in Nat
    BY <1>1, <1>3, CatElements
  <1>6. /\ down'[i] = down[i] \o m /\ answers'[i] = Append(answers[i], a)
        /\ \A j \in Conns : j # i => down'[j] = down[j] /\ answers'[j] = answers[j]
    BY <1>1, <1>4
  <1>7. Append(answers[i], a) \in Seq(AnswerType) /\ Len(answers[i]) \in Nat
    BY <1>1
  <1>8. down' \in [Conns -> Seq(PieceType)] /\ answers' \in [Conns -> Seq(AnswerType)]
    BY <1>1, <1>4, <1>5, <1>7
  <1>9. \A j \in Conns : seenDown'[j] <= Len(down'[j])
    <2>1. /\ Len(m) \in Nat /\ seenDown[i] \in Nat /\ seenDown[i] <= Len(down[i])
          /\ Len(down'[i]) = Len(down[i]) + Len(m)
      BY <1>1, <1>3, <1>5, <1>6
    <2>2. seenDown[i] <= Len(down'[i])
      BY <1>5, <2>1
    <2> QED
      BY <1>1, <1>6, <2>2
  <1> QED
    BY <1>1, <1>2, <1>3, <1>6, <1>7, <1>8, <1>9 DEF DownInv, r

\* A stream that is left alone.
LEMMA StreamsSame ==
    /\ UpInv /\ UNCHANGED <<up, seenUp, sent>> => UpInv'
    /\ DownInv /\ UNCHANGED <<down, seenDown, answers>> => DownInv'
  BY DEF UpInv, DownInv

\* What the server may do without harm to PlaceInv.
LEMMA ServerMoves ==
    ASSUME PlaceInv, NEW i \in Conns, srv[i] # "none", NEW p \in ServerPlaces \ {"none"},
           srv' = [srv EXCEPT ![i] = p], res10' \in [Conns -> BOOLEAN],
           held' \in [Conns -> Seq(PieceType)], req' \in [Conns -> Seq(PieceType)],
           UNCHANGED <<cli, cfd, cbuf, calls, got, closedC, scene, sent>>,
           \A j \in Conns : j # i => down'[j] = down[j] /\ answers'[j] = answers[j]
    PROVE  PlaceInv'
  <1>1. srv' \in [Conns -> ServerPlaces]
    BY DEF PlaceInv
  <1>2. cfd # 0 => srv'[cfd] # "none" /\ cfd \notin closedC /\ cfd \notin scene.foreign
    BY Constants DEF PlaceInv
  <1>3. \A j \in Conns : srv'[j] = "none" => j # i /\ srv[j] = "none"
    BY DEF PlaceInv
  <1>4. \A j \in Conns : srv'[j] = "none" =>
          /\ j \notin closedC /\ j \notin scene.foreign
          /\ Len(sent[j]) = 0 /\ Len(answers'[j]) = 0 /\ Len(down'[j]) = 0
          /\ \A g \in got : g.fd # j
    BY <1>3 DEF PlaceInv
  <1> QED
    BY <1>1, <1>2, <1>4 DEF PlaceInv

\* What the client may do without harm to PlaceInv.
LEMMA ClientMoves ==
    ASSUME PlaceInv, cfd \in Conns, UNCHANGED <<srv, res10, held, req, scene, answers>>,
           cli' \in ClientPlaces, calls' = calls, cbuf' \in Seq(PieceType),
           \/ cfd' = cfd /\ cli' \in {"idle", "head", "body"} /\ closedC' = closedC
           \/ cfd' = 0 /\ cli' = "idle" /\ closedC' = closedC \cup {cfd},
           cli' \in {"head", "body"} \/ Len(cbuf') = 0,
           \A j \in Conns : j # cfd => sent'[j] = sent[j] /\ down'[j] = down[j],
           \A g \in got' : g \in got \/ g.fd = cfd
    PROVE  PlaceInv'
  <1>0. srv[cfd] # "none" /\ 0 \in 0..MaxConn
    BY Constants DEF PlaceInv
  <1>1. \A j \in Conns : srv[j] = "none" => j # cfd
    BY <1>0
  <1>2. \A j \in Conns : srv'[j] = "none" =>
          /\ j \notin closedC' /\ j \notin scene.foreign
          /\ Len(sent'[j]) = 0 /\ Len(answers'[j]) = 0 /\ Len(down'[j]) = 0
    BY <1>1 DEF PlaceInv
  <1>3. \A j \in Conns : srv'[j] = "none" => \A g \in got' : g.fd # j
    BY <1>1 DEF PlaceInv
  <1> QED
    BY <1>0, <1>2, <1>3, Constants DEF PlaceInv, ClientPlaces

\* What a part at the front of a stream begins with.
LEMMA FrontOf ==
    ASSUME NEW s \in Seq(PieceType), NEW t \in Seq(RequestType), NEW a \in Nat, Flow(s, t), Begins(s, t, a),
           NEW q \in Seq(PieceType), Len(q) > 0, Len(q) <= Len(s), \A j \in 1..Len(q) : q[j] = s[j]
    PROVE  a + 1 <= Len(t) /\ t[a + 1] \in RequestType /\ Front1(q, a + 1, t[a + 1])
  <1>1. Len(s) > 0 /\ Len(s) \in Nat /\ Len(q) \in Nat
    OBVIOUS
  <1>2. /\ a < Len(t) /\ t[a + 1] \in RequestType
        /\ \A j \in 1..Len(s) : j <= Pieces(t[a + 1]) => s[j] = Piece(j, a + 1, t[a + 1])
    BY <1>1, FlowHead
  <1>3. Front1(q, a + 1, t[a + 1])
    <2>1. \A j \in 1..Len(q) : j \in 1..Len(s)
      BY <1>1
    <2>2. \A j \in 1..Len(q) : j <= Pieces(t[a + 1]) => q[j] = Piece(j, a + 1, t[a + 1])
      BY <1>2, <2>1
    <2> QED
      BY <2>2 DEF Front1
  <1> QED
    BY <1>2, <1>3

\* The number of the request that is the next to be answered, and the request.
Nth(i) == Len(answers[i]) + 1
Asked(i) == sent[i][Nth(i)]

LEMMA StreamTypes ==
    ASSUME NetInv, NEW i \in Conns
    PROVE  /\ req[i] \in Seq(PieceType) /\ held[i] \in Seq(PieceType) /\ up[i] \in Seq(PieceType)
           /\ held[i] \o up[i] \in Seq(PieceType) /\ Stream(i) \in Seq(PieceType)
           /\ sent[i] \in Seq(RequestType) /\ answers[i] \in Seq(AnswerType)
           /\ Len(answers[i]) \in Nat /\ Len(sent[i]) \in Nat /\ Len(held[i]) \in Nat /\ Len(up[i]) \in Nat
           /\ Nth(i) \in Nat /\ srv[i] \in ServerPlaces
           /\ seenUp[i] \in Nat /\ seenUp[i] <= Len(up[i])
  <1>1. /\ req[i] \in Seq(PieceType) /\ held[i] \in Seq(PieceType) /\ up[i] \in Seq(PieceType)
        /\ sent[i] \in Seq(RequestType) /\ answers[i] \in Seq(AnswerType) /\ srv[i] \in ServerPlaces
        /\ seenUp[i] \in Nat /\ seenUp[i] <= Len(up[i])
    BY DEF NetInv, UpInv, DownInv, PlaceInv
  <1>2. held[i] \o up[i] \in Seq(PieceType)
    BY <1>1, CatElements
  <1>3. Stream(i) \in Seq(PieceType)
    BY <1>1, <1>2, CatElements DEF Stream
  <1> QED
    BY <1>1, <1>2, <1>3 DEF Nth

\* What a buffer of the server begins with.
LEMMA RecvHead ==
    ASSUME NetInv, StreamInv, NEW i \in Conns, srv[i] = "recv", NEW q \in Seq(PieceType), Len(q) > 0,
           Len(q) <= Len(held[i] \o up[i]), \A j \in 1..Len(q) : q[j] = (held[i] \o up[i])[j]
    PROVE  /\ Stream(i) = held[i] \o up[i] /\ Len(req[i]) = 0
           /\ Nth(i) <= Len(sent[i]) /\ Asked(i) \in RequestType /\ Front1(q, Nth(i), Asked(i))
  <1> DEFINE s == held[i] \o up[i]
             e == req[i]
  <1>1. StreamOf(i)
    BY DEF StreamInv, Active
  <1>2. Len(e) = 0 /\ Stream(i) = e \o s
    BY <1>1 DEF StreamOf, Stream
  <1>3. s \in Seq(PieceType) /\ e \in Seq(PieceType)
    BY StreamTypes
  <1>4. Len(q) <= Len(s) /\ \A j \in 1..Len(q) : q[j] = s[j]
    OBVIOUS
  <1> HIDE DEF s, e
  <1>5. Stream(i) = s
    BY <1>2, <1>3, CatElements
  <1>6. Flow(s, sent[i]) /\ Begins(s, sent[i], Len(answers[i]))
    BY <1>1, <1>5 DEF StreamOf
  <1>7. Len(answers[i]) \in Nat /\ sent[i] \in Seq(RequestType)
    BY StreamTypes
  <1>8. /\ Len(answers[i]) + 1 <= Len(sent[i]) /\ sent[i][Len(answers[i]) + 1] \in RequestType
        /\ Front1(q, Len(answers[i]) + 1, sent[i][Len(answers[i]) + 1])
    BY <1>3, <1>4, <1>6, <1>7, FrontOf
  <1> QED
    BY <1>2, <1>5, <1>8 DEF s, e, Nth, Asked

\* What parse_req does: it answers an error, or takes the request, which is the
\* next one that was sent, from the buffer and c more pieces.
Parsed(i, c) ==
    LET q == held[i] \o SubSeq(up[i], 1, c)
        z == Pieces(Asked(i))
    IN /\ Asked(i).err = 0 /\ z <= Len(q)
       /\ srv' = [srv EXCEPT ![i] = "process"]
       /\ req' = [req EXCEPT ![i] = SubSeq(q, 1, z)]
       /\ held' = [held EXCEPT ![i] = SubSeq(q, z + 1, Len(q))]
       /\ TakeUp(i, c) /\ c \in 0..seenUp[i]
       /\ UNCHANGED <<down, answers>>
       /\ IF SubSeq(q, z + 1, Len(q)) = <<>> THEN PushElem(Srv, buf[i]) /\ buf' = [buf EXCEPT ![i] = NoBuf]
          ELSE UNCHANGED <<buf, poolVars>>
ErrorAnswer(i) ==
    [n |-> Nth(i), status |-> Asked(i).err, http10 |-> FALSE, body |-> 0, msg |-> [Asked(i) EXCEPT !.len = 0]]

LEMMA ParseReqLaw ==
    ASSUME NetInv, StreamInv, NEW i \in Conns, ParseReq(i)
    PROVE  /\ srv[i] = "recv" /\ buf[i] # NoBuf /\ Len(held[i]) > 0
           /\ UNCHANGED <<seenDown, closedC, closedS, sent, scene, cliVars, res10, connNum>>
           /\ Nth(i) <= Len(sent[i]) /\ Asked(i) \in RequestType
           /\ \/ /\ Asked(i).err # 0 /\ srv' = [srv EXCEPT ![i] = "failed"]
                 /\ UNCHANGED <<up, seenUp, held, req, buf, poolVars>>
                 /\ \E all \in BOOLEAN : Respond(i, ErrorAnswer(i), all)
              \/ \E c \in 0..1 : Parsed(i, c)
  <1> DEFINE h == held[i]
             u == up[i]
             r == Asked(i)
  <1>1. /\ srv[i] = "recv" /\ buf[i] # NoBuf /\ FindEnd(h) # 0
        /\ UNCHANGED <<seenDown, closedC, closedS, sent, scene, cliVars, res10, connNum>>
    BY DEF ParseReq
  <1>2. /\ h \in Seq(PieceType) /\ u \in Seq(PieceType) /\ Len(h) \in Nat /\ Len(u) \in Nat
        /\ seenUp[i] \in Nat /\ seenUp[i] <= Len(u) /\ Nth(i) \in Nat
    BY StreamTypes
  <1> HIDE DEF h, u
  <1>3. Len(h) > 0
    <2>1. ASSUME Len(h) = 0 PROVE FALSE
      <3>1. DOMAIN h = {}
        BY <1>2, <2>1
      <3> QED
        BY <1>1, <3>1 DEF FindEnd
    <2> QED
      BY <1>2, <2>1
  <1>4. /\ Len(h) <= Len(h \o u) /\ \A j \in 1..Len(h) : h[j] = (h \o u)[j]
        /\ Len(h \o u) = Len(h) + Len(u)
    BY <1>2, CatElements
  <1>5. Nth(i) <= Len(sent[i]) /\ r \in RequestType /\ Front1(h, Nth(i), r)
    BY <1>1, <1>2, <1>3, <1>4, RecvHead DEF h, u
  <1>6. /\ Len(h) > r.lines /\ Total(h) = Pieces(r) /\ h[FindEnd(h)] = Piece(r.lines + 1, Nth(i), r)
    BY <1>1, <1>2, <1>5, FindEndLaw
  <1>7. h[FindEnd(h)].msg = r /\ h[FindEnd(h)].n = Nth(i)
    BY <1>6 DEF Piece
  <1>8. r.lines \in Nat /\ r.len \in 0..1 /\ Pieces(r) = r.lines + 1 + r.len
    BY <1>5, PiecesNat
  <1>9. CASE r.err # 0
    <2>1. PICK all \in BOOLEAN :
             Respond(i, [n |-> h[FindEnd(h)].n, status |-> h[FindEnd(h)].msg.err, http10 |-> FALSE, body |-> 0,
                         msg |-> [h[FindEnd(h)].msg EXCEPT !.len = 0]], all)
      BY <1>7, <1>9 DEF ParseReq, h
    <2>2. Respond(i, ErrorAnswer(i), all)
      BY <1>7, <2>1 DEF ErrorAnswer
    <2>3. srv' = [srv EXCEPT ![i] = "failed"] /\ UNCHANGED <<up, seenUp, held, req, buf, poolVars>>
      BY <1>7, <1>9 DEF ParseReq, h
    <2> QED
      BY <1>1, <1>3, <1>5, <1>9, <2>2, <2>3 DEF h
  <1>10. CASE r.err = 0
    <2>1. /\ UNCHANGED <<down, answers>>
          /\ \/ Len(h) >= Total(h) /\ Parse(i, h) /\ UNCHANGED <<up, seenUp>>
             \/ /\ Len(h) < Total(h) /\ seenUp[i] > 0
                /\ Parse(i, h \o SubSeq(u, 1, 1)) /\ TakeUp(i, 1)
      BY <1>7, <1>10 DEF ParseReq, h, u
    <2>2. CASE Len(h) >= Total(h) /\ Parse(i, h) /\ UNCHANGED <<up, seenUp>>
      <3>1. h \o SubSeq(u, 1, 0) = h
        <4>1. 0 \in 0..Len(u)
          BY <1>2
        <4>2. SubSeq(u, 1, 0) \in Seq(PieceType) /\ Len(SubSeq(u, 1, 0)) = 0
          BY <1>2, <4>1, CutElements
        <4> QED
          BY <1>2, <4>2, CatElements
      <3>2. TakeUp(i, 0)
        <4>1. up \in [Conns -> Seq(PieceType)] /\ seenUp \in [Conns -> Nat]
          BY DEF NetInv, UpInv
        <4>2. SubSeq(u, 0 + 1, Len(u)) = u /\ seenUp[i] - 0 = seenUp[i]
          BY <1>2, SubSeqFull
        <4> QED
          BY <2>2, <4>1, <4>2 DEF TakeUp, u
      <3>3. Pieces(r) <= Len(h) /\ 0 \in 0..seenUp[i] /\ 0 \in 0..1
        BY <1>2, <1>6, <1>8, <2>2
      <3>4. Parsed(i, 0)
        BY <1>6, <1>10, <2>1, <2>2, <3>1, <3>2, <3>3 DEF Parsed, Parse, h, u
      <3> QED
        BY <1>1, <1>3, <1>5, <3>3, <3>4 DEF h
    <2>3. CASE Len(h) < Total(h) /\ seenUp[i] > 0 /\ Parse(i, h \o SubSeq(u, 1, 1)) /\ TakeUp(i, 1)
      <3> DEFINE x == SubSeq(u, 1, 1)
                 q == h \o x
      <3>1. x \in Seq(PieceType) /\ Len(x) = 1 /\ x[1] = u[1]
        <4>1. 1 \in 0..Len(u) /\ 1 \in 1..1
          BY <1>2, <2>3
        <4> QED
          BY <1>2, <4>1, CutElements
      <3> HIDE DEF x
      <3>2. /\ q \in Seq(PieceType) /\ Len(q) = Len(h) + 1
            /\ \A j \in 1..Len(h) : q[j] = h[j]
            /\ q[Len(h) + 1] = u[1]
        <4>1. 1 \in 1..Len(x)
          BY <3>1
        <4>0. h \in Seq(PieceType) /\ x \in Seq(PieceType)
          BY <1>2, <3>1
        <4>2. /\ h \o x \in Seq(PieceType) /\ Len(h \o x) = Len(h) + Len(x)
              /\ \A j \in 1..Len(h) : (h \o x)[j] = h[j]
              /\ \A j \in 1..Len(x) : (h \o x)[Len(h) + j] = x[j]
          BY <4>0, CatElements
        <4>3. (h \o x)[Len(h) + 1] = x[1]
          BY <4>1, <4>2
        <4>4. q = h \o x
          OBVIOUS
        <4> HIDE DEF q
        <4>5. q \in Seq(PieceType) /\ Len(q) = Len(h) + Len(x) /\ \A j \in 1..Len(h) : q[j] = h[j]
          BY <4>2, <4>4, Zenon
        <4>6. q[Len(h) + 1] = x[1]
          BY <4>3, <4>4, Zenon
        <4> QED
          BY <3>1, <4>5, <4>6, Zenon
      <3>3. (h \o u)[Len(h) + 1] = u[1]
        <4>1. 1 \in 1..Len(u)
          BY <1>2, <2>3
        <4> QED
          BY <1>2, <4>1, CatElements
      <3> HIDE DEF q
      <3>4. Len(q) <= Len(h \o u) /\ Len(q) > 0 /\ \A j \in 1..Len(q) : q[j] = (h \o u)[j]
        <4>1. \A j \in 1..Len(q) : j \in 1..Len(h) \/ j = Len(h) + 1
          BY <1>2, <3>2
        <4> QED
          BY <1>2, <1>4, <2>3, <3>2, <3>3, <4>1
      <3>5. Front1(q, Nth(i), r)
        BY <1>1, <3>2, <3>4, RecvHead DEF h, u
      <3>6. Len(q) > r.lines
        BY <1>2, <1>6, <1>8, <3>2
      <3>7. Total(q) = Pieces(r)
        <4>1. FindEnd(q) # 0
          BY <1>2, <1>5, <1>8, <3>2, <3>5, <3>6, FindEndLaw
        <4> QED
          BY <1>2, <1>5, <3>2, <3>5, <4>1, FindEndLaw
      <3>8. Pieces(r) <= Len(q)
        BY <1>2, <1>6, <1>8, <3>2
      <3>9. 1 \in 0..seenUp[i]
        BY <1>2, <2>3
      <3>10. Parsed(i, 1)
        BY <1>10, <2>1, <2>3, <3>7, <3>8, <3>9 DEF Parsed, Parse, q, x, h, u
      <3> QED
        BY <1>1, <1>3, <1>5, <3>10 DEF h
    <2> QED
      BY <2>1, <2>2, <2>3
  <1> QED
    BY <1>9, <1>10

\* The request at hand is the next one to be answered, complete.
LEMMA ProcessLaw ==
    ASSUME NetInv, StreamInv, NEW i \in Conns, srv[i] = "process"
    PROVE  /\ Nth(i) <= Len(sent[i]) /\ Asked(i) \in RequestType /\ Asked(i).err = 0
           /\ Len(req[i]) = Pieces(Asked(i)) /\ Front1(req[i], Nth(i), Asked(i))
           /\ Head(req[i]) = Piece(1, Nth(i), Asked(i))
           /\ (IF Len(req[i]) > FindEnd(req[i]) THEN Last(req[i]).n ELSE 0)
              = (IF Asked(i).len = 0 THEN 0 ELSE Nth(i))
  <1> DEFINE q == req[i]
             r == Asked(i)
  <1>1. /\ StreamOf(i) /\ Len(q) > 0 /\ Len(q) = Pieces(q[1].msg) /\ q[1].msg.err = 0
    BY DEF StreamInv, StreamOf, Active
  <1>2. q \in Seq(PieceType) /\ Stream(i) \in Seq(PieceType) /\ Len(q) \in Nat /\ Nth(i) \in Nat
    BY StreamTypes
  <1>3. Len(Stream(i)) >= Len(q) /\ \A j \in 1..Len(q) : Stream(i)[j] = q[j]
    <2> DEFINE s == held[i] \o up[i]
    <2>1. s \in Seq(PieceType) /\ Stream(i) = q \o s
      BY StreamTypes DEF Stream
    <2> HIDE DEF s, q
    <2>2. Len(s) \in Nat /\ Len(q \o s) = Len(q) + Len(s) /\ \A j \in 1..Len(q) : (q \o s)[j] = q[j]
      BY <1>2, <2>1, CatElements
    <2> QED
      BY <1>2, <2>1, <2>2
  <1> HIDE DEF q
  <1>4. Nth(i) <= Len(sent[i]) /\ r \in RequestType /\ Front1(q, Nth(i), r)
    <2>1. Flow(Stream(i), sent[i]) /\ Begins(Stream(i), sent[i], Len(answers[i]))
      BY <1>1 DEF StreamOf
    <2>2. Len(answers[i]) \in Nat /\ sent[i] \in Seq(RequestType) /\ Len(q) <= Len(Stream(i))
      BY <1>2, <1>3, StreamTypes
    <2>3. /\ Len(answers[i]) + 1 <= Len(sent[i]) /\ sent[i][Len(answers[i]) + 1] \in RequestType
          /\ Front1(q, Len(answers[i]) + 1, sent[i][Len(answers[i]) + 1])
      BY <1>1, <1>2, <1>3, <2>1, <2>2, FrontOf
    <2> QED
      BY <2>3 DEF Nth, Asked
  <1>5. Front1(q, Nth(i), r)
    BY <1>4
  <1>6. Pieces(r) \in Nat /\ Pieces(r) >= 2 /\ Pieces(r) = r.lines + 1 + r.len /\ r.lines \in Nat /\ r.len \in 0..1
    BY <1>4, PiecesNat
  <1>7. q[1] = Piece(1, Nth(i), r)
    BY <1>1, <1>5, <1>6 DEF Front1
  <1>8. r.err = 0 /\ Len(q) = Pieces(r)
    BY <1>1, <1>7 DEF Piece
  <1>9. Head(q) = q[1]
    BY <1>1, <1>2
  <1>10. FindEnd(q) = r.lines + 1
    BY <1>2, <1>4, <1>5, <1>6, <1>8, FindEndLaw
  <1>11. Last(q) = Piece(Len(q), Nth(i), r)
    <2>1. Len(q) \in 1..Len(q) /\ Len(q) <= Pieces(r)
      BY <1>1, <1>2, <1>8
    <2> QED
      BY <1>5, <2>1 DEF Front1, Last
  <1>12. Last(q).n = Nth(i)
    BY <1>11 DEF Piece
  <1> QED
    BY <1>4, <1>5, <1>6, <1>7, <1>8, <1>9, <1>10, <1>12 DEF q

-----------------------------------------------------------------------------
(* Every step keeps NetInv. *)

\* cleanup, and nothing else.
Quiet == UNCHANGED <<up, down, seenUp, seenDown, closedC, sent, scene, cliVars, req, res10, answers>>
LEMMA CleanupNet ==
    ASSUME NetInv, NEW i \in Conns, srv[i] # "none", Cleanup(i), Quiet
    PROVE  NetInv'
  <1>1. UpInv' /\ DownInv'
    BY StreamsSame DEF NetInv, Quiet
  <1>2. srv' = [srv EXCEPT ![i] = "end"] /\ held' = [held EXCEPT ![i] = <<>>]
    BY DEF Cleanup
  <1>3. held' \in [Conns -> Seq(PieceType)] /\ "end" \in ServerPlaces \ {"none"}
    BY <1>2 DEF NetInv, PlaceInv, ServerPlaces
  <1>4. PlaceInv'
    BY <1>2, <1>3, ServerMoves DEF NetInv, PlaceInv, Quiet, cliVars
  <1> QED
    BY <1>1, <1>4 DEF NetInv

\* The request that is taken from the buffer, and the rest of it.
LEMMA ParsedTypes ==
    ASSUME NetInv, NEW i \in Conns, NEW c \in 0..1, Asked(i) \in RequestType, Parsed(i, c)
    PROVE  LET q == held[i] \o SubSeq(up[i], 1, c)
               z == Pieces(Asked(i))
           IN  /\ c \in 0..seenUp[i] /\ c \in 0..Len(up[i]) /\ q \in Seq(PieceType) /\ z \in 0..Len(q) /\ z >= 2
               /\ SubSeq(q, 1, z) \in Seq(PieceType) /\ SubSeq(q, z + 1, Len(q)) \in Seq(PieceType)
               /\ Len(SubSeq(q, 1, z)) = z /\ req'[i] = SubSeq(q, 1, z) /\ held'[i] = SubSeq(q, z + 1, Len(q))
               /\ req' \in [Conns -> Seq(PieceType)] /\ held' \in [Conns -> Seq(PieceType)]
               /\ \A j \in Conns : j # i => req'[j] = req[j] /\ held'[j] = held[j]
  <1> DEFINE x == SubSeq(up[i], 1, c)
             q == held[i] \o x
             z == Pieces(Asked(i))
  <1>1. c \in 0..seenUp[i] /\ c \in 0..Len(up[i])
    BY StreamTypes DEF Parsed
  <1>2. x \in Seq(PieceType) /\ held[i] \in Seq(PieceType) /\ up[i] \in Seq(PieceType)
    BY <1>1, StreamTypes, CutElements
  <1> HIDE DEF x
  <1>3. q \in Seq(PieceType) /\ Len(q) \in Nat
    BY <1>2, CatElements
  <1>4. z \in Nat /\ z >= 2 /\ z <= Len(q)
    BY PiecesNat DEF Parsed, x
  <1>5. req' = [req EXCEPT ![i] = SubSeq(q, 1, z)] /\ held' = [held EXCEPT ![i] = SubSeq(q, z + 1, Len(q))]
    BY DEF Parsed, x
  <1> HIDE DEF q, z
  <1>6. z \in 0..Len(q)
    BY <1>3, <1>4
  <1>7. /\ SubSeq(q, 1, z) \in Seq(PieceType) /\ SubSeq(q, z + 1, Len(q)) \in Seq(PieceType)
        /\ Len(SubSeq(q, 1, z)) = z
    BY <1>3, <1>6, CutElements
  <1>8. /\ req' \in [Conns -> Seq(PieceType)] /\ held' \in [Conns -> Seq(PieceType)]
        /\ req'[i] = SubSeq(q, 1, z) /\ held'[i] = SubSeq(q, z + 1, Len(q))
        /\ \A j \in Conns : j # i => req'[j] = req[j] /\ held'[j] = held[j]
    BY <1>5, <1>7 DEF NetInv, PlaceInv
  <1> QED
    BY <1>1, <1>3, <1>4, <1>6, <1>7, <1>8 DEF q, z, x

LEMMA ErrorAnswerType ==
    ASSUME NetInv, NEW i \in Conns, Asked(i) \in RequestType
    PROVE  ErrorAnswer(i) \in AnswerType
  <1>1. Nth(i) \in Nat
    BY StreamTypes
  <1> QED
    BY <1>1 DEF ErrorAnswer, AnswerType, RequestType

\* parse_req and the receiving of a body.
LEMMA ParseNet ==
    ASSUME NetInv, StreamInv, NEW i \in Conns, ParseReq(i)
    PROVE  NetInv'
  <1>1. /\ srv[i] = "recv" /\ Asked(i) \in RequestType
        /\ UNCHANGED <<seenDown, closedC, sent, scene, cliVars, res10>>
    BY ParseReqLaw
  <1>2. "failed" \in ServerPlaces \ {"none"} /\ "process" \in ServerPlaces \ {"none"}
    BY DEF ServerPlaces
  <1>3. ASSUME srv' = [srv EXCEPT ![i] = "failed"], UNCHANGED <<up, seenUp, held, req>>,
               NEW all \in BOOLEAN, Respond(i, ErrorAnswer(i), all)
        PROVE  NetInv'
    <2>1. UpInv'
      BY <1>1, <1>3, StreamsSame DEF NetInv
    <2>2. DownInv' /\ \A j \in Conns : j # i => down'[j] = down[j] /\ answers'[j] = answers[j]
      BY <1>1, <1>3, ErrorAnswerType, Responds DEF NetInv
    <2>3. PlaceInv'
      BY <1>1, <1>2, <1>3, <2>2, ServerMoves DEF NetInv, PlaceInv, cliVars
    <2> QED
      BY <2>1, <2>2, <2>3 DEF NetInv
  <1>4. ASSUME NEW c \in 0..1, Parsed(i, c) PROVE NetInv'
    <2>1. c \in 0..seenUp[i] /\ req' \in [Conns -> Seq(PieceType)] /\ held' \in [Conns -> Seq(PieceType)]
      BY <1>1, <1>4, ParsedTypes
    <2>2. TakeUp(i, c) /\ srv' = [srv EXCEPT ![i] = "process"] /\ UNCHANGED <<down, answers>>
      BY <1>4 DEF Parsed
    <2>3. UpInv'
      BY <1>1, <2>1, <2>2, UpTaken DEF NetInv
    <2>4. DownInv'
      BY <1>1, <2>2, StreamsSame DEF NetInv
    <2>5. PlaceInv'
      BY <1>1, <1>2, <2>1, <2>2, ServerMoves DEF NetInv, PlaceInv, cliVars
    <2> QED
      BY <2>3, <2>4, <2>5 DEF NetInv
  <1> QED
    BY <1>3, <1>4, ParseReqLaw

\* The response to a request, and the end of the connection, if it is due.
Answer(i) ==
    [n |-> Nth(i), status |-> 200, http10 |-> res10[i] \/ Asked(i).http10,
     body |-> (IF Asked(i).len = 0 THEN 0 ELSE Nth(i)), msg |-> Asked(i)]
LEMMA ProcessSteps ==
    ASSUME NetInv, StreamInv, NEW i \in Conns, NEW all \in BOOLEAN, Process(i, all)
    PROVE  /\ srv[i] = "process" /\ Answer(i) \in AnswerType /\ Respond(i, Answer(i), all)
           /\ req' = [req EXCEPT ![i] = <<>>] /\ res10' \in [Conns -> BOOLEAN]
           /\ UNCHANGED <<up, seenUp, seenDown, closedC, sent, scene, cliVars>>
           /\ \/ all /\ NeedClose(Asked(i)) /\ Cleanup(i)
              \/ /\ ~(all /\ NeedClose(Asked(i))) /\ UNCHANGED <<closedS, connNum, held, buf, poolVars>>
                 /\ srv' = [srv EXCEPT ![i] = IF all THEN "recv" ELSE "failed"]
  <1> DEFINE r == Asked(i)
             m == Head(req[i])
             body == IF Len(req[i]) > FindEnd(req[i]) THEN Last(req[i]).n ELSE 0
             ten == res10[i] \/ m.msg.http10
  <1>1. srv[i] = "process" /\ UNCHANGED <<up, seenUp, seenDown, closedC, sent, scene, cliVars>>
    BY DEF Process
  <1>2. r \in RequestType /\ m = Piece(1, Nth(i), r) /\ body = (IF r.len = 0 THEN 0 ELSE Nth(i))
    BY <1>1, ProcessLaw
  <1>3. m.msg = r /\ m.n = Nth(i)
    BY <1>2 DEF Piece
  <1>4. Nth(i) \in Nat /\ res10 \in [Conns -> BOOLEAN] /\ r.http10 \in BOOLEAN
    BY <1>2, StreamTypes DEF NetInv, PlaceInv, RequestType
  <1>5. Answer(i) \in AnswerType
    BY <1>2, <1>4 DEF Answer, AnswerType
  <1>6. Answer(i) = [n |-> m.n, status |-> 200, http10 |-> ten, body |-> body, msg |-> m.msg]
    BY <1>2, <1>3 DEF Answer
  <1>7. /\ Respond(i, [n |-> m.n, status |-> 200, http10 |-> ten, body |-> body, msg |-> m.msg], all)
        /\ res10' = [res10 EXCEPT ![i] = ten]
        /\ req' = [req EXCEPT ![i] = <<>>]
        /\ IF all /\ NeedClose(m.msg) THEN Cleanup(i)
           ELSE /\ srv' = [srv EXCEPT ![i] = IF all THEN "recv" ELSE "failed"]
                /\ UNCHANGED <<closedS, connNum, held, buf, poolVars>>
    BY DEF Process
  <1>8. Respond(i, Answer(i), all)
    BY <1>6, <1>7
  <1>9. res10' \in [Conns -> BOOLEAN]
    BY <1>3, <1>4, <1>7
  <1> QED
    BY <1>1, <1>3, <1>5, <1>7, <1>8, <1>9

LEMMA ProcessNet ==
    ASSUME NetInv, StreamInv, NEW i \in Conns, NEW all \in BOOLEAN, Process(i, all)
    PROVE  NetInv'
  <1>1. UpInv'
    BY ProcessSteps, StreamsSame DEF NetInv
  <1>2. DownInv' /\ \A j \in Conns : j # i => down'[j] = down[j] /\ answers'[j] = answers[j]
    BY ProcessSteps, Responds DEF NetInv
  <1>3. req' \in [Conns -> Seq(PieceType)]
    <2>1. req \in [Conns -> Seq(PieceType)] /\ <<>> \in Seq(PieceType)
      BY DEF NetInv, PlaceInv
    <2>2. req' = [req EXCEPT ![i] = <<>>]
      BY ProcessSteps
    <2> QED
      BY <2>1, <2>2
  <1>4. PICK p \in {"end", "recv", "failed"} : srv' = [srv EXCEPT ![i] = p]
    BY ProcessSteps DEF Cleanup
  <1>5. p \in ServerPlaces \ {"none"}
    BY DEF ServerPlaces
  <1>6. held' \in [Conns -> Seq(PieceType)]
    <2>1. held \in [Conns -> Seq(PieceType)] /\ <<>> \in Seq(PieceType)
      BY DEF NetInv, PlaceInv
    <2>2. held' = held \/ held' = [held EXCEPT ![i] = <<>>]
      BY ProcessSteps DEF Cleanup
    <2> QED
      BY <2>1, <2>2
  <1>7. srv[i] = "process" /\ res10' \in [Conns -> BOOLEAN] /\ UNCHANGED <<closedC, sent, scene, cliVars>>
    BY ProcessSteps
  <1>8. PlaceInv'
    BY <1>2, <1>3, <1>4, <1>5, <1>6, <1>7, ServerMoves DEF NetInv, cliVars
  <1> QED
    BY <1>1, <1>2, <1>8 DEF NetInv

\* The rest of the server.
LEMMA ServerNet ==
    ASSUME NetInv, NEW i \in Conns,
           \/ ServerStart(i) \/ RecvFirst(i) \/ RecvIdle(i) \/ RecvHeader(i)
           \/ RecvZero(i) \/ RecvErr(i) \/ ServerReset(i)
    PROVE  NetInv'
  <1>1. /\ srv \in [Conns -> ServerPlaces] /\ res10 \in [Conns -> BOOLEAN] /\ held \in [Conns -> Seq(PieceType)]
        /\ req \in [Conns -> Seq(PieceType)] /\ PlaceInv /\ UpInv /\ DownInv
    BY DEF NetInv, PlaceInv
  <1>2. {"recv", "failed"} \subseteq ServerPlaces \ {"none"}
    BY DEF ServerPlaces
  <1>3. ASSUME NEW p \in {"recv", "failed"}, srv[i] # "none", srv' = [srv EXCEPT ![i] = p],
               UNCHANGED <<up, down, seenUp, seenDown, closedC, sent, scene, cliVars, held, req, res10, answers>>
        PROVE  NetInv'
    <2>1. UpInv' /\ DownInv'
      BY <1>1, <1>3, StreamsSame
    <2>2. PlaceInv'
      BY <1>1, <1>2, <1>3, ServerMoves DEF cliVars
    <2> QED
      BY <2>1, <2>2 DEF NetInv
  <1>4. ASSUME NEW n \in 0..seenUp[i], TakeUp(i, n), srv[i] = "recv", srv' = srv,
               held' \in [Conns -> Seq(PieceType)],
               UNCHANGED <<down, seenDown, closedC, sent, scene, cliVars, req, res10, answers>>
        PROVE  NetInv'
    <2>1. UpInv' /\ DownInv'
      BY <1>1, <1>4, UpTaken, StreamsSame
    <2>2. srv' = [srv EXCEPT ![i] = "recv"]
      BY <1>1, <1>4
    <2>3. PlaceInv'
      BY <1>1, <1>2, <1>4, <2>2, ServerMoves DEF cliVars
    <2> QED
      BY <2>1, <2>3 DEF NetInv
  <1>5. CASE ServerStart(i)
    BY <1>3, <1>5 DEF ServerStart, netVars
  <1>6. CASE RecvErr(i)
    BY <1>3, <1>6 DEF RecvErr, netVars
  <1>7. CASE RecvIdle(i)
    BY <1>7, CleanupNet DEF RecvIdle, Quiet
  <1>8. CASE RecvZero(i)
    BY <1>8, CleanupNet DEF RecvZero, Quiet
  <1>9. CASE ServerReset(i)
    BY <1>9, CleanupNet DEF ServerReset, Quiet
  <1>10. CASE RecvFirst(i)
    <2>1. /\ srv[i] = "recv" /\ TakeUp(i, 1) /\ held' = [held EXCEPT ![i] = SubSeq(up[i], 1, 1)] /\ seenUp[i] > 0
          /\ UNCHANGED <<down, seenDown, closedC, sent, scene, cliVars, srv, req, res10, answers>>
      BY <1>10 DEF RecvFirst
    <2>2. 1 \in 0..seenUp[i] /\ 1 \in 0..Len(up[i]) /\ up[i] \in Seq(PieceType)
      BY <2>1, StreamTypes
    <2>3. SubSeq(up[i], 1, 1) \in Seq(PieceType)
      BY <2>2, CutElements
    <2>4. held' \in [Conns -> Seq(PieceType)]
      BY <1>1, <2>1, <2>3
    <2> QED
      BY <1>4, <2>1, <2>2, <2>4
  <1>11. CASE RecvHeader(i)
    <2> DEFINE n == seenUp[i]
               x == SubSeq(up[i], 1, n)
    <2>1. /\ srv[i] = "recv" /\ UNCHANGED <<down, seenDown, closedC, sent, scene, cliVars, req, res10, answers>>
          /\ \/ srv' = [srv EXCEPT ![i] = "failed"] /\ UNCHANGED <<up, seenUp, held>>
             \/ held' = [held EXCEPT ![i] = held[i] \o x] /\ TakeUp(i, n) /\ UNCHANGED srv
      BY <1>11 DEF RecvHeader
    <2>2. n \in 0..n /\ n \in 0..Len(up[i]) /\ up[i] \in Seq(PieceType) /\ held[i] \in Seq(PieceType)
      BY StreamTypes
    <2>3. x \in Seq(PieceType)
      BY <2>2, CutElements
    <2> HIDE DEF x
    <2>4. held[i] \o x \in Seq(PieceType)
      BY <2>2, <2>3, CatElements
    <2>5. CASE srv' = [srv EXCEPT ![i] = "failed"] /\ UNCHANGED <<up, seenUp, held>>
      BY <1>3, <2>1, <2>5
    <2>6. CASE held' = [held EXCEPT ![i] = held[i] \o x] /\ TakeUp(i, n) /\ UNCHANGED srv
      <3>1. held' \in [Conns -> Seq(PieceType)]
        BY <1>1, <2>4, <2>6
      <3> QED
        BY <1>4, <2>1, <2>2, <2>6, <3>1
    <2> QED
      BY <2>1, <2>5, <2>6
  <1> QED
    BY <1>5, <1>6, <1>7, <1>8, <1>9, <1>10, <1>11

\* The network and the peers.
LEMMA PeersNet ==
    ASSUME NetInv, NEW i \in Conns,
           DeliverUp(i) \/ DeliverDown(i) \/ (i \in scene.foreign /\ (PeerSends(i) \/ PeerCloses(i)))
    PROVE  NetInv'
  <1>1. UpInv /\ DownInv /\ PlaceInv
    BY DEF NetInv
  <1>2. CASE DeliverUp(i)
    <2>1. UpInv'
      BY <1>1, <1>2 DEF UpInv, DeliverUp
    <2>2. DownInv' /\ PlaceInv'
      BY <1>1, <1>2 DEF DownInv, PlaceInv, DeliverUp, cliVars, srvVars
    <2> QED
      BY <2>1, <2>2 DEF NetInv
  <1>3. CASE DeliverDown(i)
    <2>1. DownInv'
      BY <1>1, <1>3 DEF DownInv, DeliverDown, srvVars
    <2>2. UpInv' /\ PlaceInv'
      BY <1>1, <1>3 DEF UpInv, PlaceInv, DeliverDown, cliVars, srvVars
    <2> QED
      BY <2>1, <2>2 DEF NetInv
  <1>4. CASE i \in scene.foreign /\ PeerSends(i)
    <2>1. PICK r \in Requests : Send(i, r, TRUE)
      BY <1>4 DEF PeerSends
    <2>2. r \in RequestType
      BY Constants
    <2>3. UpInv' /\ \A j \in Conns : j # i => sent'[j] = sent[j]
      BY <1>1, <1>4, <2>1, <2>2, Sends DEF PeerSends
    <2>4. DownInv'
      BY <1>1, <1>4, StreamsSame DEF PeerSends, srvVars
    <2>5. \A j \in Conns : srv[j] = "none" => sent'[j] = sent[j]
      BY <1>1, <1>4, <2>3 DEF PlaceInv
    <2>6. PlaceInv'
      BY <1>1, <1>4, <2>5 DEF PlaceInv, PeerSends, cliVars, srvVars
    <2> QED
      BY <2>3, <2>4, <2>6 DEF NetInv
  <1>5. CASE i \in scene.foreign /\ PeerCloses(i)
    <2>1. UpInv' /\ DownInv'
      BY <1>1, <1>5, StreamsSame DEF PeerCloses, srvVars
    <2>2. i # cfd /\ srv[i] # "none"
      BY <1>1, <1>5, Constants DEF PlaceInv
    <2>3. PlaceInv'
      BY <1>1, <1>5, <2>2 DEF PlaceInv, PeerCloses, cliVars, srvVars
    <2> QED
      BY <2>1, <2>3 DEF NetInv
  <1> QED
    BY <1>2, <1>3, <1>4, <1>5

\* Where the client has a connection.
LEMMA ClientHas ==
    ASSUME NetInv, cli \in {"send", "head", "body"}
    PROVE  cfd \in Conns /\ cfd # 0 /\ srv[cfd] # "none"
  BY Constants DEF NetInv, PlaceInv

\* A call fails.
LEMMA FailsNet ==
    ASSUME NetInv, cli \in {"send", "head", "body"}, NEW status, CallFails(status), UpInv', DownInv',
           UNCHANGED <<srv, res10, held, req, scene, answers>>,
           \A j \in Conns : j # cfd => sent'[j] = sent[j] /\ down'[j] = down[j]
    PROVE  NetInv'
  <1>1. cfd \in Conns
    BY ClientHas
  <1>2. /\ cli' = "idle" /\ cbuf' = <<>> /\ cfd' = 0 /\ closedC' = closedC \cup {cfd} /\ calls' = calls
        /\ got' = got \cup {[call |-> calls, status |-> status, n |-> 0, fd |-> cfd]}
    BY DEF CallFails
  <1>3. cbuf' \in Seq(PieceType) /\ Len(cbuf') = 0 /\ cli' \in ClientPlaces
    BY <1>2 DEF ClientPlaces
  <1>4. \A g \in got' : g \in got \/ g.fd = cfd
    BY <1>2
  <1>5. PlaceInv'
    BY <1>1, <1>2, <1>3, <1>4, ClientMoves DEF NetInv
  <1> QED
    BY <1>5 DEF NetInv

\* The client.
LEMMA ClientNet ==
    ASSUME NetInv, Call \/ ClientStep
    PROVE  NetInv'
  <1>1. UpInv /\ DownInv /\ PlaceInv
    BY DEF NetInv
  <1>2. CASE Call
    <2>1. UpInv' /\ DownInv'
      BY <1>1, <1>2, StreamsSame DEF Call, Idle, netVars, srvVars
    <2>2. PlaceInv'
      BY <1>1, <1>2 DEF PlaceInv, Call, Idle, netVars, srvVars, ClientPlaces
    <2> QED
      BY <2>1, <2>2 DEF NetInv
  <1>3. CASE Connect
    <2>1. UpInv' /\ DownInv'
      BY <1>1, <1>3, StreamsSame DEF Connect, netVars
    <2>2. UNCHANGED <<netVars, cbuf, calls, held, req, res10, answers>> /\ cli = "connect" /\ cfd = 0
      BY <1>1, <1>3 DEF Connect, PlaceInv
    <2>3. ASSUME NEW i \in Conns, srv[i] = "none", cfd' = i, cli' = "send", srv' = [srv EXCEPT ![i] = "new"],
                 got' = got
          PROVE  PlaceInv'
      <3>1. srv' \in [Conns -> ServerPlaces] /\ \A j \in Conns : srv'[j] = "none" => srv[j] = "none"
        BY <1>1, <2>3 DEF PlaceInv, ServerPlaces
      <3>2. cfd' \in 0..MaxConn /\ cfd' # 0 /\ cli' \in ClientPlaces /\ srv'[i] = "new"
        BY <1>1, <2>3, Constants DEF PlaceInv, ClientPlaces
      <3>3. i \notin closedC /\ i \notin scene.foreign
        BY <1>1, <2>3 DEF PlaceInv
      <3> QED
        BY <1>1, <2>2, <2>3, <3>1, <3>2, <3>3 DEF PlaceInv, netVars
    <2>4. ASSUME cli' = "idle", UNCHANGED <<cfd, srv>>,
                 got' = got \cup {[call |-> calls, status |-> 577, n |-> 0, fd |-> 0]}
          PROVE  PlaceInv'
      <3>1. \A g \in got' : g \in got \/ g.fd = 0
        BY <2>4
      <3>2. ASSUME NEW i \in Conns, srv[i] = "none" PROVE \A g \in got' : g.fd # i
        <4>1. i # 0 /\ \A g \in got : g.fd # i
          BY <1>1, <3>2, Constants DEF PlaceInv
        <4> QED
          BY <3>1, <4>1
      <3> QED
        BY <1>1, <2>2, <2>4, <3>2 DEF PlaceInv, netVars, ClientPlaces
    <2> QED
      BY <1>3, <2>1, <2>3, <2>4 DEF Connect, NetInv
  <1>4. CASE SendRequest
    <2>1. PICK r \in {q \in Requests : q.err = 0} :
             \/ Send(cfd, r, TRUE) /\ cli' = "head" /\ UNCHANGED <<cfd, cbuf, calls, got, closedC>>
             \/ \E status \in {579, 581} : Send(cfd, r, FALSE) /\ CallFails(status)
      BY <1>4 DEF SendRequest
    <2>2. r \in RequestType /\ cfd \in Conns /\ cli = "send"
      BY <1>4, Constants, ClientHas DEF SendRequest
    <2>3. UNCHANGED <<down, seenUp, seenDown, closedS, scene, srv, res10, held, req, answers>>
      BY <1>4 DEF SendRequest, Idle, srvVars
    <2>4. DownInv'
      BY <1>1, <2>3, StreamsSame
    <2>5. CASE Send(cfd, r, TRUE) /\ cli' = "head" /\ UNCHANGED <<cfd, cbuf, calls, got, closedC>>
      <3>1. UpInv' /\ \A j \in Conns : j # cfd => sent'[j] = sent[j]
        BY <1>1, <2>2, <2>3, <2>5, Sends
      <3>2. cbuf' \in Seq(PieceType) /\ cli' \in ClientPlaces
        BY <1>1, <2>5 DEF PlaceInv, ClientPlaces
      <3>3. PlaceInv'
        BY <1>1, <2>2, <2>3, <2>5, <3>1, <3>2, ClientMoves
      <3> QED
        BY <2>4, <3>1, <3>3 DEF NetInv
    <2>6. ASSUME NEW status, Send(cfd, r, FALSE), CallFails(status) PROVE NetInv'
      <3>1. UpInv' /\ \A j \in Conns : j # cfd => sent'[j] = sent[j]
        BY <1>1, <2>2, <2>3, <2>6, Sends
      <3> QED
        BY <2>2, <2>3, <2>4, <2>6, <3>1, FailsNet
    <2>7. CASE \E status \in {579, 581} : Send(cfd, r, FALSE) /\ CallFails(status)
      <3>1. PICK status \in {579, 581} : Send(cfd, r, FALSE) /\ CallFails(status)
        BY <2>7
      <3> QED
        BY <2>6, <3>1
    <2> QED
      BY <2>1, <2>5, <2>7
  <1>5. ASSUME cfd \in Conns, NEW n \in 0..seenDown[cfd], TakeDown(cfd, n), cli \in {"head", "body"},
               UNCHANGED <<up, seenUp, closedS, sent, scene, srvVars>>,
               \/ \E status : CallFails(status)
               \/ /\ UNCHANGED <<cfd, calls, closedC>> /\ cli' \in {"idle", "head", "body"}
                  /\ cbuf' \in Seq(PieceType) /\ (cli' \in {"head", "body"} \/ Len(cbuf') = 0)
                  /\ \A g \in got' : g \in got \/ g.fd = cfd
        PROVE  NetInv'
    <2>1. UpInv' /\ DownInv' /\ \A j \in Conns : j # cfd => down'[j] = down[j]
      BY <1>1, <1>5, StreamsSame, DownTaken DEF srvVars
    <2>2. UNCHANGED <<srv, res10, held, req, scene, answers, sent>>
      BY <1>5 DEF srvVars
    <2>3. ASSUME NEW status, CallFails(status) PROVE NetInv'
      BY <1>5, <2>1, <2>2, <2>3, FailsNet
    <2>4. ASSUME UNCHANGED <<cfd, calls, closedC>>, cli' \in {"idle", "head", "body"},
                 cbuf' \in Seq(PieceType), cli' \in {"head", "body"} \/ Len(cbuf') = 0,
                 \A g \in got' : g \in got \/ g.fd = cfd
          PROVE  NetInv'
      <3>1. cli' \in ClientPlaces
        BY <2>4 DEF ClientPlaces
      <3>2. PlaceInv'
        BY <1>1, <1>5, <2>1, <2>2, <2>4, <3>1, ClientMoves
      <3> QED
        BY <2>1, <3>2 DEF NetInv
    <2> QED
      BY <1>5, <2>3, <2>4
  <1>6. CASE RecvResponse
    <2> DEFINE n == seenDown[cfd]
               x == SubSeq(down[cfd], 1, n)
               q == cbuf \o x
    <2>1. cli = "head" /\ cfd \in Conns
      BY <1>6, ClientHas DEF RecvResponse
    <2>2. n \in 0..n /\ n \in 0..Len(down[cfd]) /\ down[cfd] \in Seq(PieceType) /\ cbuf \in Seq(PieceType)
      BY <1>1, <2>1 DEF DownInv, PlaceInv
    <2>3. x \in Seq(PieceType)
      BY <2>2, CutElements
    <2>4. TakeDown(cfd, n) /\ UNCHANGED <<up, seenUp, closedS, sent, scene, srvVars>>
      BY <1>6 DEF RecvResponse, Idle
    <2>5. \/ CallFails(500)
          \/ /\ got' = got \cup {[call |-> calls, status |-> 200, n |-> q[FindEnd(q)].n, fd |-> cfd]}
             /\ cli' = "idle" /\ cbuf' = <<>> /\ UNCHANGED <<cfd, calls, closedC>>
          \/ cli' \in {"head", "body"} /\ cbuf' = q /\ UNCHANGED <<cfd, calls, got, closedC>>
      BY <1>6 DEF RecvResponse
    <2> HIDE DEF x
    <2>6. q \in Seq(PieceType) /\ <<>> \in Seq(PieceType) /\ Len(<<>>) = 0
      BY <2>2, <2>3, CatElements
    <2> HIDE DEF n, q
    <2>7. \/ \E status : CallFails(status)
          \/ /\ UNCHANGED <<cfd, calls, closedC>> /\ cli' \in {"idle", "head", "body"}
             /\ cbuf' \in Seq(PieceType) /\ (cli' \in {"head", "body"} \/ Len(cbuf') = 0)
             /\ \A g \in got' : g \in got \/ g.fd = cfd
      <3>1. CASE CallFails(500)
        BY <3>1
      <3>2. CASE /\ got' = got \cup {[call |-> calls, status |-> 200, n |-> q[FindEnd(q)].n, fd |-> cfd]}
                 /\ cli' = "idle" /\ cbuf' = <<>> /\ UNCHANGED <<cfd, calls, closedC>>
        BY <2>6, <3>2
      <3>3. CASE cli' \in {"head", "body"} /\ cbuf' = q /\ UNCHANGED <<cfd, calls, got, closedC>>
        BY <2>6, <3>3
      <3> QED
        BY <2>5, <3>1, <3>2, <3>3
    <2> QED
      BY <1>5, <2>1, <2>2, <2>4, <2>7 DEF n
  <1>7. CASE RecvBody
    <2>1. cli = "body" /\ cfd \in Conns /\ 1 \in 0..seenDown[cfd]
      BY <1>1, <1>7, ClientHas DEF RecvBody, DownInv
    <2>2. cbuf' \in Seq(PieceType) /\ Len(cbuf') = 0 /\ cli' = "idle" /\ UNCHANGED <<cfd, calls, closedC>>
      BY <1>7 DEF RecvBody
    <2>3. \A g \in got' : g \in got \/ g.fd = cfd
      BY <1>7 DEF RecvBody
    <2>4. TakeDown(cfd, 1) /\ UNCHANGED <<up, seenUp, closedS, sent, scene, srvVars>>
      BY <1>7 DEF RecvBody, Idle
    <2> QED
      BY <1>5, <2>1, <2>2, <2>3, <2>4
  <1>8. CASE RecvFails
    <2>1. PICK status : CallFails(status)
      BY <1>8 DEF RecvFails
    <2>2. cli \in {"head", "body"} /\ UNCHANGED <<up, down, seenUp, seenDown, closedS, sent, scene, srvVars>>
      BY <1>8 DEF RecvFails, Idle
    <2>3. UpInv' /\ DownInv'
      BY <1>1, <2>2, StreamsSame DEF srvVars
    <2> QED
      BY <2>1, <2>2, <2>3, FailsNet DEF srvVars
  <1> QED
    BY <1>2, <1>3, <1>4, <1>6, <1>7, <1>8 DEF ClientStep

LEMMA InitNet ==
    Init => NetInv
  <1> SUFFICES ASSUME Init PROVE NetInv
    OBVIOUS
  <1>1. scene \in SceneType /\ 0 \in 0..MaxConn
    BY Constants DEF Init
  <1>2. UpInv /\ DownInv
    BY DEF Init, UpInv, DownInv
  <1>3. srv \in [Conns -> ServerPlaces] /\ \A i \in Conns : srv[i] = "none" => i \notin scene.foreign
    BY DEF Init, ServerPlaces
  <1>4. PlaceInv
    BY <1>1, <1>3 DEF Init, PlaceInv, ClientPlaces
  <1> QED
    BY <1>2, <1>4 DEF NetInv

LEMMA NextNet ==
    ASSUME NetInv, StreamInv, [Next]_vars
    PROVE  NetInv'
  <1>1. CASE Call \/ ClientStep
    BY <1>1, ClientNet
  <1>2. ASSUME NEW i \in Conns, DeliverUp(i) \/ DeliverDown(i) PROVE NetInv'
    BY <1>2, PeersNet
  <1>3. ASSUME NEW i \in Conns, ServerStep(i) PROVE NetInv'
    BY <1>3, ServerNet, ParseNet, ProcessNet DEF ServerStep
  <1>4. ASSUME NEW i \in scene.foreign, PeerSends(i) \/ PeerCloses(i) PROVE NetInv'
    <2>1. i \in Conns
      BY DEF NetInv, PlaceInv, SceneType
    <2> QED
      BY <1>4, <2>1, PeersNet
  <1>5. CASE UNCHANGED vars
    BY <1>5 DEF vars, netVars, cliVars, srvVars, NetInv, UpInv, DownInv, PlaceInv
  <1> QED
    BY <1>1, <1>2, <1>3, <1>4, <1>5 DEF Next

-----------------------------------------------------------------------------
(* Every step keeps the order of a connection's requests and answers. *)
ConnInv(i) == (Active(i) => StreamOf(i)) /\ AnswersOf(i)

\* The streams, the requests and the answers of a connection stay, and the
\* server stays where it was or gives up.
LEMMA ConnSame ==
    ASSUME NEW i \in Conns, ConnInv(i), answers'[i] = answers[i], sent'[i] = sent[i],
           Active(i)' => /\ Active(i) /\ Stream(i)' = Stream(i) /\ req'[i] = req[i]
                         /\ srv'[i] = "process" <=> srv[i] = "process"
                         /\ i \in closedC => i \in closedC'
    PROVE  ConnInv(i)'
  <1>1. AnswersOf(i)'
    BY DEF ConnInv, AnswersOf, AnswerOf
  <1>2. ASSUME Active(i)' PROVE StreamOf(i)'
    <2>1. StreamOf(i)
      BY <1>2 DEF ConnInv
    <2>2. Flow(Stream(i), sent[i])' /\ Begins(Stream(i), sent[i], Len(answers[i]))'
      BY <1>2, <2>1 DEF StreamOf, Flow, Follows, Begins
    <2>3. (i \notin closedC => Ends(Stream(i), sent[i], Len(answers[i])))'
      BY <1>2, <2>1 DEF StreamOf, Ends
    <2> QED
      BY <1>2, <2>1, <2>2, <2>3 DEF StreamOf
  <1> QED
    BY <1>1, <1>2 DEF ConnInv

Still(i) ==
    /\ srv'[i] = srv[i] /\ held'[i] = held[i] /\ req'[i] = req[i] /\ up'[i] = up[i]
    /\ sent'[i] = sent[i] /\ answers'[i] = answers[i] /\ (i \in closedC => i \in closedC')
LEMMA StillConn ==
    ASSUME NEW i \in Conns, ConnInv(i), Still(i)
    PROVE  ConnInv(i)'
  <1>1. Stream(i)' = Stream(i) /\ (Active(i)' <=> Active(i))
    BY DEF Still, Stream, Active
  <1> QED
    BY <1>1, ConnSame DEF Still

\* The server leaves the loop, and no answer is sent.
LEMMA GivesUp ==
    ASSUME NEW i \in Conns, ConnInv(i), srv'[i] \in {"failed", "end"}, answers'[i] = answers[i], sent'[i] = sent[i]
    PROVE  ConnInv(i)'
  <1>1. ~Active(i)'
    BY DEF Active
  <1> QED
    BY <1>1, ConnSame

\* A request is sent, in part only if the connection is closed.
LEMMA SentConn ==
    ASSUME NetInv, NEW i \in Conns, ConnInv(i), NEW r \in RequestType, NEW all \in BOOLEAN, Send(i, r, all),
           UNCHANGED <<srv, held, req, answers, seenUp>>, i \notin closedC, ~all => i \in closedC'
    PROVE  ConnInv(i)'
  <1>1. /\ sent'[i] = Append(sent[i], r) /\ Len(sent[i]) \in Nat
        /\ \E m \in Seq(PieceType) :
              /\ up'[i] = up[i] \o m
              /\ Len(m) > 0 /\ Len(m) <= Pieces(r) /\ (all => Len(m) = Pieces(r))
              /\ \A j \in 1..Len(m) : m[j] = Piece(j, Len(sent[i]) + 1, r)
    BY Sends DEF NetInv
  <1>2. /\ req[i] \in Seq(PieceType) /\ held[i] \in Seq(PieceType) /\ up[i] \in Seq(PieceType)
        /\ held[i] \o up[i] \in Seq(PieceType) /\ Stream(i) \in Seq(PieceType) /\ sent[i] \in Seq(RequestType)
        /\ Len(answers[i]) \in Nat
    BY StreamTypes
  <1>3. PICK m \in Seq(PieceType) :
              /\ up'[i] = up[i] \o m
              /\ Len(m) > 0 /\ Len(m) <= Pieces(r) /\ (all => Len(m) = Pieces(r))
              /\ \A j \in 1..Len(m) : m[j] = Piece(j, Len(sent[i]) + 1, r)
    BY <1>1
  <1>4. /\ Len(sent'[i]) = Len(sent[i]) + 1 /\ \A k \in 1..Len(sent[i]) : sent'[i][k] = sent[i][k]
    BY <1>1, <1>2, AppendProperties
  <1>5. \A k \in 1..Len(answers[i]) : sent'[i][k] = sent[i][k]
    BY <1>1, <1>2, <1>4 DEF ConnInv, AnswersOf
  <1>6. AnswersOf(i)'
    <2>1. Len(answers'[i]) <= Len(sent'[i])
      BY <1>1, <1>2, <1>4 DEF ConnInv, AnswersOf
    <2>2. ASSUME NEW k \in 1..Len(answers[i]) PROVE AnswerOf(i, k)'
      <3>1. AnswerOf(i, k) /\ sent'[i][k] = sent[i][k] /\ answers'[i] = answers[i]
        BY <1>5 DEF ConnInv, AnswersOf
      <3> QED
        BY <3>1 DEF AnswerOf
    <2> QED
      BY <2>1, <2>2 DEF AnswersOf
  <1>7. ASSUME Active(i)' PROVE StreamOf(i)'
    <2>1. Active(i) /\ StreamOf(i)
      BY <1>7 DEF ConnInv, Active
    <2>2. Stream(i)' = Stream(i) \o m
      <3> DEFINE a == req[i]
                 b == held[i]
                 c == up[i]
      <3>1. a \in Seq(PieceType) /\ b \in Seq(PieceType) /\ c \in Seq(PieceType) /\ b \o c \in Seq(PieceType)
        BY <1>2
      <3>2. Stream(i)' = a \o (b \o (c \o m)) /\ Stream(i) = a \o (b \o c)
        BY <1>3 DEF Stream
      <3> HIDE DEF a, b, c
      <3>3. (b \o c) \o m = b \o (c \o m)
        BY <3>1, ConcatAssociative
      <3>4. (a \o (b \o c)) \o m = a \o ((b \o c) \o m)
        BY <3>1, ConcatAssociative
      <3> QED
        BY <3>2, <3>3, <3>4
    <2>3. /\ Flow(Stream(i) \o m, Append(sent[i], r)) /\ Begins(Stream(i) \o m, Append(sent[i], r), Len(answers[i]))
          /\ Len(m) = Pieces(r) => Ends(Stream(i) \o m, Append(sent[i], r), Len(answers[i]))
      <3>1. /\ Flow(Stream(i), sent[i]) /\ Begins(Stream(i), sent[i], Len(answers[i]))
            /\ Ends(Stream(i), sent[i], Len(answers[i]))
        BY <2>1 DEF StreamOf
      <3> QED
        BY <1>2, <1>3, <3>1, FlowMore
    <2>4. Flow(Stream(i), sent[i])' /\ Begins(Stream(i), sent[i], Len(answers[i]))'
      BY <1>1, <2>2, <2>3 DEF Flow, Follows, Begins
    <2>5. (i \notin closedC => Ends(Stream(i), sent[i], Len(answers[i])))'
      BY <1>1, <1>3, <2>2, <2>3 DEF Ends
    <2> QED
      BY <1>5, <2>1, <2>4, <2>5 DEF StreamOf
  <1> QED
    BY <1>6, <1>7 DEF ConnInv

\* The first message of a stream is taken away.
LEMMA FlowNext ==
    ASSUME NEW p \in Seq(PieceType), NEW t \in Seq(PieceType), NEW s \in Seq(RequestType), NEW a \in Nat,
           Flow(p \o t, s), Begins(p \o t, s, a), Len(p) > 0
    PROVE  /\ a < Len(s) /\ p[1] = Piece(1, a + 1, s[a + 1])
           /\ Len(p) = Pieces(s[a + 1]) =>
                 /\ Flow(t, s) /\ Begins(t, s, a + 1)
                 /\ Ends(p \o t, s, a) => Ends(t, s, a + 1)
  <1> DEFINE q == p \o t
             r == s[a + 1]
             c == Len(p)
  <1>1. /\ q \in Seq(PieceType) /\ Len(q) = c + Len(t) /\ c \in Nat /\ Len(t) \in Nat
        /\ \A j \in 1..c : q[j] = p[j]
        /\ \A j \in 1..Len(t) : q[c + j] = t[j]
    BY CatElements
  <1>2. Flow(q, s) /\ Begins(q, s, a)
    OBVIOUS
  <1> HIDE DEF q
  <1>3. Len(q) > 0 /\ 1 \in 1..c
    BY <1>1
  <1>4. /\ a < Len(s) /\ r \in RequestType
        /\ \A j \in 1..Len(q) : j <= Pieces(r) => q[j] = Piece(j, a + 1, r)
        /\ Len(q) > Pieces(r) => a + 1 < Len(s) /\ q[Pieces(r) + 1] = Piece(1, a + 2, s[a + 2])
    BY <1>1, <1>2, <1>3, FlowHead
  <1>5. p[1] = Piece(1, a + 1, r)
    BY <1>1, <1>2, <1>3 DEF Begins
  <1>6. ASSUME c = Pieces(r) PROVE Flow(t, s) /\ Begins(t, s, a + 1) /\ (Ends(q, s, a) => Ends(t, s, a + 1))
    <2>1. Flow(t, s)
      BY <1>1, <1>2, FlowRest
    <2>2. a + 1 + 1 = a + 2 /\ Len(s) \in Nat
      OBVIOUS
    <2>3. Begins(t, s, a + 1)
      <3>1. ASSUME Len(t) > 0 PROVE a + 1 < Len(s) /\ t[1] = Piece(1, a + 2, s[a + 2])
        <4>1. Len(q) > Pieces(r) /\ 1 \in 1..Len(t)
          BY <1>1, <1>6, <3>1
        <4> QED
          BY <1>1, <1>4, <1>6, <4>1
      <3> QED
        BY <2>2, <3>1 DEF Begins
    <2>4. ASSUME Ends(q, s, a) PROVE Ends(t, s, a + 1)
      <3>1. q[Len(q)].n = Len(s) /\ q[Len(q)].k = Pieces(s[Len(s)])
        BY <1>1, <1>3, <2>4 DEF Ends
      <3>2. CASE Len(t) = 0
        <4>1. Len(q) = c /\ c \in 1..Len(q) /\ c <= Pieces(r)
          BY <1>1, <1>6, <3>2
        <4>2. q[Len(q)] = Piece(c, a + 1, r)
          BY <1>4, <4>1
        <4>3. q[Len(q)].n = a + 1
          BY <4>2 DEF Piece
        <4> QED
          BY <3>1, <3>2, <4>3 DEF Ends
      <3>3. CASE Len(t) > 0
        <4>1. Len(t) \in 1..Len(t) /\ c + Len(t) = Len(q)
          BY <1>1, <3>3
        <4>2. t[Len(t)] = q[Len(q)]
          BY <1>1, <4>1
        <4> QED
          BY <1>1, <3>1, <3>3, <4>2 DEF Ends
      <3> QED
        BY <1>1, <3>2, <3>3
    <2> QED
      BY <2>1, <2>3, <2>4
  <1> QED
    BY <1>4, <1>5, <1>6 DEF q

\* The next request is answered.
LEMMA AnswerAdded ==
    ASSUME NetInv, NEW i \in Conns, StreamOf(i), AnswersOf(i), NEW a \in AnswerType, Nth(i) <= Len(sent[i]),
           answers'[i] = Append(answers[i], a), sent'[i] = sent[i],
           a.n = Nth(i), a.status = (IF Asked(i).err = 0 THEN 200 ELSE Asked(i).err),
           Asked(i).err = 0 => a.body = (IF Asked(i).len = 0 THEN 0 ELSE Nth(i))
    PROVE  /\ AnswersOf(i)' /\ Len(answers'[i]) = Nth(i)
           /\ \A k \in 1..Len(answers'[i]) : k # Nth(i) => sent[i][k].err = 0 /\ ~NeedClose(sent[i][k])
  <1>0. Len(answers[i]) \in Nat
    BY StreamTypes
  <1> PICK c \in Nat : c = Len(answers[i])
    BY <1>0
  <1>1. answers[i] \in Seq(AnswerType) /\ Len(sent[i]) \in Nat
    BY StreamTypes
  <1>2. /\ Len(answers'[i]) = c + 1 /\ answers'[i][c + 1] = a
        /\ \A k \in 1..c : answers'[i][k] = answers[i][k]
    BY <1>1, AppendProperties
  <1>3. Nth(i) = c + 1 /\ Asked(i) = sent[i][c + 1]
    BY DEF Nth, Asked
  <1>4. \A k \in 1..(c + 1) : k # c + 1 => k \in 1..c
    BY <1>1
  <1>5. \A k \in 1..c : AnswerOf(i, k) /\ sent[i][k].err = 0 /\ ~NeedClose(sent[i][k])
    BY DEF AnswersOf, StreamOf
  <1>6. ASSUME NEW k \in 1..c PROVE AnswerOf(i, k)'
    <2>1. answers'[i][k] = answers[i][k] /\ sent'[i][k] = sent[i][k]
      BY <1>2
    <2> QED
      BY <1>5, <2>1 DEF AnswerOf
  <1>7. AnswerOf(i, c + 1)'
    <2>1. /\ answers'[i][c + 1] = a /\ sent'[i][c + 1] = Asked(i) /\ ~(c + 1 < Len(answers'[i]))
          /\ a.n = c + 1
      BY <1>1, <1>2, <1>3
    <2> QED
      BY <1>3, <2>1 DEF AnswerOf
  <1>8. AnswersOf(i)'
    <2>1. Len(answers'[i]) <= Len(sent'[i])
      BY <1>2, <1>3
    <2>2. \A k \in 1..Len(answers'[i]) : AnswerOf(i, k)'
      BY <1>2, <1>4, <1>6, <1>7
    <2> QED
      BY <2>1, <2>2 DEF AnswersOf
  <1> QED
    BY <1>2, <1>3, <1>4, <1>5, <1>8

\* The request at hand is answered; if the connection goes on, with the next one.
LEMMA ProcessConn ==
    ASSUME NetInv, StreamInv, AnswerInv, NEW i \in Conns, NEW all \in BOOLEAN, Process(i, all)
    PROVE  ConnInv(i)'
  <1> DEFINE t == held[i] \o up[i]
             p == req[i]
             a == Len(answers[i])
  <1>1. /\ srv[i] = "process" /\ Answer(i) \in AnswerType /\ Respond(i, Answer(i), all)
        /\ req' = [req EXCEPT ![i] = <<>>]
        /\ UNCHANGED <<up, seenUp, seenDown, closedC, sent, scene, cliVars>>
        /\ \/ all /\ NeedClose(Asked(i)) /\ Cleanup(i)
           \/ /\ ~(all /\ NeedClose(Asked(i))) /\ UNCHANGED <<closedS, connNum, held, buf, poolVars>>
              /\ srv' = [srv EXCEPT ![i] = IF all THEN "recv" ELSE "failed"]
    BY ProcessSteps
  <1>2. Active(i) /\ StreamOf(i) /\ AnswersOf(i)
    BY <1>1 DEF StreamInv, AnswerInv, Active
  <1>3. /\ Nth(i) <= Len(sent[i]) /\ Asked(i) \in RequestType /\ Asked(i).err = 0 /\ Len(p) = Pieces(Asked(i))
        /\ Len(p) > 0
    BY <1>1, <1>2, ProcessLaw DEF StreamOf
  <1>4. answers'[i] = Append(answers[i], Answer(i)) /\ sent'[i] = sent[i]
    BY <1>1, Responds DEF NetInv
  <1>5. /\ AnswersOf(i)' /\ Len(answers'[i]) = a + 1
        /\ \A k \in 1..Len(answers'[i]) : k # a + 1 => sent[i][k].err = 0 /\ ~NeedClose(sent[i][k])
    <2>1. /\ Answer(i).n = Nth(i) /\ Answer(i).status = 200
          /\ Answer(i).body = (IF Asked(i).len = 0 THEN 0 ELSE Nth(i))
      BY DEF Answer
    <2>2. /\ AnswersOf(i)' /\ Len(answers'[i]) = Nth(i)
          /\ \A k \in 1..Len(answers'[i]) : k # Nth(i) => sent[i][k].err = 0 /\ ~NeedClose(sent[i][k])
      BY <1>1, <1>2, <1>3, <1>4, <2>1, AnswerAdded
    <2> QED
      BY <2>2 DEF Nth
  <1>6. ASSUME Active(i)' PROVE StreamOf(i)'
    <2>1. srv \in [Conns -> ServerPlaces] /\ req \in [Conns -> Seq(PieceType)]
      BY DEF NetInv, PlaceInv
    <2>2. all /\ ~NeedClose(Asked(i)) /\ srv'[i] = "recv" /\ held' = held /\ up' = up /\ req'[i] = <<>>
      BY <1>1, <1>6, <2>1 DEF Cleanup, Active
    <2>3. t \in Seq(PieceType) /\ p \in Seq(PieceType) /\ a \in Nat /\ sent[i] \in Seq(RequestType)
      BY StreamTypes
    <2>4. /\ Flow(p \o t, sent[i]) /\ Begins(p \o t, sent[i], a)
          /\ i \notin closedC => Ends(p \o t, sent[i], a)
      BY <1>2 DEF StreamOf, Stream
    <2>5. Len(p) = Pieces(sent[i][a + 1])
      BY <1>3 DEF Asked, Nth
    <2>6. Stream(i)' = <<>> \o t
      BY <2>2 DEF Stream
    <2> HIDE DEF t, p, a
    <2>7. /\ Flow(t, sent[i]) /\ Begins(t, sent[i], a + 1)
          /\ i \notin closedC => Ends(t, sent[i], a + 1)
      BY <1>3, <2>3, <2>4, <2>5, FlowNext
    <2>8. Stream(i)' = t
      BY <2>3, <2>6, ConcatEmptySeq
    <2>9. Flow(Stream(i), sent[i])' /\ Begins(Stream(i), sent[i], Len(answers[i]))'
      <3>1. sent'[i] = sent[i] /\ Len(answers'[i]) = a + 1
        BY <1>4, <1>5 DEF a
      <3> PICK q, s : q = t /\ s = sent[i]
        OBVIOUS
      <3>2. Stream(i)' = q /\ sent'[i] = s /\ Flow(q, s)
        BY <2>7, <2>8, <3>1
      <3>3. Flow(Stream(i), sent[i])'
        BY <3>2, Zenon DEF Flow, Follows
      <3>4. Begins(Stream(i), sent[i], Len(answers[i]))'
        BY <2>7, <2>8, <3>1 DEF Begins
      <3> QED
        BY <3>3, <3>4
    <2>10. (i \notin closedC => Ends(Stream(i), sent[i], Len(answers[i])))'
      BY <1>1, <1>4, <1>5, <2>7, <2>8 DEF Ends
    <2>11. \A k \in 1..Len(answers'[i]) : sent[i][k].err = 0 /\ ~NeedClose(sent[i][k])
      <3>1. sent[i][a + 1].err = 0 /\ ~NeedClose(sent[i][a + 1])
        BY <1>3, <2>2 DEF Asked, Nth, a
      <3> QED
        BY <1>5, <3>1
    <2> QED
      BY <1>4, <2>2, <2>9, <2>10, <2>11 DEF StreamOf
  <1> QED
    BY <1>5, <1>6 DEF ConnInv

\* The next request is refused, or taken from the buffer.
LEMMA ParseConn ==
    ASSUME NetInv, StreamInv, AnswerInv, NEW i \in Conns, ParseReq(i)
    PROVE  ConnInv(i)'
  <1>1. /\ srv[i] = "recv" /\ Nth(i) <= Len(sent[i]) /\ Asked(i) \in RequestType
        /\ UNCHANGED <<seenDown, closedC, sent>>
    BY ParseReqLaw
  <1>2. Active(i) /\ StreamOf(i) /\ AnswersOf(i) /\ ConnInv(i)
    BY <1>1 DEF StreamInv, AnswerInv, Active, ConnInv
  <1>3. srv \in [Conns -> ServerPlaces]
    BY DEF NetInv, PlaceInv
  <1>4. ASSUME Asked(i).err # 0, srv' = [srv EXCEPT ![i] = "failed"],
               NEW all \in BOOLEAN, Respond(i, ErrorAnswer(i), all)
        PROVE  ConnInv(i)'
    <2>1. ErrorAnswer(i) \in AnswerType
      BY <1>1, ErrorAnswerType
    <2>2. answers'[i] = Append(answers[i], ErrorAnswer(i)) /\ sent'[i] = sent[i]
      BY <1>1, <1>4, <2>1, Responds DEF NetInv
    <2>3. ErrorAnswer(i).n = Nth(i) /\ ErrorAnswer(i).status = Asked(i).err
      BY DEF ErrorAnswer
    <2>4. AnswersOf(i)'
      BY <1>1, <1>2, <1>4, <2>1, <2>2, <2>3, AnswerAdded
    <2>5. ~Active(i)'
      BY <1>3, <1>4 DEF Active
    <2> QED
      BY <2>4, <2>5 DEF ConnInv
  <1>5. ASSUME NEW c \in 0..1, Parsed(i, c) PROVE ConnInv(i)'
    <2> DEFINE h == held[i]
               u == up[i]
               x == SubSeq(u, 1, c)
               y == SubSeq(u, c + 1, Len(u))
               q == h \o x
               z == Pieces(Asked(i))
               v == SubSeq(q, 1, z)
               w == SubSeq(q, z + 1, Len(q))
               a == Len(answers[i])
    <2>1. /\ c \in 0..seenUp[i] /\ c \in 0..Len(u) /\ q \in Seq(PieceType) /\ z \in 0..Len(q) /\ z >= 2
          /\ v \in Seq(PieceType) /\ w \in Seq(PieceType) /\ Len(v) = z /\ req'[i] = v /\ held'[i] = w
      BY <1>1, <1>5, ParsedTypes
    <2>2. /\ srv' = [srv EXCEPT ![i] = "process"] /\ TakeUp(i, c) /\ UNCHANGED <<down, answers>> /\ Asked(i).err = 0
      BY <1>5 DEF Parsed
    <2>3. up'[i] = y
      BY <1>1, <2>1, <2>2, UpTaken DEF NetInv
    <2>4. /\ h \in Seq(PieceType) /\ u \in Seq(PieceType) /\ req[i] \in Seq(PieceType) /\ h \o u \in Seq(PieceType)
          /\ a \in Nat /\ sent[i] \in Seq(RequestType)
      BY StreamTypes
    <2>5. y \in Seq(PieceType)
      BY <2>1, <2>4, CutElements
    <2>6. q \o y = h \o u
      BY <2>1, <2>4, MovedSame
    <2>7. v \o w = q
      BY <2>1, CutElements
    <2>8. Stream(i)' = v \o (w \o y)
      BY <2>1, <2>3 DEF Stream
    <2>9. Stream(i) = req[i] \o (h \o u) /\ Len(req[i]) = 0
      BY <1>1, <1>2 DEF Stream, StreamOf
    <2>10. Asked(i) = sent[i][a + 1]
      BY DEF Asked, Nth
    <2> HIDE DEF h, u, x, y, q, z, v, w
    <2>11. v \o (w \o y) = (v \o w) \o y
      <3>1. v \in Seq(PieceType) /\ w \in Seq(PieceType) /\ y \in Seq(PieceType)
        BY <2>1, <2>5
      <3> QED
        BY <3>1, ConcatAssociative
    <2>12. Stream(i) = h \o u
      <3> DEFINE e == req[i]
                 d == h \o u
      <3>1. e \in Seq(PieceType) /\ d \in Seq(PieceType) /\ Len(e) = 0 /\ Stream(i) = e \o d
        BY <2>4, <2>9
      <3> HIDE DEF e, d
      <3>2. Stream(i) = d
        BY <3>1, CatElements
      <3> QED
        BY <3>2 DEF d
    <2>13. Stream(i)' = Stream(i)
      BY <2>6, <2>7, <2>8, <2>11, <2>12
    <2>14. Flow(v \o (w \o y), sent[i]) /\ Begins(v \o (w \o y), sent[i], a)
      BY <1>2, <2>8, <2>13 DEF StreamOf
    <2>15. w \o y \in Seq(PieceType) /\ Len(v) > 0
      BY <2>1, <2>5, CatElements
    <2>16. v[1] = Piece(1, a + 1, sent[i][a + 1])
      <3> DEFINE d == w \o y
      <3>1. /\ v \in Seq(PieceType) /\ d \in Seq(PieceType) /\ sent[i] \in Seq(RequestType) /\ a \in Nat
            /\ Flow(v \o d, sent[i]) /\ Begins(v \o d, sent[i], a) /\ Len(v) > 0
        BY <2>1, <2>4, <2>14, <2>15
      <3> HIDE DEF d, a
      <3> QED
        BY <3>1, FlowNext
    <2>17. v[1].msg = Asked(i)
      BY <2>10, <2>16 DEF Piece
    <2>18. srv'[i] = "process"
      BY <1>3, <2>2
    <2>19. Flow(Stream(i), sent[i])' /\ Begins(Stream(i), sent[i], Len(answers[i]))'
      BY <1>1, <1>2, <2>2, <2>13 DEF Flow, Follows, Begins, StreamOf
    <2>20. (i \notin closedC => Ends(Stream(i), sent[i], Len(answers[i])))'
      BY <1>1, <1>2, <2>2, <2>13 DEF Ends, StreamOf
    <2>21. \A k \in 1..Len(answers'[i]) : sent'[i][k].err = 0 /\ ~NeedClose(sent'[i][k])
      BY <1>1, <1>2, <2>2 DEF StreamOf
    <2>22. Len(req'[i]) > 0 /\ Len(req'[i]) = Pieces(req'[i][1].msg) /\ req'[i][1].msg.err = 0
      BY <2>1, <2>2, <2>15, <2>17 DEF z
    <2>23. StreamOf(i)'
      BY <2>18, <2>19, <2>20, <2>21, <2>22 DEF StreamOf
    <2>24. AnswersOf(i)'
      BY <1>1, <1>2, <2>2 DEF AnswersOf, AnswerOf
    <2> QED
      BY <2>23, <2>24 DEF ConnInv
  <1> QED
    BY <1>4, <1>5, ParseReqLaw

\* recv moves n pieces to the buffer.
LEMMA MovedConn ==
    ASSUME NetInv, NEW i \in Conns, ConnInv(i), NEW n \in 0..seenUp[i], TakeUp(i, n), sent' = sent,
           held'[i] = held[i] \o SubSeq(up[i], 1, n), UNCHANGED <<srv, req, answers, closedC>>
    PROVE  ConnInv(i)'
  <1> DEFINE h == held[i]
             u == up[i]
             a == SubSeq(u, 1, n)
             b == SubSeq(u, n + 1, Len(u))
  <1>1. h \in Seq(PieceType) /\ u \in Seq(PieceType)
    BY StreamTypes
  <1>2. n \in 0..Len(u) /\ up'[i] = b
    BY UpTaken DEF NetInv
  <1>3. Stream(i)' = req[i] \o ((h \o a) \o b) /\ Stream(i) = req[i] \o (h \o u)
    BY <1>2 DEF Stream
  <1>4. (h \o a) \o b = h \o u
    BY <1>1, <1>2, MovedSame
  <1>5. Stream(i)' = Stream(i) /\ (Active(i)' <=> Active(i))
    BY <1>3, <1>4 DEF Active
  <1> QED
    BY <1>5, ConnSame

\* What the server does with one connection leaves the others alone.
LEMMA ServerStill ==
    ASSUME NetInv, StreamInv, NEW i \in Conns, ServerStep(i), NEW j \in Conns, j # i
    PROVE  Still(j)
  <1>1. /\ srv \in [Conns -> ServerPlaces] /\ held \in [Conns -> Seq(PieceType)] /\ req \in [Conns -> Seq(PieceType)]
        /\ up \in [Conns -> Seq(PieceType)] /\ answers \in [Conns -> Seq(AnswerType)]
    BY DEF NetInv, PlaceInv, UpInv, DownInv
  <1>2. \A n : TakeUp(i, n) => up'[j] = up[j]
    BY <1>1 DEF TakeUp
  <1>3. \A a, all : Respond(i, a, all) => answers'[j] = answers[j]
    BY <1>1 DEF Respond
  <1>4. Cleanup(i) => srv'[j] = srv[j] /\ held'[j] = held[j]
    BY <1>1 DEF Cleanup
  <1>5. CASE ServerStart(i)
    BY <1>1, <1>5 DEF ServerStart, Still, netVars
  <1>6. CASE RecvFirst(i)
    BY <1>1, <1>2, <1>6 DEF RecvFirst, Still
  <1>7. CASE RecvIdle(i)
    BY <1>1, <1>4, <1>7 DEF RecvIdle, Still
  <1>8. CASE RecvHeader(i)
    BY <1>1, <1>2, <1>8 DEF RecvHeader, Still
  <1>9. CASE RecvZero(i)
    BY <1>1, <1>4, <1>9 DEF RecvZero, Still
  <1>10. CASE RecvErr(i)
    BY <1>1, <1>10 DEF RecvErr, Still, netVars
  <1>11. CASE ServerReset(i)
    BY <1>1, <1>4, <1>11 DEF ServerReset, Still
  <1>12. CASE ParseReq(i)
    <2>1. sent' = sent /\ closedC' = closedC /\ Asked(i) \in RequestType
      BY <1>12, ParseReqLaw
    <2>2. ASSUME srv' = [srv EXCEPT ![i] = "failed"], UNCHANGED <<up, seenUp, held, req, buf, poolVars>>,
                 NEW all \in BOOLEAN, Respond(i, ErrorAnswer(i), all)
          PROVE  Still(j)
      BY <1>1, <1>3, <2>1, <2>2 DEF Still
    <2>3. ASSUME NEW c \in 0..1, Parsed(i, c) PROVE Still(j)
      <3>1. TakeUp(i, c) /\ UNCHANGED <<down, answers>> /\ srv'[j] = srv[j]
        BY <1>1, <2>3 DEF Parsed
      <3>2. req'[j] = req[j] /\ held'[j] = held[j]
        BY <2>1, <2>3, ParsedTypes
      <3> QED
        BY <1>2, <2>1, <3>1, <3>2 DEF Still
    <2> QED
      BY <1>12, <2>2, <2>3, ParseReqLaw
  <1>13. ASSUME NEW all \in BOOLEAN, Process(i, all) PROVE Still(j)
    <2>1. /\ Respond(i, Answer(i), all) /\ UNCHANGED <<up, closedC, sent>> /\ req' = [req EXCEPT ![i] = <<>>]
      BY <1>13, ProcessSteps
    <2>2. srv'[j] = srv[j] /\ held'[j] = held[j]
      BY <1>1, <1>4, <1>13, ProcessSteps
    <2> QED
      BY <1>1, <1>3, <2>1, <2>2 DEF Still
  <1> QED
    BY <1>5, <1>6, <1>7, <1>8, <1>9, <1>10, <1>11, <1>12, <1>13 DEF ServerStep

\* The server and its own connection.
LEMMA ServerConn ==
    ASSUME NetInv, StreamInv, AnswerInv, HeldInv, NEW i \in Conns, ServerStep(i)
    PROVE  ConnInv(i)'
  <1>1. /\ srv \in [Conns -> ServerPlaces] /\ held \in [Conns -> Seq(PieceType)] /\ req \in [Conns -> Seq(PieceType)]
    BY DEF NetInv, PlaceInv
  <1>2. ConnInv(i)
    BY DEF StreamInv, AnswerInv, ConnInv
  <1>3. ASSUME srv'[i] \in {"failed", "end"}, UNCHANGED <<answers, sent>> PROVE ConnInv(i)'
    BY <1>2, <1>3, GivesUp
  <1>4. ASSUME Cleanup(i), UNCHANGED <<answers, sent>> PROVE ConnInv(i)'
    <2>1. srv'[i] = "end"
      BY <1>1, <1>4 DEF Cleanup
    <2> QED
      BY <1>3, <1>4, <2>1
  <1>5. CASE ServerStart(i)
    <2>1. /\ srv[i] = "new" /\ srv'[i] = "recv" /\ UNCHANGED <<up, held, req, answers, sent, closedC>>
      BY <1>1, <1>5 DEF ServerStart, netVars
    <2>2. Stream(i)' = Stream(i) /\ Active(i)' /\ Active(i)
      BY <2>1 DEF Stream, Active
    <2> QED
      BY <1>2, <2>1, <2>2, ConnSame
  <1>6. CASE RecvFirst(i)
    <2> DEFINE x == SubSeq(up[i], 1, 1)
    <2>1. /\ srv[i] = "recv" /\ buf[i] = NoBuf /\ seenUp[i] > 0 /\ held' = [held EXCEPT ![i] = x] /\ TakeUp(i, 1)
          /\ UNCHANGED <<closedC, sent, srv, req, answers>>
      BY <1>6 DEF RecvFirst
    <2>2. /\ 1 \in 0..seenUp[i] /\ 1 \in 0..Len(up[i]) /\ up[i] \in Seq(PieceType)
          /\ held[i] \in Seq(PieceType) /\ Len(held[i]) = 0
      BY <2>1, StreamTypes DEF HeldInv
    <2>3. x \in Seq(PieceType)
      BY <2>2, CutElements
    <2>4. held'[i] = x
      BY <1>1, <2>1
    <2>5. held[i] \o x = x
      <3> DEFINE h == held[i]
      <3>1. h \in Seq(PieceType) /\ Len(h) = 0
        BY <2>2
      <3> HIDE DEF h, x
      <3>2. h \o x = x
        BY <2>3, <3>1, CatElements
      <3> QED
        BY <3>2 DEF h
    <2> QED
      BY <1>2, <2>1, <2>2, <2>4, <2>5, MovedConn
  <1>7. CASE RecvIdle(i)
    BY <1>4, <1>7 DEF RecvIdle
  <1>8. CASE RecvHeader(i)
    <2> DEFINE n == seenUp[i]
    <2>1. /\ UNCHANGED <<closedC, sent, req, answers>>
          /\ \/ srv' = [srv EXCEPT ![i] = "failed"]
             \/ held' = [held EXCEPT ![i] = held[i] \o SubSeq(up[i], 1, n)] /\ TakeUp(i, n) /\ UNCHANGED srv
      BY <1>8 DEF RecvHeader
    <2>2. n \in 0..n
      BY StreamTypes
    <2>3. CASE srv' = [srv EXCEPT ![i] = "failed"]
      BY <1>1, <1>3, <2>1, <2>3
    <2>4. CASE held' = [held EXCEPT ![i] = held[i] \o SubSeq(up[i], 1, n)] /\ TakeUp(i, n) /\ UNCHANGED srv
      <3>1. held'[i] = held[i] \o SubSeq(up[i], 1, n)
        BY <1>1, <2>4
      <3> QED
        BY <1>2, <2>1, <2>2, <2>4, <3>1, MovedConn
    <2> QED
      BY <2>1, <2>3, <2>4
  <1>9. CASE RecvZero(i)
    BY <1>4, <1>9 DEF RecvZero
  <1>10. CASE RecvErr(i)
    BY <1>1, <1>3, <1>10 DEF RecvErr, netVars
  <1>11. CASE ServerReset(i)
    BY <1>4, <1>11 DEF ServerReset
  <1>12. CASE ParseReq(i)
    BY <1>12, ParseConn
  <1>13. ASSUME NEW all \in BOOLEAN, Process(i, all) PROVE ConnInv(i)'
    BY <1>13, ProcessConn
  <1> QED
    BY <1>5, <1>6, <1>7, <1>8, <1>9, <1>10, <1>11, <1>12, <1>13 DEF ServerStep

LEMMA NextConn ==
    ASSUME NetInv, StreamInv, AnswerInv, HeldInv, [Next]_vars
    PROVE  StreamInv' /\ AnswerInv'
  <1> SUFFICES ASSUME NEW j \in Conns PROVE ConnInv(j)'
    BY DEF StreamInv, AnswerInv, ConnInv
  <1>1. ConnInv(j) /\ UpInv /\ DownInv /\ PlaceInv
    BY DEF StreamInv, AnswerInv, ConnInv, NetInv
  <1>2. Still(j) => ConnInv(j)'
    BY <1>1, StillConn
  <1>3. ASSUME NEW i \in Conns, ServerStep(i) PROVE ConnInv(j)'
    BY <1>2, <1>3, ServerStill, ServerConn
  <1>4. ASSUME NEW i \in Conns, DeliverUp(i) \/ DeliverDown(i) PROVE ConnInv(j)'
    <2>1. Still(j)
      BY <1>4 DEF DeliverUp, DeliverDown, srvVars, Still
    <2> QED
      BY <1>2, <2>1
  <1>5. ASSUME NEW i \in scene.foreign, PeerCloses(i) PROVE ConnInv(j)'
    <2>1. Still(j)
      BY <1>5 DEF PeerCloses, srvVars, Still
    <2> QED
      BY <1>2, <2>1
  <1>6. ASSUME NEW i \in scene.foreign, PeerSends(i) PROVE ConnInv(j)'
    <2>1. i \in Conns
      BY <1>1 DEF PlaceInv, SceneType
    <2>2. PICK r \in Requests : Send(i, r, TRUE)
      BY <1>6 DEF PeerSends
    <2>3. r \in RequestType
      BY Constants
    <2>4. i \notin closedC /\ UNCHANGED <<srv, held, req, answers, seenUp, closedC>>
      BY <1>6 DEF PeerSends, srvVars
    <2>5. \A k \in Conns : k # i => up'[k] = up[k] /\ sent'[k] = sent[k]
      BY <1>1, <2>1, <2>2, <2>3, <2>4, Sends
    <2>6. CASE j = i
      BY <1>1, <2>1, <2>2, <2>3, <2>4, <2>6, SentConn
    <2>7. CASE j # i
      <3>1. Still(j)
        BY <2>4, <2>5, <2>7 DEF Still
      <3> QED
        BY <1>2, <3>1
    <2> QED
      BY <2>6, <2>7
  <1>7. CASE Call
    <2>1. Still(j)
      BY <1>7 DEF Call, Idle, netVars, srvVars, Still
    <2> QED
      BY <1>2, <2>1
  <1>8. CASE Connect
    <2>1. UNCHANGED <<netVars, held, req, answers>>
      BY <1>8 DEF Connect
    <2>2. \/ srv'[j] = srv[j]
          \/ srv[j] = "none" /\ srv'[j] = "new"
      BY <1>1, <1>8 DEF Connect, PlaceInv
    <2>3. Stream(j)' = Stream(j) /\ (Active(j)' => Active(j)) /\ (srv'[j] = "process" <=> srv[j] = "process")
      BY <2>1, <2>2 DEF netVars, Stream, Active
    <2> QED
      BY <1>1, <2>1, <2>3, ConnSame DEF netVars
  <1>9. CASE SendRequest
    <2>1. PICK r \in {q \in Requests : q.err = 0} :
             \/ Send(cfd, r, TRUE) /\ cli' = "head" /\ UNCHANGED <<cfd, cbuf, calls, got, closedC>>
             \/ \E status \in {579, 581} : Send(cfd, r, FALSE) /\ CallFails(status)
      BY <1>9 DEF SendRequest
    <2>2. r \in RequestType /\ cfd \in Conns /\ cfd \notin closedC
      BY <1>1, <1>9, Constants, ClientHas DEF SendRequest, PlaceInv
    <2>3. UNCHANGED <<seenUp, srv, held, req, answers>>
      BY <1>9 DEF SendRequest, Idle, srvVars
    <2>4. PICK all \in BOOLEAN : Send(cfd, r, all) /\ (all => closedC' = closedC) /\ (~all => closedC' = closedC \cup {cfd})
      BY <2>1 DEF CallFails
    <2>5. \A k \in Conns : k # cfd => up'[k] = up[k] /\ sent'[k] = sent[k]
      BY <1>1, <2>2, <2>3, <2>4, Sends
    <2>6. CASE j = cfd
      <3>1. /\ Send(j, r, all) /\ j \notin closedC /\ (~all => j \in closedC')
        BY <2>2, <2>4, <2>6
      <3> QED
        BY <1>1, <2>2, <2>3, <3>1, SentConn
    <2>7. CASE j # cfd
      <3>1. Still(j)
        BY <2>3, <2>4, <2>5, <2>7 DEF Still
      <3> QED
        BY <1>2, <3>1
    <2> QED
      BY <2>6, <2>7
  <1>10. CASE RecvResponse \/ RecvBody \/ RecvFails
    <2>1. UNCHANGED <<up, sent, srvVars>>
      BY <1>10 DEF RecvResponse, RecvBody, RecvFails, Idle
    <2>2. j \in closedC => j \in closedC'
      BY <1>10 DEF RecvResponse, RecvBody, RecvFails, CallFails
    <2>3. Still(j)
      BY <2>1, <2>2 DEF srvVars, Still
    <2> QED
      BY <1>2, <2>3
  <1>11. CASE UNCHANGED vars
    <2>1. Still(j)
      BY <1>11 DEF vars, netVars, srvVars, Still
    <2> QED
      BY <1>2, <2>1
  <1> QED
    BY <1>3, <1>4, <1>5, <1>6, <1>7, <1>8, <1>9, <1>10, <1>11 DEF Next, ClientStep

LEMMA InitConn ==
    Init => StreamInv /\ AnswerInv
  <1> SUFFICES ASSUME Init, NEW i \in Conns PROVE ConnInv(i)
    BY DEF StreamInv, AnswerInv, ConnInv
  <1>1. /\ req[i] = <<>> /\ held[i] = <<>> /\ up[i] = <<>> /\ sent[i] = <<>> /\ answers[i] = <<>>
        /\ srv[i] # "process"
    BY DEF Init
  <1>2. Len(<<>>) = 0 /\ <<>> \o (<<>> \o <<>>) = <<>>
    OBVIOUS
  <1>3. Stream(i) = <<>>
    BY <1>1, <1>2 DEF Stream
  <1> QED
    BY <1>1, <1>2, <1>3 DEF ConnInv, StreamOf, AnswersOf, Flow, Begins, Ends

-----------------------------------------------------------------------------
(* Buffers. *)

\* The last element of a stack and the others.
LEMMA StackElements ==
    ASSUME NEW S, NEW q \in Seq(S)
    PROVE  /\ q # <<>> => /\ Len(q) \in Nat /\ Len(q) >= 1 /\ Last(q) = q[Len(q)] /\ Last(q) \in S
                          /\ Front(q) \in Seq(S) /\ Len(Front(q)) = Len(q) - 1
                          /\ \A k \in 1..Len(Front(q)) : Front(q)[k] = q[k]
           /\ \A e \in S : /\ Append(q, e) \in Seq(S) /\ Len(Append(q, e)) = Len(q) + 1
                           /\ \A k \in 1..Len(q) : Append(q, e)[k] = q[k]
                           /\ Append(q, e)[Len(q) + 1] = e
  <1>1. ASSUME q # <<>>
        PROVE  /\ Len(q) \in Nat /\ Len(q) >= 1 /\ Last(q) = q[Len(q)] /\ Last(q) \in S
               /\ Front(q) \in Seq(S) /\ Len(Front(q)) = Len(q) - 1
               /\ \A k \in 1..Len(Front(q)) : Front(q)[k] = q[k]
    <2>1. Len(q) \in Nat /\ Len(q) >= 1
      BY <1>1
    <2>2. Last(q) = q[Len(q)] /\ Last(q) \in S
      BY <2>1 DEF Last
    <2>3. Front(q) = SubSeq(q, 1, Len(q) - 1)
      BY DEF Front
    <2>4. \A n \in 0..Len(q) : /\ SubSeq(q, 1, n) \in Seq(S) /\ Len(SubSeq(q, 1, n)) = n
                               /\ \A k \in 1..n : SubSeq(q, 1, n)[k] = q[k]
      BY <2>1
    <2>5. Len(q) - 1 \in 0..Len(q)
      BY <2>1
    <2>6. /\ Front(q) \in Seq(S) /\ Len(Front(q)) = Len(q) - 1
          /\ \A k \in 1..(Len(q) - 1) : Front(q)[k] = q[k]
      BY <2>3, <2>4, <2>5, Zenon
    <2> QED
      BY <2>1, <2>2, <2>6
  <1>2. ASSUME NEW e \in S
        PROVE  /\ Append(q, e) \in Seq(S) /\ Len(Append(q, e)) = Len(q) + 1
               /\ \A k \in 1..Len(q) : Append(q, e)[k] = q[k]
               /\ Append(q, e)[Len(q) + 1] = e
    OBVIOUS
  <1> QED
    BY <1>1, <1>2

\* pop() for a connection that has no buffer.
LEMMA PopOwns ==
    ASSUME OwnInv, NEW i \in Conns, buf[i] = NoBuf, NEW e \in Elems, PopElem(Srv, e),
           buf' = [buf EXCEPT ![i] = e], Served(i)', \A j \in Conns : j # i /\ Served(j) => Served(j)'
    PROVE  OwnInv'
  <1>0. Srv \in PoolScheds /\ NoBuf \notin Elems /\ pools \in [PoolScheds -> Seq(Elems)]
    BY Constants DEF OwnInv
  <1>1. buf' \in [Conns -> Elems \cup {NoBuf}] /\ buf'[i] = e /\ \A j \in Conns : j # i => buf'[j] = buf[j]
    BY DEF OwnInv
  <1>2. CASE pools[Srv] # <<>>
    <2>1. e = Last(pools[Srv]) /\ pools' = [pools EXCEPT ![Srv] = Front(pools[Srv])] /\ alive' = alive
      BY <1>2 DEF PopElem
    <2>2. /\ Len(pools[Srv]) \in Nat /\ Len(pools[Srv]) >= 1 /\ e = pools[Srv][Len(pools[Srv])]
          /\ Front(pools[Srv]) \in Seq(Elems) /\ Len(Front(pools[Srv])) = Len(pools[Srv]) - 1
          /\ \A k \in 1..Len(Front(pools[Srv])) : Front(pools[Srv])[k] = pools[Srv][k]
      BY <1>0, <1>2, <2>1, StackElements
    <2>3. pools' \in [PoolScheds -> Seq(Elems)]
      BY <1>0, <2>1, <2>2
    <2>4. \A s \in PoolScheds : \A k \in 1..Len(pools'[s]) :
             k \in 1..Len(pools[s]) /\ pools'[s][k] = pools[s][k] /\ pools[s][k] # e
      <3> SUFFICES ASSUME NEW s \in PoolScheds, NEW k \in 1..Len(pools'[s])
                   PROVE  k \in 1..Len(pools[s]) /\ pools'[s][k] = pools[s][k] /\ pools[s][k] # e
        OBVIOUS
      <3>1. CASE s = Srv
        <4>1. pools'[s] = Front(pools[s])
          BY <1>0, <2>1, <3>1
        <4>2. k \in 1..Len(pools[s]) /\ k # Len(pools[s]) /\ pools'[s][k] = pools[s][k]
          BY <2>2, <3>1, <4>1
        <4>3. Len(pools[s]) \in 1..Len(pools[s])
          BY <2>2, <3>1
        <4> QED
          BY <2>2, <3>1, <4>2, <4>3 DEF OwnInv
      <3>2. CASE s # Srv
        <4>1. pools'[s] = pools[s]
          BY <1>0, <2>1, <3>2
        <4>2. Len(pools[Srv]) \in 1..Len(pools[Srv])
          BY <2>2
        <4> QED
          BY <1>0, <2>2, <3>2, <4>1, <4>2 DEF OwnInv
      <3> QED
        BY <3>1, <3>2
    <2>5. e \in alive /\ \A j \in Conns : buf[j] # e
      <3>1. Len(pools[Srv]) \in 1..Len(pools[Srv])
        BY <2>2
      <3> QED
        BY <1>0, <2>2, <3>1 DEF OwnInv
    <2>6. \A s, t \in PoolScheds : \A k \in 1..Len(pools'[s]), m \in 1..Len(pools'[t]) :
             pools'[s][k] = pools'[t][m] => s = t /\ k = m
      BY <2>4 DEF OwnInv
    <2>7. \A s \in PoolScheds : \A k \in 1..Len(pools'[s]) :
             pools'[s][k] \in alive' /\ \A j \in Conns : buf'[j] # pools'[s][k]
      BY <1>1, <2>1, <2>4 DEF OwnInv
    <2>8. \A j \in Conns : buf'[j] # NoBuf => buf'[j] \in alive' /\ Served(j)'
      BY <1>1, <2>1, <2>5 DEF OwnInv
    <2>9. \A j, k \in Conns : buf'[j] = buf'[k] /\ buf'[j] # NoBuf => j = k
      BY <1>1, <2>5 DEF OwnInv
    <2> QED
      BY <1>1, <2>3, <2>6, <2>7, <2>8, <2>9 DEF OwnInv
  <1>3. CASE pools[Srv] = <<>>
    <2>1. e \notin alive /\ alive' = alive \cup {e} /\ pools' = pools
      BY <1>3 DEF PopElem
    <2>2. \A j \in Conns : buf[j] # e
      BY <1>0, <2>1 DEF OwnInv
    <2>3. \A s \in PoolScheds : \A k \in 1..Len(pools[s]) : pools[s][k] # e
      BY <2>1 DEF OwnInv
    <2>4. \A s \in PoolScheds : \A k \in 1..Len(pools'[s]) :
             pools'[s][k] \in alive' /\ \A j \in Conns : buf'[j] # pools'[s][k]
      BY <1>1, <2>1, <2>3 DEF OwnInv
    <2>5. \A j \in Conns : buf'[j] # NoBuf => buf'[j] \in alive' /\ Served(j)'
      BY <1>1, <2>1 DEF OwnInv
    <2>6. \A j, k \in Conns : buf'[j] = buf'[k] /\ buf'[j] # NoBuf => j = k
      BY <1>1, <2>2 DEF OwnInv
    <2> QED
      BY <1>1, <2>1, <2>4, <2>5, <2>6 DEF OwnInv
  <1> QED
    BY <1>2, <1>3

\* A connection deletes its buffer and forgets it.
LEMMA DropOwns ==
    ASSUME OwnInv, NEW i \in Conns, buf[i] # NoBuf, alive' = alive \ {buf[i]}, pools' = pools,
           buf' = [buf EXCEPT ![i] = NoBuf], \A j \in Conns : j # i /\ Served(j) => Served(j)'
    PROVE  OwnInv'
  <1>1. /\ buf' \in [Conns -> Elems \cup {NoBuf}] /\ NoBuf \notin Elems /\ pools \in [PoolScheds -> Seq(Elems)]
        /\ buf'[i] = NoBuf /\ \A j \in Conns : j # i => buf'[j] = buf[j]
    BY Constants DEF OwnInv
  <1>2. \A j \in Conns : buf'[j] # NoBuf => j # i /\ buf[j] # buf[i] /\ buf[j] \in alive /\ Served(j)'
    BY <1>1 DEF OwnInv
  <1>3. \A j, k \in Conns : buf'[j] = buf'[k] /\ buf'[j] # NoBuf => j = k
    BY <1>1 DEF OwnInv
  <1>4. \A s \in PoolScheds : \A k \in 1..Len(pools[s]) : pools[s][k] \in Elems
    BY <1>1
  <1>5. \A s \in PoolScheds : \A k \in 1..Len(pools'[s]) :
           pools'[s][k] \in alive' /\ \A j \in Conns : buf'[j] # pools'[s][k]
    BY <1>1, <1>2, <1>4 DEF OwnInv
  <1> QED
    BY <1>1, <1>2, <1>3, <1>5 DEF OwnInv

\* push() of the buffer of a connection, which forgets it.
LEMMA PushOwns ==
    ASSUME OwnInv, NEW i \in Conns, buf[i] # NoBuf, PushElem(Srv, buf[i]),
           buf' = [buf EXCEPT ![i] = NoBuf], \A j \in Conns : j # i /\ Served(j) => Served(j)'
    PROVE  OwnInv'
  <1>0. /\ Srv \in PoolScheds /\ NoBuf \notin Elems /\ pools \in [PoolScheds -> Seq(Elems)]
        /\ buf[i] \in Elems /\ buf[i] \in alive
    BY Constants DEF OwnInv
  <1>1. buf' \in [Conns -> Elems \cup {NoBuf}] /\ buf'[i] = NoBuf /\ \A j \in Conns : j # i => buf'[j] = buf[j]
    BY DEF OwnInv
  <1>2. \A j \in Conns : buf'[j] # NoBuf => j # i /\ buf[j] # buf[i] /\ buf[j] \in alive /\ Served(j)'
    BY <1>1 DEF OwnInv
  <1>3. \A j, k \in Conns : buf'[j] = buf'[k] /\ buf'[j] # NoBuf => j = k
    BY <1>1 DEF OwnInv
  <1>4. CASE Len(pools[Srv]) < MaxCap
    <2> DEFINE n == Len(pools[Srv]) + 1
    <2>1. pools' = [pools EXCEPT ![Srv] = Append(pools[Srv], buf[i])] /\ alive' = alive
      BY <1>4 DEF PushElem
    <2>2. /\ Append(pools[Srv], buf[i]) \in Seq(Elems) /\ Len(Append(pools[Srv], buf[i])) = n
          /\ \A k \in 1..Len(pools[Srv]) : Append(pools[Srv], buf[i])[k] = pools[Srv][k]
          /\ Append(pools[Srv], buf[i])[n] = buf[i] /\ Len(pools[Srv]) \in Nat
      BY <1>0, StackElements
    <2>3. pools' \in [PoolScheds -> Seq(Elems)]
      BY <1>0, <2>1, <2>2
    <2> HIDE DEF n
    <2>4. \A s \in PoolScheds : \A k \in 1..Len(pools'[s]) :
             \/ s = Srv /\ k = n /\ pools'[s][k] = buf[i]
             \/ k \in 1..Len(pools[s]) /\ pools'[s][k] = pools[s][k]
      BY <1>0, <2>1, <2>2 DEF n
    <2>5. \A s \in PoolScheds : \A k \in 1..Len(pools[s]) :
             pools[s][k] # buf[i] /\ pools[s][k] \in alive /\ \A j \in Conns : buf[j] # pools[s][k]
      BY DEF OwnInv
    <2>6. \A s, t \in PoolScheds : \A k \in 1..Len(pools'[s]), m \in 1..Len(pools'[t]) :
             pools'[s][k] = pools'[t][m] => s = t /\ k = m
      <3> SUFFICES ASSUME NEW s \in PoolScheds, NEW t \in PoolScheds,
                          NEW k \in 1..Len(pools'[s]), NEW m \in 1..Len(pools'[t]), pools'[s][k] = pools'[t][m]
                   PROVE  s = t /\ k = m
        OBVIOUS
      <3>1. CASE k \in 1..Len(pools[s]) /\ pools'[s][k] = pools[s][k]
        <4>0. pools[s][k] # buf[i] /\ pools'[t][m] = pools[s][k]
          BY <2>5, <3>1
        <4>1. m \in 1..Len(pools[t]) /\ pools'[t][m] = pools[t][m]
          BY <2>4, <4>0, Zenon
        <4>2. k \in 1..Len(pools[s]) /\ m \in 1..Len(pools[t]) /\ pools[s][k] = pools[t][m]
          BY <3>1, <4>1
        <4>3. \A u, v \in PoolScheds : \A x \in 1..Len(pools[u]), y \in 1..Len(pools[v]) :
                 pools[u][x] = pools[v][y] => u = v /\ x = y
          BY DEF OwnInv
        <4> QED
          BY <4>2, <4>3
      <3>2. CASE s = Srv /\ k = n /\ pools'[s][k] = buf[i]
        BY <2>4, <2>5, <3>2
      <3> QED
        BY <2>4, <3>1, <3>2
    <2>7. \A s \in PoolScheds : \A k \in 1..Len(pools'[s]) : pools'[s][k] \in Elems
      BY <2>3
    <2>8. \A s \in PoolScheds : \A k \in 1..Len(pools'[s]) :
             pools'[s][k] \in alive' /\ \A j \in Conns : buf'[j] # pools'[s][k]
      BY <1>0, <1>1, <1>2, <2>1, <2>4, <2>5, <2>7
    <2> QED
      BY <1>1, <1>2, <1>3, <2>1, <2>3, <2>6, <2>8 DEF OwnInv
  <1>5. CASE ~(Len(pools[Srv]) < MaxCap)
    <2>1. alive' = alive \ {buf[i]} /\ pools' = pools
      BY <1>5 DEF PushElem
    <2> QED
      BY <2>1, DropOwns
  <1> QED
    BY <1>4, <1>5

\* A step that uses no buffer, of connections that stay served.
LEMMA SameOwns ==
    ASSUME OwnInv, UNCHANGED <<buf, pools, alive>>,
           \A j \in Conns : buf[j] # NoBuf /\ Served(j) => Served(j)'
    PROVE  OwnInv'
  BY DEF OwnInv

\* The end of a connection.
LEMMA CleanupOwns ==
    ASSUME OwnInv, NEW i \in Conns, srv \in [Conns -> ServerPlaces], Cleanup(i)
    PROVE  OwnInv'
  <1>1. \A j \in Conns : j # i /\ Served(j) => Served(j)'
    BY DEF Cleanup, Served
  <1>2. CASE buf[i] = NoBuf
    BY <1>1, <1>2, SameOwns DEF Cleanup, poolVars
  <1>3. CASE buf[i] # NoBuf
    BY <1>1, <1>3, PushOwns, DropOwns DEF Cleanup
  <1> QED
    BY <1>2, <1>3
\* The number of connections that are served when one of them comes or goes.
LEMMA ServedCount ==
    ASSUME NEW i \in Conns
    PROVE  /\ IsFiniteSet(ServedConns) /\ Cardinality(ServedConns) \in Nat
           /\ i \notin ServedConns => Cardinality(ServedConns \cup {i}) = Cardinality(ServedConns) + 1
           /\ i \in ServedConns => Cardinality(ServedConns \ {i}) = Cardinality(ServedConns) - 1
  <1>1. IsFiniteSet(Conns)
    BY Constants, FS_Interval
  <1>2. IsFiniteSet(ServedConns)
    BY <1>1, FS_Subset DEF ServedConns
  <1> QED
    BY <1>2, FS_CardinalityType, FS_AddElement, FS_RemoveElement

\* A place on the server's side changes and the count with it, or not.
LEMMA CountMoves ==
    ASSUME CountInv, NEW i \in Conns, srv \in [Conns -> ServerPlaces], NEW p, srv' = [srv EXCEPT ![i] = p],
           LET now == p \notin {"none", "new", "end"} IN
           \/ (Served(i) <=> now) /\ connNum' = connNum
           \/ ~Served(i) /\ now /\ connNum' = IF LogInfo THEN connNum + 1 ELSE connNum
           \/ Served(i) /\ ~now /\ connNum' = connNum - 1
    PROVE  CountInv'
  <1> DEFINE now == p \notin {"none", "new", "end"}
  <1>1. Served(i)' <=> now
    BY DEF Served
  <1>2. \A j \in Conns : j # i => (Served(j)' <=> Served(j))
    BY DEF Served
  <1> HIDE DEF now
  <1>3. CASE (Served(i) <=> now) /\ connNum' = connNum
    <2>1. ServedConns' = ServedConns
      BY <1>1, <1>2, <1>3 DEF ServedConns
    <2> QED
      BY <1>3, <2>1 DEF CountInv
  <1>4. CASE ~Served(i) /\ now /\ connNum' = IF LogInfo THEN connNum + 1 ELSE connNum
    <2>1. ServedConns' = ServedConns \cup {i} /\ i \notin ServedConns
      BY <1>1, <1>2, <1>4 DEF ServedConns
    <2>2. Cardinality(ServedConns') = Cardinality(ServedConns) + 1
      BY <2>1, ServedCount
    <2> QED
      BY <1>4, <2>2 DEF CountInv
  <1>5. CASE Served(i) /\ ~now /\ connNum' = connNum - 1
    <2>1. ServedConns' = ServedConns \ {i} /\ i \in ServedConns
      BY <1>1, <1>2, <1>5 DEF ServedConns
    <2>2. Cardinality(ServedConns') = Cardinality(ServedConns) - 1
      BY <2>1, ServedCount
    <2> QED
      BY <1>5, <2>2 DEF CountInv
  <1> QED
    BY <1>3, <1>4, <1>5 DEF now

PoolInv == OwnInv /\ HeldInv /\ CountInv

\* The end of a connection that was served.
LEMMA CleanupPool ==
    ASSUME NetInv, PoolInv, NEW i \in Conns, Served(i), Cleanup(i)
    PROVE  PoolInv'
  <1>1. /\ srv \in [Conns -> ServerPlaces] /\ buf \in [Conns -> Elems \cup {NoBuf}]
        /\ held \in [Conns -> Seq(PieceType)]
    BY DEF NetInv, PlaceInv, PoolInv, OwnInv
  <1>2. OwnInv'
    BY <1>1, CleanupOwns DEF PoolInv
  <1>3. HeldInv'
    <2>1. /\ held'[i] = <<>> /\ buf'[i] = NoBuf /\ Len(<<>>) = 0
          /\ \A j \in Conns : j # i => held'[j] = held[j] /\ buf'[j] = buf[j]
      BY <1>1 DEF Cleanup
    <2> QED
      BY <2>1 DEF HeldInv, PoolInv
  <1>4. srv' = [srv EXCEPT ![i] = "end"] /\ connNum' = connNum - 1 /\ ~("end" \notin {"none", "new", "end"})
    BY DEF Cleanup
  <1>5. CountInv'
    BY <1>1, <1>4, CountMoves DEF PoolInv
  <1> QED
    BY <1>2, <1>3, <1>5 DEF PoolInv

\* A step of a served connection, which goes on, with the buffer that it has.
LEMMA KeepsPool ==
    ASSUME NetInv, PoolInv, NEW i \in Conns, Served(i), NEW p \in {"recv", "process", "failed"},
           srv' = [srv EXCEPT ![i] = p], UNCHANGED <<connNum, buf, poolVars>>,
           \A j \in Conns : j # i => held'[j] = held[j],
           Len(held'[i]) = 0 <=> Len(held[i]) = 0
    PROVE  PoolInv'
  <1>1. srv \in [Conns -> ServerPlaces]
    BY DEF NetInv, PlaceInv
  <1>2. \A j \in Conns : Served(j) => Served(j)'
    BY <1>1 DEF Served
  <1>3. OwnInv'
    BY <1>2, SameOwns DEF PoolInv, poolVars
  <1>4. HeldInv'
    BY DEF PoolInv, HeldInv
  <1>5. CountInv'
    BY <1>1, CountMoves DEF PoolInv
  <1> QED
    BY <1>3, <1>4, <1>5 DEF PoolInv

LEMMA ServerPool ==
    ASSUME NetInv, StreamInv, PoolInv, NEW i \in Conns, ServerStep(i)
    PROVE  PoolInv'
  <1>1. /\ srv \in [Conns -> ServerPlaces] /\ buf \in [Conns -> Elems \cup {NoBuf}] /\ NoBuf \notin Elems
        /\ held \in [Conns -> Seq(PieceType)] /\ OwnInv /\ HeldInv /\ CountInv
    BY Constants DEF NetInv, PlaceInv, PoolInv, OwnInv
  <1>2. srv[i] \in {"recv", "process", "failed"} => Served(i)
    BY DEF Served
  <1>3. CASE ServerStart(i)
    <2>1. /\ srv[i] = "new" /\ srv' = [srv EXCEPT ![i] = "recv"] /\ UNCHANGED <<buf, held, poolVars>>
          /\ connNum' = IF LogInfo THEN connNum + 1 ELSE connNum
      BY <1>3 DEF ServerStart
    <2>2. \A j \in Conns : Served(j) => Served(j)'
      BY <1>1, <2>1 DEF Served
    <2>3. OwnInv' /\ HeldInv'
      BY <1>1, <2>1, <2>2, SameOwns DEF HeldInv, poolVars
    <2>4. ~Served(i)
      BY <2>1 DEF Served
    <2>5. CountInv'
      BY <1>1, <2>1, <2>4, CountMoves
    <2> QED
      BY <2>3, <2>5 DEF PoolInv
  <1>4. CASE RecvFirst(i)
    <2> DEFINE x == SubSeq(up[i], 1, 1)
    <2>1. /\ srv[i] = "recv" /\ buf[i] = NoBuf /\ seenUp[i] > 0 /\ held' = [held EXCEPT ![i] = x]
          /\ UNCHANGED <<srv, connNum>>
      BY <1>4 DEF RecvFirst
    <2>2. PICK e \in Elems : PopElem(Srv, e) /\ buf' = [buf EXCEPT ![i] = e]
      BY <1>4 DEF RecvFirst
    <2>3. 1 \in 0..Len(up[i]) /\ up[i] \in Seq(PieceType)
      BY <2>1, StreamTypes
    <2>4. Len(x) = 1
      BY <2>3, CutElements
    <2> HIDE DEF x
    <2>5. \A j \in Conns : Served(j)' <=> Served(j)
      BY <2>1 DEF Served
    <2>6. OwnInv'
      BY <1>1, <1>2, <2>1, <2>2, <2>5, PopOwns
    <2>7. HeldInv'
      <3>1. held'[i] = x /\ buf'[i] = e /\ \A j \in Conns : j # i => held'[j] = held[j] /\ buf'[j] = buf[j]
        BY <1>1, <2>1, <2>2
      <3>2. \A j \in Conns : buf[j] = NoBuf <=> Len(held[j]) = 0
        BY <1>1 DEF HeldInv
      <3>3. ASSUME NEW j \in Conns PROVE buf'[j] = NoBuf <=> Len(held'[j]) = 0
        <4>1. CASE j = i
          <5>1. e # NoBuf /\ Len(x) # 0
            BY <1>1, <2>4
          <5> QED
            BY <3>1, <4>1, <5>1, Zenon
        <4>2. CASE j # i
          BY <3>1, <3>2, <4>2, Zenon
        <4> QED
          BY <4>1, <4>2
      <3> QED
        BY <3>3 DEF HeldInv
    <2>8. CountInv'
      <3>1. ServedConns' = ServedConns
        BY <2>1 DEF ServedConns, Served
      <3> QED
        BY <1>1, <2>1, <3>1 DEF CountInv
    <2> QED
      BY <2>6, <2>7, <2>8 DEF PoolInv
  <1>5. CASE RecvIdle(i) \/ RecvZero(i) \/ ServerReset(i)
    BY <1>2, <1>5, CleanupPool DEF RecvIdle, RecvZero, ServerReset
  <1>6. CASE RecvHeader(i)
    <2> DEFINE n == seenUp[i]
               x == SubSeq(up[i], 1, n)
    <2>1. /\ srv[i] = "recv" /\ buf[i] # NoBuf /\ UNCHANGED <<buf, connNum, poolVars>>
          /\ \/ srv' = [srv EXCEPT ![i] = "failed"] /\ held' = held
             \/ held' = [held EXCEPT ![i] = held[i] \o x] /\ srv' = srv
      BY <1>6 DEF RecvHeader
    <2>2. CASE srv' = [srv EXCEPT ![i] = "failed"] /\ held' = held
      BY <1>2, <2>1, <2>2, KeepsPool
    <2>3. CASE held' = [held EXCEPT ![i] = held[i] \o x] /\ srv' = srv
      <3>1. n \in 0..Len(up[i]) /\ up[i] \in Seq(PieceType) /\ held[i] \in Seq(PieceType) /\ Len(held[i]) # 0
        BY <1>1, <2>1, StreamTypes DEF HeldInv
      <3>2. x \in Seq(PieceType)
        BY <3>1, CutElements
      <3>3. held'[i] = held[i] \o x /\ \A j \in Conns : j # i => held'[j] = held[j]
        BY <1>1, <2>3
      <3> HIDE DEF x
      <3>4. Len(held'[i]) = Len(held[i]) + Len(x) /\ Len(held[i]) \in Nat /\ Len(x) \in Nat
        BY <3>1, <3>2, <3>3, CatElements
      <3>5. srv' = [srv EXCEPT ![i] = "recv"]
        BY <1>1, <2>1, <2>3
      <3> QED
        <4>1. Len(held'[i]) # 0 /\ Len(held[i]) # 0
          BY <3>1, <3>4
        <4> QED
          BY <1>2, <2>1, <3>3, <3>5, <4>1, KeepsPool
    <2> QED
      BY <2>1, <2>2, <2>3
  <1>7. CASE ParseReq(i)
    <2>1. /\ srv[i] = "recv" /\ buf[i] # NoBuf /\ UNCHANGED connNum /\ Asked(i) \in RequestType
          /\ Len(held[i]) > 0
      BY <1>7, ParseReqLaw
    <2>2. CASE srv' = [srv EXCEPT ![i] = "failed"] /\ UNCHANGED <<held, buf, poolVars>>
      BY <1>2, <2>1, <2>2, KeepsPool
    <2>3. ASSUME NEW c \in 0..1, Parsed(i, c) PROVE PoolInv'
      <3> DEFINE q == held[i] \o SubSeq(up[i], 1, c)
                 w == SubSeq(q, Pieces(Asked(i)) + 1, Len(q))
      <3>1. w \in Seq(PieceType) /\ held'[i] = w /\ \A j \in Conns : j # i => held'[j] = held[j]
        BY <2>1, <2>3, ParsedTypes
      <3>2. /\ srv' = [srv EXCEPT ![i] = "process"]
            /\ IF w = <<>> THEN PushElem(Srv, buf[i]) /\ buf' = [buf EXCEPT ![i] = NoBuf]
               ELSE UNCHANGED <<buf, poolVars>>
        BY <2>3 DEF Parsed
      <3> HIDE DEF w
      <3>3. w = <<>> <=> Len(w) = 0
        BY <3>1, EmptySeq
      <3>4. CASE w # <<>>
        <4>1. UNCHANGED <<buf, poolVars>> /\ Len(held'[i]) # 0 /\ Len(held[i]) # 0
          BY <2>1, <3>1, <3>2, <3>3, <3>4
        <4> QED
          BY <1>2, <2>1, <3>1, <3>2, <4>1, KeepsPool
      <3>5. CASE w = <<>>
        <4>1. PushElem(Srv, buf[i]) /\ buf' = [buf EXCEPT ![i] = NoBuf]
          BY <3>2, <3>5
        <4>2. \A j \in Conns : Served(j) => Served(j)'
          BY <1>1, <3>2 DEF Served
        <4>3. OwnInv'
          BY <1>1, <2>1, <4>1, <4>2, PushOwns
        <4>4. buf'[i] = NoBuf /\ \A j \in Conns : j # i => buf'[j] = buf[j]
          BY <1>1, <4>1
        <4>5. HeldInv'
          BY <1>1, <3>1, <3>3, <3>5, <4>4 DEF HeldInv
        <4>6. CountInv'
          BY <1>1, <1>2, <2>1, <3>2, CountMoves
        <4> QED
          BY <4>3, <4>5, <4>6 DEF PoolInv
      <3> QED
        BY <3>4, <3>5
    <2> QED
      BY <1>7, <2>2, <2>3, ParseReqLaw
  <1>8. CASE RecvErr(i)
    BY <1>2, <1>8, KeepsPool DEF RecvErr
  <1>9. ASSUME NEW all \in BOOLEAN, Process(i, all) PROVE PoolInv'
    <2>1. srv[i] = "process"
      BY <1>9, ProcessSteps
    <2>2. CASE Cleanup(i)
      BY <1>2, <2>1, <2>2, CleanupPool
    <2>3. CASE /\ UNCHANGED <<closedS, connNum, held, buf, poolVars>>
               /\ srv' = [srv EXCEPT ![i] = IF all THEN "recv" ELSE "failed"]
      BY <1>2, <2>1, <2>3, KeepsPool
    <2> QED
      BY <1>9, <2>2, <2>3, ProcessSteps
  <1> QED
    BY <1>3, <1>4, <1>5, <1>6, <1>7, <1>8, <1>9 DEF ServerStep

LEMMA NextPool ==
    ASSUME NetInv, StreamInv, PoolInv, [Next]_vars
    PROVE  PoolInv'
  <1>1. ASSUME NEW i \in Conns, ServerStep(i) PROVE PoolInv'
    BY <1>1, ServerPool
  <1>2. CASE UNCHANGED <<srv, buf, held, connNum, poolVars>>
    <2>1. ServedConns' = ServedConns /\ \A j \in Conns : Served(j)' <=> Served(j)
      BY <1>2 DEF ServedConns, Served
    <2>2. OwnInv'
      BY <1>2, <2>1, SameOwns DEF PoolInv, poolVars
    <2>3. HeldInv' /\ CountInv'
      BY <1>2, <2>1 DEF PoolInv, HeldInv, CountInv
    <2> QED
      BY <2>2, <2>3 DEF PoolInv
  <1>3. CASE Connect
    <2>1. UNCHANGED <<buf, held, connNum, poolVars>>
      BY <1>3 DEF Connect
    <2>2. CASE srv' = srv
      BY <1>2, <2>1, <2>2
    <2>3. ASSUME NEW i \in Conns, srv[i] = "none", srv' = [srv EXCEPT ![i] = "new"] PROVE PoolInv'
      <3>1. srv \in [Conns -> ServerPlaces]
        BY DEF NetInv, PlaceInv
      <3>2. \A j \in Conns : Served(j) => Served(j)'
        BY <2>3, <3>1 DEF Served
      <3>3. OwnInv' /\ HeldInv'
        BY <2>1, <3>2, SameOwns DEF PoolInv, HeldInv, poolVars
      <3>4. ~Served(i)
        BY <2>3 DEF Served
      <3>5. CountInv'
        BY <2>1, <2>3, <3>1, <3>4, CountMoves DEF PoolInv
      <3> QED
        BY <3>3, <3>5 DEF PoolInv
    <2> QED
      BY <1>3, <2>2, <2>3 DEF Connect
  <1>4. ASSUME NEW i, DeliverUp(i) \/ DeliverDown(i) \/ PeerSends(i) \/ PeerCloses(i) PROVE PoolInv'
    <2>1. UNCHANGED <<srvVars, poolVars>>
      BY <1>4 DEF DeliverUp, DeliverDown, PeerSends, PeerCloses
    <2> QED
      BY <1>2, <2>1 DEF srvVars
  <1>5. CASE Call \/ SendRequest \/ RecvResponse \/ RecvBody \/ RecvFails
    <2>1. UNCHANGED <<srvVars, poolVars>>
      BY <1>5 DEF Call, SendRequest, RecvResponse, RecvBody, RecvFails, Idle
    <2> QED
      BY <1>2, <2>1 DEF srvVars
  <1>6. CASE UNCHANGED vars
    BY <1>2, <1>6 DEF vars, srvVars
  <1> QED
    BY <1>1, <1>3, <1>4, <1>5, <1>6 DEF Next, ClientStep

LEMMA InitPool == Init => PoolInv
  <1> SUFFICES ASSUME Init PROVE PoolInv
    OBVIOUS
  <1>1. \A s \in PoolScheds : pools[s] = <<>> /\ Len(pools[s]) = 0
    BY DEF Init, PoolInit
  <1>2. pools \in [PoolScheds -> Seq(Elems)] /\ buf \in [Conns -> Elems \cup {NoBuf}]
    BY DEF Init, PoolInit
  <1>3. \A i \in Conns : buf[i] = NoBuf /\ held[i] = <<>> /\ ~Served(i)
    BY DEF Init, Served
  <1>4. OwnInv
    BY <1>1, <1>2, <1>3 DEF OwnInv
  <1>5. HeldInv
    BY <1>3 DEF HeldInv
  <1>6. ServedConns = {} /\ connNum = 0
    BY <1>3 DEF ServedConns, Init
  <1>7. CountInv
    BY <1>6, FS_EmptySet DEF CountInv
  <1> QED
    BY <1>4, <1>5, <1>7 DEF PoolInv

-----------------------------------------------------------------------------
(* Calls and answers. *)

\* What the client has sees no change.
LEMMA TalkSame ==
    ASSUME TalkInv, UNCHANGED <<cfd, cli, cbuf>>,
           \A i \in Conns : cfd = i => sent'[i] = sent[i] /\ answers'[i] = answers[i] /\ down'[i] = down[i]
    PROVE  TalkInv'
  <1> SUFFICES ASSUME NEW i \in Conns, cfd' = i PROVE Talk(i)'
    BY DEF TalkInv
  <1>1. Talk(i) /\ sent'[i] = sent[i] /\ answers'[i] = answers[i] /\ down'[i] = down[i]
    BY DEF TalkInv
  <1> QED
    BY <1>1 DEF Talk, Waits, AnswerTo

\* The next request on the connection of the client is answered: it waits for
\* just this answer, and has nothing of it yet.
LEMMA TalkResponded ==
    ASSUME NetInv, TalkInv, NEW i \in Conns, NEW a \in AnswerType, NEW all \in BOOLEAN, Respond(i, a, all),
           a.n = Nth(i), a.msg = Asked(i), Nth(i) <= Len(sent[i]), UNCHANGED <<cfd, cli, cbuf, sent, seenDown>>
    PROVE  TalkInv'
  <1> SUFFICES ASSUME NEW j \in Conns, cfd' = j PROVE Talk(j)'
    BY DEF TalkInv
  <1>1. Talk(j)
    BY DEF TalkInv
  <1> DEFINE r == Reply(a.msg)
  <1>2. /\ r \in RequestType
        /\ \A k \in Conns : k # i => down'[k] = down[k] /\ answers'[k] = answers[k]
        /\ answers'[i] = Append(answers[i], a)
        /\ \E m \in Seq(PieceType) :
              /\ down'[i] = down[i] \o m
              /\ Len(m) \in {1, Pieces(r)} /\ \A k \in 1..Len(m) : m[k] = Piece(k, a.n, r)
    BY Responds DEF NetInv
  <1>3. CASE j # i
    <2>1. sent'[j] = sent[j] /\ answers'[j] = answers[j] /\ down'[j] = down[j]
      BY <1>2, <1>3
    <2> QED
      BY <1>1, <2>1 DEF Talk, Waits, AnswerTo
  <1>4. CASE j = i
    <2>1. PICK m \in Seq(PieceType) :
              /\ down'[i] = down[i] \o m
              /\ Len(m) \in {1, Pieces(r)} /\ \A k \in 1..Len(m) : m[k] = Piece(k, a.n, r)
      BY <1>2
    <2>2. /\ answers[i] \in Seq(AnswerType) /\ Len(answers[i]) \in Nat /\ Len(sent[i]) \in Nat
          /\ down[i] \in Seq(PieceType) /\ cbuf \in Seq(PieceType)
      BY StreamTypes DEF NetInv, DownInv, PlaceInv
    <2> PICK n \in Nat : n = Len(sent[i])
      BY <2>2
    <2> PICK d \in Seq(PieceType) : d = down[i]
      BY <2>2
    <2> PICK c \in Seq(PieceType) : c = cbuf
      BY <2>2
    <2>3. Len(answers[i]) + 1 <= n
      BY DEF Nth
    <2>4. Waits /\ n > 0 /\ Len(answers[i]) = n - 1 /\ Len(c \o d) = 0
      BY <1>1, <1>4, <2>2, <2>3 DEF Talk
    <2>5. Nth(i) = n /\ Asked(i) = sent[i][n] /\ sent[i][n].resLines \in Nat
      BY <2>2, <2>4 DEF Nth, Asked, AnswerType, RequestType
    <2>6. Len(c) = 0 /\ Len(d) = 0
      <3>1. Len(c \o d) = Len(c) + Len(d) /\ Len(c) \in Nat /\ Len(d) \in Nat
        BY CatElements
      <3> QED
        BY <2>4, <3>1
    <2>7. d \o m = m /\ c \o m = m
      BY <2>6, CatElements
    <2>8. cbuf' \o down'[i] = m
      BY <2>1, <2>7
    <2>9. Len(answers'[i]) = n
      BY <1>2, <2>2, <2>4, AppendProperties
    <2>10. Reply(sent'[i][n]) = r
      BY <2>5
    <2>11. AnswerTo(m, n, r)
      BY <2>1, <2>5 DEF AnswerTo
    <2>12. AnswerTo(cbuf' \o down'[i], n, Reply(sent'[i][n]))
      BY <2>8, <2>10, <2>11
    <2>13. Waits' /\ Len(sent'[i]) = n /\ (\A k \in 1..n : sent'[i][k].err = 0) /\ Len(cbuf') = 0
      BY <1>1, <1>4, <2>4, <2>6 DEF Talk, Waits
    <2>14. cli' # "body" /\ Len(cbuf') <= sent'[i][n].resLines
      BY <1>1, <1>4, <2>5, <2>6, <2>13 DEF Talk
    <2>15. Talk(i)'
      BY <2>4, <2>9, <2>12, <2>13, <2>14 DEF Talk, AnswerTo
    <2> QED
      BY <1>4, <2>15
  <1> QED
    BY <1>3, <1>4

\* The answers only become more.
More == \A i \in Conns : \A k \in 1..Len(answers[i]) : k \in 1..Len(answers'[i]) /\ answers'[i][k] = answers[i][k]
LEMMA MoreAnswers ==
    ASSUME DownInv, NEW i \in Conns, NEW a \in AnswerType, answers'[i] = Append(answers[i], a),
           \A j \in Conns : j # i => answers'[j] = answers[j]
    PROVE  More
  <1>1. answers[i] \in Seq(AnswerType) /\ Len(answers[i]) \in Nat
    BY DEF DownInv
  <1>2. /\ Len(answers'[i]) = Len(answers[i]) + 1
        /\ \A k \in 1..Len(answers[i]) : answers'[i][k] = answers[i][k]
    BY <1>1, AppendProperties
  <1>3. \A k \in 1..Len(answers[i]) : k \in 1..Len(answers'[i])
    BY <1>1, <1>2
  <1> QED
    BY <1>2, <1>3 DEF More

LEMMA ResultsSame ==
    ASSUME GotInv, OkInv, UNCHANGED <<got, calls, cli, cfd>>, More,
           \A i \in Conns : cfd = i => sent'[i] = sent[i]
    PROVE  GotInv' /\ OkInv'
  <1>1. \A i \in Conns : OnConn(i)' = OnConn(i)
    BY DEF OnConn
  <1>2. \A g \in got : Earlier(g)' = Earlier(g)
    BY DEF Earlier
  <1>3. GotInv'
    BY <1>1 DEF GotInv, Waits
  <1>4. OkInv'
    BY <1>2 DEF OkInv, More
  <1> QED
    BY <1>3, <1>4

\* A call is over.
LEMMA ResultAdded ==
    ASSUME GotInv, OkInv, calls \in Nat, cli # "idle", NEW e \in ResultType, e.call = calls, got' = got \cup {e},
           UNCHANGED <<calls, answers>>, cli' = "idle",
           e.status = 200 => /\ e.fd \in Conns /\ e.n = Cardinality(OnConn(e.fd)) + 1
                             /\ \E k \in 1..Len(answers[e.fd]) : answers[e.fd][k].n = e.n
    PROVE  /\ OkInv' /\ IsFiniteSet(got') /\ got' \subseteq ResultType /\ \A g \in got' : g.call <= calls'
           /\ Cardinality(OnConn(e.fd)') = Cardinality(OnConn(e.fd)) + 1
  <1> PICK f \in 0..MaxConn : f = e.fd
    BY DEF ResultType
  <1>1. e.call = calls
    OBVIOUS
  <1>2. got' = got \cup {e}
    OBVIOUS
  <1>3. \A g \in got : g \in ResultType /\ g.call \in Nat /\ g.call < calls /\ g # e
    BY <1>1 DEF GotInv, ResultType
  <1>4. IsFiniteSet(got') /\ got' \subseteq ResultType /\ \A g \in got' : g.call <= calls'
    <2>1. IsFiniteSet(got')
      BY <1>2, FS_AddElement DEF GotInv
    <2> QED
      BY <1>1, <1>2, <1>3, <2>1
  <1>5. OnConn(f)' = OnConn(f) \cup {e} /\ e \notin OnConn(f) /\ IsFiniteSet(OnConn(f))
    <2>1. IsFiniteSet(OnConn(f))
      BY FS_Subset DEF OnConn, GotInv
    <2> QED
      BY <1>1, <1>2, <1>3, <2>1 DEF OnConn
  <1>6. Cardinality(OnConn(f)') = Cardinality(OnConn(f)) + 1
    BY <1>5, FS_AddElement
  <1>7. ASSUME NEW g \in got PROVE Earlier(g)' = Earlier(g)
    <2>1. ~(calls <= g.call)
      BY <1>3
    <2> QED
      BY <1>1, <1>2, <2>1 DEF Earlier
  <1>8. {h \in got' : h.fd = f /\ h.call <= calls} = OnConn(f)'
    BY <1>4 DEF OnConn
  <1>9. ASSUME NEW g \in got', g.status = 200
        PROVE  /\ g.fd \in Conns /\ g.n = Cardinality({h \in got' : h.fd = g.fd /\ h.call <= g.call})
               /\ \E k \in 1..Len(answers'[g.fd]) : answers'[g.fd][k].n = g.n
    <2>1. CASE g = e
      <3>1. {h \in got' : h.fd = g.fd /\ h.call <= g.call} = OnConn(f)'
        BY <1>1, <1>8, <2>1
      <3>2. g.fd \in Conns /\ g.n = Cardinality(OnConn(f)) + 1
        BY <1>9, <2>1
      <3>3. \E k \in 1..Len(answers'[g.fd]) : answers'[g.fd][k].n = g.n
        BY <1>9, <2>1
      <3> QED
        BY <1>6, <3>1, <3>2, <3>3
    <2>2. CASE g \in got
      <3>1. {h \in got' : h.fd = g.fd /\ h.call <= g.call} = Earlier(g)
        BY <1>7, <2>2 DEF Earlier
      <3>2. /\ g.fd \in Conns /\ g.n = Cardinality(Earlier(g))
            /\ \E k \in 1..Len(answers'[g.fd]) : answers'[g.fd][k].n = g.n
        BY <1>9, <2>2 DEF OkInv
      <3> QED
        BY <3>1, <3>2, Zenon
    <2> QED
      BY <1>2, <2>1, <2>2
  <1>10. OkInv'
    BY <1>9, Zenon DEF OkInv, Earlier
  <1> QED
    BY <1>4, <1>6, <1>10

\* A call fails, and the connection is closed.
LEMMA FailsTalk ==
    ASSUME NetInv, GotInv, OkInv, cli \in {"send", "head", "body"}, NEW status \in Nat \ {200}, CallFails(status),
           answers' = answers
    PROVE  TalkInv' /\ GotInv' /\ OkInv'
  <1>1. /\ cli' = "idle" /\ cfd' = 0 /\ calls' = calls /\ 0 \notin Conns /\ cfd \in 0..MaxConn /\ calls \in Nat
        /\ got' = got \cup {[call |-> calls, status |-> status, n |-> 0, fd |-> cfd]}
    BY Constants DEF CallFails, NetInv, PlaceInv
  <1>2. OkInv' /\ IsFiniteSet(got') /\ got' \subseteq ResultType /\ \A g \in got' : g.call <= calls'
    <2> DEFINE e == [call |-> calls, status |-> status, n |-> 0, fd |-> cfd]
    <2>1. e \in ResultType /\ e.call = calls /\ e.status # 200 /\ got' = got \cup {e}
      BY <1>1 DEF ResultType
    <2> HIDE DEF e
    <2> QED
      BY <1>1, <2>1, ResultAdded
  <1> QED
    BY <1>1, <1>2 DEF TalkInv, GotInv

\* The answer that the client waits for, as soon as some of it is there.
ReplyOf(i) == Reply(sent[i][Len(sent[i])])
LEMMA WaitsFor ==
    ASSUME NetInv, TalkInv, NEW i \in Conns, cfd = i, Waits, seenDown[i] > 0
    PROVE  /\ ReplyOf(i) \in RequestType /\ ReplyOf(i).lines = sent[i][Len(sent[i])].resLines
           /\ ReplyOf(i).len = sent[i][Len(sent[i])].len
           /\ Len(sent[i]) \in Nat /\ Len(sent[i]) > 0 /\ Len(answers[i]) = Len(sent[i])
           /\ AnswerTo(cbuf \o down[i], Len(sent[i]), ReplyOf(i))
           /\ cbuf \in Seq(PieceType) /\ down[i] \in Seq(PieceType) /\ seenDown[i] \in 0..Len(down[i])
           /\ Len(cbuf \o down[i]) = Len(cbuf) + Len(down[i]) /\ Len(cbuf) \in Nat /\ Len(down[i]) \in Nat
  <1>1. /\ sent[i] \in Seq(RequestType) /\ Len(sent[i]) \in Nat /\ down[i] \in Seq(PieceType)
        /\ cbuf \in Seq(PieceType) /\ seenDown[i] \in 0..Len(down[i])
    <2>1. sent[i] \in Seq(RequestType) /\ Len(sent[i]) \in Nat
      BY StreamTypes
    <2>2. /\ down[i] \in Seq(PieceType) /\ cbuf \in Seq(PieceType) /\ seenDown[i] \in Nat
          /\ seenDown[i] <= Len(down[i])
      BY DEF NetInv, DownInv, PlaceInv
    <2> QED
      BY <2>1, <2>2
  <1> DEFINE d == down[i]
  <1>2. d \in Seq(PieceType)
    BY <1>1
  <1> HIDE DEF d
  <1>3. Len(cbuf \o d) = Len(cbuf) + Len(d) /\ Len(cbuf) \in Nat /\ Len(d) \in Nat
    BY <1>1, <1>2, CatElements
  <1>4. Len(d) > 0
    BY <1>1, <1>3 DEF d
  <1>5. Talk(i) /\ Len(cbuf \o d) # 0
    BY <1>3, <1>4 DEF TalkInv
  <1>6. /\ Len(sent[i]) > 0 /\ Len(answers[i]) = Len(sent[i])
        /\ AnswerTo(cbuf \o down[i], Len(sent[i]), ReplyOf(i))
    BY <1>5 DEF Talk, ReplyOf, d
  <1>7. sent[i][Len(sent[i])] \in RequestType
    BY <1>1, <1>6
  <1>8. /\ ReplyOf(i) \in RequestType /\ ReplyOf(i).lines = sent[i][Len(sent[i])].resLines
        /\ ReplyOf(i).len = sent[i][Len(sent[i])].len
    BY <1>7 DEF ReplyOf, Reply, RequestType
  <1> QED
    BY <1>1, <1>3, <1>6, <1>8 DEF d

\* The result of a call whose answer is complete.
LEMMA CallReturns ==
    ASSUME NetInv, AnswerInv, TalkInv, GotInv, OkInv, NEW i \in Conns, cfd = i, Waits, seenDown[i] > 0,
           got' = got \cup {[call |-> calls, status |-> 200, n |-> Len(sent[i]), fd |-> i]}, cli' = "idle",
           cbuf' = <<>>, UNCHANGED <<cfd, calls, sent, answers>>, down'[i] \in Seq(PieceType), Len(down'[i]) = 0
    PROVE  TalkInv' /\ GotInv' /\ OkInv'
  <1>1. Len(sent[i]) \in Nat /\ Len(sent[i]) > 0 /\ Len(answers[i]) = Len(sent[i]) /\ calls \in Nat /\ i \in 0..MaxConn
    BY WaitsFor, Constants DEF NetInv, PlaceInv
  <1>2. cli # "idle"
    BY DEF Waits
  <1>3. Len(sent[i]) = Cardinality(OnConn(i)) + 1
    BY DEF GotInv
  <1>4. \E k \in 1..Len(answers[i]) : answers[i][k].n = Len(sent[i])
    <2>1. Len(sent[i]) \in 1..Len(answers[i])
      BY <1>1
    <2>2. answers[i][Len(sent[i])].n = Len(sent[i])
      BY <2>1 DEF AnswerInv, AnswersOf, AnswerOf
    <2> QED
      BY <2>1, <2>2
  <1>5. /\ OkInv' /\ IsFiniteSet(got') /\ got' \subseteq ResultType /\ \A g \in got' : g.call <= calls'
        /\ Cardinality(OnConn(i)') = Cardinality(OnConn(i)) + 1
    <2>0. [call |-> calls, status |-> 200, n |-> Len(sent[i]), fd |-> i] \in ResultType
      BY <1>1 DEF ResultType
    <2> PICK e \in ResultType : e = [call |-> calls, status |-> 200, n |-> Len(sent[i]), fd |-> i]
      BY <2>0
    <2>1. /\ e \in ResultType /\ e.call = calls /\ e.fd = i /\ e.n = Len(sent[i]) /\ got' = got \cup {e}
      OBVIOUS
    <2>2. /\ e.fd \in Conns /\ e.n = Cardinality(OnConn(e.fd)) + 1
          /\ \E k \in 1..Len(answers[e.fd]) : answers[e.fd][k].n = e.n
      BY <1>3, <1>4, <2>1
    <2>3. calls \in Nat /\ UNCHANGED <<calls, answers>>
      BY <1>1
    <2>4. /\ OkInv' /\ IsFiniteSet(got') /\ got' \subseteq ResultType /\ \A g \in got' : g.call <= calls'
          /\ Cardinality(OnConn(e.fd)') = Cardinality(OnConn(e.fd)) + 1
      BY <1>2, <2>1, <2>2, <2>3, ResultAdded
    <2>5. OnConn(e.fd)' = OnConn(i)' /\ OnConn(e.fd) = OnConn(i)
      BY <2>1 DEF OnConn
    <2> QED
      BY <2>4, <2>5
  <1>6. ~Waits'
    BY DEF Waits
  <1>7. GotInv'
    BY <1>3, <1>5, <1>6 DEF GotInv
  <1>8. Len(cbuf' \o down'[i]) = 0
    <2> PICK d \in Seq(PieceType) : d = down'[i]
      OBVIOUS
    <2>1. cbuf' \o d = d
      BY ConcatEmptySeq
    <2> QED
      BY <2>1
  <1>9. Talk(i)
    BY DEF TalkInv
  <1>10. Talk(i)'
    BY <1>1, <1>6, <1>8, <1>9 DEF Talk
  <1>11. TalkInv'
    BY <1>10 DEF TalkInv
  <1> QED
    BY <1>5, <1>7, <1>11

LEMMA ResponseTalk ==
    ASSUME NetInv, AnswerInv, TalkInv, GotInv, OkInv, RecvResponse
    PROVE  TalkInv' /\ GotInv' /\ OkInv'
  <1>0. cli = "head" /\ cfd \in Conns
    BY ClientHas DEF RecvResponse
  <1> PICK i \in Conns : i = cfd
    BY <1>0
  <1> DEFINE m == seenDown[cfd]
             d == down[cfd]
             x == SubSeq(d, 1, m)
             y == SubSeq(d, m + 1, Len(d))
             p == cbuf \o x
             n == Len(sent[i])
             r == ReplyOf(i)
             s == cbuf \o d
  <1>1. /\ m > 0 /\ TakeDown(cfd, m) /\ UNCHANGED <<up, seenUp, closedS, sent, scene, srvVars>>
        /\ IF FindEnd(p) # 0 /\ ~p[FindEnd(p)].msg.resOk THEN CallFails(500)
           ELSE IF FindEnd(p) # 0 /\ Len(p) > Total(p) THEN CallFails(500)
           ELSE IF FindEnd(p) # 0 /\ Len(p) = Total(p)
           THEN /\ got' = got \cup {[call |-> calls, status |-> 200, n |-> p[FindEnd(p)].n, fd |-> cfd]}
                /\ cli' = "idle" /\ cbuf' = <<>> /\ UNCHANGED <<cfd, calls, closedC>>
           ELSE /\ cli' = IF FindEnd(p) = 0 THEN "head" ELSE "body"
                /\ cbuf' = p /\ UNCHANGED <<cfd, calls, got, closedC>>
    BY DEF RecvResponse, Idle
  <1>2. answers' = answers /\ sent' = sent /\ Waits
    BY <1>0, <1>1 DEF srvVars, Waits
  <1>3. /\ r \in RequestType /\ r.lines = sent[i][n].resLines /\ r.len = sent[i][n].len
        /\ n \in Nat /\ n > 0 /\ Len(answers[i]) = n
        /\ AnswerTo(s, n, r) /\ cbuf \in Seq(PieceType) /\ d \in Seq(PieceType) /\ m \in 0..Len(d)
        /\ Len(s) = Len(cbuf) + Len(d) /\ Len(cbuf) \in Nat /\ Len(d) \in Nat
    BY <1>1, <1>2, WaitsFor
  <1>4. m \in 0..m
    BY <1>3
  <1>5. down'[i] = y
    BY <1>1, <1>2, <1>4, DownTaken DEF NetInv
  <1> HIDE DEF m, d
  <1>6. x \in Seq(PieceType) /\ Len(x) = m /\ y \in Seq(PieceType) /\ Len(y) = Len(d) - m
    BY <1>3, CutElements
  <1>7. p \o y = s
    BY <1>3, MovedSame
  <1>8. r.len \in 0..1 /\ r.lines \in Nat /\ r.lines >= 1 /\ Pieces(r) = r.lines + 1 + r.len
    BY <1>3, PiecesNat
  <1> HIDE DEF x, y
  <1>9. p \in Seq(PieceType)
    BY <1>3, <1>6, CatElements
  <1> HIDE DEF p, s
  <1>10. Len(s) = Len(p) + Len(y) /\ Len(p) \in Nat /\ Len(y) \in Nat /\ \A j \in 1..Len(p) : s[j] = p[j]
    <2>1. Len(p \o y) = Len(p) + Len(y) /\ Len(p) \in Nat /\ Len(y) \in Nat /\ \A j \in 1..Len(p) : (p \o y)[j] = p[j]
      BY <1>6, <1>9, CatElements
    <2> QED
      BY <1>7, <2>1
  <1>11. Len(s) \in {1, Pieces(r)} /\ \A j \in 1..Len(s) : s[j] = Piece(j, n, r)
    BY <1>3 DEF AnswerTo
  <1>12. Front1(p, n, r)
    <2>1. \A j \in 1..Len(p) : j \in 1..Len(s)
      BY <1>10
    <2>2. \A j \in 1..Len(p) : p[j] = Piece(j, n, r)
      BY <1>10, <1>11, <2>1
    <2> QED
      BY <2>2 DEF Front1
  <1> HIDE DEF r, n
  <1>13. FindEnd(p) = (IF Len(p) > r.lines THEN r.lines + 1 ELSE 0)
    BY <1>3, <1>9, <1>12, FindEndLaw
  <1>14. FindEnd(p) # 0 => p[FindEnd(p)] = Piece(r.lines + 1, n, r) /\ Total(p) = Pieces(r)
    BY <1>3, <1>9, <1>12, FindEndLaw
  <1>15. CASE FindEnd(p) # 0 /\ (~p[FindEnd(p)].msg.resOk \/ Len(p) > Total(p))
    BY <1>0, <1>1, <1>2, <1>15, FailsTalk
  <1>16. CASE FindEnd(p) # 0 /\ p[FindEnd(p)].msg.resOk /\ Len(p) = Total(p)
    <2>1. /\ got' = got \cup {[call |-> calls, status |-> 200, n |-> p[FindEnd(p)].n, fd |-> cfd]}
          /\ cli' = "idle" /\ cbuf' = <<>> /\ UNCHANGED <<cfd, calls>>
      BY <1>1, <1>9, <1>16
    <2>2. p[FindEnd(p)].n = n
      BY <1>14, <1>16 DEF Piece
    <2>3. Len(p) = r.lines + 1 + r.len
      BY <1>8, <1>14, <1>16
    <2>4. Len(y) = 0
      BY <1>8, <1>10, <1>11, <2>3
    <2> QED
      BY <1>1, <1>2, <1>5, <1>6, <2>1, <2>2, <2>4, CallReturns DEF n, m
  <1>17. CASE \/ FindEnd(p) = 0
              \/ p[FindEnd(p)].msg.resOk /\ ~(Len(p) > Total(p)) /\ Len(p) # Total(p)
    <2>1. /\ cli' = (IF FindEnd(p) = 0 THEN "head" ELSE "body")
          /\ cbuf' = p /\ UNCHANGED <<cfd, calls, got>>
      BY <1>1, <1>17
    <2>2. cbuf' \o down'[i] = s
      BY <1>5, <1>7, <2>1
    <2>3. Waits'
      BY <2>1 DEF Waits
    <2>4. cli' = "head" => Len(cbuf') <= sent[i][n].resLines
      BY <1>3, <1>8, <1>10, <1>13, <2>1
    <2>5. cli' = "body" => Len(cbuf') = sent[i][n].resLines + 1 /\ sent[i][n].len = 1
      <3>1. ASSUME FindEnd(p) # 0 PROVE Len(p) = r.lines + 1 /\ r.len = 1
        <4>1. Len(p) > r.lines /\ Len(p) # r.lines + 1 + r.len /\ ~(Len(p) > r.lines + 1 + r.len)
          BY <1>8, <1>13, <1>14, <1>17, <3>1
        <4>2. r.len = 0 \/ r.len = 1
          BY <1>8
        <4> PICK z \in Nat : z = Len(p)
          BY <1>10
        <4> PICK l \in Nat : l = r.lines
          BY <1>8
        <4>3. z > l /\ z # l + 1 + r.len /\ ~(z > l + 1 + r.len)
          BY <4>1
        <4>4. CASE r.len = 0
          BY <4>3, <4>4
        <4>5. CASE r.len = 1
          BY <4>3, <4>5
        <4> QED
          BY <4>2, <4>4, <4>5
      <3> QED
        BY <1>3, <2>1, <3>1
    <2>6. (\A k \in 1..n : sent[i][k].err = 0)
      BY DEF TalkInv, Talk, n
    <2>7. AnswerTo(cbuf' \o down'[i], n, Reply(sent[i][n]))
      BY <1>3, <2>2 DEF r, ReplyOf, n
    <2>8. Talk(i)'
      BY <1>2, <1>3, <2>3, <2>4, <2>5, <2>6, <2>7 DEF Talk, AnswerTo, n
    <2>9. TalkInv'
      BY <2>1, <2>8 DEF TalkInv
    <2>10. GotInv' /\ OkInv'
      <3>1. \A k \in Conns : OnConn(k)' = OnConn(k)
        BY <2>1 DEF OnConn
      <3>2. GotInv'
        BY <1>0, <1>2, <2>1, <2>3, <3>1 DEF GotInv
      <3>3. \A g \in got : Earlier(g)' = Earlier(g)
        BY <2>1 DEF Earlier
      <3>4. OkInv'
        BY <1>2, <2>1, <3>3 DEF OkInv
      <3> QED
        BY <3>2, <3>4
    <2> QED
      BY <2>9, <2>10
  <1> QED
    BY <1>15, <1>16, <1>17

LEMMA BodyTalk ==
    ASSUME NetInv, AnswerInv, TalkInv, GotInv, OkInv, RecvBody
    PROVE  TalkInv' /\ GotInv' /\ OkInv'
  <1>0. cli = "body" /\ cfd \in Conns
    BY ClientHas DEF RecvBody
  <1> PICK i \in Conns : i = cfd
    BY <1>0
  <1> DEFINE n == Len(sent[i])
             r == ReplyOf(i)
             d == down[i]
             y == SubSeq(d, 1 + 1, Len(d))
  <1>1. /\ seenDown[i] > 0 /\ TakeDown(i, 1) /\ cli' = "idle" /\ cbuf' = <<>>
        /\ got' = got \cup {[call |-> calls, status |-> 200, n |-> cbuf[FindEnd(cbuf)].n, fd |-> i]}
        /\ UNCHANGED <<sent, cfd, calls, answers>>
    BY DEF RecvBody, Idle, srvVars
  <1>2. /\ r \in RequestType /\ r.lines = sent[i][n].resLines /\ n \in Nat /\ n > 0 /\ Len(answers[i]) = n
        /\ AnswerTo(cbuf \o d, n, r) /\ cbuf \in Seq(PieceType) /\ d \in Seq(PieceType)
        /\ seenDown[i] \in 0..Len(d) /\ r.len = sent[i][n].len
        /\ Len(cbuf \o d) = Len(cbuf) + Len(d) /\ Len(cbuf) \in Nat /\ Len(d) \in Nat
    BY <1>0, <1>1, WaitsFor DEF Waits
  <1>3. Len(cbuf) = r.lines + 1 /\ r.len = 1
    BY <1>0, <1>2 DEF TalkInv, Talk
  <1>4. 1 \in 0..seenDown[i] /\ 1 \in 0..Len(d)
    BY <1>1, <1>2
  <1>5. down'[i] = y /\ y \in Seq(PieceType) /\ Len(y) = Len(d) - 1
    <2>1. down'[i] = y
      BY <1>1, <1>4, DownTaken DEF NetInv
    <2> HIDE DEF d
    <2>2. y \in Seq(PieceType) /\ Len(y) = Len(d) - 1
      BY <1>2, <1>4, CutElements
    <2> QED
      BY <2>1, <2>2
  <1>6. r.lines \in Nat /\ r.lines >= 1 /\ Pieces(r) = r.lines + 2
    BY <1>2, <1>3, PiecesNat
  <1> HIDE DEF r, n, d, y
  <1>7. Len(cbuf \o d) \in {1, r.lines + 2} /\ \A j \in 1..Len(cbuf \o d) : (cbuf \o d)[j] = Piece(j, n, r)
    BY <1>2, <1>6 DEF AnswerTo
  <1>8. Len(y) = 0
    <2> PICK l \in Nat : l = r.lines
      BY <1>6
    <2> PICK z \in Nat : z = Len(d)
      BY <1>2
    <2>1. Len(cbuf) = l + 1 /\ 1 <= z
      BY <1>3, <1>4
    <2>2. l + 1 + z = 1 \/ l + 1 + z = l + 2
      BY <1>2, <1>7, <2>1
    <2>3. Len(d) = 1
      BY <2>1, <2>2
    <2> QED
      BY <1>5, <2>3
  <1>9. Front1(cbuf, n, r)
    <2>1. \A j \in 1..Len(cbuf) : (cbuf \o d)[j] = cbuf[j]
      BY <1>2, CatElements
    <2>2. \A j \in 1..Len(cbuf) : j \in 1..Len(cbuf \o d)
      BY <1>2
    <2>3. \A j \in 1..Len(cbuf) : cbuf[j] = Piece(j, n, r)
      BY <1>7, <2>1, <2>2
    <2> QED
      BY <2>3 DEF Front1
  <1>10. /\ FindEnd(cbuf) = (IF Len(cbuf) > r.lines THEN r.lines + 1 ELSE 0)
         /\ FindEnd(cbuf) # 0 => cbuf[FindEnd(cbuf)] = Piece(r.lines + 1, n, r)
    BY <1>2, <1>9, FindEndLaw
  <1>11. cbuf[FindEnd(cbuf)].n = n
    BY <1>3, <1>6, <1>10 DEF Piece
  <1> QED
    BY <1>0, <1>1, <1>5, <1>8, <1>11, CallReturns DEF n, Waits

CallInv == TalkInv /\ GotInv /\ OkInv

\* Nothing that the client sees changes.
LEMMA CallsSame ==
    ASSUME CallInv, UNCHANGED <<cfd, cli, cbuf, calls, got, answers>>,
           \A i \in Conns : cfd = i => sent'[i] = sent[i] /\ down'[i] = down[i]
    PROVE  CallInv'
  <1>1. More
    BY DEF More
  <1> QED
    BY <1>1, TalkSame, ResultsSame DEF CallInv

LEMMA ServerCalls ==
    ASSUME NetInv, StreamInv, CallInv, NEW i \in Conns, ServerStep(i)
    PROVE  CallInv'
  <1>1. CASE \/ ServerStart(i) \/ RecvFirst(i) \/ RecvIdle(i) \/ RecvHeader(i)
             \/ RecvZero(i) \/ RecvErr(i) \/ ServerReset(i)
    <2>1. UNCHANGED <<cliVars, sent, down, answers>>
      BY <1>1 DEF ServerStart, RecvFirst, RecvIdle, RecvHeader, RecvZero, RecvErr, ServerReset, netVars
    <2> QED
      BY <2>1, CallsSame DEF cliVars
  <1>2. CASE ParseReq(i)
    <2>1. /\ Nth(i) <= Len(sent[i]) /\ Asked(i) \in RequestType
          /\ UNCHANGED <<seenDown, closedC, closedS, sent, scene, cliVars, res10, connNum>>
      BY <1>2, ParseReqLaw
    <2>2. ASSUME NEW c \in 0..1, Parsed(i, c) PROVE CallInv'
      <3>1. UNCHANGED <<down, answers>>
        BY <2>2 DEF Parsed
      <3> QED
        BY <2>1, <3>1, CallsSame DEF cliVars
    <2>3. ASSUME Asked(i).err # 0, NEW all \in BOOLEAN, Respond(i, ErrorAnswer(i), all) PROVE CallInv'
      <3>1. cfd # i
        <4>1. ASSUME cfd = i PROVE FALSE
          <5>1. \A k \in 1..Len(sent[i]) : sent[i][k].err = 0
            BY <4>1 DEF CallInv, TalkInv, Talk
          <5>2. Nth(i) \in 1..Len(sent[i])
            <6>1. Len(answers[i]) \in Nat /\ Len(sent[i]) \in Nat
              BY StreamTypes
            <6> QED
              BY <2>1, <6>1 DEF Nth
          <5> QED
            BY <2>3, <5>1, <5>2 DEF Asked
        <4> QED
          BY <4>1
      <3>2. ErrorAnswer(i) \in AnswerType
        BY <2>1, ErrorAnswerType
      <3>3. /\ answers'[i] = Append(answers[i], ErrorAnswer(i))
            /\ \A j \in Conns : j # i => down'[j] = down[j] /\ answers'[j] = answers[j]
        BY <2>1, <2>3, <3>2, Responds DEF NetInv
      <3>4. More
        BY <3>2, <3>3, MoreAnswers DEF NetInv
      <3>5. \A j \in Conns : cfd = j => sent'[j] = sent[j] /\ answers'[j] = answers[j] /\ down'[j] = down[j]
        BY <2>1, <3>1, <3>3
      <3> QED
        BY <2>1, <3>4, <3>5, TalkSame, ResultsSame DEF CallInv, cliVars
    <2> QED
      BY <1>2, <2>2, <2>3, ParseReqLaw
  <1>3. ASSUME NEW all \in BOOLEAN, Process(i, all) PROVE CallInv'
    <2>1. /\ srv[i] = "process" /\ Answer(i) \in AnswerType /\ Respond(i, Answer(i), all)
          /\ UNCHANGED <<up, seenUp, seenDown, closedC, sent, scene, cliVars>>
      BY <1>3, ProcessSteps
    <2>2. Nth(i) <= Len(sent[i]) /\ Answer(i).n = Nth(i) /\ Answer(i).msg = Asked(i)
      BY <2>1, ProcessLaw DEF Answer
    <2>3. /\ answers'[i] = Append(answers[i], Answer(i))
          /\ \A j \in Conns : j # i => down'[j] = down[j] /\ answers'[j] = answers[j]
      BY <2>1, Responds DEF NetInv
    <2>4. More
      BY <2>1, <2>3, MoreAnswers DEF NetInv
    <2>5. UNCHANGED <<cfd, cli, cbuf, sent, seenDown, got, calls>>
      BY <2>1 DEF cliVars
    <2>6. TalkInv'
      BY <2>1, <2>2, <2>5, TalkResponded DEF CallInv
    <2>7. GotInv' /\ OkInv'
      BY <2>4, <2>5, ResultsSame DEF CallInv
    <2> QED
      BY <2>6, <2>7 DEF CallInv
  <1> QED
    BY <1>1, <1>2, <1>3 DEF ServerStep

LEMMA ClientCalls ==
    ASSUME NetInv, AnswerInv, CallInv, Call \/ ClientStep
    PROVE  CallInv'
  <1>0. /\ calls \in Nat /\ cfd \in 0..MaxConn /\ 0 \notin Conns /\ cbuf \in Seq(PieceType)
        /\ TalkInv /\ GotInv /\ OkInv
    BY Constants DEF NetInv, PlaceInv, CallInv
  <1>1. CASE Call
    <2>1. /\ cli = "idle" /\ cli' \in {"connect", "send"} /\ calls' = calls + 1
          /\ UNCHANGED <<sent, down, answers, cfd, cbuf, got>>
      BY <1>1 DEF Call, Idle, netVars, srvVars
    <2>2. ~Waits /\ ~Waits'
      BY <2>1 DEF Waits
    <2>3. TalkInv'
      <3> SUFFICES ASSUME NEW i \in Conns, cfd' = i PROVE Talk(i)'
        BY DEF TalkInv
      <3>1. Talk(i)
        BY <1>0, <2>1 DEF TalkInv
      <3> QED
        BY <2>1, <2>2, <3>1 DEF Talk
    <2>4. GotInv'
      <3>1. \A g \in got : g.call \in Nat /\ g.call <= calls
        BY <1>0 DEF GotInv, ResultType
      <3>2. \A g \in got' : g.call <= calls' /\ g.call < calls'
        BY <1>0, <2>1, <3>1
      <3>3. \A i \in Conns : OnConn(i)' = OnConn(i)
        BY <2>1 DEF OnConn
      <3>4. \A i \in Conns : cfd' = i => Len(sent'[i]) = Cardinality(OnConn(i)') + (IF Waits' THEN 1 ELSE 0)
        BY <1>0, <2>1, <2>2, <3>3 DEF GotInv
      <3>5. IsFiniteSet(got') /\ got' \subseteq ResultType
        BY <1>0, <2>1 DEF GotInv
      <3> QED
        BY <3>2, <3>4, <3>5 DEF GotInv
    <2>5. OkInv'
      <3>1. \A g \in got : Earlier(g)' = Earlier(g)
        BY <2>1 DEF Earlier
      <3> QED
        BY <1>0, <2>1, <3>1 DEF OkInv
    <2> QED
      BY <2>3, <2>4, <2>5 DEF CallInv
  <1>2. CASE Connect
    <2>1. cli = "connect" /\ UNCHANGED <<netVars, cbuf, calls, answers>> /\ cfd = 0
      BY <1>2 DEF Connect, NetInv, PlaceInv
    <2>2. ASSUME NEW i \in Conns, srv[i] = "none", cfd' = i, cli' = "send", got' = got PROVE CallInv'
      <3>1. /\ Len(sent[i]) = 0 /\ Len(answers[i]) = 0 /\ Len(down[i]) = 0 /\ \A g \in got : g.fd # i
        BY <2>2 DEF NetInv, PlaceInv
      <3>2. ~Waits' /\ ~Waits
        BY <2>1, <2>2 DEF Waits
      <3>3. Len(cbuf' \o down'[i]) = 0
        <4>1. down[i] \in Seq(PieceType) /\ Len(cbuf) = 0
          BY <2>1 DEF NetInv, DownInv, PlaceInv
        <4> PICK d \in Seq(PieceType) : d = down[i]
          BY <4>1
        <4>2. cbuf \o d = d
          BY <1>0, <4>1, CatElements
        <4> QED
          BY <2>1, <3>1, <4>2 DEF netVars
      <3>4. Talk(i)'
        BY <2>1, <2>2, <3>1, <3>2, <3>3 DEF Talk, netVars
      <3>5. TalkInv'
        BY <2>2, <3>4 DEF TalkInv
      <3>6. OnConn(i)' = {} /\ Cardinality({}) = 0
        BY <2>2, <3>1, FS_EmptySet DEF OnConn
      <3>7. GotInv'
        <4>1. Len(sent'[i]) = Cardinality(OnConn(i)') + 0
          BY <2>1, <3>1, <3>6 DEF netVars
        <4>2. \A j \in Conns : cfd' = j => Len(sent'[j]) = Cardinality(OnConn(j)') + (IF Waits' THEN 1 ELSE 0)
          BY <2>2, <3>2, <4>1
        <4>3. IsFiniteSet(got') /\ got' \subseteq ResultType
          BY <1>0, <2>2 DEF GotInv
        <4>4. \A g \in got' : g.call <= calls' /\ g.call < calls'
          BY <1>0, <2>1, <2>2 DEF GotInv
        <4> QED
          BY <4>2, <4>3, <4>4 DEF GotInv
      <3>8. OkInv'
        <4>1. \A g \in got : Earlier(g)' = Earlier(g)
          BY <2>2 DEF Earlier
        <4> QED
          BY <1>0, <2>1, <2>2, <4>1 DEF OkInv
      <3> QED
        BY <3>5, <3>7, <3>8 DEF CallInv
    <2>3. ASSUME cli' = "idle", cfd' = cfd, got' = got \cup {[call |-> calls, status |-> 577, n |-> 0, fd |-> 0]}
          PROVE  CallInv'
      <3>2. OkInv' /\ IsFiniteSet(got') /\ got' \subseteq ResultType /\ \A g \in got' : g.call <= calls'
        <4> DEFINE e == [call |-> calls, status |-> 577, n |-> 0, fd |-> 0]
        <4>1. e \in ResultType /\ e.call = calls /\ e.status # 200 /\ got' = got \cup {e}
          BY <1>0, <2>1, <2>3 DEF ResultType
        <4>2. cli # "idle" /\ cli' = "idle" /\ UNCHANGED <<calls, answers>>
          BY <2>1, <2>3
        <4> HIDE DEF e
        <4> QED
          BY <1>0, <4>1, <4>2, ResultAdded
      <3>3. cfd' \notin Conns
        BY <1>0, <2>1, <2>3
      <3> QED
        BY <2>3, <3>2, <3>3 DEF CallInv, TalkInv, GotInv
    <2> QED
      BY <1>2, <2>2, <2>3 DEF Connect
  <1>3. CASE SendRequest
    <2>1. PICK r \in {q \in Requests : q.err = 0} :
             \/ Send(cfd, r, TRUE) /\ cli' = "head" /\ UNCHANGED <<cfd, cbuf, calls, got, closedC>>
             \/ \E status \in {579, 581} : Send(cfd, r, FALSE) /\ CallFails(status)
      BY <1>3 DEF SendRequest
    <2>2. r \in RequestType /\ r.err = 0 /\ cfd \in Conns /\ cli = "send"
      BY <1>3, Constants, ClientHas DEF SendRequest
    <2>3. UNCHANGED <<down, seenUp, answers>>
      BY <1>3 DEF SendRequest, Idle, srvVars
    <2>4. CASE Send(cfd, r, TRUE) /\ cli' = "head" /\ UNCHANGED <<cfd, cbuf, calls, got, closedC>>
      <3> PICK i \in Conns : i = cfd
        BY <2>2
      <3>1. sent'[i] = Append(sent[i], r) /\ sent[i] \in Seq(RequestType) /\ Len(sent[i]) \in Nat
        BY <2>2, <2>3, <2>4, Sends, StreamTypes DEF NetInv
      <3>2. /\ Len(sent'[i]) = Len(sent[i]) + 1 /\ sent'[i][Len(sent[i]) + 1] = r
            /\ \A k \in 1..Len(sent[i]) : sent'[i][k] = sent[i][k]
        BY <2>2, <3>1, AppendProperties
      <3>3. ~Waits /\ Waits' /\ Talk(i) /\ Len(cbuf) = 0
        BY <1>0, <2>2, <2>4 DEF Waits, TalkInv, NetInv, PlaceInv
      <3>4. /\ Len(answers[i]) = Len(sent[i]) /\ Len(cbuf \o down[i]) = 0
            /\ \A k \in 1..Len(sent[i]) : sent[i][k].err = 0
        BY <3>3 DEF Talk
      <3>5. \A k \in 1..Len(sent'[i]) : sent'[i][k].err = 0
        <4>1. \A k \in 1..(Len(sent[i]) + 1) : k \in 1..Len(sent[i]) \/ k = Len(sent[i]) + 1
          BY <3>1
        <4> QED
          BY <2>2, <3>2, <3>4, <4>1
      <3>6. /\ Len(answers'[i]) = Len(sent'[i]) - 1 /\ Len(sent'[i]) > 0 /\ Len(cbuf' \o down'[i]) = 0
            /\ Len(cbuf') <= sent'[i][Len(sent'[i])].resLines
        <4>1. sent'[i][Len(sent'[i])] = r /\ r.resLines \in Nat
          BY <2>2, <3>1, <3>2 DEF RequestType
        <4> QED
          BY <2>3, <2>4, <3>1, <3>2, <3>3, <3>4, <4>1
      <3>7. Talk(i)'
        BY <2>4, <3>3, <3>5, <3>6 DEF Talk
      <3>8. TalkInv'
        BY <2>4, <3>7 DEF TalkInv
      <3>9. GotInv'
        <4>1. OnConn(i)' = OnConn(i)
          BY <2>4 DEF OnConn
        <4>2. Len(sent[i]) = Cardinality(OnConn(i)) + 0
          BY <1>0, <3>3 DEF GotInv
        <4>3. Len(sent'[i]) = Cardinality(OnConn(i)') + 1
          <5>1. IsFiniteSet(OnConn(i))
            BY <1>0, FS_Subset DEF OnConn, GotInv
          <5>2. Cardinality(OnConn(i)) \in Nat
            BY <5>1, FS_CardinalityType
          <5> QED
            BY <3>1, <3>2, <4>1, <4>2, <5>2
        <4>4. \A g \in got' : g.call <= calls' /\ g.call < calls'
          BY <1>0, <2>2, <2>4 DEF GotInv
        <4> QED
          BY <1>0, <2>4, <3>3, <4>3, <4>4 DEF GotInv
      <3>10. OkInv'
        <4>1. \A g \in got : Earlier(g)' = Earlier(g)
          BY <2>4 DEF Earlier
        <4> QED
          BY <1>0, <2>3, <2>4, <4>1 DEF OkInv
      <3> QED
        BY <3>8, <3>9, <3>10 DEF CallInv
    <2>5. CASE \E status \in {579, 581} : Send(cfd, r, FALSE) /\ CallFails(status)
      <3>1. PICK status \in {579, 581} : CallFails(status)
        BY <2>5
      <3>2. status \in Nat \ {200}
        OBVIOUS
      <3> QED
        BY <1>0, <2>2, <2>3, <3>1, <3>2, FailsTalk DEF CallInv
    <2> QED
      BY <2>1, <2>4, <2>5
  <1>4. CASE RecvResponse
    BY <1>0, <1>4, ResponseTalk DEF CallInv
  <1>5. CASE RecvBody
    BY <1>0, <1>5, BodyTalk DEF CallInv
  <1>6. CASE RecvFails
    <2>1. PICK status \in {500, 578, 580, 582} : CallFails(status)
      BY <1>6 DEF RecvFails
    <2>2. cli \in {"send", "head", "body"} /\ answers' = answers /\ status \in Nat \ {200}
      BY <1>6 DEF RecvFails, Idle, srvVars
    <2> QED
      BY <1>0, <2>1, <2>2, FailsTalk DEF CallInv
  <1> QED
    BY <1>1, <1>2, <1>3, <1>4, <1>5, <1>6 DEF ClientStep

LEMMA NextCalls ==
    ASSUME NetInv, StreamInv, AnswerInv, CallInv, [Next]_vars
    PROVE  CallInv'
  <1>1. CASE Call \/ ClientStep
    BY <1>1, ClientCalls
  <1>2. ASSUME NEW i \in Conns, ServerStep(i) PROVE CallInv'
    BY <1>2, ServerCalls
  <1>3. ASSUME NEW i, DeliverUp(i) \/ DeliverDown(i) \/ PeerCloses(i) PROVE CallInv'
    <2>1. UNCHANGED <<cliVars, sent, down, answers>>
      BY <1>3 DEF DeliverUp, DeliverDown, PeerCloses, srvVars
    <2> QED
      BY <2>1, CallsSame DEF cliVars
  <1>4. ASSUME NEW i \in scene.foreign, PeerSends(i) PROVE CallInv'
    <2>1. i \in Conns /\ cfd # i /\ UpInv
      BY Constants DEF NetInv, PlaceInv, SceneType
    <2>2. PICK r \in Requests : Send(i, r, TRUE)
      BY <1>4 DEF PeerSends
    <2>3. UNCHANGED <<cliVars, down, answers, seenUp>> /\ r \in RequestType
      BY <1>4, Constants DEF PeerSends, srvVars
    <2>4. \A j \in Conns : j # i => sent'[j] = sent[j]
      BY <2>1, <2>2, <2>3, Sends
    <2> QED
      BY <2>1, <2>3, <2>4, CallsSame DEF cliVars
  <1>5. CASE UNCHANGED vars
    BY <1>5, CallsSame DEF vars, netVars, cliVars, srvVars
  <1> QED
    BY <1>1, <1>2, <1>3, <1>4, <1>5 DEF Next

LEMMA InitCalls == Init => CallInv
  <1> SUFFICES ASSUME Init PROVE CallInv
    OBVIOUS
  <1>1. cfd = 0 /\ got = {} /\ 0 \notin Conns
    BY Constants DEF Init
  <1> QED
    BY <1>1, FS_EmptySet DEF CallInv, TalkInv, GotInv, OkInv

-----------------------------------------------------------------------------
(* The rest of the pool's state. *)
SetsInv == cbs \subseteq PoolScheds /\ alive \subseteq Elems

LEMMA NextSets ==
    ASSUME SetsInv, [Next]_vars
    PROVE  SetsInv'
  <1>1. CASE UNCHANGED poolVars
    BY <1>1 DEF SetsInv, poolVars
  <1>2. Srv \in PoolScheds
    BY Constants
  <1>3. ASSUME NEW e \in Elems, PopElem(Srv, e) PROVE SetsInv'
    BY <1>2, <1>3 DEF SetsInv, PopElem
  <1>4. ASSUME NEW e, PushElem(Srv, e) PROVE SetsInv'
    BY <1>2, <1>4 DEF SetsInv, PushElem
  <1>5. ASSUME NEW i \in Conns, Cleanup(i) PROVE SetsInv'
    <2>1. CASE alive' = alive \ {buf[i]} /\ UNCHANGED <<pools, cbs>>
      BY <2>1 DEF SetsInv
    <2> QED
      BY <1>1, <1>4, <1>5, <2>1 DEF Cleanup, poolVars
  <1>6. ASSUME NEW i \in Conns, NEW q, Parse(i, q) PROVE SetsInv'
    BY <1>1, <1>4, <1>6 DEF Parse, poolVars
  <1>7. ASSUME NEW i \in Conns, ServerStep(i) PROVE SetsInv'
    <2>1. CASE ServerStart(i) \/ RecvHeader(i) \/ RecvErr(i)
      BY <1>1, <2>1 DEF ServerStart, RecvHeader, RecvErr
    <2>2. CASE RecvFirst(i)
      BY <1>3, <2>2 DEF RecvFirst
    <2>3. CASE RecvIdle(i) \/ RecvZero(i) \/ ServerReset(i)
      BY <1>5, <2>3 DEF RecvIdle, RecvZero, ServerReset
    <2>4. CASE ParseReq(i)
      BY <1>1, <1>6, <2>4 DEF ParseReq, poolVars
    <2>5. ASSUME NEW all, Process(i, all) PROVE SetsInv'
      BY <1>1, <1>5, <2>5 DEF Process, poolVars
    <2> QED
      BY <1>7, <2>1, <2>2, <2>3, <2>4, <2>5 DEF ServerStep
  <1>8. CASE Call \/ ClientStep
    BY <1>1, <1>8 DEF Call, ClientStep, Connect, SendRequest, RecvResponse, RecvBody, RecvFails, Idle
  <1>9. ASSUME NEW i, DeliverUp(i) \/ DeliverDown(i) \/ PeerSends(i) \/ PeerCloses(i) PROVE SetsInv'
    BY <1>1, <1>9 DEF DeliverUp, DeliverDown, PeerSends, PeerCloses
  <1>10. CASE UNCHANGED vars
    BY <1>1, <1>10 DEF vars
  <1> QED
    BY <1>7, <1>8, <1>9, <1>10 DEF Next

LEMMA InitSets == Init => SetsInv
  BY DEF Init, PoolInit, SetsInv

-----------------------------------------------------------------------------
(* The theorems. *)
IInv == NetInv /\ StreamInv /\ AnswerInv /\ PoolInv /\ CallInv /\ SetsInv

LEMMA IInvAlways == Spec => []IInv
  <1>1. Init => IInv
    BY InitNet, InitConn, InitPool, InitCalls, InitSets DEF IInv
  <1>2. IInv /\ [Next]_vars => IInv'
    BY NextNet, NextConn, NextPool, NextCalls, NextSets DEF IInv, PoolInv
  <1> QED
    BY <1>1, <1>2, PTL DEF Spec

\* The streams and the buffers hold pieces of messages, and the places of the
\* server and the client have their types in every run.
THEOREM TypeCorrect == Spec => []TypeOK
  <1>1. IInv => TypeOK
    <2> SUFFICES ASSUME IInv PROVE TypeOK
      OBVIOUS
    <2>1. /\ srv \in [Conns -> {"none", "new", "recv", "process", "failed", "end"}]
          /\ buf \in [Conns -> Elems \cup {NoBuf}]
          /\ cli \in {"idle", "connect", "send", "head", "body"} /\ cfd \in 0..MaxConn
      BY DEF IInv, NetInv, PlaceInv, ServerPlaces, ClientPlaces, PoolInv, OwnInv
    <2>2. \A i \in Conns : seenUp[i] \in 0..Len(up[i]) /\ seenDown[i] \in 0..Len(down[i])
      BY DEF IInv, NetInv, UpInv, DownInv
    <2>4. /\ {up, down, held, req} \subseteq [Conns -> Seq(PieceType)] /\ cbuf \in Seq(PieceType)
          /\ sent \in [Conns -> Seq(RequestType)]
      BY DEF IInv, NetInv, UpInv, DownInv, PlaceInv
    <2>3. PoolTypeOK
      <3>1. pools \in [PoolScheds -> Seq(Elems)]
        BY DEF IInv, PoolInv, OwnInv
      <3>2. \A s \in PoolScheds : Range(pools[s]) \subseteq Elems
        BY <3>1 DEF Range
      <3> QED
        BY <3>1, <3>2 DEF IInv, SetsInv, PoolTypeOK
    <2> QED
      BY <2>1, <2>2, <2>3, <2>4 DEF TypeOK
  <1> QED
    BY <1>1, IInvAlways, PTL

\* The requests of a connection are answered in the order they were sent, each
\* once and with its own body, and none is answered after one that does not let
\* the connection go on: however many requests arrive in one buffer, and
\* wherever they are cut into pieces.
THEOREM AnsweredInOrder == Spec => []InOrder
  <1>1. IInv => InOrder
    <2> SUFFICES ASSUME IInv, NEW i \in Conns, NEW k \in DOMAIN answers[i]
                 PROVE  LET a == answers[i][k]
                            r == sent[i][k]
                        IN /\ a.n = k /\ a.status = (IF r.err = 0 THEN 200 ELSE r.err)
                           /\ r.err = 0 => a.body = (IF r.len = 0 THEN 0 ELSE k)
                           /\ k < Len(answers[i]) =>
                                 r.err = 0 /\ (IF r.http10 THEN r.conn = "keep-alive" ELSE r.conn # "close")
      BY DEF InOrder
    <2>1. k \in 1..Len(answers[i])
      BY StreamTypes DEF IInv
    <2>2. AnswerOf(i, k)
      BY <2>1 DEF IInv, AnswerInv, AnswersOf
    <2> QED
      BY <2>2 DEF AnswerOf, NeedClose
  <1> QED
    BY <1>1, IInvAlways, PTL

\* A call of the client that succeeds has the response to its own request,
\* however many calls, connections, time limits and failures there were before.
THEOREM OwnResponse == Spec => []OwnAnswer
  <1>1. IInv => OwnAnswer
    <2> SUFFICES ASSUME IInv, NEW g \in got, g.status = 200
                 PROVE  /\ g.n = Cardinality({h \in got : h.fd = g.fd /\ h.call <= g.call})
                        /\ \E k \in DOMAIN answers[g.fd] : answers[g.fd][k].n = g.n
      BY DEF OwnAnswer
    <2>1. /\ g.fd \in Conns /\ g.n = Cardinality(Earlier(g))
          /\ \E k \in 1..Len(answers[g.fd]) : answers[g.fd][k].n = g.n
      BY DEF IInv, CallInv, OkInv
    <2>2. DOMAIN answers[g.fd] = 1..Len(answers[g.fd])
      BY <2>1, StreamTypes DEF IInv
    <2>3. Earlier(g) = {h \in got : h.fd = g.fd /\ h.call <= g.call}
      BY Zenon DEF Earlier
    <2>4. \E k \in DOMAIN answers[g.fd] : answers[g.fd][k].n = g.n
      BY <2>1, <2>2
    <2> QED
      BY <2>1, <2>3, <2>4, Zenon
  <1> QED
    BY <1>1, IInvAlways, PTL

\* No buffer is in the pool twice, in the pool and in use, or in the hands of
\* two connections; a connection without a buffer has no unread bytes; and, if
\* logs of level info are written, the connections that are counted are the ones
\* being served.
THEOREM OneOwner == Spec => []BuffersOwnedOnce
  <1>1. IInv => BuffersOwnedOnce
    <2> SUFFICES ASSUME IInv PROVE BuffersOwnedOnce
      OBVIOUS
    <2>1. OwnInv /\ HeldInv /\ CountInv
      BY DEF IInv, PoolInv
    <2>2. \A s \in PoolScheds : pools[s] \in Seq(Elems) /\ DOMAIN pools[s] = 1..Len(pools[s])
      BY <2>1 DEF OwnInv
    <2>3. \A s \in PoolScheds : Range(pools[s]) = {pools[s][k] : k \in 1..Len(pools[s])}
      BY <2>2 DEF Range
    <2>4. PoolOwnsOnce
      BY <2>1, <2>2, <2>3 DEF PoolOwnsOnce, OwnInv
    <2>5. ASSUME NEW i \in Conns
          PROVE  IF buf[i] = NoBuf THEN held[i] = <<>>
                 ELSE /\ Served(i) /\ held[i] # <<>> /\ buf[i] \in alive \ Range(pools[Srv])
                      /\ \A j \in Conns : buf[i] = buf[j] => i = j
      <3>1. held[i] \in Seq(PieceType)
        BY StreamTypes DEF IInv
      <3>2. held[i] = <<>> <=> buf[i] = NoBuf
        BY <2>1, <3>1, EmptySeq DEF HeldInv
      <3>3. buf[i] # NoBuf => /\ Served(i) /\ buf[i] \in alive /\ \A j \in Conns : buf[i] = buf[j] => i = j
                              /\ buf[i] \notin Range(pools[Srv])
        BY <2>1, <2>3, Constants DEF OwnInv
      <3> QED
        BY <3>2, <3>3
    <2>6. LogInfo => connNum = Cardinality({i \in Conns : Served(i)})
      BY <2>1 DEF CountInv, ServedConns
    <2> QED
      BY <2>4, <2>5, <2>6 DEF BuffersOwnedOnce
  <1> QED
    BY <1>1, IInvAlways, PTL
=============================================================================
