------------------------------ MODULE HttpText ------------------------------
(***************************************************************************)
(* so/http.h and so/http.cc: requests and responses and their texts.  A    *)
(* text is a sequence of tokens, a word counting as one; the length of the *)
(* body is written with its digits.                                        *)
(***************************************************************************)
EXTENDS Numbers

Eol == <<"\r", "\n">>
MaxBody == 20           \* http_max_body_size
Upper(w) == CASE w \in {"get", "Get"} -> "GET" [] w = "post" -> "POST" [] w = "http/1.1" -> "HTTP/1.1"
              [] w \in {"Content-Length", "content-length"} -> "CONTENT-LENGTH" [] OTHER -> w
Methods == {"GET", "HEAD", "POST", "PUT", "DELETE"}
Versions == {"HTTP/1.0", "HTTP/1.1"}
\* The status codes that have a name.
Known == {100, 101} \cup 200..206 \cup 300..305 \cup {307} \cup 400..417 \cup 500..505 \cup 577..582

\* Base, Req and Res.
Message == [parsing |-> FALSE, version |-> "HTTP/1.1", method |-> "GET", url |-> <<>>,
            status |-> 200, headers |-> <<>>, body |-> <<>>]
AddHeader(m, k, v) == [m EXCEPT !.headers = Append(@, <<k, v>>)]
SetStatus(m, st) == [m EXCEPT !.status = IF st \in 100..599 THEN st ELSE 500]
StatusStr(st) == IF st \in 100..599 /\ st \notin Known THEN <<>> ELSE <<"name">>
HeaderOf(m, key) ==
    LET same(h) == [i \in DOMAIN h[1] |-> Upper(h[1][i])] = key
        i == FirstOf({k \in DOMAIN m.headers : same(m.headers[k])})
    IN IF i = 0 THEN <<>> ELSE m.headers[i][2]
\* clear() before the next message: the version and the method stay.
ClearMessage(m) == [m EXCEPT !.parsing = FALSE, !.body = <<>>, !.headers = <<>>, !.url = <<>>, !.status = 200]

\* Req::str, Res::str; dbg is the same without the body.
Headers(m, len) ==
    (IF len THEN <<"Content-Length", ":", " ">> \o Utoa(Len(m.body), 4) \o Eol ELSE <<>>)
    \o FlattenSeq([i \in DOMAIN m.headers |-> m.headers[i][1] \o <<":", " ">> \o m.headers[i][2] \o Eol])
ReqDbg(m) == <<m.method, " ">> \o m.url \o <<" ", m.version>> \o Eol
             \o Headers(m, m.body # <<>> /\ ~m.parsing)
ResDbg(m) == <<m.version, " ">> \o Utoa(m.status, 4) \o <<" ">> \o StatusStr(m.status) \o Eol
             \o Headers(m, ~m.parsing)
ReqStr(m) == ReqDbg(m) \o Eol \o m.body
ResStr(m) == ResDbg(m) \o Eol \o m.body

----------------------------------------------------------------------------
\* The first position from i on that is not a space, or the end.
PastSpaces(s, i, end) == Min({k \in i..end : k = end \/ s[k] # " "})
Before(p, end) == p # 0 /\ p < end

\* parse_req_start_line: the line ends before end.
ParseReqStartLine(s, end, m) ==
    LET p == Find(s, <<" ">>, 1)
        method == Upper(s[1])
        u == PastSpaces(s, p + 1, end)
        q == Find(s, <<" ">>, u)
        v == PastSpaces(s, q + 1, end)
        version == Upper(s[v])
    IN IF ~Before(p, end) THEN [err |-> 400, msg |-> m]
       ELSE IF p # 2 \/ method \notin Methods THEN [err |-> 405, msg |-> m]
       ELSE IF ~Before(q, end) \/ v >= end THEN [err |-> 400, msg |-> m]
       ELSE IF v + 1 # end \/ version \notin Versions THEN [err |-> 505, msg |-> m]
       ELSE [err |-> 0, msg |-> [m EXCEPT !.method = method, !.url = SubSeq(s, u, q - 1), !.version = version]]

\* atoi (C library): the leading digits.
Atoi(t) == LET e == LastOf({k \in DOMAIN t : \A j \in 1..k : t[j] \in CharsOf(0..9)}) IN Number(Upto(t, e), 10)

\* parse_res_start_line: an unknown version is let through, an empty name of
\* the status is not.
ParseResStartLine(s, end, m) ==
    LET p == Find(s, <<" ">>, 1)
        version == Upper(s[1])
        u == PastSpaces(s, p + 1, end)
        q == Find(s, <<" ">>, u)
        v == PastSpaces(s, q + 1, end)
        known == IF p = 2 /\ version \in Versions THEN [m EXCEPT !.version = version] ELSE m
    IN IF ~Before(p, end) \/ ~Before(q, end) \/ v >= end THEN [err |-> -1, msg |-> m]
       ELSE [err |-> 0, msg |-> SetStatus(known, Atoi(SubSeq(s, u, q - 1)))]

\* Mutant of ParseLines: the spaces before the value belong to it.
RECURSIVE ParseLinesRaw(_, _, _, _)
ParseLinesRaw(s, beg, end, m) ==
    LET x == Find(s, <<"\r">>, beg)
        t == Find(s, <<":">>, beg)
    IN IF beg >= end THEN [err |-> 0, msg |-> m]
       ELSE IF x = 0 \/ x = Len(s) \/ s[x + 1] # "\n" \/ ~Before(t, x) THEN [err |-> -1, msg |-> m]
       ELSE ParseLinesRaw(s, x + 2, end, AddHeader(m, SubSeq(s, beg, t - 1), SubSeq(s, t + 1, x - 1)))

\* parse_header: the lines up to end, which is where "\r\n\r\n" begins, so that
\* the last line is the one that ends there.
RECURSIVE ParseLines(_, _, _, _)
ParseLines(s, beg, end, m) ==
    LET x == Find(s, <<"\r">>, beg)
        t == Find(s, <<":">>, beg)
        v == PastSpaces(s, t + 1, x)
    IN IF beg >= end THEN [err |-> 0, msg |-> m]
       ELSE IF x = 0 \/ x = Len(s) \/ s[x + 1] # "\n" \/ ~Before(t, x) THEN [err |-> -1, msg |-> m]
       ELSE ParseLines(s, x + 2, end, AddHeader(m, SubSeq(s, beg, t - 1), SubSeq(s, v, x - 1)))

BodyLen(m) ==
    LET v == HeaderOf(m, <<"CONTENT-LENGTH">>)
        n == Atoi(v)
    IN IF v \in {<<>>, <<"0">>} THEN 0 ELSE IF n \notin 1..MaxBody THEN -1 ELSE n

\* parse_req and parse_res on a text whose header is complete, followed by what
\* the caller does with the body, as far as it is there; "start" is the start line
\* that ends at p, as parsed.
ParseMessage(s, m0, bad, p, start) ==
    LET end == Find(s, <<"\r", "\n", "\r", "\n">>, 1)
        r == ParseLines(s, p + 2, end, start.msg)
        len == BodyLen(r.msg)
    IN IF s[p + 1] # "\n" THEN [err |-> bad, msg |-> m0]
       ELSE IF start.err # 0 THEN start
       ELSE IF r.err # 0 \/ len = -1 THEN [err |-> bad, msg |-> r.msg]
       ELSE [err |-> 0, msg |-> [r.msg EXCEPT !.body = SubSeq(s, end + 4, Min({Len(s), end + 3 + len}))]]
ParseReq(s, m) ==
    LET p == Find(s, <<"\r">>, 1)
    IN ParseMessage(s, m, 400, p, ParseReqStartLine(s, p, [m EXCEPT !.parsing = TRUE]))
ParseRes(s, m) ==
    LET p == Find(s, <<"\r">>, 1)
    IN ParseMessage(s, m, -1, p, ParseResStartLine(s, p, [m EXCEPT !.parsing = TRUE]))

----------------------------------------------------------------------------
\* A message with the given words comes back from its text, also into an object
\* that held another one, with the length of its body among its headers; a body that is too long is refused.  A response
\* whose status has no name is not asked for: parse_res_start_line refuses it.
HttpLaw(url, body) ==
    LET ms == {[Message EXCEPT !.method = me, !.url = url, !.version = ve, !.status = st,
                               !.headers = he, !.body = body] :
                 me \in {"GET", "POST"}, ve \in Versions, st \in {100, 404, 599},
                 he \in {<<>>, << <<<<"Host">>, <<"x", ":", "8">>>>, <<<<"A">>, <<>>>> >>}}
        len(m) == <<<<"Content-Length">>, Utoa(Len(m.body), 4)>>
        sent(m, l) == [m EXCEPT !.parsing = TRUE, !.headers = (IF l THEN <<len(m)>> ELSE <<>>) \o @]
    IN \A m \in ms :
          LET q == ParseReq(ReqStr(m), ClearMessage(m))
              r == ParseRes(ResStr(m), ClearMessage(m))
          IN IF Len(body) > MaxBody THEN q.err = 400 /\ r.err = -1
             ELSE /\ q.err = 0 /\ q.msg = [sent(m, body # <<>>) EXCEPT !.status = 200]
                  /\ ReqStr(q.msg) = ReqStr(m)
                  /\ m.status \in Known =>
                        /\ r.err = 0 /\ r.msg = [sent(m, TRUE) EXCEPT !.url = <<>>]
                        /\ ResStr(r.msg) = ResStr(m)

\* Any header, well-formed or not, is refused or read as a message that is
\* written and read again as itself.
HeaderLaw(s) ==
    LET q == ParseReq(s \o Eol \o Eol, Message)
    IN q.err = 0 => ParseReq(ReqStr(q.msg), ClearMessage(q.msg)) = q
=============================================================================
