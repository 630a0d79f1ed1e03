------------------------------ MODULE JsonText ------------------------------
(***************************************************************************)
(* json.cc: how a Json value becomes a text (_Json2str, _Json2dbg,         *)
(* _Json2pretty), and how a text becomes a Json value (parse_from).  A     *)
(* text is a sequence of characters; "true", "false" and "null" count as   *)
(* one character each, and a real number is kept as its digits before and  *)
(* after the point.  A value is a pair of its type and its contents.  "bs"  *)
(* is the backspace; the null character, which ends C strings, is left out.*)
(***************************************************************************)
EXTENDS Numbers

Bits == 30              \* the width of the integers: 64 in the code
White == {" ", "\t", "\r", "\n"}
Null == <<"null", 0>>
Fail == [pos |-> 0, val |-> Null]
Got(pos, val) == [pos |-> pos, val |-> val]

\* What is written after a backslash for the characters that need one, and
\* what is read after it.
Escape == [c \in {"\r", "\n", "\t", "bs", "\f", "\"", "\\"} |->
             CASE c = "\r" -> "r" [] c = "\n" -> "n" [] c = "\t" -> "t" [] c = "bs" -> "b"
               [] c = "\f" -> "f" [] OTHER -> c]
Unescape == [c \in {"r", "n", "t", "b", "f", "\"", "\\", "/"} |->
               IF c = "/" THEN c ELSE CHOOSE x \in DOMAIN Escape : Escape[x] = c]

----------------------------------------------------------------------------
\* A string.  In the form for logs, one without special characters is cut.
WriteString(s, cut) ==
    LET esc(c) == IF c \in DOMAIN Escape THEN <<"\\", Escape[c]>> ELSE <<c>>
        body == IF \E i \in DOMAIN s : s[i] \in DOMAIN Escape
                THEN FlattenSeq([i \in DOMAIN s |-> esc(s[i])])
                ELSE IF Len(s) < cut THEN s ELSE Upto(s, cut) \o <<".", ".", ".">>
    IN <<"\"">> \o body \o <<"\"">>

\* A number, a bool or null; the keys of an object are written as they are.
WriteScalar(v) ==
    CASE v[1] = "null" -> <<"null">>
      [] v[1] = "bool" -> <<IF v[2] THEN "true" ELSE "false">>
      [] v[1] = "int" -> Itoa(v[2], 4)
      [] v[1] = "dbl" -> v[2][1] \o <<".">> \o v[2][2]
WriteKey(k) == <<"\"">> \o k \o <<"\"">>

RECURSIVE Write(_, _)
Write(v, cut) ==
    LET items == [i \in DOMAIN v[2] |->
                    (IF i > 1 THEN <<",">> ELSE <<>>)
                    \o (IF v[1] = "obj" THEN WriteKey(v[2][i][1]) \o <<":">> \o Write(v[2][i][2], cut)
                        ELSE Write(v[2][i], cut))]
    IN CASE v[1] = "str" -> WriteString(v[2], cut)
         [] v[1] = "arr" -> <<"[">> \o FlattenSeq(items) \o <<"]">>
         [] v[1] = "obj" -> <<"{">> \o FlattenSeq(items) \o <<"}">>
         [] OTHER -> WriteScalar(v)

NoCut == 1000
Json2str(v) == Write(v, NoCut)
Json2dbg(v, cut) == Write(v, cut)     \* cut is 256 in the code

\* The form with a line for each member, indented.
RECURSIVE Json2pretty(_, _, _)
Json2pretty(v, base, indent) ==
    LET member(x) == IF x[1] \in {"obj", "arr"} THEN Json2pretty(x, base, indent + base) ELSE Json2str(x)
        pad(n) == [i \in 1..n |-> " "]
        items == [i \in DOMAIN v[2] |->
                    pad(indent)
                    \o (IF v[1] = "obj" THEN WriteKey(v[2][i][1]) \o <<":", " ">> \o member(v[2][i][2])
                        ELSE member(v[2][i]))
                    \o (IF i < Len(v[2]) THEN <<",", "\n">> ELSE <<"\n">>)]
        b == IF v[1] = "obj" THEN <<"{", "}">> ELSE <<"[", "]">>
    IN IF v[1] \notin {"obj", "arr"} THEN Json2str(v)
       ELSE IF v[2] = <<>> THEN b
       ELSE <<b[1], "\n">> \o FlattenSeq(items) \o pad(Max({0, indent - base})) \o <<b[2]>>

----------------------------------------------------------------------------
\* The parser has the text and its end, e: the place behind it, where there may
\* be any character (a null character if the text is a C string).
End(s) == Len(s)
Memory(t, behind) == Append(t, behind)

\* read_unicode: one escape, or two of a surrogate pair, to UTF-8; <<>> if
\* the escapes are not valid.  The tests of the end let the last digit of each
\* be the character behind the text.
Utf8(v) ==
    LET tail(k) == 128 + ((v \div 64^k) % 64)
    IN IF v <= 127 THEN <<v>>
       ELSE IF v <= 2047 THEN <<192 + (v \div 64), tail(0)>>
       ELSE IF v <= 65535 THEN <<224 + (v \div 4096), tail(1), tail(0)>>
       ELSE <<240 + (v \div 262144), tail(2), tail(1), tail(0)>>
Hex4(s, i) == IF \A k \in i..(i + 3) : s[k] \in CharsOf(0..15)
              THEN Number(SubSeq(s, i, i + 3), 16) ELSE -1
ReadUnicode(s, b) ==
    LET v == IF End(s) >= b + 3 THEN Hex4(s, b) ELSE -1
        u == IF End(s) >= b + 9 /\ s[b + 4] = "\\" /\ s[b + 5] = "u" THEN Hex4(s, b + 6) ELSE -1
    IN IF v = -1 THEN Got(0, <<>>)
       ELSE IF v \notin 55296..56319 THEN Got(b + 3, Utf8(v))
       ELSE IF u \notin 56320..57343 THEN Got(0, <<>>)
       ELSE Got(b + 9, Utf8(65536 + (v % 1024) * 1024 + (u % 1024)))

\* read_string from b on: up to the quote; x is what was read before.
RECURSIVE ReadString(_, _, _)
ReadString(s, b, x) ==
    LET unicode(r, y) == IF r.pos = 0 THEN Fail ELSE ReadString(s, r.pos + 1, y \o r.val)
        escape(p, y) ==
            IF p + 1 = End(s) THEN Fail
            ELSE IF s[p + 1] = "u" THEN unicode(ReadUnicode(s, p + 2), y)
            ELSE IF s[p + 1] \notin DOMAIN Unescape THEN Fail
            ELSE ReadString(s, p + 2, Append(y, Unescape[s[p + 1]]))
        upto(p, y) == IF p = 0 THEN Fail ELSE IF s[p] = "\"" THEN Got(p, <<"str", y>>) ELSE escape(p, y)
        at(p) == upto(p, x \o SubSeq(s, b, p - 1))
    IN at(FirstOf({k \in b..(End(s) - 1) : s[k] \in {"\"", "\\"}}))

\* str::to_double (C library): digits with a point among them.
ToDouble(t) ==
    LET neg == t[1] = "-"
        d == IF t[1] \in {"-", "+"} THEN Tail(t) ELSE t
        p == FirstOf({i \in DOMAIN d : d[i] = "."})
        int == StripLeft(Upto(d, p - 1), {"0"})
        frac == StripRight(From(d, p + 1), {"0"})
        zero(x) == IF x = <<>> THEN <<"0">> ELSE x
    IN IF p = 0 \/ Len(d) = 1 \/ \E i \in DOMAIN d \ {p} : d[i] \notin CharsOf(0..9) THEN Throw
       ELSE <<<<(IF neg THEN <<"-">> ELSE <<>>) \o zero(int), zero(frac)>>>>

\* read_token: up to a comma, a bracket or a white character.
ReadToken(s, b) ==
    LET as(e, type, x) == IF x = Throw THEN Fail ELSE Got(e - 1, <<type, x[1]>>)
        word(e, t) ==
            IF Head(t) \in {"true", "false", "null"}
            THEN IF Len(t) > 1 THEN Fail
                 ELSE IF t = <<"null">> THEN Got(e - 1, Null) ELSE as(e, "bool", <<Head(t) = "true">>)
            ELSE IF \E i \in 2..Len(t) : t[i] = "." THEN as(e, "dbl", ToDouble(t))
            ELSE as(e, "int", Fastatoi(t, Bits))
        upto(e) == IF e = 0 THEN Fail ELSE word(e, SubSeq(s, b, e - 1))
    IN upto(FirstOf({k \in (b + 1)..(End(s) - 1) : s[k] \in {",", "}", "]"} \cup White}))

SkipWhite(s, b) == FirstOf({k \in b..(End(s) - 1) : s[k] \notin White})
CharAt(s, k) == IF k = 0 THEN "end" ELSE s[k]

\* read_key: up to the next quote, whatever stands before it.
ReadKey(s, b) ==
    LET q == FirstOf({k \in b..(End(s) - 1) : s[k] = "\""})
    IN Got(q, SubSeq(s, b, q - 1))

RECURSIVE ParseJson(_, _, _), ParseArray(_, _, _), ReadValue(_, _)
ReadValue(s, b) ==
    CASE s[b] = "\"" -> ReadString(s, b + 1, <<>>)
      [] s[b] = "{" -> ParseJson(s, b + 1, <<>>)
      [] s[b] = "[" -> ParseArray(s, b + 1, <<>>)
      [] OTHER -> ReadToken(s, b)

\* parse_json, from behind the brace or a comma on; m holds the members so far.
ParseJson(s, b, m) ==
    LET end(e, all) == CASE CharAt(s, e) = "}" -> Got(e, <<"obj", all>>)
                         [] CharAt(s, e) = "," -> ParseJson(s, e + 1, all)
                         [] OTHER -> Fail
        value(key, v) == IF v.pos = 0 THEN Fail ELSE end(SkipWhite(s, v.pos + 1), Append(m, <<key, v.val>>))
        colon(key, w) == IF w = 0 THEN Fail ELSE value(key, ReadValue(s, w))
        name(key, c) == IF key.pos = 0 \/ CharAt(s, c) # ":" THEN Fail ELSE colon(key.val, SkipWhite(s, c + 1))
        member(key) == name(key, SkipWhite(s, key.pos + 1))
        start(k) == CASE CharAt(s, k) = "}" -> Got(k, <<"obj", m>>)
                      [] CharAt(s, k) = "\"" -> member(ReadKey(s, k + 1))
                      [] OTHER -> Fail
    IN start(SkipWhite(s, b))

ParseArray(s, b, m) ==
    LET end(e, all) == CASE CharAt(s, e) = "]" -> Got(e, <<"arr", all>>)
                         [] CharAt(s, e) = "," -> ParseArray(s, e + 1, all)
                         [] OTHER -> Fail
        value(v) == IF v.pos = 0 THEN Fail ELSE end(SkipWhite(s, v.pos + 1), Append(m, v.val))
        start(k) == IF k = 0 THEN Fail ELSE IF s[k] = "]" THEN Got(k, <<"arr", m>>) ELSE value(ReadValue(s, k))
    IN start(SkipWhite(s, b))

\* parse_from: an object or an array, with white characters around it.
ParseFrom(s) ==
    LET all(r) == IF r.pos # 0 /\ SkipWhite(s, r.pos + 1) = 0 THEN r ELSE Fail
        start(p) == IF CharAt(s, p) \in {"{", "["} THEN all(ReadValue(s, p)) ELSE Fail
    IN start(SkipWhite(s, 1))

----------------------------------------------------------------------------
\* What is read from any text is read again, just the same, from both texts
\* that are written for it; nothing but the cut of long strings tells the form
\* for logs from the plain one.  What stands behind the text does not matter.
Parse(t) == ParseFrom(Memory(t, "null character"))
JsonLaw(s) ==
    \A r \in {Parse(s)} :
       /\ \A c \in {"1", "]", "\""} : ParseFrom(Memory(s, c)) = r
       /\ r.pos # 0 =>
             /\ \A t \in {Json2str(r.val), Json2pretty(r.val, 4, 4)} : Parse(t) = Got(Len(t), r.val)
             /\ Json2dbg(r.val, Len(s)) = Json2str(r.val)

\* A string of any characters comes back from its text.  A key does if and only
\* if it has no quote in it, since keys are written and read as they are
\* (json.cc:157).
StringLaw(s) ==
    LET back(a) == \A t \in {Json2str(a)} : Parse(t) = Got(Len(t), a)
    IN /\ back(<<"arr", <<<<"str", s>>>>>>)
       /\ back(<<"obj", <<<<s, Null>>>>>>) <=> \A i \in DOMAIN s : s[i] # "\""

\* The bytes that are made of the escapes of a character decode to it.  A text
\* that is cut off anywhere, between or inside the escapes too, is refused,
\* also when what stands behind it would complete it.
UnicodeLaw(v) ==
    LET hex(x) == [i \in 1..4 |-> DigitChars[((x \div 16^(4 - i)) % 16) + 1]]
        esc == IF v < 65536 THEN hex(v)
               ELSE hex(55296 + ((v - 65536) \div 1024)) \o <<"\\", "u">> \o hex(56320 + ((v - 65536) % 1024))
        t == <<"[", "\"", "\\", "u">> \o esc \o <<"\"", "]">>
        r == ReadUnicode(Memory(esc, "\""), 1)
        lead == IF Len(r.val) = 1 THEN r.val[1] ELSE r.val[1] % 2^(7 - Len(r.val))
    IN /\ r.pos = Len(esc)
       /\ v = FoldLeft(LAMBDA x, c : x * 64 + (c % 64), lead, Tail(r.val))
       /\ Parse(t) = Got(Len(t), <<"arr", <<<<"str", r.val>>>>>>)
       /\ \A k \in 1..(Len(t) - 1) : \A c \in {t[k + 1], "0", "null character"} :
             ParseFrom(Memory(Upto(t, k), c)) = Fail
=============================================================================
