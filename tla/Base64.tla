------------------------------- MODULE Base64 -------------------------------
(***************************************************************************)
(* hash/base64.cc.  A byte is a number below 256.  A character of the text *)
(* is a number below 64, its place in entab, or one of Pad, Cr and Lf, for *)
(* which detab has -1.                                                     *)
(***************************************************************************)
EXTENDS Strings

Pad == 64
Cr == 65
Lf == 66
Error == <<-1>>

\* base64_encode: four characters for three bytes; one or two are padded.
RECURSIVE Encode(_)
Encode(s) ==
    LET a == s[1] b == s[2] c == s[3]
    IN CASE Len(s) = 0 -> <<>>
         [] Len(s) = 1 -> <<a \div 4, (a % 4) * 16, Pad, Pad>>
         [] Len(s) = 2 -> <<a \div 4, (a % 4) * 16 + (b \div 16), (b % 16) * 4, Pad>>
         [] OTHER -> <<a \div 4, (a % 4) * 16 + (b \div 16), (b % 16) * 4 + (c \div 64), c % 64>>
                     \o Encode(From(s, 4))

\* The last group, which may be padded.
DecodeLast(s) ==
    IF s[1] >= Pad \/ s[2] >= Pad THEN Error
    ELSE LET x == s[1] * 4 + (s[2] \div 16)
             y == (s[2] % 16) * 16 + (s[3] \div 4)
         IN IF s[3] = Pad THEN IF s[4] = Pad THEN <<x>> ELSE Error
            ELSE IF s[3] > Pad THEN Error
            ELSE IF s[4] = Pad THEN <<x, y>>
            ELSE IF s[4] > Pad THEN Error ELSE <<x, y, (s[3] % 4) * 64 + s[4]>>

\* base64_decode: groups while there are 8 characters or more, each of which
\* may be followed by the end of a line; then the end of the last line, and
\* the last group.
RECURSIVE DecodeFrom(_, _)
DecodeFrom(s, x) ==
    LET eol(i) == i \in DOMAIN s /\ s[i] \in {Cr, Lf}
        skip == IF ~eol(5) THEN 4 ELSE IF eol(6) THEN 6 ELSE 5
        n == Len(s)
        cut == IF ~eol(n) THEN n ELSE IF eol(n - 1) THEN n - 2 ELSE n - 1
        z == DecodeLast(s)
    IN IF n >= 8
       THEN IF \E i \in 1..4 : s[i] >= Pad THEN Error
            ELSE DecodeFrom(From(s, skip + 1),
                            x \o <<s[1] * 4 + (s[2] \div 16), (s[2] % 16) * 16 + (s[3] \div 4),
                                   (s[3] % 4) * 64 + s[4]>>)
       ELSE IF cut # 4 THEN Error
       ELSE IF z = Error THEN Error ELSE x \o z
Decode(s) == DecodeFrom(s, <<>>)

\* What was encoded is decoded, also when the text is broken into lines; but
\* for the empty text, which is encoded as itself and refused by the decoder
\* after it has looked at the character before it (base64.cc:89).
Base64Law(s) ==
    LET t == Encode(s)
        k == Len(t) \div 4
        lines(e) == FlattenSeq([i \in 1..k |-> SubSeq(t, 4 * i - 3, 4 * i) \o e])
    IN IF s = <<>> THEN t = <<>> /\ Decode(t) = Error
       ELSE \A e \in {<<>>, <<Lf>>, <<Cr, Lf>>} : Decode(lines(e)) = s
=============================================================================
