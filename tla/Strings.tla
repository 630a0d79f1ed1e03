------------------------------ MODULE Strings ------------------------------
(***************************************************************************)
(* str::split, replace and strip (str.cc), the searches of fastring        *)
(* (fastring.h, fastring.cc) and namespace path (path.cc, path.h).  A text *)
(* is a sequence of characters; positions start with 1 and 0 is npos.      *)
(***************************************************************************)
EXTENDS Integers, Sequences, SequencesExt, FiniteSetsExt

From(s, i) == SubSeq(s, i, Len(s))
Upto(s, i) == SubSeq(s, 1, i)
IsAt(s, sub, i) == i + Len(sub) - 1 <= Len(s) /\ SubSeq(s, i, i + Len(sub) - 1) = sub
FirstOf(S) == IF S = {} THEN 0 ELSE Min(S)
LastOf(S) == IF S = {} THEN 0 ELSE Max(S)

\* strstr, strchr and memchr from a position on; find(s, pos), which finds
\* nothing from the end on.
Strstr(s, sub, from) == FirstOf({i \in from..(Len(s) + 1) : IsAt(s, sub, i)})
Find(s, sub, from) == IF Len(s) < from THEN 0 ELSE Strstr(s, sub, from)

\* rfind of one character, and the other searches for characters.
RfindChar(s, c) == LastOf({i \in DOMAIN s : s[i] = c})
FindFirstNotOf(s, C) == FirstOf({i \in DOMAIN s : s[i] \notin C})
FindLastOf(s, C) ==
    LET F[i \in 0..Len(s)] == IF i = 0 \/ s[i] \in C THEN i ELSE F[i - 1] IN F[Len(s)]
FindLastNotOf(s, C) ==
    LET F[i \in 0..Len(s)] == IF i = 0 \/ s[i] \notin C THEN i ELSE F[i - 1] IN F[Len(s)]
StartsWith(s, t) == Len(t) = 0 \/ (Len(t) <= Len(s) /\ Upto(s, Len(t)) = t)
EndsWith(s, t) == Len(t) = 0 \/ (Len(t) <= Len(s) /\ From(s, Len(s) - Len(t) + 1) = t)
Lshift(s, n) == IF Len(s) <= n THEN <<>> ELSE From(s, n + 1)


\* rfind: when sub is not at j (from 0), the character before j says how far
\* the search may jump to the left.
Rfind(s, sub) ==
    LET F[j \in -(Len(sub) + 1)..Len(s)] ==
           IF j < 0 THEN 0 ELSE IF IsAt(s, sub, j + 1) THEN j + 1 ELSE IF j = 0 THEN 0
           ELSE LET at == {i \in DOMAIN sub : sub[i] = s[j]}
                IN F[j - (IF at = {} THEN Len(sub) + 1 ELSE Min(at))]
    IN IF Len(s) < Len(sub) THEN 0 ELSE F[Len(s) - Len(sub)]

\* split: parts up to each separator; max = 0 is no limit.  What follows the
\* last separator is a part unless it is empty.
RECURSIVE SplitFrom(_, _, _, _, _)
SplitFrom(s, sep, max, from, v) ==
    LET p == Strstr(s, sep, from)
        w == Append(v, SubSeq(s, from, p - 1))
        rest(i, u) == IF i <= Len(s) THEN Append(u, From(s, i)) ELSE u
    IN IF p = 0 THEN rest(from, v)
       ELSE IF Len(w) = max THEN rest(p + Len(sep), w)
       ELSE SplitFrom(s, sep, max, p + Len(sep), w)
Split(s, sep, max) == SplitFrom(s, sep, max, 1, <<>>)

\* replace, of str and of fastring; max = 0 is no limit: as an unsigned number
\* it is counted down past 0.
RECURSIVE ReplaceFrom(_, _, _, _, _, _)
ReplaceFrom(s, sub, to, max, from, x) ==
    LET p == Strstr(s, sub, from)
        y == x \o SubSeq(s, from, p - 1) \o to
    IN IF p = 0 THEN x \o From(s, from)
       ELSE IF max = 1 THEN y \o From(s, p + Len(sub))
       ELSE ReplaceFrom(s, sub, to, max - 1, p + Len(sub), y)
Replace(s, sub, to, max) == ReplaceFrom(s, sub, to, max, 1, <<>>)

\* strip: from the left, from the right, or both, the left first; the member
\* of fastring begins with the right.
StripLeft(s, C) == IF FindFirstNotOf(s, C) = 0 THEN <<>> ELSE From(s, FindFirstNotOf(s, C))
StripRight(s, C) == Upto(s, FindLastNotOf(s, C))
Strip(s, C, d) ==
    IF d = "l" THEN StripLeft(s, C) ELSE IF d = "r" THEN StripRight(s, C)
    ELSE StripRight(StripLeft(s, C), C)
StripMember(s, C, d) ==
    IF d = "l" THEN StripLeft(s, C) ELSE IF d = "r" THEN StripRight(s, C)
    ELSE LET r == StripRight(s, C) IN IF r = <<>> THEN <<>> ELSE StripLeft(r, C)

\* match: '*' stands for any text, '?' for any character.
RECURSIVE Match(_, _)
Match(e, p) ==
    IF p = <<"*">> THEN TRUE
    ELSE IF p = <<>> \/ e = <<>> THEN p = <<>> /\ e = <<>>
    ELSE IF Head(p) = "*" THEN Match(e, Tail(p)) \/ Match(Tail(e), p)
    ELSE Head(p) \in {"?", Head(e)} /\ Match(Tail(e), Tail(p))

Letters == [l |-> <<"a", "b", "c", "g", "m", "k", "n", "t", "x", "z">>,
            u |-> <<"A", "B", "C", "G", "M", "K", "N", "T", "X", "Z">>]
CaseOf(s, x, y) ==
    [i \in DOMAIN s |-> LET k == FirstOf({j \in DOMAIN x : x[j] = s[i]})
                        IN IF k = 0 THEN s[i] ELSE y[k]]
Toupper(s) == CaseOf(s, Letters.l, Letters.u)
Tolower(s) == CaseOf(s, Letters.u, Letters.l)

\* memcmp of the first n characters: negative, 0 or positive; operator< and >.
Code(c) == FirstOf({i \in 1..4 : <<"*", "?", "a", "b">>[i] = c})
Memcmp(s, t, n) ==
    LET i == FirstOf({k \in 1..n : s[k] # t[k]}) IN IF i = 0 THEN 0 ELSE Code(s[i]) - Code(t[i])
LessThan(s, t) ==
    IF Len(s) < Len(t) THEN s = <<>> \/ Memcmp(s, t, Len(s)) <= 0 ELSE Memcmp(s, t, Len(t)) < 0
GreaterThan(s, t) ==
    IF Len(s) > Len(t) THEN t = <<>> \/ Memcmp(s, t, Len(t)) >= 0 ELSE Memcmp(s, t, Len(s)) > 0

----------------------------------------------------------------------------
\* path::clean: r is the buffer, a copy of s, p its length in use, dotdot where
\* ".." must stop, i the place in s.
RECURSIVE CleanFrom(_, _, _, _, _)
CleanFrom(s, i, r, p, dotdot) ==
    LET n == Len(s)
        rooted == s[1] = "/"
        ends(k) == k = n + 1 \/ s[k] = "/"
        put(q, at, t) == [k \in 1..Max({Len(q), at + Len(t)}) |->
                             IF k \in (at + 1)..(at + Len(t)) THEN t[k - at] ELSE q[k]]
    IN IF i > n THEN Upto(r, p)
       ELSE IF s[i] = "/" \/ (s[i] = "." /\ ends(i + 1)) THEN CleanFrom(s, i + 1, r, p, dotdot)
       ELSE IF s[i] = "." /\ s[i + 1] = "." /\ ends(i + 2)
       THEN IF p > dotdot     \* backtrack to the last '/'
            THEN CleanFrom(s, i + 2, r, Max({q \in dotdot..(p - 1) : q = dotdot \/ r[q + 1] = "/"}), dotdot)
            ELSE IF rooted THEN CleanFrom(s, i + 2, r, p, dotdot)
            ELSE LET t == IF p > 0 THEN <<"/", ".", ".">> ELSE <<".", ".">>
                 IN CleanFrom(s, i + 2, put(r, p, t), p + Len(t), p + Len(t))
       ELSE LET e == Min({k \in i..(n + 1) : ends(k)})     \* copy the element
                t == (IF p # (IF rooted THEN 1 ELSE 0) THEN <<"/">> ELSE <<>>) \o SubSeq(s, i, e - 1)
            IN CleanFrom(s, e, put(r, p, t), p + Len(t), dotdot)
Clean(s) ==
    LET p == IF s # <<>> /\ s[1] = "/" THEN 1 ELSE 0
        x == CleanFrom(s, p + 1, s, p, p)
    IN IF s = <<>> \/ x = <<>> THEN <<".">> ELSE x

\* join of two elements, split, dir, base and ext.
Join(s, t) == LET v == IF s = <<>> THEN t ELSE s \o <<"/">> \o t
              IN IF v = <<>> THEN v ELSE Clean(v)
SplitPath(s) == LET p == RfindChar(s, "/") IN <<Upto(s, p), From(s, p + 1)>>
Dir(s) == Clean(SplitPath(s)[1])
Base(s) ==
    LET x == StripRight(s, {"/"})
    IN IF s = <<>> THEN <<".">> ELSE IF x = <<>> THEN <<"/">> ELSE From(x, RfindChar(x, "/") + 1)
Ext(s) ==
    LET i == LastOf({k \in DOMAIN s : s[k] = "."})
    IN IF i > RfindChar(s, "/") THEN From(s, i) ELSE <<>>

----------------------------------------------------------------------------
\* What these functions promise, said without loops.
Concat(v, sep) == FlattenSeq([i \in DOMAIN v |-> IF i = 1 THEN v[i] ELSE sep \o v[i]])
HasSub(s, sub) == \E i \in DOMAIN s : IsAt(s, sub, i)

\* The parts of split, put together again, are the text, but for a separator
\* at its end; no part before the limit holds a separator; replace puts the
\* new text just where the separators were.
SplitLaw(s, sep, to, max) ==
    LET v == Split(s, sep, max)
        cut == Concat(v, sep) # s
    IN /\ s = Concat(v, sep) \o (IF cut THEN sep ELSE <<>>)
       /\ Replace(s, sep, to, max) = Concat(v, to) \o (IF cut THEN to ELSE <<>>)
       /\ \A i \in DOMAIN v : HasSub(v[i], sep) => max > 0 /\ i = max + 1
       /\ max > 0 => Len(v) <= max + 1

StripLaw(s, C, d) ==
    LET r == Strip(s, C, d)
    IN /\ FindLastOf(s, C) = LastOf({i \in DOMAIN s : s[i] \in C})
       /\ r = StripMember(s, C, d)
       /\ \E i \in 0..Len(s) : \E j \in i..Len(s) :
             /\ r = SubSeq(s, i + 1, j)
             /\ \A k \in DOMAIN s \ ((i + 1)..j) : s[k] \in C
             /\ i > 0 => d # "r" /\ (j < Len(s) => d # "l")
       /\ r # <<>> => (d # "r" => Head(r) \notin C) /\ (d # "l" => Last(r) \notin C)

\* The order of a dictionary.
CompareLaw(s, t) ==
    LET less(a, b) == \E i \in 1..Len(b) :
            /\ i <= Len(a) + 1 /\ \A k \in 1..(i - 1) : a[k] = b[k]
            /\ i <= Len(a) => Code(a[i]) < Code(b[i])
    IN LessThan(s, t) = less(s, t) /\ GreaterThan(s, t) = less(t, s)

\* A pattern matches if its characters can be laid over the text.
RECURSIVE Covers(_, _)
Covers(p, e) ==
    IF p = <<>> THEN e = <<>>
    ELSE IF Head(p) = "*" THEN \E i \in 0..Len(e) : Covers(Tail(p), From(e, i + 1))
    ELSE e # <<>> /\ Head(p) \in {"?", Head(e)} /\ Covers(Tail(p), Tail(e))

\* The elements of a path that remain when each ".." has taken the one before.
RECURSIVE Walk(_, _, _)
Walk(parts, stack, rooted) ==
    IF parts = <<>> THEN stack
    ELSE LET e == Head(parts)
             next == IF e \in {<<>>, <<".">>} THEN stack
                     ELSE IF e # <<".", ".">> THEN Append(stack, e)
                     ELSE IF stack # <<>> /\ Last(stack) # e THEN Front(stack)
                     ELSE IF rooted THEN stack ELSE Append(stack, e)
         IN Walk(Tail(parts), next, rooted)
CleanSpec(s) ==
    LET rooted == s # <<>> /\ s[1] = "/"
        x == (IF rooted THEN <<"/">> ELSE <<>>) \o Concat(Walk(Split(s, <<"/">>, 0), <<>>, rooted), <<"/">>)
    IN IF x = <<>> THEN <<".">> ELSE x
=============================================================================
