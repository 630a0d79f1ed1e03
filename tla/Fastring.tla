------------------------------ MODULE Fastring ------------------------------
(***************************************************************************)
(* fast::stream with fastring and fastream (fast.h, fastring.h,            *)
(* fastring.cc, fastream.h): strings that own a block of memory of cap     *)
(* bytes, of which size are in use.  The memory is modelled byte by byte;  *)
(* text says what std::string would hold after the same calls.             *)
(*                                                                         *)
(* The program does not append to a string, by a pointer, a part of itself *)
(* that makes it grow: the code reads the old block after realloc.         *)
(***************************************************************************)
EXTENDS Naturals, Sequences, FiniteSets, SequencesExt, FiniteSetsExt

CONSTANTS
    Strs,       \* the strings of the program
    Blocks,     \* addresses, positive numbers, more than there are strings
    Chars,      \* characters
    MaxSize,    \* bounds on the size of a string and of its block
    MaxCap

ASSUME StrAssumption ==
    /\ Blocks \subseteq Nat \ {0} /\ IsFiniteSet(Blocks) /\ IsFiniteSet(Strs)
    /\ Cardinality(Strs) < Cardinality(Blocks)
    /\ MaxSize \in Nat /\ MaxCap \in Nat

Nul == "NUL"
Unset == "?"        \* a byte that malloc or realloc left as it was

VARIABLES
    str,        \* _p, _cap and _size of each string
    bytes,      \* the memory in use
    text        \* what std::string would hold

strVars == <<str, bytes, text>>
EmptyStr == [p |-> 0, cap |-> 0, size |-> 0]
StrInit == str = [x \in Strs |-> EmptyStr] /\ bytes = <<>> /\ text = [x \in Strs |-> <<>>]

\* A state of one string, s, with the memory, m.  malloc and realloc.
At(s, m) == [s |-> s, m |-> m]
Here(x) == At(str[x], bytes)
Fill(n) == [i \in 1..n |-> Unset]
Free(m, p) == [b \in DOMAIN m \ {p} |-> m[b]]
Fresh(m) == CHOOSE b \in Blocks : b \notin DOMAIN m
Realloc(t, n) ==
    LET b == Fresh(t.m)
        old == IF t.s.p = 0 THEN <<>> ELSE t.m[t.s.p]
        m == Free(t.m, t.s.p)
    IN At([t.s EXCEPT !.p = b, !.cap = n],
          [a \in DOMAIN m \cup {b} |-> IF a = b THEN old \o Fill(n - Len(old)) ELSE m[a]])

Reserve(t, n) == IF t.s.cap < n THEN Realloc(t, n) ELSE t

\* Mutant of Ensure: the bytes in use are not counted.
EnsureNew(t, n) == IF t.s.cap < n THEN Reserve(t, ((t.s.cap * 3) \div 2) + n) ELSE t

Ensure(t, n) == IF t.s.cap < t.s.size + n THEN Reserve(t, ((t.s.cap * 3) \div 2) + n) ELSE t

\* memcpy and memmove to an offset of the block; what does not fit makes the
\* block longer than cap.
Poke(t, at, data) ==
    LET old == t.m[t.s.p]
    IN IF data = <<>> THEN t
       ELSE [t EXCEPT !.m[t.s.p] = [i \in 1..Max({Len(old), at + Len(data)}) |->
                IF i \in (at + 1)..(at + Len(data)) THEN data[i - at] ELSE old[i]]]
Size(t, n) == [t EXCEPT !.s.size = n]
AppendBytes(t, data) ==
    LET u == Ensure(t, Len(data)) IN Size(Poke(u, u.s.size, data), u.s.size + Len(data))
Content(t) == IF t.s.p = 0 THEN <<>> ELSE SubSeq(t.m[t.s.p], 1, t.s.size)

\* c_str, and strlen of what it returns, from an offset.
CStr(t) == LET u == Reserve(t, t.s.size + 1) IN Poke(u, u.s.size, <<Nul>>)
CText(t, k) ==
    LET b == t.m[t.s.p]
    IN SubSeq(b, k + 1, Min({i \in DOMAIN b : i > k /\ b[i] = Nul}) - 1)

\* The constructors from memory and from a number of characters.
NewOf(m, data) ==
    IF data = <<>> THEN At(EmptyStr, m)
    ELSE Size(Poke(Realloc(At(EmptyStr, m), Len(data) + 1), 0, data), Len(data))
\* operator=(&&) of a temporary u, made in the memory after the call.
Gives(x, u, s) ==
    /\ str' = [str EXCEPT ![x] = u.s]
    /\ bytes' = Free(u.m, str[x].p)
    /\ text' = [text EXCEPT ![x] = s]

\* A member of x leaves t, and std::string would hold s.
Leaves(x, t, s) ==
    /\ Len(s) <= MaxSize /\ t.s.cap <= MaxCap
    /\ str' = [str EXCEPT ![x] = t.s] /\ bytes' = t.m /\ text' = [text EXCEPT ![x] = s]

----------------------------------------------------------------------------
\* fastring(cap), fastring(n, c), substr and str().
NewCap(x, n) == Gives(x, Realloc(At(EmptyStr, bytes), n), <<>>)
NewChars(x, n, c) ==
    LET s == [i \in 1..n |-> c]
    IN Gives(x, Size(Poke(Realloc(At(EmptyStr, bytes), n + 1), 0, s), n), s)
Substr(x, y, k, n) ==
    LET len == Min({n, str[y].size - k})
        part(s) == IF str[y].size <= k THEN <<>> ELSE SubSeq(s, k + 1, k + len)
    IN Gives(x, NewOf(bytes, part(Content(Here(y)))), part(text[y]))

\* operator=(const fastring&), operator=(fastring&&) and swap.
AssignStr(x, y) ==
    LET t == Size(Here(x), str[y].size)
    IN /\ x # y
       /\ Leaves(x, IF str[y].size = 0 THEN t ELSE Poke(Reserve(t, str[y].size + 1), 0, Content(Here(y))), text[y])
MoveStr(x, y) ==
    /\ x # y
    /\ str' = [str EXCEPT ![x] = str[y], ![y] = EmptyStr]
    /\ bytes' = Free(bytes, str[x].p)
    /\ text' = [text EXCEPT ![x] = text[y], ![y] = <<>>]
SwapStr(x, y) ==
    /\ x # y
    /\ str' = [str EXCEPT ![x] = str[y], ![y] = str[x]]
    /\ text' = [text EXCEPT ![x] = text[y], ![y] = text[x]]
    /\ UNCHANGED bytes

\* c_str() of x, which may allocate.
CallCStr(x) == Leaves(x, CStr(Here(x)), text[x])

\* Is there a Nul at or behind the offset k, at the end at the latest?  (The
\* pointer was got by c_str, and nothing was appended since.)
Ended(x, k) == str[x].p # 0 /\ k <= str[x].size /\ str[x].size < str[x].cap /\ bytes[str[x].p][str[x].size + 1] = Nul

\* operator=(const char*) with a pointer into y, which may be x: then the text
\* is a C string, since the code takes all bytes up to size.
AssignPtr(x, y, k) ==
    LET s == CText(Here(y), k)
        t == Size(Here(x), IF x = y THEN str[x].size - k ELSE Len(s))
        old == bytes[str[x].p]
    IN /\ Ended(y, k) /\ (x = y => Len(s) = str[x].size - k)
       /\ Leaves(x, IF s = <<>> THEN Size(Here(x), 0)
                    ELSE IF x # y THEN Poke(Reserve(t, Len(s) + 1), 0, Append(s, Nul))
                    ELSE IF k = 0 THEN Here(x)
                    ELSE Poke(t, 0, SubSeq(old, k + 1, k + t.s.size + 1)), s)

\* append(const fastring&): of another string, or of itself.
AppendStr(x, y) ==
    LET t == Reserve(Here(x), 2 * str[x].size)
        own == Content(Here(x))
    IN Leaves(x, IF x # y THEN AppendBytes(Here(x), Content(Here(y)))
                 ELSE Size(Poke(t, t.s.size, own), 2 * t.s.size), text[x] \o text[y])

\* append(const char*) with a pointer into y.
AppendPtr(x, y, k) ==
    LET s == CText(Here(y), k)
    IN /\ Ended(y, k)
       /\ (x = y => str[x].cap >= str[x].size + Len(s))
       /\ Leaves(x, AppendBytes(Here(x), s), text[x] \o s)

\* append(n, c) and append(c); most is what is reserved.
AppendChars(x, n, c, most) ==
    LET s == [i \in 1..n |-> c]
        u == Ensure(Here(x), most)
    IN n <= most /\ Leaves(x, Size(Poke(u, u.s.size, s), u.s.size + n), text[x] \o s)

\* operator<< of a number reserves for the longest one.
WriteNumber(x, c) == AppendChars(x, 1, c, 2)

\* resize does not set the new bytes; clear; reserve; lshift; shrink.
Resize(x, n) ==
    LET t == Size(Reserve(Here(x), n), n)
    IN Leaves(x, t, Content(t))
CallReserve(x, n) == Leaves(x, Reserve(Here(x), n), text[x])
ShiftLeft(x, n) ==
    LET rest == SubSeq(Content(Here(x)), n + 1, str[x].size)
    IN Leaves(x, IF str[x].size <= n THEN Size(Here(x), 0) ELSE Size(Poke(Here(x), 0, rest), str[x].size - n),
              SubSeq(text[x], n + 1, Len(text[x])))
Shrink(x) == str[x].size + 1 < str[x].cap /\ Gives(x, NewOf(bytes, Content(Here(x))), text[x])

StrNext ==
    \E x \in Strs :
        \/ CallCStr(x) \/ Shrink(x)
        \/ \E n \in 0..MaxSize : Resize(x, n) \/ ShiftLeft(x, n)
        \/ NewCap(x, MaxSize) \/ CallReserve(x, MaxSize)
        \/ \E c \in Chars : NewChars(x, MaxSize, c) \/ AppendChars(x, 1, c, 1) \/ WriteNumber(x, c)
        \/ \E y \in Strs : \/ AssignStr(x, y) \/ MoveStr(x, y) \/ SwapStr(x, y) \/ AppendStr(x, y)
                           \/ \E k \in 0..MaxSize : AssignPtr(x, y, k) \/ AppendPtr(x, y, k)
                           \/ \E k \in 0..MaxSize, n \in {1, MaxSize} : Substr(x, y, k, n)

StrSpec == StrInit /\ [][StrNext]_strVars

\* A string holds what std::string would: appending it to itself, assigning a
\* pointer into itself and growing included; appending a pointer into itself
\* only if it need not grow, since the bytes are read after realloc
\* (fastring.h:58-63), which AppendPtr leaves out.  No byte is
\* written behind the block, and each block has one owner, which is the only
\* one to free it.  (fast.h, fastring.cc:4, fastring.cc:24, fastring.cc:54)
TextKept ==
    /\ \A x \in Strs :
          LET t == Here(x)
          IN /\ Content(t) = text[x] /\ t.s.size = Len(text[x]) /\ t.s.size <= t.s.cap
             /\ t.s.p # 0 => t.s.p \in DOMAIN bytes /\ Len(bytes[t.s.p]) = t.s.cap
    /\ DOMAIN bytes = {str[x].p : x \in Strs} \ {0}
    /\ \A x, y \in Strs : str[x].p = str[y].p /\ str[x].p # 0 => x = y
=============================================================================
