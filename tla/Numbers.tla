------------------------------ MODULE Numbers ------------------------------
(***************************************************************************)
(* Numbers and their texts: fast.cc and fast.h (integers to decimal and    *)
(* hexadecimal digits, vsprintf), str.cc (texts to integers), flag.cc      *)
(* (integers with units), json.cc (fastatoi); and small computations with  *)
(* counters: SchedManager::next, the loop of poll, LogTime, and the files  *)
(* of the logger.  bits is the width of the long integers: 64 in the code; *)
(* unit is the number of bits of 'k': 10 in the code.                      *)
(***************************************************************************)
EXTENDS Strings, FiniteSets

Throw == <<>>       \* what a conversion that throws returns; else <<the number>>
DigitChars == <<"0", "1", "2", "3", "4", "5", "6", "7", "8", "9", "a", "b", "c", "d", "e", "f">>
CharsOf(S) == {DigitChars[d + 1] : d \in S}
DigitOf(c) == (CHOOSE i \in 1..16 : DigitChars[i] = c) - 1
Number(s, base) == FoldLeft(LAMBDA v, c : v * base + DigitOf(c), 0, s)

\* Mutant of Utoa: a group below the first is written without its zeros.
UtoaShort(v, w) ==
    LET G == 10^w
        plain(x) == LET n == FirstOf({k \in 1..w : x < 10^k})
                    IN [i \in 1..n |-> DigitChars[((x \div 10^(n - i)) % 10) + 1]]
        F[k \in 0..4] == LET x == v \div G^k IN IF x < G THEN plain(x) ELSE F[k + 1] \o plain(x % G)
    IN F[0]

\* u32toa, u64toa: groups of w digits (4 in the code) from the right, by a
\* table; the entry of the first group also says how many digits it has.
Utoa(v, w) ==
    LET G == 10^w
        full(x) == [i \in 1..w |-> DigitChars[((x \div 10^(w - i)) % 10) + 1]]
        first(x) == LET n == FirstOf({k \in 1..w : x < 10^k}) IN SubSeq(full(x), w - n + 1, w)
        F[k \in 0..4] == LET x == v \div G^k IN IF x < G THEN first(x) ELSE F[k + 1] \o full(x % G)
    IN F[0]
Itoa(v, w) == IF v >= 0 THEN Utoa(v, w) ELSE <<"-">> \o Utoa(-v, w)

\* u32toh and its relatives: a table of two digits per byte, the first digit
\* of the first byte left out if it is 0.
Utoh(v) ==
    LET two(x) == <<DigitChars[(x \div 16) + 1], DigitChars[(x % 16) + 1]>>
        F[k \in 0..3] == LET x == v \div 256^k
                         IN IF x < 256 THEN two(x) ELSE F[k + 1] \o two(x % 256)
    IN IF Head(F[0]) = "0" THEN Tail(F[0]) ELSE F[0]

----------------------------------------------------------------------------
\* strtoll and strtoull with base 0 (C library): a sign, "0x" or "0", digits.
\* end is how many characters were read, 0 if there is no number.
Strto(s) ==
    LET i == IF s # <<>> /\ s[1] = "-" THEN 1 ELSE 0
        hex == Len(s) >= i + 3 /\ s[i + 1] = "0" /\ s[i + 2] = "x" /\ s[i + 3] \in CharsOf(0..15)
        base == IF hex THEN 16 ELSE IF Len(s) > i /\ s[i + 1] = "0" THEN 8 ELSE 10
        b == IF hex THEN i + 2 ELSE i
        e == LastOf({k \in (b + 1)..Len(s) : \A j \in (b + 1)..k : s[j] \in CharsOf(0..(base - 1))})
        v == Number(SubSeq(s, b + 1, e), base)
    IN IF e = 0 THEN [val |-> 0, end |-> 0] ELSE [val |-> IF i = 1 THEN -v ELSE v, end |-> e]

Shift(c, unit) == unit * FirstOf({i \in 1..5 : c \in {<<"k", "m", "g", "t", "p">>[i], <<"K", "M", "G", "T", "P">>[i]}})
Wrap(x, bits) == ((x + 2^(bits - 1)) % 2^bits) - 2^(bits - 1)

\* What the conversions depend on besides the text.  stale: errno is ERANGE
\* from an earlier call, since nothing clears it.  neg: what -x is for the
\* smallest x, which is undefined: x again, or to a test a positive number.
Envs == [stale : BOOLEAN, neg : {-1, 1}]
ErrnoClear == [stale |-> FALSE, neg |-> 1]
Magnitude(x) == IF x < 0 THEN -x ELSE x
Absx(x, bits, env) == IF x = -(2^(bits - 1)) THEN env.neg * 2^(bits - 1) ELSE Magnitude(x)

\* to_int64, to_int32, to_uint64, to_uint32.  A number out of range is read as
\* the limit, and errno tells it from the limit itself.
ToInt64(s, bits, unit, env) ==
    LET min == -(2^(bits - 1))
        max == 2^(bits - 1) - 1
        value(r, sh) ==
            IF r.val \notin min..max \/ (env.stale /\ r.val \in {min, max}) THEN Throw
            ELSE IF r.end = Len(s) THEN <<r.val>>
            ELSE IF r.end # Len(s) - 1 \/ sh = 0 THEN Throw
            ELSE IF r.val < min \div 2^sh \/ r.val > max \div 2^sh THEN Throw
            ELSE <<r.val * 2^sh>>
    IN IF s = <<>> THEN <<0>> ELSE value(Strto(s), Shift(Last(s), unit))

ToInt32(s, bits, unit, env) ==
    LET half == bits \div 2
        narrow(x) == IF x = Throw \/ x[1] \notin -(2^(half - 1))..(2^(half - 1) - 1) THEN Throw ELSE x
    IN narrow(ToInt64(s, bits, unit, env))

ToUint64(s, bits, unit, env) ==
    LET value(r, x, sh) ==
            IF r.val \notin -(2^bits - 1)..(2^bits - 1) \/ (env.stale /\ x = -1) THEN Throw
            ELSE IF r.end = Len(s) THEN <<x % 2^bits>>
            ELSE IF r.end # Len(s) - 1 \/ sh = 0 THEN Throw
            ELSE IF Absx(x, bits, env) > (2^bits - 1) \div 2^sh THEN Throw
            ELSE <<(x * 2^sh) % 2^bits>>
        signed(r) == value(r, Wrap(r.val, bits), Shift(Last(s), unit))
    IN IF s = <<>> THEN <<0>> ELSE signed(Strto(s))

ToUint32(s, bits, unit, env) ==
    LET narrow(u) == IF u = Throw \/ Absx(Wrap(u[1], bits), bits, env) > 2^(bits \div 2) - 1 THEN Throw
                     ELSE <<Wrap(u[1], bits) % 2^(bits \div 2)>>
    IN narrow(ToUint64(s, bits, unit, env))

ToBool(s) == IF s \in {<<"0">>, <<"f", "a", "l", "s", "e">>} THEN <<FALSE>>
             ELSE IF s \in {<<"1">>, <<"t", "r", "u", "e">>} THEN <<TRUE>> ELSE Throw

\* int_to_string: a large multiple of 1024 is written with a unit.  small is
\* 8192 in the code.
IntToString(t, unit, small) ==
    LET i == Max({k \in 0..5 : t % 2^(unit * k) = 0})
    IN IF t \in -small..small THEN Itoa(t, 4)
       ELSE Itoa(t \div 2^(unit * i), 4) \o (IF i = 0 THEN <<>> ELSE <<<<"k", "m", "g", "t", "p">>[i]>>)

\* fastatoi: the digits before the last one are added up unchecked; only a
\* number of the greatest possible length is compared with the limit.
Fastatoi(s, bits) ==
    LET neg == s[1] = "-"
        d == IF s[1] \in {"-", "+"} THEN Tail(s) ELSE s
        n == Len(d)
        v == Number(Front(d), 10)
        limit == IF neg THEN 2^(bits - 1) ELSE 2^bits - 1
        long == Len(Utoa(limit, 4))
        last == DigitOf(Last(d))
    IN IF n = 0 \/ \E i \in DOMAIN d : d[i] \notin CharsOf(0..9) THEN Throw
       ELSE IF n > long \/ (n = long /\ v > (limit - last) \div 10) THEN Throw
       ELSE IF neg THEN <<-(v * 10 + last)>> ELSE <<Wrap(v * 10 + last, bits)>>

----------------------------------------------------------------------------
\* vsprintf: text, "%%", and conversions, each of which takes an argument
\* (".*s" takes two).  over: the format was read past its end.
Conv == {"b", "B", "c", "d", "u", "f", "x", "X", "p", "P", "s"}
RECURSIVE Format(_, _, _, _)
Format(f, i, arg, out) ==
    LET p == Find(f, <<"%">>, i)
        here == out \o SubSeq(f, i, p - 1)
        a == IF p < Len(f) THEN f[p + 1] ELSE "end"
        b == IF p + 1 < Len(f) THEN f[p + 2] ELSE "end"
        go(k, args, t) == Format(f, k, arg + args, here \o t)
    IN IF i > Len(f) THEN [out |-> out, args |-> arg, over |-> i > Len(f) + 1]
       ELSE IF p = 0 THEN [out |-> out \o From(f, i), args |-> arg, over |-> FALSE]
       ELSE IF a \in {"%", "end"} THEN go(p + 2, 0, <<"%">>)
       ELSE IF a \in Conv THEN go(p + 2, 1, <<"<", a, ">">>)
       ELSE IF a = "l" /\ b \in {"d", "u", "x", "X"} THEN go(p + 3, 1, <<"<", "l", b, ">">>)
       ELSE IF a = "l" THEN go(p + 3, 0, SubSeq(f \o <<"end", "beyond">>, p + 1, p + 3))
       ELSE IF a = "." /\ b = "*" /\ p + 3 <= Len(f) /\ f[p + 3] = "s" THEN go(p + 4, 2, <<"<", "s", ">">>)
       ELSE go(p + 2, 0, <<"%", a>>)
Vsprintf(f) == IF f = <<>> THEN [out |-> <<>>, args |-> 0, over |-> FALSE] ELSE Format(f, 1, 0, <<>>)

----------------------------------------------------------------------------
\* SchedManager::next: the scheduler for the counter n of the given width, or
\* any one in the last turn, which is not complete.
NextSched(n, size, bits) ==
    LET r == 2^bits % size
    IN IF r = 0 THEN {n % size}     \* n & (size - 1)
       ELSE IF n <= 2^bits - 1 - r THEN {n % size} ELSE 0..(size - 1)

\* poll of several descriptors: the sleeps of 17 ms until it gives up; 0 if it
\* never does.
RECURSIVE PollLoop(_, _)
PollLoop(ms, slept) ==
    IF ms <= 0 THEN 0 ELSE IF ms - 17 < 0 THEN slept + 17 ELSE PollLoop(ms - 17, slept + 17)

\* LogTime::update: the seconds since the last update are added to the fields;
\* at the end of an hour, or after a minute or more, they are computed anew.
LogTime(t) == [hour |-> t \div 3600, min |-> (t \div 60) % 60, sec |-> t % 60]
LogTimeUpdate(start, now) ==
    LET tm == LogTime(start)
        sec == tm.sec + now - start
    IN IF now = start THEN tm
       ELSE IF now - start \notin 0..60 \/ (tm.min = 59 /\ sec > 59) THEN LogTime(now)
       ELSE IF sec < 60 THEN [tm EXCEPT !.sec = sec]
       ELSE [tm EXCEPT !.min = @ + 1, !.sec = sec - 60]

\* open_log_file with a full log: files[1] is the log, files[i + 1] the one
\* with suffix i; 0 stands for no file.  num is max_log_file_num.
RotateLog(files, num) ==
    LET gap == FirstOf({i \in 2..num : files[i] = 0})
        n == IF gap = 0 THEN num ELSE gap
    IN [i \in DOMAIN files |-> IF i > n THEN files[i] ELSE IF i = 1 THEN 0 ELSE files[i - 1]]

----------------------------------------------------------------------------
\* What these functions promise.  A conversion takes one argument, text none;
\* two formats, the first of which does not end in a conversion, mean together
\* what each of them means.  Two cases are apart: '%' at the end is read past
\* its end, and after "%l" without d, u, x or X the next three characters are
\* copied though only two are passed, at the end of the format also those
\* behind it, and no argument is taken.  So "%lf" is the one conversion of the
\* list at fastring.h:403-418, Documented, that takes no argument.
Documented == {<<"%", c>> : c \in {"b", "B", "c", "d", "u", "f", "s", "x", "X", "p"}}
              \cup {<<"%", "l", c>> : c \in {"d", "u", "f", "x", "X"}}
LongAt(f, i) == IsAt(f, <<"%", "l">>, i) /\ ~(i + 2 <= Len(f) /\ f[i + 2] \in {"d", "u", "x", "X"})
FormatLaw(f) ==
    LET r == Vsprintf(f)
    IN /\ f \in Documented => r.args = IF f = <<"%", "l", "f">> THEN 0 ELSE 1
       /\ r.over => Last(f) = "%" \/ EndsWith(f, <<"%", "l">>)
       /\ RfindChar(f, "%") = 0 => r.out = f /\ r.args = 0
       /\ \A i \in 1..(Len(f) - 1) : f[i] \notin {"%", "l"} /\ ~(i > 2 /\ LongAt(f, i - 2)) =>
             LET a == Vsprintf(Upto(f, i)) b == Vsprintf(From(f, i + 1))
             IN r.out = a.out \o b.out /\ r.args = a.args + b.args /\ r.over = b.over

\* What a text says: a number, with a unit or without.  No text at all is 0,
\* and so is a unit alone.
Meaning(s, unit) ==
    LET r == Strto(s)
        sh == IF s = <<>> THEN 0 ELSE Shift(Last(s), unit)
    IN [ok |-> s = <<>> \/ r.end = Len(s) \/ (r.end = Len(s) - 1 /\ sh # 0),
        plain |-> r.end = Len(s), val |-> r.val,
        exact |-> IF r.end = Len(s) THEN r.val ELSE r.val * 2^sh]

\* The signed conversions give what the text says, or refuse it because that is
\* out of range; any other text is refused.  The unsigned ones give what it
\* says if that, or for a negative number its magnitude, fits, and refuse it or
\* give it modulo 2^64 (2^32) if not.  A stale errno makes to_int64 refuse its
\* limits, and to_uint64 the greatest number, which is what -1 is read as.
ParseNumberLaw(s) ==
    LET bits == 8 half == 4 unit == 2
        m == Meaning(s, unit)
        fits(b) == m.exact \in -(2^(b - 1))..(2^(b - 1) - 1)
        limit == m.plain /\ m.exact \in {-(2^(bits - 1)), 2^(bits - 1) - 1}
        digits == s # <<>> /\ LET d == IF s[1] = "-" THEN Tail(s) ELSE s
                              IN d # <<>> /\ \A i \in DOMAIN d : d[i] \in CharsOf(0..9)
        n == IF s[1] = "-" THEN -Number(Tail(s), 10) ELSE Number(s, 10)
        unsigned(u, b, env) ==
            IF ~m.ok THEN u = Throw
            ELSE IF Magnitude(m.exact) < 2^b /\ ~(env.stale /\ m.val % 2^bits = 2^bits - 1)
            THEN u = <<m.exact % 2^b>> ELSE u \in {Throw, <<m.exact % 2^b>>}
    IN /\ \A env \in Envs :
             /\ ToInt64(s, bits, unit, env) = IF m.ok /\ fits(bits) /\ ~(env.stale /\ limit) THEN <<m.exact>> ELSE Throw
             /\ ToInt32(s, bits, unit, env) = IF m.ok /\ fits(half) THEN <<m.exact>> ELSE Throw
             /\ unsigned(ToUint64(s, bits, unit, env), bits, env)
             /\ unsigned(ToUint32(s, bits, unit, env), half, env)
       /\ s # <<>> /\ ~digits => Fastatoi(s, bits) = Throw
       /\ digits /\ Len(s) <= 3 =>
             Fastatoi(s, bits) = IF n \in -(2^(bits - 1))..(2^bits - 1) THEN <<Wrap(n, bits)>> ELSE Throw

\* The digits of n are those of n, without zeros before them; a flag with the
\* value n or -n is read again from its text.
CountLaw(n) ==
    /\ \A w \in {2, 4} : Number(Utoa(n, w), 10) = n /\ (Head(Utoa(n, w)) = "0" => Len(Utoa(n, w)) = 1)
    /\ Number(Utoh(n), 16) = n /\ (Head(Utoh(n)) = "0" => Len(Utoh(n)) = 1)
    /\ \A t \in {n, -n} : ToInt64(IntToString(t, 3, 16), 30, 3, ErrnoClear) = <<t>>

\* poll ends after its time and less than one sleep more.  Nothing is said of
\* the multiples of 17, with which it does not end: ms reaches 0 and not less.
ClockLaw(n) ==
    /\ n \in 1..999 /\ n % 17 # 0 => PollLoop(n, 0) \in n..(n + 16)
    /\ \A d \in {-1, 0, 1, 2, 59, 60, 61, 3600} : n + d >= 0 => LogTimeUpdate(n, n + d) = LogTime(n + d)

NextSchedLaw(bits) ==
    \A size \in 1..6 :
       LET times(k) == Cardinality({n \in 0..(2^bits - 1) : NextSched(n, size, bits) = {k}})
       IN \A n \in 0..(2^bits - 1) : NextSched(n, size, bits) \subseteq 0..(size - 1)
          /\ \A k \in 0..(size - 1) : size > 1 => times(k) = 2^bits \div size

\* Rotation keeps the order of the files, from the newest to the oldest, and
\* loses one only if there are num of them already.
RotateLaw(num) ==
    \A there \in SUBSET (2..num) :
       LET files == [i \in 1..num |-> IF i = 1 \/ i \in there THEN i ELSE 0]
           new == RotateLog(files, num)
           kept(f) == SelectSeq(f, LAMBDA x : x # 0)
       IN /\ new[1] = 0
          /\ kept(new) = IF there = 2..num THEN Front(kept(files)) ELSE kept(files)
=============================================================================
