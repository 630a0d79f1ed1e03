------------------------------ MODULE FlagText ------------------------------
(***************************************************************************)
(* flag.cc: the command line (analyze, parse_command_line_flags), and the  *)
(* config file that mkconf writes and parse_config reads.  Texts and names *)
(* are sequences of characters.  A flag is a record of its type, its value *)
(* and where it is defined; the flags are a function from names (gFlags).  *)
(* Exit stands for a message and exit(0), in the place of the flags.       *)
(***************************************************************************)
EXTENDS Numbers, Functions

Exit == <<>>
Bit == 30               \* the width of int64, and of the unit k: 64 and 10
Unit == 3
Small == 16             \* 8192 in the code
Blank == {" ", "\t", "\r", "\n"}
Quotes == {"\"", "'"}

\* Flag: the level is taken from help texts such as "#0 text".
HelpLevel(h) ==
    LET digit(i) == i <= Len(h) /\ h[i] \in CharsOf(0..9)
        ends(i) == i = Len(h) + 1 \/ (i <= Len(h) /\ h[i] = " ")
    IN IF h = <<>> \/ h[1] # "#" \/ ~digit(2) THEN <<10, h>>
       ELSE IF ends(3) THEN <<DigitOf(h[2]), Lshift(h, 3)>>
       ELSE IF digit(3) /\ ends(4) THEN <<DigitOf(h[2]) * 10 + DigitOf(h[3]), Lshift(h, 4)>>
       ELSE <<10, h>>

\* flag_set_value and flag_get_value.  errno is taken to be clear; NumberLaw
\* says which numbers are refused if it is not.
FromText(type, v) ==
    CASE type = "string" -> <<v>>
      [] type = "bool" -> ToBool(v)
      [] type = "int32" -> ToInt32(v, Bit, Unit, ErrnoClear)
      [] type = "int64" -> ToInt64(v, Bit, Unit, ErrnoClear)
      [] type = "uint32" -> ToUint32(v, Bit, Unit, ErrnoClear)
      [] type = "uint64" -> ToUint64(v, Bit, Unit, ErrnoClear)
ToText(f) ==
    CASE f.type = "string" -> f.value
      [] f.type = "bool" -> IF f.value THEN <<"t", "r", "u", "e">> ELSE <<"f", "a", "l", "s", "e">>
      [] OTHER -> IntToString(f.value, Unit, Small)

\* set_flag_value and set_bool_flags.
SetFlag(flags, name, v) ==
    LET set(x) == IF x = Throw THEN Exit ELSE [flags EXCEPT ![name].value = x[1]]
    IN IF flags = Exit \/ name \notin DOMAIN flags THEN Exit ELSE set(FromText(flags[name].type, v))
SetBools(flags, name) ==
    LET names == IF name \in DOMAIN flags THEN {name} ELSE {<<name[i]>> : i \in DOMAIN name}
    IN IF \E n \in names : n \notin DOMAIN flags \/ flags[n].type # "bool" THEN Exit
       ELSE [n \in DOMAIN flags |-> IF n \in names THEN [flags[n] EXCEPT !.value = TRUE] ELSE flags[n]]

----------------------------------------------------------------------------
\* analyze: kv is the list of "-a=b", "-a b", "a=b" and "-j4", bools the list
\* of "-a", res what is not a flag.
Parsed(ok) == [ok |-> ok, kv |-> <<>>, bools |-> <<>>, res |-> <<>>]
RECURSIVE AnalyzeFrom(_, _, _, _)
AnalyzeFrom(args, flags, i, x) ==
    LET arg == args[i]
        bp == FindFirstNotOf(arg, {"-"})
        ep == Find(arg, <<"=">>, 1)
        name == From(arg, bp)
        one == <<name[1]>>
        short == /\ Len(name) > 1 /\ name[2] \in CharsOf(0..9) \cup {"-"}
                 /\ name \notin DOMAIN flags /\ one \in DOMAIN flags
        next == args[i + 1]
        other == \/ i = Len(args) \/ Find(next, <<"=">>, 1) # 0
                 \/ /\ next # <<>> /\ next[1] = "-" /\ FindFirstNotOf(next, {"-"}) # 0
                    /\ next[2] \notin CharsOf(0..9)
        value == ~other /\ name \in DOMAIN flags /\ (flags[name].type # "bool" \/ next = <<"0">>)
        go(k, y) == AnalyzeFrom(args, flags, k, y)
    IN IF i > Len(args) THEN x
       ELSE IF bp = 0 THEN go(i + 1, [x EXCEPT !.res = Append(@, arg)])
       ELSE IF ep # 0 /\ ep <= bp THEN Parsed(FALSE)
       ELSE IF ep # 0 THEN go(i + 1, [x EXCEPT !.kv = Append(@, <<SubSeq(arg, bp, ep - 1), From(arg, ep + 1)>>)])
       ELSE IF bp = 1 \/ (bp = 2 /\ arg[2] \in CharsOf(0..9)) THEN go(i + 1, [x EXCEPT !.res = Append(@, arg)])
       ELSE IF short THEN go(i + 1, [x EXCEPT !.kv = Append(@, <<one, Tail(name)>>)])
       ELSE IF value THEN go(i + 2, [x EXCEPT !.kv = Append(@, <<name, next>>)])
       ELSE go(i + 1, [x EXCEPT !.bools = Append(@, name)])
Analyze(args, flags) == AnalyzeFrom(args, flags, 1, Parsed(TRUE))

----------------------------------------------------------------------------
\* format_str: a string with quotes is put into the other ones.
FormatStr(s) ==
    LET px == Find(s, <<"\"">>, 1) py == Find(s, <<"'">>, 1)
    IN IF px = 0 /\ py = 0 THEN s
       ELSE IF px = 0 THEN <<"\"">> \o s \o <<"\"">>
       ELSE IF py = 0 THEN <<"'">> \o s \o <<"'">>
       ELSE <<"'">> \o Replace(s, <<"'">>, <<"\\", "'">>, 0) \o <<"'">>

\* mkconf: the flags that are not hidden, ordered by level, file and line.
MkconfLess(f, g) ==
    \/ f.lv < g.lv
    \/ f.lv = g.lv /\ (f.file < g.file \/ (f.file = g.file /\ f.line < g.line))
Mkconf(flags) ==
    LET shown == {n \in DOMAIN flags : flags[n].help # <<>> /\ flags[n].help[1] # "."}
        order == SetToSortSeq(shown, LAMBDA m, n : MkconfLess(flags[m], flags[n]))
        entry(n) == LET v == ToText(flags[n])
                    IN <<"#", " ">> \o Replace(flags[n].help, <<"\n">>, <<"\n", "#", " ">>, 0) \o <<"\n">>
                       \o n \o <<" ", "=", " ">> \o (IF flags[n].type = "string" THEN FormatStr(v) ELSE v)
                       \o <<"\n", "\n">>
    IN <<"#", "#", "\n", "\n">> \o FlattenSeq([i \in DOMAIN order |-> entry(order[i])])

\* find_not_in_qm: the first place of sub that is not between quotes.  x and y
\* are the quotes that are open ("" is none), q the quotes in s[i..p] in order.
QmOpen(q, xy) ==
    FoldLeft(LAMBDA o, c : IF c = o.x THEN [x |-> "", y |-> ""] ELSE IF c = o.y THEN [o EXCEPT !.y = ""]
                           ELSE IF o.x = "" THEN [o EXCEPT !.x = c] ELSE [o EXCEPT !.y = c], xy, q)
RECURSIVE FindQmFrom(_, _, _)
FindQmFrom(s, sub, i) ==
    LET p == Strstr(s, sub, i)
        o == QmOpen(SelectSeq(SubSeq(s, i, p), LAMBDA c : c \in Quotes), [x |-> "", y |-> ""])
        e == FirstOf({k \in (p + Len(sub))..Len(s) : s[k] \in Quotes /\ s[k] \in {o.x, o.y}})
    IN IF p = 0 THEN 0 ELSE IF o.x = "" \/ e = 0 THEN p ELSE FindQmFrom(s, sub, e + 1)
FindNotInQm(s, sub) == FindQmFrom(s, sub, 1)

\* getline: the line that begins at n, joined with the next one for as long as
\* it ends with a backslash; and where the next one begins.  "fw" is the space
\* of Chinese texts.
RECURSIVE Getline(_, _, _)
Getline(lines, n, line) ==
    LET join(s) == IF s = <<>> \/ Last(s) # "\\" THEN <<line \o s, n + 1>>
                   ELSE Getline(lines, n + 1, line \o StripRight(s, Blank \cup {"\\"}))
    IN IF n > Len(lines) THEN <<line, n>> ELSE join(Strip(Replace(lines[n], <<"fw">>, <<" ">>, 0), Blank, "b"))

\* One line of the config file: <<>> if it says nothing, else name and value.
ParseLine(s) ==
    LET first(p, q) == IF p = 0 \/ (q # 0 /\ q < p) THEN q ELSE p
        plain(c) == IF c = 0 THEN s ELSE StripRight(Upto(s, c - 1), {" ", "\t"})
        unquote(val) == IF Len(val) > 1 /\ val[1] \in Quotes /\ val[1] = Last(val)
                        THEN StripMember(val, {val[1]}, "b") ELSE val
        assign(t, e) == IF e \in {0, 1} THEN <<"exit">>
                        ELSE <<StripRight(Upto(t, e - 1), {" ", "\t"}), unquote(StripLeft(From(t, e + 1), {" ", "\t"}))>>
        line(t) == assign(t, FindNotInQm(t, <<"=">>))
    IN IF s = <<>> \/ s[1] = "#" \/ StartsWith(s, <<"/", "/">>) THEN <<>>
       ELSE line(plain(first(FindNotInQm(s, <<"#">>), FindNotInQm(s, <<"/", "/">>))))

\* parse_config.
RECURSIVE ParseConfigLines(_, _, _)
ParseConfigLines(lines, n, flags) ==
    LET set(kv) == IF kv = <<>> THEN flags ELSE IF kv = <<"exit">> THEN Exit ELSE SetFlag(flags, kv[1], kv[2])
        line(g) == ParseConfigLines(lines, g[2], set(ParseLine(g[1])))
    IN IF n > Len(lines) \/ flags = Exit THEN flags ELSE line(Getline(lines, n, <<>>))
ParseConfig(data, flags) ==
    LET sep == IF Find(data, <<"\n">>, 1) = 0 /\ Find(data, <<"\r">>, 1) # 0 THEN "\r" ELSE "\n"
    IN ParseConfigLines(Split(data, <<sep>>, 0), 1, flags)

\* parse_command_line_flags: the config file, then the command line, where a
\* later value of a name replaces the one before.
ParseCommandLine(args, config, flags) ==
    LET last(kv) == {i \in DOMAIN kv : \A j \in DOMAIN kv : j > i => kv[j][1] # kv[i][1]}
        bools(a, set) == FoldLeft(LAMBDA f, n : IF f = Exit THEN Exit ELSE SetBools(f, n), set, a.bools)
        kvs(a, conf) == FoldFunction(LAMBDA kv, f : SetFlag(f, kv[1], kv[2]), conf, [i \in last(a.kv) |-> a.kv[i]])
        both(a, conf) == IF ~a.ok \/ conf = Exit THEN Exit ELSE bools(a, kvs(a, conf))
    IN both(Analyze(args, flags), IF config = <<>> THEN flags ELSE ParseConfig(config, flags))

----------------------------------------------------------------------------
\* The strings that a config file can hold.  One with quotes of one kind, which
\* is written between the others, may hold a mark of a comment once; one with
\* both kinds is not read as it was written; one without has no such mark, no
\* blanks at its ends and no backslash at its end.  A full-width space is read
\* as a space.
Storable(s) ==
    LET has(c) == \E i \in DOMAIN s : s[i] = c
        marks(m) == Cardinality({i \in DOMAIN s : IsAt(s, m, i)})
        comments == Max({marks(<<"#">>), marks(<<"/", "/">>)})
    IN IF has("fw") THEN FALSE
       ELSE IF has("\"") \/ has("'") THEN ~(has("\"") /\ has("'")) /\ comments <= 1
       ELSE comments = 0 /\ Strip(s, Blank, "b") = s /\ (s # <<>> => Last(s) # "\\")

\* What mkconf writes sets every flag that is shown to the value it had.
ConfigLaw(s, n) ==
    LET flag(t, v, lv, line) == [type |-> t, value |-> v, lv |-> lv, file |-> 1, line |-> line, help |-> <<"h", "\n", "x">>]
        flags(v, b, i) == (<<"s">> :> flag("string", v, 10, 2)) @@ (<<"b">> :> flag("bool", b, 10, 1))
                          @@ (<<"i">> :> flag("int64", i, 9, 7)) @@ (<<"h">> :> [flag("int32", 0, 0, 9) EXCEPT !.help = <<>>])
        law(f) == ParseConfig(Mkconf(f), flags(<<>>, FALSE, 0)) = f
    IN Storable(s) => law(flags(s, TRUE, n))

\* The ways to give a flag its value on the command line mean the same; they
\* win over the config file.
ArgsLaw(v, config) ==
    LET flags(j, x) == (<<"j">> :> [type |-> "string", value |-> j]) @@ (<<"x">> :> [type |-> "bool", value |-> x])
        plain == /\ Find(v, <<"=">>, 1) = 0
                 /\ v # <<>> /\ v[1] = "-" => Len(v) = 1 \/ v[2] \in CharsOf(0..9)
        digit == plain /\ v # <<>> /\ v[1] \in CharsOf(0..9)
        ways == {<<<<"-", "j", "=">> \o v>>, <<<<"j", "=">> \o v>>}
                \cup (IF plain THEN {<<<<"-", "j">>, v>>} ELSE {}) \cup (IF digit THEN {<<<<"-", "j">> \o v>>} ELSE {})
    IN \A args \in ways, x \in BOOLEAN :
          ParseCommandLine((IF x THEN <<<<"-", "x">>>> ELSE <<>>) \o args, config, flags(<<>>, FALSE)) = flags(v, x)
=============================================================================
