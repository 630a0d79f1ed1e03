------------------------------- MODULE MCText -------------------------------
(***************************************************************************)
(* The texts and the numbers over which TLC checks the laws of the pure    *)
(* functions: each behaviour builds one text, character by character.      *)
(***************************************************************************)
EXTENDS Numbers

J == INSTANCE JsonText
H == INSTANCE HttpText
F == INSTANCE FlagText
B == INSTANCE Base64

VARIABLES kind, s

Q == "\""
Alphabet ==
    [words |-> {"a", "b", "*", "?"}, path |-> {"/", ".", "a"}, format |-> {"%", "d", "l", "f", "x"},
     number |-> {"-", "0", "1", "2", "7", "8", "x", "k"}, count |-> {"0", "3", "7", "9"},
     json |-> {"{", "}", "[", "]", Q, ",", ":", "1"}, list |-> {Q, "\\", "n", "1", ".", "-", " ", "]", "null"},
     string |-> {Q, "\\", "\n", "bs", "a", "/"}, start |-> {"GET", "get", " ", "/", "HTTP/1.1", "\n"},
     header |-> {"\r", "\n", ":", " ", "1", "Content-Length"}, body |-> {"x"},
     conf |-> {Q, "'", "#", "/", "=", " ", "fw", "\\", "a"}, args |-> {"-", "=", "4", "j", " "},
     bytes |-> {0, 77, 255}]
MaxLen ==
    [words |-> 6, path |-> 8, format |-> 6, number |-> 4, count |-> 5, json |-> 6, list |-> 4, string |-> 4,
     start |-> 6, header |-> 6, body |-> 21, conf |-> 4, args |-> 4, bytes |-> 7]

textVars == <<kind, s>>
TextInit == kind \in DOMAIN Alphabet /\ s = <<>>
TextNext == Len(s) < MaxLen[kind] /\ \E c \in Alphabet[kind] : s' = Append(s, c) /\ kind' = kind
TextSpec == TextInit /\ [][TextNext]_textVars

\* The ways to take a part of s as a text and the rest as a pattern.
Matches(P(_, _)) ==
    \A i \in 0..Len(s) : P(SelectSeq(Upto(s, i), LAMBDA c : c \in {"a", "b"}), From(s, i + 1))

----------------------------------------------------------------------------

\* Digits written in groups are those of the number and are read as it; a
\* number with a unit is read as its multiple or refused by the signed
\* conversions, and by the unsigned ones if the multiple fits, for else it may
\* wrap (str.cc:312); a stale errno makes no difference but at the
\* limits.  A flag is written with a unit from which it can be read (fast.cc,
\* str.cc, flag.cc, json.cc).  Schedulers are chosen evenly over a whole turn of
\* the counter (scheduler.h); poll waits at least its timeout, by less than
\* 17 ms more, where that is no multiple of 17 ms, of which nothing is said
\* (hook.cc); the time of a log is the time, whenever it was last updated, and
\* rotation keeps the order of the files and loses the oldest only (log.cc).
NumberLaw ==
    /\ kind = "number" => ParseNumberLaw(s)
    /\ kind = "count" /\ s # <<>> => LET n == Number(s, 10) IN CountLaw(n) /\ ClockLaw(n)
    /\ kind = "count" /\ s = <<>> => NextSchedLaw(4) /\ RotateLaw(3)

\* What is written and read again is the same: Json values, strings and
\* characters (json.cc), requests and responses (http.cc), flags in a config
\* file and on the command line (flag.cc), base64 (base64.cc).  The exceptions
\* are part of the laws: a key of a Json object with a quote in it does not come
\* back, nor does the empty text from base64; of a flag whose text is not
\* Storable (comment signs, both kinds of quotes, blanks at the ends, full-width
\* spaces) nothing is said.  A Json text cut off anywhere, in an escape too, is
\* refused, whatever stands behind it.
RoundTripLaw ==
    /\ kind \in {"json", "list"} => J!JsonLaw(IF kind = "json" THEN s ELSE <<"[">> \o s \o <<"]">>)
    /\ kind = "string" => J!StringLaw(s)
    /\ kind = "string" /\ s = <<>> =>
          \A v \in {1, 127, 128, 2047, 2048, 55295, 57344, 65535, 65536, 1114111} : J!UnicodeLaw(v)
    /\ kind \in {"start", "header"} =>
          H!HeaderLaw(IF kind = "start" THEN s ELSE <<"GET", " ", "/", " ", "HTTP/1.0">> \o s)
    /\ kind = "body" => H!HttpLaw(<<"/", "x">>, s)
    /\ kind = "conf" => \A n \in {0, 17, 24, 64, -512} : F!ConfigLaw(s, n)
    /\ kind = "args" => \A config \in {<<>>, <<"j", "=", "c">>} : F!ArgsLaw(s, config)
    /\ kind = "bytes" => B!Base64Law(s)

=============================================================================
