---------------------------- MODULE Logger_proof ----------------------------
(***************************************************************************)
(* Proofs about Logger, for any number of threads and logs and any size of *)
(* the buffer: logs are written in order, once, and none is lost, and who  *)
(* stopped the logger has written all that was pushed before.  Proofs      *)
(* about the strings it writes them into, Fastring, for any number of      *)
(* strings and any sizes: they hold what std::string would.                *)
(***************************************************************************)
EXTENDS Logger, Fastring, FiniteSetTheorems, SequenceTheorems, WellFoundedInduction, TLAPS

TypeInv ==
    /\ fs \in Seq(Nat) /\ local \in Seq(Nat) /\ file \in Seq(Nat)
    /\ stop \in 0..2
    /\ app \in [Apps -> AppPc]
    /\ pushed \in Nat /\ before \in Nat
    /\ stopper \in Apps \cup {Handler, Nobody}
    /\ returned \subseteq Apps
    /\ raced \in BOOLEAN

\* Who stopped the logger, and how far that has come.  The local buffer holds
\* something only between the swap and the write.
StopInv ==
    /\ th # "write" => local = <<>>
    /\ stop = 0 <=> stopper = Nobody
    /\ th = "last" => stop # 0
    /\ th = "end" <=> stop = 2
    /\ handler \in {"spin", "write", "clear"} => stopper = Handler
    /\ handler \in {"write", "clear"} => stop = 2
    /\ stopper = Handler => handler # "none"
    /\ \A a \in Apps : app[a] \in {"signal", "join", "flush"} => stopper = a
    /\ \A a \in Apps : app[a] = "flush" => th = "end"
    /\ stopper \in Apps => stopper \in returned \/ app[stopper] \in {"signal", "join", "flush"}
    /\ raced => stopper = Handler

\* What a sequence of logs, and two of them, look like when they are in order.
Increasing(q) == \A i, j \in 1..Len(q) : i < j => q[i] < q[j]
Below(q, r) == \A i \in 1..Len(q), j \in 1..Len(r) : q[i] < r[j]
UpTo(q, n) == \A i \in 1..Len(q) : q[i] <= n

\* Between the write and the clear of safe_stop the buffer holds logs that are
\* already in the file.
OrderInv ==
    /\ Increasing(file) /\ Increasing(local) /\ Increasing(fs)
    /\ UpTo(file, pushed) /\ UpTo(local, pushed) /\ UpTo(fs, pushed)
    /\ Below(file, local) /\ Below(local, fs)
    /\ handler # "clear" => Below(file, fs)

Due == 1..(IF stop = 0 THEN pushed ELSE before)

KeptInv ==
    /\ handler # "clear" /\ ~raced => Due \subseteq ToSet(file) \cup ToSet(local) \cup ToSet(fs) \cup dropped
    /\ \/ stopper \in returned
       \/ stopper = Handler /\ handler \in {"clear", "dead"} /\ ~raced
       => 1..before \subseteq ToSet(file) \cup dropped

Inv == TypeInv /\ StopInv /\ OrderInv /\ KeptInv

-----------------------------------------------------------------------------
(* Sequences of numbers in order. *)

\* One after the other, if all of the first are below the second.
LEMMA Concat ==
    ASSUME NEW q \in Seq(Nat), NEW r \in Seq(Nat)
    PROVE  /\ q \o r \in Seq(Nat) /\ ToSet(q \o r) = ToSet(q) \cup ToSet(r)
           /\ Increasing(q) /\ Increasing(r) /\ Below(q, r) => Increasing(q \o r)
           /\ \A n \in Nat : UpTo(q, n) /\ UpTo(r, n) => UpTo(q \o r, n)
           /\ \A t \in Seq(Nat) : Below(q, t) /\ Below(r, t) => Below(q \o r, t)
  <1> DEFINE w == q \o r
  <1>1. /\ w \in Seq(Nat) /\ Len(q) \in Nat /\ Len(r) \in Nat /\ Len(w) = Len(q) + Len(r)
        /\ \A i \in 1..Len(q) : w[i] = q[i]
        /\ \A i \in 1..Len(r) : w[Len(q) + i] = r[i]
    OBVIOUS
  <1> HIDE DEF w
  <1>2. \A i \in 1..Len(w) : \/ i \in 1..Len(q) /\ w[i] = q[i]
                             \/ i - Len(q) \in 1..Len(r) /\ i > Len(q) /\ w[i] = r[i - Len(q)]
    <2> SUFFICES ASSUME NEW i \in 1..Len(w), ~(i \in 1..Len(q))
                 PROVE  i - Len(q) \in 1..Len(r) /\ i > Len(q) /\ w[i] = r[i - Len(q)]
      BY <1>1
    <2>1. i > Len(q) /\ i - Len(q) \in 1..Len(r) /\ Len(q) + (i - Len(q)) = i
      BY <1>1
    <2> QED
      BY <1>1, <2>1
  <1>3. ToSet(w) = ToSet(q) \cup ToSet(r)
    <2>1. DOMAIN w = 1..Len(w) /\ DOMAIN q = 1..Len(q) /\ DOMAIN r = 1..Len(r)
      BY <1>1
    <2>2. \A x \in ToSet(w) : x \in ToSet(q) \cup ToSet(r)
      BY <1>2, <2>1 DEF ToSet
    <2>3. \A x \in ToSet(q) : x \in ToSet(w)
      BY <1>1, <2>1 DEF ToSet
    <2>4. ASSUME NEW x \in ToSet(r) PROVE x \in ToSet(w)
      <3>1. PICK i \in 1..Len(r) : x = r[i]
        BY <2>1 DEF ToSet
      <3>2. Len(q) + i \in 1..Len(w) /\ w[Len(q) + i] = x
        BY <1>1, <3>1
      <3> QED
        BY <2>1, <3>2 DEF ToSet
    <2> QED
      BY <2>2, <2>3, <2>4
  <1>4. ASSUME Increasing(q), Increasing(r), Below(q, r) PROVE Increasing(w)
    <2> SUFFICES ASSUME NEW i \in 1..Len(w), NEW j \in 1..Len(w), i < j PROVE w[i] < w[j]
      BY DEF Increasing
    <2>1. CASE i \in 1..Len(q) /\ j \in 1..Len(q)
      BY <1>1, <1>4, <2>1 DEF Increasing
    <2>2. CASE i \in 1..Len(q) /\ j \notin 1..Len(q)
      <3>1. j - Len(q) \in 1..Len(r) /\ w[j] = r[j - Len(q)] /\ w[i] = q[i]
        BY <1>1, <1>2, <2>2
      <3> QED
        BY <1>4, <2>2, <3>1 DEF Below
    <2>3. CASE i \notin 1..Len(q)
      <3>1. /\ i - Len(q) \in 1..Len(r) /\ w[i] = r[i - Len(q)] /\ j \notin 1..Len(q)
            /\ j - Len(q) \in 1..Len(r) /\ w[j] = r[j - Len(q)]
        BY <1>1, <1>2, <2>3, SMTT(30)
      <3>2. i - Len(q) < j - Len(q)
        BY <1>1
      <3> QED
        BY <1>4, <3>1, <3>2 DEF Increasing
    <2> QED
      BY <2>1, <2>2, <2>3
  <1>5. \A n \in Nat : UpTo(q, n) /\ UpTo(r, n) => UpTo(w, n)
    BY <1>2 DEF UpTo
  <1>6. \A t \in Seq(Nat) : Below(q, t) /\ Below(r, t) => Below(w, t)
    BY <1>2 DEF Below
  <1> QED
    BY <1>1, <1>3, <1>4, <1>5, <1>6 DEF w

\* A part of a sequence is in order if the whole is.
LEMMA Part ==
    ASSUME NEW q \in Seq(Nat), NEW m \in Nat \ {0}, NEW n \in Nat, n <= Len(q)
    PROVE  LET r == SubSeq(q, m, n)
           IN  /\ r \in Seq(Nat) /\ ToSet(r) \subseteq ToSet(q)
               /\ Increasing(q) => Increasing(r)
               /\ \A k \in Nat : UpTo(q, k) => UpTo(r, k)
               /\ \A t \in Seq(Nat) : Below(t, q) => Below(t, r)
  <1> DEFINE r == SubSeq(q, m, n)
  <1>1. /\ r \in Seq(Nat) /\ Len(r) \in Nat /\ Len(q) \in Nat
        /\ \A i \in 1..Len(r) : i + m - 1 \in 1..Len(q) /\ r[i] = q[i + m - 1]
    OBVIOUS
  <1> HIDE DEF r
  <1>2. ToSet(r) \subseteq ToSet(q)
    <2>1. DOMAIN r = 1..Len(r) /\ DOMAIN q = 1..Len(q)
      BY <1>1
    <2> QED
      BY <1>1, <2>1 DEF ToSet
  <1>3. Increasing(q) => Increasing(r)
    <2> SUFFICES ASSUME Increasing(q), NEW i \in 1..Len(r), NEW j \in 1..Len(r), i < j PROVE r[i] < r[j]
      BY DEF Increasing
    <2>1. i + m - 1 < j + m - 1 /\ i + m - 1 \in 1..Len(q) /\ j + m - 1 \in 1..Len(q)
      BY <1>1
    <2> QED
      BY <1>1, <2>1 DEF Increasing
  <1>4. \A k \in Nat : UpTo(q, k) => UpTo(r, k)
    BY <1>1 DEF UpTo
  <1>5. \A t \in Seq(Nat) : Below(t, q) => Below(t, r)
    BY <1>1 DEF Below
  <1> QED
    BY <1>1, <1>2, <1>3, <1>4, <1>5 DEF r

\* A new log has a greater number than all before it.
LEMMA Newest ==
    ASSUME NEW q \in Seq(Nat), NEW n \in Nat, UpTo(q, n)
    PROVE  LET r == Append(q, n + 1)
           IN  /\ r \in Seq(Nat) /\ ToSet(r) = ToSet(q) \cup {n + 1}
               /\ Increasing(q) => Increasing(r)
               /\ UpTo(q, n + 1) /\ UpTo(r, n + 1)
               /\ \A t \in Seq(Nat) : UpTo(t, n) /\ Below(t, q) => Below(t, r)
  <1> DEFINE r == Append(q, n + 1)
  <1>1. /\ r \in Seq(Nat) /\ Len(q) \in Nat /\ Len(r) = Len(q) + 1 /\ r[Len(q) + 1] = n + 1
        /\ \A i \in 1..Len(q) : r[i] = q[i]
    OBVIOUS
  <1> HIDE DEF r
  <1>2. \A i \in 1..Len(r) : (i \in 1..Len(q) /\ r[i] = q[i]) \/ (i = Len(q) + 1 /\ r[i] = n + 1)
    BY <1>1
  <1>3. ToSet(r) = ToSet(q) \cup {n + 1}
    <2>1. DOMAIN r = 1..Len(r) /\ DOMAIN q = 1..Len(q) /\ Len(q) + 1 \in 1..Len(r)
      BY <1>1
    <2> QED
      BY <1>1, <1>2, <2>1 DEF ToSet
  <1>4. \A i \in 1..Len(q) : q[i] \in Nat /\ q[i] <= n
    BY DEF UpTo
  <1>5. UpTo(q, n + 1) /\ UpTo(r, n + 1)
    BY <1>2, <1>4, SMTT(30) DEF UpTo
  <1>6. ASSUME Increasing(q), NEW i \in 1..Len(r), NEW j \in 1..Len(r), i < j PROVE r[i] < r[j]
    <2>1. i \in 1..Len(q) /\ r[i] = q[i]
      BY <1>1, <1>2, <1>6
    <2>2. CASE j \in 1..Len(q)
      BY <1>1, <1>6, <2>1, <2>2 DEF Increasing
    <2>3. CASE j \notin 1..Len(q)
      BY <1>2, <1>4, <2>1, <2>3
    <2> QED
      BY <2>2, <2>3
  <1>7. ASSUME NEW t \in Seq(Nat), UpTo(t, n), Below(t, q) PROVE Below(t, r)
    <2>1. \A i \in 1..Len(t) : t[i] \in Nat /\ t[i] < n + 1
      BY <1>7 DEF UpTo
    <2> QED
      BY <1>2, <1>7, <2>1 DEF Below
  <1> QED
    BY <1>1, <1>3, <1>5, <1>6, <1>7 DEF r, Increasing

\* The empty buffer.
LEMMA Empty ==
    /\ <<>> \in Seq(Nat) /\ ToSet(<<>>) = {} /\ Increasing(<<>>) /\ \A n : UpTo(<<>>, n)
    /\ \A t : Below(t, <<>>) /\ Below(<<>>, t)
  BY DEF ToSet, Increasing, UpTo, Below

\* The names of the threads differ from those of nobody and the handler.
LEMMA Names == Closers \subseteq Apps /\ Nobody \notin Apps /\ Handler \notin Apps /\ Nobody # Handler
  BY LogAssumption DEF Nobody, Handler

-----------------------------------------------------------------------------
(* Every step keeps the invariant. *)

\* At the start there are no logs and nobody has stopped the logger.
LEMMA InitInv == Init => Inv
  <1> SUFFICES ASSUME Init PROVE Inv
    OBVIOUS
  <1>1. TypeInv
    <2>1. app \in [Apps -> AppPc] /\ fs \in Seq(Nat) /\ local \in Seq(Nat) /\ file \in Seq(Nat)
      BY Empty DEF Init, AppPc
    <2>2. stop \in 0..2 /\ pushed \in Nat /\ before \in Nat
      BY DEF Init
    <2>3. stopper \in Apps \cup {Handler, Nobody} /\ returned \subseteq Apps /\ raced \in BOOLEAN
      BY DEF Init
    <2> QED
      BY <2>1, <2>2, <2>3 DEF TypeInv
  <1>2. StopInv
    BY Names DEF Init, StopInv
  <1>3. OrderInv
    BY Empty DEF Init, OrderInv
  <1>4. KeptInv
    <2>1. Due = {}
      BY DEF Init, Due
    <2> QED
      BY <2>1, Names DEF Init, KeptInv
  <1> QED
    BY <1>1, <1>2, <1>3, <1>4 DEF Inv

\* The steps that leave the buffers alone and do not stop the logger.
LEMMA QuietInv ==
    ASSUME Inv, TypeInv', StopInv',
           UNCHANGED <<fs, local, file, pushed, dropped, stopper, raced, before>>,
           stop' = 0 <=> stop = 0,
           returned' = returned \/ stopper \notin returned',
           handler' = handler \/ (handler' # "clear" /\ handler # "clear" /\ (handler' = "dead" => stopper # Handler))
    PROVE  Inv'
  <1>1. OrderInv'
    BY DEF Inv, OrderInv
  <1>2. Due' = Due
    BY DEF Due
  <1>3. KeptInv'
    BY <1>2 DEF Inv, KeptInv
  <1> QED
    BY <1>1, <1>3 DEF Inv

\* A thread takes _log_mutex.
LEMMA PushLockInv == ASSUME Inv, NEW a \in Apps, PushLock(a) PROVE Inv'
  <1>0. /\ app[a] = "idle" /\ app' = [app EXCEPT ![a] = "push"]
        /\ UNCHANGED <<fs, local, file, stop, th, handler, pushed, dropped, before, stopper, returned, raced>>
    BY DEF PushLock, bufVars, logVars, auxVars
  <1>1. app' \in [Apps -> AppPc] /\ app'[a] = "push" /\ \A b \in Apps : b # a => app'[b] = app[b]
    BY <1>0 DEF Inv, TypeInv, AppPc
  <1>2. TypeInv'
    BY <1>0, <1>1 DEF Inv, TypeInv
  <1>3. StopInv'
    BY <1>0, <1>1 DEF Inv, StopInv
  <1> QED
    BY <1>0, <1>2, <1>3, QuietInv

\* The log goes behind those that are left in the buffer.
LEMMA PushInv == ASSUME Inv, NEW a \in Apps, Push(a) PROVE Inv'
  <1> DEFINE r == Room(fs)
  <1>0. /\ app[a] = "push" /\ app' = [app EXCEPT ![a] = "idle"] /\ handler # "dead"
        /\ fs' = Append(r, pushed + 1) /\ pushed' = pushed + 1 /\ dropped' = dropped \cup (ToSet(fs) \ ToSet(r))
        /\ UNCHANGED <<local, file, stop, th, handler, before, stopper, returned, raced>>
    BY DEF Push, Runs, auxVars
  <1>1. fs \in Seq(Nat) /\ local \in Seq(Nat) /\ file \in Seq(Nat) /\ pushed \in Nat /\ pushed + 1 \in Nat
    BY DEF Inv, TypeInv
  <1>2. app' \in [Apps -> AppPc] /\ app'[a] = "idle" /\ \A b \in Apps : b # a => app'[b] = app[b]
    BY <1>0 DEF Inv, TypeInv, AppPc
  <1>3. /\ r \in Seq(Nat) /\ ToSet(r) \subseteq ToSet(fs) /\ Increasing(r) /\ UpTo(r, pushed)
        /\ \A t \in Seq(Nat) : Below(t, fs) => Below(t, r)
    <2>1. Increasing(fs) /\ UpTo(fs, pushed)
      BY DEF Inv, OrderInv
    <2>2. CASE Len(fs) >= MaxBuf
      <3>1. r = SubSeq(fs, Len(fs) \div 2 + 2, Len(fs)) /\ Len(fs) \in Nat /\ Len(fs) \div 2 + 2 \in Nat \ {0}
        BY <1>1, <2>2 DEF Room
      <3> QED
        BY <1>1, <2>1, <3>1, Part
    <2>3. CASE ~(Len(fs) >= MaxBuf)
      BY <1>1, <2>1, <2>3 DEF Room
    <2> QED
      BY <2>2, <2>3
  <1> HIDE DEF r
  <1>4. /\ fs' \in Seq(Nat) /\ ToSet(fs') = ToSet(r) \cup {pushed + 1} /\ Increasing(fs') /\ UpTo(fs', pushed + 1)
        /\ \A t \in Seq(Nat) : UpTo(t, pushed) /\ Below(t, r) => Below(t, fs')
    BY <1>0, <1>1, <1>3, Newest
  <1>5. TypeInv'
    BY <1>0, <1>1, <1>2, <1>4 DEF Inv, TypeInv
  <1>6. StopInv'
    BY <1>0, <1>2 DEF Inv, StopInv
  <1>7. OrderInv'
    <2>1. UpTo(file, pushed) /\ UpTo(local, pushed) /\ Below(local, fs) /\ (handler # "clear" => Below(file, fs))
      BY DEF Inv, OrderInv
    <2>2. UpTo(file, pushed + 1) /\ UpTo(local, pushed + 1)
      BY <1>1, <2>1, Newest
    <2>3. Below(local, fs') /\ (handler # "clear" => Below(file, fs'))
      BY <1>1, <1>3, <1>4, <2>1
    <2> QED
      BY <1>0, <1>4, <2>2, <2>3 DEF Inv, OrderInv
  <1>8. KeptInv'
    <2>1. Due' \subseteq Due \cup {pushed + 1}
      BY <1>0, <1>1 DEF Due
    <2>2. ToSet(fs) \cup dropped \cup {pushed + 1} \subseteq ToSet(fs') \cup dropped'
      BY <1>0, <1>4
    <2>3. dropped \subseteq dropped'
      BY <1>0
    <2>4. ASSUME handler # "clear", ~raced
          PROVE  Due' \subseteq ToSet(file) \cup ToSet(local) \cup ToSet(fs') \cup dropped'
      <3>1. Due \subseteq ToSet(file) \cup ToSet(local) \cup ToSet(fs) \cup dropped
        BY <2>4 DEF Inv, KeptInv
      <3> QED
        BY <2>1, <2>2, <3>1
    <2>5. ASSUME stopper \in returned \/ (stopper = Handler /\ handler \in {"clear", "dead"} /\ ~raced)
          PROVE  1..before \subseteq ToSet(file) \cup dropped'
      BY <2>3, <2>5 DEF Inv, KeptInv
    <2> QED
      BY <1>0, <2>4, <2>5 DEF KeptInv
  <1> QED
    BY <1>5, <1>6, <1>7, <1>8 DEF Inv

\* thread_fun, but for the swap and the write.
LEMMA ThreadInv == ASSUME Inv, ThreadHead \/ ThreadWait \/ ThreadCheck \/ ThreadLast PROVE Inv'
  <1>0. UNCHANGED <<fs, local, file, app, handler, pushed, dropped, before, stopper, returned, raced>>
    BY DEF ThreadHead, ThreadWait, ThreadCheck, ThreadLast, bufVars, logVars, auxVars
  <1>1. \/ th = "head" /\ th' = (IF stop # 0 THEN "last" ELSE "wait") /\ stop' = stop
        \/ th \in {"wait", "block"} /\ th' \in {"block", "check"} /\ stop' = stop
        \/ th = "check" /\ th' = (IF stop # 0 THEN "last" ELSE "swap") /\ stop' = stop
        \/ th = "last" /\ th' = "end" /\ stop' = 2
    BY DEF ThreadHead, ThreadWait, ThreadCheck, ThreadLast
  <1>2. th # "end" /\ th # "write" /\ stop # 2
    BY <1>1 DEF Inv, StopInv
  <1>3. TypeInv'
    BY <1>0, <1>1 DEF Inv, TypeInv
  <1>4. StopInv'
    BY <1>0, <1>1, <1>2 DEF Inv, StopInv
  <1>5. stop' = 0 <=> stop = 0
    BY <1>1 DEF Inv, StopInv
  <1> QED
    BY <1>0, <1>3, <1>4, <1>5, QuietInv

\* The buffers change places, the local one is empty.
LEMMA ThreadSwapInv == ASSUME Inv, ThreadSwap PROVE Inv'
  <1>0. /\ th = "swap" /\ th' = "write"
        /\ UNCHANGED <<file, stop, app, handler, pushed, dropped, before, stopper, returned, raced>>
    BY DEF ThreadSwap, logVars, auxVars
  <1>1. local = <<>> /\ handler # "clear"
    BY <1>0 DEF Inv, StopInv
  <1>2. local' = fs /\ fs' = <<>>
    BY <1>1 DEF ThreadSwap
  <1>3. TypeInv'
    BY <1>0, <1>2, Empty DEF Inv, TypeInv
  <1>4. StopInv'
    BY <1>0, <1>1 DEF Inv, StopInv
  <1>5. OrderInv'
    BY <1>0, <1>1, <1>2, Empty DEF Inv, OrderInv
  <1>6. KeptInv'
    <2>1. Due' = Due
      BY <1>0 DEF Due
    <2>2. ToSet(local') \cup ToSet(fs') = ToSet(local) \cup ToSet(fs)
      BY <1>1, <1>2, Empty
    <2> QED
      BY <1>0, <2>1, <2>2 DEF Inv, KeptInv
  <1> QED
    BY <1>3, <1>4, <1>5, <1>6 DEF Inv

\* The logging thread writes the local buffer.
LEMMA ThreadWriteInv == ASSUME Inv, ThreadWrite PROVE Inv'
  <1>0. /\ th = "write" /\ th' = "head" /\ file' = file \o local /\ local' = <<>>
        /\ UNCHANGED <<fs, stop, app, handler, pushed, dropped, before, stopper, returned, raced>>
    BY DEF ThreadWrite, logVars, auxVars
  <1>1. fs \in Seq(Nat) /\ local \in Seq(Nat) /\ file \in Seq(Nat) /\ pushed \in Nat
    BY DEF Inv, TypeInv
  <1>2. /\ Increasing(file) /\ Increasing(local) /\ UpTo(file, pushed) /\ UpTo(local, pushed)
        /\ Below(file, local) /\ Below(local, fs) /\ Increasing(fs) /\ UpTo(fs, pushed)
        /\ handler # "clear" => Below(file, fs)
    BY DEF Inv, OrderInv
  <1>3. /\ file' \in Seq(Nat) /\ ToSet(file') = ToSet(file) \cup ToSet(local)
        /\ Increasing(file') /\ UpTo(file', pushed) /\ (handler # "clear" => Below(file', fs))
    BY <1>0, <1>1, <1>2, Concat
  <1>4. TypeInv'
    BY <1>0, <1>3, Empty DEF Inv, TypeInv
  <1>5. StopInv'
    BY <1>0 DEF Inv, StopInv
  <1>6. OrderInv'
    BY <1>0, <1>2, <1>3, Empty DEF OrderInv
  <1>7. KeptInv'
    <2>1. Due' = Due
      BY <1>0 DEF Due
    <2>2. ToSet(file') \cup ToSet(local') = ToSet(file) \cup ToSet(local) /\ ToSet(file) \subseteq ToSet(file')
      BY <1>0, <1>3, Empty
    <2>3. /\ handler # "clear" /\ ~raced => Due \subseteq ToSet(file) \cup ToSet(local) \cup ToSet(fs) \cup dropped
          /\ (stopper \in returned \/ (stopper = Handler /\ handler \in {"clear", "dead"} /\ ~raced))
                => 1..before \subseteq ToSet(file) \cup dropped
      BY DEF Inv, KeptInv
    <2> QED
      BY <1>0, <2>1, <2>2, <2>3 DEF KeptInv
  <1> QED
    BY <1>4, <1>5, <1>6, <1>7 DEF Inv

\* close(): the first caller stops the logger, another returns.
LEMMA StopCasInv == ASSUME Inv, NEW a \in Apps, StopCas(a) PROVE Inv'
  <1>0. /\ a \notin returned /\ app[a] = "idle"
        /\ UNCHANGED <<fs, local, file, th, handler, pushed, dropped, raced>>
    BY DEF StopCas, bufVars, logVars
  <1>1. app \in [Apps -> AppPc] /\ pushed \in Nat
    BY DEF Inv, TypeInv
  <1>2. CASE stop # 0
    <2>0. returned' = returned \cup {a} /\ UNCHANGED <<stop, before, stopper, app>>
      BY <1>2 DEF StopCas
    <2>1. stopper # a
      BY <1>0 DEF Inv, StopInv
    <2>2. TypeInv'
      BY <1>0, <2>0 DEF Inv, TypeInv
    <2>3. StopInv'
      BY <1>0, <2>0 DEF Inv, StopInv
    <2>4. OrderInv'
      BY <1>0, <2>0 DEF Inv, OrderInv
    <2>5. KeptInv'
      BY <1>0, <2>0, <2>1 DEF Inv, KeptInv, Due
    <2> QED
      BY <2>2, <2>3, <2>4, <2>5 DEF Inv
  <1>3. CASE stop = 0
    <2>0. /\ stop' = 1 /\ before' = pushed /\ stopper' = a /\ app' = [app EXCEPT ![a] = "signal"] /\ UNCHANGED returned
      BY <1>3 DEF StopCas
    <2>1. app' \in [Apps -> AppPc] /\ app'[a] = "signal" /\ \A b \in Apps : b # a => app'[b] = app[b]
      BY <1>1, <2>0 DEF AppPc
    <2>2. stopper = Nobody /\ ~raced /\ handler \notin {"spin", "write", "clear"} /\ a # Handler /\ a # Nobody
      BY <1>3, Names DEF Inv, StopInv
    <2>3. TypeInv'
      BY <1>0, <1>1, <2>0, <2>1 DEF Inv, TypeInv
    <2>4. StopInv'
      <3>1. \A b \in Apps : app[b] \notin {"signal", "join", "flush"}
        BY <2>2, Names DEF Inv, StopInv
      <3> QED
        BY <1>0, <1>3, <2>0, <2>1, <2>2, <3>1 DEF Inv, StopInv
    <2>5. OrderInv'
      BY <1>0 DEF Inv, OrderInv
    <2>6. KeptInv'
      <3>1. Due' = Due
        BY <1>3, <2>0 DEF Due
      <3> QED
        BY <1>0, <2>0, <2>2, <3>1 DEF Inv, KeptInv
    <2> QED
      BY <2>3, <2>4, <2>5, <2>6 DEF Inv
  <1> QED
    BY <1>2, <1>3

\* It signals the logging thread and waits for its end.
LEMMA StopGoesInv == ASSUME Inv, NEW a \in Apps, StopSignal(a) \/ StopJoin(a) PROVE Inv'
  <1>0. /\ UNCHANGED <<fs, local, file, stop, th, handler, pushed, dropped, before, stopper, returned, raced>>
        /\ \/ app[a] = "signal" /\ app' = [app EXCEPT ![a] = "join"]
           \/ app[a] = "join" /\ th = "end" /\ app' = [app EXCEPT ![a] = "flush"]
    BY DEF StopSignal, StopJoin, bufVars, logVars, auxVars
  <1>1. /\ app' \in [Apps -> AppPc] /\ (\A b \in Apps : b # a => app'[b] = app[b])
        /\ app'[a] = "join" \/ (app'[a] = "flush" /\ th = "end")
    BY <1>0 DEF Inv, TypeInv, AppPc
  <1>2. TypeInv'
    BY <1>0, <1>1 DEF Inv, TypeInv
  <1>3. StopInv'
    BY <1>0, <1>1 DEF Inv, StopInv
  <1> QED
    BY <1>0, <1>2, <1>3, QuietInv

\* It writes what is left.
LEMMA StopFlushInv == ASSUME Inv, NEW a \in Apps, StopFlush(a) PROVE Inv'
  <1>0. /\ app[a] = "flush" /\ file' = file \o fs /\ fs' = <<>> /\ app' = [app EXCEPT ![a] = "idle"]
        /\ returned' = returned \cup {a}
        /\ UNCHANGED <<local, stop, th, handler, pushed, dropped, before, stopper, raced>>
    BY DEF StopFlush, logVars
  <1>1. fs \in Seq(Nat) /\ local \in Seq(Nat) /\ file \in Seq(Nat) /\ pushed \in Nat
    BY DEF Inv, TypeInv
  <1>2. stopper = a /\ th = "end" /\ local = <<>> /\ ~raced /\ handler # "clear" /\ stop # 0
    BY <1>0, Names DEF Inv, StopInv
  <1>3. /\ file' \in Seq(Nat) /\ ToSet(file') = ToSet(file) \cup ToSet(fs) /\ Increasing(file') /\ UpTo(file', pushed)
    BY <1>0, <1>1, <1>2, Concat DEF Inv, OrderInv
  <1>4. app' \in [Apps -> AppPc] /\ app'[a] = "idle" /\ \A b \in Apps : b # a => app'[b] = app[b]
    BY <1>0 DEF Inv, TypeInv, AppPc
  <1>5. TypeInv'
    BY <1>0, <1>3, <1>4, Empty DEF Inv, TypeInv
  <1>6. StopInv'
    BY <1>0, <1>2, <1>4 DEF Inv, StopInv
  <1>7. OrderInv'
    BY <1>0, <1>2, <1>3, Empty DEF OrderInv
  <1>8. KeptInv'
    <2>1. 1..before \subseteq ToSet(file) \cup ToSet(local) \cup ToSet(fs) \cup dropped
      BY <1>2 DEF Inv, KeptInv, Due
    <2>2. 1..before \subseteq ToSet(file') \cup dropped
      BY <1>2, <1>3, <2>1, Empty
    <2>3. Due' = 1..before
      BY <1>0, <1>2 DEF Due
    <2> QED
      BY <1>0, <2>2, <2>3 DEF KeptInv
  <1> QED
    BY <1>5, <1>6, <1>7, <1>8 DEF Inv

\* A signal comes: safe_stop begins, or the process dies.
LEMMA OnSignalInv == ASSUME Inv, NEW t, OnSignal(t) PROVE Inv'
  <1>0. /\ handler = "none" /\ UNCHANGED <<fs, local, file, th, app, pushed, dropped, returned, raced>>
    BY DEF OnSignal, bufVars, logVars
  <1>1. stopper # Handler /\ ~raced
    BY <1>0 DEF Inv, StopInv
  <1>2. CASE stop # 0
    <2>0. handler' = "dead" /\ UNCHANGED <<stop, before, stopper>>
      BY <1>2 DEF OnSignal
    <2>1. TypeInv' /\ StopInv'
      BY <1>0, <1>1, <2>0 DEF Inv, TypeInv, StopInv
    <2> QED
      BY <1>0, <1>1, <2>0, <2>1, QuietInv
  <1>3. CASE stop = 0
    <2>0. stop' = 1 /\ before' = pushed /\ stopper' = Handler /\ handler' = "spin"
      BY <1>3 DEF OnSignal
    <2>1. stopper = Nobody /\ \A b \in Apps : app[b] \notin {"signal", "join", "flush"}
      BY <1>3, Names DEF Inv, StopInv
    <2>2. TypeInv'
      BY <1>0, <2>0 DEF Inv, TypeInv
    <2>3. StopInv'
      BY <1>0, <1>1, <1>3, <2>0, <2>1, Names DEF Inv, StopInv
    <2>4. OrderInv'
      BY <1>0, <2>0 DEF Inv, OrderInv
    <2>5. KeptInv'
      <3>1. Due' = Due
        BY <1>3, <2>0 DEF Due
      <3>2. Handler \notin returned
        BY Names DEF Inv, TypeInv
      <3> QED
        BY <1>0, <2>0, <3>1, <3>2 DEF Inv, KeptInv
    <2> QED
      BY <2>2, <2>3, <2>4, <2>5 DEF Inv
  <1> QED
    BY <1>2, <1>3

\* It waits for the logging thread.
LEMMA SafeSpinInv == ASSUME Inv, SafeSpin PROVE Inv'
  <1>0. /\ handler = "spin" /\ stop = 2 /\ handler' = "write"
        /\ UNCHANGED <<fs, local, file, stop, th, app, pushed, dropped, before, stopper, returned, raced>>
    BY DEF SafeSpin, bufVars, logVars, auxVars
  <1>1. TypeInv' /\ StopInv'
    BY <1>0 DEF Inv, TypeInv, StopInv
  <1> QED
    BY <1>0, <1>1, QuietInv

\* It writes the buffer, or a part of it if a thread is pushing.
LEMMA SafeWriteInv == ASSUME Inv, SafeWrite PROVE Inv'
  <1>0. /\ handler = "write" /\ handler' = "clear"
        /\ UNCHANGED <<fs, local, stop, th, app, pushed, dropped, before, stopper, returned>>
    BY DEF SafeWrite, logVars
  <1>1. fs \in Seq(Nat) /\ local \in Seq(Nat) /\ file \in Seq(Nat) /\ pushed \in Nat /\ raced \in BOOLEAN
    BY DEF Inv, TypeInv
  <1>2. stopper = Handler /\ stop = 2 /\ local = <<>>
    BY <1>0 DEF Inv, StopInv
  <1>3. /\ Increasing(file) /\ UpTo(file, pushed) /\ Increasing(fs) /\ UpTo(fs, pushed) /\ Below(file, fs)
    BY <1>0 DEF Inv, OrderInv
  <1>4. PICK q \in Seq(Nat) : /\ file' = file \o q /\ Increasing(q) /\ UpTo(q, pushed) /\ Below(file, q)
                              /\ (q = fs /\ raced' = raced) \/ raced' = TRUE
    <2>1. CASE file' = file \o fs /\ UNCHANGED raced
      BY <1>1, <1>3, <2>1
    <2>2. CASE (\E k \in 0..Len(fs) - 1 : file' = file \o SubSeq(fs, 1, k)) /\ raced' = TRUE
      <3>1. PICK k \in 0..Len(fs) - 1 : file' = file \o SubSeq(fs, 1, k)
        BY <2>2
      <3>2. 1 \in Nat \ {0} /\ k \in Nat /\ k <= Len(fs)
        BY <1>1
      <3>3. /\ SubSeq(fs, 1, k) \in Seq(Nat) /\ Increasing(SubSeq(fs, 1, k)) /\ UpTo(SubSeq(fs, 1, k), pushed)
            /\ Below(file, SubSeq(fs, 1, k))
        BY <1>1, <1>3, <3>2, Part
      <3> QED
        BY <2>2, <3>1, <3>3
    <2> QED
      BY <2>1, <2>2 DEF SafeWrite
  <1>5. /\ file' \in Seq(Nat) /\ ToSet(file') = ToSet(file) \cup ToSet(q) /\ Increasing(file') /\ UpTo(file', pushed)
    BY <1>1, <1>3, <1>4, Concat
  <1>6. TypeInv'
    BY <1>0, <1>4, <1>5 DEF Inv, TypeInv
  <1>7. StopInv'
    BY <1>0, <1>2 DEF Inv, StopInv
  <1>8. OrderInv'
    BY <1>0, <1>2, <1>3, <1>5, Empty DEF OrderInv
  <1>9. KeptInv'
    <2>1. ASSUME ~raced' PROVE 1..before \subseteq ToSet(file') \cup dropped
      <3>1. q = fs /\ ~raced
        BY <1>4, <2>1
      <3>2. Due \subseteq ToSet(file) \cup ToSet(local) \cup ToSet(fs) \cup dropped
        BY <1>0, <3>1 DEF Inv, KeptInv
      <3> QED
        BY <1>2, <1>5, <3>1, <3>2, Empty DEF Due
    <2>2. Handler \notin returned
      BY Names DEF Inv, TypeInv
    <2> QED
      BY <1>0, <1>2, <2>1, <2>2 DEF KeptInv
  <1> QED
    BY <1>6, <1>7, <1>8, <1>9 DEF Inv

\* It clears the buffer, and the process dies.
LEMMA SafeClearInv == ASSUME Inv, SafeClear PROVE Inv'
  <1>0. /\ handler = "clear" /\ fs' = <<>> /\ handler' = "dead"
        /\ UNCHANGED <<local, file, stop, th, app, pushed, dropped, before, stopper, returned, raced>>
    BY DEF SafeClear, logVars, auxVars
  <1>1. stopper = Handler /\ stop = 2 /\ stop # 0
    BY <1>0 DEF Inv, StopInv
  <1>2. TypeInv'
    BY <1>0, Empty DEF Inv, TypeInv
  <1>3. StopInv'
    BY <1>0, <1>1 DEF Inv, StopInv
  <1>4. OrderInv'
    BY <1>0, Empty DEF Inv, OrderInv
  <1>5. KeptInv'
    <2>1. ~raced => 1..before \subseteq ToSet(file) \cup dropped
      BY <1>0, <1>1 DEF Inv, KeptInv
    <2>2. Handler \notin returned
      BY Names DEF Inv, TypeInv
    <2> QED
      BY <1>0, <1>1, <2>1, <2>2 DEF KeptInv, Due
  <1> QED
    BY <1>2, <1>3, <1>4, <1>5 DEF Inv

\* Every step.
LEMMA NextInv == ASSUME Inv, [Next]_vars PROVE Inv'
  <1>1. ASSUME UNCHANGED vars PROVE Inv'
    <2>1. UNCHANGED <<fs, local, file, stop, th, app, handler, pushed, dropped, before, stopper, returned, raced>>
      BY <1>1 DEF vars, bufVars, logVars, auxVars
    <2>2. TypeInv' /\ StopInv'
      BY <2>1 DEF Inv, TypeInv, StopInv
    <2> QED
      BY <2>1, <2>2, QuietInv
  <1>2. ASSUME NEW a \in Apps, PushLock(a) \/ Push(a) \/ StopCas(a) \/ Stop(a) PROVE Inv'
    BY <1>2, PushLockInv, PushInv, StopCasInv, StopGoesInv, StopFlushInv DEF Stop
  <1>3. ASSUME Thread \/ Safe PROVE Inv'
    BY <1>3, ThreadInv, ThreadSwapInv, ThreadWriteInv, SafeSpinInv, SafeWriteInv, SafeClearInv DEF Thread, Safe
  <1> QED
    BY <1>1, <1>2, <1>3, OnSignalInv DEF Next

-----------------------------------------------------------------------------
(* The theorems. *)

\* The inductive invariant holds in every reachable state.
THEOREM LoggerInvariant == Spec => []Inv
  <1> QED
    BY InitInv, NextInv, PTL DEF Spec

\* Logs are written in order and once, and none is lost (thread_fun, stop,
\* safe_stop).
THEOREM NoLogLost == Spec => []LogsKept
  <1>1. Inv => LogsKept
    <2> DEFINE way == file \o local \o fs
    <2> SUFFICES ASSUME Inv, handler # "clear"
                 PROVE  /\ \A i, j \in 1..Len(way) : i < j => way[i] < way[j]
                        /\ ~raced => \A n \in 1..(IF stop = 0 THEN pushed ELSE before) : n \in ToSet(way) \cup dropped
      BY DEF LogsKept
    <2>1. fs \in Seq(Nat) /\ local \in Seq(Nat) /\ file \in Seq(Nat)
      BY DEF Inv, TypeInv
    <2>2. /\ Increasing(file) /\ Increasing(local) /\ Increasing(fs)
          /\ Below(file, local) /\ Below(local, fs) /\ Below(file, fs)
      BY DEF Inv, OrderInv
    <2>3. /\ file \o local \in Seq(Nat) /\ ToSet(file \o local) = ToSet(file) \cup ToSet(local)
          /\ Increasing(file \o local) /\ Below(file \o local, fs)
      BY <2>1, <2>2, Concat
    <2>4. ToSet(way) = ToSet(file \o local) \cup ToSet(fs) /\ Increasing(way)
      BY <2>1, <2>2, <2>3, Concat
    <2>5. ~raced => Due \subseteq ToSet(file) \cup ToSet(local) \cup ToSet(fs) \cup dropped
      BY DEF Inv, KeptInv
    <2> HIDE DEF way
    <2> QED
      BY <2>3, <2>4, <2>5 DEF Increasing, Due
  <1> QED
    BY <1>1, LoggerInvariant, PTL

\* Who stopped the logger, close() or safe_stop, has written what was pushed
\* before (LevelLogger::stop, safe_stop).
THEOREM StopsWritten == Spec => []StopWritesAll
  <1>1. Inv => StopWritesAll
    BY DEF Inv, KeptInv, StopWritesAll, Dead
  <1> QED
    BY <1>1, LoggerInvariant, PTL

-----------------------------------------------------------------------------
(* Strings: one string and the memory. *)
Byte == Chars \cup {Nul, Unset}
StrType == [p: Nat, cap: Nat, size: Nat]
MemType == UNION {[D -> Seq(Byte)] : D \in SUBSET Blocks}

\* A string has a block of cap bytes, or none.
HasBlock(t) ==
    /\ t \in [s: StrType, m: MemType]
    /\ t.s.p = 0 => t.s.cap = 0
    /\ t.s.p # 0 => t.s.p \in DOMAIN t.m /\ Len(t.m[t.s.p]) = t.s.cap

\* It holds q.
Holds(t, q) ==
    /\ HasBlock(t) /\ q \in Seq(Byte)
    /\ t.s.size = Len(q) /\ t.s.size <= t.s.cap
    /\ \A i \in 1..Len(q) : t.m[t.s.p][i] = q[i]

\* From t to u only the string's own block changes, or is another one.
Others(t) == DOMAIN t.m \ {t.s.p}
OwnBlock(t, u) ==
    /\ Others(u) = Others(t) /\ u.s.p \notin Others(t)
    /\ \A b \in Others(t) : u.m[b] = t.m[b]

\* The first bytes of the block are the same.
Keeps(t, u) == \A i \in 1..t.s.cap : u.m[u.s.p][i] = t.m[t.s.p][i]

LEMMA StrConstants ==
    /\ Blocks \subseteq Nat /\ 0 \notin Blocks /\ IsFiniteSet(Blocks) /\ IsFiniteSet(Strs)
    /\ Cardinality(Strs) < Cardinality(Blocks) /\ MaxSize \in Nat /\ MaxCap \in Nat
    /\ Nul \in Byte /\ Unset \in Byte
  BY StrAssumption DEF Byte

LEMMA LeastNatural ==
    ASSUME NEW S \in SUBSET Nat, S # {}
    PROVE  Min(S) \in S /\ \A j \in S : Min(S) <= j
  <1> DEFINE R == {ss \in Nat \X Nat : ss[1] < ss[2]}
  <1>0. IsWellFoundedOn(R, Nat)
    BY NatLessThanWellFounded DEF OpToRel
  <1>1. PICK i \in S : \A j \in S : ~(<<j, i>> \in R)
    <2> HIDE DEF R
    <2> QED
      BY <1>0, WFMin
  <1>2. \A j \in S : ~(j < i)
    BY <1>1
  <1>3. \A j \in S : i <= j
    BY <1>2
  <1> QED
    BY <1>3 DEF Min

LEMMA LargerOfTwo ==
    ASSUME NEW a \in Nat, NEW b \in Nat
    PROVE  Max({a, b}) = IF a < b THEN b ELSE a
  <1>1. \E c \in {a, b} : \A d \in {a, b} : c >= d
    OBVIOUS
  <1> QED
    BY <1>1 DEF Max

LEMMA MemTypes ==
    ASSUME NEW m \in MemType
    PROVE  /\ DOMAIN m \subseteq Blocks /\ 0 \notin DOMAIN m /\ m \in [DOMAIN m -> Seq(Byte)]
           /\ \A b \in DOMAIN m : m[b] \in Seq(Byte) /\ Len(m[b]) \in Nat /\ \A i \in 1..Len(m[b]) : m[b][i] \in Byte
  <1>1. PICK D \in SUBSET Blocks : m \in [D -> Seq(Byte)]
    BY DEF MemType
  <1>2. DOMAIN m \subseteq Blocks /\ 0 \notin DOMAIN m /\ m \in [DOMAIN m -> Seq(Byte)]
    BY <1>1, StrConstants
  <1>3. \A b \in DOMAIN m : m[b] \in Seq(Byte)
    BY <1>2
  <1>4. \A b \in DOMAIN m : Len(m[b]) \in Nat /\ \A i \in 1..Len(m[b]) : m[b][i] \in Byte
    BY <1>3, LenProperties, ElementOfSeq
  <1> QED
    BY <1>2, <1>3, <1>4

LEMMA MemIs ==
    ASSUME NEW D \in SUBSET Blocks, NEW m \in [D -> Seq(Byte)]
    PROVE  m \in MemType
  BY DEF MemType

\* malloc or realloc of a longer block.
LEMMA ReallocLaw ==
    ASSUME NEW t, HasBlock(t), Blocks \ DOMAIN t.m # {}, NEW n \in Nat, t.s.cap <= n
    PROVE  LET u == Realloc(t, n)
           IN /\ HasBlock(u) /\ u.s.cap = n /\ u.s.p # 0 /\ u.s.size = t.s.size
              /\ OwnBlock(t, u) /\ Keeps(t, u)
  <1> DEFINE b == Fresh(t.m)
             old == IF t.s.p = 0 THEN <<>> ELSE t.m[t.s.p]
             m == Free(t.m, t.s.p)
             new == old \o Fill(n - Len(old))
             mem == [a \in DOMAIN m \cup {b} |-> IF a = b THEN new ELSE m[a]]
             u == Realloc(t, n)
  <1>1. /\ t.s \in StrType /\ t.m \in MemType
        /\ t.s.p \in Nat /\ t.s.cap \in Nat /\ t.s.size \in Nat
    BY DEF HasBlock, StrType
  <1>2. b \in Blocks /\ b \notin DOMAIN t.m /\ b \in Nat \ {0}
    BY StrConstants DEF Fresh
  <1>3. old \in Seq(Byte) /\ Len(old) = t.s.cap /\ Len(old) \in Nat
    <2>1. CASE t.s.p = 0
      BY <1>1, <2>1 DEF HasBlock
    <2>2. CASE t.s.p # 0
      BY <1>1, <2>2, MemTypes DEF HasBlock
    <2> QED
      BY <2>1, <2>2
  <1> HIDE DEF old, b
  <1>4. Fill(n - Len(old)) \in Seq(Byte) /\ Len(Fill(n - Len(old))) = n - Len(old)
    <2>1. n - Len(old) \in Nat
      BY <1>1, <1>3
    <2> QED
      BY <2>1, StrConstants DEF Fill
  <1>5. /\ new \in Seq(Byte) /\ Len(new) = n /\ \A i \in 1..t.s.cap : new[i] = old[i]
    <2> DEFINE f == Fill(n - Len(old))
    <2> HIDE DEF f
    <2>1. f \in Seq(Byte) /\ Len(f) = n - Len(old) /\ new = old \o f
      BY <1>4 DEF f
    <2>2. old \o f \in Seq(Byte) /\ Len(old \o f) = Len(old) + Len(f)
          /\ \A i \in 1..(Len(old) + Len(f)) : (old \o f)[i] = IF i <= Len(old) THEN old[i] ELSE f[i - Len(old)]
      BY <1>3, <2>1, ConcatProperties
    <2> HIDE DEF new
    <2> QED
      BY <1>1, <1>3, <2>1, <2>2
  <1> HIDE DEF new
  <1>6. /\ DOMAIN m = DOMAIN t.m \ {t.s.p} /\ \A a \in DOMAIN m : m[a] = t.m[a]
        /\ DOMAIN t.m \subseteq Blocks /\ \A a \in DOMAIN t.m : t.m[a] \in Seq(Byte)
    BY <1>1, MemTypes DEF Free
  <1> HIDE DEF m
  <1>7. /\ mem \in [DOMAIN m \cup {b} -> Seq(Byte)] /\ DOMAIN m \cup {b} \subseteq Blocks
        /\ DOMAIN mem = DOMAIN m \cup {b} /\ mem[b] = new /\ \A a \in DOMAIN m : mem[a] = t.m[a]
    BY <1>2, <1>5, <1>6
  <1>8. mem \in MemType
    BY <1>7, MemIs
  <1>9. u = [s |-> [t.s EXCEPT !.p = b, !.cap = n], m |-> mem]
    BY DEF Realloc, At, b, old, m, new
  <1> HIDE DEF mem, u
  <1>10. /\ u.s \in StrType /\ u.s.p = b /\ u.s.cap = n /\ u.s.size = t.s.size /\ u.m = mem
         /\ u \in [s: StrType, m: MemType]
    BY <1>1, <1>2, <1>8, <1>9 DEF StrType
  <1>11. HasBlock(u)
    BY <1>2, <1>5, <1>7, <1>10 DEF HasBlock
  <1>12. OwnBlock(t, u)
    BY <1>2, <1>6, <1>7, <1>10 DEF OwnBlock, Others
  <1>13. Keeps(t, u)
    <2>1. \A i \in 1..t.s.cap : t.s.p # 0 /\ old = t.m[t.s.p]
      BY <1>1 DEF HasBlock, old
    <2> QED
      BY <1>5, <1>7, <1>10, <2>1 DEF Keeps
  <1> QED
    BY <1>2, <1>10, <1>11, <1>12, <1>13 DEF u

\* From t to u the block may have grown.
Grows(t, u) ==
    HasBlock(u) /\ t.s.cap <= u.s.cap /\ u.s.size = t.s.size /\ OwnBlock(t, u) /\ Keeps(t, u)

LEMMA BlockTypes ==
    ASSUME NEW t, HasBlock(t)
    PROVE  /\ t.s \in StrType /\ t.m \in MemType /\ t.s.p \in Nat /\ t.s.cap \in Nat /\ t.s.size \in Nat
           /\ t = [s |-> t.s, m |-> t.m]
           /\ t.s.cap > 0 => /\ t.s.p # 0 /\ t.s.p \in DOMAIN t.m /\ t.m[t.s.p] \in Seq(Byte)
                             /\ Len(t.m[t.s.p]) = t.s.cap
  <1>1. t.s \in StrType /\ t.m \in MemType /\ t.s.p \in Nat /\ t.s.cap \in Nat /\ t.s.size \in Nat
    BY DEF HasBlock, StrType
  <1>2. t = [s |-> t.s, m |-> t.m]
    BY DEF HasBlock
  <1> QED
    BY <1>1, <1>2, MemTypes DEF HasBlock

LEMMA SameGrows ==
    ASSUME NEW t, HasBlock(t)
    PROVE  Grows(t, t)
  BY BlockTypes DEF Grows, OwnBlock, Keeps, Others

LEMMA ReserveLaw ==
    ASSUME NEW t, HasBlock(t), Blocks \ DOMAIN t.m # {}, NEW n \in Nat
    PROVE  Grows(t, Reserve(t, n)) /\ n <= Reserve(t, n).s.cap
  <1>1. t.s.cap \in Nat
    BY BlockTypes
  <1>2. CASE t.s.cap < n
    <2> DEFINE u == Realloc(t, n)
    <2>1. HasBlock(u) /\ u.s.cap = n /\ u.s.size = t.s.size /\ OwnBlock(t, u) /\ Keeps(t, u)
      BY <1>1, <1>2, ReallocLaw
    <2>2. Reserve(t, n) = u
      BY <1>2 DEF Reserve
    <2> HIDE DEF u
    <2> QED
      BY <1>1, <1>2, <2>1, <2>2 DEF Grows
  <1>3. CASE ~(t.s.cap < n)
    BY <1>1, <1>3, SameGrows DEF Reserve
  <1> QED
    BY <1>2, <1>3

LEMMA EnsureLaw ==
    ASSUME NEW t, HasBlock(t), t.s.size <= t.s.cap, Blocks \ DOMAIN t.m # {}, NEW n \in Nat
    PROVE  Grows(t, Ensure(t, n)) /\ t.s.size + n <= Ensure(t, n).s.cap
  <1>1. t.s.cap \in Nat /\ t.s.size \in Nat
    BY BlockTypes
  <1>2. CASE t.s.cap < t.s.size + n
    <2> DEFINE k == ((t.s.cap * 3) \div 2) + n
               u == Reserve(t, k)
    <2>1. k \in Nat /\ t.s.cap + n <= k
      <3>1. \A c \in Nat : (c * 3) \div 2 \in Nat /\ c <= (c * 3) \div 2
        OBVIOUS
      <3> QED
        BY <1>1, <3>1
    <2>2. Ensure(t, n) = u
      BY <1>2 DEF Ensure
    <2> HIDE DEF k
    <2>3. Grows(t, u) /\ k <= u.s.cap
      BY <2>1, ReserveLaw
    <2> HIDE DEF u
    <2>4. u.s.cap \in Nat
      BY <2>3, BlockTypes DEF Grows
    <2> QED
      BY <1>1, <2>1, <2>2, <2>3, <2>4
  <1>3. CASE ~(t.s.cap < t.s.size + n)
    BY <1>1, <1>3, SameGrows DEF Ensure
  <1> QED
    BY <1>2, <1>3

\* memcpy into the block.
LEMMA PokeLaw ==
    ASSUME NEW t, HasBlock(t), NEW at0 \in Nat, NEW data \in Seq(Byte), at0 + Len(data) <= t.s.cap
    PROVE  LET u == Poke(t, at0, data)
           IN /\ HasBlock(u) /\ u.s = t.s /\ OwnBlock(t, u)
              /\ \A i \in 1..t.s.cap : u.m[u.s.p][i] =
                    IF i \in (at0 + 1)..(at0 + Len(data)) THEN data[i - at0] ELSE t.m[t.s.p][i]
  <1> DEFINE u == Poke(t, at0, data)
             p == t.s.p
             old == t.m[p]
             new == [i \in 1..t.s.cap |-> IF i \in (at0 + 1)..(at0 + Len(data)) THEN data[i - at0] ELSE old[i]]
  <1>0. /\ Len(data) \in Nat /\ t.s.cap \in Nat /\ t.s \in StrType /\ t.m \in MemType
        /\ \A i \in 1..Len(data) : data[i] \in Byte
    BY BlockTypes, LenProperties, ElementOfSeq
  <1>1. CASE data = <<>>
    <2>1. u = t /\ Len(data) = 0
      BY <1>1 DEF Poke
    <2>2. \A i \in 1..t.s.cap : i \notin (at0 + 1)..(at0 + Len(data))
      BY <2>1
    <2>3. Grows(t, t)
      BY SameGrows
    <2> HIDE DEF u
    <2> QED
      BY <2>1, <2>2, <2>3 DEF u, Grows
  <1>2. CASE data # <<>>
    <2>1. Len(data) > 0
      BY <1>0, <1>2, EmptySeq
    <2>2. t.s.cap > 0
      BY <1>0, <2>1
    <2>3. p # 0 /\ p \in DOMAIN t.m /\ old \in Seq(Byte) /\ Len(old) = t.s.cap /\ p \in Nat
      BY <2>2, BlockTypes
    <2> HIDE DEF old
    <2>4. Max({Len(old), at0 + Len(data)}) = t.s.cap
      <3>1. Len(old) \in Nat /\ at0 + Len(data) \in Nat
        BY <1>0, <2>3
      <3>2. Max({Len(old), at0 + Len(data)}) = IF Len(old) < at0 + Len(data) THEN at0 + Len(data) ELSE Len(old)
        BY <3>1, LargerOfTwo
      <3> QED
        BY <1>0, <2>3, <3>1, <3>2
    <2>5. u = [t EXCEPT !.m[p] = new]
      BY <1>2, <2>4 DEF Poke, old
    <2>6. new \in Seq(Byte) /\ Len(new) = t.s.cap
      <3>1. \A i \in 1..t.s.cap : old[i] \in Byte
        BY <2>3, ElementOfSeq
      <3>2. \A i \in (at0 + 1)..(at0 + Len(data)) : data[i - at0] \in Byte
        BY <1>0
      <3>3. \A i \in 1..t.s.cap : (IF i \in (at0 + 1)..(at0 + Len(data)) THEN data[i - at0] ELSE old[i]) \in Byte
        <4> TAKE i \in 1..t.s.cap
        <4>1. CASE i \in (at0 + 1)..(at0 + Len(data))
          BY <3>2, <4>1
        <4>2. CASE i \notin (at0 + 1)..(at0 + Len(data))
          BY <3>1, <4>2
        <4> QED
          BY <4>1, <4>2
      <3> QED
        BY <1>0, <3>3
    <2>7. \A i \in 1..t.s.cap : new[i] = IF i \in (at0 + 1)..(at0 + Len(data)) THEN data[i - at0] ELSE old[i]
      OBVIOUS
    <2> HIDE DEF new, u
    <2>8. t = [s |-> t.s, m |-> t.m]
      BY BlockTypes
    <2>9. u.s = t.s /\ u.m = [t.m EXCEPT ![p] = new] /\ u = [s |-> u.s, m |-> u.m]
      BY <2>5, <2>8
    <2>10. /\ DOMAIN t.m \subseteq Blocks /\ t.m \in [DOMAIN t.m -> Seq(Byte)]
      BY <1>0, MemTypes
    <2>11. /\ u.m \in [DOMAIN t.m -> Seq(Byte)] /\ DOMAIN u.m = DOMAIN t.m /\ u.m[p] = new
           /\ \A b \in DOMAIN t.m : b # p => u.m[b] = t.m[b]
      BY <2>3, <2>6, <2>9, <2>10
    <2>12. u.m \in MemType
      BY <2>10, <2>11, MemIs
    <2>13. HasBlock(u)
      <3>1. u \in [s: StrType, m: MemType]
        BY <1>0, <2>9, <2>12
      <3>2. u.s.p = p /\ u.s.cap = t.s.cap
        BY <2>9
      <3> QED
        BY <2>3, <2>6, <2>11, <3>1, <3>2 DEF HasBlock
    <2>14. OwnBlock(t, u)
      BY <2>9, <2>11 DEF OwnBlock, Others
    <2> QED
      BY <2>7, <2>9, <2>11, <2>13, <2>14 DEF u, old
  <1> QED
    BY <1>1, <1>2

LEMMA SizeLaw ==
    ASSUME NEW t, HasBlock(t), NEW n \in Nat
    PROVE  LET u == Size(t, n)
           IN /\ HasBlock(u) /\ u.s.p = t.s.p /\ u.s.cap = t.s.cap /\ u.s.size = n /\ u.m = t.m
              /\ OwnBlock(t, u) /\ Keeps(t, u)
  <1> DEFINE u == Size(t, n)
  <1>1. t.s \in StrType /\ t.m \in MemType /\ t = [s |-> t.s, m |-> t.m]
    BY BlockTypes
  <1>2. u.s = [t.s EXCEPT !.size = n] /\ u.m = t.m /\ u = [s |-> u.s, m |-> u.m]
    BY <1>1 DEF Size
  <1> HIDE DEF u
  <1>3. u.s \in StrType /\ u.s.p = t.s.p /\ u.s.cap = t.s.cap /\ u.s.size = n
    BY <1>1, <1>2 DEF StrType
  <1>4. u \in [s: StrType, m: MemType]
    BY <1>1, <1>2, <1>3
  <1>5. HasBlock(u)
    BY <1>2, <1>3, <1>4 DEF HasBlock
  <1>6. OwnBlock(t, u) /\ Keeps(t, u)
    BY <1>2, <1>3 DEF OwnBlock, Others, Keeps
  <1> QED
    BY <1>2, <1>3, <1>5, <1>6 DEF u

LEMMA OwnBlockTwice ==
    ASSUME NEW t, NEW u, NEW v, OwnBlock(t, u), OwnBlock(u, v)
    PROVE  OwnBlock(t, v)
  BY DEF OwnBlock

\* What a string holds is its content.
LEMMA ContentLaw ==
    ASSUME NEW t, NEW q, Holds(t, q)
    PROVE  Content(t) = q
  <1>1. /\ HasBlock(t) /\ q \in Seq(Byte) /\ t.s.size = Len(q) /\ t.s.size <= t.s.cap
        /\ \A i \in 1..Len(q) : t.m[t.s.p][i] = q[i]
        /\ t.s.cap \in Nat /\ Len(q) \in Nat /\ \A i \in 1..Len(q) : q[i] \in Byte
    BY BlockTypes, LenProperties, ElementOfSeq DEF Holds
  <1>2. CASE t.s.p = 0
    <2>1. Len(q) = 0
      BY <1>1, <1>2 DEF HasBlock
    <2>2. q = <<>>
      BY <1>1, <2>1, EmptySeq
    <2> QED
      BY <1>2, <2>2 DEF Content
  <1>3. CASE t.s.p # 0
    <2> DEFINE b == t.m[t.s.p]
               c == SubSeq(b, 1, t.s.size)
    <2>1. Content(t) = c
      BY <1>3 DEF Content
    <2>2. \A i \in 1..t.s.size : b[i] \in Byte
      BY <1>1
    <2> HIDE DEF b
    <2>3. c \in Seq(Byte) /\ Len(c) = (IF 1 <= t.s.size THEN t.s.size - 1 + 1 ELSE 0)
          /\ \A i \in 1..(t.s.size - 1 + 1) : c[i] = b[1 + i - 1]
      BY <1>1, <2>2, SubSeqProperties
    <2>4. Len(c) = Len(q)
      BY <1>1, <2>3
    <2>5. \A i \in 1..Len(q) : c[i] = q[i]
      BY <1>1, <2>3 DEF b
    <2> HIDE DEF c
    <2>6. c = q
      BY <1>1, <2>3, <2>4, <2>5, SeqEqual
    <2> QED
      BY <2>1, <2>6
  <1> QED
    BY <1>2, <1>3

\* A write at the begin.
LEMMA WriteLaw ==
    ASSUME NEW t, HasBlock(t), NEW data \in Seq(Byte), Len(data) <= t.s.cap,
           NEW q \in Seq(Byte), Len(q) = t.s.size, Len(q) <= Len(data), \A i \in 1..Len(q) : data[i] = q[i]
    PROVE  Holds(Poke(t, 0, data), q) /\ OwnBlock(t, Poke(t, 0, data))
  <1> DEFINE u == Poke(t, 0, data)
  <1>1. Len(data) \in Nat /\ Len(q) \in Nat /\ t.s.cap \in Nat /\ 0 + Len(data) <= t.s.cap
    BY BlockTypes, LenProperties
  <1>2. /\ HasBlock(u) /\ u.s = t.s /\ OwnBlock(t, u)
        /\ \A i \in 1..t.s.cap : u.m[u.s.p][i] =
              IF i \in (0 + 1)..(0 + Len(data)) THEN data[i - 0] ELSE t.m[t.s.p][i]
    BY <1>1, PokeLaw
  <1> HIDE DEF u
  <1>3. \A i \in 1..Len(q) : u.m[u.s.p][i] = q[i]
    <2> TAKE i \in 1..Len(q)
    <2>1. i \in 1..t.s.cap /\ i \in (0 + 1)..(0 + Len(data)) /\ i - 0 = i
      BY <1>1
    <2> QED
      BY <1>2, <2>1
  <1>4. Holds(u, q)
    BY <1>1, <1>2, <1>3 DEF Holds
  <1> QED
    BY <1>2, <1>4 DEF u

\* A write at the end.
LEMMA AppendLaw ==
    ASSUME NEW t, NEW q, Holds(t, q), NEW w, Grows(t, w), NEW data \in Seq(Byte), Len(q) + Len(data) <= w.s.cap,
           NEW n, n = w.s.size + Len(data)
    PROVE  LET u == Size(Poke(w, w.s.size, data), n)
           IN Holds(u, q \o data) /\ OwnBlock(t, u)
  <1>0. Len(q) \in Nat
    BY LenProperties DEF Holds
  <1> PICK k \in Nat : k = Len(q)
    BY <1>0
  <1>1. /\ HasBlock(t) /\ q \in Seq(Byte) /\ t.s.size = k /\ k <= t.s.cap
        /\ \A i \in 1..k : t.m[t.s.p][i] = q[i]
        /\ HasBlock(w) /\ t.s.cap <= w.s.cap /\ w.s.size = k /\ OwnBlock(t, w)
        /\ \A i \in 1..t.s.cap : w.m[w.s.p][i] = t.m[t.s.p][i]
    BY DEF Holds, Grows, Keeps
  <1>2. /\ k \in Nat /\ Len(data) \in Nat /\ t.s.cap \in Nat /\ w.s.cap \in Nat
        /\ n = k + Len(data) /\ n \in Nat /\ n <= w.s.cap /\ k <= t.s.cap
    BY <1>1, BlockTypes, LenProperties
  <1> DEFINE v == Poke(w, k, data)
             u == Size(v, n)
  <1> HIDE DEF u
  <1>3. /\ HasBlock(v) /\ v.s = w.s /\ OwnBlock(w, v)
        /\ \A i \in 1..w.s.cap : v.m[v.s.p][i] =
              IF i \in (k + 1)..(k + Len(data)) THEN data[i - k] ELSE w.m[w.s.p][i]
    <2>1. HasBlock(w) /\ k + Len(data) <= w.s.cap
      BY <1>1, <1>2
    <2> QED
      BY <2>1, PokeLaw
  <1> HIDE DEF v
  <1>4. /\ HasBlock(u) /\ u.s.p = v.s.p /\ u.s.cap = v.s.cap /\ u.s.size = n /\ u.m = v.m /\ OwnBlock(v, u)
    BY <1>2, <1>3, SizeLaw DEF u
  <1>5. OwnBlock(t, u)
    <2>1. OwnBlock(w, u)
      BY <1>3, <1>4, OwnBlockTwice
    <2> QED
      BY <1>1, <2>1, OwnBlockTwice
  <1>6. /\ q \o data \in Seq(Byte) /\ Len(q \o data) = k + Len(data)
        /\ \A i \in 1..(k + Len(data)) : (q \o data)[i] = IF i <= k THEN q[i] ELSE data[i - k]
    BY <1>1, ConcatProperties
  <1> DEFINE r == q \o data
  <1> HIDE DEF r
  <1>7. \A i \in 1..Len(r) : u.m[u.s.p][i] = r[i]
    <2> DEFINE d == Len(data)
    <2>0. d \in Nat /\ k \in Nat /\ k + d <= w.s.cap /\ Len(r) = k + d
      BY <1>2, <1>6 DEF r
    <2> PICK c \in Nat : c = w.s.cap
      BY <1>2
    <2> PICK e \in Nat : e = t.s.cap
      BY <1>2
    <2> HIDE DEF d
    <2> SUFFICES ASSUME NEW i \in 1..(k + d) PROVE u.m[u.s.p][i] = r[i]
      BY <2>0
    <2>1. i \in 1..(k + d) /\ i \in 1..w.s.cap
      <3>1. k + d <= c
        BY <2>0
      <3>2. i \in 1..c
        BY <2>0, <3>1
      <3> QED
        BY <3>2
    <2>2. CASE i <= k
      <3>1. i \in 1..k /\ i \in 1..t.s.cap /\ i \notin (k + 1)..(k + d)
        <4>1. k <= e
          BY <1>2
        <4>2. d \in Nat /\ i \in Nat /\ 1 <= i
          BY <2>0
        <4>3. i \in 1..k /\ i \notin (k + 1)..(k + d)
          BY <2>2, <4>2
        <4>4. i \in 1..e
          BY <2>2, <4>1, <4>2
        <4> QED
          BY <4>3, <4>4
      <3>2. v.m[v.s.p][i] = q[i]
        BY <1>1, <1>3, <2>1, <3>1 DEF d
      <3>3. r[i] = q[i]
        BY <1>6, <2>1, <2>2 DEF r, d
      <3> QED
        BY <1>4, <3>2, <3>3
    <2>3. CASE ~(i <= k)
      <3>1. i \in (k + 1)..(k + d)
        BY <1>2, <2>0, <2>1, <2>3
      <3>2. v.m[v.s.p][i] = data[i - k]
        BY <1>3, <2>1, <3>1 DEF d
      <3>3. r[i] = data[i - k]
        BY <1>6, <2>1, <2>3 DEF r, d
      <3> QED
        BY <1>4, <3>2, <3>3
    <2> QED
      BY <2>2, <2>3
  <1>8. Holds(u, r)
    BY <1>1, <1>2, <1>3, <1>4, <1>6, <1>7 DEF Holds, r
  <1> QED
    BY <1>1, <1>5, <1>8 DEF u, v, r

-----------------------------------------------------------------------------
(* All strings. *)
StrInv ==
    /\ str \in [Strs -> StrType] /\ bytes \in MemType /\ text \in [Strs -> Seq(Byte)]
    /\ \A x \in Strs : Holds(Here(x), text[x])
    /\ DOMAIN bytes = {str[x].p : x \in Strs} \ {0}
    /\ \A x, y \in Strs : str[x].p = str[y].p /\ str[x].p # 0 => x = y

LEMMA StrHas ==
    ASSUME StrInv, NEW x \in Strs
    PROVE  /\ Here(x) = [s |-> str[x], m |-> bytes] /\ HasBlock(Here(x)) /\ Holds(Here(x), text[x])
           /\ str[x] \in StrType /\ str[x].p \in Nat /\ str[x].size \in Nat /\ str[x].cap \in Nat
           /\ Here(x).s = str[x] /\ Here(x).m = bytes
           /\ text[x] \in Seq(Byte) /\ Len(text[x]) = str[x].size /\ str[x].size <= str[x].cap
           /\ str[x].p # 0 => str[x].p \in DOMAIN bytes
           /\ 0 \notin DOMAIN bytes
  <1>1. Here(x) = [s |-> str[x], m |-> bytes] /\ Here(x).s = str[x] /\ Here(x).m = bytes
    BY DEF Here, At
  <1>2. HasBlock(Here(x)) /\ Holds(Here(x), text[x]) /\ Len(text[x]) = str[x].size /\ str[x].size <= str[x].cap
    BY <1>1 DEF StrInv, Holds
  <1>3. str[x] \in StrType /\ text[x] \in Seq(Byte)
    BY DEF StrInv
  <1>4. str[x].p \in Nat /\ str[x].size \in Nat /\ str[x].cap \in Nat
    BY <1>3 DEF StrType
  <1>5. 0 \notin DOMAIN bytes /\ (str[x].p # 0 => str[x].p \in DOMAIN bytes)
    BY DEF StrInv
  <1> QED
    BY <1>1, <1>2, <1>3, <1>4, <1>5

\* There is always a block left.
LEMMA StrRoom == StrInv => Blocks \ DOMAIN bytes # {}
  <1> SUFFICES ASSUME StrInv, Blocks \subseteq DOMAIN bytes PROVE FALSE
    OBVIOUS
  <1> DEFINE f == [b \in Blocks |-> CHOOSE x \in Strs : str[x].p = b]
  <1>1. \A b \in Blocks : \E x \in Strs : str[x].p = b
    BY DEF StrInv
  <1>2. \A b \in Blocks : f[b] \in Strs /\ str[f[b]].p = b
    BY <1>1
  <1>3. f \in [Blocks -> Strs]
    BY <1>2
  <1> HIDE DEF f
  <1>4. \E b, c \in Blocks : b # c /\ f[b] = f[c]
    BY <1>3, StrConstants, FS_PigeonHole
  <1> QED
    BY <1>2, <1>4

\* A string in memory where its block is the same.
LEMMA HoldsElsewhere ==
    ASSUME NEW r, NEW m, NEW q, Holds([s |-> r, m |-> m], q), NEW n \in MemType,
           r.p # 0 => r.p \in DOMAIN n /\ n[r.p] = m[r.p]
    PROVE  Holds([s |-> r, m |-> n], q)
  <1> DEFINE t == [s |-> r, m |-> m]
             u == [s |-> r, m |-> n]
  <1>1. t.s = r /\ t.m = m /\ u.s = r /\ u.m = n
    OBVIOUS
  <1>2. Holds(t, q)
    OBVIOUS
  <1>3. r \in StrType /\ u \in [s: StrType, m: MemType]
    BY <1>2 DEF Holds, HasBlock
  <1> HIDE DEF t, u
  <1>4. HasBlock(u)
    BY <1>1, <1>2, <1>3 DEF Holds, HasBlock
  <1>5. q \in Seq(Byte) /\ r.size = Len(q) /\ r.size <= r.cap /\ r.cap \in Nat /\ Len(q) \in Nat
    BY <1>1, <1>2, <1>3, LenProperties DEF Holds, StrType
  <1>6. \A i \in 1..Len(q) : n[r.p][i] = q[i]
    <2> TAKE i \in 1..Len(q)
    <2>1. r.p # 0
      BY <1>1, <1>2, <1>5 DEF Holds, HasBlock
    <2> QED
      BY <1>1, <1>2, <2>1 DEF Holds
  <1>7. Holds(u, q)
    BY <1>1, <1>4, <1>5, <1>6 DEF Holds
  <1> QED
    BY <1>7 DEF u

LEMMA HoldsNext ==
    ASSUME NEW z, NEW e, NEW q, Holds(e, q), e = [s |-> str'[z], m |-> bytes'], q = text'[z]
    PROVE  Holds(Here(z), text[z])'
  <1>1. Here(z)' = e /\ text'[z] = q
    BY DEF Here, At
  <1> QED
    BY <1>1 DEF Holds, HasBlock

\* The state of x becomes t, which holds q; the other strings stay.
LEMMA Replaced ==
    ASSUME StrInv, NEW x \in Strs, NEW t, NEW q, Holds(t, q), OwnBlock(Here(x), t),
           str' = [str EXCEPT ![x] = t.s], bytes' = t.m, text' = [text EXCEPT ![x] = q]
    PROVE  StrInv'
  <1>0. HasBlock(t) /\ q \in Seq(Byte)
    BY DEF Holds
  <1>1. /\ t.s \in StrType /\ t.m \in MemType /\ t = [s |-> t.s, m |-> t.m] /\ t.s.p \in Nat
        /\ t.s.p # 0 => t.s.p \in DOMAIN t.m
    BY <1>0, BlockTypes DEF HasBlock
  <1>2. /\ str \in [Strs -> StrType] /\ text \in [Strs -> Seq(Byte)]
        /\ \A y, z \in Strs : str[y].p = str[z].p /\ str[y].p # 0 => y = z
        /\ DOMAIN bytes = {str[z].p : z \in Strs} \ {0}
    BY DEF StrInv
  <1>3. /\ str' \in [Strs -> StrType] /\ text' \in [Strs -> Seq(Byte)] /\ bytes' \in MemType
        /\ str'[x] = t.s /\ text'[x] = q
        /\ \A z \in Strs : z # x => str'[z] = str[z] /\ text'[z] = text[z]
    BY <1>0, <1>1, <1>2
  <1>4. /\ DOMAIN t.m \ {t.s.p} = DOMAIN bytes \ {str[x].p} /\ t.s.p \notin DOMAIN bytes \ {str[x].p}
        /\ \A b \in DOMAIN bytes \ {str[x].p} : t.m[b] = bytes[b]
    BY StrHas DEF OwnBlock, Others
  <1>5. \A z \in Strs : z # x /\ str[z].p # 0 => str[z].p \in DOMAIN bytes \ {str[x].p}
    BY <1>2
  <1>6. ASSUME NEW z \in Strs PROVE Holds(Here(z), text[z])'
    <2>1. CASE z = x
      BY <1>1, <1>3, <2>1, HoldsNext
    <2>2. CASE z # x
      <3> DEFINE r == str[z]
                 m == bytes
                 e == [s |-> r, m |-> t.m]
      <3>1. Holds([s |-> r, m |-> m], text[z])
        BY StrHas
      <3>2. r.p # 0 => r.p \in DOMAIN t.m /\ t.m[r.p] = m[r.p]
        BY <1>4, <1>5, <2>2
      <3> HIDE DEF r, m
      <3>3. Holds(e, text[z])
        BY <1>1, <3>1, <3>2, HoldsElsewhere
      <3>4. e = [s |-> str'[z], m |-> bytes'] /\ text[z] = text'[z]
        BY <1>3, <2>2 DEF r
      <3> HIDE DEF e
      <3> QED
        BY <3>3, <3>4, HoldsNext
    <2> QED
      BY <2>1, <2>2
  <1>7. DOMAIN bytes' = {str'[z].p : z \in Strs} \ {0}
    <2>0. 0 \notin DOMAIN t.m
      BY <1>1, MemTypes
    <2>1. ASSUME NEW b \in DOMAIN t.m PROVE b # 0 /\ \E z \in Strs : str'[z].p = b
      <3>1. CASE b = t.s.p
        BY <1>3, <2>0, <3>1
      <3>2. CASE b # t.s.p
        <4>1. b \in DOMAIN bytes /\ b # str[x].p
          BY <1>4, <3>2
        <4>2. PICK z \in Strs : str[z].p = b
          BY <1>2, <4>1
        <4> QED
          BY <1>3, <2>0, <4>1, <4>2
      <3> QED
        BY <3>1, <3>2
    <2>2. ASSUME NEW z \in Strs, str'[z].p # 0 PROVE str'[z].p \in DOMAIN t.m
      <3>1. CASE z = x
        BY <1>1, <1>3, <2>2, <3>1
      <3>2. CASE z # x
        BY <1>3, <1>4, <1>5, <2>2, <3>2
      <3> QED
        BY <3>1, <3>2
    <2> QED
      BY <2>1, <2>2
  <1>8. ASSUME NEW y \in Strs, NEW z \in Strs, str'[y].p = str'[z].p, str'[y].p # 0 PROVE y = z
    <2>1. \A w \in Strs : w # x /\ str[w].p # 0 => str[w].p # t.s.p
      BY <1>4, <1>5
    <2> QED
      BY <1>2, <1>3, <1>8, <2>1
  <1> QED
    BY <1>3, <1>6, <1>7, <1>8 DEF StrInv

-----------------------------------------------------------------------------
(* The members of a string. *)
LEMMA Subsequence ==
    ASSUME NEW q \in Seq(Byte), NEW a \in Nat, NEW b \in Nat, a <= b, b <= Len(q)
    PROVE  LET r == SubSeq(q, a + 1, b)
           IN r \in Seq(Byte) /\ Len(r) = b - a /\ \A i \in 1..(b - a) : r[i] = q[a + i]
  <1> DEFINE r == SubSeq(q, a + 1, b)
  <1>1. Len(q) \in Nat /\ \A i \in 1..Len(q) : q[i] \in Byte
    BY LenProperties, ElementOfSeq
  <1>2. \A i \in (a + 1)..b : q[i] \in Byte
    BY <1>1
  <1>3. /\ r \in Seq(Byte) /\ Len(r) = (IF a + 1 <= b THEN b - (a + 1) + 1 ELSE 0)
        /\ \A i \in 1..(b - (a + 1) + 1) : r[i] = q[(a + 1) + i - 1]
    BY <1>2, SubSeqProperties
  <1> HIDE DEF r
  <1>4. Len(r) = b - a /\ \A i \in 1..(b - a) : r[i] = q[a + i]
    BY <1>3
  <1> QED
    BY <1>3, <1>4 DEF r

LEMMA GrownHolds ==
    ASSUME NEW t, NEW q, Holds(t, q), NEW w, Grows(t, w)
    PROVE  Holds(w, q) /\ OwnBlock(t, w)
  <1>1. /\ HasBlock(w) /\ t.s.cap <= w.s.cap /\ w.s.size = t.s.size /\ OwnBlock(t, w)
        /\ \A i \in 1..t.s.cap : w.m[w.s.p][i] = t.m[t.s.p][i]
    BY DEF Grows, Keeps
  <1>2. HasBlock(t) /\ q \in Seq(Byte) /\ t.s.size = Len(q) /\ Len(q) <= t.s.cap /\ Len(q) \in Nat
    BY LenProperties DEF Holds
  <1>3. t.s.cap \in Nat /\ w.s.cap \in Nat
    BY <1>1, <1>2, BlockTypes
  <1>4. \A i \in 1..Len(q) : i \in 1..t.s.cap /\ t.m[t.s.p][i] = q[i]
    BY <1>2, <1>3 DEF Holds
  <1> QED
    BY <1>1, <1>2, <1>3, <1>4 DEF Holds

\* A write behind the bytes in use.
LEMMA TailLaw ==
    ASSUME NEW t, NEW q, Holds(t, q), NEW data \in Seq(Byte), t.s.size + Len(data) <= t.s.cap
    PROVE  Holds(Poke(t, t.s.size, data), q) /\ OwnBlock(t, Poke(t, t.s.size, data))
  <1> DEFINE k == Len(q)
             u == Poke(t, k, data)
  <1>1. /\ HasBlock(t) /\ q \in Seq(Byte) /\ t.s.size = k /\ k <= t.s.cap /\ k \in Nat
        /\ \A i \in 1..k : t.m[t.s.p][i] = q[i]
    BY LenProperties DEF Holds
  <1>2. t.s.cap \in Nat /\ Len(data) \in Nat
    BY <1>1, BlockTypes, LenProperties
  <1>3. /\ HasBlock(u) /\ u.s = t.s /\ OwnBlock(t, u)
        /\ \A i \in 1..t.s.cap : u.m[u.s.p][i] =
              IF i \in (k + 1)..(k + Len(data)) THEN data[i - k] ELSE t.m[t.s.p][i]
    BY <1>1, <1>2, PokeLaw
  <1> HIDE DEF u
  <1>4. \A i \in 1..k : i \in 1..t.s.cap /\ i \notin (k + 1)..(k + Len(data))
    BY <1>1, <1>2
  <1>5. \A i \in 1..k : u.m[u.s.p][i] = q[i]
    BY <1>1, <1>3, <1>4
  <1>6. Holds(u, q)
    BY <1>1, <1>3, <1>5 DEF Holds
  <1> QED
    BY <1>1, <1>3, <1>6 DEF u

\* A write at the begin, of all the string.
LEMMA SetLaw ==
    ASSUME NEW t, HasBlock(t), NEW data \in Seq(Byte), Len(data) <= t.s.cap, NEW n, n = Len(data)
    PROVE  LET u == Size(Poke(t, 0, data), n)
           IN Holds(u, data) /\ OwnBlock(t, u)
  <1> DEFINE v == Poke(t, 0, data)
             u == Size(v, n)
  <1> HIDE DEF u
  <1>1. n \in Nat /\ t.s.cap \in Nat /\ 0 \in Nat /\ 0 + Len(data) <= t.s.cap
    BY BlockTypes, LenProperties
  <1>2. /\ HasBlock(v) /\ v.s = t.s /\ OwnBlock(t, v)
        /\ \A i \in 1..t.s.cap : v.m[v.s.p][i] =
              IF i \in (0 + 1)..(0 + Len(data)) THEN data[i - 0] ELSE t.m[t.s.p][i]
    BY <1>1, PokeLaw
  <1> HIDE DEF v
  <1>3. HasBlock(u) /\ u.s.p = v.s.p /\ u.s.cap = v.s.cap /\ u.s.size = n /\ u.m = v.m /\ OwnBlock(v, u)
    BY <1>1, <1>2, SizeLaw DEF u
  <1>4. \A i \in 1..n : u.m[u.s.p][i] = data[i]
    <2> TAKE i \in 1..n
    <2>1. i \in 1..t.s.cap /\ i \in (0 + 1)..(0 + Len(data)) /\ i - 0 = i
      BY <1>1
    <2> QED
      BY <1>2, <1>3, <2>1
  <1>5. Holds(u, data)
    BY <1>1, <1>2, <1>3, <1>4 DEF Holds
  <1>6. OwnBlock(t, u)
    BY <1>2, <1>3, OwnBlockTwice
  <1> QED
    BY <1>5, <1>6 DEF u, v

\* A string that is shorter than its block holds its content.
LEMMA ContentHolds ==
    ASSUME NEW t, HasBlock(t), t.s.size <= t.s.cap
    PROVE  Holds(t, Content(t))
  <1>1. t.s.size \in Nat /\ t.s.cap \in Nat
    BY BlockTypes
  <1>2. CASE t.s.cap = 0
    <2>1. t.s.size = 0
      BY <1>1, <1>2
    <2>2. Content(t) = <<>>
      BY <2>1, SubSeqEmpty DEF Content
    <2> QED
      BY <1>2, <2>1, <2>2, EmptySeq DEF Holds
  <1>3. CASE t.s.cap > 0
    <2> DEFINE b == t.m[t.s.p]
               c == SubSeq(b, 1, t.s.size)
    <2>1. t.s.p # 0 /\ b \in Seq(Byte) /\ Len(b) = t.s.cap
      BY <1>3, BlockTypes
    <2>2. Content(t) = c
      BY <2>1 DEF Content
    <2> HIDE DEF b
    <2>3. \A i \in 1..t.s.size : b[i] \in Byte
      BY <1>1, <2>1, ElementOfSeq
    <2>4. /\ c \in Seq(Byte) /\ Len(c) = (IF 1 <= t.s.size THEN t.s.size - 1 + 1 ELSE 0)
          /\ \A i \in 1..(t.s.size - 1 + 1) : c[i] = b[1 + i - 1]
      BY <1>1, <2>3, SubSeqProperties
    <2> HIDE DEF c
    <2>5. Len(c) = t.s.size /\ \A i \in 1..Len(c) : c[i] = b[i]
      BY <1>1, <2>4
    <2> QED
      BY <2>2, <2>4, <2>5 DEF Holds, b
  <1> QED
    BY <1>1, <1>2, <1>3

LEMMA AppendBytesLaw ==
    ASSUME NEW t, NEW q, Holds(t, q), Blocks \ DOMAIN t.m # {}, NEW data \in Seq(Byte)
    PROVE  Holds(AppendBytes(t, data), q \o data) /\ OwnBlock(t, AppendBytes(t, data))
  <1> DEFINE w == Ensure(t, Len(data))
  <1>1. HasBlock(t) /\ t.s.size = Len(q) /\ t.s.size <= t.s.cap /\ Len(data) \in Nat
    BY LenProperties DEF Holds
  <1>2. Grows(t, w) /\ t.s.size + Len(data) <= w.s.cap
    BY <1>1, EnsureLaw
  <1>3. AppendBytes(t, data) = Size(Poke(w, w.s.size, data), w.s.size + Len(data))
    BY DEF AppendBytes
  <1> HIDE DEF w
  <1> QED
    BY <1>1, <1>2, <1>3, AppendLaw

\* A new string.
LEMMA EmptyHolds ==
    ASSUME StrInv
    PROVE  LET e == At(EmptyStr, bytes)
           IN /\ Holds(e, <<>>) /\ HasBlock(e) /\ e.m = bytes /\ e.s.cap = 0 /\ e.s.size = 0 /\ Others(e) = DOMAIN bytes
              /\ Blocks \ DOMAIN e.m # {} /\ OwnBlock(e, e)
  <1> DEFINE e == At(EmptyStr, bytes)
  <1>1. bytes \in MemType /\ 0 \notin DOMAIN bytes /\ Blocks \ DOMAIN bytes # {}
    BY StrRoom DEF StrInv
  <1>2. e = [s |-> EmptyStr, m |-> bytes] /\ EmptyStr \in StrType
    BY DEF At, EmptyStr, StrType
  <1>3. e.s = EmptyStr /\ e.m = bytes /\ e.s.p = 0 /\ e.s.cap = 0 /\ e.s.size = 0
    BY <1>2 DEF EmptyStr
  <1> HIDE DEF e
  <1>4. e \in [s: StrType, m: MemType]
    BY <1>1, <1>2
  <1>5. HasBlock(e)
    BY <1>3, <1>4 DEF HasBlock
  <1>6. Holds(e, <<>>)
    BY <1>3, <1>5, EmptySeq DEF Holds
  <1>7. Others(e) = DOMAIN bytes /\ OwnBlock(e, e)
    BY <1>1, <1>3 DEF Others, OwnBlock
  <1> QED
    BY <1>1, <1>3, <1>5, <1>6, <1>7 DEF e

LEMMA NewLaw ==
    ASSUME StrInv, NEW k \in Nat
    PROVE  LET e == At(EmptyStr, bytes)
               w == Realloc(e, k)
           IN /\ Holds(w, <<>>) /\ OwnBlock(e, w)
              /\ \A data \in Seq(Byte) : Len(data) <= k =>
                    LET u == Size(Poke(w, 0, data), Len(data)) IN Holds(u, data) /\ OwnBlock(e, u)
  <1> DEFINE e == At(EmptyStr, bytes)
             w == Realloc(e, k)
  <1>1. Holds(e, <<>>) /\ HasBlock(e) /\ e.m = bytes /\ e.s.cap = 0 /\ Blocks \ DOMAIN e.m # {}
    BY EmptyHolds
  <1> HIDE DEF e
  <1>2. HasBlock(w) /\ w.s.cap = k /\ w.s.size = e.s.size /\ OwnBlock(e, w) /\ Keeps(e, w)
    BY <1>1, ReallocLaw
  <1> HIDE DEF w
  <1>3. Grows(e, w)
    BY <1>1, <1>2 DEF Grows
  <1>4. Holds(w, <<>>) /\ OwnBlock(e, w)
    BY <1>1, <1>3, GrownHolds
  <1>5. ASSUME NEW data \in Seq(Byte), Len(data) <= k
        PROVE  Holds(Size(Poke(w, 0, data), Len(data)), data) /\ OwnBlock(e, Size(Poke(w, 0, data), Len(data)))
    <2> DEFINE u == Size(Poke(w, 0, data), Len(data))
    <2>1. Holds(u, data) /\ OwnBlock(w, u)
      BY <1>2, <1>5, SetLaw
    <2> HIDE DEF u
    <2>2. OwnBlock(e, u)
      BY <1>2, <2>1, OwnBlockTwice
    <2> QED
      BY <2>1, <2>2 DEF u
  <1> QED
    BY <1>4, <1>5 DEF e, w

LEMMA NewOfLaw ==
    ASSUME StrInv, NEW data \in Seq(Byte)
    PROVE  Holds(NewOf(bytes, data), data) /\ OwnBlock(At(EmptyStr, bytes), NewOf(bytes, data))
  <1>1. CASE data = <<>>
    BY <1>1, EmptyHolds DEF NewOf
  <1>2. CASE data # <<>>
    <2> DEFINE k == Len(data) + 1
    <2>1. k \in Nat /\ Len(data) <= k
      BY LenProperties
    <2>2. NewOf(bytes, data) = Size(Poke(Realloc(At(EmptyStr, bytes), k), 0, data), Len(data))
      BY <1>2 DEF NewOf
    <2> HIDE DEF k
    <2> QED
      BY <2>1, <2>2, NewLaw
  <1> QED
    BY <1>1, <1>2

\* A temporary is moved into x.
LEMMA GivesLaw ==
    ASSUME StrInv, NEW x \in Strs, NEW u, NEW q, Holds(u, q), OwnBlock(At(EmptyStr, bytes), u), Gives(x, u, q)
    PROVE  StrInv'
  <1> DEFINE m == Free(u.m, str[x].p)
             t == [s |-> u.s, m |-> m]
  <1>1. /\ HasBlock(u) /\ u.s \in StrType /\ u.m \in MemType /\ u = [s |-> u.s, m |-> u.m]
        /\ u.s.p # 0 => u.s.p \in DOMAIN u.m
    BY BlockTypes DEF Holds, HasBlock
  <1>2. /\ DOMAIN u.m \ {u.s.p} = DOMAIN bytes /\ u.s.p \notin DOMAIN bytes
        /\ \A b \in DOMAIN bytes : u.m[b] = bytes[b]
    <2> DEFINE e == At(EmptyStr, bytes)
    <2>1. e.m = bytes /\ Others(e) = DOMAIN bytes
      BY EmptyHolds
    <2> HIDE DEF e
    <2>2. OwnBlock(e, u)
      BY DEF e
    <2> QED
      BY <2>1, <2>2 DEF OwnBlock, Others
  <1>3. DOMAIN m = DOMAIN u.m \ {str[x].p} /\ \A b \in DOMAIN m : m[b] = u.m[b]
    BY DEF Free
  <1>4. m \in MemType
    <2>1. DOMAIN u.m \subseteq Blocks /\ \A b \in DOMAIN u.m : u.m[b] \in Seq(Byte)
      BY <1>1, MemTypes
    <2>2. m \in [DOMAIN u.m \ {str[x].p} -> Seq(Byte)]
      BY <2>1 DEF Free
    <2> QED
      BY <2>1, <2>2, MemIs
  <1>5. str[x].p # 0 => str[x].p \in DOMAIN bytes
    BY StrHas
  <1> HIDE DEF m
  <1>6. Holds(t, q)
    <2>1. u.s.p # 0 => u.s.p \in DOMAIN m /\ m[u.s.p] = u.m[u.s.p]
      BY <1>1, <1>2, <1>3, <1>5
    <2>2. Holds([s |-> u.s, m |-> u.m], q)
      BY <1>1
    <2> QED
      BY <1>4, <2>1, <2>2, HoldsElsewhere
  <1>7. t.s = u.s /\ t.m = m
    OBVIOUS
  <1> HIDE DEF t
  <1>8. OwnBlock(Here(x), t)
    BY <1>2, <1>3, <1>7, StrHas DEF OwnBlock, Others
  <1>9. str' = [str EXCEPT ![x] = t.s] /\ bytes' = t.m /\ text' = [text EXCEPT ![x] = q]
    BY <1>7 DEF Gives, m
  <1> QED
    BY <1>6, <1>8, <1>9, Replaced

LEMMA LeavesLaw ==
    ASSUME StrInv, NEW x \in Strs, NEW t, NEW q, Holds(t, q), OwnBlock(Here(x), t), Leaves(x, t, q)
    PROVE  StrInv'
  BY Replaced DEF Leaves

-----------------------------------------------------------------------------
(* The operations. *)
LEMMA CStrKeeps ==
    ASSUME StrInv, NEW x \in Strs, CallCStr(x)
    PROVE  StrInv'
  <1> DEFINE t == Here(x)
             k == t.s.size + 1
             w == Reserve(t, k)
             u == Poke(w, w.s.size, <<Nul>>)
  <1>1. /\ Holds(t, text[x]) /\ HasBlock(t) /\ t.m = bytes /\ t.s.size \in Nat /\ Blocks \ DOMAIN t.m # {}
    BY StrHas, StrRoom
  <1>2. Leaves(x, u, text[x])
    BY DEF CallCStr, CStr
  <1> HIDE DEF t
  <1>3. k \in Nat /\ k = t.s.size + 1
    BY <1>1
  <1> HIDE DEF k
  <1>4. Grows(t, w) /\ k <= w.s.cap
    BY <1>1, <1>3, ReserveLaw
  <1> HIDE DEF w
  <1>5. Holds(w, text[x]) /\ OwnBlock(t, w)
    BY <1>1, <1>4, GrownHolds
  <1>6. w.s.size + Len(<<Nul>>) <= w.s.cap /\ <<Nul>> \in Seq(Byte)
    <2>1. w.s.size = t.s.size
      BY <1>4 DEF Grows
    <2>2. <<Nul>> \in Seq(Byte) /\ Len(<<Nul>>) = 1
      BY StrConstants
    <2> QED
      BY <1>3, <1>4, <2>1, <2>2
  <1>7. Holds(u, text[x]) /\ OwnBlock(w, u)
    BY <1>5, <1>6, TailLaw
  <1> HIDE DEF u
  <1>8. OwnBlock(t, u)
    BY <1>5, <1>7, OwnBlockTwice
  <1> QED
    BY <1>2, <1>7, <1>8, LeavesLaw DEF t

LEMMA ShrinkKeeps ==
    ASSUME StrInv, NEW x \in Strs, Shrink(x)
    PROVE  StrInv'
  <1>1. text[x] \in Seq(Byte) /\ Content(Here(x)) = text[x]
    BY StrHas, ContentLaw
  <1>2. Gives(x, NewOf(bytes, text[x]), text[x])
    BY <1>1 DEF Shrink
  <1> QED
    BY <1>1, <1>2, NewOfLaw, GivesLaw

LEMMA ResizeKeeps ==
    ASSUME StrInv, NEW x \in Strs, NEW n \in Nat, Resize(x, n)
    PROVE  StrInv'
  <1> DEFINE t == Here(x)
             w == Reserve(t, n)
             u == Size(w, n)
  <1>1. HasBlock(t) /\ t.m = bytes /\ Blocks \ DOMAIN t.m # {}
    BY StrHas, StrRoom
  <1>2. Leaves(x, u, Content(u))
    BY DEF Resize
  <1> HIDE DEF t
  <1>3. Grows(t, w) /\ n <= w.s.cap
    BY <1>1, ReserveLaw
  <1> HIDE DEF w
  <1>4. HasBlock(u) /\ u.s.cap = w.s.cap /\ u.s.size = n /\ OwnBlock(w, u)
    BY <1>3, SizeLaw DEF Grows
  <1> HIDE DEF u
  <1>5. Holds(u, Content(u))
    BY <1>3, <1>4, ContentHolds
  <1>6. OwnBlock(t, u)
    BY <1>3, <1>4, OwnBlockTwice DEF Grows
  <1> QED
    BY <1>2, <1>5, <1>6, LeavesLaw DEF t

LEMMA ReserveKeeps ==
    ASSUME StrInv, NEW x \in Strs, NEW n \in Nat, CallReserve(x, n)
    PROVE  StrInv'
  <1> DEFINE t == Here(x)
             w == Reserve(t, n)
  <1>1. Holds(t, text[x]) /\ HasBlock(t) /\ t.m = bytes /\ Blocks \ DOMAIN t.m # {}
    BY StrHas, StrRoom
  <1>2. Leaves(x, w, text[x])
    BY DEF CallReserve
  <1> HIDE DEF t
  <1>3. Grows(t, w)
    BY <1>1, ReserveLaw
  <1> HIDE DEF w
  <1>4. Holds(w, text[x]) /\ OwnBlock(t, w)
    BY <1>1, <1>3, GrownHolds
  <1> QED
    BY <1>2, <1>4, LeavesLaw DEF t

LEMMA ShiftKeeps ==
    ASSUME StrInv, NEW x \in Strs, NEW n \in Nat, ShiftLeft(x, n)
    PROVE  StrInv'
  <1> DEFINE t == Here(x)
             q == text[x]
             k == Len(q)
             rest == SubSeq(q, n + 1, k)
  <1>1. /\ HasBlock(t) /\ q \in Seq(Byte) /\ t.s = str[x] /\ str[x].size = k /\ k <= t.s.cap
        /\ k \in Nat /\ t.s.cap \in Nat /\ Content(t) = q
    BY StrHas, ContentLaw, LenProperties
  <1>2. Leaves(x, IF k <= n THEN Size(t, 0) ELSE Size(Poke(t, 0, rest), k - n), rest)
    BY <1>1 DEF ShiftLeft
  <1> HIDE DEF t
  <1>3. CASE k <= n
    <2> DEFINE u == Size(t, 0)
    <2>1. rest = <<>>
      BY <1>1, <1>3, SubSeqEmpty
    <2>2. HasBlock(u) /\ u.s.cap = t.s.cap /\ u.s.size = 0 /\ OwnBlock(t, u)
      BY <1>1, SizeLaw
    <2>3. Leaves(x, u, <<>>)
      BY <1>2, <1>3, <2>1
    <2> HIDE DEF u
    <2>4. Holds(u, <<>>)
      BY <1>1, <2>2, EmptySeq DEF Holds
    <2> QED
      BY <2>2, <2>3, <2>4, LeavesLaw DEF t
  <1>4. CASE ~(k <= n)
    <2> DEFINE u == Size(Poke(t, 0, rest), k - n)
    <2>1. n <= k
      BY <1>1, <1>4
    <2> HIDE DEF q, k
    <2>2. rest \in Seq(Byte) /\ Len(rest) = k - n
      BY <1>1, <2>1, Subsequence DEF k
    <2>3. Leaves(x, u, rest)
      BY <1>2, <1>4
    <2> HIDE DEF rest
    <2>4. Len(rest) <= t.s.cap
      BY <1>1, <2>1, <2>2
    <2>5. Holds(u, rest) /\ OwnBlock(t, u)
      BY <1>1, <2>2, <2>4, SetLaw
    <2> HIDE DEF u
    <2> QED
      BY <2>3, <2>5, LeavesLaw DEF t
  <1> QED
    BY <1>3, <1>4

LEMMA NewKeeps ==
    ASSUME StrInv, NEW x \in Strs, NEW n \in Nat, NEW c \in Chars, NewCap(x, n) \/ NewChars(x, n, c)
    PROVE  StrInv'
  <1> DEFINE e == At(EmptyStr, bytes)
  <1>1. CASE NewCap(x, n)
    <2> DEFINE w == Realloc(e, n)
    <2>1. Holds(w, <<>>) /\ OwnBlock(e, w)
      BY NewLaw
    <2>2. Gives(x, w, <<>>)
      BY <1>1 DEF NewCap
    <2> HIDE DEF w
    <2> QED
      BY <2>1, <2>2, GivesLaw
  <1>2. CASE NewChars(x, n, c)
    <2> DEFINE s == [i \in 1..n |-> c]
               k == n + 1
               w == Realloc(e, k)
               u == Size(Poke(w, 0, s), Len(s))
    <2>1. s \in Seq(Byte) /\ Len(s) = n /\ k \in Nat /\ Len(s) <= k
      BY DEF Byte
    <2>2. Gives(x, u, s)
      BY <1>2, <2>1 DEF NewChars
    <2> HIDE DEF s, k
    <2>3. Holds(u, s) /\ OwnBlock(e, u)
      BY <2>1, NewLaw
    <2> HIDE DEF u
    <2> QED
      BY <2>2, <2>3, GivesLaw
  <1> QED
    BY <1>1, <1>2

LEMMA SubstrKeeps ==
    ASSUME StrInv, NEW x \in Strs, NEW y \in Strs, NEW k \in Nat, NEW n \in Nat, Substr(x, y, k, n)
    PROVE  StrInv'
  <1> DEFINE q == text[y]
             z == str[y].size
             len == Min({n, z - k})
             part == IF z <= k THEN <<>> ELSE SubSeq(q, k + 1, k + len)
  <1>1. q \in Seq(Byte) /\ z \in Nat /\ Len(q) = z /\ Content(Here(y)) = q
    BY StrHas, ContentLaw
  <1>2. Gives(x, NewOf(bytes, part), part)
    BY <1>1 DEF Substr
  <1> HIDE DEF z
  <1>3. part \in Seq(Byte)
    <2>1. CASE z <= k
      BY <2>1, EmptySeq
    <2>2. CASE ~(z <= k)
      <3>1. {n, z - k} \in SUBSET Nat /\ {n, z - k} # {}
        BY <1>1, <2>2
      <3>2. len \in Nat /\ len <= z - k
        BY <3>1, LeastNatural
      <3> HIDE DEF len, q
      <3>3. k + len \in Nat /\ k <= k + len /\ k + len <= Len(q)
        BY <1>1, <2>2, <3>2
      <3>4. SubSeq(q, k + 1, k + len) \in Seq(Byte)
        BY <1>1, <3>3, Subsequence
      <3> QED
        BY <2>2, <3>4
    <2> QED
      BY <2>1, <2>2
  <1> HIDE DEF part
  <1> QED
    BY <1>2, <1>3, NewOfLaw, GivesLaw

\* strlen behind a pointer into y: it ends at the Nul behind the string at the
\* latest.
LEMMA CTextLaw ==
    ASSUME StrInv, NEW y \in Strs, NEW k \in Nat, Ended(y, k)
    PROVE  LET s == CText(Here(y), k)
           IN /\ s \in Seq(Byte) /\ k + Len(s) <= str[y].size
              /\ \A i \in 1..Len(s) : s[i] = bytes[str[y].p][k + i]
  <1> DEFINE b == bytes[str[y].p]
             S == {i \in DOMAIN b : i > k /\ b[i] = Nul}
             m == Min(S)
             s == SubSeq(b, k + 1, m - 1)
             z == str[y].size
             c == str[y].cap
  <1>1. z \in Nat /\ c \in Nat /\ k <= z /\ z < c /\ b[z + 1] = Nul
    BY StrHas DEF Ended
  <1>2. b \in Seq(Byte) /\ Len(b) = c /\ DOMAIN b = 1..c
    <2> DEFINE t == Here(y)
    <2>1. t.s = str[y] /\ t.m = bytes /\ HasBlock(t)
      BY StrHas
    <2> HIDE DEF t
    <2>2. t.s.cap > 0
      BY <1>1, <2>1
    <2>3. b \in Seq(Byte) /\ Len(b) = c
      BY <2>1, <2>2, BlockTypes
    <2> QED
      BY <2>3, LenProperties
  <1>3. CText(Here(y), k) = s
    BY StrHas DEF CText
  <1> HIDE DEF b, z, c
  <1>4. S \in SUBSET Nat /\ z + 1 \in S
    BY <1>1, <1>2
  <1>5. m \in S /\ m <= z + 1
    <2>1. S # {}
      BY <1>4
    <2> HIDE DEF S
    <2> QED
      BY <1>4, <2>1, LeastNatural
  <1>6. m \in Nat /\ k < m
    BY <1>2, <1>5
  <1> HIDE DEF m
  <1>7. m - 1 \in Nat /\ k <= m - 1 /\ m - 1 <= Len(b)
    BY <1>1, <1>2, <1>5, <1>6
  <1> DEFINE n == m - 1
  <1> HIDE DEF n
  <1>8. s \in Seq(Byte) /\ Len(s) = n - k /\ \A i \in 1..(n - k) : s[i] = b[k + i]
    BY <1>2, <1>7, Subsequence DEF n
  <1> HIDE DEF s
  <1>9. k + Len(s) <= z
    BY <1>1, <1>5, <1>6, <1>7, <1>8 DEF n
  <1> QED
    BY <1>3, <1>8, <1>9 DEF b, z

LEMMA AppendKeeps ==
    ASSUME StrInv, NEW x \in Strs, NEW data \in Seq(Byte), Leaves(x, AppendBytes(Here(x), data), text[x] \o data)
    PROVE  StrInv'
  <1> DEFINE t == Here(x)
             u == AppendBytes(t, data)
             r == text[x] \o data
  <1>1. Holds(t, text[x]) /\ t.m = bytes /\ Blocks \ DOMAIN t.m # {}
    BY StrHas, StrRoom
  <1> HIDE DEF t
  <1>2. Holds(u, r) /\ OwnBlock(t, u)
    BY <1>1, AppendBytesLaw
  <1>3. Leaves(x, u, r)
    BY DEF t
  <1> HIDE DEF u, r
  <1> QED
    BY <1>2, <1>3, LeavesLaw DEF t

LEMMA AppendStrKeeps ==
    ASSUME StrInv, NEW x \in Strs, NEW y \in Strs, AppendStr(x, y)
    PROVE  StrInv'
  <1>1. CASE x # y
    <2> DEFINE data == text[y]
    <2>1. data \in Seq(Byte) /\ Content(Here(y)) = data
      BY StrHas, ContentLaw
    <2>2. Leaves(x, AppendBytes(Here(x), data), text[x] \o data)
      BY <1>1, <2>1 DEF AppendStr
    <2> HIDE DEF data
    <2> QED
      BY <2>1, <2>2, AppendKeeps
  <1>2. CASE x = y
    <2> DEFINE t == Here(x)
               q == text[x]
               k == 2 * str[x].size
               w == Reserve(t, k)
               n == 2 * w.s.size
               u == Size(Poke(w, w.s.size, q), n)
               r == q \o q
    <2>1. /\ Holds(t, q) /\ HasBlock(t) /\ q \in Seq(Byte) /\ Content(t) = q /\ Len(q) = str[x].size
          /\ str[x].size \in Nat /\ t.s.size = Len(q) /\ t.m = bytes /\ Blocks \ DOMAIN t.m # {}
      BY StrHas, StrRoom, ContentLaw
    <2>2. Leaves(x, u, r)
      BY <1>2, <2>1 DEF AppendStr
    <2>3. k \in Nat /\ k = Len(q) + Len(q)
      BY <2>1
    <2> HIDE DEF t, q, k
    <2>4. Grows(t, w) /\ k <= w.s.cap
      BY <2>1, <2>3, ReserveLaw
    <2> HIDE DEF w
    <2>5. w.s.size = Len(q)
      BY <2>1, <2>4 DEF Grows
    <2>6. n = w.s.size + Len(q) /\ Len(q) + Len(q) <= w.s.cap
      BY <2>1, <2>3, <2>4, <2>5
    <2> HIDE DEF n
    <2>7. Holds(u, r) /\ OwnBlock(t, u)
      BY <2>1, <2>4, <2>6, AppendLaw
    <2> HIDE DEF u, r
    <2> QED
      BY <2>2, <2>7, LeavesLaw DEF t
  <1> QED
    BY <1>1, <1>2

LEMMA AppendPtrKeeps ==
    ASSUME StrInv, NEW x \in Strs, NEW y \in Strs, NEW k \in Nat, AppendPtr(x, y, k)
    PROVE  StrInv'
  <1> DEFINE s == CText(Here(y), k)
  <1>1. Ended(y, k) /\ Leaves(x, AppendBytes(Here(x), s), text[x] \o s)
    BY DEF AppendPtr
  <1>2. s \in Seq(Byte)
    BY <1>1, CTextLaw
  <1> HIDE DEF s
  <1> QED
    BY <1>1, <1>2, AppendKeeps

LEMMA AppendCharsKeeps ==
    ASSUME StrInv, NEW x \in Strs, NEW n \in Nat, NEW c \in Chars, NEW most \in Nat, AppendChars(x, n, c, most)
    PROVE  StrInv'
  <1> DEFINE t == Here(x)
             q == text[x]
             s == [i \in 1..n |-> c]
             w == Ensure(t, most)
             k == w.s.size + n
             u == Size(Poke(w, w.s.size, s), k)
             r == q \o s
  <1>1. /\ Holds(t, q) /\ HasBlock(t) /\ t.s.size = Len(q) /\ t.s.size <= t.s.cap /\ Len(q) \in Nat
        /\ t.m = bytes /\ Blocks \ DOMAIN t.m # {}
    BY StrHas, StrRoom
  <1>2. n <= most /\ Leaves(x, u, r)
    BY DEF AppendChars
  <1>3. s \in Seq(Byte) /\ Len(s) = n
    BY DEF Byte
  <1> HIDE DEF t, q, s
  <1>4. Grows(t, w) /\ t.s.size + most <= w.s.cap
    BY <1>1, EnsureLaw
  <1> HIDE DEF w
  <1>5. w.s.cap \in Nat
    BY <1>4, BlockTypes DEF Grows
  <1>6. k = w.s.size + Len(s) /\ Len(q) + Len(s) <= w.s.cap
    BY <1>1, <1>2, <1>3, <1>4, <1>5
  <1> HIDE DEF k
  <1>7. Holds(u, r) /\ OwnBlock(t, u)
    BY <1>1, <1>3, <1>4, <1>6, AppendLaw
  <1> HIDE DEF u, r
  <1> QED
    BY <1>2, <1>7, LeavesLaw DEF t

\* Another text is written over the string: data, of which q is the begin.
LEMMA Overwrite ==
    ASSUME StrInv, NEW x \in Strs, NEW data \in Seq(Byte), NEW q \in Seq(Byte), Len(q) <= Len(data),
           \A i \in 1..Len(q) : data[i] = q[i], NEW k \in Nat, Len(data) <= k,
           Leaves(x, Poke(Reserve(Size(Here(x), Len(q)), k), 0, data), q)
    PROVE  StrInv'
  <1> DEFINE h == Here(x)
             t == Size(h, Len(q))
             w == Reserve(t, k)
             u == Poke(w, 0, data)
  <1>1. HasBlock(h) /\ h.m = bytes /\ Blocks \ DOMAIN h.m # {} /\ Len(q) \in Nat /\ Len(data) \in Nat
    BY StrHas, StrRoom, LenProperties
  <1>2. Leaves(x, u, q)
    OBVIOUS
  <1> HIDE DEF h
  <1>3. HasBlock(t) /\ t.s.size = Len(q) /\ t.m = h.m /\ OwnBlock(h, t)
    BY <1>1, SizeLaw
  <1> HIDE DEF t
  <1>4. Grows(t, w) /\ k <= w.s.cap
    BY <1>1, <1>3, ReserveLaw
  <1> HIDE DEF w
  <1>5. HasBlock(w) /\ w.s.size = Len(q) /\ OwnBlock(t, w) /\ w.s.cap \in Nat
    BY <1>3, <1>4, BlockTypes DEF Grows
  <1>6. Len(data) <= w.s.cap
    BY <1>1, <1>4, <1>5
  <1>7. Holds(u, q) /\ OwnBlock(w, u)
    BY <1>5, <1>6, WriteLaw
  <1> HIDE DEF u
  <1>8. OwnBlock(h, w)
    BY <1>3, <1>5, OwnBlockTwice
  <1>9. OwnBlock(h, u)
    BY <1>7, <1>8, OwnBlockTwice
  <1> QED
    BY <1>2, <1>7, <1>9, LeavesLaw DEF h

LEMMA Emptied ==
    ASSUME StrInv, NEW x \in Strs, Leaves(x, Size(Here(x), 0), <<>>)
    PROVE  StrInv'
  <1> DEFINE t == Here(x)
             u == Size(t, 0)
  <1>1. HasBlock(t) /\ t.s.cap \in Nat
    BY StrHas
  <1>2. Leaves(x, u, <<>>)
    OBVIOUS
  <1> HIDE DEF t
  <1>3. HasBlock(u) /\ u.s.cap = t.s.cap /\ u.s.size = 0 /\ OwnBlock(t, u)
    BY <1>1, SizeLaw
  <1> HIDE DEF u
  <1>4. Holds(u, <<>>)
    BY <1>1, <1>3, EmptySeq DEF Holds
  <1> QED
    BY <1>2, <1>3, <1>4, LeavesLaw DEF t

LEMMA AssignStrKeeps ==
    ASSUME StrInv, NEW x \in Strs, NEW y \in Strs, AssignStr(x, y)
    PROVE  StrInv'
  <1> DEFINE q == text[y]
             k == Len(q) + 1
  <1>1. q \in Seq(Byte) /\ Len(q) \in Nat /\ str[y].size = Len(q) /\ Content(Here(y)) = q
    BY StrHas, ContentLaw
  <1>2. CASE Len(q) = 0
    <2>1. q = <<>>
      BY <1>1, <1>2, EmptySeq
    <2>2. Leaves(x, Size(Here(x), 0), <<>>)
      BY <1>1, <1>2, <2>1 DEF AssignStr
    <2> QED
      BY <2>2, Emptied
  <1>3. CASE Len(q) # 0
    <2>1. Leaves(x, Poke(Reserve(Size(Here(x), Len(q)), k), 0, q), q)
      BY <1>1, <1>3 DEF AssignStr
    <2>2. k \in Nat /\ Len(q) <= k /\ Len(q) <= Len(q)
      BY <1>1
    <2> HIDE DEF q, k
    <2> QED
      BY <1>1, <2>1, <2>2, Overwrite
  <1> QED
    BY <1>2, <1>3

LEMMA AssignPtrKeeps ==
    ASSUME StrInv, NEW x \in Strs, NEW y \in Strs, NEW k \in Nat, AssignPtr(x, y, k)
    PROVE  StrInv'
  <1> DEFINE s == CText(Here(y), k)
  <1>1. Ended(y, k) /\ (x = y => Len(s) = str[x].size - k)
    BY DEF AssignPtr
  <1>2. /\ s \in Seq(Byte) /\ k + Len(s) <= str[y].size
        /\ \A i \in 1..Len(s) : s[i] = bytes[str[y].p][k + i]
    BY <1>1, CTextLaw
  <1>3. Len(s) \in Nat
    BY <1>2, LenProperties
  <1>4. CASE s = <<>>
    <2>1. Leaves(x, Size(Here(x), 0), <<>>)
      BY <1>4 DEF AssignPtr
    <2> QED
      BY <2>1, Emptied
  <1>5. CASE s # <<>> /\ x # y
    <2> DEFINE data == Append(s, Nul)
               n == Len(s) + 1
    <2>1. Leaves(x, Poke(Reserve(Size(Here(x), Len(s)), n), 0, data), s)
      BY <1>5 DEF AssignPtr
    <2> HIDE DEF s
    <2>2. data \in Seq(Byte) /\ Len(data) = n /\ \A i \in 1..Len(s) : data[i] = s[i]
      BY <1>2, StrConstants, AppendProperties
    <2>3. n \in Nat /\ Len(s) <= n
      BY <1>3
    <2> HIDE DEF data, n
    <2>4. Len(s) <= Len(data) /\ Len(data) <= n
      BY <2>2, <2>3
    <2> QED
      BY <1>2, <2>1, <2>2, <2>3, <2>4, Overwrite
  <1>6. CASE s # <<>> /\ x = y /\ k = 0
    <2> DEFINE t == Here(x)
    <2>1. Leaves(x, t, s)
      BY <1>6 DEF AssignPtr
    <2>2. t.s = str[x] /\ t.m = bytes /\ HasBlock(t) /\ str[x].size \in Nat /\ str[x].size <= str[x].cap
      BY StrHas
    <2> HIDE DEF s, t
    <2>3. Len(s) = str[x].size /\ \A i \in 1..Len(s) : s[i] = bytes[str[x].p][i]
      BY <1>1, <1>2, <1>6, <2>2
    <2>4. Holds(t, s)
      BY <1>2, <2>2, <2>3 DEF Holds
    <2>5. OwnBlock(t, t)
      BY <2>2, SameGrows DEF Grows
    <2> QED
      BY <2>1, <2>4, <2>5, LeavesLaw DEF t
  <1>7. CASE s # <<>> /\ x = y /\ k # 0
    <2> DEFINE h == Here(x)
               z == str[x].size
               n == z - k
               t == Size(h, n)
               old == bytes[str[x].p]
               data == SubSeq(old, k + 1, k + n + 1)
               u == Poke(t, 0, data)
    <2>1. /\ h.s = str[x] /\ h.m = bytes /\ HasBlock(h) /\ z \in Nat /\ str[x].cap \in Nat
          /\ z < str[x].cap
      BY <1>1, <1>7, StrHas DEF Ended
    <2>2. Len(s) = n
      BY <1>1, <1>7
    <2>3. old \in Seq(Byte) /\ Len(old) = str[x].cap
      <3> HIDE DEF h
      <3>1. h.s.cap > 0
        BY <2>1
      <3> QED
        BY <2>1, <3>1, BlockTypes
    <2>4. t.s.size = n /\ HasBlock(t) /\ t.s.cap = str[x].cap /\ OwnBlock(h, t)
      <3>1. n \in Nat
        BY <1>3, <2>2
      <3> HIDE DEF h, n
      <3>2. t.s.size = n /\ HasBlock(t) /\ t.s.cap = h.s.cap /\ OwnBlock(h, t)
        BY <2>1, <3>1, SizeLaw
      <3> HIDE DEF t
      <3> QED
        BY <2>1, <3>2
    <2>5. Leaves(x, u, s)
      BY <1>7, <2>4 DEF AssignPtr
    <2> HIDE DEF s, t, old, h, z, n
    <2>6. n \in Nat /\ n = z - k
      BY <1>3, <2>2 DEF n
    <2>7. k + n + 1 \in Nat /\ k <= k + n + 1 /\ k + n + 1 <= Len(old)
      BY <2>1, <2>3, <2>6
    <2> DEFINE e == k + n + 1
    <2> HIDE DEF e
    <2>8. data \in Seq(Byte) /\ Len(data) = e - k /\ \A i \in 1..(e - k) : data[i] = old[k + i]
      BY <2>3, <2>7, Subsequence DEF e
    <2> HIDE DEF data
    <2>9. Len(data) = n + 1 /\ \A i \in 1..(n + 1) : data[i] = old[k + i]
      BY <2>6, <2>8 DEF e
    <2>10. Len(s) <= Len(data) /\ Len(data) <= t.s.cap
      BY <2>1, <2>2, <2>3, <2>4, <2>6, <2>7, <2>9
    <2>11. \A i \in 1..Len(s) : data[i] = s[i]
      <3>1. \A i \in 1..n : s[i] = old[k + i] /\ i \in 1..(n + 1)
        BY <1>2, <1>7, <2>2, <2>6 DEF old
      <3> QED
        BY <2>2, <2>9, <3>1
    <2>12. Holds(u, s) /\ OwnBlock(t, u)
      BY <1>2, <2>2, <2>4, <2>8, <2>10, <2>11, WriteLaw
    <2> HIDE DEF u
    <2>13. OwnBlock(h, u)
      BY <2>4, <2>12, OwnBlockTwice
    <2> QED
      BY <2>5, <2>12, <2>13, LeavesLaw DEF h
  <1> QED
    BY <1>4, <1>5, <1>6, <1>7

LEMMA MoveKeeps ==
    ASSUME StrInv, NEW x \in Strs, NEW y \in Strs, MoveStr(x, y)
    PROVE  StrInv'
  <1> DEFINE m == Free(bytes, str[x].p)
  <1>1. /\ x # y /\ bytes' = m
        /\ str' = [str EXCEPT ![x] = str[y], ![y] = EmptyStr]
        /\ text' = [text EXCEPT ![x] = text[y], ![y] = <<>>]
    BY DEF MoveStr
  <1>2. /\ str \in [Strs -> StrType] /\ text \in [Strs -> Seq(Byte)] /\ bytes \in MemType
        /\ \A u, z \in Strs : str[u].p = str[z].p /\ str[u].p # 0 => u = z
        /\ DOMAIN bytes = {str[z].p : z \in Strs} \ {0}
    BY DEF StrInv
  <1>3. EmptyStr \in StrType /\ EmptyStr.p = 0 /\ <<>> \in Seq(Byte)
    BY EmptySeq DEF EmptyStr, StrType
  <1>4. /\ str' \in [Strs -> StrType] /\ text' \in [Strs -> Seq(Byte)]
        /\ str'[x] = str[y] /\ str'[y] = EmptyStr /\ text'[x] = text[y] /\ text'[y] = <<>>
        /\ \A z \in Strs : z # x /\ z # y => str'[z] = str[z] /\ text'[z] = text[z]
    BY <1>1, <1>2, <1>3
  <1>5. /\ m \in MemType /\ DOMAIN m = DOMAIN bytes \ {str[x].p} /\ \A b \in DOMAIN m : m[b] = bytes[b]
    <2>1. DOMAIN bytes \subseteq Blocks /\ \A b \in DOMAIN bytes : bytes[b] \in Seq(Byte)
      BY <1>2, MemTypes
    <2>2. m \in [DOMAIN bytes \ {str[x].p} -> Seq(Byte)] /\ \A b \in DOMAIN m : m[b] = bytes[b]
      BY <2>1 DEF Free
    <2> QED
      BY <2>1, <2>2, MemIs
  <1> HIDE DEF m
  <1>6. ASSUME NEW z \in Strs, z # x PROVE Holds([s |-> str[z], m |-> m], text[z])
    <2>1. Holds([s |-> str[z], m |-> bytes], text[z])
      BY StrHas
    <2>2. str[z].p # 0 => str[z].p \in DOMAIN m /\ m[str[z].p] = bytes[str[z].p]
      BY <1>2, <1>5, <1>6
    <2> QED
      BY <1>5, <2>1, <2>2, HoldsElsewhere
  <1>7. Holds([s |-> EmptyStr, m |-> m], <<>>)
    <2>1. Holds([s |-> EmptyStr, m |-> bytes], <<>>)
      BY EmptyHolds DEF At
    <2> QED
      BY <1>3, <1>5, <2>1, HoldsElsewhere
  <1>8. ASSUME NEW z \in Strs PROVE Holds(Here(z), text[z])'
    <2>1. CASE z = y
      BY <1>1, <1>4, <1>7, <2>1, HoldsNext
    <2>2. CASE z = x
      BY <1>1, <1>4, <1>6, <2>2, HoldsNext
    <2>3. CASE z # x /\ z # y
      BY <1>1, <1>4, <1>6, <2>3, HoldsNext
    <2> QED
      BY <2>1, <2>2, <2>3
  <1>9. DOMAIN bytes' = {str'[z].p : z \in Strs} \ {0}
    <2>1. ASSUME NEW b \in DOMAIN m PROVE b # 0 /\ \E z \in Strs : str'[z].p = b
      <3>1. PICK z \in Strs : str[z].p = b /\ b # 0 /\ z # x
        BY <1>2, <1>5
      <3> QED
        BY <1>4, <3>1
    <2>2. ASSUME NEW z \in Strs, str'[z].p # 0 PROVE str'[z].p \in DOMAIN m
      <3>1. PICK w \in Strs : w # x /\ str'[z] = str[w]
        BY <1>1, <1>3, <1>4, <2>2
      <3> QED
        BY <1>2, <1>5, <2>2, <3>1
    <2> QED
      BY <1>1, <2>1, <2>2
  <1>10. ASSUME NEW w \in Strs, NEW z \in Strs, str'[w].p = str'[z].p, str'[w].p # 0 PROVE w = z
    <2>1. w # y /\ z # y
      BY <1>3, <1>4, <1>10
    <2>2. CASE w = x
      BY <1>2, <1>4, <1>10, <2>1, <2>2
    <2>3. CASE z = x
      BY <1>2, <1>4, <1>10, <2>1, <2>3
    <2>4. CASE w # x /\ z # x
      BY <1>2, <1>4, <1>10, <2>1, <2>4
    <2> QED
      BY <2>2, <2>3, <2>4
  <1> QED
    BY <1>1, <1>4, <1>5, <1>8, <1>9, <1>10 DEF StrInv

LEMMA SwapKeeps ==
    ASSUME StrInv, NEW x \in Strs, NEW y \in Strs, SwapStr(x, y)
    PROVE  StrInv'
  <1>1. /\ x # y /\ bytes' = bytes
        /\ str' = [str EXCEPT ![x] = str[y], ![y] = str[x]]
        /\ text' = [text EXCEPT ![x] = text[y], ![y] = text[x]]
    BY DEF SwapStr
  <1>2. /\ str \in [Strs -> StrType] /\ text \in [Strs -> Seq(Byte)] /\ bytes \in MemType
        /\ \A u, z \in Strs : str[u].p = str[z].p /\ str[u].p # 0 => u = z
        /\ DOMAIN bytes = {str[z].p : z \in Strs} \ {0}
    BY DEF StrInv
  <1>3. /\ str' \in [Strs -> StrType] /\ text' \in [Strs -> Seq(Byte)]
        /\ str'[x] = str[y] /\ str'[y] = str[x] /\ text'[x] = text[y] /\ text'[y] = text[x]
        /\ \A z \in Strs : z # x /\ z # y => str'[z] = str[z] /\ text'[z] = text[z]
    BY <1>1, <1>2
  <1>4. \A z \in Strs : Holds([s |-> str[z], m |-> bytes], text[z])
    BY StrHas
  <1>5. ASSUME NEW z \in Strs PROVE Holds(Here(z), text[z])'
    <2>1. CASE z = y
      BY <1>1, <1>3, <1>4, <2>1, HoldsNext
    <2>2. CASE z = x
      BY <1>1, <1>3, <1>4, <2>2, HoldsNext
    <2>3. CASE z # x /\ z # y
      BY <1>1, <1>3, <1>4, <2>3, HoldsNext
    <2> QED
      BY <2>1, <2>2, <2>3
  <1>6. DOMAIN bytes' = {str'[z].p : z \in Strs} \ {0}
    <2>1. ASSUME NEW z \in Strs
          PROVE  (\E w \in Strs : str'[w] = str[z]) /\ (\E w \in Strs : str[w] = str'[z])
      BY <1>1, <1>3
    <2>2. {str'[z].p : z \in Strs} = {str[z].p : z \in Strs}
      <3>1. ASSUME NEW z \in Strs PROVE str'[z].p \in {str[w].p : w \in Strs}
        BY <2>1
      <3>2. ASSUME NEW z \in Strs PROVE str[z].p \in {str'[w].p : w \in Strs}
        BY <2>1
      <3> QED
        BY <3>1, <3>2
    <2> QED
      BY <1>1, <1>2, <2>2
  <1>7. ASSUME NEW w \in Strs, NEW z \in Strs, str'[w].p = str'[z].p, str'[w].p # 0 PROVE w = z
    BY <1>1, <1>2, <1>3, <1>7
  <1> QED
    BY <1>1, <1>2, <1>3, <1>5, <1>6, <1>7 DEF StrInv

LEMMA StrNextKeeps == StrInv /\ [StrNext]_strVars => StrInv'
  <1> SUFFICES ASSUME StrInv, [StrNext]_strVars PROVE StrInv'
    OBVIOUS
  <1>0. MaxSize \in Nat /\ 0..MaxSize \subseteq Nat /\ 1 \in Nat /\ 2 \in Nat
    BY StrConstants
  <1>1. ASSUME NEW x \in Strs, CallCStr(x) \/ Shrink(x) PROVE StrInv'
    BY <1>1, CStrKeeps, ShrinkKeeps
  <1>2. ASSUME NEW x \in Strs, NEW n \in 0..MaxSize, Resize(x, n) \/ ShiftLeft(x, n) PROVE StrInv'
    BY <1>0, <1>2, ResizeKeeps, ShiftKeeps
  <1>3. ASSUME NEW x \in Strs, CallReserve(x, MaxSize) PROVE StrInv'
    BY <1>0, <1>3, ReserveKeeps
  <1>4. ASSUME NEW x \in Strs, NewCap(x, MaxSize) PROVE StrInv'
    <2> DEFINE w == Realloc(At(EmptyStr, bytes), MaxSize)
    <2>1. Holds(w, <<>>) /\ OwnBlock(At(EmptyStr, bytes), w)
      BY <1>0, NewLaw
    <2>2. Gives(x, w, <<>>)
      BY <1>4 DEF NewCap
    <2> HIDE DEF w
    <2> QED
      BY <2>1, <2>2, GivesLaw
  <1>5. ASSUME NEW x \in Strs, NEW c \in Chars,
               NewChars(x, MaxSize, c) \/ AppendChars(x, 1, c, 1) \/ WriteNumber(x, c)
        PROVE  StrInv'
    <2>1. CASE NewChars(x, MaxSize, c)
      BY <1>0, <2>1, NewKeeps
    <2>2. CASE AppendChars(x, 1, c, 1)
      BY <1>0, <2>2, AppendCharsKeeps
    <2>3. CASE WriteNumber(x, c)
      BY <1>0, <2>3, AppendCharsKeeps DEF WriteNumber
    <2> QED
      BY <1>5, <2>1, <2>2, <2>3
  <1>6. ASSUME NEW x \in Strs, NEW y \in Strs,
               AssignStr(x, y) \/ MoveStr(x, y) \/ SwapStr(x, y) \/ AppendStr(x, y)
        PROVE  StrInv'
    BY <1>6, AssignStrKeeps, MoveKeeps, SwapKeeps, AppendStrKeeps
  <1>7. ASSUME NEW x \in Strs, NEW y \in Strs, NEW k \in 0..MaxSize, AssignPtr(x, y, k) \/ AppendPtr(x, y, k)
        PROVE  StrInv'
    BY <1>0, <1>7, AssignPtrKeeps, AppendPtrKeeps
  <1>8. ASSUME NEW x \in Strs, NEW y \in Strs, NEW k \in 0..MaxSize, NEW n \in {1, MaxSize}, Substr(x, y, k, n)
        PROVE  StrInv'
    <2>1. k \in Nat /\ n \in Nat
      BY <1>0
    <2> QED
      BY <1>8, <2>1, SubstrKeeps
  <1>9. CASE UNCHANGED strVars
    <2>1. str' = str /\ bytes' = bytes /\ text' = text
      BY <1>9 DEF strVars
    <2>2. ASSUME NEW z \in Strs PROVE Holds(Here(z), text[z])'
      BY <2>1, StrHas, HoldsNext
    <2> QED
      BY <2>1, <2>2 DEF StrInv
  <1> QED
    BY <1>1, <1>2, <1>3, <1>4, <1>5, <1>6, <1>7, <1>8, <1>9 DEF StrNext

LEMMA StrInitHolds == StrInit => StrInv
  <1> SUFFICES ASSUME StrInit PROVE StrInv
    OBVIOUS
  <1>1. str = [x \in Strs |-> EmptyStr] /\ bytes = <<>> /\ text = [x \in Strs |-> <<>>]
    BY DEF StrInit
  <1>2. EmptyStr \in StrType /\ EmptyStr.p = 0 /\ EmptyStr.cap = 0 /\ EmptyStr.size = 0
    BY DEF EmptyStr, StrType
  <1>3. <<>> \in Seq(Byte) /\ Len(<<>>) = 0
    BY EmptySeq
  <1>4. bytes \in MemType /\ DOMAIN bytes = {}
    <2>1. <<>> \in [{} -> Seq(Byte)] /\ DOMAIN <<>> = {}
      OBVIOUS
    <2>2. {} \in SUBSET Blocks
      OBVIOUS
    <2> QED
      BY <1>1, <2>1, <2>2, MemIs
  <1>5. ASSUME NEW x \in Strs PROVE Holds(Here(x), text[x])
    <2> DEFINE t == Here(x)
    <2>1. t = [s |-> EmptyStr, m |-> bytes] /\ text[x] = <<>>
      BY <1>1 DEF Here, At
    <2> HIDE DEF t
    <2>2. t \in [s: StrType, m: MemType] /\ t.s = EmptyStr
      BY <1>2, <1>4, <2>1
    <2>3. HasBlock(t)
      BY <1>2, <2>2 DEF HasBlock
    <2>4. Holds(t, <<>>)
      BY <1>2, <1>3, <2>2, <2>3 DEF Holds
    <2> QED
      BY <2>1, <2>4 DEF t
  <1> QED
    BY <1>1, <1>2, <1>3, <1>4, <1>5 DEF StrInv

\* After any sequence of calls a string holds what std::string would: a string
\* that is appended to itself, a pointer into itself and growing included; no
\* byte is written behind a block, and each block has one owner.
THEOREM StringsKept == StrSpec => []TextKept
  <1>1. StrSpec => []StrInv
    BY StrInitHolds, StrNextKeeps, PTL DEF StrSpec
  <1>2. StrInv => TextKept
    <2> SUFFICES ASSUME StrInv PROVE TextKept
      OBVIOUS
    <2>1. ASSUME NEW x \in Strs
          PROVE  LET t == Here(x)
                 IN /\ Content(t) = text[x] /\ t.s.size = Len(text[x]) /\ t.s.size <= t.s.cap
                    /\ t.s.p # 0 => t.s.p \in DOMAIN bytes /\ Len(bytes[t.s.p]) = t.s.cap
      <3> DEFINE t == Here(x)
      <3>1. /\ Holds(t, text[x]) /\ HasBlock(t) /\ t.s = str[x] /\ t.m = bytes
            /\ t.s.size = Len(text[x]) /\ t.s.size <= t.s.cap
        BY StrHas
      <3>2. Content(t) = text[x]
        BY <3>1, ContentLaw
      <3> HIDE DEF t
      <3>3. t.s.p # 0 => t.s.p \in DOMAIN bytes /\ Len(bytes[t.s.p]) = t.s.cap
        BY <3>1 DEF HasBlock
      <3> QED
        BY <3>1, <3>2, <3>3 DEF t
    <2>2. /\ DOMAIN bytes = {str[x].p : x \in Strs} \ {0}
          /\ \A x, y \in Strs : str[x].p = str[y].p /\ str[x].p # 0 => x = y
      BY DEF StrInv
    <2> QED
      BY <2>1, <2>2 DEF TextKept
  <1> QED
    BY <1>1, <1>2, PTL
=============================================================================
