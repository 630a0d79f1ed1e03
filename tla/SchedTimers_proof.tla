------------------------- MODULE SchedTimers_proof -------------------------
(***************************************************************************)
(* Proofs about SchedTimers, for any coroutines, any delays and integers   *)
(* of any width: no iterator of the multimap dangles, no timer is early,   *)
(* and the scheduler does not sleep past the next timer as long as the     *)
(* delays are not negative as an int.                                      *)
(***************************************************************************)
EXTENDS SchedTimers, FiniteSetTheorems, TLAPS

Timer == [node : Nodes, user : Users, left : Int]

TypeInv ==
    /\ timer \in Seq(Timer)
    /\ it \in Nodes \cup {NoNode}
    /\ waitMs \in 0..UintMax
    /\ tid \in [Users -> Nodes \cup {NoNode}]
    /\ where \in [Users -> {"out", "run", "sleep", "io"}]
    /\ pc \in {"epoll", "events", "expired"}
    /\ batch \in Seq(Users)
    /\ running \in Users \cup {NoUser}
    /\ slept \in Nat /\ busy \in Nat
    /\ rem \in [Users -> Int]

\* One coroutine runs at most, and only between two waits of the loop.  An
\* IoEvent with a timer exists while its coroutine runs or waits for I/O.
ModeInv ==
    /\ \A u \in Users : where[u] = "run" <=> running = u
    /\ \A u \in Users : where[u] \in {"out", "sleep"} => tid[u] = NoNode
    /\ \A u \in Users : where[u] = "io" => tid[u] # NoNode
    /\ pc # "expired" => batch = <<>>
    /\ pc = "epoll" => running = NoUser

InTimer(u) == \E k \in 1..Len(timer) : timer[k].user = u
InBatch(u) == \E k \in 1..Len(batch) : batch[k] = u

\* Timers are in order, and nodes and coroutines are not doubled.
OrderInv ==
    /\ \A j, k \in 1..Len(timer) : j < k => timer[j].left <= timer[k].left
    /\ \A j, k \in 1..Len(timer) : timer[j].node = timer[k].node => j = k
    /\ \A j, k \in 1..Len(timer) : timer[j].user = timer[k].user => j = k

\* Who has expired still waits to be resumed, once, and has no timer any more.
BatchInv ==
    /\ \A k \in 1..Len(batch) : where[batch[k]] \in {"sleep", "io"}
    /\ \A j, k \in 1..Len(batch) : batch[j] = batch[k] => j = k
    /\ \A k \in 1..Len(batch) : ~InTimer(batch[k])

\* Who waits with a time limit, or owns an IoEvent with a timer, has a timer
\* or is expired; nobody else does.
PlaceInv ==
    \A u \in Users : InTimer(u) \/ InBatch(u) <=> where[u] \in {"sleep", "io"} \/ tid[u] # NoNode

\* The two kinds of iterators.
HintInv == it \in Live \cup {NoNode}
IdInv ==
    \A u \in Users : tid[u] # NoNode /\ ~InBatch(u) =>
        \E k \in 1..Len(timer) : timer[k].node = tid[u] /\ timer[k].user = u

\* A timer has not less left than its coroutine has still to wait.
TimeInv ==
    /\ \A k \in 1..Len(timer) : rem[timer[k].user] <= timer[k].left \/ rem[timer[k].user] <= 0
    /\ NotEarly

Inv == TypeInv /\ ModeInv /\ OrderInv /\ BatchInv /\ PlaceInv /\ HintInv /\ IdInv /\ TimeInv

\* No delay is negative as an int.
ShortDelays == Delays \subseteq 0..IntMax

\* From the reading of the clock to the next sleep, the time to wait is not
\* longer than what any timer has left and has had since.
WaitInv ==
    /\ \A k \in 1..Len(timer) : timer[k].left <= IntMax
    /\ pc = "expired" \/ (pc = "epoll" /\ slept = 0) =>
          \A k \in 1..Len(timer) : waitMs <= IntMax /\ waitMs <= timer[k].left + busy

-----------------------------------------------------------------------------
(* Sequences. *)

\* A set of positions with all smaller ones is an interval: how Earlier,
\* NotLater and Expired, which count, name places of the multimap.
LEMMA Prefix ==
    ASSUME NEW n \in Nat, NEW S \in SUBSET (1..n),
           \A j, k \in 1..n : j < k /\ k \in S => j \in S
    PROVE  Cardinality(S) \in 0..n /\ S = 1..Cardinality(S)
  <1>1. IsFiniteSet(1..n) /\ Cardinality(1..n) = n
    BY FS_Interval
  <1>2. IsFiniteSet(S) /\ Cardinality(S) \in Nat /\ Cardinality(S) <= n
    BY <1>1, FS_Subset, FS_CardinalityType
  <1>3. ASSUME NEW k \in S PROVE k <= Cardinality(S)
    <2>1. (1..k) \subseteq S
      OBVIOUS
    <2>2. IsFiniteSet(1..k) /\ Cardinality(1..k) = k
      BY FS_Interval
    <2> QED
      BY <2>1, <2>2, <1>2, FS_Subset
  <1>4. ASSUME NEW k \in 1..n, k \notin S PROVE k > Cardinality(S)
    <2>1. S \subseteq 1..(k - 1)
      BY <1>4
    <2>2. IsFiniteSet(1..(k - 1)) /\ Cardinality(1..(k - 1)) = k - 1
      <3>1. k - 1 \in Nat
        OBVIOUS
      <3> QED
        BY <3>1, FS_Interval
    <2>3. Cardinality(S) <= Cardinality(1..(k - 1))
      BY <2>1, <2>2, FS_Subset
    <2> QED
      BY <2>2, <2>3, <1>2
  <1>5. PICK c \in 0..n : c = Cardinality(S)
    BY <1>2
  <1>6. \A k \in 1..n : k \in S <=> k <= c
    BY <1>3, <1>4, <1>5
  <1>7. S = 1..c
    <2>1. \A k \in S : k \in 1..c
      BY <1>6
    <2>2. \A k \in 1..c : k \in S
      BY <1>6
    <2> QED
      BY <2>1, <2>2
  <1> QED
    BY <1>5, <1>7

\* A set whose elements are all equal.
LEMMA AtMostOne ==
    ASSUME NEW S, \A j, k \in S : j = k
    PROVE  (S = {} => Cardinality(S) = 0) /\ (S # {} => Cardinality(S) = 1)
  <1>1. ASSUME S # {} PROVE Cardinality(S) = 1
    <2>1. PICK x : S = {x}
      BY <1>1
    <2> QED
      BY <2>1, FS_Singleton
  <1> QED
    BY <1>1, FS_EmptySet

\* Two sequences, one after the other, position by position.
LEMMA Joined ==
    ASSUME NEW S, NEW q \in Seq(S), NEW r \in Seq(S)
    PROVE  /\ q \o r \in Seq(S) /\ Len(q) \in Nat /\ Len(r) \in Nat /\ Len(q \o r) = Len(q) + Len(r)
           /\ \A k \in 1..(Len(q) + Len(r)) : (q \o r)[k] = IF k <= Len(q) THEN q[k] ELSE r[k - Len(q)]
  OBVIOUS

\* InsertAt, position by position.
LEMMA Inserted ==
    ASSUME NEW S, NEW q \in Seq(S), NEW p \in 1..(Len(q) + 1), NEW e \in S
    PROVE  /\ InsertAt(q, p, e) \in Seq(S)
           /\ Len(InsertAt(q, p, e)) = Len(q) + 1
           /\ \A k \in 1..(Len(q) + 1) : InsertAt(q, p, e)[k] =
                 IF k < p THEN q[k] ELSE IF k = p THEN e ELSE q[k - 1]
  <1> DEFINE a == SubSeq(q, 1, p - 1)
             b == SubSeq(q, p, Len(q))
  <1>0. Len(q) \in Nat
    OBVIOUS
  <1>1. a \in Seq(S) /\ Len(a) = p - 1 /\ \A k \in 1..(p - 1) : a[k] = q[k]
    OBVIOUS
  <1>2. b \in Seq(S) /\ Len(b) = Len(q) - p + 1 /\ \A k \in 1..(Len(q) - p + 1) : b[k] = q[p + k - 1]
    OBVIOUS
  <1>3. InsertAt(q, p, e) = (a \o <<e>>) \o b
    BY DEF InsertAt
  <1> HIDE DEF a, b
  <1>4. a \o <<e>> \in Seq(S) /\ Len(a \o <<e>>) = p
    BY <1>1
  <1> DEFINE c == a \o <<e>>
  <1>4a. c \in Seq(S) /\ Len(c) = p /\ c[p] = e /\ \A k \in 1..(p - 1) : c[k] = q[k]
    BY <1>1, <1>4
  <1> HIDE DEF c
  <1>4b. /\ c \o b \in Seq(S) /\ Len(c \o b) = Len(c) + Len(b)
         /\ \A k \in 1..(Len(c) + Len(b)) : (c \o b)[k] = IF k <= Len(c) THEN c[k] ELSE b[k - Len(c)]
    BY <1>4a, <1>2, Joined
  <1>5. c \o b \in Seq(S) /\ Len(c \o b) = Len(q) + 1
    BY <1>2, <1>0, <1>4a, <1>4b
  <1>6. ASSUME NEW k \in 1..(Len(q) + 1)
        PROVE (c \o b)[k] = IF k < p THEN q[k] ELSE IF k = p THEN e ELSE q[k - 1]
    <2>1. CASE k <= p
      BY <2>1, <1>2, <1>0, <1>4a, <1>4b
    <2>2. CASE k > p
      <3>1. (c \o b)[k] = b[k - p]
        BY <2>2, <1>2, <1>0, <1>4a, <1>4b
      <3>2. k - p \in 1..(Len(q) - p + 1) /\ p + (k - p) - 1 = k - 1
        BY <2>2
      <3> QED
        BY <3>1, <3>2, <2>2, <1>2
    <2>3. k <= p \/ k > p
      BY <1>0
    <2> QED
      BY <2>1, <2>2, <2>3, Zenon
  <1> QED
    BY <1>3, <1>5, <1>6 DEF c

\* RemoveAt, position by position.
LEMMA Removed ==
    ASSUME NEW S, NEW q \in Seq(S), NEW p \in 1..Len(q)
    PROVE  /\ RemoveAt(q, p) \in Seq(S)
           /\ Len(RemoveAt(q, p)) = Len(q) - 1
           /\ \A k \in 1..(Len(q) - 1) : RemoveAt(q, p)[k] = IF k < p THEN q[k] ELSE q[k + 1]
  <1> DEFINE a == SubSeq(q, 1, p - 1)
             b == SubSeq(q, p + 1, Len(q))
  <1>0. Len(q) \in Nat
    OBVIOUS
  <1>1. a \in Seq(S) /\ Len(a) = p - 1 /\ \A k \in 1..(p - 1) : a[k] = q[k]
    OBVIOUS
  <1>2. b \in Seq(S) /\ Len(b) = Len(q) - p /\ \A k \in 1..(Len(q) - p) : b[k] = q[p + k]
    OBVIOUS
  <1>3. RemoveAt(q, p) = a \o b
    BY DEF RemoveAt
  <1> HIDE DEF a, b
  <1>3a. /\ a \o b \in Seq(S) /\ Len(a \o b) = Len(a) + Len(b)
         /\ \A k \in 1..(Len(a) + Len(b)) : (a \o b)[k] = IF k <= Len(a) THEN a[k] ELSE b[k - Len(a)]
    BY <1>1, <1>2, Joined
  <1>4. a \o b \in Seq(S) /\ Len(a \o b) = Len(q) - 1
    BY <1>0, <1>1, <1>2, <1>3a
  <1>5. ASSUME NEW k \in 1..(Len(q) - 1)
        PROVE (a \o b)[k] = IF k < p THEN q[k] ELSE q[k + 1]
    <2>1. CASE k < p
      BY <2>1, <1>0, <1>1, <1>2, <1>3a
    <2>2. CASE k >= p
      <3>1. (a \o b)[k] = b[k - (p - 1)]
        BY <2>2, <1>0, <1>1, <1>2, <1>3a
      <3>2. k - (p - 1) \in 1..(Len(q) - p) /\ p + (k - (p - 1)) = k + 1
        BY <2>2
      <3> QED
        BY <3>1, <3>2, <2>2, <1>2
    <2>3. k < p \/ k >= p
      BY <1>0
    <2> QED
      BY <2>1, <2>2, <2>3, Zenon
  <1> QED
    BY <1>3, <1>4, <1>5

-----------------------------------------------------------------------------
(* The multimap. *)

\* The fields of a timer.
LEMMA TimerType ==
    ASSUME TypeInv
    PROVE  /\ Len(timer) \in Nat
           /\ \A k \in 1..Len(timer) : /\ timer[k] \in Timer /\ timer[k].node \in Nodes
                                       /\ timer[k].user \in Users /\ timer[k].left \in Int
  <1>1. timer \in Seq(Timer)
    BY DEF TypeInv
  <1>2. Len(timer) \in Nat /\ \A k \in 1..Len(timer) : timer[k] \in Timer
    BY <1>1
  <1>3. \A e \in Timer : e.node \in Nodes /\ e.user \in Users /\ e.left \in Int
    BY DEF Timer
  <1> QED
    BY <1>2, <1>3

\* In a multimap in order, the counts are positions.
LEMMA Counts ==
    ASSUME TypeInv, OrderInv, NEW ms \in Int
    PROVE  /\ Earlier(ms) \in 0..Len(timer) /\ NotLater(ms) \in 0..Len(timer)
           /\ \A k \in 1..Len(timer) : timer[k].left < ms <=> k <= Earlier(ms)
           /\ \A k \in 1..Len(timer) : timer[k].left <= ms <=> k <= NotLater(ms)
  <1> DEFINE n == Len(timer)
             A == {k \in 1..n : timer[k].left < ms}
             B == {k \in 1..n : timer[k].left <= ms}
  <1>1. n \in Nat /\ \A k \in 1..n : timer[k] \in Timer /\ timer[k].left \in Int
    BY TimerType DEF TypeInv
  <1>2. \A j, k \in 1..n : j < k => timer[j].left <= timer[k].left
    BY DEF OrderInv
  <1>3. A \in SUBSET (1..n) /\ \A j, k \in 1..n : j < k /\ k \in A => j \in A
    BY <1>1, <1>2
  <1>4. B \in SUBSET (1..n) /\ \A j, k \in 1..n : j < k /\ k \in B => j \in B
    BY <1>1, <1>2
  <1>5. Earlier(ms) = Cardinality(A) /\ NotLater(ms) = Cardinality(B)
    BY DEF Earlier, NotLater
  <1> HIDE DEF n
  <1>6. Cardinality(A) \in 0..n /\ A = 1..Cardinality(A)
    BY <1>1, <1>3, Prefix
  <1>7. Cardinality(B) \in 0..n /\ B = 1..Cardinality(B)
    BY <1>1, <1>4, Prefix
  <1>8. ASSUME NEW k \in 1..n PROVE timer[k].left < ms <=> k <= Cardinality(A)
    <2>1. k \in A <=> k \in 1..Cardinality(A)
      BY <1>6
    <2> QED
      BY <2>1, <1>6, <1>1
  <1>9. ASSUME NEW k \in 1..n PROVE timer[k].left <= ms <=> k <= Cardinality(B)
    <2>1. k \in B <=> k \in 1..Cardinality(B)
      BY <1>7
    <2> QED
      BY <2>1, <1>7, <1>1
  <1> QED
    BY <1>5, <1>6, <1>7, <1>8, <1>9 DEF n

\* The expired timers are the first ones.
LEMMA ExpiredFirst ==
    ASSUME TypeInv, OrderInv
    PROVE  Expired \in 0..Len(timer) /\ \A k \in 1..Len(timer) : timer[k].left <= 0 <=> k <= Expired
  <1>1. Expired = NotLater(0)
    BY DEF Expired, NotLater
  <1>2. NotLater(0) \in 0..Len(timer) /\ \A k \in 1..Len(timer) : timer[k].left <= 0 <=> k <= NotLater(0)
    BY Counts
  <1> QED
    BY <1>1, <1>2

\* The place after the timers of the same time is one that keeps the order.
LEMMA PlaceAfter ==
    ASSUME TypeInv, OrderInv, NEW ms \in Int
    PROVE  NotLater(ms) + 1 \in (Earlier(ms) + 1)..(NotLater(ms) + 1)
  <1>1. /\ Earlier(ms) \in 0..Len(timer) /\ NotLater(ms) \in 0..Len(timer)
        /\ \A k \in 1..Len(timer) : timer[k].left < ms <=> k <= Earlier(ms)
        /\ \A k \in 1..Len(timer) : timer[k].left <= ms <=> k <= NotLater(ms)
    BY Counts
  <1>2. Len(timer) \in Nat /\ \A k \in 1..Len(timer) : timer[k].left \in Int
    BY TimerType
  <1>3. Earlier(ms) <= NotLater(ms)
    <2>1. CASE Earlier(ms) = 0
      BY <2>1, <1>1, <1>2
    <2>2. CASE Earlier(ms) # 0
      <3>1. Earlier(ms) \in 1..Len(timer)
        BY <2>2, <1>1, <1>2
      <3>2. timer[Earlier(ms)].left < ms
        BY <3>1, <1>1, <1>2
      <3> QED
        BY <3>1, <3>2, <1>1, <1>2
    <2> QED
      BY <2>1, <2>2
  <1> QED
    BY <1>1, <1>2, <1>3

\* add_timer and add_io_timer: a new node at a place where it is in order.
LEMMA InsertLaw ==
    ASSUME TypeInv, OrderInv, NEW u \in Users, NEW ms \in Int, NEW n \in Nodes \ Live,
           NEW p \in (Earlier(ms) + 1)..(NotLater(ms) + 1),
           InsertTimer(u, ms, n, p), ~InTimer(u)
    PROVE  LET e == [node |-> n, user |-> u, left |-> ms]
           IN  /\ timer' \in Seq(Timer)
               /\ OrderInv'
               /\ \A k \in 1..Len(timer') : timer'[k] = e \/ \E j \in 1..Len(timer) : timer'[k] = timer[j]
               /\ \A j \in 1..Len(timer) : \E k \in 1..Len(timer') : timer'[k] = timer[j]
               /\ \E k \in 1..Len(timer') : timer'[k] = e
  <1> DEFINE e == [node |-> n, user |-> u, left |-> ms]
             t == timer'
             l == Len(timer)
  <1>1. l \in Nat /\ timer \in Seq(Timer) /\ \A k \in 1..l : timer[k] \in Timer /\ timer[k].left \in Int
    BY TimerType DEF TypeInv
  <1>2. e \in Timer
    BY DEF Timer
  <1>3. /\ Earlier(ms) \in 0..l /\ NotLater(ms) \in 0..l
        /\ \A k \in 1..l : timer[k].left < ms <=> k <= Earlier(ms)
        /\ \A k \in 1..l : timer[k].left <= ms <=> k <= NotLater(ms)
    BY Counts
  <1>4. p \in 1..(l + 1) /\ \A k \in 1..l : (k < p => timer[k].left <= ms) /\ (k >= p => ms <= timer[k].left)
    BY <1>1, <1>3
  <1>5. /\ t \in Seq(Timer) /\ Len(t) = l + 1
        /\ \A k \in 1..(l + 1) : t[k] = IF k < p THEN timer[k] ELSE IF k = p THEN e ELSE timer[k - 1]
    <2>1. t = InsertAt(timer, p, e)
      BY DEF InsertTimer
    <2> HIDE DEF t, e
    <2>2. timer \in Seq(Timer) /\ p \in 1..(Len(timer) + 1) /\ e \in Timer
      BY <1>1, <1>2, <1>4
    <2>3. /\ InsertAt(timer, p, e) \in Seq(Timer)
          /\ Len(InsertAt(timer, p, e)) = Len(timer) + 1
          /\ \A k \in 1..(Len(timer) + 1) : InsertAt(timer, p, e)[k] =
                IF k < p THEN timer[k] ELSE IF k = p THEN e ELSE timer[k - 1]
      <3> HIDE DEF l
      <3> QED
        BY <2>2, Inserted
    <2> QED
      BY <2>1, <2>3
  <1>6. \A j \in 1..l : timer[j].node # n /\ timer[j].user # u
    BY DEF Live, InTimer
  <1>7. /\ \A j, k \in 1..l : j < k => timer[j].left <= timer[k].left
        /\ \A j, k \in 1..l : timer[j].node = timer[k].node => j = k
        /\ \A j, k \in 1..l : timer[j].user = timer[k].user => j = k
    BY DEF OrderInv
  <1>8. e.node = n /\ e.user = u /\ e.left = ms
    OBVIOUS
  <1> DEFINE o(k) == IF k < p THEN k ELSE k - 1
  <1>9. \A k \in 1..(l + 1) : k # p => o(k) \in 1..l /\ t[k] = timer[o(k)]
    BY <1>1, <1>4, <1>5
  <1>10. t[p] = e
    BY <1>4, <1>5
  <1> HIDE DEF e, t, l
  <1>11. ASSUME NEW j \in 1..(l + 1), NEW k \in 1..(l + 1)
         PROVE /\ j < k => t[j].left <= t[k].left
               /\ t[j].node = t[k].node => j = k
               /\ t[j].user = t[k].user => j = k
    <2>1. CASE j # p /\ k # p
      <3>1. o(j) \in 1..l /\ o(k) \in 1..l /\ t[j] = timer[o(j)] /\ t[k] = timer[o(k)]
        BY <2>1, <1>9
      <3>2. (j < k => o(j) < o(k)) /\ (o(j) = o(k) => j = k)
        BY <2>1, <1>4, <1>1
      <3> HIDE DEF o
      <3> QED
        BY <3>1, <3>2, <1>7
    <2>2. CASE j = p /\ k # p
      <3>1. o(k) \in 1..l /\ t[k] = timer[o(k)] /\ t[j] = e
        BY <2>2, <1>9, <1>10
      <3>2. j < k => o(k) >= p
        BY <2>2, <1>4, <1>1
      <3> HIDE DEF o
      <3> QED
        BY <3>1, <3>2, <1>6, <1>8, <1>4
    <2>3. CASE j # p /\ k = p
      <3>1. o(j) \in 1..l /\ t[j] = timer[o(j)] /\ t[k] = e
        BY <2>3, <1>9, <1>10
      <3>2. j < k => o(j) < p
        BY <2>3, <1>4, <1>1
      <3> HIDE DEF o
      <3> QED
        BY <3>1, <3>2, <1>6, <1>8, <1>4
    <2>4. CASE j = p /\ k = p
      BY <2>4, <1>1, <1>4
    <2> QED
      BY <2>1, <2>2, <2>3, <2>4
  <1>12. OrderInv'
    BY <1>11, <1>5 DEF OrderInv, t
  <1>13. \A k \in 1..Len(t) : t[k] = e \/ \E j \in 1..l : t[k] = timer[j]
    BY <1>5, <1>9, <1>10
  <1>14. ASSUME NEW j \in 1..l PROVE \E k \in 1..Len(t) : t[k] = timer[j]
    <2>1. CASE j < p
      BY <2>1, <1>1, <1>5, <1>4
    <2>2. CASE j >= p
      <3>1. j + 1 \in 1..(l + 1) /\ t[j + 1] = timer[j + 1 - 1] /\ j + 1 - 1 = j
        BY <2>2, <1>1, <1>5, <1>4
      <3> QED
        BY <3>1, <1>5
    <2> QED
      BY <2>1, <2>2, <1>4
  <1> QED
    BY <1>5, <1>12, <1>13, <1>14, <1>10, <1>4 DEF t, e, l

\* del_timer: the node's timer and no other one is erased.
LEMMA RemoveLaw ==
    ASSUME TypeInv, OrderInv, NEW n \in Live, timer' = RemoveAt(timer, IndexOf(n))
    PROVE  /\ timer' \in Seq(Timer)
           /\ OrderInv'
           /\ IndexOf(n) \in 1..Len(timer) /\ timer[IndexOf(n)].node = n
           /\ \A k \in 1..Len(timer') : \E j \in 1..Len(timer) : j # IndexOf(n) /\ timer'[k] = timer[j]
           /\ \A j \in 1..Len(timer) : j # IndexOf(n) => \E k \in 1..Len(timer') : timer'[k] = timer[j]
  <1> DEFINE t == timer'
             l == Len(timer)
  <1>1. l \in Nat /\ timer \in Seq(Timer) /\ \A k \in 1..l : timer[k] \in Timer /\ timer[k].left \in Int
    BY TimerType DEF TypeInv
  <1>2. IndexOf(n) \in 1..l /\ timer[IndexOf(n)].node = n
    BY DEF Live, IndexOf
  <1>3. PICK p \in 1..l : p = IndexOf(n)
    BY <1>2
  <1>4. /\ t \in Seq(Timer) /\ Len(t) = l - 1
        /\ \A k \in 1..(l - 1) : t[k] = IF k < p THEN timer[k] ELSE timer[k + 1]
    BY <1>1, <1>3, Removed
  <1>5. /\ \A j, k \in 1..l : j < k => timer[j].left <= timer[k].left
        /\ \A j, k \in 1..l : timer[j].node = timer[k].node => j = k
        /\ \A j, k \in 1..l : timer[j].user = timer[k].user => j = k
    BY DEF OrderInv
  <1> DEFINE o(k) == IF k < p THEN k ELSE k + 1
  <1>6. \A k \in 1..(l - 1) : o(k) \in 1..l /\ o(k) # p /\ t[k] = timer[o(k)]
    BY <1>1, <1>4
  <1>7. \A j, k \in 1..(l - 1) : (j < k => o(j) < o(k)) /\ (o(j) = o(k) => j = k)
    BY <1>1
  <1> HIDE DEF t, l
  <1>8. ASSUME NEW j \in 1..l, j # p PROVE \E k \in 1..Len(t) : t[k] = timer[j]
    <2>1. CASE j < p
      BY <2>1, <1>1, <1>4
    <2>2. CASE j > p
      <3>1. j - 1 \in 1..(l - 1) /\ t[j - 1] = timer[j - 1 + 1] /\ j - 1 + 1 = j
        BY <2>2, <1>1, <1>4
      <3> QED
        BY <3>1, <1>4
    <2> QED
      BY <2>1, <2>2, <1>8
  <1> HIDE DEF o
  <1>9. OrderInv'
    <2>1. ASSUME NEW j \in 1..(l - 1), NEW k \in 1..(l - 1)
          PROVE /\ j < k => t[j].left <= t[k].left
                /\ t[j].node = t[k].node => j = k
                /\ t[j].user = t[k].user => j = k
      BY <1>5, <1>6, <1>7
    <2> QED
      BY <2>1, <1>4 DEF OrderInv, t
  <1> QED
    BY <1>2, <1>3, <1>4, <1>6, <1>8, <1>9 DEF t, l

-----------------------------------------------------------------------------
(* The invariant. *)

LEMMA InitInv == Init => Inv
  <1> SUFFICES ASSUME Init PROVE Inv
    OBVIOUS
  <1> USE TimerAssumption
  <1>1. timer = <<>> /\ batch = <<>> /\ Len(timer) = 0 /\ Len(batch) = 0
    BY DEF Init
  <1>2. TypeInv
    BY DEF Init, TypeInv, Infinite, UintMax
  <1>3. ModeInv
    BY <1>1 DEF Init, ModeInv
  <1>4. OrderInv /\ BatchInv /\ TimeInv
    BY <1>1 DEF OrderInv, BatchInv, TimeInv, NotEarly
  <1>5. PlaceInv /\ IdInv
    BY <1>1 DEF Init, PlaceInv, IdInv, InTimer, InBatch
  <1>6. HintInv
    BY DEF Init, HintInv
  <1> QED
    BY <1>2, <1>3, <1>4, <1>5, <1>6 DEF Inv

\* co::sleep, and the first IoEvent::wait: the coroutine has no timer yet.
LEMMA ArmInv ==
    ASSUME Inv, NEW u \in Users, NEW ms \in Int, NEW w \in {"sleep", "io"},
           NEW n \in Nodes \ Live, NEW p \in (Earlier(ms) + 1)..(NotLater(ms) + 1),
           running = u, tid[u] = NoNode,
           InsertTimer(u, ms, n, p), it' = it \/ it' = n, waitMs' \in 0..UintMax,
           tid' = [tid EXCEPT ![u] = IF w = "io" THEN n ELSE NoNode],
           rem' = [rem EXCEPT ![u] = ms], Yields(u, w)
    PROVE  Inv'
  <1> USE TimerAssumption
  <1> DEFINE e == [node |-> n, user |-> u, left |-> ms]
  <1>0. TypeInv /\ ModeInv /\ OrderInv /\ BatchInv /\ PlaceInv /\ HintInv /\ IdInv /\ TimeInv
    BY DEF Inv
  <1>1. /\ where[u] = "run" /\ u # NoUser /\ n \in Nodes /\ n # NoNode
        /\ ~InTimer(u) /\ ~InBatch(u)
    BY <1>0 DEF ModeInv, PlaceInv
  <1>2. /\ timer' \in Seq(Timer)
        /\ OrderInv'
        /\ \A k \in 1..Len(timer') : timer'[k] = e \/ \E j \in 1..Len(timer) : timer'[k] = timer[j]
        /\ \A j \in 1..Len(timer) : \E k \in 1..Len(timer') : timer'[k] = timer[j]
        /\ \E k \in 1..Len(timer') : timer'[k] = e
    BY <1>0, <1>1, InsertLaw
  <1>3. e.node = n /\ e.user = u /\ e.left = ms
    OBVIOUS
  <1> HIDE DEF e
  <1>4. /\ batch' = batch /\ running' = NoUser /\ pc' = pc /\ slept' = slept /\ busy' = busy
        /\ where' = [where EXCEPT ![u] = w]
    BY DEF Yields
  <1>5. /\ where' \in [Users -> {"out", "run", "sleep", "io"}] /\ where'[u] = w
        /\ \A d \in Users : d # u => where'[d] = where[d] /\ where[d] # "run"
    BY <1>0, <1>1, <1>4 DEF TypeInv, ModeInv
  <1>6. /\ tid' \in [Users -> Nodes \cup {NoNode}] /\ tid'[u] = (IF w = "io" THEN n ELSE NoNode)
        /\ \A d \in Users : d # u => tid'[d] = tid[d]
    BY <1>0, <1>1 DEF TypeInv
  <1>7. /\ rem' \in [Users -> Int] /\ rem'[u] = ms
        /\ \A d \in Users : d # u => rem'[d] = rem[d]
    BY <1>0 DEF TypeInv
  <1>8. InTimer(u)' /\ \A d \in Users : d # u => (InTimer(d)' <=> InTimer(d))
    BY <1>2, <1>3 DEF InTimer
  <1>9. \A d \in Users : InBatch(d)' <=> InBatch(d)
    BY <1>4 DEF InBatch
  <1>10. TypeInv'
    <2>1. it' \in Nodes \cup {NoNode}
      BY <1>0, <1>1 DEF TypeInv
    <2> QED
      BY <1>0, <1>2, <1>4, <1>5, <1>6, <1>7, <2>1 DEF TypeInv
  <1>11. ModeInv'
    <2>1. \A d \in Users : where'[d] # "run" /\ d # NoUser
      BY <1>5
    <2>2. /\ \A d \in Users : where'[d] \in {"out", "sleep"} => tid'[d] = NoNode
          /\ \A d \in Users : where'[d] = "io" => tid'[d] # NoNode
      BY <1>0, <1>1, <1>5, <1>6 DEF ModeInv
    <2>3. pc' # "expired" => batch' = <<>>
      BY <1>0, <1>4 DEF ModeInv
    <2>4. \A d \in Users : where'[d] = "run" <=> running' = d
      BY <1>4, <2>1
    <2> QED
      BY <1>4, <2>2, <2>3, <2>4 DEF ModeInv
  <1>12. BatchInv'
    <2>1. \A k \in 1..Len(batch) : batch[k] \in Users /\ batch[k] # u /\ ~InTimer(batch[k])
      BY <1>0, <1>1 DEF BatchInv, InBatch, TypeInv
    <2>2. \A k \in 1..Len(batch) : where'[batch[k]] \in {"sleep", "io"} /\ ~InTimer(batch[k])'
      <3> TAKE k \in 1..Len(batch)
      <3>1. \A d \in Users : d # u /\ ~InTimer(d) => ~InTimer(d)'
        BY <1>8
      <3>2. where'[batch[k]] \in {"sleep", "io"}
        BY <1>0, <1>5, <2>1 DEF BatchInv
      <3>3. PICK d \in Users : d = batch[k]
        BY <2>1
      <3>4. ~InTimer(d)'
        BY <2>1, <3>1, <3>3
      <3> QED
        BY <1>4, <3>2, <3>3, <3>4 DEF InTimer
    <2> QED
      BY <1>0, <1>4, <2>2 DEF BatchInv, InTimer
  <1>13. PlaceInv'
    <2> SUFFICES ASSUME NEW d \in Users
                 PROVE InTimer(d)' \/ InBatch(d)' <=> where'[d] \in {"sleep", "io"} \/ tid'[d] # NoNode
      BY DEF PlaceInv
    <2>1. CASE d = u
      BY <2>1, <1>5, <1>8
    <2>2. CASE d # u
      BY <2>2, <1>0, <1>5, <1>6, <1>8, <1>9 DEF PlaceInv
    <2> QED
      BY <2>1, <2>2
  <1>14. HintInv'
    <2>1. CASE it' = n
      BY <2>1, <1>2, <1>3 DEF HintInv, Live
    <2>2. CASE it' = it
      BY <2>2, <1>0, <1>2 DEF HintInv, Live
    <2> QED
      BY <2>1, <2>2
  <1>15. IdInv'
    <2> SUFFICES ASSUME NEW d \in Users, tid'[d] # NoNode, ~InBatch(d)'
                 PROVE \E k \in 1..Len(timer') : timer'[k].node = tid'[d] /\ timer'[k].user = d
      BY DEF IdInv
    <2>1. CASE d = u
      BY <2>1, <1>2, <1>3, <1>6
    <2>2. CASE d # u
      <3>1. PICK j \in 1..Len(timer) : timer[j].node = tid[d] /\ timer[j].user = d
        BY <2>2, <1>0, <1>6, <1>9 DEF IdInv
      <3> QED
        BY <3>1, <2>2, <1>2, <1>6
    <2> QED
      BY <2>1, <2>2
  <1>16. TimeInv'
    <2>1. ASSUME NEW k \in 1..Len(timer')
          PROVE rem'[timer'[k].user] <= timer'[k].left \/ rem'[timer'[k].user] <= 0
      <3>1. CASE timer'[k] = e
        BY <3>1, <1>3, <1>7
      <3>2. ASSUME NEW j \in 1..Len(timer), timer'[k] = timer[j]
            PROVE rem'[timer'[k].user] <= timer'[k].left \/ rem'[timer'[k].user] <= 0
        <4>1. timer[j].user # u /\ timer[j].user \in Users
          BY <1>0, <1>1, TimerType DEF InTimer
        <4> QED
          BY <3>2, <4>1, <1>0, <1>7 DEF TimeInv
      <3> QED
        BY <3>1, <3>2, <1>2
    <2>2. NotEarly'
      <3>1. \A k \in 1..Len(batch) : batch[k] \in Users /\ batch[k] # u
        BY <1>0, <1>1 DEF InBatch, TypeInv
      <3> QED
        BY <3>1, <1>0, <1>4, <1>7 DEF TimeInv, NotEarly
    <2> QED
      BY <2>1, <2>2 DEF TimeInv
  <1> QED
    BY <1>2, <1>10, <1>11, <1>12, <1>13, <1>14, <1>15, <1>16 DEF Inv

LEMMA SleepInv == ASSUME Inv, NEW u \in Users, NEW ms \in Delays, Sleep(u, ms) PROVE Inv'
  <1> USE TimerAssumption
  <1>1. PICK n \in Nodes \ Live : InsertTimer(u, ms, n, NotLater(ms) + 1)
    BY DEF Sleep, AddTimer
  <1>2. ms \in 0..UintMax /\ ms \in Int
    BY DEF UintMax
  <1>3. TypeInv /\ OrderInv
    BY DEF Inv
  <1>4. NotLater(ms) + 1 \in (Earlier(ms) + 1)..(NotLater(ms) + 1)
    BY <1>2, <1>3, PlaceAfter
  <1>5. waitMs' \in 0..UintMax
    BY <1>2, <1>3 DEF Sleep, LowerWait, TypeInv, UintMax
  <1>6. tid' = [tid EXCEPT ![u] = IF "sleep" = "io" THEN n ELSE NoNode]
    BY <1>3 DEF Sleep, TypeInv
  <1>7. /\ running = u /\ tid[u] = NoNode /\ it' = it
        /\ rem' = [rem EXCEPT ![u] = ms] /\ Yields(u, "sleep")
    BY DEF Sleep, AddTimer
  <1> QED
    BY <1>1, <1>2, <1>4, <1>5, <1>6, <1>7, ArmInv

\* The coroutine yields, or stops waiting, and nothing happens to the timers.
LEMMA IoWaitInv == ASSUME Inv, NEW u \in Users, NEW ms \in Delays, IoWait(u, ms) PROVE Inv'
  <1> USE TimerAssumption
  <1>0. TypeInv /\ ModeInv /\ OrderInv /\ BatchInv /\ PlaceInv /\ HintInv /\ IdInv /\ TimeInv
    BY DEF Inv
  <1>1. CASE tid[u] = NoNode
    <2>1. PICK n \in Nodes \ Live, p \in (Earlier(ms) + 1)..(NotLater(ms) + 1) :
             /\ InsertTimer(u, ms, n, p) /\ it' = n
             /\ tid' = [tid EXCEPT ![u] = n]
      BY <1>1 DEF IoWait, AddIoTimer
    <2>2. ms \in 0..UintMax /\ ms \in Int
      BY DEF UintMax
    <2>3. waitMs' \in 0..UintMax
      BY <1>0, <1>1, <2>2 DEF IoWait, LowerWait, TypeInv, UintMax
    <2>4. tid' = [tid EXCEPT ![u] = IF "io" = "io" THEN n ELSE NoNode]
      BY <2>1
    <2>5. running = u /\ rem' = [rem EXCEPT ![u] = ms] /\ Yields(u, "io")
      BY <1>1 DEF IoWait
    <2> QED
      BY <1>1, <2>1, <2>2, <2>3, <2>4, <2>5, ArmInv
  <1>2. CASE tid[u] # NoNode
    <2>1. /\ UNCHANGED <<waitMs, timer, it, tid, rem, batch, pc, slept, busy>> /\ running' = NoUser
          /\ where' = [where EXCEPT ![u] = "io"]
      BY <1>2 DEF IoWait, Yields, timerVars
    <2>2. running = u /\ where[u] = "run" /\ u # NoUser
      BY <1>0 DEF IoWait, ModeInv
    <2>3. /\ where' \in [Users -> {"out", "run", "sleep", "io"}] /\ where'[u] = "io"
          /\ \A d \in Users : d # u => where'[d] = where[d] /\ where[d] # "run"
      BY <1>0, <2>1, <2>2 DEF TypeInv, ModeInv
    <2>4. TypeInv'
      BY <1>0, <2>1, <2>3 DEF TypeInv
    <2>5. ModeInv'
      <3>1. \A d \in Users : where'[d] = "run" <=> running' = d
        BY <2>1, <2>3
      <3>2. /\ \A d \in Users : where'[d] \in {"out", "sleep"} => tid'[d] = NoNode
            /\ \A d \in Users : where'[d] = "io" => tid'[d] # NoNode
        BY <1>0, <1>2, <2>1, <2>3 DEF ModeInv
      <3>3. pc' # "expired" => batch' = <<>>
        BY <1>0, <2>1 DEF ModeInv
      <3> QED
        BY <2>1, <3>1, <3>2, <3>3 DEF ModeInv
    <2>6. OrderInv' /\ HintInv'
      BY <1>0, <2>1 DEF OrderInv, HintInv, Live
    <2>7. \A d : (InTimer(d)' <=> InTimer(d)) /\ (InBatch(d)' <=> InBatch(d))
      BY <2>1 DEF InTimer, InBatch
    <2>8. BatchInv'
      <3>1. \A k \in 1..Len(batch) : batch[k] \in Users /\ ~InTimer(batch[k]) /\ where'[batch[k]] \in {"sleep", "io"}
        BY <1>0, <2>3 DEF BatchInv, TypeInv
      <3>2. \A k \in 1..Len(batch) : ~InTimer(batch[k])'
        BY <2>1, <3>1 DEF InTimer
      <3> QED
        BY <1>0, <2>1, <3>1, <3>2 DEF BatchInv
    <2>9. PlaceInv'
      BY <1>0, <1>2, <2>1, <2>3, <2>7 DEF PlaceInv
    <2>10. IdInv'
      BY <1>0, <2>1, <2>7 DEF IdInv
    <2>11. TimeInv'
      BY <1>0, <2>1 DEF TimeInv, NotEarly
    <2> QED
      BY <2>4, <2>5, <2>6, <2>8, <2>9, <2>10, <2>11 DEF Inv
  <1> QED
    BY <1>1, <1>2

\* ~IoEvent(): the timer is the coroutine's own, since it is not expired.
LEMMA IoDoneInv == ASSUME Inv, NEW u \in Users, IoDone(u) PROVE Inv'
  <1> USE TimerAssumption
  <1>0. TypeInv /\ ModeInv /\ OrderInv /\ BatchInv /\ PlaceInv /\ HintInv /\ IdInv /\ TimeInv
    BY DEF Inv
  <1>1. /\ running = u /\ tid[u] # NoNode /\ where[u] = "run" /\ tid' = [tid EXCEPT ![u] = NoNode]
        /\ UNCHANGED <<waitMs, where, rem, pc, batch, running, slept, busy>>
    BY <1>0 DEF IoDone, ModeInv
  <1>2. ~InBatch(u)
    BY <1>0, <1>1 DEF BatchInv, InBatch
  <1>3. PICK q \in 1..Len(timer) : timer[q].node = tid[u] /\ timer[q].user = u
    BY <1>0, <1>1, <1>2 DEF IdInv
  <1>4. PICK n \in Live : n = tid[u]
    BY <1>3 DEF Live
  <1>5. /\ it' = (IF it = n THEN Successor(n) ELSE it) /\ timer' = RemoveAt(timer, IndexOf(n))
    BY <1>4 DEF IoDone, DelTimer
  <1>6. /\ timer' \in Seq(Timer)
        /\ OrderInv'
        /\ IndexOf(n) \in 1..Len(timer) /\ timer[IndexOf(n)].node = n
        /\ \A k \in 1..Len(timer') : \E j \in 1..Len(timer) : j # IndexOf(n) /\ timer'[k] = timer[j]
        /\ \A j \in 1..Len(timer) : j # IndexOf(n) => \E k \in 1..Len(timer') : timer'[k] = timer[j]
    BY <1>0, <1>5, RemoveLaw
  <1>7. IndexOf(n) = q
    BY <1>0, <1>3, <1>4, <1>6 DEF OrderInv
  <1>8. /\ \A k \in 1..Len(timer') : \E j \in 1..Len(timer) : j # q /\ timer'[k] = timer[j]
        /\ \A j \in 1..Len(timer) : j # q => \E k \in 1..Len(timer') : timer'[k] = timer[j]
    BY <1>6, <1>7
  <1>9. \A j \in 1..Len(timer) : (timer[j].user = u <=> j = q) /\ (timer[j].node = n <=> j = q)
    BY <1>0, <1>3, <1>4 DEF OrderInv
  <1>10. ~InTimer(u)' /\ \A d \in Users : d # u => (InTimer(d)' <=> InTimer(d))
    <2>1. ~InTimer(u)'
      BY <1>8, <1>9 DEF InTimer
    <2>2. ASSUME NEW d \in Users, d # u PROVE InTimer(d)' <=> InTimer(d)
      <3>1. InTimer(d)' => InTimer(d)
        BY <1>8 DEF InTimer
      <3>2. InTimer(d) => InTimer(d)'
        BY <2>2, <1>8, <1>9 DEF InTimer
      <3> QED
        BY <3>1, <3>2
    <2> QED
      BY <2>1, <2>2
  <1>11. \A d \in Users : InBatch(d)' <=> InBatch(d)
    BY <1>1 DEF InBatch
  <1>12. /\ tid' \in [Users -> Nodes \cup {NoNode}] /\ tid'[u] = NoNode
         /\ \A d \in Users : d # u => tid'[d] = tid[d]
    BY <1>0, <1>1 DEF TypeInv
  <1>13. it' \in Live' \cup {NoNode}
    <2>1. \A j \in 1..Len(timer) : j # q => timer[j].node \in Live'
      BY <1>8 DEF Live
    <2>2. CASE it # n
      BY <2>1, <2>2, <1>0, <1>5, <1>3, <1>4 DEF HintInv, Live
    <2>3. CASE it = n
      <3>1. it' = IF q = Len(timer) THEN NoNode ELSE timer[q + 1].node
        BY <2>3, <1>5, <1>7 DEF Successor
      <3>2. q # Len(timer) => q + 1 \in 1..Len(timer) /\ q + 1 # q
        BY <1>0, TimerType
      <3> QED
        BY <3>1, <3>2, <2>1
    <2> QED
      BY <2>2, <2>3
  <1>14. TypeInv'
    <2>1. Live' \subseteq Nodes
      <3>1. \A k \in 1..Len(timer') : timer'[k].node \in Nodes
        BY <1>0, <1>8, TimerType
      <3> QED
        BY <3>1 DEF Live
    <2> QED
      BY <1>0, <1>1, <1>6, <1>12, <1>13, <2>1 DEF TypeInv
  <1>15. ModeInv'
    BY <1>0, <1>1, <1>12 DEF ModeInv
  <1>16. BatchInv'
    <2>1. \A k \in 1..Len(batch) : batch[k] \in Users /\ batch[k] # u /\ ~InTimer(batch[k])
      BY <1>0, <1>2 DEF BatchInv, InBatch, TypeInv
    <2>2. \A k \in 1..Len(batch) : ~InTimer(batch[k])'
      <3> TAKE k \in 1..Len(batch)
      <3>1. PICK d \in Users : d = batch[k]
        BY <2>1
      <3>2. ~InTimer(d)'
        BY <2>1, <1>10, <3>1
      <3> QED
        BY <1>1, <3>1, <3>2 DEF InTimer
    <2> QED
      BY <1>0, <1>1, <2>2 DEF BatchInv
  <1>17. PlaceInv'
    BY <1>0, <1>1, <1>2, <1>10, <1>11, <1>12 DEF PlaceInv
  <1>18. HintInv'
    BY <1>13 DEF HintInv
  <1>19. IdInv'
    <2> SUFFICES ASSUME NEW d \in Users, tid'[d] # NoNode, ~InBatch(d)'
                 PROVE \E k \in 1..Len(timer') : timer'[k].node = tid'[d] /\ timer'[k].user = d
      BY DEF IdInv
    <2>1. d # u /\ tid'[d] = tid[d]
      BY <1>12
    <2>2. PICK j \in 1..Len(timer) : timer[j].node = tid[d] /\ timer[j].user = d
      BY <1>0, <1>11, <2>1 DEF IdInv
    <2> QED
      BY <2>1, <2>2, <1>8, <1>9
  <1>20. TimeInv'
    BY <1>0, <1>1, <1>8 DEF TimeInv, NotEarly
  <1> QED
    BY <1>6, <1>14, <1>15, <1>16, <1>17, <1>18, <1>19, <1>20 DEF Inv

\* The loop goes on, or a coroutine starts or ends a wait without a timer: all
\* that happens is that its place changes.
LEMMA PlaceChangeInv ==
    ASSUME Inv, UNCHANGED <<timer, it, waitMs, tid, rem, batch, busy>>,
           pc' \in {"epoll", "events", "expired"}, slept' \in Nat,
           running' \in Users \cup {NoUser},
           where' \in [Users -> {"out", "run", "sleep", "io"}],
           ModeInv',
           \A k \in 1..Len(batch) : where'[batch[k]] \in {"sleep", "io"},
           \A u \in Users : \/ where'[u] \in {"sleep", "io"} <=> where[u] \in {"sleep", "io"}
                           \/ tid[u] # NoNode
    PROVE  Inv'
  <1>0. TypeInv /\ OrderInv /\ BatchInv /\ PlaceInv /\ HintInv /\ IdInv /\ TimeInv
    BY DEF Inv
  <1>1. TypeInv'
    BY <1>0 DEF TypeInv
  <1>2. OrderInv' /\ HintInv'
    BY <1>0 DEF OrderInv, HintInv, Live
  <1>3. \A d : (InTimer(d)' <=> InTimer(d)) /\ (InBatch(d)' <=> InBatch(d))
    BY DEF InTimer, InBatch
  <1>4. BatchInv'
    <2>1. \A k \in 1..Len(batch) : ~InTimer(batch[k])'
      BY <1>0 DEF BatchInv, InTimer
    <2> QED
      BY <1>0, <2>1 DEF BatchInv
  <1>5. PlaceInv'
    BY <1>0, <1>3 DEF PlaceInv
  <1>6. IdInv'
    BY <1>0, <1>3 DEF IdInv
  <1>7. TimeInv'
    BY <1>0 DEF TimeInv, NotEarly
  <1> QED
    BY <1>1, <1>2, <1>4, <1>5, <1>6, <1>7 DEF Inv

LEMMA FinishInv == ASSUME Inv, NEW u \in Users, Finish(u) PROVE Inv'
  <1> USE TimerAssumption
  <1>0. TypeInv /\ ModeInv /\ BatchInv
    BY DEF Inv
  <1>1. /\ UNCHANGED <<timer, it, waitMs, tid, rem, batch, busy, pc, slept>> /\ running' = NoUser
        /\ where' = [where EXCEPT ![u] = "out"] /\ tid[u] = NoNode /\ running = u
    BY DEF Finish, Yields, timerVars
  <1>2. where[u] = "run" /\ u # NoUser
    BY <1>0, <1>1 DEF ModeInv
  <1>3. /\ where' \in [Users -> {"out", "run", "sleep", "io"}] /\ where'[u] = "out"
        /\ \A d \in Users : d # u => where'[d] = where[d] /\ where[d] # "run"
    BY <1>0, <1>1, <1>2 DEF TypeInv, ModeInv
  <1>4. ModeInv'
    <2>1. \A d \in Users : where'[d] = "run" <=> running' = d
      BY <1>1, <1>3
    <2>2. /\ \A d \in Users : where'[d] \in {"out", "sleep"} => tid'[d] = NoNode
          /\ \A d \in Users : where'[d] = "io" => tid'[d] # NoNode
      BY <1>0, <1>1, <1>3 DEF ModeInv
    <2>3. pc' # "expired" => batch' = <<>>
      BY <1>0, <1>1 DEF ModeInv
    <2> QED
      BY <1>1, <2>1, <2>2, <2>3 DEF ModeInv
  <1>5. \A k \in 1..Len(batch) : where'[batch[k]] \in {"sleep", "io"}
    <2>0. \A k \in 1..Len(batch) : where[batch[k]] \in {"sleep", "io"}
      BY <1>0 DEF BatchInv
    <2>1. \A k \in 1..Len(batch) : batch[k] \in Users /\ batch[k] # u
      BY <1>0, <1>2, <2>0 DEF TypeInv
    <2> QED
      BY <2>1, <1>0, <1>3 DEF BatchInv
  <1>6. \A d \in Users : where'[d] \in {"sleep", "io"} <=> where[d] \in {"sleep", "io"}
    BY <1>2, <1>3
  <1>7. pc' \in {"epoll", "events", "expired"} /\ slept' \in Nat /\ running' \in Users \cup {NoUser}
    BY <1>0, <1>1 DEF TypeInv
  <1> QED
    BY <1>1, <1>3, <1>4, <1>5, <1>6, <1>7, PlaceChangeInv

LEMMA ResumeReadyInv == ASSUME Inv, NEW u \in Users, ResumeReady(u) PROVE Inv'
  <1> USE TimerAssumption
  <1>0. TypeInv /\ ModeInv /\ BatchInv
    BY DEF Inv
  <1>1. /\ UNCHANGED <<timer, it, waitMs, tid, rem, batch, busy, pc, slept>> /\ running' = u
        /\ where' = [where EXCEPT ![u] = "run"] /\ where[u] \in {"out", "io"}
        /\ running = NoUser /\ pc = "events"
    BY DEF ResumeReady, Runs, timerVars
  <1>2. batch = <<>>
    BY <1>0, <1>1 DEF ModeInv
  <1>3. /\ where' \in [Users -> {"out", "run", "sleep", "io"}] /\ where'[u] = "run"
        /\ \A d \in Users : d # u => where'[d] = where[d]
        /\ \A d \in Users : where[d] # "run"
    BY <1>0, <1>1 DEF TypeInv, ModeInv
  <1>4. ModeInv'
    <2>1. \A d \in Users : where'[d] = "run" <=> running' = d
      BY <1>1, <1>3
    <2>2. /\ \A d \in Users : where'[d] \in {"out", "sleep"} => tid'[d] = NoNode
          /\ \A d \in Users : where'[d] = "io" => tid'[d] # NoNode
      BY <1>0, <1>1, <1>3 DEF ModeInv
    <2> QED
      BY <1>1, <1>2, <2>1, <2>2 DEF ModeInv
  <1>5. \A k \in 1..Len(batch) : where'[batch[k]] \in {"sleep", "io"}
    BY <1>2
  <1>6. ASSUME NEW d \in Users
        PROVE  (where'[d] \in {"sleep", "io"} <=> where[d] \in {"sleep", "io"}) \/ tid[d] # NoNode
    <2>1. where[u] = "io" => tid[u] # NoNode
      BY <1>0 DEF ModeInv
    <2> QED
      BY <2>1, <1>1, <1>3
  <1>7. pc' \in {"epoll", "events", "expired"} /\ slept' \in Nat /\ running' \in Users \cup {NoUser}
    BY <1>0, <1>1 DEF TypeInv
  <1> QED
    BY <1>1, <1>3, <1>4, <1>5, <1>6, <1>7, PlaceChangeInv

LEMMA LoopStepInv == ASSUME Inv, EpollTimeout \/ EpollWoken \/ ExpiredDone PROVE Inv'
  <1>0. TypeInv /\ ModeInv /\ BatchInv
    BY DEF Inv
  <1>1. /\ UNCHANGED <<timer, it, waitMs, tid, where, rem, batch, busy, running>>
        /\ running = NoUser /\ batch = <<>>
        /\ pc' \in {"epoll", "events"} /\ slept' \in {slept, 0}
    BY <1>0 DEF EpollTimeout, EpollWoken, ExpiredDone, timerVars, userVars, ModeInv
  <1>2. ModeInv'
    BY <1>0, <1>1 DEF ModeInv
  <1>3. \A k \in 1..Len(batch) : where'[batch[k]] \in {"sleep", "io"}
    BY <1>1
  <1>4. /\ pc' \in {"epoll", "events", "expired"} /\ slept' \in Nat /\ running' \in Users \cup {NoUser}
        /\ where' \in [Users -> {"out", "run", "sleep", "io"}]
    BY <1>0, <1>1 DEF TypeInv
  <1> QED
    BY <1>1, <1>2, <1>3, <1>4, PlaceChangeInv

\* check_timeout: the timers that expired are the first ones.  Nobody runs, so
\* all their coroutines wait.
LEMMA CheckTimeoutInv == ASSUME Inv, CheckTimeout PROVE Inv'
  <1> USE TimerAssumption
  <1>0. TypeInv /\ ModeInv /\ OrderInv /\ BatchInv /\ PlaceInv /\ HintInv /\ IdInv /\ TimeInv
    BY DEF Inv
  <1>1. PICK l \in Nat : l = Len(timer)
    BY <1>0, TimerType
  <1>2. \A k \in 1..l : timer[k] \in Timer /\ timer[k].node \in Nodes /\ timer[k].user \in Users /\ timer[k].left \in Int
    BY <1>0, <1>1, TimerType
  <1>3. PICK c \in 0..l : c = Expired /\ \A k \in 1..l : timer[k].left <= 0 <=> k <= c
    BY <1>0, <1>1, ExpiredFirst
  <1>4. /\ batch' = [k \in 1..c |-> timer[k].user]
        /\ timer' = SubSeq(timer, c + 1, l) /\ it' = HintAfter(c)
        /\ waitMs' = NextWait(timer') /\ busy' = 0 /\ pc' = "expired"
        /\ UNCHANGED <<tid, where, rem, running, slept>>
        /\ running = NoUser /\ batch = <<>>
    BY <1>0, <1>1, <1>3 DEF CheckTimeout, userVars, ModeInv
  <1>5. /\ batch' \in Seq(Users) /\ Len(batch') = c
        /\ \A k \in 1..c : batch'[k] = timer[k].user
    <2>1. \A k \in 1..c : timer[k].user \in Users
      BY <1>2, <1>3
    <2> QED
      BY <2>1, <1>4
  <1>6. /\ timer' \in Seq(Timer) /\ Len(timer') = l - c
        /\ \A k \in 1..(l - c) : k + c \in 1..l /\ timer'[k] = timer[k + c]
    <2>1. timer \in Seq(Timer)
      BY <1>0 DEF TypeInv
    <2> QED
      BY <2>1, <1>1, <1>4
  <1>7. \A j \in 1..l : j > c => j - c \in 1..(l - c) /\ timer'[j - c] = timer[j]
    <2>1. \A j \in 1..l : j > c => j - c \in 1..(l - c) /\ (j - c) + c = j
      OBVIOUS
    <2> QED
      BY <2>1, <1>6
  <1>8. /\ \A j, k \in 1..l : j < k => timer[j].left <= timer[k].left
        /\ \A j, k \in 1..l : timer[j].node = timer[k].node => j = k
        /\ \A j, k \in 1..l : timer[j].user = timer[k].user => j = k
    BY <1>0, <1>1 DEF OrderInv
  <1>9. waitMs' \in 0..UintMax
    <2>1. CASE timer' = <<>>
      BY <2>1, <1>4 DEF NextWait, Infinite, UintMax
    <2>2. CASE timer' # <<>>
      <3>1. Head(timer').left \in Int
        <4>1. Head(timer') \in Timer
          BY <2>2, <1>6
        <4> QED
          BY <4>1 DEF Timer
      <3>2. UintMax \in Nat
        BY DEF UintMax
      <3>3. Head(timer').left % (UintMax + 1) \in 0..UintMax
        BY <3>1, <3>2
      <3> QED
        BY <2>2, <3>3, <1>4 DEF NextWait
    <2> QED
      BY <2>1, <2>2
  <1>10. HintInv'
    <2>1. \A j \in 1..l : j > c => timer[j].node \in Live'
      BY <1>6, <1>7 DEF Live
    <2>2. it' = IF it # NoNode /\ timer[IndexOf(it)].left <= 0
                THEN IF c = l THEN NoNode ELSE timer[c + 1].node
                ELSE it
      BY <1>1, <1>4 DEF HintAfter
    <2>3. c # l => timer[c + 1].node \in Live'
      BY <2>1
    <2>4. ASSUME it # NoNode, ~(timer[IndexOf(it)].left <= 0) PROVE it \in Live'
      <3>1. IndexOf(it) \in 1..l /\ timer[IndexOf(it)].node = it
        BY <2>4, <1>0, <1>1 DEF HintInv, Live, IndexOf
      <3>2. IndexOf(it) > c
        BY <2>4, <3>1, <1>3
      <3> QED
        BY <3>1, <3>2, <2>1
    <2> QED
      BY <2>2, <2>3, <2>4 DEF HintInv
  <1>11. TypeInv'
    <2>1. Live' \subseteq Nodes
      BY <1>2, <1>6 DEF Live
    <2>2. it' \in Nodes \cup {NoNode}
      BY <2>1, <1>10 DEF HintInv
    <2> QED
      BY <2>2, <1>0, <1>4, <1>5, <1>6, <1>9 DEF TypeInv
  <1>12. ModeInv'
    BY <1>0, <1>4 DEF ModeInv
  <1>13. OrderInv'
    <2>1. ASSUME NEW j \in 1..(l - c), NEW k \in 1..(l - c)
          PROVE /\ j < k => timer'[j].left <= timer'[k].left
                /\ timer'[j].node = timer'[k].node => j = k
                /\ timer'[j].user = timer'[k].user => j = k
      <3>1. /\ j + c \in 1..l /\ timer'[j] = timer[j + c]
            /\ k + c \in 1..l /\ timer'[k] = timer[k + c]
        BY <1>6
      <3>2. (j < k => j + c < k + c) /\ (j + c = k + c => j = k)
        OBVIOUS
      <3> QED
        BY <3>1, <3>2, <1>8
    <2> QED
      BY <2>1, <1>6 DEF OrderInv
  <1>14. ASSUME NEW u \in Users PROVE InTimer(u)' <=> \E k \in 1..l : k > c /\ timer[k].user = u
    <2>1. InTimer(u)' => \E k \in 1..l : k > c /\ timer[k].user = u
      <3> SUFFICES ASSUME NEW k \in 1..(l - c), timer'[k].user = u
                   PROVE  \E j \in 1..l : j > c /\ timer[j].user = u
        BY <1>6 DEF InTimer
      <3>1. k + c \in 1..l /\ k + c > c /\ timer[k + c].user = u
        BY <1>6
      <3> QED
        BY <3>1
    <2>2. (\E k \in 1..l : k > c /\ timer[k].user = u) => InTimer(u)'
      BY <1>6, <1>7 DEF InTimer
    <2> QED
      BY <2>1, <2>2
  <1>14a. ASSUME NEW u \in Users PROVE InBatch(u)' <=> \E k \in 1..l : k <= c /\ timer[k].user = u
    BY <1>3, <1>5 DEF InBatch
  <1>15. BatchInv'
    <2>1. ASSUME NEW k \in 1..c PROVE where[timer[k].user] \in {"sleep", "io"}
      <3>1. PICK u \in Users : u = timer[k].user
        BY <1>2, <1>3
      <3>2. InTimer(u)
        BY <3>1, <1>1, <1>3 DEF InTimer
      <3>3. where[u] \in {"sleep", "io"} \/ tid[u] # NoNode
        BY <3>2, <1>0 DEF PlaceInv
      <3>4. where[u] # "run" /\ where[u] \in {"out", "run", "sleep", "io"}
        BY <1>0, <1>4 DEF ModeInv, TypeInv
      <3> QED
        BY <3>1, <3>3, <3>4, <1>0 DEF ModeInv
    <2>2. ASSUME NEW k \in 1..c PROVE ~InTimer(batch[k])'
      <3>1. PICK u \in Users : u = timer[k].user
        BY <1>2, <1>3
      <3>2. ~InTimer(u)'
        BY <3>1, <1>14, <1>8, <1>3
      <3>3. batch'[k] = u
        BY <3>1, <1>5
      <3> QED
        BY <3>2, <3>3 DEF InTimer
    <2>3. \A j, k \in 1..c : batch'[j] = batch'[k] => j = k
      BY <1>5, <1>8, <1>3
    <2>4. \A k \in 1..c : where'[batch'[k]] \in {"sleep", "io"}
      BY <2>1, <1>4, <1>5
    <2> QED
      BY <2>2, <2>3, <2>4, <1>5 DEF BatchInv
  <1>16. PlaceInv'
    <2>1. ASSUME NEW u \in Users PROVE InTimer(u)' \/ InBatch(u)' <=> InTimer(u) \/ InBatch(u)
      <3>1. ~InBatch(u)
        BY <1>4 DEF InBatch
      <3>2. InTimer(u) <=> \E k \in 1..l : timer[k].user = u
        BY <1>1 DEF InTimer
      <3>3. \A k \in 1..l : k > c \/ k <= c
        OBVIOUS
      <3> QED
        BY <3>1, <3>2, <3>3, <1>14, <1>14a
    <2> QED
      BY <2>1, <1>0, <1>4 DEF PlaceInv
  <1>17. IdInv'
    <2> SUFFICES ASSUME NEW u \in Users, tid'[u] # NoNode, ~InBatch(u)'
                 PROVE \E k \in 1..Len(timer') : timer'[k].node = tid'[u] /\ timer'[k].user = u
      BY DEF IdInv
    <2>1. ~InBatch(u)
      BY <1>4 DEF InBatch
    <2>2. PICK j \in 1..l : timer[j].node = tid[u] /\ timer[j].user = u
      BY <2>1, <1>0, <1>1, <1>4 DEF IdInv
    <2>3. j > c
      BY <2>2, <1>14a, <1>3
    <2>4. j - c \in 1..Len(timer') /\ timer'[j - c] = timer[j]
      BY <2>3, <1>6, <1>7
    <2> QED
      BY <2>2, <2>4, <1>4
  <1>18. TimeInv'
    <2>1. \A k \in 1..l : rem[timer[k].user] <= timer[k].left \/ rem[timer[k].user] <= 0
      BY <1>0, <1>1 DEF TimeInv
    <2>2. \A k \in 1..c : rem[timer[k].user] <= 0
      <3> TAKE k \in 1..c
      <3>1. k \in 1..l /\ timer[k].left <= 0 /\ timer[k].left \in Int /\ rem[timer[k].user] \in Int
        BY <1>0, <1>2, <1>3 DEF TypeInv
      <3> QED
        BY <3>1, <2>1
    <2>3. NotEarly'
      BY <2>2, <1>4, <1>5 DEF NotEarly
    <2> QED
      BY <2>1, <2>3, <1>4, <1>6 DEF TimeInv
  <1> QED
    BY <1>10, <1>11, <1>12, <1>13, <1>15, <1>16, <1>17, <1>18 DEF Inv

\* Who is resumed by its timer has none any more, so it is in nobody's books.
LEMMA ResumeExpiredInv == ASSUME Inv, ResumeExpired PROVE Inv'
  <1> USE TimerAssumption
  <1>0. TypeInv /\ ModeInv /\ OrderInv /\ BatchInv /\ PlaceInv /\ HintInv /\ IdInv /\ TimeInv
    BY DEF Inv
  <1>1. PICK b \in Nat : b = Len(batch) /\ b >= 1
    BY <1>0 DEF TypeInv, ResumeExpired
  <1>2. /\ batch' \in Seq(Users) /\ Len(batch') = b - 1 /\ Head(batch) = batch[1] /\ batch[1] \in Users
        /\ \A k \in 1..(b - 1) : k + 1 \in 1..b /\ batch'[k] = batch[k + 1]
    BY <1>0, <1>1 DEF TypeInv, ResumeExpired
  <1>3. PICK u \in Users : u = batch[1]
    BY <1>2
  <1>4. /\ UNCHANGED <<timer, it, waitMs, rem, pc, slept, busy>>
        /\ running' = u /\ running = NoUser /\ pc = "expired"
        /\ where' = [where EXCEPT ![u] = "run"] /\ tid' = [tid EXCEPT ![u] = NoNode]
    BY <1>2, <1>3 DEF ResumeExpired, Runs, timerVars
  <1>5. /\ where' \in [Users -> {"out", "run", "sleep", "io"}] /\ where'[u] = "run"
        /\ \A d \in Users : d # u => where'[d] = where[d]
        /\ \A d \in Users : where[d] # "run"
    BY <1>0, <1>4 DEF TypeInv, ModeInv
  <1>6. /\ tid' \in [Users -> Nodes \cup {NoNode}] /\ tid'[u] = NoNode
        /\ \A d \in Users : d # u => tid'[d] = tid[d]
    BY <1>0, <1>4 DEF TypeInv
  <1>7. /\ \A k \in 1..b : where[batch[k]] \in {"sleep", "io"} /\ batch[k] \in Users /\ ~InTimer(batch[k])
        /\ \A j, k \in 1..b : batch[j] = batch[k] => j = k
    <2>1. \A k \in 1..b : batch[k] \in Users
      BY <1>0, <1>1 DEF TypeInv
    <2> QED
      BY <2>1, <1>0, <1>1 DEF BatchInv
  <1>8. \A k \in 1..(b - 1) : batch'[k] \in Users /\ batch'[k] # u
    <2> TAKE k \in 1..(b - 1)
    <2>1. k + 1 \in 1..b /\ 1 \in 1..b /\ k + 1 # 1 /\ batch'[k] = batch[k + 1]
      BY <1>1, <1>2
    <2> QED
      BY <2>1, <1>3, <1>7
  <1>9. \A d : InTimer(d)' <=> InTimer(d)
    BY <1>4 DEF InTimer
  <1>10. ~InTimer(u) /\ ~InBatch(u)'
    <2>1. ~InTimer(u)
      BY <1>1, <1>3, <1>7
    <2> QED
      BY <2>1, <1>2, <1>8 DEF InBatch
  <1>11. ASSUME NEW d \in Users, d # u PROVE InBatch(d)' <=> InBatch(d)
    <2>1. InBatch(d)' => InBatch(d)
      BY <1>1, <1>2 DEF InBatch
    <2>2. InBatch(d) => InBatch(d)'
      <3> SUFFICES ASSUME NEW k \in 1..b, batch[k] = d PROVE \E j \in 1..(b - 1) : batch'[j] = d
        BY <1>1, <1>2 DEF InBatch
      <3>1. k # 1
        BY <1>3, <1>11
      <3>2. k - 1 \in 1..(b - 1) /\ (k - 1) + 1 = k
        BY <3>1
      <3> QED
        BY <3>2, <1>2
    <2> QED
      BY <2>1, <2>2
  <1>12. TypeInv'
    BY <1>0, <1>2, <1>4, <1>5, <1>6 DEF TypeInv
  <1>13. ModeInv'
    <2>1. \A d \in Users : where'[d] = "run" <=> running' = d
      BY <1>4, <1>5
    <2>2. /\ \A d \in Users : where'[d] \in {"out", "sleep"} => tid'[d] = NoNode
          /\ \A d \in Users : where'[d] = "io" => tid'[d] # NoNode
      BY <1>0, <1>5, <1>6 DEF ModeInv
    <2> QED
      BY <1>4, <2>1, <2>2 DEF ModeInv
  <1>14. OrderInv' /\ HintInv'
    BY <1>0, <1>4 DEF OrderInv, HintInv, Live
  <1>15. BatchInv'
    <2>1. ASSUME NEW k \in 1..(b - 1) PROVE where'[batch'[k]] \in {"sleep", "io"} /\ ~InTimer(batch'[k])
      <3>1. k + 1 \in 1..b /\ batch'[k] = batch[k + 1]
        BY <1>2
      <3> QED
        BY <3>1, <1>5, <1>7, <1>8
    <2>2. ASSUME NEW k \in 1..(b - 1) PROVE ~InTimer(batch[k])'
      BY <2>1, <1>4 DEF InTimer
    <2>3. \A j, k \in 1..(b - 1) : batch'[j] = batch'[k] => j = k
      <3> SUFFICES ASSUME NEW j \in 1..(b - 1), NEW k \in 1..(b - 1), batch'[j] = batch'[k] PROVE j = k
        OBVIOUS
      <3>1. j + 1 \in 1..b /\ k + 1 \in 1..b /\ batch[j + 1] = batch[k + 1]
        BY <1>2
      <3> QED
        BY <3>1, <1>7
    <2> QED
      BY <2>1, <2>2, <2>3, <1>2 DEF BatchInv
  <1>16. PlaceInv'
    <2> SUFFICES ASSUME NEW d \in Users
                 PROVE InTimer(d)' \/ InBatch(d)' <=> where'[d] \in {"sleep", "io"} \/ tid'[d] # NoNode
      BY DEF PlaceInv
    <2>1. CASE d = u
      BY <2>1, <1>5, <1>6, <1>9, <1>10
    <2>2. CASE d # u
      BY <2>2, <1>0, <1>5, <1>6, <1>9, <1>11 DEF PlaceInv
    <2> QED
      BY <2>1, <2>2
  <1>17. IdInv'
    <2> SUFFICES ASSUME NEW d \in Users, tid'[d] # NoNode, ~InBatch(d)'
                 PROVE \E k \in 1..Len(timer') : timer'[k].node = tid'[d] /\ timer'[k].user = d
      BY DEF IdInv
    <2>1. d # u /\ tid'[d] = tid[d] /\ ~InBatch(d)
      BY <1>6, <1>11
    <2> QED
      BY <2>1, <1>0, <1>4 DEF IdInv
  <1>18. TimeInv'
    <2>1. NotEarly'
      BY <1>0, <1>1, <1>2, <1>4 DEF TimeInv, NotEarly
    <2> QED
      BY <2>1, <1>0, <1>4 DEF TimeInv
  <1> QED
    BY <1>12, <1>13, <1>14, <1>15, <1>16, <1>17, <1>18 DEF Inv

LEMMA TickInv == ASSUME Inv, Tick PROVE Inv'
  <1> USE TimerAssumption
  <1>0. TypeInv /\ ModeInv /\ OrderInv /\ BatchInv /\ PlaceInv /\ HintInv /\ IdInv /\ TimeInv
    BY DEF Inv
  <1>1. PICK l \in Nat : l = Len(timer)
    BY <1>0, TimerType
  <1>2. \A k \in 1..l : timer[k] \in Timer /\ timer[k].node \in Nodes /\ timer[k].user \in Users /\ timer[k].left \in Int
    BY <1>0, <1>1, TimerType
  <1>3. /\ UNCHANGED <<it, waitMs, tid, where, pc, batch, running>>
        /\ timer' = [k \in 1..l |-> [timer[k] EXCEPT !.left = @ - 1]]
        /\ rem' = [u \in Users |-> IF rem[u] > MinLeft THEN rem[u] - 1 ELSE MinLeft]
    BY <1>1 DEF Tick
  <1>4. slept' \in Nat /\ busy' \in Nat
    BY <1>0 DEF Tick, TypeInv
  <1>5. \A k \in 1..l : /\ timer'[k] \in Timer /\ timer'[k].node = timer[k].node
                         /\ timer'[k].user = timer[k].user /\ timer'[k].left = timer[k].left - 1
    <2> TAKE k \in 1..l
    <2>1. timer'[k] = [timer[k] EXCEPT !.left = @ - 1]
      BY <1>3
    <2>2. timer[k] \in Timer
      BY <1>2
    <2> QED
      BY <2>1, <2>2 DEF Timer
  <1>6. timer' \in Seq(Timer) /\ Len(timer') = l
    <2>1. \A k \in 1..l : [timer[k] EXCEPT !.left = @ - 1] \in Timer
      BY <1>3, <1>5
    <2> QED
      BY <2>1, <1>3
  <1>7. MinLeft \in Int /\ MinLeft <= 0
    BY DEF MinLeft
  <1>8. /\ rem' \in [Users -> Int]
        /\ \A u \in Users : rem'[u] = IF rem[u] > MinLeft THEN rem[u] - 1 ELSE MinLeft
    BY <1>0, <1>3, <1>7 DEF TypeInv
  <1>9. \A u : (InTimer(u)' <=> InTimer(u)) /\ (InBatch(u)' <=> InBatch(u))
    BY <1>1, <1>3, <1>5, <1>6 DEF InTimer, InBatch
  <1>10. TypeInv'
    BY <1>0, <1>3, <1>4, <1>6, <1>8 DEF TypeInv
  <1>11. ModeInv'
    BY <1>0, <1>3 DEF ModeInv
  <1>12. OrderInv'
    <2>1. /\ \A j, k \in 1..l : j < k => timer[j].left <= timer[k].left
          /\ \A j, k \in 1..l : timer[j].node = timer[k].node => j = k
          /\ \A j, k \in 1..l : timer[j].user = timer[k].user => j = k
      BY <1>0, <1>1 DEF OrderInv
    <2>2. \A j, k \in 1..l : j < k => timer'[j].left <= timer'[k].left
      BY <2>1, <1>2, <1>5
    <2> QED
      BY <2>1, <2>2, <1>5, <1>6 DEF OrderInv
  <1>13. BatchInv'
    <2>1. \A k \in 1..Len(batch) : ~InTimer(batch[k])'
      <3> TAKE k \in 1..Len(batch)
      <3>1. PICK d : d = batch[k]
        OBVIOUS
      <3>2. ~InTimer(d)'
        BY <3>1, <1>0, <1>9 DEF BatchInv
      <3> QED
        BY <3>1, <3>2, <1>3 DEF InTimer
    <2> QED
      BY <2>1, <1>0, <1>3 DEF BatchInv
  <1>14. PlaceInv'
    BY <1>0, <1>3, <1>9 DEF PlaceInv
  <1>15. HintInv'
    BY <1>0, <1>1, <1>3, <1>5, <1>6 DEF HintInv, Live
  <1>16. IdInv'
    BY <1>0, <1>1, <1>3, <1>5, <1>6, <1>9 DEF IdInv
  <1>17. TimeInv'
    <2>1. ASSUME NEW k \in 1..l PROVE rem'[timer'[k].user] <= timer'[k].left \/ rem'[timer'[k].user] <= 0
      <3>1. PICK u \in Users : u = timer[k].user
        BY <1>2
      <3>2. rem[u] <= timer[k].left \/ rem[u] <= 0
        BY <3>1, <1>0, <1>1 DEF TimeInv
      <3>3. rem[u] \in Int /\ timer[k].left \in Int
        BY <1>0, <1>2 DEF TypeInv
      <3> QED
        BY <3>1, <3>2, <3>3, <1>5, <1>7, <1>8
    <2>2. NotEarly'
      <3> SUFFICES ASSUME NEW k \in 1..Len(batch) PROVE rem'[batch[k]] <= 0
        BY <1>3 DEF NotEarly
      <3>1. PICK u \in Users : u = batch[k]
        BY <1>0 DEF TypeInv
      <3>2. rem[u] <= 0 /\ rem[u] \in Int
        BY <3>1, <1>0 DEF TimeInv, NotEarly, TypeInv
      <3> QED
        BY <3>1, <3>2, <1>7, <1>8
    <2> QED
      BY <2>1, <2>2, <1>6 DEF TimeInv
  <1> QED
    BY <1>10, <1>11, <1>12, <1>13, <1>14, <1>15, <1>16, <1>17 DEF Inv

LEMMA NextInv == ASSUME Inv, [Next]_vars PROVE Inv'
  <1>1. CASE UNCHANGED vars
    <2>1. /\ UNCHANGED <<timer, it, waitMs, tid, rem, batch, busy, pc, slept, running, where>>
      BY <1>1 DEF vars, timerVars, userVars
    <2>2. ModeInv'
      BY <2>1 DEF Inv, ModeInv
    <2> QED
      BY <2>1, <2>2, PlaceChangeInv DEF Inv, TypeInv, BatchInv
  <1>2. CASE \E u \in Users : Leave(u) \/ IoDone(u) \/ ResumeReady(u)
    BY <1>2, SleepInv, IoWaitInv, FinishInv, IoDoneInv, ResumeReadyInv DEF Leave
  <1>3. CASE Loop \/ EpollWoken \/ Tick
    BY <1>3, LoopStepInv, CheckTimeoutInv, ResumeExpiredInv, TickInv DEF Loop
  <1> QED
    BY <1>1, <1>2, <1>3 DEF Next

\* The invariant of the timers.
THEOREM TimerInvariant == Spec => []Inv
  BY InitInv, NextInv, PTL DEF Spec

\* No iterator dangles: neither the hint _it nor the id of an IoEvent, and a
\* destructor erases the timer of its own coroutine.  (scheduler.h:165,
\* scheduler.cc:180, io_event.h:47)
THEOREM NoDanglingIterator == Spec => []IteratorsLive
  <1>1. ASSUME Inv PROVE IteratorsLive
    <2>0. TypeInv /\ ModeInv /\ OrderInv /\ BatchInv /\ PlaceInv /\ HintInv /\ IdInv
      BY <1>1 DEF Inv
    <2>1. it \in Live \cup {NoNode}
      BY <2>0 DEF HintInv
    <2>2. \A u \in Users : tid[u] # NoNode /\ (\A k \in 1..Len(batch) : batch[k] # u) =>
             \E k \in 1..Len(timer) : timer[k].node = tid[u] /\ timer[k].user = u
      BY <2>0 DEF IdInv, InBatch
    <2>3. ASSUME NEW u \in Users
          PROVE Cardinality({k \in 1..Len(timer) : timer[k].user = u})
                + Cardinality({k \in 1..Len(batch) : batch[k] = u})
                    = IF where[u] \in {"sleep", "io"} \/ tid[u] # NoNode THEN 1 ELSE 0
      <3> DEFINE T == {k \in 1..Len(timer) : timer[k].user = u}
                 B == {k \in 1..Len(batch) : batch[k] = u}
      <3>1. /\ \A j, k \in T : j = k
            /\ \A j, k \in B : j = k
            /\ T = {} \/ B = {}
        BY <2>0 DEF OrderInv, BatchInv, InTimer
      <3>2. T # {} \/ B # {} <=> where[u] \in {"sleep", "io"} \/ tid[u] # NoNode
        BY <2>0 DEF PlaceInv, InTimer, InBatch
      <3> HIDE DEF T, B
      <3>3. (T = {} => Cardinality(T) = 0) /\ (T # {} => Cardinality(T) = 1)
        BY <3>1, AtMostOne
      <3>4. (B = {} => Cardinality(B) = 0) /\ (B # {} => Cardinality(B) = 1)
        BY <3>1, AtMostOne
      <3>5. Cardinality(T) + Cardinality(B) = IF where[u] \in {"sleep", "io"} \/ tid[u] # NoNode THEN 1 ELSE 0
        BY <3>1, <3>2, <3>3, <3>4
      <3> QED
        BY <3>5 DEF T, B
    <2> QED
      BY <2>1, <2>2, <2>3 DEF IteratorsLive
  <1> QED
    BY <1>1, TimerInvariant, PTL

\* No coroutine is resumed by its timer before its time is over.
\* (scheduler.cc:161)
THEOREM TimersNotEarly == Spec => []NotEarly
  <1>1. Inv => NotEarly
    BY DEF Inv, TimeInv
  <1> QED
    BY <1>1, TimerInvariant, PTL

-----------------------------------------------------------------------------
(* The time to wait. *)

\* A new timer lowers the time to wait, an erased one may leave it too short.
LEMMA UsersWait ==
    ASSUME ShortDelays, Inv, WaitInv, NEW u \in Users, Leave(u) \/ IoDone(u) \/ ResumeReady(u)
    PROVE  WaitInv'
  <1> USE TimerAssumption
  <1>0. TypeInv /\ ModeInv /\ OrderInv /\ BatchInv /\ PlaceInv /\ HintInv /\ IdInv /\ TimeInv
    BY DEF Inv
  <1>1. /\ \A k \in 1..Len(timer) : timer[k].left <= IntMax /\ timer[k].left \in Int
        /\ pc = "expired" \/ (pc = "epoll" /\ slept = 0) =>
              \A k \in 1..Len(timer) : waitMs <= IntMax /\ waitMs <= timer[k].left + busy
        /\ waitMs \in Nat /\ busy \in Nat
    BY <1>0, TimerType DEF WaitInv, TypeInv
  <1>2. UNCHANGED <<pc, slept, busy>>
    BY DEF Leave, Sleep, IoWait, Finish, Yields, IoDone, ResumeReady
  <1>3. ASSUME NEW ms \in Delays, LowerWait(ms), running = u, tid[u] = NoNode,
               NEW n \in Nodes \ Live, NEW p \in (Earlier(ms) + 1)..(NotLater(ms) + 1),
               InsertTimer(u, ms, n, p)
        PROVE  WaitInv'
    <2>1. ms \in 0..IntMax /\ ms \in Int
      BY DEF ShortDelays
    <2>2. ~InTimer(u)
      BY <1>0, <1>3 DEF ModeInv, PlaceInv
    <2>3. \A k \in 1..Len(timer') : \/ timer'[k] = [node |-> n, user |-> u, left |-> ms]
                                    \/ \E j \in 1..Len(timer) : timer'[k] = timer[j]
      BY <1>0, <1>3, <2>1, <2>2, InsertLaw
    <2>4. \A k \in 1..Len(timer') : timer'[k].left = ms \/ \E j \in 1..Len(timer) : timer'[k].left = timer[j].left
      BY <2>3
    <2>5. waitMs' \in Nat /\ waitMs' <= waitMs /\ waitMs' <= ms
      BY <1>1, <1>3, <2>1 DEF LowerWait
    <2>6. \A k \in 1..Len(timer') : timer'[k].left <= IntMax
      BY <1>1, <2>1, <2>4
    <2>7. ASSUME pc = "expired" \/ (pc = "epoll" /\ slept = 0), NEW k \in 1..Len(timer')
          PROVE  waitMs' <= IntMax /\ waitMs' <= timer'[k].left + busy
      <3>1. CASE timer'[k].left = ms
        BY <3>1, <1>1, <2>1, <2>5
      <3>2. ASSUME NEW j \in 1..Len(timer), timer'[k].left = timer[j].left
            PROVE  waitMs' <= IntMax /\ waitMs' <= timer'[k].left + busy
        BY <3>2, <1>1, <2>1, <2>5, <2>7
      <3> QED
        BY <3>1, <3>2, <2>4
    <2> QED
      BY <1>2, <2>6, <2>7 DEF WaitInv
  <1>4. ASSUME waitMs' = waitMs, \A k \in 1..Len(timer') : \E j \in 1..Len(timer) : timer'[k] = timer[j]
        PROVE  WaitInv'
    BY <1>1, <1>2, <1>4 DEF WaitInv
  <1>5. ASSUME NEW ms \in Delays, Sleep(u, ms) PROVE WaitInv'
    <2>1. PICK n \in Nodes \ Live : InsertTimer(u, ms, n, NotLater(ms) + 1)
      BY <1>5 DEF Sleep, AddTimer
    <2>2. NotLater(ms) + 1 \in (Earlier(ms) + 1)..(NotLater(ms) + 1)
      BY <1>0, PlaceAfter DEF UintMax
    <2> QED
      BY <1>3, <1>5, <2>1, <2>2 DEF Sleep
  <1>6. ASSUME NEW ms \in Delays, IoWait(u, ms) PROVE WaitInv'
    <2>1. CASE tid[u] = NoNode
      BY <1>3, <1>6, <2>1 DEF IoWait, AddIoTimer
    <2>2. CASE tid[u] # NoNode
      BY <1>4, <1>6, <2>2 DEF IoWait, timerVars
    <2> QED
      BY <2>1, <2>2
  <1>7. ASSUME IoDone(u) PROVE WaitInv'
    <2>1. running = u /\ tid[u] # NoNode /\ where[u] = "run" /\ timer' = RemoveAt(timer, IndexOf(tid[u]))
      BY <1>0, <1>7 DEF IoDone, DelTimer, ModeInv
    <2>2. tid[u] \in Live
      <3>1. ~InBatch(u)
        BY <1>0, <2>1 DEF BatchInv, InBatch
      <3> QED
        BY <3>1, <1>0, <2>1 DEF IdInv, Live
    <2>3. \A k \in 1..Len(timer') : \E j \in 1..Len(timer) : timer'[k] = timer[j]
      BY <1>0, <2>1, <2>2, RemoveLaw
    <2> QED
      BY <1>4, <1>7, <2>3 DEF IoDone
  <1>8. CASE Finish(u) \/ ResumeReady(u)
    BY <1>4, <1>8 DEF Finish, ResumeReady, timerVars
  <1> QED
    BY <1>5, <1>6, <1>7, <1>8 DEF Leave

LEMMA LoopWait ==
    ASSUME ShortDelays, Inv, WaitInv, Loop \/ EpollWoken \/ Tick PROVE WaitInv'
  <1> USE TimerAssumption
  <1>0. TypeInv /\ ModeInv /\ OrderInv
    BY DEF Inv
  <1>1. PICK l \in Nat : l = Len(timer)
    BY <1>0, TimerType
  <1>2. /\ \A k \in 1..l : timer[k].left <= IntMax /\ timer[k].left \in Int
        /\ pc = "expired" \/ (pc = "epoll" /\ slept = 0) =>
              \A k \in 1..l : waitMs <= IntMax /\ waitMs <= timer[k].left + busy
        /\ waitMs \in Nat /\ busy \in Nat /\ slept \in Nat
    BY <1>0, <1>1, TimerType DEF WaitInv, TypeInv
  <1>3. CASE EpollTimeout \/ EpollWoken
    BY <1>1, <1>2, <1>3 DEF EpollTimeout, EpollWoken, timerVars, WaitInv
  <1>4. CASE ResumeExpired \/ ExpiredDone
    BY <1>1, <1>2, <1>4 DEF ResumeExpired, ExpiredDone, timerVars, WaitInv
  <1>5. CASE CheckTimeout
    <2>1. PICK c \in 0..l : c = Expired /\ \A k \in 1..l : timer[k].left <= 0 <=> k <= c
      BY <1>0, <1>1, ExpiredFirst
    <2>2. timer' = SubSeq(timer, c + 1, l) /\ waitMs' = NextWait(timer') /\ busy' = 0
      BY <1>1, <1>5, <2>1 DEF CheckTimeout
    <2>3. /\ Len(timer') = l - c /\ timer' \in Seq(Timer)
          /\ \A k \in 1..(l - c) : k + c \in 1..l /\ k + c > c /\ timer'[k] = timer[k + c]
      <3>1. timer \in Seq(Timer)
        BY <1>0 DEF TypeInv
      <3> QED
        BY <3>1, <1>1, <2>2
    <2>4. \A k \in 1..(l - c) : timer'[k].left <= IntMax /\ timer'[k].left > 0 /\ timer'[k].left \in Int
      <3> TAKE k \in 1..(l - c)
      <3>1. k + c \in 1..l /\ ~(k + c <= c) /\ timer'[k] = timer[k + c]
        BY <2>3
      <3> QED
        BY <3>1, <1>2, <2>1
    <2>5. ASSUME NEW k \in 1..(l - c) PROVE waitMs' <= IntMax /\ waitMs' <= timer'[k].left
      <3>1. 1 \in 1..(l - c) /\ timer' # <<>> /\ Head(timer') = timer'[1]
        BY <2>3
      <3>2. PICK h \in 1..IntMax : h = timer'[1].left
        BY <3>1, <2>4
      <3>3. UintMax + 1 = 2 * IntMax + 2 /\ h % (2 * IntMax + 2) = h
        BY DEF UintMax
      <3>4. waitMs' = h
        BY <3>1, <3>2, <3>3, <2>2 DEF NextWait
      <3>5. h <= timer'[k].left
        <4>1. 1 + c \in 1..l /\ k + c \in 1..l /\ (1 + c < k + c \/ k = 1)
              /\ timer'[1] = timer[1 + c] /\ timer'[k] = timer[k + c]
          BY <3>1, <2>3
        <4>2. CASE k = 1
          BY <4>2, <3>2
        <4>3. CASE 1 + c < k + c
          BY <4>1, <4>3, <3>2, <1>0, <1>1 DEF OrderInv
        <4> QED
          BY <4>1, <4>2, <4>3
      <3> QED
        BY <3>4, <3>5
    <2>6. \A k \in 1..(l - c) : waitMs' <= IntMax /\ waitMs' <= timer'[k].left + busy'
      <3> TAKE k \in 1..(l - c)
      <3>1. timer'[k].left + busy' = timer'[k].left
        BY <2>2, <2>4
      <3> QED
        BY <2>5, <3>1
    <2> QED
      BY <2>3, <2>4, <2>6 DEF WaitInv
  <1>6. CASE Tick
    <2>1. /\ timer' = [k \in 1..l |-> [timer[k] EXCEPT !.left = @ - 1]] /\ UNCHANGED <<waitMs, pc>>
          /\ pc = "epoll" => slept' > 0
          /\ pc # "epoll" => busy' = busy + 1 /\ slept' = slept
      BY <1>1, <1>2, <1>6 DEF Tick, MaxLeft, UintMax
    <2>2. Len(timer') = l /\ \A k \in 1..l : timer'[k].left = timer[k].left - 1
      <3>1. \A k \in 1..l : timer[k] \in Timer
        BY <1>0, <1>1, TimerType
      <3>2. Len(timer') = l
        BY <1>1, <2>1
      <3> QED
        BY <2>1, <3>1, <3>2 DEF Timer
    <2>3. \A k \in 1..l : timer'[k].left <= IntMax
      BY <1>2, <2>2
    <2>4. ASSUME pc' = "expired" \/ (pc' = "epoll" /\ slept' = 0), NEW k \in 1..l
          PROVE  waitMs' <= IntMax /\ waitMs' <= timer'[k].left + busy'
      <3>1. pc = "expired" /\ busy' = busy + 1 /\ waitMs' = waitMs
        BY <2>1, <2>4
      <3>2. waitMs <= IntMax /\ waitMs <= timer[k].left + busy
        BY <3>1, <1>2
      <3> QED
        BY <3>1, <3>2, <2>2, <1>2
    <2> QED
      BY <2>2, <2>3, <2>4 DEF WaitInv
  <1> QED
    BY <1>3, <1>4, <1>5, <1>6 DEF Loop

\* As long as delays are positive as an int, the scheduler goes to sleep for no
\* longer than the next timer has left, but for the time that its coroutines
\* took since it read the clock; and it does not sleep without a limit while
\* there is a timer.  (scheduler.h:170, scheduler.cc:83)
THEOREM NeverOversleeps == ASSUME ShortDelays PROVE Spec => []NoOversleep
  <1>1. Init => WaitInv
    BY DEF Init, WaitInv
  <1>2. Inv /\ WaitInv /\ [Next]_vars => WaitInv'
    <2> SUFFICES ASSUME Inv, WaitInv, [Next]_vars PROVE WaitInv'
      OBVIOUS
    <2>1. CASE UNCHANGED vars
      BY <2>1 DEF WaitInv, vars, timerVars, userVars
    <2> QED
      BY <2>1, UsersWait, LoopWait DEF Next
  <1>3. ASSUME Inv, WaitInv PROVE NoOversleep
    <2> SUFFICES ASSUME pc = "epoll", slept = 0, timer # <<>>
                 PROVE  ~Blocks(waitMs) /\ waitMs <= Head(timer).left + busy
      BY DEF NoOversleep
    <2>1. timer \in Seq(Timer) /\ waitMs \in Int /\ IntMax \in Int
      BY <1>3, TimerAssumption DEF Inv, TypeInv
    <2>2. 1 \in 1..Len(timer) /\ Head(timer) = timer[1]
      BY <2>1
    <2> QED
      BY <1>3, <2>1, <2>2 DEF WaitInv, Blocks
  <1> QED
    BY <1>1, <1>2, <1>3, TimerInvariant, PTL DEF Spec
=============================================================================
