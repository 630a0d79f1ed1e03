----------------------------- MODULE JsonValue -----------------------------
(***************************************************************************)
(* json::Value (json.h, json.cc): values that share their memory, which is *)
(* freed when its count of references comes to 0, and the pool of freed    *)
(* memory (Jalloc).  A place is a variable of the program or a slot of an  *)
(* array or an object; it holds an address, or Null.                       *)
(*                                                                         *)
(* The values of one thread.  The program does not put a value into itself *)
(* and does not assign to, or push into, the value that owns the source:   *)
(* the code reads the source after it has freed or moved what holds it.    *)
(***************************************************************************)
EXTENDS Naturals, Sequences, FiniteSets, SequencesExt

CONSTANTS
    Names,      \* variables of type Json, as numbers
    Mems,       \* addresses, positive numbers
    Keys,       \* keys of members
    MaxPool,    \* the most addresses in the pool: 8 * 1024
    MaxKids     \* bound on the elements of an array or an object

Null == 0
NoKey == "none"     \* the key of an element of an array

ASSUME JsonAssumption == Mems \subseteq Nat \ {Null} /\ NoKey \notin Keys

VARIABLES
    var,        \* the variables
    heap,       \* the memory in use: type, refn and slots
    mp          \* the pool: _mp

jsonVars == <<var, heap, mp>>
Kid(k, m) == [key |-> k, mem |-> m]

JsonInit ==
    /\ var = [x \in Names |-> Null]
    /\ heap = <<>>
    /\ mp = <<>>

\* s is a heap with its pool.  alloc_mem: from the pool, or from malloc.
Now == [heap |-> heap, mp |-> mp]
Becomes(s) == heap' = s.heap /\ mp' = s.mp
MayAlloc(s) == s.mp # <<>> \/ Mems \ DOMAIN s.heap # {}
AllocMem(s) == IF s.mp # <<>> THEN Last(s.mp) ELSE CHOOSE m \in Mems : m \notin DOMAIN s.heap
Alloc(s, type) ==
    LET m == AllocMem(s)
    IN [heap |-> [n \in DOMAIN s.heap \cup {m} |-> IF n = m THEN [type |-> type, refn |-> 1, kids |-> <<>>] ELSE s.heap[n]],
        mp |-> IF s.mp # <<>> THEN Front(s.mp) ELSE s.mp]

\* _Ref of a copy.
Ref(h, m) == IF m = Null THEN h ELSE [h EXCEPT ![m].refn = @ + 1]

\* _UnRef: the last reference takes the slots with it, one after the other,
\* and gives the memory to the pool, or to free().
RECURSIVE UnRef(_, _)
UnRef(s, m) ==
    IF m = Null THEN s
    ELSE IF s.heap[m].refn > 1 THEN [s EXCEPT !.heap[m].refn = @ - 1]
    ELSE LET kids == s.heap[m].kids
             t == FoldLeft(LAMBDA u, k : UnRef(u, k.mem), s, kids)
         IN [heap |-> [n \in DOMAIN t.heap \ {m} |-> t.heap[n]],
             mp |-> IF Len(t.mp) < MaxPool THEN Append(t.mp, m) ELSE t.mp]

----------------------------------------------------------------------------
\* Places, what they hold, and the addresses that can be reached from one.
IsVar(p) == p[1] = "var"
Slots == {<<"slot", m, i>> : m \in DOMAIN heap, i \in 1..MaxKids}
Places == ({"var"} \X Names) \cup {p \in Slots : p[3] <= Len(heap[p[2]].kids)}
Held(p) == IF IsVar(p) THEN var[p[2]] ELSE heap[p[2]].kids[p[3]].mem
KidsOf(S) == UNION {{heap[n].kids[i].mem : i \in DOMAIN heap[n].kids} : n \in S} \ {Null}
Below(m) == FoldLeft(LAMBDA S, n : S \cup KidsOf(S), {m} \ {Null}, SetToSeq(Mems))

\* Put m into a place of the heap h.
Put(h, p, m) == IF IsVar(p) THEN h ELSE [h EXCEPT ![p[2]].kids[p[3]].mem = m]
PutVar(p, m) == IF IsVar(p) THEN [var EXCEPT ![p[2]] = m] ELSE var

\* Value(int), Value(bool), Value(double), Value(const char*): a new scalar,
\* moved into a place; the old value of the place is released.
NewScalar(p) ==
    /\ MayAlloc(Now)
    /\ LET m == AllocMem(Now)
           s == UnRef(Alloc(Now, "scalar"), Held(p))
       IN /\ Becomes([s EXCEPT !.heap = Put(s.heap, p, m)])
          /\ var' = PutVar(p, m)

\* The source of an assignment outlives the old value of the target, and the
\* target does not become a part of itself.
Lives(src, s) == IsVar(src) \/ src[2] \in DOMAIN s.heap
MayMove(dst, src, s) ==
    /\ dst # src
    /\ IsVar(dst) \/ Held(src) = Null \/ dst[2] \notin Below(Held(src))
    /\ Lives(src, s) /\ Lives(dst, s)

\* operator=(const Value&): release, copy, count.
Assign(dst, src) ==
    LET s == UnRef(Now, Held(dst))
        m == Held(src)
    IN /\ MayMove(dst, src, s)
       /\ Becomes([s EXCEPT !.heap = Put(Ref(s.heap, m), dst, m)])
       /\ var' = PutVar(dst, m)

\* Mutant of Move: the source keeps the address.
MoveKeep(dst, src) ==
    LET s == UnRef(Now, Held(dst))
        m == Held(src)
    IN /\ MayMove(dst, src, s)
       /\ Becomes([s EXCEPT !.heap = Put(s.heap, dst, m)])
       /\ var' = PutVar(dst, m)

\* operator=(Value&&): the source becomes null.
Move(dst, src) ==
    LET s == UnRef(Now, Held(dst))
        m == Held(src)
    IN /\ MayMove(dst, src, s)
       /\ Becomes([s EXCEPT !.heap = Put(Put(s.heap, dst, m), src, Null)])
       /\ var' = [x \in Names |-> IF src = <<"var", x>> THEN Null ELSE PutVar(dst, m)[x]]

Swap(x, y) ==
    /\ x # y
    /\ var' = [var EXCEPT ![x] = var[y], ![y] = var[x]]
    /\ UNCHANGED <<heap, mp>>

\* reset(), and the destructor.
Reset(x) ==
    /\ var[x] # Null
    /\ Becomes(UnRef(Now, var[x]))
    /\ var' = [var EXCEPT ![x] = Null]

\* set_array, set_object: nothing if the value has the type already.
SetContainer(x, type) ==
    LET s == UnRef(Now, var[x])
    IN /\ (var[x] # Null => heap[var[x]].type # type)
       /\ MayAlloc(s) /\ Becomes(Alloc(s, type))
       /\ var' = [var EXCEPT ![x] = AllocMem(s)]

\* push_back, add_member and operator[] make a container of a null value
\* (_Assert_array, _Assert_object); m goes to its end.
Open(x, type) == IF var[x] = Null THEN Alloc(Now, type) ELSE Now
Target(x) == IF var[x] = Null THEN AllocMem(Now) ELSE var[x]
Room(x, type) ==
    IF var[x] = Null THEN MayAlloc(Now) ELSE heap[var[x]].type = type /\ Len(heap[var[x]].kids) < MaxKids
Added(x, type, k, m) ==
    LET s == Open(x, type) IN [s EXCEPT !.heap[Target(x)].kids = Append(@, Kid(k, m))]

\* A copy; a value that is given away; and an empty one: operator[] of a key
\* that is not there.
AddCopy(x, type, k, src) ==
    LET s == Added(x, type, k, Held(src))
    IN /\ Room(x, type) /\ src # <<"var", x>> /\ (var[x] # Null => var[x] \notin Below(Held(src)))
       /\ IsVar(src) \/ src[2] # var[x]
       /\ Becomes([s EXCEPT !.heap = Ref(s.heap, Held(src))])
       /\ var' = [var EXCEPT ![x] = Target(x)]

AddMoved(x, type, k, y) ==
    /\ Room(x, type) /\ x # y /\ (var[x] # Null => var[x] \notin Below(var[y]))
    /\ Becomes(Added(x, type, k, var[y]))
    /\ var' = [var EXCEPT ![x] = Target(x), ![y] = Null]

FindKey(x, k) == {i \in DOMAIN heap[var[x]].kids : heap[var[x]].kids[i].key = k}
AddEmpty(x, k) ==
    /\ Room(x, "object") /\ (var[x] # Null => FindKey(x, k) = {})
    /\ Becomes(Added(x, "object", k, Null))
    /\ var' = [var EXCEPT ![x] = Target(x)]

\* find(key) in y, assigned to x: a copy of the first member with the key, or
\* an empty value; the copy is moved into x after the old value is released.
FindMember(x, y, k) ==
    /\ var[y] # Null /\ heap[var[y]].type = "object"
    /\ LET at == FindKey(y, k)
           m == IF at = {} THEN Null
                ELSE heap[var[y]].kids[CHOOSE i \in at : \A j \in at : i <= j].mem
           s == UnRef([heap |-> Ref(heap, m), mp |-> mp], var[x])
       IN Becomes(s) /\ var' = [var EXCEPT ![x] = m]

JsonNext ==
    \/ \E p \in Places : NewScalar(p)
    \/ \E p, q \in Places : (IsVar(p) \/ IsVar(q)) /\ (Assign(p, q) \/ Move(p, q))
    \/ \E x \in Names : \/ Reset(x)
                        \/ \E t \in {"array", "object"} : SetContainer(x, t)
                        \/ \E y \in Names : Swap(x, y) \/ \E k \in Keys : FindMember(x, y, k)
                        \/ \E p \in Places : AddCopy(x, "array", NoKey, p)
                        \/ \E y \in Names : AddMoved(x, "array", NoKey, y)
                        \/ \E p \in Places, k \in Keys : AddCopy(x, "object", k, p)
                        \/ \E y \in Names, k \in Keys : AddMoved(x, "object", k, y)
                        \/ \E k \in Keys : AddEmpty(x, k)

\* Every count is the number of places that hold the address, and these hold
\* memory in use only; memory that no place holds is free, and the pool has
\* each address once.  (json.h:84-124, json.cc:74-95)
RefsMatch ==
    /\ \A m \in DOMAIN heap :
          /\ heap[m].refn = Cardinality({p \in Places : Held(p) = m})
          /\ heap[m].refn > 0
    /\ \A p \in Places : Held(p) \in DOMAIN heap \cup {Null}
    /\ \A i \in DOMAIN mp : mp[i] \notin DOMAIN heap /\ \A j \in DOMAIN mp : mp[i] = mp[j] => i = j
=============================================================================
