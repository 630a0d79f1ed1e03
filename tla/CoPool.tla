------------------------------- MODULE CoPool -------------------------------
(***************************************************************************)
(* co::Pool (co.cc) with a create and a destroy callback: a stack of       *)
(* elements per scheduler.  Elements are numbered; alive holds the ones    *)
(* that were created and not destroyed.                                    *)
(***************************************************************************)
EXTENDS Naturals, Sequences, SequencesExt

CONSTANTS
    PoolScheds, \* schedulers whose coroutines use the pool
    Elems,      \* elements that may be created
    MaxCap      \* _maxcap

VARIABLES
    pools,      \* _pools
    cbs,        \* schedulers with a cleanup callback for their pool
    alive

poolVars == <<pools, cbs, alive>>

PoolTypeOK ==
    /\ DOMAIN pools = PoolScheds /\ \A s \in PoolScheds : Range(pools[s]) \subseteq Elems
    /\ cbs \subseteq PoolScheds
    /\ alive \subseteq Elems

PoolInit ==
    /\ pools = [s \in PoolScheds |-> <<>>]
    /\ cbs = {}
    /\ alive = {}

\* pop(): create_pool on the first use, then the last element, or a new one.
PopElem(s, e) ==
    /\ cbs' = cbs \cup {s}
    /\ IF pools[s] # <<>>
       THEN e = Last(pools[s]) /\ pools' = [pools EXCEPT ![s] = Front(@)] /\ UNCHANGED alive
       ELSE e \in Elems \ alive /\ alive' = alive \cup {e} /\ UNCHANGED pools

\* push(): at the limit the element is destroyed.
PushElem(s, e) ==
    /\ cbs' = cbs \cup {s}
    /\ IF Len(pools[s]) < MaxCap
       THEN pools' = [pools EXCEPT ![s] = Append(@, e)] /\ UNCHANGED alive
       ELSE alive' = alive \ {e} /\ UNCHANGED pools

\* Nothing is in the pools twice, and what is in them exists.
PoolOwnsOnce ==
    /\ \A s, t \in PoolScheds : \A i \in DOMAIN pools[s], j \in DOMAIN pools[t] :
          pools[s][i] = pools[t][j] => s = t /\ i = j
    /\ \A s \in PoolScheds : Range(pools[s]) \subseteq alive
=============================================================================
