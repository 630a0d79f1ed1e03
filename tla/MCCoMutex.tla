----------------------------- MODULE MCCoMutex -----------------------------
(* CoMutex for TLC: c1 and c2 share a scheduler, c3 has another one. *)
EXTENDS CoMutex, TLC

CONSTANTS c1, c2, c3, s1, s2

MCHome == (c1 :> s1) @@ (c2 :> s1) @@ (c3 :> s2)
=============================================================================
