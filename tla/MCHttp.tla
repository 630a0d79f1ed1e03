------------------------------- MODULE MCHttp -------------------------------
(* An instance of Http for TLC. *)
EXTENDS Http

R(http10, conn, len, err, lines) ==
    [http10 |-> http10, conn |-> conn, len |-> len, err |-> err, lines |-> lines,
     resLines |-> lines, resOk |-> ~http10 \/ conn # ""]

MCRequests == {R(FALSE, "", 1, 0, 1), R(FALSE, "close", 0, 0, 1), R(TRUE, "keep-alive", 0, 0, 1),
               R(TRUE, "", 0, 0, 1), R(FALSE, "", 0, 405, 1), R(FALSE, "Close", 0, 0, 3)}
MCScenes == {[foreign |-> {1}, reqs |-> 3, calls |-> 0], [foreign |-> {1, 2}, reqs |-> 1, calls |-> 0],
             [foreign |-> {}, reqs |-> 0, calls |-> 2]}
=============================================================================
