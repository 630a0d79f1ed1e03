---------------------------- MODULE MCTaskSched ----------------------------
(* Tasks for TaskSched: one in some seconds, a daily one, and one to run at *)
(* once, which signals the loop.                                            *)
EXTENDS TaskSched, TLC

MCJobs == ("a" :> [kind |-> "in", sec |-> 3]) @@ ("b" :> [kind |-> "daily", sec |-> 0])
          @@ ("z" :> [kind |-> "in", sec |-> 0])
=============================================================================
