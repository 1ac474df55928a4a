----------------------------- MODULE MCExecutor -----------------------------
EXTENDS Executor

CONSTANTS p, q

(* Job 1 and job 2 begin with the same eight characters. *)
MCPrefix == [j \in Job |-> IF j \in {1, 2} THEN p ELSE q]
=============================================================================
