------------------------ MODULE MCPresenceRuntime -------------------------
EXTENDS PresenceRuntime
CONSTANTS a, b, t1, t2
(* A thread in each of two processes.                                      *)
Apart == [t \in Threads |-> IF t = t1 THEN a ELSE b]
(* All threads in one process.                                             *)
Together == [t \in Threads |-> a]
===========================================================================
