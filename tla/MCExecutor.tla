------------------------------- MODULE MCExecutor --------------------------------
EXTENDS Executor

(* The second queue is sensitive to latency. *)
CONSTANTS q0, q1, q2
MCLatency == [q \in Queues |-> IF q = q1 THEN 1 ELSE PreemptTimer]
==================================================================================
