----------------------------- MODULE MCWorkers -----------------------------
(* Small instances of Workers.                                             *)
EXTENDS Workers

CONSTANTS q1, q2, t1

OnFirst == {<<>>, <<t1>>, <<t1, t1>>}
TwoQueues == {<<q1, q2>>}
OnePriority == {1}
============================================================================
