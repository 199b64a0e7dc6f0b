--------------------------- MODULE MCLogPipeline ---------------------------
(* Instances of LogPipeline with two threads.  Programs whose threads log  *)
(* one message each, with a location, a schema, a string or a node, or a   *)
(* plain one that may be fatal; and one with two plain messages each.      *)
EXTENDS LogPipeline, TLC

CONSTANTS t1, t2, m, f, s1, l1, l2, c1, n1

MCThreads == {t1, t2}

Once(logs) == [logs |-> logs, calls |-> 1]
MCPrograms ==
  {Once({m} \X {l1, l2}), Once({m} \X {c1}), Once({m} \X {s1, n1}),
   Once({m, f} \X {Plain}), [logs |-> {m} \X {Plain}, calls |-> 2]}
============================================================================
