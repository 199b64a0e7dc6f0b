----------------------------- MODULE MCSubQueue -----------------------------
(* Blocks of two elements.  One consumer with three blocks makes indices   *)
(* grow and wraps a four bit index_t; two at a time with two blocks race.  *)
EXTENDS SubQueue, TLC

CONSTANTS c1, c2, b1, b2, b3
MCConsumers == {c1, c2}
MCBlocks == {b1, b2, b3}
MCSymmetry == Permutations(MCConsumers) \cup Permutations(MCBlocks)

Alone(isExplicit) ==
  [isExplicit |-> isExplicit, modulus |-> 16, blocks |-> 3, atOnce |-> 1,
   enqueue |-> 3, dequeue |-> 2, overcommit |-> 1, throws |-> TRUE]
Racing(isExplicit, overcommit) ==
  [isExplicit |-> isExplicit, modulus |-> 8, blocks |-> 2, atOnce |-> 2,
   enqueue |-> 1, dequeue |-> 1, overcommit |-> overcommit, throws |-> FALSE]

MCSetups == {Alone(TRUE), Alone(FALSE), Racing(TRUE, 2), Racing(FALSE, 1)}
MCAlone == {Alone(TRUE)}
MCSingle == {[Alone(TRUE) EXCEPT !.enqueue = 1]}
=============================================================================
