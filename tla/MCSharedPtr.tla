---------------------------- MODULE MCSharedPtr ----------------------------
(* Instance of SharedPtr: two threads with two variables each, and objects *)
(* of which one may own the other.                                         *)
EXTENDS SharedPtr, TLC

CONSTANTS t1, t2, o1, o2, a1, a2, b1, b2

MCThreads == {t1, t2}
MCSlots == {a1, a2, b1, b2}
MCSlotOwner == [s \in MCSlots |-> IF s \in {a1, a2} THEN t1 ELSE t2]
(* Objects, and the variables of one thread, are interchangeable.           *)
MCSymmetry ==
  Permutations({o1, o2}) \cup Permutations({a1, a2}) \cup Permutations({b1, b2})
============================================================================
