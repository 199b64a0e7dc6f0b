-------------------------- MODULE MCPageAllocator --------------------------
(* Instances of PageAllocator with a size_t of seven bits: two users, and pages *)
(* that a few requests fill.                                               *)
EXTENDS PageAllocator, TLC

CONSTANTS u1, u2
MCTwoUsers == {u1, u2}
MCSymmetry == Permutations(MCTwoUsers)
============================================================================
