---------------------------- MODULE MCAllocators ----------------------------
(* Three users of each allocator.  The recycling cache has two elements    *)
(* over six words: elements of two sizes, eviction, requests that meet no  *)
(* fit.  Twelve small allocations fill the arena, which users reach by     *)
(* going back in another order than they came.  The pages' size_t has      *)
(* seven bits.  The queue has three blocks, one of them in its pool: a     *)
(* head can come off the list and back while another thread looks at it.   *)
EXTENDS Allocators, TLC

CONSTANTS u1, u2, u3
MCUsers == {u1, u2, u3}
MCSymmetry == Permutations(MCUsers)
=============================================================================
