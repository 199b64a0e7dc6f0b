----------------------------- MODULE Allocator -----------------------------
(***************************************************************************)
(* What a container expects of any allocator of nielib, and what           *)
(* RecyclingCache, Arena and PageAllocator are shown to implement: the     *)
(* memory a user is given belongs to nobody else until it is given back.   *)
(***************************************************************************)
EXTENDS Integers

CONSTANTS
  Users,   \* the containers, each with at most one allocation
  Sizes,   \* the sizes they ask for
  None     \* no allocation

VARIABLE block   \* the allocation of each user

Block == [addr : Int, len : Sizes]

Span(b) == b.addr .. (b.addr + b.len - 1)
Apart(b, c) == Span(b) \cap Span(c) = {}

(* b does not touch what any user but u holds.                             *)
ApartFromOthers(b, u) ==
  \A v \in Users \ {u} : block[v] # None => Apart(b, block[v])

Init == block = [u \in Users |-> None]

Allocate(u, b) ==
  /\ block[u] = None
  /\ ApartFromOthers(b, u)
  /\ block' = [block EXCEPT ![u] = b]

Deallocate(u) ==
  /\ block[u] # None
  /\ block' = [block EXCEPT ![u] = None]

(* An address is whatever the step chose: naming it keeps TLC from trying  *)
(* all integers.                                                           *)
Next ==
  \E u \in Users :
    \/ block'[u] \in Block /\ Allocate(u, block'[u])
    \/ Deallocate(u)

Spec == Init /\ [][Next]_block
============================================================================
