--------------------------- MODULE RecyclingCache ---------------------------
(***************************************************************************)
(* recycling_cache_arena of src/include/nie/recycling_cache.hpp: freed     *)
(* memory is kept in a fixed number of elements and handed out again.      *)
(*                                                                         *)
(* Each piece of memory from the base allocator starts with a word that    *)
(* holds its size, which the user's memory follows.  The size a user gives *)
(* back is ignored, so everything rests on that word: the model has the    *)
(* contents of the memory, and users who write all over their own part.    *)
(*                                                                         *)
(* The arena has no lock: one thread uses it.  The base allocator is       *)
(* external: it returns any free memory, or throws.                        *)
(***************************************************************************)
EXTENDS Integers, FiniteSets, FiniteSetsExt

CONSTANTS
  Users, Sizes, None,
  Words,   \* the number of words the base allocator has
  Cells    \* the number of elements_ (128 in the code)

CacheAssumption == Words \in Nat /\ Cells \in Nat \ {0} /\ Sizes \subseteq Nat

VARIABLES
  block,      \* the allocation of each user
  elements,   \* elements_: pairs of a pointer (or None) and a size
  open,       \* FALSE after the destructor
  base,       \* the length of each piece the base allocator handed out
  memory,     \* the contents of the words
  misfreed    \* a piece went back with a wrong length or twice (history)

vars == <<block, elements, open, base, memory, misfreed>>

Addresses == 0 .. Words - 1
Slots == 1 .. Cells
Junk == -1   \* what users write

----------------------------------------------------------------------------
(* The base allocator.                                                     *)

Region(a, len) == a .. (a + len - 1)

Free(a, len) ==
  /\ Region(a, len) \subseteq Addresses
  /\ \A b \in DOMAIN base : Region(a, len) \cap Region(b, base[b]) = {}

(* The base allocator when the pieces that start at gone went back to it.  *)
WithoutPieces(gone) == [a \in DOMAIN base \ gone |-> base[a]]

Misfree(a, len) == a \notin DOMAIN base \/ base[a] # len

----------------------------------------------------------------------------

Init ==
  /\ block = [u \in Users |-> None]
  /\ elements = [i \in Slots |-> [ptr |-> None, size |-> 0]]
  /\ open = TRUE
  /\ base = [a \in {} |-> 0]
  /\ memory = [a \in Addresses |-> Junk]
  /\ misfreed = FALSE

Hits(n) == {i \in Slots : elements[i].ptr # None /\ elements[i].size >= n}
Empty == {i \in Slots : elements[i].ptr = None}

(* The user's memory follows the size word.                                *)
UserPart(ptr, n) == [addr |-> ptr + 1, len |-> n]

(* Mutant: the element keeps the pointer it gives out.                     *)
ReuseKept(u, n) ==
  /\ Hits(n) # {}
  /\ block' = [block EXCEPT ![u] = UserPart(elements[Min(Hits(n))].ptr, n)]
  /\ UNCHANGED <<elements, open, base, memory, misfreed>>

(* allocate() finds an element that is large enough: the first is taken.   *)
Reuse(u, n) ==
  /\ Hits(n) # {}
  /\ LET i == Min(Hits(n)) IN
       /\ block' = [block EXCEPT ![u] = UserPart(elements[i].ptr, n)]
       /\ elements' = [elements EXCEPT ![i].ptr = None]
  /\ UNCHANGED <<open, base, memory, misfreed>>

(* Otherwise the base allocator is asked for n + 1 words.                  *)
Fresh(u, n) ==
  /\ Hits(n) = {}
  /\ \E a \in Addresses :
       /\ Free(a, n + 1)
       /\ base' = [b \in DOMAIN base \cup {a} |-> IF b = a THEN n + 1 ELSE base[b]]
       /\ memory' = [memory EXCEPT ![a] = n]
       /\ block' = [block EXCEPT ![u] = UserPart(a, n)]
  /\ UNCHANGED <<elements, open, misfreed>>

Allocate(u) ==
  /\ open /\ block[u] = None
  /\ \E n \in Sizes : Reuse(u, n) \/ Fresh(u, n)

(* A user writes to all of its memory.                                     *)
Write(u) ==
  /\ block[u] # None
  /\ LET b == block[u] IN
       memory' = [a \in Addresses |->
                    IF a \in Region(b.addr, b.len) THEN Junk ELSE memory[a]]
  /\ UNCHANGED <<block, elements, open, base, misfreed>>

(* deallocate() finds an empty element, and fills the first of them.       *)
Keep(u) ==
  /\ Empty # {}
  /\ LET ptr == block[u].addr - 1 IN
       elements' = [elements EXCEPT ![Min(Empty)] =
                      [ptr |-> ptr, size |-> memory[ptr]]]
  /\ UNCHANGED <<base, misfreed>>

Smallest ==
  Min({i \in Slots : \A j \in Slots : elements[i].size <= elements[j].size})

(* Mutant: the new pointer is stored before the old one is freed.          *)
EvictOverwritten(u) ==
  /\ Empty = {}
  /\ LET ptr == block[u].addr - 1
         size == elements[Smallest].size IN
       /\ misfreed' = (misfreed \/ Misfree(ptr, size + 1))
       /\ base' = WithoutPieces({ptr})
       /\ elements' = [elements EXCEPT ![Smallest] =
                         [ptr |-> ptr, size |-> memory[ptr]]]

(* All elements are in use: the first of the smallest makes room.          *)
Evict(u) ==
  /\ Empty = {}
  /\ LET ptr == block[u].addr - 1
         old == elements[Smallest] IN
       /\ misfreed' = (misfreed \/ Misfree(old.ptr, old.size + 1))
       /\ base' = WithoutPieces({old.ptr})
       /\ elements' = [elements EXCEPT ![Smallest] =
                         [ptr |-> ptr, size |-> memory[ptr]]]

Deallocate(u) ==
  /\ open /\ block[u] # None
  /\ Keep(u) \/ Evict(u)
  /\ block' = [block EXCEPT ![u] = None]
  /\ UNCHANGED <<open, memory>>

(* ~recycling_cache_arena(); its users are gone by then.                   *)
Destroy ==
  /\ open /\ \A u \in Users : block[u] = None
  /\ LET kept == Slots \ Empty IN
       /\ misfreed' = (misfreed \/ \E i \in kept :
                         Misfree(elements[i].ptr, elements[i].size + 1))
       /\ base' = WithoutPieces({elements[i].ptr : i \in kept})
  /\ open' = FALSE
  /\ UNCHANGED <<block, elements, memory>>

Next ==
  \/ \E u \in Users : Allocate(u) \/ Write(u) \/ Deallocate(u)
  \/ Destroy

Spec == Init /\ [][Next]_vars

----------------------------------------------------------------------------
(* Properties.                                                             *)

(* Values have their types.                                                *)
TypeOK ==
  /\ block \in [Users -> [addr : Int, len : Sizes] \cup {None}]
  /\ elements \in [Slots -> [ptr : Addresses \cup {None}, size : Sizes \cup {0}]]
  /\ open \in BOOLEAN /\ misfreed \in BOOLEAN
  /\ DOMAIN base \subseteq Addresses /\ \A a \in DOMAIN base : base[a] \in Nat
  /\ memory \in [Addresses -> Sizes \cup {Junk}]

(* Who is responsible for the piece at a: users and elements.              *)
Holders(a) ==
  {u \in Users : block[u] # None /\ block[u].addr = a + 1}
    \cup {i \in Slots : elements[i].ptr = a}

(* While the arena exists, every piece of the base allocator has one       *)
(* holder, and elements point to nothing else.                             *)
OneHolder ==
  open => /\ \A a \in DOMAIN base : Cardinality(Holders(a)) = 1
          /\ \A i \in Slots : elements[i].ptr # None => elements[i].ptr \in DOMAIN base

(* When the arena is destroyed, all memory is back.                        *)
AllReturned == ~open => DOMAIN base = {}

(* The base allocator's memory is accounted for: it neither leaks nor is   *)
(* in two hands, and goes back once, with the length it came with          *)
(* (recycling_cache.hpp:19,51), although blocks change hands with smaller  *)
(* requests, are evicted, and users write to everything they have.         *)
Accounted == OneHolder /\ AllReturned /\ ~misfreed

Contract == INSTANCE Allocator

(* The users get what the allocators promise: memory of their own.         *)
Allocates == Contract!Spec
============================================================================
