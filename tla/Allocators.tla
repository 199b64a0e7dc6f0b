----------------------------- MODULE Allocators -----------------------------
(***************************************************************************)
(* Each way of nielib and its queue to get memory keeps the one promise of *)
(* Allocator: recycling_cache, the arenas, page_allocator, and the blocks  *)
(* of a ConcurrentQueue.  A behaviour is one of any of the four.           *)
(***************************************************************************)
EXTENDS Integers

CONSTANTS
  Users, None,
  CacheSizes, Words, Cells,                                      \* RecyclingCache
  ArenaSizes, N, Alignment, HeapEnd, MaxUsed,                    \* Arena
  PageSizes, Alignments, W, MinPage, WordBytes, CanFail, MaxPages, \* PageAllocator
  initialBlockPoolSize, MaxBlocks                                \* BlockPool

VARIABLES
  which,   \* the allocator that is in use
  block,
  elements, open, base, memory, misfreed,
  counted, ptr, heap, full_used, full_returned, lost,
  pages, page, page_size, page_offset, ended, failed,
  recycles, alive, initialBlockPoolIndex, freeListHead, freeListRefs,
  freeListNext, allocated, pc

cacheVars == <<elements, open, base, memory, misfreed>>
arenaVars == <<counted, ptr, heap, full_used, full_returned, lost>>
pageVars == <<pages, page, page_size, page_offset, ended, failed>>
poolVars == <<recycles, alive, initialBlockPoolIndex, freeListHead, freeListRefs,
              freeListNext, allocated, pc>>
vars == <<which, block, cacheVars, arenaVars, pageVars, poolVars>>

Cache == INSTANCE RecyclingCache WITH Sizes <- CacheSizes
Arenas == INSTANCE Arena WITH Sizes <- ArenaSizes
Paged == INSTANCE PageAllocator WITH Sizes <- PageSizes
Pool == INSTANCE BlockPool

ASSUME AllocatorsAssumption ==
  /\ None \notin Int \cup [addr : Int, len : Int] \cup [page : Int, offset : Int, len : Int]
  /\ Cache!CacheAssumption
  /\ Arenas!ArenaAssumption
  /\ Paged!PageAssumption
  /\ Pool!PoolAssumption

(* The variants of the arena and the pool are chosen when they are used.   *)
Init ==
  /\ which \in {"cache", "arena", "pages", "pool"}
  /\ Cache!Init /\ Arenas!Init /\ Paged!Init /\ Pool!Init
  /\ which # "arena" => ~counted
  /\ which # "pool" => ~recycles

Next ==
  /\ UNCHANGED which
  /\ \/ which = "cache" /\ Cache!Next /\ UNCHANGED <<arenaVars, pageVars, poolVars>>
     \/ which = "arena" /\ Arenas!Next /\ UNCHANGED <<cacheVars, pageVars, poolVars>>
     \/ which = "pages" /\ Paged!Next /\ UNCHANGED <<cacheVars, arenaVars, poolVars>>
     \/ which = "pool" /\ Pool!Next /\ UNCHANGED <<cacheVars, arenaVars, pageVars>>

Spec == Init /\ [][Next]_vars

----------------------------------------------------------------------------

TypeOK ==
  CASE which = "cache" -> Cache!TypeOK
    [] which = "arena" -> Arenas!TypeOK
    [] which = "pages" -> Paged!TypeOK
    [] which = "pool"  -> Pool!TypeOK

(* Memory is accounted for, each allocator's in its own way: it has one    *)
(* holder, and goes back where it came from, once (recycling_cache.hpp:19, *)
(* stack_alloc.hpp:62, concurrentqueue.h:1432); the sums from which        *)
(* dynamic_arena tells whether anybody still has memory are right          *)
(* (dynamic_stack_alloc.hpp:56); what the pages give out lies in a page,   *)
(* and no require() ends the process (page_allocator.hpp:44,47).           *)
Accounted ==
  CASE which = "cache" -> Cache!Accounted
    [] which = "arena" -> Arenas!HeapMatches /\ Arenas!CountsAgree
    [] which = "pages" -> Paged!InPages /\ Paged!RequiresHold
    [] which = "pool"  -> Pool!Accounted

(* A page is a region of its own, and null one below all of them.          *)
Contract ==
  INSTANCE Allocator WITH
    Sizes <- CacheSizes \cup ArenaSizes \cup PageSizes \cup {1},
    block <- IF which = "pages" THEN [u \in Users |-> Paged!Flat(block[u])] ELSE block

(* The users get what the allocators promise, memory of their own - of the *)
(* page allocator until an allocation throws half way.                     *)
Allocates == Contract!Init /\ [][~failed' => Contract!Next]_(block)
=============================================================================
