----------------------------- MODULE BlockPool -----------------------------
(***************************************************************************)
(* Where the blocks of a ConcurrentQueue come from, and where they go      *)
(* (src/include/nie/concurrentqueue.h): requisition_block() takes one from *)
(* the initial pool, else from the free list, else from malloc();          *)
(* add_block_to_free_list() gives it back from any thread.                 *)
(*                                                                         *)
(* The free list is a stack without locks.  A thread that takes the head   *)
(* first raises the node's count of references, so that nobody puts the    *)
(* node back on the list between the thread's look at its successor and    *)
(* its compare-and-swap: whoever lowers the count to zero does that then,  *)
(* if the bit SHOULD_BE_ON_FREELIST is set.                                *)
(*                                                                         *)
(* A thread has one block at most.  Each step has one access to what       *)
(* threads share; the list is sequentially consistent.                     *)
(***************************************************************************)
EXTENDS Integers

CONSTANTS
  Users,                \* the threads
  None,                 \* nullptr
  initialBlockPoolSize,
  MaxBlocks             \* bound on the number of blocks

PoolAssumption ==
  /\ initialBlockPoolSize \in Nat /\ MaxBlocks \in Nat
  /\ initialBlockPoolSize <= MaxBlocks

VARIABLES
  block,       \* the block of each thread
  recycles,    \* RECYCLE_ALLOCATED_BLOCKS
  alive,       \* FALSE after the destructor
  initialBlockPoolIndex,
  freeListHead,
  freeListRefs, freeListNext,  \* of each block
  allocated,   \* the dynamically allocated blocks that exist
  pc           \* where each thread is

list == <<freeListHead, freeListRefs, freeListNext>>
vars == <<block, recycles, alive, initialBlockPoolIndex, list, allocated, pc>>

BlockIds == 1 .. MaxBlocks
dynamicallyAllocated(b) == b > initialBlockPoolSize

NoRefs == [n |-> 0, should |-> FALSE]
Resting == [at |-> "rest"]

Init ==
  /\ block = [u \in Users |-> None]
  /\ recycles \in BOOLEAN
  /\ alive = TRUE
  /\ initialBlockPoolIndex = 0
  /\ freeListHead = None
  /\ freeListRefs = [b \in BlockIds |-> NoRefs]
  /\ freeListNext = [b \in BlockIds |-> None]
  /\ allocated = {}
  /\ pc = [u \in Users |-> Resting]

Go(u, where) == pc' = [pc EXCEPT ![u] = where]

(* A thread gets its block, and its call ends.                             *)
Hand(u, b) ==
  /\ block' = [block EXCEPT ![u] = [addr |-> b, len |-> 1]]
  /\ Go(u, Resting)

----------------------------------------------------------------------------
(* requisition_block(): the initial pool.                                  *)

CheckPool(u) ==
  /\ alive /\ pc[u] = Resting /\ block[u] = None
  /\ Go(u, [at |-> IF initialBlockPoolIndex < initialBlockPoolSize THEN "pool" ELSE "head"])
  /\ UNCHANGED <<block, recycles, alive, initialBlockPoolIndex, list, allocated>>

ClaimFromPool(u) ==
  /\ pc[u].at = "pool"
  /\ initialBlockPoolIndex' = initialBlockPoolIndex + 1
  /\ IF initialBlockPoolIndex < initialBlockPoolSize
     THEN Hand(u, initialBlockPoolIndex + 1)
     ELSE Go(u, [at |-> "head"]) /\ UNCHANGED block
  /\ UNCHANGED <<recycles, alive, list, allocated>>

----------------------------------------------------------------------------
(* requisition_block(): try_get() of the free list, else malloc().         *)

(* The loop goes on with the head that was seen.                           *)
TryNode(u, head) ==
  Go(u, IF head = None THEN [at |-> "create"] ELSE [at |-> "refs", node |-> head])

LoadHead(u) ==
  /\ pc[u].at = "head"
  /\ TryNode(u, freeListHead)
  /\ UNCHANGED <<block, recycles, alive, initialBlockPoolIndex, list, allocated>>

(* Nobody takes hold of a node with no reference.  The load of the count   *)
(* and its compare-and-swap are one step: when the latter fails, nothing   *)
(* has happened, and the loop starts again.                                *)
IncRefs(u) ==
  /\ pc[u].at = "refs"
  /\ LET b == pc[u].node IN
       IF freeListRefs[b].n = 0
       THEN Go(u, [at |-> "head"]) /\ UNCHANGED freeListRefs
       ELSE /\ freeListRefs' = [freeListRefs EXCEPT ![b].n = @ + 1]
            /\ Go(u, [at |-> "next", node |-> b])
  /\ UNCHANGED <<block, recycles, alive, initialBlockPoolIndex, freeListHead,
                 freeListNext, allocated>>

LoadNext(u) ==
  /\ pc[u].at = "next"
  /\ Go(u, [at |-> "pop", node |-> pc[u].node, next |-> freeListNext[pc[u].node]])
  /\ UNCHANGED <<block, recycles, alive, initialBlockPoolIndex, list, allocated>>

(* The node comes off, or the head is another one by now.                  *)
Pop(u) ==
  /\ pc[u].at = "pop"
  /\ IF freeListHead = pc[u].node
     THEN /\ freeListHead' = pc[u].next
          /\ Go(u, [at |-> "popped", node |-> pc[u].node])
     ELSE /\ Go(u, [at |-> "unref", node |-> pc[u].node, head |-> freeListHead])
          /\ UNCHANGED freeListHead
  /\ UNCHANGED <<block, recycles, alive, initialBlockPoolIndex, freeListRefs,
                 freeListNext, allocated>>

(* The references of the thread and of the list go.                        *)
Popped(u) ==
  /\ pc[u].at = "popped"
  /\ freeListRefs' = [freeListRefs EXCEPT ![pc[u].node].n = @ - 2]
  /\ Hand(u, pc[u].node)
  /\ UNCHANGED <<recycles, alive, initialBlockPoolIndex, freeListHead, freeListNext, allocated>>

(* Mutant: a node that should be on the list is forgotten.                 *)
UnrefForgets(u) ==
  /\ pc[u].at = "unref"
  /\ freeListRefs' = [freeListRefs EXCEPT ![pc[u].node].n = @ - 1]
  /\ TryNode(u, pc[u].head)
  /\ UNCHANGED <<block, recycles, alive, initialBlockPoolIndex, freeListHead,
                 freeListNext, allocated>>

(* The reference goes in vain; the last one puts the node back.            *)
Unref(u) ==
  /\ pc[u].at = "unref"
  /\ freeListRefs' = [freeListRefs EXCEPT ![pc[u].node].n = @ - 1]
  /\ IF freeListRefs[pc[u].node] = [n |-> 1, should |-> TRUE]
     THEN Go(u, [at |-> "add", node |-> pc[u].node, seen |-> None,
             resume |-> TRUE, head |-> pc[u].head])
     ELSE TryNode(u, pc[u].head)
  /\ UNCHANGED <<block, recycles, alive, initialBlockPoolIndex, freeListHead,
                 freeListNext, allocated>>

(* create<Block>() succeeds, or fails, or is not tried.                    *)
Create(u) ==
  /\ pc[u].at = "create"
  /\ \/ \E b \in BlockIds \ allocated :
          /\ dynamicallyAllocated(b)
          /\ \A c \in BlockIds \ allocated : dynamicallyAllocated(c) => b <= c
          /\ allocated' = allocated \cup {b}
          /\ Hand(u, b)
     \/ Go(u, Resting) /\ UNCHANGED <<block, allocated>>
  /\ UNCHANGED <<recycles, alive, initialBlockPoolIndex, list>>

----------------------------------------------------------------------------
(* add_block_to_free_list().                                               *)

(* Allocated blocks are destroyed unless they are to be recycled.          *)
Delete(u) ==
  /\ pc[u] = Resting /\ block[u] # None
  /\ dynamicallyAllocated(block[u].addr) /\ ~recycles
  /\ allocated' = allocated \ {block[u].addr}
  /\ block' = [block EXCEPT ![u] = None]
  /\ UNCHANGED <<recycles, alive, initialBlockPoolIndex, list, pc>>

(* Mutant: add() does not wait for those who still hold the node.          *)
AddAtOnce(u) ==
  /\ pc[u] = Resting /\ block[u] # None
  /\ recycles \/ ~dynamicallyAllocated(block[u].addr)
  /\ LET b == block[u].addr IN
       /\ freeListRefs' = [freeListRefs EXCEPT ![b].should = TRUE]
       /\ Go(u, [at |-> "add", node |-> b, seen |-> None, resume |-> FALSE])
  /\ block' = [block EXCEPT ![u] = None]
  /\ UNCHANGED <<recycles, alive, initialBlockPoolIndex, freeListHead, freeListNext, allocated>>

(* The others are marked; whoever has the last reference adds them.        *)
Add(u) ==
  /\ pc[u] = Resting /\ block[u] # None
  /\ recycles \/ ~dynamicallyAllocated(block[u].addr)
  /\ LET b == block[u].addr IN
       /\ freeListRefs' = [freeListRefs EXCEPT ![b].should = TRUE]
       /\ IF freeListRefs[b].n = 0
          THEN Go(u, [at |-> "add", node |-> b, seen |-> None, resume |-> FALSE])
          ELSE UNCHANGED pc
  /\ block' = [block EXCEPT ![u] = None]
  /\ UNCHANGED <<recycles, alive, initialBlockPoolIndex, freeListHead, freeListNext, allocated>>

(* add_knowing_refcount_is_zero()                                          *)
AddLoad(u) ==
  /\ pc[u].at = "add"
  /\ Go(u, [pc[u] EXCEPT !.at = "link", !.seen = freeListHead])
  /\ UNCHANGED <<block, recycles, alive, initialBlockPoolIndex, list, allocated>>

(* The list's reference; the bit is off again.                             *)
AddLink(u) ==
  /\ pc[u].at = "link"
  /\ freeListNext' = [freeListNext EXCEPT ![pc[u].node] = pc[u].seen]
  /\ freeListRefs' = [freeListRefs EXCEPT ![pc[u].node] = [n |-> 1, should |-> FALSE]]
  /\ Go(u, [pc[u] EXCEPT !.at = "push"])
  /\ UNCHANGED <<block, recycles, alive, initialBlockPoolIndex, freeListHead, allocated>>

(* The call was add(), or try_get() goes on.                               *)
AfterAdd(u) == IF pc[u].resume THEN TryNode(u, pc[u].head) ELSE Go(u, Resting)

AddPush(u) ==
  /\ pc[u].at = "push"
  /\ IF freeListHead = pc[u].seen
     THEN freeListHead' = pc[u].node /\ AfterAdd(u)
     ELSE /\ Go(u, [pc[u] EXCEPT !.at = "retry", !.seen = freeListHead])
          /\ UNCHANGED freeListHead
  /\ UNCHANGED <<block, recycles, alive, initialBlockPoolIndex, freeListRefs,
                 freeListNext, allocated>>

(* It is tried again by whoever lowers the count to zero.                  *)
AddRetry(u) ==
  /\ pc[u].at = "retry"
  /\ freeListRefs' = [freeListRefs EXCEPT ![pc[u].node] = [n |-> @.n - 1, should |-> TRUE]]
  /\ IF freeListRefs[pc[u].node].n = 1 THEN Go(u, [pc[u] EXCEPT !.at = "link"])
                                       ELSE AfterAdd(u)
  /\ UNCHANGED <<block, recycles, alive, initialBlockPoolIndex, freeListHead,
                 freeListNext, allocated>>

----------------------------------------------------------------------------

(* The blocks on the free list: the least set that has the head, and with  *)
(* each block the next one.                                                *)
OnList ==
  {b \in BlockIds :
     \A S \in SUBSET BlockIds :
       (freeListHead \in S \cup {None} /\ \A c \in S : freeListNext[c] \in S \cup {None})
         => b \in S}

Quiet == \A u \in Users : pc[u] = Resting

(* ~ConcurrentQueue(): the producers have given their blocks back.         *)
Destroy ==
  /\ alive /\ Quiet /\ \A u \in Users : block[u] = None
  /\ alive' = FALSE
  /\ allocated' = allocated \ OnList
  /\ UNCHANGED <<block, recycles, initialBlockPoolIndex, list, pc>>

Next ==
  \/ \E u \in Users :
       \/ CheckPool(u) \/ ClaimFromPool(u)
       \/ LoadHead(u) \/ IncRefs(u) \/ LoadNext(u) \/ Pop(u) \/ Popped(u) \/ Unref(u)
       \/ Create(u) \/ Delete(u)
       \/ Add(u) \/ AddLoad(u) \/ AddLink(u) \/ AddPush(u) \/ AddRetry(u)
  \/ Destroy

----------------------------------------------------------------------------
(* Properties.                                                             *)

(* Values have their types.                                                *)
TypeOK ==
  /\ block \in [Users -> [addr : BlockIds, len : {1}] \cup {None}]
  /\ recycles \in BOOLEAN /\ alive \in BOOLEAN
  /\ initialBlockPoolIndex \in Nat
  /\ freeListHead \in BlockIds \cup {None}
  /\ freeListRefs \in [BlockIds -> [n : Nat, should : BOOLEAN]]
  /\ freeListNext \in [BlockIds -> BlockIds \cup {None}]
  /\ \A b \in allocated : dynamicallyAllocated(b)

Owned == {block[u].addr : u \in {v \in Users : block[v] # None}}
Existing == allocated \cup 1 .. initialBlockPoolSize
Untouched == {b \in 1 .. initialBlockPoolSize : b > initialBlockPoolIndex}

(* When no call is under way, each block has a thread, or is on the list,  *)
(* or is in the initial pool: none is lost, although threads that find the *)
(* head changed leave it to others to put a block back.  References that   *)
(* were taken in vain are gone, and so a block that comes off the list is  *)
(* not marked for it (the assertion at concurrentqueue.h:1502).            *)
Accounted ==
  /\ Quiet /\ alive =>
       /\ Existing = Owned \cup OnList \cup Untouched
       /\ Owned \cap OnList = {}
       /\ \A b \in BlockIds :
            freeListRefs[b] = IF b \in OnList THEN [n |-> 1, should |-> FALSE] ELSE NoRefs
  /\ \A u \in Users : pc[u].at = "popped" => ~freeListRefs[pc[u].node].should
  /\ ~alive => allocated = {}
============================================================================
