-------------------------- MODULE ExplicitProducer --------------------------
(***************************************************************************)
(* ConcurrentQueue::ExplicitProducer: the queue of a producer token.  Its  *)
(* blocks form a ring, next, in which the producer moves on from tailBlock *)
(* and reuses the block ahead once consumers have set all its emptyFlags.  *)
(* The block index is a circular array of (base, block) that consumers     *)
(* search by the distance from its front; when it is full, the producer    *)
(* publishes one of twice the size and keeps the old.                      *)
(***************************************************************************)
EXTENDS ProducerBase

CONSTANT EXPLICIT_INITIAL_INDEX_SIZE

VARIABLES
  next,
  emptyFlags,  \* the positions whose flag is set
  headers,     \* the block indices, the one in use last
  pr_blockIndexSlotsUsed,
  pr_blockIndexFront

producerVars == <<next, emptyFlags, headers, pr_blockIndexSlotsUsed, pr_blockIndexFront>>

Current == headers[Len(headers)]
pr_blockIndexSize ==
  IF headers = <<>> THEN EXPLICIT_INITIAL_INDEX_SIZE \div 2 ELSE Current.size

NoEntry == [base |-> 0, block |-> None]

(* new_block_index(exposed): the entries in use move to the beginning.     *)
NewIndex(exposed) ==
  LET oldest == pr_blockIndexFront - pr_blockIndexSlotsUsed IN
  [size |-> 2 * pr_blockIndexSize, front |-> exposed - 1,
   entries |-> [i \in 0 .. 2 * pr_blockIndexSize - 1 |->
     IF i < pr_blockIndexSlotsUsed THEN Current.entries[(oldest + i) % pr_blockIndexSize]
                                   ELSE NoEntry]]

FirstIndex ==
  [size |-> EXPLICIT_INITIAL_INDEX_SIZE, front |-> -1,
   entries |-> [i \in 0 .. EXPLICIT_INITIAL_INDEX_SIZE - 1 |-> NoEntry]]

(* The constructor tries to get an index.                                  *)
FreshIndex == IF setup.isExplicit THEN {<<FirstIndex>>, <<>>} ELSE {<<>>}

OwnInit ==
  /\ headers \in FreshIndex
  /\ pr_blockIndexSlotsUsed = 0 /\ pr_blockIndexFront = 0
  /\ next = [b \in Blocks |-> None]
  /\ emptyFlags = [b \in Blocks |-> {}]

(* entries[pr_blockIndexFront] is written; front is what consumers see.    *)
IndexWith(i, base, block, front) ==
  [headers EXCEPT ![Len(headers)] =
    [size |-> @.size, front |-> front,
     entries |-> [@.entries EXCEPT ![i] = [base |-> base, block |-> block]]]]
(* The contents of an old index are forgotten once nobody searches it.     *)
Forget(indices, calls) ==
  [i \in DOMAIN indices |->
    IF \/ i = Len(indices)
       \/ \E c \in Consumers : "header" \in DOMAIN calls[c] /\ calls[c].header = i
    THEN indices[i] ELSE [size |-> 0, front |-> -1, entries |-> <<>>]]

NextFront == (pr_blockIndexFront + 1) % pr_blockIndexSize

----------------------------------------------------------------------------
(* enqueue() and enqueue_bulk().                                           *)

BeginEnqueue(n) ==
  /\ op = Idle /\ NobodySleeps(n)
  /\ Failures \cap {"reused", "new"} = {} => WillSucceed(n)
  /\ op' = [at |-> "blocks", n |-> n, start |-> tailBlock, got |-> <<>>, reuse |-> TRUE,
            front0 |-> pr_blockIndexFront, slots0 |-> pr_blockIndexSlotsUsed]
  /\ UNCHANGED <<setup, counters, call, result, tailBlock, elem, free, producerVars>>

Got == {op.got[i] : i \in DOMAIN op.got}
Ahead == next[tailBlock]
IsEmpty(b) == emptyFlags[b] = Positions
CanReuse ==
  /\ tailBlock # None
  /\ Ahead \notin Got
  /\ IsEmpty(Ahead)

(* tailBlock moves on to b; enqueue_bulk() puts it in the index at once,   *)
(* enqueue() when its element is constructed.                              *)
MoveTo(b, reuse) ==
  /\ tailBlock' = b
  /\ op' = With(op, [got |-> Append(op.got, b), reuse |-> reuse])
  /\ IF op.n > 1
     THEN /\ headers' = IndexWith(pr_blockIndexFront, NewBase, b, Current.front)
          /\ pr_blockIndexFront' = NextFront
     ELSE UNCHANGED <<headers, pr_blockIndexFront>>

(* The block ahead is empty.  Flags are cleared in Fill: only the producer *)
(* looks at them until then.                                               *)
TakeAhead ==
  /\ op.at = "blocks" /\ ~HasAll /\ op.reuse /\ CanReuse
  /\ MoveTo(Ahead, TRUE)
  /\ UNCHANGED <<setup, counters, call, result, elem, free, next, emptyFlags, pr_blockIndexSlotsUsed>>

(* There is none: this is the last time that the producer looks.           *)
WantsNew == op.at = "blocks" /\ ~HasAll /\ (op.reuse => ~CanReuse)

(* Mutant: the index grows no more once there is one.                      *)
IndexMissing == headers = <<>>

IndexFull == headers = <<>> \/ pr_blockIndexSlotsUsed = pr_blockIndexSize

(* The fallback value of the front becomes slots0, as the entries move.    *)
GrowIndex ==
  /\ WantsNew /\ ~Full(NewBase) /\ IndexFull
  /\ headers' = Forget(Append(headers, NewIndex(op.slots0)), call)
  /\ pr_blockIndexFront' = pr_blockIndexSlotsUsed
  /\ op' = [op EXCEPT !.front0 = op.slots0, !.reuse = FALSE]
  /\ UNCHANGED <<setup, counters, call, result, tailBlock, elem, free,
                 next, emptyFlags, pr_blockIndexSlotsUsed>>

(* A new block goes into the ring behind tailBlock.                        *)
GetBlock(b) ==
  /\ WantsNew /\ ~Full(NewBase) /\ ~IndexFull
  /\ Requisition(b)
  /\ MoveTo(b, FALSE)
  /\ emptyFlags' = [emptyFlags EXCEPT ![b] = Positions]
  /\ next' = IF tailBlock = None THEN [next EXCEPT ![b] = b]
             ELSE [next EXCEPT ![b] = Ahead, ![tailBlock] = b]
  /\ pr_blockIndexSlotsUsed' = pr_blockIndexSlotsUsed + 1
  /\ UNCHANGED <<setup, counters, call, result, elem>>

(* The tail moves back; blocks that were got stay in the ring.             *)
Revert ==
  /\ pr_blockIndexFront' = op.front0
  /\ pr_blockIndexSlotsUsed' = op.slots0
  /\ tailBlock' = IF op.start = None /\ op.got # <<>> THEN op.got[1] ELSE op.start
  /\ op' = Idle
  /\ UNCHANGED <<setup, counters, call, result, elem, free, next, headers>>

(* The queue is full, or malloc() fails: no block is to be had, no index.  *)
Fail ==
  /\ WantsNew /\ MayFail(IF pr_blockIndexSlotsUsed = op.slots0 THEN "reused" ELSE "new")
  /\ Revert
  /\ UNCHANGED emptyFlags

(* Mutant: the flags of reused blocks are left as they are.                *)
NoResetEmpty == UNCHANGED emptyFlags

ResetEmpty ==
  emptyFlags' = [b \in Blocks |-> IF b \in Got THEN {} ELSE emptyFlags[b]]

(* reset_empty(), and a constructor throws: what it and those before it    *)
(* have constructed is gone.  The blocks that were got stay in the ring    *)
(* with their flags cleared.                                               *)
ConstructorThrows ==
  /\ op.at = "blocks" /\ HasAll /\ MayFail("throw")
  /\ ResetEmpty
  /\ Revert

(* reset_empty(), the elements are constructed, and the front of the index *)
(* is published.                                                           *)
Fill ==
  /\ op.at = "blocks" /\ HasAll
  /\ ResetEmpty
  /\ Construct
  /\ CASE op.got = <<>> -> UNCHANGED <<headers, pr_blockIndexFront>>
       [] op.got # <<>> /\ op.n > 1 ->
            /\ headers' = [headers EXCEPT ![Len(headers)].front =
                             (pr_blockIndexFront - 1) % pr_blockIndexSize]
            /\ UNCHANGED pr_blockIndexFront
       [] op.got # <<>> /\ op.n = 1 ->
            /\ headers' = IndexWith(pr_blockIndexFront, tailIndex, tailBlock, pr_blockIndexFront)
            /\ pr_blockIndexFront' = NextFront
  /\ op' = [at |-> "publish", n |-> op.n]
  /\ UNCHANGED <<setup, counters, call, result, tailBlock, free, next, pr_blockIndexSlotsUsed>>

----------------------------------------------------------------------------
(* dequeue() and dequeue_bulk(), once the indices are theirs.              *)

(* blockIndex.load()                                                       *)
LoadIndex(c) ==
  /\ call[c].at = "index"
  /\ Goto(c, With(call[c], [at |-> "front", header |-> Len(headers)]))
  /\ UNCHANGED <<setup, counters, result, op, tailBlock, elem, free, producerVars>>

(* front.load()                                                            *)
LoadFront(c) ==
  /\ call[c].at = "front"
  /\ Goto(c, With(call[c], [at |-> "entry", slot |-> headers[call[c].header].front]))
  /\ UNCHANGED <<setup, counters, result, op, tailBlock, elem, free, producerVars>>

(* The block is as many entries from the front as its base is from the     *)
(* front's base.                                                           *)
FindBlock(c) ==
  /\ call[c].at = "entry"
  /\ LET index == headers[call[c].header]
         i == (call[c].slot + BlocksApart(call[c].index, index.entries[call[c].slot].base))
                % index.size
     IN  Goto(c, With(call[c], [at |-> "take", slot |-> i, block |-> index.entries[i].block]))
  /\ UNCHANGED <<setup, counters, result, op, tailBlock, elem, free, producerVars>>

SetManyEmpty(b, first, count) ==
  emptyFlags' = [emptyFlags EXCEPT ![b] = @ \cup (first .. first + count - 1)]

(* set_many_empty(); the next block of a bulk is in the next entry.        *)
SetEmpty(c) ==
  /\ call[c].at = "empty"
  /\ SetManyEmpty(call[c].block, call[c].first, call[c].taken)
  /\ LET index == headers[call[c].header]
         i == (call[c].slot + 1) % index.size
     IN  Continue(c, [at |-> "take", slot |-> i, block |-> index.entries[i].block])
  /\ UNCHANGED <<setup, counters, op, tailBlock, elem, free>>
  /\ headers' = Forget(headers, call')
  /\ UNCHANGED <<next, pr_blockIndexSlotsUsed, pr_blockIndexFront>>

----------------------------------------------------------------------------
(* The destructor.                                                         *)

(* The ring from the tail on, to its k-th block.                           *)
Ring ==
  LET nth[k \in 0 .. Cardinality(Blocks)] == IF k = 0 THEN tailBlock ELSE next[nth[k - 1]]
  IN  IF tailBlock = None THEN {} ELSE {nth[k] : k \in DOMAIN nth}

(* The first entry, from the oldest on, that does not end before the head: *)
(* the block that is partly dequeued, if any is.                           *)
HalfDequeued ==
  LET Entry(k) == Current.entries[
        (pr_blockIndexFront - pr_blockIndexSlotsUsed + k) % pr_blockIndexSize]
  IN  IF tailBlock = None \/ InBlock(headIndex) = 0 THEN NoEntry
      ELSE Entry(Min({k \in 0 .. pr_blockIndexSize - 1 :
                        ~circular_less_than(Entry(k).base + BLOCK_SIZE, headIndex)}))

(* In a block that is not empty, everything is destroyed but what is       *)
(* before the head or behind the tail.                                     *)
Destroyed ==
  {<<b, p>> \in Ring \X Positions :
    /\ ~IsEmpty(b)
    /\ b = HalfDequeued.block => p >= InBlock(headIndex)
    /\ b = tailBlock /\ InBlock(tailIndex) # 0 => p < InBlock(tailIndex)}

(* The destructor, and another producer is constructed.                    *)
Destroy ==
  /\ DestroyBase(Ring, Destroyed)
  /\ headers' \in FreshIndex
  /\ pr_blockIndexSlotsUsed' = 0 /\ pr_blockIndexFront' = 0
  /\ next' = [b \in Blocks |-> None]
  /\ emptyFlags' = [b \in Blocks |-> {}]

(* Calls are made of these steps; enqueue(), with n = 1, of the same ones. *)
Enqueue ==
  \/ \E n \in 1 .. setup.enqueue : BeginEnqueue(n)
  \/ TakeAhead \/ GrowIndex \/ Fail \/ ConstructorThrows \/ Fill
  \/ \E b \in Blocks : GetBlock(b)
  \/ Publish /\ UNCHANGED producerVars

Dequeue(c) ==
  \/ (Reserve(c) \/ Take(c)) /\ UNCHANGED producerVars
  \/ LoadIndex(c) \/ LoadFront(c) \/ FindBlock(c) \/ SetEmpty(c)

Next == Enqueue \/ Destroy \/ \E c \in Consumers : Dequeue(c)

----------------------------------------------------------------------------
TypeOK ==
  /\ BaseTypeOK
  /\ next \in [Blocks -> Blocks \cup {None}]
  /\ emptyFlags \in [Blocks -> SUBSET Positions]
  /\ \A i \in DOMAIN headers : headers[i].front \in -1 .. headers[i].size - 1
  /\ pr_blockIndexSlotsUsed \in 0 .. pr_blockIndexSize
  /\ pr_blockIndexFront \in 0 .. pr_blockIndexSize - 1

(* "Since we're in the destructor, we can assume all elements are either   *)
(* completely dequeued or completely not" (concurrentqueue.h:1778): it     *)
(* then finds the partly dequeued block, which begins before the head      *)
(* (concurrentqueue.h:1791), destroys what is left and nothing else, and   *)
(* gives every block back.  An enqueue that fails is to leave no trace of  *)
(* it, "without corrupting the queue" (concurrentqueue.h:1905): that is so *)
(* of those that fail before they have taken a block, and of no others.    *)
DestructorAssertion ==
  HalfDequeued # NoEntry => circular_less_than(HalfDequeued.base, headIndex)
DestructorExact ==
  Unused =>
    /\ Destroyed = Remaining
    /\ Ring = Blocks \ free
    /\ DestructorAssertion

(* A reused block is put on the index where there is "guaranteed to be     *)
(* room since we're conceptually removing the last block from it first"    *)
(* (concurrentqueue.h:1851): what is in the queue is found through the     *)
(* index that consumers search.                                            *)
RoomInIndex ==
  op = Idle =>
    \A i \in Left :
      LET front == Current.entries[Current.front]
          entry == Current.entries[(Current.front + BlocksApart(i, front.base)) % Current.size]
      IN  elem[entry.block][InBlock(i)] = i
=============================================================================
