-------------------------- MODULE ImplicitProducer --------------------------
(***************************************************************************)
(* ConcurrentQueue::ImplicitProducer: the queue of a thread that enqueues  *)
(* without a token.  A block goes back to the free list as soon as its     *)
(* last element was dequeued, and so the block index has entries that      *)
(* consumers clear while the producer adds others.  Entries are shared by  *)
(* the indices: one of twice the size points to the old ones and to new.   *)
(***************************************************************************)
EXTENDS ProducerBase

CONSTANT IMPLICIT_INITIAL_INDEX_SIZE

VARIABLES
  elementsCompletelyDequeued,
  blockIndex,  \* the indices, the one in use last
  entries      \* what they point to: the base of a block, and the block

producerVars == <<elementsCompletelyDequeued, blockIndex, entries>>

INVALID_BLOCK_BASE == -1

Current == blockIndex[Len(blockIndex)]
Capacity(h) == Cardinality(DOMAIN h.index)

(* new_block_index(): the old entries, the oldest first, and as many more. *)
MoreEntries(n) == [i \in 0 .. n - 1 |->
  IF i \in DOMAIN entries THEN entries[i] ELSE [key |-> INVALID_BLOCK_BASE, value |-> None]]
NewIndex ==
  LET n == Capacity(Current) IN
  [tail |-> n - 1,
   index |-> [i \in 0 .. 2 * n - 1 |->
     IF i < n THEN Current.index[(Current.tail + 1 + i) % n] ELSE i]]

(* The constructor tries to get an index.                                  *)
FirstSize == 0 .. IMPLICIT_INITIAL_INDEX_SIZE - 1
FirstIndex == [tail |-> IMPLICIT_INITIAL_INDEX_SIZE - 1, index |-> [i \in FirstSize |-> i]]
FreshIndex == IF setup.isExplicit THEN {<<>>} ELSE {<<FirstIndex>>, <<>>}
FreshEntries == [i \in FirstSize |-> [key |-> INVALID_BLOCK_BASE, value |-> None]]

OwnInit ==
  /\ blockIndex \in FreshIndex
  /\ entries = FreshEntries
  /\ elementsCompletelyDequeued = [b \in Blocks |-> 0]

(* get_block_index_entry_for_index(): the position is as far from the tail *)
(* of the index as the block is from the block the tail is for.            *)
PositionOf(i, h, tail) ==
  (tail + BlocksApart(i, entries[h.index[tail]].key)) % Capacity(h)
EntryOf(i) == Current.index[PositionOf(i, Current, Current.tail)]

(* The contents of an old index are forgotten once nobody searches it.     *)
Forget(indices, calls) ==
  [i \in DOMAIN indices |->
    IF \/ i = Len(indices)
       \/ \E c \in Consumers : "header" \in DOMAIN calls[c] /\ calls[c].header = i
    THEN indices[i] ELSE [tail |-> 0, index |-> <<>>]]

----------------------------------------------------------------------------
(* enqueue() and enqueue_bulk().                                           *)

BeginEnqueue(n) ==
  /\ op = Idle /\ NobodySleeps(n)
  /\ op' = [at |-> "blocks", n |-> n, start |-> tailBlock, got |-> <<>>]
  /\ UNCHANGED <<setup, counters, call, result, tailBlock, elem, free, producerVars>>

WantsEntry == op.at = "blocks" /\ ~HasAll /\ blockIndex # <<>> /\ ~Full(NewBase)
NewTail == (Current.tail + 1) % Capacity(Current)
HasRoom ==
  LET e == entries[Current.index[NewTail]] IN
  e.key = INVALID_BLOCK_BASE \/ e.value = None

SetTail(t) == blockIndex' = [blockIndex EXCEPT ![Len(blockIndex)].tail = t]

(* insert_block_index_entry(), if there is room or once there is.          *)
InsertEntry ==
  /\ WantsEntry /\ HasRoom
  /\ entries' = [entries EXCEPT ![Current.index[NewTail]].key = NewBase]
  /\ SetTail(NewTail)
  /\ op' = [op EXCEPT !.at = "block"]
  /\ UNCHANGED <<setup, counters, call, result, tailBlock, elem, free, elementsCompletelyDequeued>>

GrowIndex ==
  /\ WantsEntry /\ ~HasRoom
  /\ blockIndex' = Forget(Append(blockIndex, NewIndex), call)
  /\ entries' = MoreEntries(2 * Capacity(Current))
  /\ UNCHANGED <<setup, counters, call, result, op, tailBlock, elem, free, elementsCompletelyDequeued>>

(* The block goes into the entry, before anything is published in it.      *)
GetBlock(b) ==
  /\ op.at = "block"
  /\ Requisition(b)
  /\ elementsCompletelyDequeued' = [elementsCompletelyDequeued EXCEPT ![b] = 0]
  /\ entries' = [entries EXCEPT ![Current.index[Current.tail]].value = b]
  /\ tailBlock' = b
  /\ op' = [op EXCEPT !.at = "blocks", !.got = Append(@, b)]
  /\ UNCHANGED <<setup, counters, call, result, elem, blockIndex>>

(* What is left to do when a call fails: the blocks it got are given back. *)
GiveUp == op' = IF op.got = <<>> THEN Idle ELSE [at |-> "unwind", undone |-> 0,
                                                 start |-> op.start, got |-> op.got]

(* The queue is full, or malloc() fails: no index is to be had ...         *)
NoEntry ==
  /\ op.at = "blocks" /\ ~HasAll
  /\ GiveUp
  /\ UNCHANGED <<setup, counters, call, result, tailBlock, elem, free, producerVars>>

Rewind == SetTail((Current.tail - 1) % Capacity(Current))

(* ... or no block.                                                        *)
NoBlock ==
  /\ op.at = "block"
  /\ entries' = [entries EXCEPT ![Current.index[Current.tail]].value = None]
  /\ Rewind
  /\ GiveUp
  /\ UNCHANGED <<setup, counters, call, result, tailBlock, elem, free, elementsCompletelyDequeued>>

(* A constructor throws; what was constructed in the call is destroyed.    *)
ConstructorThrows ==
  /\ op.at = "blocks" /\ HasAll
  /\ GiveUp
  /\ UNCHANGED <<setup, counters, call, result, tailBlock, elem, free, producerVars>>

(* Block by block, from the first: its entry is cleared, the tail of the   *)
(* index moves back; at the end they go to the free list.                  *)
Unwind ==
  /\ op.at = "unwind"
  /\ LET k == op.undone + 1
         base == BlockBase(tailIndex - 1) + k * BLOCK_SIZE
     IN  /\ entries' = [entries EXCEPT ![EntryOf(base)].value = None]
         /\ Rewind
         /\ IF k < Len(op.got)
            THEN op' = [op EXCEPT !.undone = k] /\ UNCHANGED <<tailBlock, free>>
            ELSE /\ op' = Idle
                 /\ free' = free \cup {op.got[i] : i \in DOMAIN op.got}
                 /\ tailBlock' = op.start
  /\ UNCHANGED <<setup, counters, call, result, elem, elementsCompletelyDequeued>>

(* The elements are constructed, and published.                            *)
Fill ==
  /\ op.at = "blocks" /\ HasAll
  /\ Construct
  /\ op' = [at |-> "publish", n |-> op.n]
  /\ UNCHANGED <<setup, counters, call, result, tailBlock, free, producerVars>>

----------------------------------------------------------------------------
(* dequeue() and dequeue_bulk(), once the indices are theirs.              *)

(* blockIndex.load()                                                       *)
LoadIndex(c) ==
  /\ call[c].at = "index"
  /\ Goto(c, With(call[c], [at |-> "front", header |-> Len(blockIndex)]))
  /\ UNCHANGED <<setup, counters, result, op, tailBlock, elem, free, producerVars>>

(* localBlockIndex->tail.load()                                            *)
LoadTail(c) ==
  /\ call[c].at = "front"
  /\ Goto(c, With(call[c], [at |-> "entry", slot |-> blockIndex[call[c].header].tail]))
  /\ UNCHANGED <<setup, counters, result, op, tailBlock, elem, free, producerVars>>

BlockAt(c, slot) == entries[blockIndex[call[c].header].index[slot]].value

FindBlock(c) ==
  /\ call[c].at = "entry"
  /\ LET i == PositionOf(call[c].index, blockIndex[call[c].header], call[c].slot)
     IN  Goto(c, With(call[c], [at |-> "take", slot |-> i, block |-> BlockAt(c, i)]))
  /\ UNCHANGED <<setup, counters, result, op, tailBlock, elem, free, producerVars>>

NextBlock(c) ==
  LET i == (call[c].slot + 1) % Capacity(blockIndex[call[c].header]) IN
  [at |-> "take", slot |-> i, block |-> BlockAt(c, i)]

(* The block is done with if nothing is left in it, or it was only part.   *)
FinishBlock(c) ==
  /\ Continue(c, NextBlock(c))
  /\ blockIndex' = Forget(blockIndex, call')

(* set_many_empty(): whoever completes the block takes it away.            *)
SetEmpty(c) ==
  /\ call[c].at = "empty"
  /\ LET n == elementsCompletelyDequeued[call[c].block] + call[c].taken IN
       /\ elementsCompletelyDequeued' = [elementsCompletelyDequeued EXCEPT ![call[c].block] = n]
       /\ IF n = BLOCK_SIZE
          THEN Goto(c, With(call[c], At("clear"))) /\ UNCHANGED <<result, blockIndex>>
          ELSE FinishBlock(c)
  /\ UNCHANGED <<setup, counters, op, tailBlock, elem, free, entries>>

(* entry->value.store(nullptr)                                             *)
Clear(c) ==
  /\ call[c].at = "clear"
  /\ entries' = [entries EXCEPT ![blockIndex[call[c].header].index[call[c].slot]].value = None]
  /\ Goto(c, With(call[c], At("free")))
  /\ UNCHANGED <<setup, counters, result, op, tailBlock, elem, free>>
  /\ UNCHANGED <<elementsCompletelyDequeued, blockIndex>>

(* add_block_to_free_list()                                                *)
Free(c) ==
  /\ call[c].at = "free"
  /\ free' = free \cup {call[c].block}
  /\ FinishBlock(c)
  /\ UNCHANGED <<setup, counters, op, tailBlock, elem, entries, elementsCompletelyDequeued>>

----------------------------------------------------------------------------
(* The destructor.                                                         *)

BlockHolding(i) == entries[EntryOf(i)].value

Destroyed == {<<BlockHolding(i), InBlock(i)>> : i \in Left}

(* Mutant: the last block is taken to be gone if nothing is left in it.    *)
FreedIfLeft == {BlockHolding(i) : i \in Left}

(* Each block that it leaves for another; the last is that of the tail,    *)
(* and goes back unless it was dequeued to its end.                        *)
Freed ==
  {BlockHolding(i) : i \in {j \in Left : BlocksApart(tailIndex - 1, j) # 0}}
  \cup {b \in {tailBlock} \ {None} : Left # {} \/ InBlock(tailIndex) # 0}

Destroy ==
  /\ DestroyBase(Freed, Destroyed)
  /\ blockIndex' \in FreshIndex
  /\ entries' = FreshEntries
  /\ elementsCompletelyDequeued' = [b \in Blocks |-> 0]

(* Calls are made of these steps; enqueue(), with n = 1, of the same ones. *)
Enqueue ==
  \/ \E n \in 1 .. setup.enqueue : BeginEnqueue(n)
  \/ InsertEntry \/ GrowIndex \/ NoEntry \/ NoBlock \/ ConstructorThrows \/ Unwind \/ Fill
  \/ \E b \in Blocks : GetBlock(b)
  \/ Publish /\ UNCHANGED producerVars

Dequeue(c) ==
  \/ (Reserve(c) \/ Take(c)) /\ UNCHANGED producerVars
  \/ LoadIndex(c) \/ LoadTail(c) \/ FindBlock(c) \/ SetEmpty(c) \/ Clear(c) \/ Free(c)

Next == Enqueue \/ Destroy \/ \E c \in Consumers : Dequeue(c)

----------------------------------------------------------------------------
TypeOK ==
  /\ BaseTypeOK
  /\ elementsCompletelyDequeued \in [Blocks -> 0 .. BLOCK_SIZE]
  /\ \A i \in DOMAIN blockIndex :
       DOMAIN blockIndex[i].index # {} => blockIndex[i].tail \in DOMAIN blockIndex[i].index
  /\ \A i \in DOMAIN entries : entries[i].key \in Unsigned \cup {INVALID_BLOCK_BASE}
                            /\ entries[i].value \in Blocks \cup {None}

(* The destructor of an implicit producer (concurrentqueue.h:2420) finds   *)
(* what is left through the block index, and counts on at most one block   *)
(* besides: it destroys every element that is left and nothing else, and   *)
(* gives back every block exactly once.                                    *)
DestructorExact ==
  Unused => Destroyed = Remaining /\ Freed = Blocks \ free
=============================================================================
