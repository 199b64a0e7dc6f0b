---------------------------- MODULE ProducerBase ----------------------------
(***************************************************************************)
(* ConcurrentQueue::ProducerBase of src/include/nie/concurrentqueue.h, and *)
(* what enqueue(), enqueue_bulk(), dequeue() and dequeue_bulk() of both    *)
(* kinds of producers have in common: which blocks the elements of a call  *)
(* go to, and how a consumer comes to own a range of indices.              *)
(*                                                                         *)
(* The four counters are unsigned and wrap at Modulus.  A dequeue first    *)
(* looks whether there is something to get; it then announces itself in    *)
(* dequeueOptimisticCount, looks at the tail again, and takes as many      *)
(* indices from headIndex as are certain to be there; those it announced   *)
(* in vain go to dequeueOvercommit.  dequeue() is dequeue_bulk() with max  *)
(* 1, up to code that is not executed then.                                *)
(*                                                                         *)
(* The queue is sequentially consistent here: the fences are not modelled. *)
(***************************************************************************)
EXTENDS Integers, Sequences, FiniteSets, FiniteSetsExt

CONSTANTS
  Consumers,   \* the threads that dequeue
  Setups,      \* how the queue may be set up: see setup
  BLOCK_SIZE,
  MAX_SUBQUEUE_SIZE,
  Blocks,      \* the blocks there may be at a time
  None,        \* no block
  Failures     \* how an enqueue that has taken a block may fail: see MayFail

ASSUME ProducerAssumption ==
  /\ {BLOCK_SIZE, MAX_SUBQUEUE_SIZE} \subseteq Nat \ {0, 1}
  /\ \A s \in Setups : s.modulus \in Nat /\ s.modulus % (2 * BLOCK_SIZE) = 0
  /\ None \notin Blocks /\ IsFiniteSet(Blocks)
  /\ Failures \subseteq {"reused", "new", "throw"}

VARIABLES
  setup,       \* isExplicit: which kind of producer it is; modulus: 2^(number
               \* of bits of index_t); blocks: how many blocks there may be;
               \* atOnce: how many consumers may be in a call at a time;
               \* enqueue, dequeue: how many elements a call is for at most;
               \* overcommit: from where on no dequeue is begun;
               \* throws: an element may throw when it is moved out
  tailIndex, headIndex, dequeueOptimisticCount, dequeueOvercommit,
  call,        \* where each consumer is in its call of dequeue_bulk()
  result,      \* the elements it has moved to its destination
  op,          \* where the producer is in its call of enqueue_bulk()
  tailBlock,
  elem,        \* the element at each position of each block
  free         \* the blocks that are in the pool, or do not exist

Modulus == setup.modulus

counters == <<tailIndex, headIndex, dequeueOptimisticCount, dequeueOvercommit>>
baseVars == <<setup, counters, call, result, op, tailBlock, elem, free>>

NoElement == -1

Wrap(n) == n % Modulus
Signed(n) == IF Wrap(n) < Modulus \div 2 THEN Wrap(n) ELSE Wrap(n) - Modulus

circular_less_than(a, b) == Wrap(a - b) > Modulus \div 2

(* The index a block begins with, and the position of an index in it.      *)
InBlock(i) == i % BLOCK_SIZE
BlockBase(i) == Wrap(i - InBlock(i))
Positions == 0 .. BLOCK_SIZE - 1

(* How many blocks further on an index is.                                 *)
BlocksApart(i, j) == Signed(BlockBase(i) - BlockBase(j)) \div BLOCK_SIZE

Idle == [at |-> "idle"]

BaseInit ==
  /\ setup \in Setups
  /\ tailIndex = 0 /\ headIndex = 0
  /\ dequeueOptimisticCount = 0 /\ dequeueOvercommit = 0
  /\ tailBlock = None
  /\ call = [c \in Consumers |-> Idle]
  /\ result = [c \in Consumers |-> <<>>]
  /\ op = Idle
  /\ elem = [b \in Blocks |-> [p \in Positions |-> NoElement]]
  /\ free = Blocks

Goto(c, where) == call' = [call EXCEPT ![c] = where]

(* Fields of a record take new values.                                     *)
With(r, s) == [k \in DOMAIN r \cup DOMAIN s |-> IF k \in DOMAIN s THEN s[k] ELSE r[k]]
At(where) == [at |-> where]

----------------------------------------------------------------------------
(* A consumer comes to own a range of indices.                             *)

(* How many elements there seem to be, and whether there seem to be any.   *)
Available(taken, overcommit) == Wrap(tailIndex - (taken - overcommit))
Positive(n) == circular_less_than(0, n)

(* The first look.  Its three loads may be one step, as it is only there   *)
(* to save work: an older tail means fewer elements, which another max     *)
(* means as well, or a call that returns without a trace.                  *)
Look(c, max) ==
  LET n == Available(dequeueOptimisticCount, dequeueOvercommit) IN
  /\ call[c] = Idle /\ Positive(n)
  /\ dequeueOvercommit < setup.overcommit
  /\ Cardinality({d \in Consumers : call[d] # Idle}) < setup.atOnce
  /\ Goto(c, [at |-> "announce", want |-> Min({n, max}), over |-> dequeueOvercommit])
  /\ UNCHANGED <<setup, counters, result>>

(* dequeueOptimisticCount.fetch_add(desiredCount)                          *)
Announce(c) ==
  /\ call[c].at = "announce"
  /\ dequeueOptimisticCount' = Wrap(dequeueOptimisticCount + call[c].want)
  /\ Goto(c, With(call[c], [at |-> "verify", mine |-> dequeueOptimisticCount]))
  /\ UNCHANGED <<setup, tailIndex, headIndex, dequeueOvercommit, result>>

(* Mutant: what was announced in vain is believed to be there.             *)
VerifyNot(c) ==
  /\ call[c].at = "verify"
  /\ Goto(c, [at |-> "claim", left |-> call[c].want])
  /\ UNCHANGED <<setup, counters, result>>

(* The tail is loaded again: n elements are certain to be there.           *)
Verify(c) ==
  /\ call[c].at = "verify"
  /\ LET n == Available(call[c].mine, call[c].over)
         sure == IF Positive(n) THEN Min({n, call[c].want}) ELSE 0
     IN  Goto(c, IF sure = call[c].want
                 THEN [at |-> "claim", left |-> sure]
                 ELSE [at |-> "retract", left |-> sure, extra |-> call[c].want - sure])
  /\ UNCHANGED <<setup, counters, result>>

(* dequeueOvercommit.fetch_add(), for what was announced in vain.          *)
Retract(c) ==
  /\ call[c].at = "retract"
  /\ dequeueOvercommit' = Wrap(dequeueOvercommit + call[c].extra)
  /\ Goto(c, IF call[c].left = 0 THEN Idle ELSE [at |-> "claim", left |-> call[c].left])
  /\ UNCHANGED <<setup, tailIndex, headIndex, dequeueOptimisticCount, result>>

(* headIndex.fetch_add(actualCount)                                        *)
Claim(c) ==
  /\ call[c].at = "claim"
  /\ headIndex' = Wrap(headIndex + call[c].left)
  /\ Goto(c, [at |-> "index", index |-> headIndex, left |-> call[c].left, lost |-> FALSE])
  /\ UNCHANGED <<setup, tailIndex, dequeueOptimisticCount, dequeueOvercommit, result>>

Reserve(c) ==
  /\ \/ \E max \in 1 .. setup.dequeue : Look(c, max)
     \/ Announce(c) \/ Verify(c) \/ Retract(c) \/ Claim(c)
  /\ UNCHANGED <<op, tailBlock, elem, free>>

(* How many of the indices that are left lie in the current block.         *)
InThisBlock(c) == Min({call[c].left, BLOCK_SIZE - InBlock(call[c].index)})

(* They are moved out and destroyed; nobody else touches them, and so this *)
(* is one step.  If an assignment throws, the rest is destroyed unmoved.   *)
Take(c) ==
  /\ call[c].at = "take"
  /\ LET n == InThisBlock(c)
         from == InBlock(call[c].index)
     IN  \E moved \in IF call[c].lost THEN {0} ELSE IF setup.throws THEN 0 .. n ELSE {n} :
           /\ result' = [result EXCEPT ![c] = @ \o
                [i \in 1 .. moved |-> elem[call[c].block][from + i - 1]]]
           /\ Goto(c, With(call[c], [at |-> "empty", first |-> from, taken |-> n,
                index |-> Wrap(call[c].index + n), left |-> call[c].left - n,
                lost |-> moved < n /\ n < call[c].left]))
           /\ elem' = [elem EXCEPT ![call[c].block] = [p \in Positions |->
                IF p \in from .. from + n - 1 THEN NoElement ELSE @[p]]]
  /\ UNCHANGED <<setup, counters, op, tailBlock, free>>

(* On to the next block of the index, or done.                             *)
Continue(c, more) ==
  IF call[c].left = 0
  THEN Goto(c, Idle) /\ result' = [result EXCEPT ![c] = <<>>]
  ELSE Goto(c, With(call[c], more)) /\ UNCHANGED result

----------------------------------------------------------------------------
(* The producer gets blocks, constructs elements and publishes them.       *)

(* Another block must neither let the tail catch up with the head from     *)
(* behind, nor exceed the limit.                                           *)
Full(base) ==
  \/ ~circular_less_than(headIndex, base + BLOCK_SIZE)
  \/ MAX_SUBQUEUE_SIZE - BLOCK_SIZE < Wrap(base - headIndex)

(* blockBaseDiff: the number of blocks that n more elements need.          *)
BlocksFor(n) ==
  Wrap(BlockBase(tailIndex + n - 1) - BlockBase(tailIndex - 1)) \div BLOCK_SIZE

(* The base of the block that is needed next.                              *)
NewBase == Wrap(BlockBase(tailIndex - 1) + (Len(op.got) + 1) * BLOCK_SIZE)

HasAll == Len(op.got) = BlocksFor(op.n)

(* An enqueue that has no block yet may fail.  One that has may find no    *)
(* more blocks ("reused": it has blocks of the ring only; "new": others as *)
(* well), or a constructor throws ("throw"): it does if Failures says so.  *)
MayFail(how) == op.got = <<>> \/ how \in Failures

(* How many more blocks there may be.                                     *)
Spare == setup.blocks - Cardinality(Blocks \ free)

(* Several blocks are there for a call that needs several.                 *)
WillSucceed(n) ==
  \/ BlocksFor(n) < 2
  \/ BlocksFor(n) <= Spare /\ ~Full(BlockBase(tailIndex + n - 1))

(* A bound: no consumer sleeps in its call while the tail moves half the   *)
(* range of index_t away from what it has claimed.                         *)
NobodySleeps(n) ==
  \A c \in Consumers : "index" \in DOMAIN call[c] =>
    Wrap(BlockBase(tailIndex + n - 1) - call[c].index) < Modulus \div 2

(* requisition_block(): from the pool, or a new one.  CannotAlloc differs  *)
(* from CanAlloc in that it does not try what may fail anyway.             *)
Requisition(b) == Spare > 0 /\ b \in free /\ free' = free \ {b}

(* The block that the j-th element of the call goes to: the blocks that    *)
(* were got are linked behind the one the producer was in.                 *)
BlockOf(j) ==
  LET k == BlocksFor(j + 1) IN
  IF k = 0 THEN op.start ELSE op.got[k]

(* The elements are constructed.                                           *)
Construct ==
  elem' = [b \in Blocks |-> [p \in Positions |->
    LET here == {j \in 0 .. op.n - 1 : BlockOf(j) = b /\ InBlock(tailIndex + j) = p}
    IN  IF here = {} THEN elem[b][p] ELSE Wrap(tailIndex + Max(here))]]

Publish ==
  /\ op.at = "publish"
  /\ tailIndex' = Wrap(tailIndex + op.n)
  /\ op' = Idle
  /\ UNCHANGED <<setup, headIndex, dequeueOptimisticCount, dequeueOvercommit, call, result>>
  /\ UNCHANGED <<tailBlock, elem, free>>

(* The destructor gives blocks back and destroys what is at positions in   *)
(* blocks; then another producer is constructed.  Nobody uses the old one. *)
Unused == op = Idle /\ \A c \in Consumers : call[c] = Idle
Left == {Wrap(headIndex + k) : k \in 0 .. Wrap(tailIndex - headIndex) - 1}
Remaining == {<<b, p>> \in Blocks \X Positions : elem[b][p] # NoElement}

DestroyBase(blocks, positions) ==
  /\ Unused
  /\ tailIndex' = 0 /\ headIndex' = 0
  /\ dequeueOptimisticCount' = 0 /\ dequeueOvercommit' = 0
  /\ tailBlock' = None
  /\ elem' = [b \in Blocks |-> [p \in Positions |->
       IF <<b, p>> \in positions THEN NoElement ELSE elem[b][p]]]
  /\ free' = free \cup blocks
  /\ UNCHANGED <<setup, op, call, result>>

----------------------------------------------------------------------------
(* What is checked of both.                                                *)

Unsigned == 0 .. Modulus - 1

BaseTypeOK ==
  /\ {tailIndex, headIndex, dequeueOptimisticCount, dequeueOvercommit} \subseteq Unsigned
  /\ op.at \in {"idle", "blocks", "block", "fill", "unwind", "publish"}
  /\ \A c \in Consumers :
       /\ call[c].at \in {"idle", "announce", "verify", "retract", "claim", "index",
                          "front", "entry", "take", "empty", "clear", "free", "next"}
       /\ result[c] \in Seq(Unsigned \cup {NoElement})
  /\ tailBlock \in Blocks \cup {None}
  /\ elem \in [Blocks -> [Positions -> Unsigned \cup {NoElement}]]
  /\ free \subseteq Blocks

(* What a consumer has announced and neither retracted nor claimed.        *)
Announced(c) ==
  CASE call[c].at = "verify"  -> call[c].want
    [] call[c].at = "retract" -> call[c].left + call[c].extra
    [] call[c].at = "claim"   -> call[c].left
    [] OTHER -> 0

(* dequeueOvercommit makes the count of dequeues right again               *)
(* (concurrentqueue.h:2014): announcements exceed the head by those under  *)
(* way, so that no call is turned away from a queue that has elements      *)
(* unless another call is under way.  And those that were let through find *)
(* their elements: the head stays behind the tail (concurrentqueue.h:1983).*)
CountersAgree ==
  /\ Wrap(dequeueOptimisticCount - dequeueOvercommit - headIndex)
       = Wrap(MapThenSumSet(Announced, Consumers))
  /\ ~circular_less_than(tailIndex, headIndex)

(* The queue, for the contract: an element is known by its index.          *)
Span(from, n) == [i \in 1 .. n |-> Wrap(from + i - 1)]
Items == Span(headIndex, Wrap(tailIndex - headIndex))
Claimed == [c \in Consumers |->
  IF call[c].at \in {"index", "front", "entry", "take", "empty", "clear", "free", "next"}
     /\ ~call[c].lost
  THEN Span(call[c].index, call[c].left) ELSE <<>>]

Queue == INSTANCE FifoQueue WITH items <- Items, claimed <- Claimed, MayThrow <- TRUE

(* Elements are dequeued once and in the order they were enqueued in, each *)
(* as it was when it was enqueued (concurrentqueue.h:1979: "Guaranteed to  *)
(* be at least one element to dequeue!").                                  *)
ImplementsQueue == Queue!Spec
=============================================================================
