------------------------------ MODULE QueueSwap ------------------------------
(***************************************************************************)
(* Queues that are made, moved, swapped and destroyed while no thread uses *)
(* them (src/include/nie/concurrentqueue.h).  The first hash table of a    *)
(* queue is a member of it, so that the end of a chain of tables cannot    *)
(* move with the rest, and producers point back to their queue.            *)
(*                                                                         *)
(* An operation of a queue is one step here, and no thread exits;          *)
(* ImplicitProducerHash has the search of the tables, where a thread may   *)
(* meet others.  Producers that belong to tokens move with the list as     *)
(* those do that belong to threads, and are left out.                      *)
(***************************************************************************)
EXTENDS Integers, Sequences, FiniteSets

CONSTANTS
  Threads, Queues, None,
  FirstCapacity, \* INITIAL_IMPLICIT_PRODUCER_HASH_SIZE
  MaxTables,     \* bound on the tables besides the members
  MaxConsumers   \* bound on the consumer tokens of a queue, and on its rotations

VARIABLES
  queue,    \* of each queue, what it has, or None
  entries,  \* of each table, the producers of threads
  parent,   \* of each producer, its queue
  promise   \* of each queue, what its users expect

swapVars == <<queue, entries, parent, promise>>

Pools == 1 .. Cardinality(Queues)
Producers == 1 .. Cardinality(Queues) * Cardinality(Threads)
HeapTables == 1 .. MaxTables
Exists(q) == queue[q] # None
Live == {q \in Queues : Exists(q)}
TablesOf(q) == {queue[q].implicitProducerHash[i] : i \in DOMAIN queue[q].implicitProducerHash}

Free(S, used) == CHOOSE x \in S \ used : TRUE

Nobody == [t \in Threads |-> None]
Nothing == [producers |-> Nobody, consumers |-> 0, rotations |-> 0, blocks |-> 0]

(* What a queue is before anybody uses it; tables come oldest first.       *)
EmptyQueue(q) ==
  [producers |-> {}, producerCount |-> 0,
   initialBlockPool |-> None, initialBlockPoolSize |-> 0, initialBlockPoolIndex |-> 0,
   freeList |-> {}, nextExplicitConsumerId |-> 0, globalExplicitConsumerOffset |-> 0,
   implicitProducerHash |-> <<q>>, implicitProducerHashCount |-> 0]

SwapInit ==
  /\ queue = [q \in Queues |-> None]
  /\ entries = [n \in Queues \cup HeapTables |-> Nobody]
  /\ parent = [p \in Producers |-> None]
  /\ promise = [q \in Queues |-> Nothing]

(* ConcurrentQueue(capacity), with a pool of one block.                    *)
Construct(q) ==
  /\ ~Exists(q)
  /\ queue' = [queue EXCEPT ![q] =
       [EmptyQueue(q) EXCEPT !.initialBlockPoolSize = 1,
          !.initialBlockPool = Free(Pools, {queue[o].initialBlockPool : o \in Live})]]
  /\ entries' = [entries EXCEPT ![q] = Nobody]
  /\ promise' = [promise EXCEPT ![q] = [Nothing EXCEPT !.blocks = 1]]
  /\ UNCHANGED parent

(* ~ConcurrentQueue(): all producers, the tables but the last, the pool.   *)
Destruct(q) ==
  /\ Exists(q)
  /\ queue' = [queue EXCEPT ![q] = None]
  /\ LET hash == queue[q].implicitProducerHash
         freed == {hash[i] : i \in 2 .. Len(hash)}
     IN  entries' = [n \in DOMAIN entries |-> IF n \in freed THEN Nobody ELSE entries[n]]
  /\ parent' = [p \in Producers |-> IF p \in queue[q].producers THEN None ELSE parent[p]]
  /\ promise' = [promise EXCEPT ![q] = Nothing]

----------------------------------------------------------------------------
(* Moves.                                                                  *)

(* Mutant: producers keep their queue.                                     *)
Forgotten(qs) == parent

(* reown_producers() of the queues qs, after the lists have moved.         *)
Reowned(qs) ==
  [p \in Producers |->
     IF \E q \in qs : p \in queue'[q].producers
     THEN CHOOSE q \in qs : p \in queue'[q].producers ELSE parent[p]]

(* Mutant: the chain that came from the other queue ends there.            *)
Unlinked(hash, from, to) == hash

(* The chain of tables that came from the other queue ends in its own.     *)
Relinked(hash, from, to) == [i \in DOMAIN hash |-> IF hash[i] = from THEN to ELSE hash[i]]

(* swap_implicit_producer_hashes(): what a has of the tables of b.         *)
Tables(a, b, old) ==
  [implicitProducerHash |-> Relinked(old[b].implicitProducerHash, b, a),
   implicitProducerHashCount |-> old[b].implicitProducerHashCount]

WithTables(q, tables) ==
  [q EXCEPT !.implicitProducerHash = tables.implicitProducerHash,
            !.implicitProducerHashCount = tables.implicitProducerHashCount]

(* Mutant: the entries of the tables in the queues stay where they are.    *)
EntriesStay(a, b, old) == old

SwapEntries(a, b, old) == [old EXCEPT ![a] = old[b], ![b] = old[a]]

(* ConcurrentQueue(ConcurrentQueue&& other): its own tables, just made,    *)
(* are swapped with those of the other, which is left empty and has no     *)
(* pool.                                                                   *)
MoveConstruct(q, other) ==
  /\ ~Exists(q) /\ Exists(other)
  /\ LET old == [queue EXCEPT ![q] = EmptyQueue(q)]
     IN  queue' = [queue EXCEPT
           ![q] = WithTables(queue[other], Tables(q, other, old)),
           ![other] = WithTables(EmptyQueue(other), Tables(other, q, old))]
  /\ entries' = SwapEntries(q, other, [entries EXCEPT ![q] = Nobody])
  /\ parent' = Reowned({q})
  /\ promise' = [promise EXCEPT ![q] = promise[other], ![other] = Nothing]

(* swap(), and the move assignment, which swaps as well; nothing is done   *)
(* with the queue itself.                                                  *)
Swap(a, b) ==
  /\ Exists(a) /\ Exists(b) /\ a # b
  /\ queue' = [queue EXCEPT ![a] = WithTables(queue[b], Tables(a, b, queue)),
                            ![b] = WithTables(queue[a], Tables(b, a, queue))]
  /\ entries' = SwapEntries(a, b, entries)
  /\ parent' = Reowned({a, b})
  /\ promise' = [promise EXCEPT ![a] = promise[b], ![b] = promise[a]]

----------------------------------------------------------------------------
(* Use.                                                                    *)

(* The tables are searched from the newest on.                             *)
Found(q, t) ==
  LET hash == queue[q].implicitProducerHash
      tables == {i \in DOMAIN hash : entries[hash[i]][t] # None}
  IN  IF tables = {} THEN None
      ELSE entries[hash[CHOOSE i \in tables : \A j \in tables : j <= i]][t]

Newest(hash) == hash[Len(hash)]

(* The capacity of the newest table: each has twice that of the one before.*)
capacity(hash) == FirstCapacity * 2 ^ (Len(hash) - 1)

(* The producer of t is found, and put in the newest table as well.        *)
FindProducer(q, t) ==
  /\ Exists(q) /\ Found(q, t) # None
  /\ LET main == Newest(queue[q].implicitProducerHash)
     IN  entries' = [entries EXCEPT ![main][t] = Found(q, t)]
  /\ UNCHANGED <<queue, parent, promise>>

(* It is made otherwise, after a new table if the newest is half full.     *)
AddProducer(q, t) ==
  /\ Exists(q) /\ Found(q, t) = None
  /\ LET hash == queue[q].implicitProducerHash
         newCount == queue[q].implicitProducerHashCount + 1
         full == newCount >= capacity(hash) \div 2
         used == UNION {TablesOf(o) : o \in Live}
         main == IF full THEN Free(HeapTables, used) ELSE Newest(hash)
         producer == Free(Producers, {p \in Producers : parent[p] # None})
     IN  /\ full => HeapTables \ used # {}
         /\ queue' = [queue EXCEPT ![q].producers = @ \cup {producer},
                                   ![q].producerCount = @ + 1,
                                   ![q].implicitProducerHashCount = newCount,
                                   ![q].implicitProducerHash =
                                      IF full THEN Append(hash, main) ELSE hash]
         /\ entries' = [entries EXCEPT ![main][t] = producer]
         /\ parent' = [parent EXCEPT ![producer] = q]
         /\ promise' = [promise EXCEPT ![q].producers[t] = producer]

(* A block of the pool is used, and is free when it is empty.              *)
UseBlock(q) ==
  /\ Exists(q) /\ queue[q].initialBlockPoolIndex < queue[q].initialBlockPoolSize
  /\ queue' = [queue EXCEPT ![q].initialBlockPoolIndex = @ + 1,
                            ![q].freeList = @ \cup {queue[q].initialBlockPool}]
  /\ UNCHANGED <<entries, parent, promise>>

(* ConsumerToken(queue).                                                   *)
AddConsumer(q) ==
  /\ Exists(q) /\ queue[q].nextExplicitConsumerId < MaxConsumers
  /\ queue' = [queue EXCEPT ![q].nextExplicitConsumerId = @ + 1]
  /\ promise' = [promise EXCEPT ![q].consumers = @ + 1]
  /\ UNCHANGED <<entries, parent>>

(* A consumer has used up its quota.                                       *)
RotateAll(q) ==
  /\ Exists(q) /\ queue[q].globalExplicitConsumerOffset < queue[q].nextExplicitConsumerId
  /\ queue' = [queue EXCEPT ![q].globalExplicitConsumerOffset = @ + 1]
  /\ promise' = [promise EXCEPT ![q].rotations = @ + 1]
  /\ UNCHANGED <<entries, parent>>

SwapNext ==
  \/ \E q \in Queues : Construct(q) \/ Destruct(q) \/ UseBlock(q) \/ AddConsumer(q) \/ RotateAll(q)
  \/ \E q, other \in Queues : MoveConstruct(q, other) \/ Swap(q, other)
  \/ \E q \in Queues, t \in Threads : FindProducer(q, t) \/ AddProducer(q, t)

----------------------------------------------------------------------------
(* Properties.                                                             *)

SwapTypeOK ==
  /\ \A q \in Live : queue[q].implicitProducerHash \in Seq(DOMAIN entries)
  /\ entries \in [DOMAIN entries -> [Threads -> Producers \cup {None}]]
  /\ parent \in [Producers -> Queues \cup {None}]

(* What moved is there (concurrentqueue.h:970, 1014): each thread finds in *)
(* a queue the producer that it had in the queue's state, consumers are    *)
(* counted on, and no block is lost or new.                                *)
PromisesKept ==
  \A q \in Live :
    /\ \A t \in Threads : Found(q, t) = promise[q].producers[t]
    /\ queue[q].producers = {promise[q].producers[t] : t \in Threads} \ {None}
    /\ queue[q].producerCount = Cardinality(queue[q].producers)
    /\ queue[q].implicitProducerHashCount = queue[q].producerCount
    /\ queue[q].nextExplicitConsumerId = promise[q].consumers
    /\ queue[q].globalExplicitConsumerOffset = promise[q].rotations
    /\ queue[q].initialBlockPoolSize - queue[q].initialBlockPoolIndex
         + Cardinality(queue[q].freeList) = promise[q].blocks

(* Two queues share nothing, so that each can be destroyed: the chain of   *)
(* tables ends in the queue itself (concurrentqueue.h:934), producers are  *)
(* in the list of their queue, and a pool and its blocks in one queue.     *)
NothingShared ==
  \A q \in Live :
    /\ Head(queue[q].implicitProducerHash) = q
    /\ \A p \in queue[q].producers : parent[p] = q
    /\ queue[q].freeList \subseteq {queue[q].initialBlockPool}
    /\ \A o \in Live \ {q} :
         /\ TablesOf(q) \cap TablesOf(o) = {}
         /\ queue[q].initialBlockPool # None =>
              queue[q].initialBlockPool # queue[o].initialBlockPool
=============================================================================
