------------------------ MODULE ImplicitProducerHash ------------------------
(***************************************************************************)
(* Threads that enqueue without a token (src/include/nie/                  *)
(* concurrentqueue.h): get_or_add_implicit_producer() finds the producer   *)
(* of the calling thread in a chain of hash tables without locks, keyed by *)
(* the thread's id, or adds one; when the thread exits, its slots are free *)
(* for others, and its producer too.                                       *)
(*                                                                         *)
(* An id can come back with a new thread.  The hash of an id is the id.    *)
(* A slot that nobody has keeps no value here: nobody would read it.       *)
(***************************************************************************)
EXTENDS ProducerList

CONSTANTS
  Empty,      \* invalid_thread_id
  Reusable,   \* invalid_thread_id2: the thread of this slot has exited
  INITIAL_IMPLICIT_PRODUCER_HASH_SIZE,
  MaxTables   \* bound on the number of tables

VARIABLES
  id,         \* of each thread that runs
  implicitProducerHash,      \* the tables, the current one last
  implicitProducerHashCount, \* slots logically used
  implicitProducerHashResizeInProgress

hashVars == <<id, implicitProducerHash, implicitProducerHashCount,
              implicitProducerHashResizeInProgress>>
implicitVars == <<hashVars, producerVars>>

(* A table has its slots 0 .. capacity - 1.                                *)
NewTable(capacity) == [i \in 0 .. capacity - 1 |-> [key |-> Empty, value |-> None]]
capacity(n) == Cardinality(DOMAIN implicitProducerHash[n])
SlotAt(n, k) == k % capacity(n)

mainHash == Len(implicitProducerHash)

HashInit ==
  /\ id = [t \in Threads |-> None]
  /\ implicitProducerHash = <<NewTable(INITIAL_IMPLICIT_PRODUCER_HASH_SIZE)>>
  /\ implicitProducerHashCount = 0
  /\ implicitProducerHashResizeInProgress = FALSE

(* The slots of table n that a search for key k looks at: up to the first  *)
(* that is k's or empty.                                                   *)
Probed(n, k) ==
  LET key(d) == implicitProducerHash[n][SlotAt(n, k + d)].key
      stop == CHOOSE d \in 0 .. capacity(n) - 1 :
                key(d) \in {k, Empty} /\ \A e \in 0 .. d - 1 : key(e) \notin {k, Empty}
  IN  {SlotAt(n, k + d) : d \in 0 .. stop}

Has(n, k) == \E i \in Probed(n, k) : implicitProducerHash[n][i].key = k
SlotOf(n, k) == CHOOSE i \in Probed(n, k) : implicitProducerHash[n][i].key = k

SetSlot(n, i, k, v) ==
  implicitProducerHash' = [implicitProducerHash EXCEPT ![n][i] = [key |-> k, value |-> v]]

----------------------------------------------------------------------------
(* get_or_add_implicit_producer(): find it.                                *)

(* The tables are searched from the current one on; no other thread can    *)
(* hide an entry of this one, whatever it does meanwhile.                  *)
LookUp(t, k) ==
  LET tables == {n \in 1 .. mainHash : Has(n, k)}
      newest == CHOOSE n \in tables : \A m \in tables : m <= n
  IN  IF tables = {}
      THEN Go(t, [at |-> "countSlot", main |-> mainHash])
      ELSE LET p == implicitProducerHash[newest][SlotOf(newest, k)].value IN
           Go(t, IF newest = mainHash THEN [at |-> "enqueue", ptr |-> p]
                 ELSE [at |-> "copy", ptr |-> p, main |-> mainHash, slot |-> SlotAt(mainHash, k)])

Find(t) ==
  /\ alive /\ role[t] = "implicit" /\ pc[t] = Resting
  /\ \E k \in IF id[t] = None THEN setup.ids \ {id[u] : u \in Threads} ELSE {id[t]} :
       id' = [id EXCEPT ![t] = k] /\ LookUp(t, k)
  /\ UNCHANGED <<setup, alive, listVars, tokenVars, size, implicitProducerHash,
                 implicitProducerHashCount, implicitProducerHashResizeInProgress>>

(* The slot becomes the thread's; else the next one is tried.              *)
TakeSlot(t, wanted, after) ==
  LET n == pc[t].main  i == pc[t].slot IN
    IF implicitProducerHash[n][i].key \in wanted
    THEN SetSlot(n, i, id[t], pc[t].ptr) /\ Go(t, after)
    ELSE Go(t, [pc[t] EXCEPT !.slot = SlotAt(n, i + 1)]) /\ UNCHANGED implicitProducerHash

(* An entry of an older table is put in the current one as well.           *)
Copy(t) ==
  /\ pc[t].at = "copy"
  /\ TakeSlot(t, {Empty, Reusable}, [at |-> "enqueue", ptr |-> pc[t].ptr])
  /\ UNCHANGED <<setup, alive, listVars, tokenVars, size, id, implicitProducerHashCount,
                 implicitProducerHashResizeInProgress>>

----------------------------------------------------------------------------
(* get_or_add_implicit_producer(): add one.                                *)

CountSlot(t) ==
  /\ pc[t].at = "countSlot"
  /\ implicitProducerHashCount' = implicitProducerHashCount + 1
  /\ Go(t, [at |-> "resize", main |-> pc[t].main, newCount |-> implicitProducerHashCount'])
  /\ UNCHANGED <<setup, alive, listVars, tokenVars, size, id, implicitProducerHash,
                 implicitProducerHashResizeInProgress>>

HalfFull(n, newCount) == newCount >= capacity(n) \div 2

(* Whoever finds the table half full and the lock free resizes it; others  *)
(* go on with the table they know.                                         *)
LockResize(t) ==
  /\ pc[t].at = "resize"
  /\ IF HalfFull(pc[t].main, pc[t].newCount) /\ ~implicitProducerHashResizeInProgress
     THEN /\ implicitProducerHashResizeInProgress' = TRUE
          /\ Go(t, [pc[t] EXCEPT !.at = "grow", !.main = mainHash])
     ELSE /\ UNCHANGED implicitProducerHashResizeInProgress
          /\ Go(t, [pc[t] EXCEPT !.at = "check"])
  /\ UNCHANGED <<setup, alive, listVars, tokenVars, size, id, implicitProducerHash,
                 implicitProducerHashCount>>

Doubled[i \in Nat] == IF i = 0 THEN 1 ELSE 2 * Doubled[i - 1]

(* The new capacity: doubled until newCount is less than half of it.       *)
NewCapacity(c, newCount) ==
  LET powers == {c * Doubled[i] : i \in 1 .. newCount}
  IN  CHOOSE p \in powers : newCount < p \div 2 /\ \A q \in powers : newCount < q \div 2 => p <= q

Grow(t) ==
  /\ pc[t].at = "grow"
  /\ IF HalfFull(pc[t].main, pc[t].newCount)
     THEN \/ /\ mainHash < MaxTables
             /\ implicitProducerHash' =
                  Append(implicitProducerHash, NewTable(NewCapacity(capacity(mainHash), pc[t].newCount)))
             /\ Go(t, [pc[t] EXCEPT !.at = "unlock", !.main = mainHash + 1])
             /\ UNCHANGED implicitProducerHashCount
          \/ /\ implicitProducerHashCount' = implicitProducerHashCount - 1
             /\ Go(t, [at |-> "giveUp"])
             /\ UNCHANGED implicitProducerHash
     ELSE Go(t, [pc[t] EXCEPT !.at = "unlock"])
          /\ UNCHANGED <<implicitProducerHash, implicitProducerHashCount>>
  /\ UNCHANGED <<setup, alive, listVars, tokenVars, size, id, implicitProducerHashResizeInProgress>>

UnlockResize(t) ==
  /\ pc[t].at \in {"unlock", "giveUp"}
  /\ implicitProducerHashResizeInProgress' = FALSE
  /\ Go(t, IF pc[t].at = "unlock" THEN [pc[t] EXCEPT !.at = "check"] ELSE Resting)
  /\ UNCHANGED <<setup, alive, listVars, tokenVars, size, id, implicitProducerHash,
                 implicitProducerHashCount>>

(* Mutant: a table is used until it is full.                               *)
AnyRoom(n, newCount) == newCount <= capacity(n)

RoomLeft(n, newCount) == newCount < capacity(n) \div 2 + capacity(n) \div 4

(* A table that is three quarters full takes nobody: somebody makes the    *)
(* next one.                                                               *)
CheckRoom(t) ==
  /\ pc[t].at = "check"
  /\ Go(t, IF RoomLeft(pc[t].main, pc[t].newCount)
           THEN Recycling(FALSE, pc[t].main)
           ELSE [pc[t] EXCEPT !.at = "resize", !.main = mainHash])
  /\ UNCHANGED <<setup, alive, listVars, tokenVars, size, hashVars>>

(* The listener for the thread's exit comes first, then the entry.         *)
GotProducer(t) ==
  /\ role[t] = "implicit" /\ pc[t].at = "got"
  /\ IF pc[t].ptr = None
     THEN /\ implicitProducerHashCount' = implicitProducerHashCount - 1
          /\ Go(t, Resting) /\ UNCHANGED held
     ELSE /\ held' = [held EXCEPT ![t] = pc[t].ptr]
          /\ Go(t, [at |-> "insert", ptr |-> pc[t].ptr, main |-> pc[t].rest,
                    slot |-> SlotAt(pc[t].rest, id[t])])
          /\ UNCHANGED implicitProducerHashCount
  /\ UNCHANGED <<setup, alive, listVars, tokenOf, size, id, implicitProducerHash,
                 implicitProducerHashResizeInProgress>>

(* A slot whose thread has exited is counted already.                      *)
Insert(t) ==
  /\ pc[t].at = "insert"
  /\ TakeSlot(t, {Empty, Reusable},
       [at |-> IF implicitProducerHash[pc[t].main][pc[t].slot].key = Reusable
               THEN "uncount" ELSE "enqueue", ptr |-> pc[t].ptr])
  /\ UNCHANGED <<setup, alive, listVars, tokenVars, size, id, implicitProducerHashCount,
                 implicitProducerHashResizeInProgress>>

Uncount(t) ==
  /\ pc[t].at = "uncount"
  /\ implicitProducerHashCount' = implicitProducerHashCount - 1
  /\ Go(t, [pc[t] EXCEPT !.at = "enqueue"])
  /\ UNCHANGED <<setup, alive, listVars, tokenVars, size, id, implicitProducerHash,
                 implicitProducerHashResizeInProgress>>

(* The producer's enqueue(), which may fail for want of memory.            *)
EnqueueImplicitly(t) ==
  /\ pc[t].at = "enqueue"
  /\ size' = [size EXCEPT ![pc[t].ptr] = IF @ < setup.size THEN @ + 1 ELSE @]
  /\ Go(t, Resting)
  /\ UNCHANGED <<setup, alive, listVars, tokenVars, hashVars>>

----------------------------------------------------------------------------
(* The thread exits.                                                       *)

(* The notifier calls back if the thread has a producer.                   *)
Exit(t) ==
  /\ role[t] = "implicit" /\ pc[t] = Resting /\ id[t] # None
  /\ IF held[t] = None
     THEN id' = [id EXCEPT ![t] = None] /\ UNCHANGED pc
     ELSE Go(t, [at |-> "exit", table |-> mainHash]) /\ UNCHANGED id
  /\ UNCHANGED <<setup, alive, listVars, tokenVars, size, implicitProducerHash,
                 implicitProducerHashCount, implicitProducerHashResizeInProgress>>

(* Mutant: only the current table is cleaned.                              *)
ForgetNewest(t) ==
  /\ pc[t].at = "exit" /\ pc[t].table > 0
  /\ IF Has(pc[t].table, id[t])
     THEN SetSlot(pc[t].table, SlotOf(pc[t].table, id[t]), Reusable, None)
     ELSE UNCHANGED implicitProducerHash
  /\ Go(t, [pc[t] EXCEPT !.table = 0])
  /\ UNCHANGED <<setup, alive, listVars, tokenVars, size, id, implicitProducerHashCount,
                 implicitProducerHashResizeInProgress>>

(* implicit_producer_thread_exited(): one table after the other.           *)
Forget(t) ==
  /\ pc[t].at = "exit" /\ pc[t].table > 0
  /\ IF Has(pc[t].table, id[t])
     THEN SetSlot(pc[t].table, SlotOf(pc[t].table, id[t]), Reusable, None)
     ELSE UNCHANGED implicitProducerHash
  /\ Go(t, [pc[t] EXCEPT !.table = @ - 1])
  /\ UNCHANGED <<setup, alive, listVars, tokenVars, size, id, implicitProducerHashCount,
                 implicitProducerHashResizeInProgress>>

(* Then the producer can be used by another thread.                        *)
Release(t) ==
  /\ pc[t].at = "exit" /\ pc[t].table = 0
  /\ inactive' = [inactive EXCEPT ![held[t]] = TRUE]
  /\ held' = [held EXCEPT ![t] = None]
  /\ id' = [id EXCEPT ![t] = None]
  /\ Go(t, Resting)
  /\ UNCHANGED <<setup, alive, producerListTail, producerCount, next, isExplicit, tokenOf, size,
                 implicitProducerHash, implicitProducerHashCount,
                 implicitProducerHashResizeInProgress>>

ImplicitNext ==
  \E t \in Threads :
    \/ Find(t) \/ Copy(t) \/ CountSlot(t) \/ LockResize(t) \/ Grow(t) \/ UnlockResize(t)
    \/ CheckRoom(t) \/ GotProducer(t) \/ Insert(t) \/ Uncount(t) \/ EnqueueImplicitly(t)
    \/ Exit(t) \/ Forget(t) \/ Release(t)

----------------------------------------------------------------------------
(* Properties.                                                             *)

HashTypeOK ==
  /\ id \in [Threads -> setup.ids \cup {None}]
  /\ \A n \in 1 .. mainHash : \A i \in DOMAIN implicitProducerHash[n] :
       implicitProducerHash[n][i] \in
         [key : setup.ids \cup {Empty, Reusable}, value : Created \cup {None}]
  /\ implicitProducerHashCount \in Nat
  /\ implicitProducerHashResizeInProgress \in BOOLEAN

(* A search of a hash table ends: "Not an infinite loop because at least   *)
(* one slot is free in the hash table" (concurrentqueue.h:3379).           *)
HashHasRoom ==
  \A n \in 1 .. mainHash : \E i \in DOMAIN implicitProducerHash[n] :
    implicitProducerHash[n][i].key = Empty

(* A thread that has a producer gets that one; a producer that a table     *)
(* names belongs to the thread with the key.                               *)
EntriesMatch ==
  /\ \A t \in Threads : pc[t].at = "enqueue" => pc[t].ptr = held[t]
  /\ \A n \in 1 .. mainHash : \A i \in DOMAIN implicitProducerHash[n] :
       LET e == implicitProducerHash[n][i] IN
         e.key \in setup.ids => \E t \in Threads : id[t] = e.key /\ held[t] = e.value
=============================================================================
