--------------------------- MODULE QueueFrontEnd ---------------------------
(***************************************************************************)
(* The ConcurrentQueue around its producers' queues: producers with tokens *)
(* (ProducerList), threads that enqueue without one (ImplicitProducerHash) *)
(* and consumers (ConsumerTokens), until the queue is destroyed.           *)
(***************************************************************************)
EXTENDS ImplicitProducerHash, ConsumerTokens

ASSUME QueueAssumption ==
  /\ \A s \in Setups :
       /\ s.role \in [Threads -> {"token", "implicit", "consumer", "idle"}]
       /\ s.ids \subseteq Nat /\ s.size \in Nat
       /\ \A c \in s.calls : c.way \in {"scored", "list", "token"} /\ c.max \in Nat \ {0}
  /\ MaxProducers \in Nat /\ MaxTables \in Nat \ {0}
  /\ INITIAL_IMPLICIT_PRODUCER_HASH_SIZE \in Nat \ {0, 1}
  /\ \E i \in 1 .. MaxProducers : INITIAL_IMPLICIT_PRODUCER_HASH_SIZE = 2 ^ i
  /\ QUOTA \in Nat \ {0} /\ Modulus \in Nat \ {0}
  /\ None \notin Nat \cup Threads /\ Empty \notin Nat /\ Reusable \notin Nat /\ Empty # Reusable

vars == <<producerVars, hashVars, consumerVars>>

Init == ListInit /\ HashInit /\ ConsumerInit

(* ~ConcurrentQueue(), when no thread is in a call or exiting: producers   *)
(* make the tokens forget them, and leave the notifiers of their threads   *)
(* unless those have called back.                                          *)
Destroy ==
  /\ alive /\ pc = [t \in Threads |-> Resting]
  /\ alive' = FALSE
  /\ held' = [t \in Threads |->
       IF \/ \E p \in Listed : tokenOf[p] = t
          \/ role[t] = "implicit" /\ held[t] \in Listed /\ ~inactive[held[t]]
       THEN None ELSE held[t]]
  /\ producerListTail' = None /\ producerCount' = 0
  /\ next' = EmptyFunction /\ isExplicit' = EmptyFunction
  /\ inactive' = EmptyFunction /\ tokenOf' = EmptyFunction /\ size' = EmptyFunction
  /\ implicitProducerHash' = <<>>
  /\ UNCHANGED <<setup, pc, id, implicitProducerHashCount, implicitProducerHashResizeInProgress,
                 consumerVars>>

Next ==
  \/ (\E t \in Threads : RecycleOrCreate(t)) /\ UNCHANGED <<hashVars, consumerVars>>
  \/ TokenNext /\ UNCHANGED <<hashVars, consumerVars>>
  \/ ImplicitNext /\ UNCHANGED consumerVars
  \/ ConsumerNext /\ UNCHANGED hashVars
  \/ Destroy

Spec == Init /\ [][Next]_vars

TypeOK == ListTypeOK /\ HashTypeOK /\ ConsumerTypeOK

(* "We caught one! It's been marked as activated, the caller can have it"  *)
(* (concurrentqueue.h:3213): no producer serves two threads, whether it    *)
(* was found, recycled or created; nobody has an inactive one; a token and *)
(* its producer know each other; and none refers to a producer that the    *)
(* queue's destructor has destroyed.                                       *)
ProducersOwned ==
  /\ AllListed
  /\ EntriesMatch
  /\ \A t \in Threads : held[t] # None =>
       /\ alive
       /\ ~inactive[held[t]]
       /\ \A u \in Threads \ {t} : held[u] # held[t]
       /\ isExplicit[held[t]] = (role[t] = "token")
       /\ role[t] = "token" /\ pc[t] = Resting => tokenOf[held[t]] = t
=============================================================================
