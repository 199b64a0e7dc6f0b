--------------------------- MODULE ConsumerTokens ---------------------------
(***************************************************************************)
(* Consumers of a ConcurrentQueue (src/include/nie/concurrentqueue.h): how *)
(* try_dequeue() and its variants go through the producers, and how the    *)
(* consumer tokens rotate among them.                                      *)
(*                                                                         *)
(* A call for one element and one for several differ little: the size of a *)
(* call is max.  A step ends with a look at a producer's queue.  That look *)
(* may find less than there is while another consumer is in a call, as     *)
(* dequeue() may when it has counted itself too early.                     *)
(***************************************************************************)
EXTENDS ProducerList

CONSTANTS
  QUOTA,    \* EXPLICIT_CONSUMER_CONSUMPTION_QUOTA_BEFORE_ROTATE
  Modulus   \* 2^32 in the code

VARIABLES
  consumer,      \* the consumer token of each thread
  nextExplicitConsumerId,
  globalExplicitConsumerOffset,
  waiting        \* history: the producers that had elements since a call began,
                 \* of a call that met no other; else none

consumerVars == <<consumer, nextExplicitConsumerId, globalExplicitConsumerOffset, waiting>>

Least(m, n) == IF m < n THEN m ELSE n

NonEmpty == {p \in Listed : size[p] > 0}
Busy(t) == pc[t] # Resting

ConsumerInit ==
  /\ consumer = [t \in Threads |-> None]
  /\ nextExplicitConsumerId = 0 /\ globalExplicitConsumerOffset = 0
  /\ waiting = [t \in Threads |-> {}]

----------------------------------------------------------------------------
(* ConsumerToken(); lastKnownGlobalOffset is -1.                           *)
NewConsumer(t) ==
  /\ alive /\ role[t] = "consumer" /\ ~Busy(t) /\ consumer[t] = None
  /\ consumer' = [consumer EXCEPT ![t] =
       [initialOffset |-> nextExplicitConsumerId, lastKnownGlobalOffset |-> Modulus - 1,
        items |-> 0, currentProducer |-> None, desiredProducer |-> None]]
  /\ nextExplicitConsumerId' = (nextExplicitConsumerId + 1) % Modulus
  /\ UNCHANGED <<producerVars, globalExplicitConsumerOffset, waiting>>

(* A call begins: with the list's tail, or with the token's place.         *)
Begin(t) ==
  /\ alive /\ role[t] = "consumer" /\ ~Busy(t)
  /\ \E call \in setup.calls :
       /\ call.way = "token" => consumer[t] # None
       /\ Go(t, CASE call.way = "scored" ->
                      [at |-> "score", ptr |-> producerListTail, nonEmpty |-> 0,
                       best |-> None, bestSize |-> 0]
                  [] call.way = "list" ->
                      [at |-> "list", ptr |-> producerListTail, max |-> call.max, best |-> None]
                  [] call.way = "token" ->
                      [at |-> IF \/ consumer[t].desiredProducer = None
                                 \/ consumer[t].lastKnownGlobalOffset # globalExplicitConsumerOffset
                              THEN "rotate" ELSE "current",
                       max |-> call.max, bulk |-> call.bulk])
  /\ waiting' = IF \E u \in Threads \ {t} : role[u] = "consumer" /\ Busy(u)
                THEN [u \in Threads |-> {}]
                ELSE [waiting EXCEPT ![t] = NonEmpty]
  /\ UNCHANGED <<setup, alive, listVars, tokenVars, size, consumer, nextExplicitConsumerId,
                 globalExplicitConsumerOffset>>

(* A call that has come back without all it asked for.                     *)
Short == [at |-> "short"]

Leave(t) ==
  /\ pc[t] = Short
  /\ Go(t, Resting) /\ waiting' = [waiting EXCEPT ![t] = {}]
  /\ UNCHANGED <<setup, alive, listVars, tokenVars, size, consumer, nextExplicitConsumerId,
                 globalExplicitConsumerOffset>>

(* dequeue_bulk(max) of producer p: it takes n.                            *)
CanTake(t, p, max) ==
  LET most == Least(max, size[p])
  IN  IF \E u \in Threads \ {t} : role[u] = "consumer" /\ Busy(u) THEN 0 .. most ELSE {most}

Take(t, p, n, done) ==
  /\ size' = [size EXCEPT ![p] = @ - n]
  /\ waiting' = [u \in Threads |->
       IF u = t /\ done THEN {} ELSE IF size'[p] = 0 THEN waiting[u] \ {p} ELSE waiting[u]]

----------------------------------------------------------------------------
(* Calls without a token.                                                  *)

(* The producer with most elements, among the first three that have any.   *)
Score(t) ==
  /\ pc[t].at = "score"
  /\ LET p == pc[t].ptr IN
       IF p # None /\ pc[t].nonEmpty < 3
       THEN LET better == size[p] > pc[t].bestSize IN
            Go(t, [at |-> "score", ptr |-> next[p],
                   nonEmpty |-> pc[t].nonEmpty + IF size[p] > 0 THEN 1 ELSE 0,
                   best |-> IF better THEN p ELSE pc[t].best,
                   bestSize |-> IF better THEN size[p] ELSE pc[t].bestSize])
       ELSE Go(t, IF pc[t].nonEmpty = 0 THEN Short ELSE [at |-> "best", best |-> pc[t].best])
  /\ UNCHANGED <<setup, alive, listVars, tokenVars, size, consumerVars>>

(* Nothing there any more: all the others are tried.                       *)
TakeBest(t) ==
  /\ pc[t].at = "best"
  /\ \E n \in CanTake(t, pc[t].best, 1) :
       /\ Take(t, pc[t].best, n, n = 1)
       /\ Go(t, IF n = 1 THEN Resting
                ELSE [at |-> "list", ptr |-> producerListTail, max |-> 1, best |-> pc[t].best])
  /\ UNCHANGED <<setup, alive, listVars, tokenVars, consumer, nextExplicitConsumerId,
                 globalExplicitConsumerOffset>>

TakeFromList(t) ==
  /\ pc[t].at = "list"
  /\ LET p == pc[t].ptr IN
       IF p = None
       THEN Go(t, Short) /\ UNCHANGED <<size, waiting>>
       ELSE \E n \in IF p = pc[t].best THEN {0} ELSE CanTake(t, p, pc[t].max) :
              /\ Take(t, p, n, n = pc[t].max)
              /\ Go(t, IF n = pc[t].max THEN Resting
                       ELSE [pc[t] EXCEPT !.ptr = next[p], !.max = @ - n])
  /\ UNCHANGED <<setup, alive, listVars, tokenVars, consumer, nextExplicitConsumerId,
                 globalExplicitConsumerOffset>>

(* try_dequeue_from_producer(), with the token of another thread.          *)
TakeFromProducer(t) ==
  /\ alive /\ role[t] = "consumer" /\ ~Busy(t)
  /\ \E u \in Threads :
       /\ role[u] = "token" /\ held[u] # None /\ pc[u] = Resting
       /\ \E n \in CanTake(t, held[u], 1) : Take(t, held[u], n, FALSE)
  /\ UNCHANGED <<setup, alive, listVars, tokenVars, pc, consumer, nextExplicitConsumerId,
                 globalExplicitConsumerOffset>>

----------------------------------------------------------------------------
(* Calls with a token.                                                     *)

(* Mutant: the last producer of the list is followed by none.              *)
NoCircle(p, tail, k) ==
  LET nth[i \in 0 .. k] ==
        IF i = 0 THEN p ELSE IF next[nth[i - 1]] = None THEN nth[i - 1] ELSE next[nth[i - 1]]
  IN  nth[k]

(* The k-th producer after p, in the circle that begins at tail.           *)
After(p, tail, k) ==
  LET nth[i \in 0 .. k] ==
        IF i = 0 THEN p ELSE IF next[nth[i - 1]] = None THEN tail ELSE next[nth[i - 1]]
  IN  nth[k]

(* update_current_producer_after_rotation() begins.                        *)
Rotate(t) ==
  /\ pc[t].at = "rotate"
  /\ Go(t, IF consumer[t].desiredProducer = None /\ producerListTail = None THEN Short
           ELSE [at |-> "place", tail |-> producerListTail, max |-> pc[t].max, bulk |-> pc[t].bulk])
  /\ UNCHANGED <<setup, alive, listVars, tokenVars, size, consumerVars>>

(* The token's first place is counted from the oldest producer; afterwards *)
(* it moves as far as the global offset has.                               *)
Place(t) ==
  /\ pc[t].at = "place"
  /\ LET c == consumer[t]
         first == producerCount - 1 - (c.initialOffset % producerCount)
         from == IF c.desiredProducer = None THEN After(pc[t].tail, pc[t].tail, first)
                 ELSE c.desiredProducer
         delta == (globalExplicitConsumerOffset - c.lastKnownGlobalOffset) % Modulus
         place == After(from, pc[t].tail, delta % producerCount)
     IN  consumer' = [consumer EXCEPT ![t] =
           [c EXCEPT !.lastKnownGlobalOffset = globalExplicitConsumerOffset, !.items = 0,
                     !.currentProducer = place, !.desiredProducer = place]]
  /\ Go(t, [at |-> "current", max |-> pc[t].max, bulk |-> pc[t].bulk])
  /\ UNCHANGED <<setup, alive, listVars, tokenVars, size, nextExplicitConsumerId,
                 globalExplicitConsumerOffset, waiting>>

(* Beyond the quota one number is as good as another.                      *)
Consumed(items, n) == Least(items + n, QUOTA + 1)

(* The producer of the token.  One that has given a quota makes all tokens *)
(* rotate: with a single element at the quota exactly.                     *)
TakeFromCurrent(t) ==
  /\ pc[t].at = "current"
  /\ LET c == consumer[t]  p == c.currentProducer  max == pc[t].max IN
     \E n \in CanTake(t, p, max) :
       LET items == Consumed(c.items, n)
           quota == n = max /\ IF pc[t].bulk THEN items >= QUOTA ELSE items = QUOTA
       IN  /\ Take(t, p, n, n = max)
           /\ consumer' = [consumer EXCEPT ![t].items = items]
           /\ globalExplicitConsumerOffset' =
                (globalExplicitConsumerOffset + IF quota THEN 1 ELSE 0) % Modulus
           /\ Go(t, IF n = max THEN Resting
                    ELSE [at |-> "circle", ptr |-> After(p, producerListTail, 1),
                          tail |-> producerListTail, max |-> max - n])
  /\ UNCHANGED <<setup, alive, listVars, tokenVars, nextExplicitConsumerId>>

(* The others, around until the token's producer, which is the last one    *)
(* that gave something.                                                    *)
Circle(t) ==
  /\ pc[t].at = "circle"
  /\ LET p == pc[t].ptr  max == pc[t].max IN
     IF p = consumer[t].currentProducer
     THEN Go(t, Short) /\ UNCHANGED <<size, waiting, consumer>>
     ELSE \E n \in CanTake(t, p, max) :
            /\ Take(t, p, n, n = max)
            /\ consumer' = IF n = 0 THEN consumer
                           ELSE [consumer EXCEPT ![t].currentProducer = p, ![t].items = n]
            /\ Go(t, IF n = max THEN Resting
                     ELSE [pc[t] EXCEPT !.ptr = After(p, pc[t].tail, 1), !.max = max - n])
  /\ UNCHANGED <<setup, alive, listVars, tokenVars, nextExplicitConsumerId,
                 globalExplicitConsumerOffset>>

(* try_dequeue(), try_dequeue_non_interleaved() and try_dequeue_bulk().    *)
Dequeue(t) == Score(t) \/ TakeBest(t) \/ TakeFromList(t)
DequeueWithToken(t) == Rotate(t) \/ Place(t) \/ TakeFromCurrent(t) \/ Circle(t)

ConsumerNext ==
  \E t \in Threads :
    \/ NewConsumer(t) \/ Begin(t) \/ Leave(t)
    \/ Dequeue(t) \/ DequeueWithToken(t) \/ TakeFromProducer(t)

----------------------------------------------------------------------------
(* Properties.                                                             *)

(* A token is in a producer of the list, and its place is one too.         *)
ConsumerTypeOK ==
  /\ \A t \in Threads : consumer[t] # None =>
       /\ consumer[t].initialOffset \in 0 .. Modulus - 1
       /\ consumer[t].lastKnownGlobalOffset \in 0 .. Modulus - 1
       /\ consumer[t].items \in 0 .. QUOTA + 1
       /\ alive => {consumer[t].currentProducer, consumer[t].desiredProducer} \subseteq Listed \cup {None}
  /\ nextExplicitConsumerId \in 0 .. Modulus - 1
  /\ globalExplicitConsumerOffset \in 0 .. Modulus - 1
  /\ \A t \in Threads : waiting[t] \subseteq Created

(* "Returns false if all producer streams appeared empty at the time they  *)
(* were checked" (concurrentqueue.h:1160): a call that comes back with     *)
(* less than it asked for, and met no other, has not passed by a producer  *)
(* that had elements all the while.                                        *)
NothingMissed ==
  \A t \in Threads : pc[t] = Short => waiting[t] \cap NonEmpty = {}
=============================================================================
