---------------------------- MODULE ProducerList ----------------------------
(***************************************************************************)
(* The producers of a ConcurrentQueue (src/include/nie/concurrentqueue.h), *)
(* a list without locks that only grows: recycle_or_create_producer()      *)
(* takes one that nobody uses, or adds one; and the producer tokens, which *)
(* have an explicit producer each, and let go of it when they are gone.    *)
(*                                                                         *)
(* What a producer's queue holds is only counted here; how it is kept is   *)
(* in ExplicitProducer and ImplicitProducer.                               *)
(***************************************************************************)
EXTENDS Integers, Sequences, FiniteSets

CONSTANTS
  Threads,
  Setups,        \* see setup
  MaxProducers,  \* bound on the number of producers
  None           \* nullptr

VARIABLES
  setup,         \* what happens: the role of each thread ("token", "implicit" or
                 \* "consumer"; or "idle"), the ids threads may have, the calls of consumers,
                 \* and size, a bound on the elements of a producer
  alive,         \* FALSE after ~ConcurrentQueue()
  producerListTail,
  producerCount,
  next,          \* of each producer in the list, the one added before it
  isExplicit,    \* of each producer that was created
  inactive,
  tokenOf,       \* the thread whose token a producer knows as its own
  held,          \* the producer that a thread has, in its token or in the
                 \* listener for its exit
  size,          \* how many elements a producer has
  pc             \* where each thread is

listVars == <<producerListTail, producerCount, next, isExplicit, inactive>>
tokenVars == <<tokenOf, held>>
producerVars == <<setup, alive, listVars, tokenVars, size, pc>>

role == setup.role
Created == DOMAIN isExplicit
Resting == [at |-> "rest"]

Go(t, where) == pc' = [pc EXCEPT ![t] = where]

(* The function f with f[x] = y in addition.                               *)
Extended(f, x, y) == [z \in DOMAIN f \cup {x} |-> IF z = x THEN y ELSE f[z]]

EmptyFunction == [p \in {} |-> None]

ListInit ==
  /\ setup \in Setups
  /\ alive = TRUE
  /\ producerListTail = None /\ producerCount = 0
  /\ next = EmptyFunction /\ isExplicit = EmptyFunction
  /\ inactive = EmptyFunction /\ tokenOf = EmptyFunction /\ size = EmptyFunction
  /\ held = [t \in Threads |-> None]
  /\ pc = [t \in Threads |-> Resting]

----------------------------------------------------------------------------
(* recycle_or_create_producer()                                            *)

(* The call begins: pc keeps what the caller needs afterwards.             *)
Recycling(kind, rest) == [at |-> "walk", explicit |-> kind, ptr |-> producerListTail, rest |-> rest]

(* Mutant: whoever sees an inactive producer takes it, and marks it later. *)
WalkUnmarked(t) ==
  /\ pc[t].at = "walk"
  /\ LET p == pc[t].ptr IN
       IF p = None
       THEN Go(t, [pc[t] EXCEPT !.at = "create"])
       ELSE IF inactive[p] /\ isExplicit[p] = pc[t].explicit
       THEN Go(t, [pc[t] EXCEPT !.at = "got"])
       ELSE Go(t, [pc[t] EXCEPT !.ptr = next[p]])
  /\ UNCHANGED <<setup, alive, listVars, tokenVars, size>>

(* One producer of the list: an inactive one is taken if it is still so at *)
(* the compare-and-swap, which is this step.                               *)
Walk(t) ==
  /\ pc[t].at = "walk"
  /\ LET p == pc[t].ptr IN
       IF p = None
       THEN Go(t, [pc[t] EXCEPT !.at = "create"]) /\ UNCHANGED inactive
       ELSE IF inactive[p] /\ isExplicit[p] = pc[t].explicit
       THEN Go(t, [pc[t] EXCEPT !.at = "got"]) /\ inactive' = [inactive EXCEPT ![p] = FALSE]
       ELSE Go(t, [pc[t] EXCEPT !.ptr = next[p]]) /\ UNCHANGED inactive
  /\ UNCHANGED <<setup, alive, producerListTail, producerCount, next, isExplicit,
                 tokenVars, size>>

(* create(), or malloc() fails.                                            *)
Create(t) ==
  /\ pc[t].at = "create"
  /\ \/ /\ Cardinality(Created) < MaxProducers
        /\ LET p == Cardinality(Created) + 1 IN
             /\ isExplicit' = Extended(isExplicit, p, pc[t].explicit)
             /\ inactive' = Extended(inactive, p, FALSE)
             /\ tokenOf' = Extended(tokenOf, p, None)
             /\ size' = Extended(size, p, 0)
             /\ Go(t, [pc[t] EXCEPT !.at = "count", !.ptr = p])
     \/ /\ Go(t, [pc[t] EXCEPT !.at = "got"])
        /\ UNCHANGED <<isExplicit, inactive, tokenOf, size>>
  /\ UNCHANGED <<setup, alive, producerListTail, producerCount, next, held>>

(* add_producer(): it is counted before it is in the list.                 *)
Count(t) ==
  /\ pc[t].at = "count"
  /\ producerCount' = producerCount + 1
  /\ next' = Extended(next, pc[t].ptr, producerListTail)
  /\ Go(t, [pc[t] EXCEPT !.at = "push"])
  /\ UNCHANGED <<setup, alive, producerListTail, isExplicit, inactive, tokenVars, size>>

(* Mutant: the producer is counted again when the compare-and-swap fails.  *)
PushRecounted(t) ==
  /\ pc[t].at = "push"
  /\ IF producerListTail = next[pc[t].ptr]
     THEN /\ producerListTail' = pc[t].ptr /\ Go(t, [pc[t] EXCEPT !.at = "got"])
          /\ UNCHANGED <<next, producerCount>>
     ELSE /\ next' = [next EXCEPT ![pc[t].ptr] = producerListTail]
          /\ producerCount' = producerCount + 1
          /\ UNCHANGED <<producerListTail, pc>>
  /\ UNCHANGED <<setup, alive, isExplicit, inactive, tokenVars, size>>

Push(t) ==
  /\ pc[t].at = "push"
  /\ IF producerListTail = next[pc[t].ptr]
     THEN producerListTail' = pc[t].ptr /\ Go(t, [pc[t] EXCEPT !.at = "got"]) /\ UNCHANGED next
     ELSE next' = [next EXCEPT ![pc[t].ptr] = producerListTail] /\ UNCHANGED <<producerListTail, pc>>
  /\ UNCHANGED <<setup, alive, producerCount, isExplicit, inactive, tokenVars, size>>

RecycleOrCreate(t) == Walk(t) \/ Create(t) \/ Count(t) \/ Push(t)

----------------------------------------------------------------------------
(* ProducerToken.                                                          *)

NewToken(t) ==
  /\ alive /\ role[t] = "token" /\ pc[t] = Resting /\ held[t] = None
  /\ Go(t, Recycling(TRUE, None))
  /\ UNCHANGED <<setup, alive, listVars, tokenVars, size>>

GotToken(t) ==
  /\ role[t] = "token" /\ pc[t].at = "got"
  /\ held' = [held EXCEPT ![t] = pc[t].ptr]
  /\ tokenOf' = IF pc[t].ptr = None THEN tokenOf ELSE [tokenOf EXCEPT ![pc[t].ptr] = t]
  /\ Go(t, Resting)
  /\ UNCHANGED <<setup, alive, listVars, size>>

(* enqueue(token, ...)                                                     *)
EnqueueWithToken(t) ==
  /\ alive /\ role[t] = "token" /\ pc[t] = Resting /\ held[t] # None
  /\ size[held[t]] < setup.size
  /\ size' = [size EXCEPT ![held[t]] = @ + 1]
  /\ UNCHANGED <<setup, alive, listVars, tokenVars, pc>>

(* Mutant: the producer is free before it has forgotten the token.         *)
DropTokenLast(t) ==
  /\ role[t] = "token" /\ pc[t] = Resting /\ held[t] # None
  /\ inactive' = [inactive EXCEPT ![held[t]] = TRUE]
  /\ Go(t, [at |-> "drop"])
  /\ UNCHANGED <<setup, alive, producerListTail, producerCount, next, isExplicit, tokenVars, size>>

(* ~ProducerToken(): the producer forgets the token, then is free.         *)
DropToken(t) ==
  /\ role[t] = "token" /\ pc[t] = Resting /\ held[t] # None
  /\ tokenOf' = [tokenOf EXCEPT ![held[t]] = None]
  /\ Go(t, [at |-> "drop"])
  /\ UNCHANGED <<setup, alive, listVars, held, size>>

Deactivate(t) ==
  /\ pc[t].at = "drop"
  /\ inactive' = [inactive EXCEPT ![held[t]] = TRUE]
  /\ held' = [held EXCEPT ![t] = None]
  /\ Go(t, Resting)
  /\ UNCHANGED <<setup, alive, producerListTail, producerCount, next, isExplicit, tokenOf, size>>

(* Two tokens that nobody else uses are swapped, or one is moved.          *)
SwapTokens(t, u) ==
  /\ t # u /\ held[t] # None
  /\ \A v \in {t, u} : role[v] = "token" /\ pc[v] = Resting
  /\ held' = [held EXCEPT ![t] = held[u], ![u] = held[t]]
  /\ tokenOf' = [p \in Created |->
       IF p = held[t] THEN u ELSE IF p = held[u] THEN t ELSE tokenOf[p]]
  /\ UNCHANGED <<setup, alive, listVars, size, pc>>

TokenNext ==
  \/ \E t \in Threads :
       \/ NewToken(t) \/ GotToken(t) \/ EnqueueWithToken(t) \/ DropToken(t) \/ Deactivate(t)
  \/ \E t, u \in Threads : SwapTokens(t, u)

----------------------------------------------------------------------------
(* Properties.                                                             *)

(* The producers of the list, from one on: the least set that has it, and  *)
(* with each producer the next one.                                        *)
From(tail) ==
  {p \in DOMAIN next :
     \A S \in SUBSET DOMAIN next :
       (tail \in S \cup {None} /\ \A q \in S : next[q] \in S \cup {None}) => p \in S}

Listed == From(producerListTail)

(* Who is adding a producer to the list.                                   *)
Adding(p) == \E t \in Threads : pc[t].at \in {"count", "push"} /\ pc[t].ptr = p

ListTypeOK ==
  /\ setup \in Setups /\ alive \in BOOLEAN
  /\ producerListTail \in Created \cup {None}
  /\ producerCount \in 0 .. Cardinality(Created)
  /\ next \in [DOMAIN next -> Created \cup {None}]
  /\ isExplicit \in [Created -> BOOLEAN] /\ inactive \in [Created -> BOOLEAN]
  /\ tokenOf \in [Created -> Threads \cup {None}]
  /\ held \in [Threads -> 1 .. MaxProducers \cup {None}]
  /\ size \in [Created -> 0 .. setup.size]

(* No producer is lost: each is in the list unless it is being added; the  *)
(* count is never behind the list, which a consumer divides by             *)
(* (concurrentqueue.h:1416 and 1428).                                      *)
AllListed ==
  /\ Listed = {p \in Created : ~Adding(p)}
  /\ Cardinality(Listed) <= producerCount
=============================================================================
