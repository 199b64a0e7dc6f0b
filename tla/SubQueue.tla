------------------------------ MODULE SubQueue ------------------------------
(***************************************************************************)
(* One producer's queue as consumers use it: ProducerBase::dequeue() and   *)
(* dequeue_bulk() call those of the kind that isExplicit says.             *)
(***************************************************************************)
EXTENDS ProducerBase

CONSTANTS EXPLICIT_INITIAL_INDEX_SIZE, IMPLICIT_INITIAL_INDEX_SIZE

VARIABLES
  next, emptyFlags, headers, pr_blockIndexSlotsUsed, pr_blockIndexFront,
  elementsCompletelyDequeued, blockIndex, entries

Explicit == INSTANCE ExplicitProducer
Implicit == INSTANCE ImplicitProducer

explicitVars == <<next, emptyFlags, headers, pr_blockIndexSlotsUsed, pr_blockIndexFront>>
implicitVars == <<elementsCompletelyDequeued, blockIndex, entries>>
vars == <<baseVars, explicitVars, implicitVars>>

Init == BaseInit /\ Explicit!OwnInit /\ Implicit!OwnInit

Next ==
  \/ setup.isExplicit /\ Explicit!Next /\ UNCHANGED implicitVars
  \/ ~setup.isExplicit /\ Implicit!Next /\ UNCHANGED explicitVars

Spec == Init /\ [][Next]_vars

TypeOK == Explicit!TypeOK /\ Implicit!TypeOK

(* "Since we're in the destructor we can assume that all enqueue/dequeue   *)
(* operations completed already" (concurrentqueue.h:2420, and 1778): both  *)
(* destructors destroy every element that is left and nothing else, and    *)
(* give every block back, whatever elements threw when they were moved out *)
(* and whichever calls failed, as long as Failures is empty.               *)
DestructorExact ==
  IF setup.isExplicit THEN Explicit!DestructorExact ELSE Implicit!DestructorExact

RoomInIndex == Explicit!RoomInIndex
=============================================================================
