----------------------------- MODULE FifoQueue -----------------------------
(***************************************************************************)
(* What one producer of a ConcurrentQueue promises, and what               *)
(* ExplicitProducer and ImplicitProducer are shown to implement: elements  *)
(* are claimed in the order they were enqueued in, each by one dequeue,    *)
(* which then returns them in that order.                                  *)
(*                                                                         *)
(* A step is recognised by what it does to the sequences, so that an       *)
(* element may be anything.                                                *)
(***************************************************************************)
EXTENDS Integers, Sequences, SequencesExt

CONSTANTS
  Consumers,
  MayThrow     \* the element's assignment may throw; it is lost if it does

VARIABLES
  items,       \* what is enqueued and not claimed
  claimed,     \* what each consumer has claimed and not yet moved out
  result       \* what it has moved out in this call

Empty == [c \in Consumers |-> <<>>]

Init == items = <<>> /\ claimed = Empty /\ result = Empty

(* One element or several become available at once.                        *)
Enqueue ==
  /\ Len(items') > Len(items) /\ IsPrefix(items, items')
  /\ UNCHANGED <<claimed, result>>

Only(f, c) == \A d \in Consumers \ {c} : f[d]' = f[d]

Claim(c) ==
  /\ claimed[c] = <<>> /\ claimed'[c] # <<>>
  /\ items = claimed'[c] \o items'
  /\ Only(claimed, c)
  /\ UNCHANGED result

(* Elements are moved out from the front; if one throws, it is lost with   *)
(* some of those that follow it.                                           *)
Deliver(c) ==
  /\ claimed[c] # claimed'[c]
  /\ IsPrefix(result[c], result'[c])
  /\ LET moved == SubSeq(result'[c], Len(result[c]) + 1, Len(result'[c])) IN
       \/ claimed[c] = moved \o claimed'[c]
       \/ /\ MayThrow
          /\ IsPrefix(moved, claimed[c]) /\ IsSuffix(claimed'[c], claimed[c])
          /\ Len(moved) + Len(claimed'[c]) < Len(claimed[c])
  /\ Only(claimed, c) /\ Only(result, c)
  /\ UNCHANGED items

Return(c) ==
  /\ claimed[c] = <<>>
  /\ result'[c] = <<>> /\ Only(result, c)
  /\ UNCHANGED <<items, claimed>>

(* The queue is destroyed, with what is in it; nobody uses it by then.     *)
Destroy ==
  /\ claimed = Empty
  /\ items' = <<>>
  /\ UNCHANGED <<claimed, result>>

Next ==
  \/ Enqueue \/ Destroy
  \/ \E c \in Consumers : Claim(c) \/ Deliver(c) \/ Return(c)

Spec == Init /\ [][Next]_<<items, claimed, result>>
============================================================================
