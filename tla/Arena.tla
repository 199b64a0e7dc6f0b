------------------------------- MODULE Arena -------------------------------
(***************************************************************************)
(* arena<N, alignment> of src/include/nie/stack_alloc.hpp and              *)
(* dynamic_arena<alignment> of src/include/nie/dynamic_stack_alloc.hpp:    *)
(* small requests are carved from a buffer whose top goes up with each of  *)
(* them, and down only if the uppermost goes back; others, and those that  *)
(* find the buffer full, come from operator new.                           *)
(*                                                                         *)
(* The two differ in that dynamic_arena counts what it gives and takes     *)
(* (counted), and lets reset() throw unless both counts agree.  Addresses  *)
(* are relative to the buffer.  operator new is external: it returns free  *)
(* memory above the buffer, aligned, or throws.  It may return the address *)
(* at which the buffer ends.                                               *)
(***************************************************************************)
EXTENDS Integers, FiniteSetsExt

CONSTANTS
  Users, Sizes, None,
  N,           \* the length of the buffer
  Alignment,
  HeapEnd,     \* the memory of operator new is N .. HeapEnd - 1
  MaxUsed      \* bound on full_used_

ArenaAssumption ==
  /\ Alignment \in Nat \ {0} /\ N \in Nat
  /\ HeapEnd \in Nat /\ Sizes \subseteq Nat

VARIABLES
  counted,        \* this is a dynamic_arena
  block,          \* the allocation of each user
  ptr,            \* ptr_, relative to buf_
  heap,           \* what operator new gave and has not got back
  full_used,      \* full_used_, full_returned_: dynamic_arena only
  full_returned,
  lost            \* counted requests that operator new refused (history)

vars == <<counted, block, ptr, heap, full_used, full_returned, lost>>

Request == [addr : Int, len : Sizes]

align_up(n) == ((n + Alignment - 1) \div Alignment) * Alignment
pointer_in_buffer(p) == 0 <= p /\ p <= N

(* Which requests are meant for the buffer, and when it has room for them. *)
ForBuffer(n) == align_up(n) < N \div 8

(* Mutant: the room left in the buffer is not looked at.                   *)
HasRoomAnyway(n) == n \in Sizes

HasRoom(n) == N - ptr >= align_up(n)

Count(n) == IF counted THEN align_up(n) ELSE 0

Init ==
  /\ counted \in BOOLEAN
  /\ block = [u \in Users |-> None]
  /\ ptr = 0
  /\ heap = {}
  /\ full_used = 0 /\ full_returned = 0
  /\ lost = 0

----------------------------------------------------------------------------

(* allocate() from the buffer.                                             *)
Carve(u, n) ==
  /\ ForBuffer(n) /\ HasRoom(n)
  /\ block' = [block EXCEPT ![u] = [addr |-> ptr, len |-> n]]
  /\ ptr' = ptr + align_up(n)
  /\ UNCHANGED <<heap, lost>>

Bytes(p, n) == p .. (p + n - 1)

(* operator new(n) may return p, which no other address equals.            *)
Obtainable(p, n) ==
  /\ p % Alignment = 0
  /\ \A h \in heap : p # h.addr /\ Bytes(p, n) \cap Bytes(h.addr, h.len) = {}

(* allocate() from operator new.                                           *)
FromHeap(u, n) ==
  /\ ~(ForBuffer(n) /\ HasRoom(n))
  /\ \E p \in N .. HeapEnd - n :
       /\ Obtainable(p, n)
       /\ block' = [block EXCEPT ![u] = [addr |-> p, len |-> n]]
       /\ heap' = heap \cup {[addr |-> p, len |-> n]}
  /\ UNCHANGED <<ptr, lost>>

(* operator new throws.                                                    *)
Refused(u, n) ==
  /\ ~(ForBuffer(n) /\ HasRoom(n))
  /\ lost' = lost + Count(n)
  /\ UNCHANGED <<block, ptr, heap>>

(* Mutant: only what the buffer serves is counted.                         *)
UsedInBuffer(n) ==
  full_used' = full_used + (IF ForBuffer(n) /\ HasRoom(n) THEN Count(n) ELSE 0)

(* full_used_ is raised before anything can fail.                          *)
Used(n) == full_used' = full_used + Count(n)

Allocate(u) ==
  /\ block[u] = None
  /\ \E n \in Sizes :
       /\ full_used + Count(n) <= MaxUsed
       /\ Carve(u, n) \/ FromHeap(u, n) \/ Refused(u, n)
       /\ Used(n)
  /\ UNCHANGED <<counted, full_returned>>

(* Mutant: the top comes down to whatever goes back.                       *)
ReleaseAny(b) ==
  /\ pointer_in_buffer(b.addr)
  /\ ptr' = b.addr
  /\ UNCHANGED heap

(* deallocate() in the buffer: the top comes down if b is the uppermost.   *)
Release(b) ==
  /\ pointer_in_buffer(b.addr)
  /\ ptr' = IF b.addr + align_up(b.len) = ptr THEN b.addr ELSE ptr
  /\ UNCHANGED heap

(* deallocate() of what does not start in the buffer.                      *)
Delete(b) ==
  /\ ~pointer_in_buffer(b.addr)
  /\ heap' = heap \ {b}
  /\ UNCHANGED ptr

Deallocate(u) ==
  /\ block[u] # None
  /\ Release(block[u]) \/ Delete(block[u])
  /\ block' = [block EXCEPT ![u] = None]
  /\ full_returned' = full_returned + Count(block[u].len)
  /\ UNCHANGED <<counted, full_used, lost>>

(* Users for whom reset() of arena is called have nothing in the buffer;   *)
(* dynamic_arena looks for itself, and throws.                             *)
MayReset ==
  IF counted
  THEN full_used = full_returned
  ELSE \A u \in Users : block[u] # None => ~pointer_in_buffer(block[u].addr)

Reset ==
  /\ MayReset
  /\ ptr' = 0
  /\ full_used' = 0 /\ full_returned' = 0
  /\ UNCHANGED <<counted, block, heap, lost>>

Next ==
  \/ \E u \in Users : Allocate(u) \/ Deallocate(u)
  \/ Reset

Spec == Init /\ [][Next]_vars

----------------------------------------------------------------------------
(* Properties.                                                             *)

(* Values have their types; the top never leaves the buffer, which the     *)
(* code asserts of each call (stack_alloc.hpp:68,87).                      *)
TypeOK ==
  /\ counted \in BOOLEAN
  /\ block \in [Users -> Request \cup {None}]
  /\ ptr \in 0 .. N
  /\ \A h \in heap : h \in Request
  /\ full_used \in Nat /\ full_returned \in Nat /\ lost \in Nat

Held == {u \in Users : block[u] # None}

(* operator delete gets what operator new gave and nothing else, and gets  *)
(* all of it, save blocks that begin where the buffer ends:                *)
(* pointer_in_buffer() takes those for its own (stack_alloc.hpp:62), and   *)
(* they stay allocated for ever.  An empty block of the buffer may be at   *)
(* the same address, so excluding it would be wrong as well.               *)
HeapMatches ==
  /\ \A h \in heap : (\E u \in Held : block[u] = h) \/ h.addr = N
  /\ \A u \in Held : pointer_in_buffer(block[u].addr) \/ block[u] \in heap

(* The two counts differ by what users have, and by what was counted and   *)
(* then refused: otherwise reset() would throw for nothing, or take memory *)
(* from under a user, in whatever order the calls come.                    *)
CountsAgree ==
  counted =>
    full_used - full_returned =
      lost + MapThenSumSet(LAMBDA u : align_up(block[u].len), Held)

Contract == INSTANCE Allocator

(* The users get what the allocators promise: memory of their own.         *)
Allocates == Contract!Spec
============================================================================
