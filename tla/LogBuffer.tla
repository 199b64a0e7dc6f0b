----------------------------- MODULE LogBuffer -----------------------------
(***************************************************************************)
(* The memory-mapped log file of src/src/log.cpp: init_log() maps it,      *)
(* log_frame() hands out room in it to any number of threads.              *)
(*                                                                         *)
(* Sizes and offsets are counted in words of 8 bytes, the granularity the  *)
(* code asserts (log.cpp:66,71).  A frame is a header of two words and     *)
(* `size' words of payload; the file itself starts with a header of two    *)
(* words (signature, content_length).                                      *)
(*                                                                         *)
(* log_frame() is two steps: the fetch_add on content_length, after which  *)
(* the offset lives in a local variable of the thread (claim[t]), and the  *)
(* local capacity test with the placement new of the header.  Other        *)
(* threads run between the two, and the process may be killed there: what  *)
(* is in the mapping by then survives, since it is MAP_SHARED.             *)
(***************************************************************************)
EXTENDS Integers, FiniteSets

CONSTANTS
  Threads,    \* threads that log
  Tags,       \* what a frame is about (its `index' and payload), abstracted
  Sizes,      \* payload sizes, in words
  Capacity,   \* words in the mapping: 2147483648 bytes in the code
  NoClaim     \* the value of a claim of a thread outside log_frame()

ASSUME SizesAssumption    == Sizes \subseteq Nat
ASSUME CapacityAssumption == Capacity \in Nat
ASSUME NoClaimAssumption  == NoClaim \notin [off : Nat, size : Nat, tag : Tags]

VARIABLES
  mapped,          \* nie_log_buffer_output is not null
  content_length,  \* the atomic word of the file header
  claim,           \* claim[t]: the room thread t has reserved and not used
  frames,          \* the frames whose header is in the mapping
  halted           \* the process has stopped: buffer full, or killed

vars == <<mapped, content_length, claim, frames, halted>>

HeaderWords == 2

Frame == [off : Nat, size : Nat, tag : Tags]

(* The first word after frame f: `size + sizeof(log_frame_t)' further on.  *)
End(f) == f.off + f.size + HeaderWords

(* Mutant: the test asks only where the frame starts.                      *)
FullByStart(f) == f.off > Capacity + f.size

(* The capacity test of log_frame(): it leaves the header out of the sum.  *)
Full(f) == f.off + f.size >= Capacity

Init ==
  /\ mapped = FALSE
  /\ content_length = HeaderWords
  /\ claim = [t \in Threads |-> NoClaim]
  /\ frames = {}
  /\ halted = FALSE

----------------------------------------------------------------------------

(* init_log(): the file is created, sized and mapped, and the header is    *)
(* constructed in it.  A failing open or ftruncate aborts the process.     *)
InitLog ==
  /\ ~halted /\ ~mapped
  /\ mapped' = TRUE
  /\ content_length' = HeaderWords
  /\ UNCHANGED <<claim, frames, halted>>

InitLogFails ==
  /\ ~halted /\ ~mapped
  /\ halted' = TRUE
  /\ UNCHANGED <<mapped, content_length, claim, frames>>

(* Mutant: the reservation forgets the room for the frame header.          *)
FetchAddPayloadOnly(t, size, tag) ==
  /\ ~halted /\ mapped
  /\ claim[t] = NoClaim
  /\ claim' = [claim EXCEPT ![t] =
                 [off |-> content_length, size |-> size, tag |-> tag]]
  /\ content_length' = content_length + size
  /\ UNCHANGED <<mapped, frames, halted>>

(* Mutant: the room is rounded up once more than the frame says.           *)
FetchAddPadded(t, size, tag) ==
  /\ ~halted /\ mapped
  /\ claim[t] = NoClaim
  /\ claim' = [claim EXCEPT ![t] =
                 [off |-> content_length, size |-> size, tag |-> tag]]
  /\ content_length' = content_length + size + HeaderWords + 1
  /\ UNCHANGED <<mapped, frames, halted>>

(* Mutant: room is taken back from the end, a later frame before a claim.  *)
FetchAddTooEarly(t, size, tag) ==
  /\ ~halted /\ mapped
  /\ claim[t] = NoClaim
  /\ claim' = [claim EXCEPT ![t] =
                 [off |-> content_length - size, size |-> size, tag |-> tag]]
  /\ content_length' = content_length + HeaderWords
  /\ UNCHANGED <<mapped, frames, halted>>

(* log_frame(), first half: fetch_add reserves the room atomically.        *)
FetchAdd(t, size, tag) ==
  /\ ~halted /\ mapped
  /\ claim[t] = NoClaim
  /\ claim' = [claim EXCEPT ![t] =
                 [off |-> content_length, size |-> size, tag |-> tag]]
  /\ content_length' = content_length + size + HeaderWords
  /\ UNCHANGED <<mapped, frames, halted>>

(* Mutant: the local offset is used after it was given up.                 *)
ConstructLate(t) ==
  /\ ~halted
  /\ claim[t] # NoClaim
  /\ ~Full(claim[t])
  /\ claim' = [claim EXCEPT ![t] = NoClaim]
  /\ frames' = frames \cup {claim'[t]}
  /\ UNCHANGED <<mapped, content_length, halted>>

(* log_frame(), second half, room left: the header is constructed.         *)
Construct(t) ==
  /\ ~halted
  /\ claim[t] # NoClaim
  /\ ~Full(claim[t])
  /\ frames' = frames \cup {claim[t]}
  /\ claim' = [claim EXCEPT ![t] = NoClaim]
  /\ UNCHANGED <<mapped, content_length, halted>>

(* log_frame(), second half, no room: the store through the null pointer.  *)
BufferFull(t) ==
  /\ ~halted
  /\ claim[t] # NoClaim
  /\ Full(claim[t])
  /\ halted' = TRUE
  /\ UNCHANGED <<mapped, content_length, claim, frames>>

(* The process is killed from outside, between any two steps.              *)
Kill ==
  /\ ~halted
  /\ halted' = TRUE
  /\ UNCHANGED <<mapped, content_length, claim, frames>>

Next ==
  \/ InitLog
  \/ InitLogFails
  \/ Kill
  \/ \E t \in Threads :
       \/ \E size \in Sizes, tag \in Tags : FetchAdd(t, size, tag)
       \/ Construct(t)
       \/ BufferFull(t)

Spec == Init /\ [][Next]_vars

----------------------------------------------------------------------------
(* Properties.                                                             *)

ClaimedBy(t) == claim[t] # NoClaim

(* The variables have their types; a claim is a frame that is not yet in   *)
(* the mapping (the locals of log_frame(), log.cpp:69-80).                 *)
TypeOK ==
  /\ mapped \in BOOLEAN /\ halted \in BOOLEAN
  /\ content_length \in Nat
  /\ claim \in [Threads -> Frame \cup {NoClaim}]
  /\ frames \subseteq Frame

Apart(f, g) == End(f) <= g.off \/ End(g) <= f.off

(* No two threads are ever given overlapping room: neither frames already  *)
(* in the mapping, nor room two threads hold at once, nor one of each.     *)
(* This is what makes the payload memcpy of do_log() safe without a lock.  *)
FramesApart ==
  /\ \A f, g \in frames : f # g => Apart(f, g)
  /\ \A t \in Threads, f \in frames : ClaimedBy(t) => Apart(claim[t], f)
  /\ \A t, u \in Threads :
       t # u /\ ClaimedBy(t) /\ ClaimedBy(u) => Apart(claim[t], claim[u])

Pieces == frames \cup {claim[t] : t \in {u \in Threads : ClaimedBy(u)}}

(* The file has no gaps: each frame and each claim starts where another    *)
(* one ends, or at the first word after the file header, and the last one  *)
(* ends at content_length.  A reader that hops from frame to frame by the  *)
(* size in the header (log.cpp:52,78) meets every frame, and loses its way *)
(* only at room that was reserved and never constructed.                   *)
NoGaps ==
  /\ \A p \in Pieces : p.off = HeaderWords \/ \E q \in Pieces : End(q) = p.off
  /\ content_length = HeaderWords \/ \E p \in Pieces : End(p) = content_length

(* At most one frame reaches past the end of the mapping, however many     *)
(* threads race at the capacity limit: the test at log.cpp:72 lets one     *)
(* frame through whose header does not fit, and refuses all later ones.    *)
OneOverrunAtMost ==
  \A f, g \in frames : End(f) > Capacity /\ End(g) > Capacity => f = g

(* Every frame log_frame() hands out lies inside the mapping: what the     *)
(* length given to ftruncate and mmap (log.cpp:184,188) and the "Log       *)
(* Buffer Full" refusal (log.cpp:73) promise.                              *)
FramesInMapping == \A f \in frames : End(f) <= Capacity

(* What a reader of the file can reach: the frames before the first hole.  *)
Reachable ==
  {f \in frames : \A t \in Threads : ClaimedBy(t) => f.off < claim[t].off}

(* What a reader could reach it can reach for ever: no thread reserves     *)
(* room before a finished frame, so a later crash cannot hide it.          *)
ReachableGrows == [][Reachable \subseteq Reachable']_vars

============================================================================
