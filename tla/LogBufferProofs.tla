-------------------------- MODULE LogBufferProofs --------------------------
(***************************************************************************)
(* Proofs about the log buffer for any number of threads, any payload      *)
(* sizes and any capacity.                                                 *)
(***************************************************************************)
EXTENDS LogBuffer, TLAPS

(* Everything handed out lies between the file header and content_length,  *)
(* and nothing constructed failed the capacity test.  This is what the     *)
(* reservation adds to FramesApart to make it inductive: a new claim       *)
(* starts where all earlier room ends.                                     *)
InFile ==
  /\ HeaderWords <= content_length
  /\ ~mapped => content_length = HeaderWords
  /\ \A f \in frames : End(f) <= content_length /\ ~Full(f)
  /\ \A t \in Threads : ClaimedBy(t) => End(claim[t]) <= content_length

IInv == TypeOK /\ InFile /\ FramesApart /\ NoGaps

USE SizesAssumption, CapacityAssumption, NoClaimAssumption

(* The initial state satisfies the inductive invariant.                    *)
LEMMA InitIInv == Init => IInv
<1> SUFFICES ASSUME Init PROVE IInv
  OBVIOUS
<1> USE DEF Init, HeaderWords
<1>1. TypeOK
  BY DEF TypeOK
<1>2. InFile /\ FramesApart
  BY DEF InFile, FramesApart, ClaimedBy
<1>3. NoGaps
  BY DEF NoGaps, Pieces, ClaimedBy
<1> QED
  BY <1>1, <1>2, <1>3 DEF IInv

(* What thread t holds after a reservation, and what the others hold.      *)
LEMMA FetchAddClaims ==
  ASSUME NEW t \in Threads, NEW size \in Sizes, NEW tag \in Tags,
         TypeOK, FetchAdd(t, size, tag)
  PROVE  /\ claim'[t] = [off |-> content_length, size |-> size, tag |-> tag]
         /\ claim'[t] \in Frame
         /\ ClaimedBy(t)'
         /\ \A u \in Threads \ {t} : claim'[u] = claim[u]
<1>1. claim'[t] = [off |-> content_length, size |-> size, tag |-> tag]
  BY DEF FetchAdd, TypeOK
<1>2. claim'[t] \in Frame
  <2>1. content_length \in Nat /\ size \in Nat
    BY DEF TypeOK
  <2> QED
    BY <1>1, <2>1 DEF Frame
<1>3. ClaimedBy(t)'
  BY <1>2 DEF ClaimedBy, Frame
<1> QED
  BY <1>1, <1>2, <1>3 DEF FetchAdd, TypeOK

(* A reservation preserves the invariant.                                  *)
LEMMA FetchAddIInv ==
  ASSUME NEW t \in Threads, NEW size \in Sizes, NEW tag \in Tags,
         IInv, FetchAdd(t, size, tag)
  PROVE  IInv'
<1> USE DEF IInv
<1> DEFINE new == [off |-> content_length, size |-> size, tag |-> tag]
<1>1. /\ claim'[t] = new /\ new \in Frame /\ ClaimedBy(t)'
      /\ \A u \in Threads \ {t} : claim'[u] = claim[u]
      /\ ~ClaimedBy(t)
  BY FetchAddClaims DEF FetchAdd, ClaimedBy
<1>2. /\ frames' = frames /\ mapped' = mapped /\ halted' = halted /\ mapped
      /\ content_length' = content_length + size + HeaderWords
      /\ End(new) = content_length' /\ new.off = content_length
      /\ size \in Nat
  BY DEF FetchAdd, End, TypeOK, HeaderWords
<1>3. TypeOK'
  BY <1>1, <1>2 DEF TypeOK, FetchAdd, HeaderWords
<1>4. InFile'
  <2>1. \A f \in Frame : End(f) <= content_length => End(f) <= content_length'
    BY <1>2 DEF Frame, End, HeaderWords, TypeOK
  <2>2. \A f \in frames : End(f) <= content_length' /\ ~Full(f)
    BY <2>1 DEF InFile, TypeOK
  <2>3. ASSUME NEW u \in Threads, ClaimedBy(u)' PROVE End(claim'[u]) <= content_length'
    <3>1. CASE u = t
      BY <3>1, <1>1, <1>2, <1>3 DEF TypeOK
    <3>2. CASE u # t
      <4>1. claim'[u] = claim[u] /\ ClaimedBy(u) /\ claim[u] \in Frame
        BY <3>2, <2>3, <1>1 DEF ClaimedBy, TypeOK
      <4> QED
        BY <4>1, <2>1 DEF InFile
    <3> QED
      BY <3>1, <3>2
  <2> QED
    BY <1>2, <2>2, <2>3 DEF InFile, TypeOK, HeaderWords, End, Full
<1>5. FramesApart'
  <2>1. \A f \in frames : Apart(new, f)
    BY <1>2 DEF InFile, Apart
  <2>2. \A u \in Threads \ {t} : ClaimedBy(u)' =>
           /\ ClaimedBy(u) /\ claim'[u] = claim[u]
           /\ Apart(claim[u], new) /\ Apart(new, claim[u])
    BY <1>1, <1>2 DEF InFile, Apart, ClaimedBy
  <2> QED
    BY <2>1, <2>2, <1>1, <1>2 DEF FramesApart, Apart, End
<1>6. NoGaps'
  <2>1. Pieces' = Pieces \cup {new}
    BY <1>1, <1>2 DEF Pieces, ClaimedBy
  <2>2. new.off = HeaderWords \/ \E q \in Pieces : End(q) = new.off
    BY <1>2 DEF NoGaps
  <2> QED
    BY <2>1, <2>2, <1>2 DEF NoGaps, End
<1> QED
  BY <1>3, <1>4, <1>5, <1>6

(* Constructing the header preserves the invariant.                        *)
LEMMA ConstructIInv ==
  ASSUME NEW t \in Threads, IInv, Construct(t)
  PROVE  IInv'
<1> USE DEF IInv
<1> DEFINE f0 == claim[t]
<1>1. /\ f0 \in Frame /\ ClaimedBy(t) /\ ~Full(f0)
      /\ ~ClaimedBy(t)'
      /\ \A u \in Threads \ {t} : claim'[u] = claim[u]
  BY DEF Construct, ClaimedBy, TypeOK
<1>2. /\ frames' = frames \cup {f0} /\ mapped' = mapped /\ halted' = halted
      /\ content_length' = content_length
  BY DEF Construct
<1>3. TypeOK'
  BY <1>1, <1>2 DEF TypeOK, Construct
<1>4. InFile'
  <2>1. \A u \in Threads : ClaimedBy(u)' => u # t /\ ClaimedBy(u) /\ claim'[u] = claim[u]
    BY <1>1 DEF ClaimedBy
  <2> QED
    BY <1>1, <1>2, <2>1 DEF InFile, End, Full
<1>5. FramesApart'
  <2>1. \A u \in Threads : ClaimedBy(u)' => u # t /\ ClaimedBy(u) /\ claim'[u] = claim[u]
    BY <1>1 DEF ClaimedBy
  <2>2. \A f \in frames : Apart(f0, f) /\ Apart(f, f0)
    BY <1>1 DEF FramesApart, Apart
  <2> QED
    BY <1>1, <1>2, <2>1, <2>2 DEF FramesApart, Apart, End
<1>6. NoGaps'
  <2>1. Pieces' = Pieces
    BY <1>1, <1>2 DEF Pieces, ClaimedBy
  <2> QED
    BY <2>1, <1>2 DEF NoGaps, End
<1> QED
  BY <1>3, <1>4, <1>5, <1>6

(* Steps that leave the file and the claims alone preserve the invariant.  *)
LEMMA QuietIInv ==
  ASSUME IInv, UNCHANGED <<content_length, claim, frames>>,
         mapped' \in BOOLEAN, halted' \in BOOLEAN,
         ~mapped' => content_length' = HeaderWords
  PROVE  IInv'
<1> USE DEF IInv
<1>1. TypeOK'
  BY DEF TypeOK
<1>2. InFile'
  BY DEF InFile, ClaimedBy, End, Full
<1>3. FramesApart'
  BY DEF FramesApart, ClaimedBy, Apart, End
<1>4. NoGaps'
  BY DEF NoGaps, Pieces, ClaimedBy, End
<1> QED
  BY <1>1, <1>2, <1>3, <1>4

(* IInv is inductive.                                                      *)
LEMMA NextIInv == IInv /\ [Next]_vars => IInv'
<1> SUFFICES ASSUME IInv, [Next]_vars PROVE IInv'
  OBVIOUS
<1>1. CASE InitLog
  BY <1>1, QuietIInv DEF InitLog, IInv, TypeOK, InFile
<1>2. CASE InitLogFails \/ Kill
  BY <1>2, QuietIInv DEF InitLogFails, Kill, IInv, TypeOK, InFile
<1>3. ASSUME NEW t \in Threads, NEW size \in Sizes, NEW tag \in Tags,
             FetchAdd(t, size, tag)
      PROVE  IInv'
  BY <1>3, FetchAddIInv
<1>4. ASSUME NEW t \in Threads, Construct(t) PROVE IInv'
  BY <1>4, ConstructIInv
<1>5. ASSUME NEW t \in Threads, BufferFull(t) PROVE IInv'
  BY <1>5, QuietIInv DEF BufferFull, IInv, TypeOK, InFile
<1>6. CASE UNCHANGED vars
  BY <1>6, QuietIInv DEF vars, IInv, TypeOK, InFile
<1> QED
  BY <1>1, <1>2, <1>3, <1>4, <1>5, <1>6 DEF Next

(* Every state of the buffer satisfies the inductive invariant.            *)
LEMMA InvariantHolds == Spec => []IInv
  BY InitIInv, NextIInv, PTL DEF Spec

----------------------------------------------------------------------------

(* The variables keep their types.                                         *)
THEOREM TypeCorrect == Spec => []TypeOK
<1>1. IInv => TypeOK
  BY DEF IInv
<1> QED
  BY <1>1, InvariantHolds, PTL

(* No two threads are ever given overlapping room in the file.             *)
THEOREM FramesStayApart == Spec => []FramesApart
<1>1. IInv => FramesApart
  BY DEF IInv
<1> QED
  BY <1>1, InvariantHolds, PTL

(* The frames and claims fill the file without a gap.                      *)
THEOREM FileHasNoGaps == Spec => []NoGaps
<1>1. IInv => NoGaps
  BY DEF IInv
<1> QED
  BY <1>1, InvariantHolds, PTL

(* Only one frame can ever reach past the end of the mapping.              *)
THEOREM OneOverrun == Spec => []OneOverrunAtMost
<1>1. IInv => OneOverrunAtMost
  <2> SUFFICES ASSUME IInv, NEW f \in frames, NEW g \in frames,
                      End(f) > Capacity, End(g) > Capacity, f # g
               PROVE  FALSE
    BY DEF OneOverrunAtMost
  <2>1. f \in Frame /\ g \in Frame /\ ~Full(f) /\ ~Full(g)
    BY DEF IInv, TypeOK, InFile
  <2>2. End(f) <= g.off \/ End(g) <= f.off
    BY DEF IInv, FramesApart, Apart
  <2> QED
    BY <2>1, <2>2 DEF Frame, Full, End, HeaderWords
<1> QED
  BY <1>1, InvariantHolds, PTL

(* A frame a reader can reach stays reachable: new room is always taken    *)
(* after every finished frame.                                             *)
THEOREM ReachableFramesStay == Spec => ReachableGrows
<1>1. ASSUME IInv, [Next]_vars PROVE [Reachable \subseteq Reachable']_vars
  <2> SUFFICES ASSUME Next, NEW f \in Reachable PROVE f \in Reachable'
    BY <1>1
  <2> USE <1>1
  <2>1. f \in frames /\ f \in Frame
    BY DEF Reachable, IInv, TypeOK
  <2>2. ASSUME UNCHANGED <<claim, frames>> PROVE f \in Reachable'
    BY <2>2 DEF Reachable, ClaimedBy
  <2>3. CASE InitLog \/ InitLogFails \/ Kill \/ \E t \in Threads : BufferFull(t)
    BY <2>3, <2>2 DEF InitLog, InitLogFails, Kill, BufferFull
  <2>4. ASSUME NEW t \in Threads, NEW size \in Sizes, NEW tag \in Tags,
               FetchAdd(t, size, tag)
        PROVE  f \in Reachable'
    <3>1. claim'[t].off = content_length /\ frames' = frames
          /\ \A u \in Threads \ {t} : claim'[u] = claim[u]
      <4>1. TypeOK
        BY DEF IInv
      <4>2. claim'[t] = [off |-> content_length, size |-> size, tag |-> tag]
            /\ \A u \in Threads \ {t} : claim'[u] = claim[u]
        BY <2>4, <4>1, FetchAddClaims
      <4> QED
        BY <2>4, <4>2 DEF FetchAdd
    <3>2. f.off < content_length
      <4>1. End(f) <= content_length
        BY <2>1 DEF IInv, InFile
      <4> QED
        BY <4>1, <2>1 DEF End, Frame, HeaderWords, IInv, TypeOK
    <3> QED
      BY <2>1, <3>1, <3>2 DEF Reachable, ClaimedBy
  <2>5. ASSUME NEW t \in Threads, Construct(t) PROVE f \in Reachable'
    <3>1. /\ frames \subseteq frames'
          /\ \A u \in Threads : ClaimedBy(u)' => ClaimedBy(u) /\ claim'[u] = claim[u]
      BY <2>5 DEF Construct, IInv, TypeOK, ClaimedBy
    <3> QED
      BY <2>1, <3>1 DEF Reachable
  <2> QED
    BY <2>3, <2>4, <2>5 DEF Next
<1> QED
  BY <1>1, InvariantHolds, PTL DEF Spec, ReachableGrows

============================================================================
