-------------------------- MODULE ThreadLocalProofs --------------------------
(***************************************************************************)
(* Proofs about ThreadLocal, for any threads, objects and size of a stack: *)
(* types, an iteration that nobody disturbs, and objects with one owner.   *)
(***************************************************************************)
EXTENDS ThreadLocal, FiniteSetTheorems, SequenceTheorems, TLAPS

Ops == {"get", "put", "use", "back", "pop_back", "emplace_back"}
Finding == {"find", "found", "make", "made"}
Points == Ops \cup Finding \cup {"iterate", "next"}

Bottom(t) == calls[t][Len(calls[t])]

(* What a call may be in the middle of: something it does with a value,    *)
(* what it has to find the value for, or an iteration, perhaps with a      *)
(* callback that finds its thread's value.                                 *)
CallOK(t) ==
  /\ calls[t] \in Seq(Points)
  /\ Len(calls[t]) <= 3
  /\ Len(calls[t]) = 1 => calls[t][1] \in Ops \cup {"iterate", "next"}
  /\ Len(calls[t]) = 2 => \/ calls[t][1] \in Finding /\ calls[t][2] \in Ops
                          \/ calls[t][1] = "use" /\ calls[t][2] = "next"
  /\ Len(calls[t]) = 3 => /\ calls[t][1] \in Finding
                          /\ calls[t][2] = "use" /\ calls[t][3] = "next"

Types ==
  /\ sharing \in [Ids -> Nat]
  /\ writer \in Ids \cup {None}
  /\ map \in [Ids -> Seq(Objects \cup {None}) \cup {None}]
  /\ calls \in [Ids -> Seq(Points)] /\ \A t \in Ids : CallOK(t)
  /\ visited \in [Ids -> SUBSET Ids]
  /\ hand \in [Ids -> SUBSET Objects]

(* A thread holds the mutex in shared mode while it looks for its value    *)
(* and while it iterates, and exclusively while it makes its value.        *)
Busy(t) == Len(calls[t]) > 0
Making(t) == Busy(t) /\ calls[t][1] = "made"
LooksUp(t) == IF Busy(t) /\ calls[t][1] = "found" THEN 1 ELSE 0
Iterates(t) == IF Busy(t) /\ Bottom(t) = "next" THEN 1 ELSE 0

LockHeld ==
  /\ \A t \in Ids : sharing[t] = LooksUp(t) + Iterates(t)
  /\ \A t \in Ids : Making(t) <=> writer = t
  /\ writer # None => \A t \in Ids : sharing[t] = 0

(* What a thread knows of its stack in the middle of a call.  Only the     *)
(* uppermost element is ever empty, and only until it is popped.           *)
StackOK(t) ==
  /\ map[t] # None =>
       /\ Len(map[t]) <= MaxSize
       /\ \A i \in 1 .. Len(map[t]) :
            map[t][i] \in Objects
              \/ (i = Len(map[t]) /\ Busy(t) /\ Bottom(t) = "pop_back")
  /\ Busy(t) =>
       /\ calls[t][1] \in Ops => map[t] # None
       /\ Bottom(t) \in {"back", "pop_back", "emplace_back"} => map[t] # None
       /\ Bottom(t) = "back" => Len(map[t]) > 0
       /\ Bottom(t) = "pop_back" => Len(map[t]) > 0 /\ map[t][Len(map[t])] = None
       /\ Bottom(t) = "emplace_back" => Len(map[t]) < MaxSize

StacksOK == \A t \in Ids : StackOK(t)

(* An object is in one hand, or at one place of one stack.                 *)
Lies(t, i, o) == map[t] # None /\ i \in 1 .. Len(map[t]) /\ map[t][i] = o

OnePlace ==
  \A o \in Objects :
    /\ \/ \E t \in Ids : o \in hand[t]
       \/ \E t \in Ids, i \in Nat : Lies(t, i, o)
    /\ \A t, u \in Ids : o \in hand[t] /\ o \in hand[u] => t = u
    /\ \A t, u \in Ids, i \in Nat : ~(o \in hand[t] /\ Lies(u, i, o))
    /\ \A t, u \in Ids, i, j \in Nat :
         Lies(t, i, o) /\ Lies(u, j, o) => t = u /\ i = j

IInv == Types /\ LockHeld /\ StacksOK /\ OnePlace

-----------------------------------------------------------------------------
(* A step of t only touches the call that t is in.                         *)
OnlyCall(t) ==
  /\ calls' \in [Ids -> Seq(Points)]
  /\ \A u \in Ids : u # t => calls'[u] = calls[u]

(* What GoTo does to the stack of points: the innermost one is replaced.   *)
LEMMA Replaced ==
  ASSUME NEW t \in Ids, calls \in [Ids -> Seq(Points)], calls[t] # <<>>,
         NEW points \in Seq(Points), GoTo(t, points)
  PROVE  /\ OnlyCall(t)
         /\ Len(calls'[t]) = Len(points) + Len(calls[t]) - 1
         /\ \A i \in 1 .. Len(points) : calls'[t][i] = points[i]
         /\ \A i \in 2 .. Len(calls[t]) : calls'[t][Len(points) + i - 1] = calls[t][i]
<1> DEFINE tail == Tail(calls[t])
<1>1. calls[t] \in Seq(Points)
  OBVIOUS
<1>2. /\ tail \in Seq(Points) /\ Len(tail) = Len(calls[t]) - 1
      /\ \A i \in 1 .. Len(tail) : tail[i] = calls[t][i + 1]
  BY <1>1
<1>3. calls' = [calls EXCEPT ![t] = points \o tail]
  BY DEF GoTo
<1> HIDE DEF tail
<1> DEFINE new == points \o tail
<1>4. /\ new \in Seq(Points) /\ Len(new) = Len(points) + Len(tail)
      /\ \A i \in 1 .. Len(points) : new[i] = points[i]
      /\ \A i \in 1 .. Len(tail) : new[Len(points) + i] = tail[i]
  <2>1. /\ new \in Seq(Points) /\ Len(new) = Len(points) + Len(tail)
        /\ \A i \in 1 .. Len(points) + Len(tail) :
             new[i] = IF i <= Len(points) THEN points[i] ELSE tail[i - Len(points)]
    BY <1>2, ConcatProperties
  <2>2. Len(points) \in Nat /\ Len(tail) \in Nat
    BY <1>2
  <2> QED
    BY <2>1, <2>2
<1>5. calls'[t] = new
  BY <1>3
<1>6. calls' \in [Ids -> Seq(Points)] /\ \A u \in Ids : u # t => calls'[u] = calls[u]
  BY <1>3, <1>4
<1> HIDE DEF new
<1>7. ASSUME NEW i \in 2 .. Len(calls[t])
      PROVE  calls'[t][Len(points) + i - 1] = calls[t][i]
  <2>1. i - 1 \in 1 .. Len(tail) /\ Len(points) + (i - 1) = Len(points) + i - 1
    BY <1>1, <1>2
  <2>2. new[Len(points) + (i - 1)] = tail[i - 1] /\ tail[i - 1] = calls[t][i]
    BY <2>1, <1>2, <1>4
  <2> QED
    BY <2>1, <2>2, <1>5
<1> QED
  BY <1>2, <1>4, <1>5, <1>6, <1>7 DEF OnlyCall

-----------------------------------------------------------------------------
(* The innermost point is replaced by one, ...                             *)
LEMMA GoesOn ==
  ASSUME NEW t \in Ids, Types, calls[t] # <<>>, NEW a \in Points, GoTo(t, <<a>>)
  PROVE  /\ OnlyCall(t)
         /\ Len(calls'[t]) = Len(calls[t]) /\ calls'[t][1] = a
         /\ \A i \in 2 .. Len(calls[t]) : calls'[t][i] = calls[t][i]
<1> DEFINE p == <<a>>
<1>1. p \in Seq(Points) /\ Len(p) = 1 /\ p[1] = a
  BY DEF Points, Ops, Finding
<1>2. PICK points : points = p
  OBVIOUS
<1>3. /\ points \in Seq(Points) /\ Len(points) = 1 /\ points[1] = a
      /\ GoTo(t, points)
      /\ calls \in [Ids -> Seq(Points)] /\ calls[t] \in Seq(Points)
  BY <1>1, <1>2 DEF Types
<1> HIDE DEF p
<1>4. /\ OnlyCall(t)
      /\ Len(calls'[t]) = Len(points) + Len(calls[t]) - 1
      /\ \A i \in 1 .. Len(points) : calls'[t][i] = points[i]
      /\ \A i \in 2 .. Len(calls[t]) : calls'[t][Len(points) + i - 1] = calls[t][i]
  BY <1>3, Replaced DEF OnlyCall
<1>5. Len(calls[t]) \in Nat
  BY <1>3
<1> QED
  BY <1>3, <1>4, <1>5

(* ... it is done, ...                                                     *)
LEMMA Returns ==
  ASSUME NEW t \in Ids, Types, calls[t] # <<>>, GoTo(t, <<>>)
  PROVE  /\ OnlyCall(t)
         /\ Len(calls'[t]) = Len(calls[t]) - 1
         /\ \A i \in 2 .. Len(calls[t]) : calls'[t][i - 1] = calls[t][i]
<1> DEFINE p == << >>
<1>1. p \in Seq(Points) /\ Len(p) = 0
  BY DEF Points, Ops, Finding
<1>2. PICK points : points = p
  OBVIOUS
<1>3. /\ points \in Seq(Points) /\ Len(points) = 0
      /\ GoTo(t, points)
      /\ calls \in [Ids -> Seq(Points)] /\ calls[t] \in Seq(Points)
  BY <1>1, <1>2 DEF Types
<1> HIDE DEF p
<1>4. /\ OnlyCall(t)
      /\ Len(calls'[t]) = Len(points) + Len(calls[t]) - 1
      /\ \A i \in 1 .. Len(points) : calls'[t][i] = points[i]
      /\ \A i \in 2 .. Len(calls[t]) : calls'[t][Len(points) + i - 1] = calls[t][i]
  BY <1>3, Replaced DEF OnlyCall
<1>5. Len(calls[t]) \in Nat
  BY <1>3
<1> QED
  BY <1>3, <1>4, <1>5

(* ... something of the value is needed first, ...                         *)
LEMMA FindsFirst ==
  ASSUME NEW t \in Ids, Types, calls[t] # <<>>,
         NEW a \in Points, NEW b \in Points, GoTo(t, <<a, b>>)
  PROVE  /\ OnlyCall(t)
         /\ Len(calls'[t]) = Len(calls[t]) + 1
         /\ calls'[t][1] = a /\ calls'[t][2] = b
<1> DEFINE p == <<a, b>>
<1>1. p \in Seq(Points) /\ Len(p) = 2 /\ p[1] = a /\ p[2] = b
  BY DEF Points, Ops, Finding
<1>2. PICK points : points = p
  OBVIOUS
<1>3. /\ points \in Seq(Points) /\ Len(points) = 2 /\ points[1] = a /\ points[2] = b
      /\ GoTo(t, points)
      /\ calls \in [Ids -> Seq(Points)] /\ calls[t] \in Seq(Points)
  BY <1>1, <1>2 DEF Types
<1> HIDE DEF p
<1>4. /\ OnlyCall(t)
      /\ Len(calls'[t]) = Len(points) + Len(calls[t]) - 1
      /\ \A i \in 1 .. Len(points) : calls'[t][i] = points[i]
      /\ \A i \in 2 .. Len(calls[t]) : calls'[t][Len(points) + i - 1] = calls[t][i]
  BY <1>3, Replaced DEF OnlyCall
<1>5. Len(calls[t]) \in Nat
  BY <1>3
<1> QED
  BY <1>3, <1>4, <1>5

(* ... or a callback calls the container.                                  *)
LEMMA CallsBack ==
  ASSUME NEW t \in Ids, Types, calls[t] # <<>>, GoTo(t, <<"find", "use", "next">>)
  PROVE  /\ OnlyCall(t)
         /\ Len(calls'[t]) = Len(calls[t]) + 2
         /\ calls'[t][1] = "find" /\ calls'[t][2] = "use" /\ calls'[t][3] = "next"
<1> DEFINE p == <<"find", "use", "next">>
<1>1. p \in Seq(Points) /\ Len(p) = 3 /\ p[1] = "find" /\ p[2] = "use" /\ p[3] = "next"
  BY DEF Points, Ops, Finding
<1>2. PICK points : points = p
  OBVIOUS
<1>3. /\ points \in Seq(Points) /\ Len(points) = 3
      /\ points[1] = "find" /\ points[2] = "use" /\ points[3] = "next"
      /\ GoTo(t, points)
      /\ calls \in [Ids -> Seq(Points)] /\ calls[t] \in Seq(Points)
  BY <1>1, <1>2 DEF Types
<1> HIDE DEF p
<1>4. /\ OnlyCall(t)
      /\ Len(calls'[t]) = Len(points) + Len(calls[t]) - 1
      /\ \A i \in 1 .. Len(points) : calls'[t][i] = points[i]
      /\ \A i \in 2 .. Len(calls[t]) : calls'[t][Len(points) + i - 1] = calls[t][i]
  BY <1>3, Replaced DEF OnlyCall
<1>5. Len(calls[t]) \in Nat
  BY <1>3
<1> QED
  BY <1>3, <1>4, <1>5

(* Where a thread is.                                                      *)
LEMMA AtPoint ==
  ASSUME IInv, NEW t \in Ids, NEW point, At(t, point)
  PROVE  /\ Types /\ calls[t] # <<>> /\ Busy(t) /\ calls[t][1] = point
         /\ Len(calls[t]) \in 1 .. 3 /\ CallOK(t) /\ StackOK(t)
<1>1. Types /\ calls[t] \in Seq(Points) /\ calls[t] # <<>> /\ CallOK(t) /\ StackOK(t)
  BY DEF IInv, Types, At, StacksOK
<1>2. Len(calls[t]) \in Nat \ {0}
  BY <1>1, EmptySeq
<1>3. Len(calls[t]) <= 3
  BY <1>1 DEF CallOK
<1>4. calls[t][1] = point
  BY <1>1 DEF At
<1>5. Len(calls[t]) \in 1 .. 3
  <2>1. PICK n : n = Len(calls[t])
    OBVIOUS
  <2>2. n \in Nat /\ n # 0
    BY <1>2, <2>1
  <2>3. n <= 3
    BY <1>3, <2>1
  <2>4. n \in 1 .. 3
    BY <2>2, <2>3
  <2> QED
    BY <2>1, <2>4
<1>6. Busy(t)
  BY <1>2 DEF Busy
<1> QED
  BY <1>1, <1>4, <1>5, <1>6

(* What a step of a thread does not change in the calls of others.         *)
LEMMA OtherThreads ==
  ASSUME IInv, NEW t \in Ids, OnlyCall(t), NEW u \in Ids, u # t, map'[u] = map[u]
  PROVE  /\ CallOK(u)' /\ (Making(u)' <=> Making(u)) /\ StackOK(u)'
         /\ LooksUp(u)' = LooksUp(u) /\ Iterates(u)' = Iterates(u)
<1>1. calls'[u] = calls[u] /\ CallOK(u) /\ StackOK(u)
  BY DEF OnlyCall, IInv, Types, StacksOK
<1> QED
  BY <1>1 DEF CallOK, Making, StackOK, LooksUp, Iterates, Busy, Bottom

(* A step of t keeps the invariant if t knows what it does: the mutex is   *)
(* shared as often as t looks up or iterates, and not under a writer, and  *)
(* what t says of its own stack is right.                                  *)
LEMMA Advances ==
  ASSUME IInv, NEW t \in Ids,
         OnlyCall(t), CallOK(t)',
         sharing' \in [Ids -> Nat], sharing'[t] = LooksUp(t)' + Iterates(t)',
         \A u \in Ids : u # t => sharing'[u] = sharing[u],
         writer' = writer, (Making(t)' <=> Making(t)),
         writer = None \/ LooksUp(t)' + Iterates(t)' = 0,
         map' \in [Ids -> Seq(Objects \cup {None}) \cup {None}],
         \A u \in Ids : u # t => map'[u] = map[u],
         StackOK(t)',
         visited' \in [Ids -> SUBSET Ids], hand' \in [Ids -> SUBSET Objects]
  PROVE  Types' /\ LockHeld' /\ StacksOK'
<1>1. ASSUME NEW u \in Ids, u # t
      PROVE  /\ CallOK(u)' /\ (Making(u)' <=> Making(u)) /\ StackOK(u)'
             /\ LooksUp(u)' = LooksUp(u) /\ Iterates(u)' = Iterates(u)
  BY <1>1, OtherThreads
<1>2. /\ \A u \in Ids : sharing[u] = LooksUp(u) + Iterates(u)
      /\ \A u \in Ids : Making(u) <=> writer = u
      /\ writer # None => \A u \in Ids : sharing[u] = 0
      /\ sharing \in [Ids -> Nat] /\ writer \in Ids \cup {None}
  BY DEF IInv, Types, LockHeld
<1>3. LooksUp(t)' + Iterates(t)' \in Nat
  BY DEF LooksUp, Iterates
<1>4. Types'
  BY <1>1, <1>2, <1>3 DEF Types, OnlyCall
<1>5. LockHeld'
  BY <1>1, <1>2, <1>3 DEF LockHeld
<1>6. StacksOK'
  BY <1>1 DEF StacksOK
<1> QED
  BY <1>4, <1>5, <1>6

(* A thread that looks for its value does so for something.                *)
LEMMA AtFinding ==
  ASSUME IInv, NEW t \in Ids, NEW point \in Finding, At(t, point)
  PROVE  \/ Len(calls[t]) = 2 /\ calls[t][2] \in Ops
         \/ Len(calls[t]) = 3 /\ calls[t][2] = "use" /\ calls[t][3] = "next"
<1>1. /\ calls[t][1] = point /\ Len(calls[t]) \in 1 .. 3 /\ CallOK(t)
  BY AtPoint
<1>2. Len(calls[t]) # 1
  BY <1>1 DEF CallOK, Finding, Ops
<1> QED
  BY <1>1, <1>2 DEF CallOK, Finding, Ops

(* It goes on looking.                                                     *)
LEMMA StillFinding ==
  ASSUME IInv, NEW t \in Ids, NEW point \in Finding, At(t, point),
         NEW a \in Finding, GoTo(t, <<a>>)
  PROVE  /\ OnlyCall(t) /\ CallOK(t)' /\ Busy(t)' /\ calls'[t][1] = a
         /\ Bottom(t)' = Bottom(t) /\ Iterates(t)' = Iterates(t)
<1>1. /\ Types /\ calls[t] # <<>> /\ Busy(t) /\ CallOK(t) /\ a \in Points
  BY AtPoint DEF Points
<1>2. /\ OnlyCall(t)
      /\ Len(calls'[t]) = Len(calls[t]) /\ calls'[t][1] = a
      /\ \A i \in 2 .. Len(calls[t]) : calls'[t][i] = calls[t][i]
  BY <1>1, GoesOn
<1>3. CASE Len(calls[t]) = 2 /\ calls[t][2] \in Ops
  <2>1. Len(calls'[t]) = 2 /\ calls'[t][2] = calls[t][2] /\ calls'[t] \in Seq(Points)
    BY <1>2, <1>3 DEF OnlyCall
  <2>2. CallOK(t)'
    BY <1>2, <1>3, <2>1 DEF CallOK
  <2> QED
    BY <1>1, <1>2, <1>3, <2>1, <2>2 DEF Busy, Bottom, Iterates
<1>4. CASE Len(calls[t]) = 3 /\ calls[t][2] = "use" /\ calls[t][3] = "next"
  <2>1. /\ Len(calls'[t]) = 3 /\ calls'[t][2] = calls[t][2] /\ calls'[t][3] = calls[t][3]
        /\ calls'[t] \in Seq(Points)
    BY <1>2, <1>4 DEF OnlyCall
  <2>2. CallOK(t)'
    BY <1>2, <1>4, <2>1 DEF CallOK
  <2> QED
    BY <1>1, <1>2, <1>4, <2>1, <2>2 DEF Busy, Bottom, Iterates
<1> QED
  BY <1>3, <1>4, AtFinding

(* It has found it.                                                        *)
LEMMA DoneFinding ==
  ASSUME IInv, NEW t \in Ids, NEW point \in Finding, At(t, point), GoTo(t, <<>>)
  PROVE  /\ OnlyCall(t) /\ CallOK(t)' /\ Busy(t)' /\ calls'[t][1] \in Ops
         /\ Bottom(t)' = Bottom(t) /\ Iterates(t)' = Iterates(t)
<1>1. /\ Types /\ calls[t] # <<>> /\ Busy(t) /\ CallOK(t)
  BY AtPoint
<1>2. /\ OnlyCall(t)
      /\ Len(calls'[t]) = Len(calls[t]) - 1
      /\ \A i \in 2 .. Len(calls[t]) : calls'[t][i - 1] = calls[t][i]
  BY <1>1, Returns
<1>3. CASE Len(calls[t]) = 2 /\ calls[t][2] \in Ops
  <2>1. Len(calls'[t]) = 1 /\ calls'[t][1] = calls[t][2] /\ calls'[t] \in Seq(Points)
    <3>1. 2 \in 2 .. Len(calls[t]) /\ 2 - 1 = 1
      BY <1>3
    <3> QED
      BY <1>2, <1>3, <3>1 DEF OnlyCall
  <2>2. CallOK(t)'
    BY <1>3, <2>1 DEF CallOK
  <2> QED
    BY <1>1, <1>2, <1>3, <2>1, <2>2 DEF Busy, Bottom, Iterates
<1>4. CASE Len(calls[t]) = 3 /\ calls[t][2] = "use" /\ calls[t][3] = "next"
  <2>1. /\ Len(calls'[t]) = 2 /\ calls'[t][1] = "use" /\ calls'[t][2] = "next"
        /\ calls'[t] \in Seq(Points)
    <3>1. {2, 3} \subseteq 2 .. Len(calls[t]) /\ 2 - 1 = 1 /\ 3 - 1 = 2
      BY <1>4
    <3> QED
      BY <1>2, <1>4, <3>1 DEF OnlyCall
  <2>2. CallOK(t)'
    BY <2>1 DEF CallOK
  <2> QED
    BY <1>1, <1>2, <1>4, <2>1, <2>2 DEF Busy, Bottom, Iterates, Ops
<1> QED
  BY <1>3, <1>4, AtFinding

(* What a thread does after it has found its value, or besides, comes last *)
(* on its stack of points, but for the use of a value by a callback.       *)
LEMMA AtLast ==
  ASSUME IInv, NEW t \in Ids, NEW point \in (Ops \ {"use"}) \cup {"iterate", "next"},
         At(t, point)
  PROVE  /\ Types /\ calls[t] # <<>> /\ Busy(t) /\ Len(calls[t]) = 1
         /\ calls[t][1] = point /\ Bottom(t) = point /\ StackOK(t)
         /\ ~Making(t) /\ LooksUp(t) = 0 /\ Iterates(t) = IF point = "next" THEN 1 ELSE 0
<1>1. /\ Types /\ calls[t] # <<>> /\ Busy(t) /\ calls[t][1] = point /\ StackOK(t)
      /\ Len(calls[t]) \in 1 .. 3 /\ CallOK(t)
  BY AtPoint
<1>2. Len(calls[t]) = 1
  BY <1>1 DEF CallOK, Finding, Ops
<1>3. Bottom(t) = point
  BY <1>1, <1>2 DEF Bottom
<1> QED
  BY <1>1, <1>2, <1>3 DEF Making, LooksUp, Iterates, Ops

(* The call returns.                                                       *)
LEMMA Ends ==
  ASSUME IInv, NEW t \in Ids, NEW point \in (Ops \ {"use"}) \cup {"iterate", "next"},
         At(t, point), GoTo(t, <<>>)
  PROVE  /\ OnlyCall(t) /\ CallOK(t)' /\ ~Busy(t)' /\ ~Making(t)'
         /\ LooksUp(t)' = 0 /\ Iterates(t)' = 0
<1>1. OnlyCall(t) /\ Len(calls'[t]) = 0
  <2>1. Types /\ calls[t] # <<>> /\ Len(calls[t]) = 1
    BY AtLast
  <2>2. OnlyCall(t) /\ Len(calls'[t]) = Len(calls[t]) - 1
    BY <2>1, Returns
  <2> QED
    BY <2>1, <2>2
<1>2. calls'[t] \in Seq(Points)
  BY <1>1 DEF OnlyCall
<1> QED
  BY <1>1, <1>2 DEF CallOK, Busy, Making, LooksUp, Iterates

(* The call looks its value up again, to do something else with it.        *)
LEMMA FindsAgain ==
  ASSUME IInv, NEW t \in Ids, NEW point \in Ops \ {"use"}, At(t, point),
         NEW op \in Ops, GoTo(t, <<"find", op>>)
  PROVE  /\ OnlyCall(t) /\ CallOK(t)' /\ Busy(t)' /\ ~Making(t)'
         /\ calls'[t][1] = "find" /\ Bottom(t)' = op
         /\ LooksUp(t)' = 0 /\ Iterates(t)' = 0
<1>1. "find" \in Points /\ op \in Points
  BY DEF Points, Finding
<1>2. /\ OnlyCall(t) /\ Len(calls'[t]) = 2 /\ calls'[t][1] = "find" /\ calls'[t][2] = op
  <2>1. Types /\ calls[t] # <<>> /\ Len(calls[t]) = 1
    BY AtLast
  <2>2. /\ OnlyCall(t) /\ Len(calls'[t]) = Len(calls[t]) + 1
        /\ calls'[t][1] = "find" /\ calls'[t][2] = op
    BY <1>1, <2>1, FindsFirst
  <2> QED
    BY <2>1, <2>2
<1>3. calls'[t] \in Seq(Points)
  BY <1>2 DEF OnlyCall
<1>4. CallOK(t)'
  BY <1>2, <1>3 DEF CallOK, Finding
<1>5. Busy(t)' /\ Bottom(t)' = op
  BY <1>2 DEF Busy, Bottom
<1> QED
  BY <1>2, <1>4, <1>5 DEF Making, LooksUp, Iterates, Ops

-----------------------------------------------------------------------------
(* One lemma per step: the step and the invariant, but for OnePlace.       *)

(* The value is looked up under the shared lock, ...                       *)
LEMMA FindLockStep ==
  ASSUME IInv, NEW t \in Ids, FindLock(t)
  PROVE  Types' /\ LockHeld' /\ StacksOK'
<1>1. /\ At(t, "find") /\ GoTo(t, <<"found">>) /\ {"find", "found"} \subseteq Finding
      /\ Types /\ Busy(t) /\ calls[t][1] = "find" /\ StackOK(t)
  BY AtPoint DEF FindLock, Finding
<1>2. /\ OnlyCall(t) /\ CallOK(t)' /\ Busy(t)' /\ calls'[t][1] = "found"
      /\ Bottom(t)' = Bottom(t) /\ Iterates(t)' = Iterates(t)
  BY <1>1, StillFinding
<1>3. LooksUp(t) = 0 /\ LooksUp(t)' = 1 /\ ~Making(t) /\ ~Making(t)' /\ Iterates(t) \in Nat
  BY <1>1, <1>2 DEF LooksUp, Making, Iterates
<1>4. StackOK(t)'
  BY <1>1, <1>2 DEF FindLock, StackOK, Ops
<1>5. /\ sharing[t] = LooksUp(t) + Iterates(t) /\ sharing \in [Ids -> Nat]
      /\ sharing' = [sharing EXCEPT ![t] = @ + 1] /\ writer = None
  BY DEF IInv, Types, LockHeld, FindLock, Share
<1>6. /\ sharing' \in [Ids -> Nat] /\ sharing'[t] = LooksUp(t)' + Iterates(t)'
      /\ \A u \in Ids : u # t => sharing'[u] = sharing[u]
  BY <1>2, <1>3, <1>5
<1>7. /\ map' = map /\ writer' = writer /\ (Making(t)' <=> Making(t)) /\ writer = None
      /\ map \in [Ids -> Seq(Objects \cup {None}) \cup {None}]
      /\ visited' \in [Ids -> SUBSET Ids] /\ hand' \in [Ids -> SUBSET Objects]
  BY <1>1, <1>3, <1>5, <1>6 DEF FindLock, Types
<1> QED
  BY <1>2, <1>4, <1>6, <1>7, Advances

(* ... and found, or has to be made ...                                    *)
LEMMA FindStep ==
  ASSUME IInv, NEW t \in Ids, Find(t)
  PROVE  Types' /\ LockHeld' /\ StacksOK'
<1>1. /\ At(t, "found") /\ {"found", "make"} \subseteq Finding
      /\ Types /\ Busy(t) /\ calls[t][1] = "found" /\ StackOK(t)
  BY AtPoint DEF Find, Finding
<1>2. /\ OnlyCall(t) /\ CallOK(t)' /\ Busy(t)'
      /\ calls'[t][1] \in Ops \cup {"make"} /\ (calls'[t][1] \in Ops => map[t] # None)
      /\ Bottom(t)' = Bottom(t) /\ Iterates(t)' = Iterates(t)
  <2>1. CASE map[t] # None
    <3>1. GoTo(t, <<>>)
      BY <2>1 DEF Find
    <3> QED
      BY <1>1, <2>1, <3>1, DoneFinding
  <2>2. CASE map[t] = None
    <3>1. GoTo(t, <<"make">>)
      BY <2>2 DEF Find
    <3> QED
      BY <1>1, <3>1, StillFinding DEF Ops
  <2> QED
    BY <2>1, <2>2
<1>3. LooksUp(t) = 1 /\ LooksUp(t)' = 0 /\ ~Making(t) /\ ~Making(t)' /\ Iterates(t) \in Nat
  BY <1>1, <1>2 DEF LooksUp, Making, Iterates, Ops
<1>4. StackOK(t)'
  BY <1>1, <1>2 DEF Find, StackOK
<1>5. /\ sharing[t] = LooksUp(t) + Iterates(t) /\ sharing \in [Ids -> Nat]
      /\ sharing' = [sharing EXCEPT ![t] = @ - 1] /\ (writer # None => sharing[t] = 0)
  BY DEF IInv, Types, LockHeld, Find, Unshare
<1>6. /\ sharing' \in [Ids -> Nat] /\ sharing'[t] = LooksUp(t)' + Iterates(t)'
      /\ \A u \in Ids : u # t => sharing'[u] = sharing[u]
      /\ writer = None
  BY <1>2, <1>3, <1>5
<1>7. /\ map' = map /\ writer' = writer /\ (Making(t)' <=> Making(t)) /\ writer = None
      /\ map \in [Ids -> Seq(Objects \cup {None}) \cup {None}]
      /\ visited' \in [Ids -> SUBSET Ids] /\ hand' \in [Ids -> SUBSET Objects]
  BY <1>1, <1>3, <1>6 DEF Find, Types
<1> QED
  BY <1>2, <1>4, <1>6, <1>7, Advances

(* ... under the mutex, which is locked when nobody looks up or iterates.  *)
LEMMA MakeLockStep ==
  ASSUME IInv, NEW t \in Ids, MakeLock(t)
  PROVE  Types' /\ LockHeld' /\ StacksOK'
<1>1. /\ At(t, "make") /\ GoTo(t, <<"made">>) /\ {"make", "made"} \subseteq Finding
      /\ Types /\ Busy(t) /\ calls[t][1] = "make" /\ StackOK(t)
  BY AtPoint DEF MakeLock, Finding
<1>2. /\ OnlyCall(t) /\ CallOK(t)' /\ Busy(t)' /\ calls'[t][1] = "made"
      /\ Bottom(t)' = Bottom(t) /\ Iterates(t)' = Iterates(t)
  BY <1>1, StillFinding
<1>3. LooksUp(t) = 0 /\ LooksUp(t)' = 0 /\ Making(t)'
  BY <1>1, <1>2 DEF LooksUp, Making
<1>4. StackOK(t)'
  BY <1>1, <1>2 DEF MakeLock, StackOK, Ops
<1>5. ASSUME NEW u \in Ids, u # t
      PROVE  /\ CallOK(u)' /\ (Making(u)' <=> Making(u)) /\ StackOK(u)'
             /\ LooksUp(u)' = LooksUp(u) /\ Iterates(u)' = Iterates(u)
  BY <1>2, <1>5, OtherThreads DEF MakeLock
<1>6. /\ \A u \in Ids : sharing[u] = LooksUp(u) + Iterates(u)
      /\ \A u \in Ids : Making(u) <=> writer = u
      /\ sharing' = sharing /\ writer = None /\ writer' = t /\ None \notin Ids
      /\ \A u \in Ids : sharing[u] = 0
  BY PoolAssumption DEF IInv, LockHeld, MakeLock, Lock
<1>7. Types'
  BY <1>1, <1>2, <1>5, <1>6 DEF Types, OnlyCall, MakeLock
<1>8. LockHeld'
  BY <1>2, <1>3, <1>5, <1>6 DEF LockHeld
<1>9. StacksOK'
  BY <1>4, <1>5 DEF StacksOK
<1> QED
  BY <1>7, <1>8, <1>9

(* The value is made, or found after all; an empty stack is not None.      *)
LEMMA MakeStep ==
  ASSUME IInv, NEW t \in Ids, MakeValue(t)
  PROVE  Types' /\ LockHeld' /\ StacksOK'
<1>1. /\ At(t, "made") /\ GoTo(t, <<>>) /\ "made" \in Finding
      /\ Types /\ Busy(t) /\ calls[t][1] = "made" /\ StackOK(t)
  BY AtPoint DEF MakeValue, Finding
<1>2. /\ OnlyCall(t) /\ CallOK(t)' /\ Busy(t)' /\ calls'[t][1] \in Ops
      /\ Bottom(t)' = Bottom(t) /\ Iterates(t)' = Iterates(t)
  BY <1>1, DoneFinding
<1>3. LooksUp(t) = 0 /\ LooksUp(t)' = 0 /\ Making(t) /\ ~Making(t)'
  BY <1>1, <1>2 DEF LooksUp, Making, Ops
<1>4. /\ map' \in [Ids -> Seq(Objects \cup {None}) \cup {None}]
      /\ map'[t] = IF map[t] # None THEN map[t] ELSE <<>>
      /\ \A u \in Ids : u # t => map'[u] = map[u]
  BY <1>1, EmptySeq DEF MakeValue, Types
<1>5. StackOK(t)'
  <2>1. CASE map[t] # None
    BY <1>1, <1>2, <1>4, <2>1 DEF StackOK
  <2>2. CASE map[t] = None
    <3>1. <<>> # None
      <4>1. << >> \in [1 .. 0 -> Objects \cup {None}] /\ 0 \in 0 .. MaxSize
        BY PoolAssumption
      <4> QED
        BY PoolAssumption, <4>1
    <3>2. Len(map'[t]) = 0 /\ map'[t] # None /\ 0 <= MaxSize
      BY PoolAssumption, <1>4, <2>2, <3>1
    <3>3. Bottom(t) \notin {"back", "pop_back", "emplace_back"}
      BY <1>1, <2>2 DEF StackOK
    <3> QED
      BY <1>2, <3>2, <3>3 DEF StackOK
  <2> QED
    BY <2>1, <2>2
<1>6. ASSUME NEW u \in Ids, u # t
      PROVE  /\ CallOK(u)' /\ (Making(u)' <=> Making(u)) /\ StackOK(u)'
             /\ LooksUp(u)' = LooksUp(u) /\ Iterates(u)' = Iterates(u)
  BY <1>2, <1>4, <1>6, OtherThreads
<1>7. /\ \A u \in Ids : sharing[u] = LooksUp(u) + Iterates(u)
      /\ \A u \in Ids : Making(u) <=> writer = u
      /\ sharing' = sharing /\ writer = t /\ writer' = None /\ None \notin Ids
  BY PoolAssumption, <1>3 DEF IInv, LockHeld, MakeValue
<1>8. Types'
  BY <1>1, <1>2, <1>4, <1>6, <1>7 DEF Types, OnlyCall, MakeValue
<1>9. LockHeld'
  BY <1>2, <1>3, <1>6, <1>7 DEF LockHeld
<1>10. StacksOK'
  BY <1>5, <1>6 DEF StacksOK
<1> QED
  BY <1>8, <1>9, <1>10

(* The steps of a call that only look at the stack.                        *)
LEMMA GetStep ==
  ASSUME IInv, NEW t \in Ids, Get(t)
  PROVE  Types' /\ LockHeld' /\ StacksOK'
<1>1. /\ At(t, "get") /\ "get" \in Ops \ {"use"} /\ "back" \in Ops
      /\ Types /\ Busy(t) /\ Bottom(t) = "get" /\ calls[t][1] = "get" /\ StackOK(t)
      /\ ~Making(t) /\ LooksUp(t) = 0 /\ Iterates(t) = 0
  BY AtLast DEF Get, Ops
<1>2. /\ OnlyCall(t) /\ CallOK(t)' /\ ~Making(t)' /\ LooksUp(t)' = 0 /\ Iterates(t)' = 0
      /\ \/ ~Busy(t)'
         \/ map[t] # <<>> /\ calls'[t][1] = "find" /\ Bottom(t)' = "back"
  <2>1. CASE map[t] # <<>>
    <3>1. GoTo(t, <<"find", "back">>)
      BY <2>1 DEF Get
    <3> QED
      BY <1>1, <2>1, <3>1, FindsAgain
  <2>2. CASE map[t] = <<>>
    <3>1. GoTo(t, <<>>)
      BY <2>2 DEF Get
    <3> QED
      BY <1>1, <3>1, Ends
  <2> QED
    BY <2>1, <2>2
<1>3. /\ map' = map /\ sharing' = sharing /\ writer' = writer
      /\ map \in [Ids -> Seq(Objects \cup {None}) \cup {None}]
      /\ visited' \in [Ids -> SUBSET Ids] /\ hand' \in [Ids -> SUBSET Objects]
      /\ sharing \in [Ids -> Nat]
      /\ sharing[t] = LooksUp(t) + Iterates(t) /\ (writer # None => sharing[t] = 0)
  BY DEF Get, IInv, Types, LockHeld
<1>4. /\ map[t] # None /\ map[t] \in Seq(Objects \cup {None})
      /\ (map[t] # <<>> => Len(map[t]) > 0)
  <2>1. map[t] # None /\ map[t] \in Seq(Objects \cup {None})
    BY <1>1, <1>3 DEF StackOK
  <2> QED
    BY <2>1, EmptySeq
<1>5. StackOK(t)'
  BY <1>1, <1>2, <1>3, <1>4 DEF StackOK, Ops
<1> QED
  BY <1>1, <1>2, <1>3, <1>5, Advances

(* The stack may be full.                                                  *)
LEMMA PutStep ==
  ASSUME IInv, NEW t \in Ids, Put(t)
  PROVE  Types' /\ LockHeld' /\ StacksOK'
<1>1. /\ At(t, "put") /\ "put" \in Ops \ {"use"} /\ "emplace_back" \in Ops
      /\ Types /\ Busy(t) /\ Bottom(t) = "put" /\ calls[t][1] = "put" /\ StackOK(t)
      /\ ~Making(t) /\ LooksUp(t) = 0 /\ Iterates(t) = 0
  BY AtLast DEF Put, Ops
<1>2. /\ OnlyCall(t) /\ CallOK(t)' /\ ~Making(t)' /\ LooksUp(t)' = 0 /\ Iterates(t)' = 0
      /\ \/ ~Busy(t)'
         \/ /\ Len(map[t]) < MaxSize
            /\ calls'[t][1] = "find" /\ Bottom(t)' = "emplace_back"
  <2>1. CASE Len(map[t]) < MaxSize
    <3>1. GoTo(t, <<"find", "emplace_back">>)
      BY <2>1 DEF Put
    <3> QED
      BY <1>1, <2>1, <3>1, FindsAgain
  <2>2. CASE ~(Len(map[t]) < MaxSize)
    <3>1. GoTo(t, <<>>)
      BY <2>2 DEF Put
    <3> QED
      BY <1>1, <3>1, Ends
  <2> QED
    BY <2>1, <2>2
<1>3. /\ map' = map /\ sharing' = sharing /\ writer' = writer
      /\ map \in [Ids -> Seq(Objects \cup {None}) \cup {None}]
      /\ visited' \in [Ids -> SUBSET Ids] /\ hand' \in [Ids -> SUBSET Objects]
      /\ sharing \in [Ids -> Nat]
      /\ sharing[t] = LooksUp(t) + Iterates(t) /\ (writer # None => sharing[t] = 0)
  BY DEF Put, IInv, Types, LockHeld
<1>4. StackOK(t)'
  BY <1>1, <1>2, <1>3 DEF StackOK, Ops
<1> QED
  BY <1>1, <1>2, <1>3, <1>4, Advances

(* A value is used by a call of its own, or by the callback of an          *)
(* iteration, which goes on.                                               *)
LEMMA UseStep ==
  ASSUME IInv, NEW t \in Ids, Use(t)
  PROVE  Types' /\ LockHeld' /\ StacksOK'
<1>1. /\ Types /\ calls[t] # <<>> /\ Busy(t) /\ calls[t][1] = "use"
      /\ Len(calls[t]) \in 1 .. 3 /\ CallOK(t) /\ StackOK(t)
      /\ GoTo(t, <<>>)
  BY AtPoint DEF Use
<1>2. /\ OnlyCall(t) /\ Len(calls'[t]) = Len(calls[t]) - 1
      /\ \A i \in 2 .. Len(calls[t]) : calls'[t][i - 1] = calls[t][i]
  BY <1>1, Returns
<1>3. calls'[t] \in Seq(Points)
  BY <1>2 DEF OnlyCall
<1>4. /\ CallOK(t)' /\ ~Making(t) /\ ~Making(t)' /\ LooksUp(t) = 0 /\ LooksUp(t)' = 0
      /\ Iterates(t)' = Iterates(t) /\ (Busy(t)' => calls'[t][1] = "next" /\ Bottom(t)' = "next")
  <2>1. CASE Len(calls[t]) = 1
    <3>1. CallOK(t)' /\ ~Busy(t)'
      BY <1>2, <1>3, <2>1 DEF CallOK, Busy
    <3> QED
      BY <1>1, <2>1, <3>1 DEF Making, LooksUp, Iterates, Busy, Bottom
  <2>2. CASE Len(calls[t]) # 1
    <3>1. Len(calls[t]) = 2 /\ calls[t][2] = "next"
      BY <1>1, <2>2 DEF CallOK, Finding
    <3>2. Len(calls'[t]) = 1 /\ calls'[t][1] = "next"
      <4>1. 2 \in 2 .. Len(calls[t]) /\ 2 - 1 = 1
        BY <3>1
      <4> QED
        BY <1>2, <3>1, <4>1
    <3>3. CallOK(t)' /\ Busy(t)' /\ Bottom(t)' = "next" /\ Bottom(t) = "next"
      BY <1>3, <3>1, <3>2 DEF CallOK, Busy, Bottom
    <3> QED
      BY <1>1, <3>1, <3>2, <3>3 DEF Making, LooksUp, Iterates
  <2> QED
    BY <2>1, <2>2
<1>5. /\ map' = map /\ sharing' = sharing /\ writer' = writer
      /\ map \in [Ids -> Seq(Objects \cup {None}) \cup {None}]
      /\ visited' \in [Ids -> SUBSET Ids] /\ hand' \in [Ids -> SUBSET Objects]
      /\ sharing \in [Ids -> Nat]
      /\ sharing[t] = LooksUp(t) + Iterates(t) /\ (writer # None => sharing[t] = 0)
  BY DEF Use, IInv, Types, LockHeld
<1>6. Bottom(t) \notin {"pop_back"}
  <2>1. CASE Len(calls[t]) = 1
    BY <1>1, <2>1 DEF Bottom
  <2>2. CASE Len(calls[t]) # 1
    BY <1>1, <2>2 DEF CallOK, Finding, Bottom
  <2> QED
    BY <2>1, <2>2
<1>7. StackOK(t)'
  BY <1>1, <1>4, <1>5, <1>6 DEF StackOK, Ops
<1> QED
  BY <1>1, <1>2, <1>4, <1>5, <1>7, Advances

(* An iteration begins, ...                                                *)
LEMMA IterateStep ==
  ASSUME IInv, NEW t \in Ids, Iterate(t)
  PROVE  Types' /\ LockHeld' /\ StacksOK'
<1>1. /\ At(t, "iterate") /\ GoTo(t, <<"next">>) /\ "next" \in Points
      /\ Types /\ calls[t] # <<>> /\ Busy(t) /\ Len(calls[t]) = 1
      /\ Bottom(t) = "iterate" /\ StackOK(t)
      /\ ~Making(t) /\ LooksUp(t) = 0 /\ Iterates(t) = 0
  BY AtLast DEF Iterate, Points
<1>2. OnlyCall(t) /\ Len(calls'[t]) = 1 /\ calls'[t][1] = "next"
  BY <1>1, GoesOn
<1>3. calls'[t] \in Seq(Points)
  BY <1>2 DEF OnlyCall
<1>4. /\ CallOK(t)' /\ ~Making(t)' /\ LooksUp(t)' = 0 /\ Iterates(t)' = 1
      /\ Busy(t)' /\ Bottom(t)' = "next"
  BY <1>2, <1>3 DEF CallOK, Busy, Bottom, Making, LooksUp, Iterates
<1>5. /\ map' = map /\ writer' = writer /\ writer = None
      /\ map \in [Ids -> Seq(Objects \cup {None}) \cup {None}]
      /\ visited' \in [Ids -> SUBSET Ids] /\ hand' \in [Ids -> SUBSET Objects]
      /\ sharing \in [Ids -> Nat] /\ sharing' = [sharing EXCEPT ![t] = @ + 1]
      /\ sharing[t] = LooksUp(t) + Iterates(t)
  BY DEF Iterate, Share, IInv, Types, LockHeld
<1>6. /\ sharing' \in [Ids -> Nat] /\ sharing'[t] = LooksUp(t)' + Iterates(t)'
      /\ \A u \in Ids : u # t => sharing'[u] = sharing[u]
  BY <1>1, <1>4, <1>5
<1>7. StackOK(t)'
  BY <1>1, <1>2, <1>4, <1>5 DEF StackOK, Ops
<1> QED
  BY <1>1, <1>2, <1>4, <1>5, <1>6, <1>7, Advances

(* ... visits the values, ...                                              *)
LEMMA VisitStep ==
  ASSUME IInv, NEW t \in Ids, Visit(t)
  PROVE  Types' /\ LockHeld' /\ StacksOK'
<1>1. /\ At(t, "next") /\ "next" \in Points
      /\ Types /\ calls[t] # <<>> /\ Busy(t) /\ Len(calls[t]) = 1
      /\ Bottom(t) = "next" /\ StackOK(t)
      /\ ~Making(t) /\ LooksUp(t) = 0 /\ Iterates(t) = 1
  BY AtLast DEF Visit, Points
<1>2. /\ OnlyCall(t) /\ CallOK(t)' /\ ~Making(t)' /\ LooksUp(t)' = 0 /\ Iterates(t)' = 1
      /\ Busy(t)' /\ Bottom(t)' = "next" /\ calls'[t][1] \in {"next", "find"}
  <2>1. CASE GoTo(t, <<"next">>)
    <3>1. OnlyCall(t) /\ Len(calls'[t]) = 1 /\ calls'[t][1] = "next"
      BY <1>1, <2>1, GoesOn
    <3>2. calls'[t] \in Seq(Points)
      BY <3>1 DEF OnlyCall
    <3> QED
      BY <3>1, <3>2 DEF CallOK, Busy, Bottom, Making, LooksUp, Iterates
  <2>2. CASE GoTo(t, <<"find", "use", "next">>)
    <3>1. /\ OnlyCall(t) /\ Len(calls'[t]) = 3
          /\ calls'[t][1] = "find" /\ calls'[t][2] = "use" /\ calls'[t][3] = "next"
      <4>1. /\ OnlyCall(t) /\ Len(calls'[t]) = Len(calls[t]) + 2
            /\ calls'[t][1] = "find" /\ calls'[t][2] = "use" /\ calls'[t][3] = "next"
        BY <1>1, <2>2, CallsBack
      <4> QED
        BY <1>1, <4>1
    <3>2. calls'[t] \in Seq(Points)
      BY <3>1 DEF OnlyCall
    <3>3. CallOK(t)'
      BY <3>1, <3>2 DEF CallOK, Finding
    <3> QED
      BY <3>1, <3>3 DEF Busy, Bottom, Making, LooksUp, Iterates
  <2> QED
    BY <2>1, <2>2 DEF Visit
<1>3. /\ map' = map /\ sharing' = sharing /\ writer' = writer
      /\ map \in [Ids -> Seq(Objects \cup {None}) \cup {None}]
      /\ visited' \in [Ids -> SUBSET Ids] /\ hand' \in [Ids -> SUBSET Objects]
      /\ sharing \in [Ids -> Nat]
      /\ sharing[t] = LooksUp(t) + Iterates(t) /\ (writer # None => sharing[t] = 0)
  BY DEF Visit, Values, IInv, Types, LockHeld
<1>4. StackOK(t)'
  BY <1>1, <1>2, <1>3 DEF StackOK, Ops
<1> QED
  BY <1>1, <1>2, <1>3, <1>4, Advances

(* ... and ends.                                                           *)
LEMMA IterateEndStep ==
  ASSUME IInv, NEW t \in Ids, IterateEnd(t)
  PROVE  Types' /\ LockHeld' /\ StacksOK'
<1>1. /\ At(t, "next") /\ GoTo(t, <<>>)
      /\ Types /\ Busy(t) /\ Bottom(t) = "next" /\ StackOK(t)
      /\ ~Making(t) /\ LooksUp(t) = 0 /\ Iterates(t) = 1
  BY AtLast DEF IterateEnd
<1>2. /\ OnlyCall(t) /\ CallOK(t)' /\ ~Busy(t)' /\ ~Making(t)'
      /\ LooksUp(t)' = 0 /\ Iterates(t)' = 0
  BY <1>1, Ends
<1>3. /\ map' = map /\ writer' = writer
      /\ map \in [Ids -> Seq(Objects \cup {None}) \cup {None}]
      /\ visited' \in [Ids -> SUBSET Ids] /\ hand' \in [Ids -> SUBSET Objects]
      /\ sharing \in [Ids -> Nat] /\ sharing' = [sharing EXCEPT ![t] = @ - 1]
      /\ sharing[t] = LooksUp(t) + Iterates(t)
  BY DEF IterateEnd, Unshare, IInv, Types, LockHeld
<1>4. /\ sharing' \in [Ids -> Nat] /\ sharing'[t] = LooksUp(t)' + Iterates(t)'
      /\ \A u \in Ids : u # t => sharing'[u] = sharing[u]
  BY <1>1, <1>2, <1>3
<1>5. StackOK(t)'
  BY <1>1, <1>2, <1>3 DEF StackOK
<1> QED
  BY <1>1, <1>2, <1>3, <1>4, <1>5, Advances

(* A call begins.                                                          *)
LEMMA CallStep ==
  ASSUME IInv, NEW t \in Ids,
         CallIterate(t) \/ \E op \in {"get", "put", "use"} : Call(t, op)
  PROVE  Types' /\ LockHeld' /\ StacksOK'
<1>1. /\ ~Busy(t) /\ ~Making(t) /\ LooksUp(t) = 0 /\ Iterates(t) = 0 /\ Types /\ StackOK(t)
  <2>1. calls[t] = <<>> /\ Types /\ StackOK(t)
    BY DEF CallIterate, Call, IInv, StacksOK
  <2>2. Len(calls[t]) = 0
    BY <2>1
  <2> QED
    BY <2>1, <2>2 DEF Busy, Making, LooksUp, Iterates
<1>2. /\ OnlyCall(t) /\ CallOK(t)' /\ ~Making(t)' /\ LooksUp(t)' = 0 /\ Iterates(t)' = 0
      /\ Busy(t)' /\ Bottom(t)' \in {"iterate", "get", "put", "use"}
      /\ calls'[t][1] \in {"iterate", "find"}
  <2>1. CASE CallIterate(t)
    <3>1. OnlyCall(t) /\ calls'[t] = <<"iterate">>
      BY <1>1, <2>1 DEF CallIterate, Types, OnlyCall, Points
    <3>2. calls'[t] \in Seq(Points)
      BY <3>1 DEF OnlyCall
    <3>3. Len(calls'[t]) = 1 /\ calls'[t][1] = "iterate"
      BY <3>1
    <3> QED
      BY <3>1, <3>2, <3>3 DEF CallOK, Busy, Bottom, Making, LooksUp, Iterates
  <2>2. ASSUME NEW op \in {"get", "put", "use"}, Call(t, op)
        PROVE  /\ OnlyCall(t) /\ CallOK(t)' /\ ~Making(t)' /\ LooksUp(t)' = 0 /\ Iterates(t)' = 0
               /\ Busy(t)' /\ Bottom(t)' \in {"iterate", "get", "put", "use"}
               /\ calls'[t][1] \in {"iterate", "find"}
    <3>1. OnlyCall(t) /\ calls'[t] = <<"find", op>>
      BY <1>1, <2>2 DEF Call, Types, OnlyCall, Points, Ops, Finding
    <3>2. calls'[t] \in Seq(Points)
      BY <3>1 DEF OnlyCall
    <3>3. Len(calls'[t]) = 2 /\ calls'[t][1] = "find" /\ calls'[t][2] = op
      BY <3>1
    <3>4. CallOK(t)'
      BY <3>2, <3>3 DEF CallOK, Finding, Ops
    <3> QED
      BY <3>1, <3>3, <3>4 DEF Busy, Bottom, Making, LooksUp, Iterates
  <2> QED
    BY <2>1, <2>2
<1>3. /\ map' = map /\ sharing' = sharing /\ writer' = writer
      /\ map \in [Ids -> Seq(Objects \cup {None}) \cup {None}]
      /\ visited' \in [Ids -> SUBSET Ids] /\ hand' \in [Ids -> SUBSET Objects]
      /\ sharing \in [Ids -> Nat]
      /\ sharing[t] = LooksUp(t) + Iterates(t) /\ (writer # None => sharing[t] = 0)
  BY DEF CallIterate, Call, IInv, Types, LockHeld
<1>4. StackOK(t)'
  BY <1>1, <1>2, <1>3 DEF StackOK, Ops
<1> QED
  BY <1>1, <1>2, <1>3, <1>4, Advances

(* The steps that move an object.  What is left of a stack without its     *)
(* uppermost element.                                                      *)
LEMMA FrontProperties ==
  ASSUME NEW S, NEW seq \in Seq(S), Len(seq) > 0
  PROVE  /\ Front(seq) \in Seq(S) /\ Len(Front(seq)) = Len(seq) - 1
         /\ \A i \in 1 .. Len(seq) - 1 : Front(seq)[i] = seq[i]
<1>1. PICK n \in Nat : n = Len(seq) /\ n > 0
  OBVIOUS
<1>2. 1 \in Int /\ n - 1 \in Int /\ \A i \in 1 .. n - 1 : seq[i] \in S
  BY <1>1
<1>3. /\ SubSeq(seq, 1, n - 1) \in Seq(S)
      /\ Len(SubSeq(seq, 1, n - 1)) = IF 1 <= n - 1 THEN n - 1 - 1 + 1 ELSE 0
      /\ \A i \in 1 .. n - 1 - 1 + 1 : SubSeq(seq, 1, n - 1)[i] = seq[1 + i - 1]
  BY <1>2, SubSeqProperties
<1>4. Front(seq) = SubSeq(seq, 1, n - 1)
  BY <1>1 DEF Front
<1>5. ASSUME NEW i \in 1 .. n - 1 PROVE Front(seq)[i] = seq[i]
  <2>1. i \in 1 .. n - 1 - 1 + 1 /\ 1 + i - 1 = i
    BY <1>1
  <2> QED
    BY <1>3, <1>4, <2>1
<1> QED
  BY <1>1, <1>3, <1>4, <1>5

(* Objects that stay where they are.                                       *)
LEMMA SamePlaces ==
  ASSUME IInv, hand' = hand,
         \A o \in Objects, u \in Ids, i \in Nat : Lies(u, i, o)' <=> Lies(u, i, o)
  PROVE  OnePlace'
BY DEF OnePlace, IInv

(* The uppermost object is moved out of the stack, ...                     *)
LEMMA BackStep ==
  ASSUME IInv, NEW t \in Ids, Back(t)
  PROVE  IInv' /\ Values' = Values
<1>1. /\ At(t, "back") /\ "back" \in Ops \ {"use"} /\ "pop_back" \in Ops
      /\ GoTo(t, <<"find", "pop_back">>)
      /\ Types /\ Busy(t) /\ Bottom(t) = "back" /\ calls[t][1] = "back" /\ StackOK(t)
      /\ ~Making(t) /\ LooksUp(t) = 0 /\ Iterates(t) = 0
  BY AtLast DEF Back, Ops
<1>2. /\ OnlyCall(t) /\ CallOK(t)' /\ Busy(t)' /\ ~Making(t)'
      /\ calls'[t][1] = "find" /\ Bottom(t)' = "pop_back"
      /\ LooksUp(t)' = 0 /\ Iterates(t)' = 0
  BY <1>1, FindsAgain
<1>3. PICK m \in Seq(Objects \cup {None}), n \in Nat :
        m = map[t] /\ n = Len(m) /\ n > 0 /\ n <= MaxSize
  <2>1. map[t] # None /\ map[t] \in Seq(Objects \cup {None})
    BY <1>1 DEF StackOK, Types
  <2>2. Len(map[t]) \in Nat /\ Len(map[t]) > 0 /\ Len(map[t]) <= MaxSize
    BY <1>1, <2>1 DEF StackOK
  <2> QED
    BY <2>1, <2>2
<1>4. \A i \in 1 .. n : m[i] \in Objects
  BY <1>1, <1>3 DEF StackOK
<1>5. /\ Front(m) \in Seq(Objects \cup {None}) /\ Len(Front(m)) = n - 1
      /\ \A i \in 1 .. n - 1 : Front(m)[i] = m[i]
  BY <1>3, FrontProperties
<1>6. PICK k : k = Append(Front(m), None)
  OBVIOUS
<1>7. /\ k \in Seq(Objects \cup {None}) /\ Len(k) = n /\ k[n] = None
      /\ \A i \in 1 .. n - 1 : k[i] = m[i]
  <2>1. /\ k \in Seq(Objects \cup {None}) /\ Len(k) = n - 1 + 1 /\ k[n - 1 + 1] = None
        /\ \A i \in 1 .. n - 1 : k[i] = Front(m)[i]
    BY <1>5, <1>6, AppendProperties
  <2> QED
    BY <1>3, <1>5, <2>1
<1>8. k # None
  BY PoolAssumption, <1>3, <1>7
<1>9. /\ map' = [map EXCEPT ![t] = k]
      /\ hand' = [hand EXCEPT ![t] = @ \cup {m[n]}] /\ m[n] \in Objects
      /\ sharing' = sharing /\ writer' = writer /\ visited' = visited
      /\ map \in [Ids -> Seq(Objects \cup {None}) \cup {None}]
      /\ hand \in [Ids -> SUBSET Objects] /\ visited \in [Ids -> SUBSET Ids]
      /\ sharing \in [Ids -> Nat]
      /\ sharing[t] = LooksUp(t) + Iterates(t) /\ (writer # None => sharing[t] = 0)
  <2>1. Last(map[t]) = m[n]
    BY <1>3 DEF Last
  <2> QED
    BY <1>3, <1>4, <1>6, <2>1 DEF Back, IInv, Types, LockHeld
<1>10. /\ map' \in [Ids -> Seq(Objects \cup {None}) \cup {None}] /\ map'[t] = k
       /\ \A u \in Ids : u # t => map'[u] = map[u]
       /\ hand' \in [Ids -> SUBSET Objects] /\ hand'[t] = hand[t] \cup {m[n]}
       /\ \A u \in Ids : u # t => hand'[u] = hand[u]
  BY <1>7, <1>9
<1>11. StackOK(t)'
  BY <1>2, <1>3, <1>4, <1>7, <1>8, <1>10 DEF StackOK, Ops
<1>12. Types' /\ LockHeld' /\ StacksOK'
  BY <1>1, <1>2, <1>9, <1>10, <1>11, Advances
<1>13. \A o \in Objects, u \in Ids, i \in Nat :
         Lies(u, i, o)' <=> Lies(u, i, o) /\ ~(u = t /\ i = n)
  <2>1. ASSUME NEW o \in Objects, NEW i \in Nat
        PROVE  Lies(t, i, o)' <=> Lies(t, i, o) /\ i # n
    <3>1. Lies(t, i, o)' <=> i \in 1 .. n /\ k[i] = o
      BY <1>7, <1>8, <1>10 DEF Lies
    <3>2. Lies(t, i, o) <=> i \in 1 .. n /\ m[i] = o
      BY <1>1, <1>3 DEF Lies, StackOK
    <3>3. o # None
      BY PoolAssumption
    <3> QED
      BY <1>3, <1>7, <3>1, <3>2, <3>3
  <2>2. ASSUME NEW o \in Objects, NEW i \in Nat, NEW u \in Ids, u # t
        PROVE  Lies(u, i, o)' <=> Lies(u, i, o)
    BY <1>10, <2>2 DEF Lies
  <2> QED
    BY <2>1, <2>2
<1>14. Lies(t, n, m[n])
  <2>1. map[t] # None
    BY <1>1 DEF StackOK
  <2> QED
    BY <1>3, <2>1 DEF Lies
<1>15. OnePlace'
  <2>1. OnePlace
    BY DEF IInv
  <2>2. ASSUME NEW o \in Objects, o = m[n]
        PROVE  /\ \A u \in Ids, i \in Nat : Lies(u, i, o) => u = t /\ i = n
               /\ \A u \in Ids : o \notin hand[u]
    BY <1>3, <1>14, <2>1, <2>2 DEF OnePlace
  <2>3. ASSUME NEW o \in Objects, o = m[n]
        PROVE  /\ \A u \in Ids, i \in Nat : ~Lies(u, i, o)'
               /\ \A u \in Ids : o \in hand'[u] <=> u = t
    BY <1>10, <1>13, <2>2, <2>3
  <2>4. ASSUME NEW o \in Objects, o # m[n]
        PROVE  /\ \A u \in Ids, i \in Nat : Lies(u, i, o)' <=> Lies(u, i, o)
               /\ \A u \in Ids : o \in hand'[u] <=> o \in hand[u]
    BY <1>3, <1>10, <1>13, <2>4 DEF Lies
  <2> QED
    BY <2>1, <2>3, <2>4 DEF OnePlace
<1>16. Values' = Values
  BY <1>1, <1>8, <1>10 DEF Values, StackOK
<1> QED
  BY <1>12, <1>15, <1>16 DEF IInv

(* ... the empty one that stays is popped, ...                             *)
LEMMA PopBackStep ==
  ASSUME IInv, NEW t \in Ids, PopBack(t)
  PROVE  IInv' /\ Values' = Values
<1>1. /\ At(t, "pop_back") /\ "pop_back" \in Ops \ {"use"} /\ GoTo(t, <<>>)
      /\ Types /\ Busy(t) /\ Bottom(t) = "pop_back" /\ calls[t][1] = "pop_back" /\ StackOK(t)
      /\ ~Making(t) /\ LooksUp(t) = 0 /\ Iterates(t) = 0
  BY AtLast DEF PopBack, Ops
<1>2. /\ OnlyCall(t) /\ CallOK(t)' /\ ~Busy(t)' /\ ~Making(t)'
      /\ LooksUp(t)' = 0 /\ Iterates(t)' = 0
  BY <1>1, Ends
<1>3. PICK m \in Seq(Objects \cup {None}), n \in Nat :
        m = map[t] /\ n = Len(m) /\ n > 0 /\ n <= MaxSize /\ m[n] = None
  <2>1. map[t] # None /\ map[t] \in Seq(Objects \cup {None})
    BY <1>1 DEF StackOK, Types
  <2> QED
    BY <1>1, <2>1 DEF StackOK, Types
<1>4. \A i \in 1 .. n - 1 : m[i] \in Objects
  BY <1>1, <1>3 DEF StackOK
<1>5. PICK k : k = Front(m)
  OBVIOUS
<1>6. /\ k \in Seq(Objects \cup {None}) /\ Len(k) = n - 1
      /\ \A i \in 1 .. n - 1 : k[i] = m[i]
  BY <1>3, <1>5, FrontProperties
<1>7. k # None
  <2>1. n - 1 \in 0 .. MaxSize
    BY PoolAssumption, <1>3
  <2> QED
    BY PoolAssumption, <1>6, <2>1
<1>8. /\ map' = [map EXCEPT ![t] = k] /\ hand' = hand
      /\ sharing' = sharing /\ writer' = writer /\ visited' = visited
      /\ map \in [Ids -> Seq(Objects \cup {None}) \cup {None}]
      /\ hand \in [Ids -> SUBSET Objects] /\ visited \in [Ids -> SUBSET Ids]
      /\ sharing \in [Ids -> Nat]
      /\ sharing[t] = LooksUp(t) + Iterates(t) /\ (writer # None => sharing[t] = 0)
  BY <1>3, <1>5 DEF PopBack, IInv, Types, LockHeld
<1>9. /\ map' \in [Ids -> Seq(Objects \cup {None}) \cup {None}] /\ map'[t] = k
      /\ \A u \in Ids : u # t => map'[u] = map[u]
  BY <1>6, <1>8
<1>10. StackOK(t)'
  <2>1. MaxSize \in Nat
    BY PoolAssumption
  <2> QED
    BY <1>2, <1>3, <1>4, <1>6, <1>7, <1>9, <2>1 DEF StackOK
<1>11. Types' /\ LockHeld' /\ StacksOK'
  BY <1>1, <1>2, <1>8, <1>9, <1>10, Advances
<1>12. \A o \in Objects, u \in Ids, i \in Nat : Lies(u, i, o)' <=> Lies(u, i, o)
  <2>1. map[t] # None /\ \A o \in Objects : o # None
    BY PoolAssumption, <1>1 DEF StackOK
  <2> QED
    BY <1>3, <1>6, <1>7, <1>9, <2>1 DEF Lies
<1>13. OnePlace'
  BY <1>8, <1>12, SamePlaces
<1>14. Values' = Values
  BY <1>1, <1>7, <1>9 DEF Values, StackOK
<1> QED
  BY <1>11, <1>13, <1>14 DEF IInv

(* ... and an object is put on the stack.                                  *)
LEMMA EmplaceBackStep ==
  ASSUME IInv, NEW t \in Ids, EmplaceBack(t)
  PROVE  IInv' /\ Values' = Values
<1>1. /\ At(t, "emplace_back") /\ "emplace_back" \in Ops \ {"use"} /\ GoTo(t, <<>>)
      /\ Types /\ Busy(t) /\ Bottom(t) = "emplace_back" /\ StackOK(t)
      /\ ~Making(t) /\ LooksUp(t) = 0 /\ Iterates(t) = 0
  BY AtLast DEF EmplaceBack, Ops
<1>2. /\ OnlyCall(t) /\ CallOK(t)' /\ ~Busy(t)' /\ ~Making(t)'
      /\ LooksUp(t)' = 0 /\ Iterates(t)' = 0
  BY <1>1, Ends
<1>3. PICK m \in Seq(Objects \cup {None}), n \in Nat :
        m = map[t] /\ n = Len(m) /\ n < MaxSize
  <2>1. map[t] # None /\ map[t] \in Seq(Objects \cup {None})
    BY <1>1 DEF StackOK, Types
  <2> QED
    BY <1>1, <2>1 DEF StackOK, Types
<1>4. \A i \in 1 .. n : m[i] \in Objects
  BY <1>1, <1>3 DEF StackOK
<1>5. PICK p \in hand[t] : /\ hand' = [hand EXCEPT ![t] = @ \ {p}]
                          /\ map' = [map EXCEPT ![t] = Append(m, p)]
  BY <1>3 DEF EmplaceBack
<1>6. PICK k : k = Append(m, p)
  OBVIOUS
<1>7. /\ sharing' = sharing /\ writer' = writer /\ visited' = visited
      /\ map \in [Ids -> Seq(Objects \cup {None}) \cup {None}]
      /\ hand \in [Ids -> SUBSET Objects] /\ visited \in [Ids -> SUBSET Ids]
      /\ sharing \in [Ids -> Nat]
      /\ sharing[t] = LooksUp(t) + Iterates(t) /\ (writer # None => sharing[t] = 0)
  BY DEF EmplaceBack, IInv, Types, LockHeld
<1>8. p \in Objects
  BY <1>5, <1>7
<1>9. /\ k \in Seq(Objects \cup {None}) /\ Len(k) = n + 1 /\ k[n + 1] = p
      /\ \A i \in 1 .. n : k[i] = m[i]
  BY <1>3, <1>6, <1>8, AppendProperties
<1>10. k # None
  <2>1. n + 1 \in 0 .. MaxSize
    BY PoolAssumption, <1>3
  <2> QED
    BY PoolAssumption, <1>9, <2>1
<1>11. /\ map' \in [Ids -> Seq(Objects \cup {None}) \cup {None}] /\ map'[t] = k
       /\ \A u \in Ids : u # t => map'[u] = map[u]
       /\ hand' \in [Ids -> SUBSET Objects] /\ hand'[t] = hand[t] \ {p}
       /\ \A u \in Ids : u # t => hand'[u] = hand[u]
  BY <1>5, <1>6, <1>7, <1>9
<1>12. StackOK(t)'
  BY SMTT(30), PoolAssumption, <1>2, <1>3, <1>4, <1>8, <1>9, <1>10, <1>11 DEF StackOK
<1>13. Types' /\ LockHeld' /\ StacksOK'
  BY <1>1, <1>2, <1>7, <1>11, <1>12, Advances
<1>14. map[t] # None
  BY <1>1 DEF StackOK
<1>15. \A o \in Objects, u \in Ids, i \in Nat :
         Lies(u, i, o)' <=> Lies(u, i, o) \/ (u = t /\ i = n + 1 /\ o = p)
  BY <1>3, <1>4, <1>9, <1>10, <1>11, <1>14 DEF Lies
<1>16. ~Lies(t, n + 1, p)
  BY <1>3 DEF Lies
<1>17. OnePlace'
  BY <1>3, <1>5, <1>8, <1>11, <1>15, <1>16 DEF OnePlace, IInv
<1>18. Values' = Values
  BY <1>10, <1>11, <1>14 DEF Values
<1> QED
  BY <1>13, <1>17, <1>18 DEF IInv

-----------------------------------------------------------------------------
(* The invariant holds, and gives the properties.                          *)

(* It holds at first, ...                                                  *)
LEMMA InitInvariant ==
  ASSUME ValuesInit
  PROVE  IInv
<1>1. \A t \in Ids : Len(calls[t]) = 0 /\ calls[t] \in Seq(Points) /\ map[t] = None
  BY DEF ValuesInit
<1>2. Types
  BY <1>1 DEF ValuesInit, Types, CallOK
<1>3. LockHeld
  BY PoolAssumption, <1>1 DEF ValuesInit, LockHeld, Making, LooksUp, Iterates, Busy
<1>4. StacksOK
  BY <1>1 DEF StacksOK, StackOK, Busy
<1>5. OnePlace
  <2>1. /\ hand \in [Ids -> SUBSET Objects]
        /\ UNION {hand[t] : t \in Ids} = Objects
        /\ \A t, u \in Ids : t # u => hand[t] \cap hand[u] = {}
    BY DEF ValuesInit
  <2>2. \A o \in Objects : \E t \in Ids : o \in hand[t]
    BY <2>1
  <2> QED
    BY <1>1, <2>1, <2>2 DEF OnePlace, Lies
<1> QED
  BY <1>2, <1>3, <1>4, <1>5 DEF IInv

(* ... and every step keeps it.                                            *)
LEMMA NextInvariant ==
  ASSUME IInv, [ValuesNext]_valueVars
  PROVE  IInv'
<1>1. CASE UNCHANGED valueVars
  BY <1>1 DEF valueVars, IInv, Types, CallOK, LockHeld, StacksOK, StackOK, OnePlace, Lies,
              Making, LooksUp, Iterates, Busy, Bottom
<1>2. ASSUME NEW t \in Ids,
             \/ CallIterate(t) \/ \E op \in {"get", "put", "use"} : Call(t, op)
             \/ FindLock(t) \/ Find(t) \/ MakeLock(t) \/ Get(t) \/ Put(t) \/ Use(t)
             \/ Iterate(t) \/ Visit(t) \/ IterateEnd(t)
      PROVE  IInv'
  <2>1. map' = map /\ hand' = hand
    BY <1>2 DEF CallIterate, Call, FindLock, Find, MakeLock, Get, Put, Use,
                Iterate, Visit, IterateEnd
  <2>2. OnePlace'
    BY <2>1, SamePlaces DEF Lies
  <2>3. Types' /\ LockHeld' /\ StacksOK'
    BY <1>2, CallStep, FindLockStep, FindStep, MakeLockStep, GetStep, PutStep, UseStep,
       IterateStep, VisitStep, IterateEndStep
  <2> QED
    BY <2>2, <2>3 DEF IInv
<1>3. ASSUME NEW t \in Ids, MakeValue(t)
      PROVE  IInv'
  <2>1. /\ map \in [Ids -> Seq(Objects \cup {None}) \cup {None}] /\ hand' = hand
        /\ map' = [map EXCEPT ![t] = IF @ # None THEN @ ELSE <<>>]
    BY <1>3 DEF MakeValue, IInv, Types
  <2>2. \A o \in Objects, u \in Ids, i \in Nat : Lies(u, i, o)' <=> Lies(u, i, o)
    <3>1. Len(<< >>) = 0
      BY EmptySeq
    <3> QED
      BY <2>1, <3>1 DEF Lies
  <2>3. OnePlace'
    BY <2>1, <2>2, SamePlaces
  <2> QED
    BY <1>3, <2>3, MakeStep DEF IInv
<1> QED
  BY <1>1, <1>2, <1>3, BackStep, PopBackStep, EmplaceBackStep DEF ValuesNext, Proceed

(* The invariant that the theorems follow from.                            *)
LEMMA Invariant == ValuesSpec => []IInv
<1>1. ValuesInit => IInv
  BY InitInvariant
<1>2. IInv /\ [ValuesNext]_valueVars => IInv'
  BY NextInvariant
<1> QED
  BY <1>1, <1>2, PTL DEF ValuesSpec

(* Values have their types, no thread holds the mutex more than twice, and *)
(* no stack is larger than max_size (thread_local_pool.hpp:16).            *)
THEOREM TypeCorrect == ValuesSpec => []ValuesTypeOK
<1>1. ASSUME IInv PROVE ValuesTypeOK
  <2>1. \A t \in Ids : sharing[t] \in 0 .. 2
    BY <1>1 DEF IInv, LockHeld, LooksUp, Iterates
  <2>2. sharing \in [Ids -> 0 .. 2]
    BY <1>1, <2>1 DEF IInv, Types
  <2> QED
    BY <1>1, <2>2 DEF IInv, Types, StacksOK, StackOK, Values, ValuesTypeOK
<1> QED
  BY <1>1, Invariant, PTL

(* An object of the pool is in one place at any time, although get() and   *)
(* put() take several steps for it (thread_local_pool.hpp:10-19).          *)
THEOREM ObjectsHaveOneOwner == ValuesSpec => []OneOwner
<1>1. ASSUME IInv PROVE OneOwner
  <2>1. SUFFICES ASSUME NEW o \in Objects
                 PROVE  Cardinality({t \in Ids : o \in hand[t]}
                          \cup {p \in Ids \X (1 .. MaxSize) :
                                  /\ map[p[1]] # None /\ p[2] \in DOMAIN map[p[1]]
                                  /\ map[p[1]][p[2]] = o}) = 1
    BY DEF OneOwner
  <2> DEFINE InHand == {t \in Ids : o \in hand[t]}
             InPool == {p \in Ids \X (1 .. MaxSize) :
                          /\ map[p[1]] # None /\ p[2] \in DOMAIN map[p[1]]
                          /\ map[p[1]][p[2]] = o}
  <2>2. \A t \in Ids, i \in Nat :
          Lies(t, i, o) <=> /\ map[t] # None /\ i \in DOMAIN map[t] /\ map[t][i] = o
                            /\ i \in 1 .. MaxSize
    <3>1. \A t \in Ids : map[t] # None =>
            map[t] \in Seq(Objects \cup {None}) /\ Len(map[t]) <= MaxSize
      BY <1>1 DEF IInv, Types, StacksOK, StackOK
    <3>2. MaxSize \in Nat
      BY PoolAssumption
    <3> QED
      BY <3>1, <3>2 DEF Lies
  <2>3. \A t \in Ids, i \in Nat : Lies(t, i, o) <=> <<t, i>> \in InPool
    BY <2>2
  <2>4. \A p \in InPool : /\ p = <<p[1], p[2]>> /\ p[1] \in Ids /\ p[2] \in Nat
                          /\ Lies(p[1], p[2], o)
    BY PoolAssumption, <2>2
  <2> HIDE DEF InPool
  <2>5. \E place : InHand \cup InPool = {place}
    <3>1. CASE \E t \in Ids : o \in hand[t]
      <4>1. PICK t \in Ids : o \in hand[t]
        BY <3>1
      <4>2. InHand = {t}
        BY <1>1, <4>1 DEF IInv, OnePlace
      <4>3. InPool = {}
        BY <1>1, <2>4, <4>1 DEF IInv, OnePlace
      <4> QED
        BY <4>2, <4>3
    <3>2. CASE ~\E t \in Ids : o \in hand[t]
      <4>1. PICK t \in Ids, i \in Nat : Lies(t, i, o)
        BY <1>1, <3>2 DEF IInv, OnePlace
      <4>2. \A p \in InPool : p = <<t, i>>
        BY <1>1, <2>4, <4>1 DEF IInv, OnePlace
      <4>3. InPool = {<<t, i>>}
        BY <2>3, <4>1, <4>2
      <4>4. InHand = {}
        BY <3>2
      <4> QED
        BY <4>3, <4>4
    <3> QED
      BY <3>1, <3>2
  <2>6. PICK place : InHand \cup InPool = {place}
    BY <2>5
  <2>7. Cardinality({place}) = 1
    BY FS_Singleton
  <2> QED
    BY <2>6, <2>7 DEF InPool
<1> QED
  BY <1>1, Invariant, PTL

(* No value is added while a thread visits the values: whoever adds one    *)
(* has the mutex for itself (virtual_thread_local.hpp:30-38).              *)
THEOREM IterationsAreUndisturbed == ValuesSpec => IterationUndisturbed
<1>1. ASSUME IInv, [ValuesNext]_valueVars, \E t \in Ids : Iterating(t)
      PROVE  Values' = Values
  <2>1. PICK v \in Ids : Iterating(v)
    BY <1>1
  <2>2. writer = None
    <3>1. Len(calls[v]) \in Nat \ {0} /\ calls[v] \in Seq(Points)
      BY <1>1, <2>1, EmptySeq DEF Iterating, IInv, Types
    <3>2. Busy(v) /\ Bottom(v) = "next"
      BY <2>1, <3>1 DEF Iterating, Busy, Bottom, Last
    <3>3. Iterates(v) = 1 /\ LooksUp(v) \in {0, 1}
      BY <3>2 DEF Iterates, LooksUp
    <3> QED
      BY <1>1, <3>3 DEF IInv, LockHeld
  <2>3. ASSUME NEW t \in Ids, MakeValue(t)
        PROVE  FALSE
    <3>1. Making(t)
      BY <1>1, <2>3, AtPoint DEF MakeValue, Making
    <3> QED
      BY PoolAssumption, <1>1, <2>2, <3>1 DEF IInv, LockHeld
  <2>4. ASSUME NEW t \in Ids, Back(t) \/ PopBack(t) \/ EmplaceBack(t)
        PROVE  Values' = Values
    BY <1>1, <2>4, BackStep, PopBackStep, EmplaceBackStep
  <2>5. ASSUME UNCHANGED map
        PROVE  Values' = Values
    BY <2>5 DEF Values
  <2> QED
    BY <1>1, <2>3, <2>4, <2>5 DEF ValuesNext, Proceed, valueVars, CallIterate, Call, FindLock, Find,
       MakeLock, Get, Put, Use, Iterate, Visit, IterateEnd
<1> QED
  BY <1>1, Invariant, PTL DEF ValuesSpec, IterationUndisturbed

=============================================================================
