-------------------------- MODULE SharedPtrProofs --------------------------
(***************************************************************************)
(* Reference counts are exact, objects are disposed of once, and nothing   *)
(* is used before what another thread did with it, for any threads,        *)
(* objects and variables, however the objects own each other.              *)
(*                                                                         *)
(* Objects and variables may be infinitely many: what is finite is the set *)
(* of owners of each object.                                               *)
(***************************************************************************)
EXTENDS SharedPtr, FiniteSetTheorems, SequenceTheorems, TLAPS

USE SlotOwnerAssumption, VariantAssumption, NullAssumption

(* Destructors share their object only if the count is 1 by then.          *)
Sound == SelfRefs => StoresOne

----------------------------------------------------------------------------
(* What a thread has still to do, numbered from the bottom.                *)

Depth(t) == Len(todo[t])
Nth(t, n) == todo[t][Depth(t) - n]
Below(t) == 0 .. Depth(t) - 1
Top(t) == Depth(t) - 1

UnrefOf(o) == [op |-> "unref", obj |-> o]
DestructorOf(o) == [op |-> "destructor", obj |-> o]
MemberOf(o) == [op |-> "member", obj |-> o]
FreeOf(o) == [op |-> "free", obj |-> o]

(* The destructor of o shares o, and its reference goes.                   *)
SelfRef(t, n, o) ==
  /\ SelfRefs /\ n = Top(t) /\ n > 0
  /\ state[o] = "dying" /\ Nth(t, n - 1) = MemberOf(o)

(* What there is to do makes sense, in its order, for the object.          *)
ItemOK(t, n) ==
  LET op == Nth(t, n).op
      o == Nth(t, n).obj
  IN  /\ op = "unref" => state[o] = "live" \/ SelfRef(t, n, o)
      /\ op # "unref" => state[o] = "dying"
      /\ op = "destructor" => n = Top(t)
      /\ op = "member" => n > 0 /\ Nth(t, n - 1) = FreeOf(o)
      /\ op = "free" => \/ member[o] = Null
                        \/ n < Top(t) /\ Nth(t, n + 1) = MemberOf(o)

StacksOK == \A t \in Threads : \A n \in Below(t) : ItemOK(t, n)

Ends(t, n) == Nth(t, n).op \in {"destructor", "free"}

(* An object is being destroyed in one place.                              *)
EndsOnce ==
  \A t, u \in Threads : \A n \in Below(t), k \in Below(u) :
    Ends(t, n) /\ Ends(u, k) /\ Nth(t, n).obj = Nth(u, k).obj => t = u /\ n = k

(* Objects that are not there own nothing.                                 *)
MembersOfLiving ==
  \A o \in Objects : state[o] \in {"unborn", "dead"} => member[o] = Null

(* The count is exact, of dying objects as well; it starts at 1 again for  *)
(* the destructor if that is stored.                                       *)
Undisposed(o) == state[o] \in {"unborn", "live"}
Stored == IF StoresOne THEN 1 ELSE 0

CountOK(o) ==
  /\ IsFiniteSet(Owners(o))
  /\ cnt[o] = Cardinality(Owners(o)) + (IF Undisposed(o) THEN 0 ELSE Stored)
  /\ state[o] = "live" => Owners(o) # {}
  /\ disposals[o] = (IF Undisposed(o) THEN 0 ELSE 1)

Counted == \A o \in Objects : CountOK(o)

Heap == TypeOK /\ NoDangling /\ MembersOfLiving /\ StacksOK /\ EndsOnce /\ Counted

----------------------------------------------------------------------------
(* Lemmas about the stacks.                                                *)

(* The top of a stack is what is done next.                                *)
LEMMA TopIsHead ==
  ASSUME TypeOK, NEW t \in Threads, NEW op, NEW o, Doing(t, op, o)
  PROVE  /\ Depth(t) \in Nat \ {0} /\ Top(t) \in Below(t)
         /\ Nth(t, Top(t)) = [op |-> op, obj |-> o]
BY DEF TypeOK, Doing, Depth, Top, Below, Nth

(* A stack holds items.                                                    *)
LEMMA ItemsAreItems ==
  ASSUME TypeOK, NEW u \in Threads, NEW n \in Below(u)
  PROVE  Nth(u, n) \in Item
<1>1. todo[u] \in Seq(Item) /\ Len(todo[u]) \in Nat /\ n \in 0 .. Len(todo[u]) - 1
  BY DEF TypeOK, Below, Depth
<1>2. Len(todo[u]) - n \in 1 .. Len(todo[u])
  BY <1>1
<1> QED
  BY <1>1, <1>2 DEF Nth, Depth

(* Items are pushed in place of the top.                                   *)
LEMMA ContinueStack ==
  ASSUME TypeOK, NEW t \in Threads, todo[t] # <<>>,
         NEW items \in Seq(Item), Continue(t, items)
  PROVE  /\ todo' \in [Threads -> Seq(Item)]
         /\ \A u \in Threads \ {t} : todo'[u] = todo[u]
         /\ Depth(t) \in Nat \ {0} /\ Len(items) \in Nat
         /\ Depth(t)' = Depth(t) - 1 + Len(items)
         /\ \A n \in 0 .. Depth(t) - 2 : Nth(t, n)' = Nth(t, n)
         /\ \A n \in Depth(t) - 1 .. Depth(t) + Len(items) - 2 :
              Nth(t, n)' = items[Depth(t) - 1 + Len(items) - n]
<1>1. todo' = [todo EXCEPT ![t] = items \o Tail(todo[t])] /\ todo \in [Threads -> Seq(Item)]
  BY DEF Continue, TypeOK
<1>2. /\ Tail(todo[t]) \in Seq(Item) /\ Len(Tail(todo[t])) = Len(todo[t]) - 1
      /\ Len(todo[t]) \in Nat \ {0} /\ Len(items) \in Nat
  BY <1>1
<1>3. items \o Tail(todo[t]) \in Seq(Item)
  BY <1>2
<1>4. Len(todo'[t]) = Len(items) + Len(todo[t]) - 1
  BY <1>1, <1>2
<1>5. \A i \in 1 .. Len(items) : todo'[t][i] = items[i]
  BY <1>1, <1>2
<1>6. ASSUME NEW i \in Len(items) + 1 .. Len(todo'[t])
      PROVE  todo'[t][i] = todo[t][i + 1 - Len(items)]
  <2>1. (items \o Tail(todo[t]))[i] = Tail(todo[t])[i - Len(items)]
    BY <1>1, <1>2, <1>4
  <2>2. Tail(todo[t])[i - Len(items)] = todo[t][i - Len(items) + 1]
    BY <1>1, <1>2, <1>4
  <2> QED
    BY <2>1, <2>2, <1>1, <1>2
<1>7. ASSUME NEW n \in 0 .. Depth(t) - 2
      PROVE  Nth(t, n)' = Nth(t, n)
  <2> DEFINE i == Len(todo'[t]) - n
  <2>1. i \in Len(items) + 1 .. Len(todo'[t]) /\ i + 1 - Len(items) = Len(todo[t]) - n
    BY <1>2, <1>4 DEF Depth
  <2> QED
    BY <2>1, <1>6 DEF Nth, Depth
<1>8. ASSUME NEW n \in Depth(t) - 1 .. Depth(t) + Len(items) - 2
      PROVE  Nth(t, n)' = items[Depth(t) - 1 + Len(items) - n]
  BY SMTT(30), <1>2, <1>4, <1>5 DEF Nth, Depth
<1> QED
  BY <1>1, <1>2, <1>3, <1>4, <1>7, <1>8 DEF Depth

(* The four ways to do that.                                               *)
LEMMA ContinueEmpty ==
  ASSUME TypeOK, NEW t \in Threads, todo[t] # <<>>, Continue(t, <<>>)
  PROVE  /\ todo' \in [Threads -> Seq(Item)]
         /\ \A u \in Threads \ {t} : todo'[u] = todo[u]
         /\ Depth(t) \in Nat \ {0} /\ Depth(t)' = Depth(t) - 1
         /\ \A n \in 0 .. Depth(t) - 2 : Nth(t, n)' = Nth(t, n)
<1>1. <<>> \in Seq(Item) /\ Len(<<>>) = 0
  OBVIOUS
<1>2. /\ todo' \in [Threads -> Seq(Item)]
      /\ \A u \in Threads \ {t} : todo'[u] = todo[u]
      /\ Depth(t) \in Nat \ {0} /\ Depth(t)' = Depth(t) - 1 + Len(<<>>)
      /\ \A n \in 0 .. Depth(t) - 2 : Nth(t, n)' = Nth(t, n)
  BY <1>1, ContinueStack, Zenon
<1> QED
  BY <1>1, <1>2

(* The new top is the one item that was put on the rest of the stack.      *)
LEMMA ContinueOne ==
  ASSUME TypeOK, NEW t \in Threads, todo[t] # <<>>, NEW a \in Item, Continue(t, <<a>>)
  PROVE  /\ todo' \in [Threads -> Seq(Item)]
         /\ \A u \in Threads \ {t} : todo'[u] = todo[u]
         /\ Depth(t) \in Nat \ {0} /\ Depth(t)' = Depth(t)
         /\ \A n \in 0 .. Depth(t) - 2 : Nth(t, n)' = Nth(t, n)
         /\ \A n \in {Depth(t) - 1} : Nth(t, n)' = a
<1> DEFINE items == <<a>>
<1>1. items \in Seq(Item) /\ Len(items) = 1 /\ items[1] = a
  OBVIOUS
<1> HIDE DEF items
<1>2. Continue(t, items)
  BY DEF items
<1>3. /\ todo' \in [Threads -> Seq(Item)]
      /\ \A u \in Threads \ {t} : todo'[u] = todo[u]
      /\ Depth(t) \in Nat \ {0} /\ Depth(t)' = Depth(t) - 1 + Len(items)
      /\ \A n \in 0 .. Depth(t) - 2 : Nth(t, n)' = Nth(t, n)
      /\ \A n \in Depth(t) - 1 .. Depth(t) + Len(items) - 2 :
           Nth(t, n)' = items[Depth(t) - 1 + Len(items) - n]
  BY <1>1, <1>2, ContinueStack, Zenon
<1> QED
  BY <1>1, <1>3

(* The same for two items.                                                 *)
LEMMA ContinueTwo ==
  ASSUME TypeOK, NEW t \in Threads, todo[t] # <<>>, NEW a \in Item, NEW b \in Item,
         Continue(t, <<a, b>>)
  PROVE  /\ todo' \in [Threads -> Seq(Item)]
         /\ \A u \in Threads \ {t} : todo'[u] = todo[u]
         /\ Depth(t) \in Nat \ {0} /\ Depth(t)' = Depth(t) + 1
         /\ \A n \in 0 .. Depth(t) - 2 : Nth(t, n)' = Nth(t, n)
         /\ \A n \in {Depth(t) - 1} : Nth(t, n)' = b
         /\ \A n \in {Depth(t)} : Nth(t, n)' = a
<1> DEFINE items == <<a, b>>
<1>1. items \in Seq(Item) /\ Len(items) = 2 /\ items[1] = a /\ items[2] = b
  OBVIOUS
<1> HIDE DEF items
<1>2. Continue(t, items)
  BY DEF items
<1>3. /\ todo' \in [Threads -> Seq(Item)]
      /\ \A u \in Threads \ {t} : todo'[u] = todo[u]
      /\ Depth(t) \in Nat \ {0} /\ Depth(t)' = Depth(t) - 1 + Len(items)
      /\ \A n \in 0 .. Depth(t) - 2 : Nth(t, n)' = Nth(t, n)
      /\ \A n \in Depth(t) - 1 .. Depth(t) + Len(items) - 2 :
           Nth(t, n)' = items[Depth(t) - 1 + Len(items) - n]
  BY <1>1, <1>2, ContinueStack, Zenon
<1>4. ASSUME NEW n \in {Depth(t) - 1} PROVE Nth(t, n)' = b
  <2>1. n \in Depth(t) - 1 .. Depth(t) + Len(items) - 2 /\ Depth(t) - 1 + Len(items) - n = 2
    BY <1>1, <1>3
  <2> QED
    BY <2>1, <1>1, <1>3
<1>5. ASSUME NEW n \in {Depth(t)} PROVE Nth(t, n)' = a
  <2>1. n \in Depth(t) - 1 .. Depth(t) + Len(items) - 2 /\ Depth(t) - 1 + Len(items) - n = 1
    BY <1>1, <1>3
  <2> QED
    BY <2>1, <1>1, <1>3
<1> QED
  BY <1>1, <1>3, <1>4, <1>5

(* The same for three items.                                               *)
LEMMA ContinueThree ==
  ASSUME TypeOK, NEW t \in Threads, todo[t] # <<>>,
         NEW a \in Item, NEW b \in Item, NEW c \in Item, Continue(t, <<a, b, c>>)
  PROVE  /\ todo' \in [Threads -> Seq(Item)]
         /\ \A u \in Threads \ {t} : todo'[u] = todo[u]
         /\ Depth(t) \in Nat \ {0} /\ Depth(t)' = Depth(t) + 2
         /\ \A n \in 0 .. Depth(t) - 2 : Nth(t, n)' = Nth(t, n)
         /\ \A n \in {Depth(t) - 1} : Nth(t, n)' = c
         /\ \A n \in {Depth(t)} : Nth(t, n)' = b
         /\ \A n \in {Depth(t) + 1} : Nth(t, n)' = a
<1> DEFINE items == <<a, b, c>>
<1>1. /\ items \in Seq(Item) /\ Len(items) = 3
      /\ items[1] = a /\ items[2] = b /\ items[3] = c
  OBVIOUS
<1> HIDE DEF items
<1>2. Continue(t, items)
  BY DEF items
<1>3. /\ todo' \in [Threads -> Seq(Item)]
      /\ \A u \in Threads \ {t} : todo'[u] = todo[u]
      /\ Depth(t) \in Nat \ {0} /\ Depth(t)' = Depth(t) - 1 + Len(items)
      /\ \A n \in 0 .. Depth(t) - 2 : Nth(t, n)' = Nth(t, n)
      /\ \A n \in Depth(t) - 1 .. Depth(t) + Len(items) - 2 :
           Nth(t, n)' = items[Depth(t) - 1 + Len(items) - n]
  BY <1>1, <1>2, ContinueStack, Zenon
<1>4. ASSUME NEW n \in {Depth(t) - 1} PROVE Nth(t, n)' = c
  <2>1. n \in Depth(t) - 1 .. Depth(t) + Len(items) - 2 /\ Depth(t) - 1 + Len(items) - n = 3
    BY <1>1, <1>3
  <2> QED
    BY <2>1, <1>1, <1>3
<1>5. ASSUME NEW n \in {Depth(t)} PROVE Nth(t, n)' = b
  <2>1. n \in Depth(t) - 1 .. Depth(t) + Len(items) - 2 /\ Depth(t) - 1 + Len(items) - n = 2
    BY <1>1, <1>3
  <2> QED
    BY <2>1, <1>1, <1>3
<1>6. ASSUME NEW n \in {Depth(t) + 1} PROVE Nth(t, n)' = a
  <2>1. n \in Depth(t) - 1 .. Depth(t) + Len(items) - 2 /\ Depth(t) - 1 + Len(items) - n = 1
    BY <1>1, <1>3
  <2> QED
    BY <2>1, <1>1, <1>3
<1> QED
  BY <1>1, <1>3, <1>4, <1>5, <1>6

----------------------------------------------------------------------------
(* Lemmas about owners.                                                    *)

(* Item n of thread t is a reference to o.                                 *)
Unrefs(t, n, o) == n \in Below(t) /\ Nth(t, n) = UnrefOf(o)

(* Where a reference can be: a place is an owner if it refers to the       *)
(* object.                                                                 *)
Places == ({"slot"} \X Slots \X {0}) \cup ({"member"} \X Objects \X {0})
            \cup ({"unref"} \X Threads \X Nat)

OwnersAt(S, o) ==
  /\ S \subseteq Places
  /\ \A s \in Slots : <<"slot", s, 0>> \in S <=> slot[s] = o
  /\ \A p \in Objects : <<"member", p, 0>> \in S <=> member[p] = o /\ state[p] # "dead"
  /\ \A t \in Threads, n \in Nat : <<"unref", t, n>> \in S <=> Unrefs(t, n, o)

OwnersByPlace == \A o : OwnersAt(Owners(o), o)

(* The owners of an object are the places that refer to it, ...            *)
LEMMA OwnersArePlaces == TypeOK => OwnersByPlace
<1> SUFFICES ASSUME TypeOK, NEW o PROVE OwnersAt(Owners(o), o)
  BY DEF OwnersByPlace
<1> DEFINE Of(t) == {<<"unref", t, Len(todo[t]) - i>> :
                       i \in {i \in DOMAIN todo[t] :
                                todo[t][i] = [op |-> "unref", obj |-> o]}}
<1>1. ASSUME NEW t \in Threads
      PROVE  Of(t) = {<<"unref", t, n>> : n \in {n \in Nat : Unrefs(t, n, o)}}
  <2>1. DOMAIN todo[t] = 1 .. Len(todo[t]) /\ Len(todo[t]) \in Nat
    BY DEF TypeOK
  <2>2. ASSUME NEW i \in DOMAIN todo[t]
        PROVE  /\ Len(todo[t]) - i \in Below(t) /\ Len(todo[t]) - i \in Nat
               /\ Nth(t, Len(todo[t]) - i) = todo[t][i]
    BY <2>1 DEF Below, Nth, Depth
  <2>3. ASSUME NEW n \in Below(t)
        PROVE  Len(todo[t]) - n \in DOMAIN todo[t] /\ n = Len(todo[t]) - (Len(todo[t]) - n)
    BY <2>1 DEF Below, Depth
  <2> QED
    BY <2>2, <2>3 DEF UnrefOf, Unrefs
<1>2. Owners(o) = {<<"slot", s, 0>> : s \in {s \in Slots : slot[s] = o}}
        \cup {<<"member", p, 0>> : p \in {p \in Objects : member[p] = o /\ state[p] # "dead"}}
        \cup UNION {Of(t) : t \in Threads}
  BY DEF Owners
<1>3. UNION {Of(t) : t \in Threads}
      = {x \in {"unref"} \X Threads \X Nat : Unrefs(x[2], x[3], o)}
  BY <1>1
<1> HIDE DEF Of
<1> QED
  BY <1>2, <1>3 DEF OwnersAt, Places

(* ... and no others.                                                      *)
LEMMA OwnersNext ==
  ASSUME OwnersByPlace', NEW o, NEW S, OwnersAt(S, o)'
  PROVE  Owners(o)' = S
<1>1. OwnersAt(Owners(o), o)'
  BY DEF OwnersByPlace
<1>2. Owners(o)' \subseteq Places /\ S \subseteq Places
  BY <1>1 DEF OwnersAt, Places
<1>3. ASSUME NEW x \in Places
      PROVE  x \in Owners(o)' <=> x \in S
  <2>1. CASE \E s \in Slots : x = <<"slot", s, 0>>
    BY <2>1, <1>1 DEF OwnersAt
  <2>2. CASE \E p \in Objects : x = <<"member", p, 0>>
    BY <2>2, <1>1 DEF OwnersAt
  <2>3. CASE \E t \in Threads, n \in Nat : x = <<"unref", t, n>>
    BY <2>3, <1>1 DEF OwnersAt
  <2> QED
    BY <2>1, <2>2, <2>3 DEF Places
<1> QED
  BY <1>2, <1>3

(* A reference is gone, is new, or changes its place.                      *)
LEMMA OneFewer ==
  ASSUME NEW S, IsFiniteSet(S), NEW x \in S
  PROVE  /\ IsFiniteSet(S \ {x}) /\ Cardinality(S \ {x}) = Cardinality(S) - 1
         /\ Cardinality(S) \in Nat /\ Cardinality(S \ {x}) \in Nat
         /\ S \ {x} = {} <=> Cardinality(S) = 1
<1>1. IsFiniteSet(S \ {x}) /\ Cardinality(S \ {x}) = Cardinality(S) - 1
  BY FS_RemoveElement
<1> QED
  BY <1>1, FS_CardinalityType, FS_EmptySet

(* One owner more.                                                         *)
LEMMA OneMore ==
  ASSUME NEW S, IsFiniteSet(S), NEW x, x \notin S
  PROVE  /\ IsFiniteSet(S \cup {x}) /\ Cardinality(S \cup {x}) = Cardinality(S) + 1
         /\ Cardinality(S) \in Nat
BY FS_AddElement, FS_CardinalityType

(* One owner replaced by another: the count is the same.                   *)
LEMMA Moved ==
  ASSUME NEW S, IsFiniteSet(S), NEW x \in S, NEW y, y \notin S
  PROVE  /\ IsFiniteSet((S \ {x}) \cup {y}) /\ Cardinality((S \ {x}) \cup {y}) = Cardinality(S)
         /\ Cardinality(S) \in Nat
<1>1. /\ IsFiniteSet(S \ {x}) /\ Cardinality(S \ {x}) = Cardinality(S) - 1
      /\ Cardinality(S) \in Nat
  BY OneFewer
<1> QED
  BY <1>1, OneMore

(* What is under an item is an item of the stack too.                      *)
LEMMA UnderIsBelow ==
  ASSUME TypeOK, NEW u \in Threads, NEW n \in Below(u), n > 0
  PROVE  n - 1 \in Below(u) /\ n \in Nat
<1>1. Len(todo[u]) \in Nat
  BY DEF TypeOK
<1> QED
  BY <1>1 DEF Below, Depth

(* What lies under the top of a stack stays in order: its items do not     *)
(* depend on what is put in place of the top.                              *)
LEMMA Underneath ==
  ASSUME StacksOK, NEW t \in Threads, Depth(t) \in Nat \ {0}, NEW n \in 0 .. Depth(t) - 2,
         Depth(t)' \in Nat, Depth(t)' >= Depth(t) - 1,
         \A k \in 0 .. Depth(t) - 2 : Nth(t, k)' = Nth(t, k),
         state'[Nth(t, n).obj] = state[Nth(t, n).obj],
         member'[Nth(t, n).obj] \in {member[Nth(t, n).obj], Null},
         Nth(t, Top(t)) = MemberOf(Nth(t, n).obj) => member'[Nth(t, n).obj] = Null
  PROVE  ItemOK(t, n)'
<1>1. /\ Nth(t, n)' = Nth(t, n) /\ n # Top(t) /\ n \in Nat /\ n \in Below(t)
      /\ n > 0 => Nth(t, n - 1)' = Nth(t, n - 1)
      /\ n + 1 = Top(t) \/ (n + 1 < Top(t)' + 1 /\ Nth(t, n + 1)' = Nth(t, n + 1))
  BY DEF Top, Below
<1>2. ItemOK(t, n)
  BY <1>1 DEF StacksOK
<1>3. n + 1 # Top(t) => n < Top(t)'
  BY DEF Top
<1> QED
  BY <1>1, <1>2, <1>3 DEF ItemOK, SelfRef

(* So do the stacks of the other threads.                                  *)
LEMMA OtherStack ==
  ASSUME StacksOK, NEW u \in Threads, todo'[u] = todo[u], NEW n \in Below(u)',
         state'[Nth(u, n).obj] = state[Nth(u, n).obj],
         member'[Nth(u, n).obj] \in {member[Nth(u, n).obj], Null}
  PROVE  ItemOK(u, n)'
<1>1. /\ Below(u)' = Below(u) /\ Top(u)' = Top(u)
      /\ \A k : Nth(u, k)' = Nth(u, k)
  BY DEF Below, Top, Nth, Depth
<1>2. ItemOK(u, n)
  BY <1>1 DEF StacksOK
<1> QED
  BY <1>1, <1>2 DEF ItemOK, SelfRef

(* What a step does to the count of an object, by what it does to its      *)
(* owners: they stay the same, ...                                         *)
LEMMA CountKept ==
  ASSUME OwnersByPlace', NEW p, CountOK(p), NEW S, S = Owners(p), OwnersAt(S, p)',
         cnt'[p] = cnt[p], state'[p] = state[p], disposals'[p] = disposals[p]
  PROVE  CountOK(p)'
<1>1. Owners(p)' = Owners(p)
  BY OwnersNext
<1> QED
  BY <1>1 DEF CountOK, Undisposed

(* ... one is elsewhere, ...                                               *)
LEMMA CountMoved ==
  ASSUME OwnersByPlace', NEW p, CountOK(p), NEW x \in Owners(p), NEW y, y \notin Owners(p),
         NEW S, S = (Owners(p) \ {x}) \cup {y}, OwnersAt(S, p)',
         cnt'[p] = cnt[p], state'[p] = state[p], disposals'[p] = disposals[p]
  PROVE  CountOK(p)'
<1>1. Owners(p)' = S
  BY OwnersNext
<1>2. IsFiniteSet(S) /\ Cardinality(S) = Cardinality(Owners(p)) /\ S # {}
  BY Moved DEF CountOK
<1> QED
  BY <1>1, <1>2 DEF CountOK, Undisposed

(* ... one is new, ...                                                     *)
LEMMA CountMore ==
  ASSUME OwnersByPlace', NEW p, CountOK(p), NEW y, y \notin Owners(p),
         NEW S, S = Owners(p) \cup {y}, OwnersAt(S, p)',
         cnt'[p] = cnt[p] + 1, state'[p] = state[p], disposals'[p] = disposals[p]
  PROVE  CountOK(p)'
<1>1. Owners(p)' = S
  BY OwnersNext
<1>2. /\ IsFiniteSet(S) /\ Cardinality(S) = Cardinality(Owners(p)) + 1 /\ S # {}
      /\ Cardinality(Owners(p)) \in Nat
  BY OneMore DEF CountOK
<1> QED
  BY <1>1, <1>2 DEF CountOK, Undisposed, Stored

(* ... or one is gone, and it was not the last.                            *)
LEMMA CountFewer ==
  ASSUME OwnersByPlace', NEW p, CountOK(p), NEW x \in Owners(p),
         NEW S, S = Owners(p) \ {x}, OwnersAt(S, p)', cnt[p] # 1,
         cnt'[p] = cnt[p] - 1, state'[p] = state[p], disposals'[p] = disposals[p]
  PROVE  CountOK(p)'
<1>1. Owners(p)' = S
  BY OwnersNext
<1>2. /\ IsFiniteSet(S) /\ Cardinality(S) = Cardinality(Owners(p)) - 1
      /\ Cardinality(Owners(p)) \in Nat
      /\ S = {} <=> Cardinality(Owners(p)) = 1
  BY OneFewer DEF CountOK
<1> QED
  BY <1>1, <1>2 DEF CountOK, Undisposed, Stored

----------------------------------------------------------------------------
(* unref() and the destructor keep the heap in order.                      *)

(* The stacks of the other threads are what they were.                     *)
LEMMA OtherThreads ==
  ASSUME NEW t \in Threads, \A u \in Threads \ {t} : todo'[u] = todo[u]
  PROVE  \A u \in Threads \ {t} : Below(u)' = Below(u) /\ \A n : Nth(u, n)' = Nth(u, n)
BY DEF Below, Nth, Depth

(* Nothing is destroyed in a second place if no such place is new.         *)
LEMMA SameEnds ==
  ASSUME EndsOnce,
         \A u \in Threads : \A n \in Below(u)' : Ends(u, n)' =>
            n \in Below(u) /\ Ends(u, n) /\ Nth(u, n)'.obj = Nth(u, n).obj
  PROVE  EndsOnce'
BY DEF EndsOnce

(* An unref() that is pushed in place of the top, or nothing.              *)
LEMMA ContinueRef ==
  ASSUME TypeOK, NEW t \in Threads, todo[t] # <<>>, NEW x \in Refs, Continue(t, Unref(x))
  PROVE  /\ todo' \in [Threads -> Seq(Item)]
         /\ \A u \in Threads \ {t} : todo'[u] = todo[u]
         /\ Depth(t) \in Nat \ {0} /\ Depth(t)' \in Nat
         /\ Depth(t)' = IF x = Null THEN Depth(t) - 1 ELSE Depth(t)
         /\ \A n \in 0 .. Depth(t) - 2 : Nth(t, n)' = Nth(t, n)
         /\ x # Null => \A n \in {Depth(t) - 1} : Nth(t, n)' = UnrefOf(x)
<1>1. CASE x = Null
  <2>1. Continue(t, <<>>)
    BY <1>1 DEF Unref
  <2> QED
    BY <1>1, <2>1, ContinueEmpty
<1>2. CASE x # Null
  <2>1. Continue(t, <<UnrefOf(x)>>) /\ UnrefOf(x) \in Item
    BY <1>2 DEF Unref, UnrefOf, Item, Refs
  <2>2. /\ todo' \in [Threads -> Seq(Item)]
        /\ \A u \in Threads \ {t} : todo'[u] = todo[u]
        /\ Depth(t) \in Nat \ {0} /\ Depth(t)' = Depth(t)
        /\ \A n \in 0 .. Depth(t) - 2 : Nth(t, n)' = Nth(t, n)
        /\ \A n \in {Depth(t) - 1} : Nth(t, n)' = UnrefOf(x)
    BY <2>1, ContinueOne, Zenon
  <2> QED
    BY <1>2, <2>2
<1> QED
  BY <1>1, <1>2

(* Done with the top: it goes, and perhaps an unref() of a living object   *)
(* takes its place.  Only what is done may change state, or lose its       *)
(* member.                                                                 *)
LEMMA PopStacks ==
  ASSUME TypeOK, StacksOK, EndsOnce, NEW t \in Threads, NEW o \in Objects,
         NEW op \in {"unref", "member", "free"}, Doing(t, op, o),
         NEW x \in Refs, Continue(t, Unref(x)), x # Null => state'[x] = "live",
         \A u \in Threads : \A n \in Below(u) :
           (u = t /\ n = Top(t)) \/ state'[Nth(u, n).obj] = state[Nth(u, n).obj],
         \A p \in Objects : member'[p] \in {member[p], Null},
         op = "member" => member'[o] = Null
  PROVE  /\ todo' \in [Threads -> Seq(Item)]
         /\ StacksOK' /\ EndsOnce'
         /\ Top(t) \in Nat /\ Nth(t, Top(t)) = [op |-> op, obj |-> o]
         /\ \A u \in Threads, n \in Nat, p \in Objects :
              Unrefs(u, n, p)' <=> \/ Unrefs(u, n, p) /\ ~(u = t /\ n = Top(t))
                                   \/ x # Null /\ p = x /\ u = t /\ n = Top(t)
<1>0. /\ todo[t] # <<>> /\ Depth(t) \in Nat \ {0} /\ Top(t) \in Below(t) /\ Top(t) \in Nat
      /\ Nth(t, Top(t)) = [op |-> op, obj |-> o] /\ Depth(t) - 1 = Top(t)
  BY TopIsHead DEF Doing, Top
<1>1. /\ todo' \in [Threads -> Seq(Item)]
      /\ \A u \in Threads \ {t} : todo'[u] = todo[u]
      /\ Depth(t)' \in Nat
      /\ Depth(t)' = IF x = Null THEN Depth(t) - 1 ELSE Depth(t)
      /\ \A n \in 0 .. Depth(t) - 2 : Nth(t, n)' = Nth(t, n)
      /\ x # Null => \A n \in {Top(t)} : Nth(t, n)' = UnrefOf(x)
  BY <1>0, ContinueRef
<1>2. \A u \in Threads \ {t} : Below(u)' = Below(u) /\ \A n : Nth(u, n)' = Nth(u, n)
  BY <1>1, OtherThreads
<1>3. /\ \A n \in Below(t)' : \/ n \in 0 .. Depth(t) - 2 /\ n \in Below(t) /\ n # Top(t)
                              \/ x # Null /\ n = Top(t)
      /\ \A n \in Below(t) : n = Top(t) \/ (n \in Below(t)' /\ n \in 0 .. Depth(t) - 2)
      /\ x # Null => Top(t) \in Below(t)' /\ Top(t)' = Top(t)
  BY <1>0, <1>1 DEF Below, Top
<1>4. ASSUME NEW u \in Threads, NEW n \in Below(u)
      PROVE  Nth(u, n).obj \in Objects
  BY ItemsAreItems DEF Item
<1>5. StacksOK'
  <2>1. ASSUME NEW n \in Below(t)', n \in 0 .. Depth(t) - 2, n \in Below(t), n # Top(t)
        PROVE  ItemOK(t, n)'
    <3>1. Nth(t, Top(t)) = MemberOf(Nth(t, n).obj) => member'[Nth(t, n).obj] = Null
      BY <1>0 DEF MemberOf
    <3> QED
      BY SMTT(30), <3>1, <2>1, <1>0, <1>1, <1>4, Underneath
  <2>2. ASSUME NEW n \in Below(t)', x # Null, n = Top(t)
        PROVE  ItemOK(t, n)'
    <3>1. Nth(t, n)'.op = "unref" /\ state'[Nth(t, n)'.obj] = "live"
      BY <2>2, <1>1 DEF UnrefOf
    <3> QED
      BY <3>1 DEF ItemOK
  <2>3. ASSUME NEW u \in Threads \ {t}, NEW n \in Below(u)' PROVE ItemOK(u, n)'
    BY <1>1, <1>2, <1>4, OtherStack
  <2> QED
    BY <2>1, <2>2, <2>3, <1>3 DEF StacksOK
<1>6. EndsOnce'
  <2>1. ASSUME NEW u \in Threads, NEW n \in Below(u)', Ends(u, n)'
        PROVE  n \in Below(u) /\ Nth(u, n)' = Nth(u, n)
    <3>1. CASE u # t
      BY <3>1, <1>2
    <3>2. CASE u = t
      <4>1. x # Null /\ n = Top(t) => FALSE
        BY <2>1, <3>2, <1>1 DEF Ends, UnrefOf
      <4> QED
        BY <4>1, <3>2, <1>1, <1>3
    <3> QED
      BY <3>1, <3>2
  <2> QED
    BY <2>1, SameEnds DEF Ends
<1>7. ASSUME NEW u \in Threads, NEW n \in Nat, NEW p \in Objects
      PROVE  Unrefs(u, n, p)' <=> \/ Unrefs(u, n, p) /\ ~(u = t /\ n = Top(t))
                                  \/ x # Null /\ p = x /\ u = t /\ n = Top(t)
  <2>1. CASE u # t
    BY <2>1, <1>2 DEF Unrefs
  <2>2. CASE u = t /\ n # Top(t)
    BY <2>2, <1>1, <1>3 DEF Unrefs
  <2>3. CASE u = t /\ n = Top(t)
    <3>1. x # Null => (UnrefOf(x) = UnrefOf(p) <=> p = x)
      BY DEF UnrefOf
    <3>2. x = Null => n \notin Below(t)'
      BY <2>3, <1>3
    <3> QED
      BY <2>3, <3>1, <3>2, <1>1, <1>3 DEF Unrefs
  <2> QED
    BY <2>1, <2>2, <2>3
<1> QED
  BY <1>0, <1>1, <1>5, <1>6, <1>7

(* An sp variable lets go of a living object, or of nothing.               *)
LEMMA PushStacks ==
  ASSUME TypeOK, StacksOK, EndsOnce, NEW t \in Threads, Idle(t), NEW x \in Refs,
         todo' = [todo EXCEPT ![t] = Unref(x)], x # Null => state'[x] = "live",
         \A u \in Threads : \A n \in Below(u) :
           /\ state'[Nth(u, n).obj] = state[Nth(u, n).obj]
           /\ member'[Nth(u, n).obj] \in {member[Nth(u, n).obj], Null}
  PROVE  /\ todo' \in [Threads -> Seq(Item)]
         /\ StacksOK' /\ EndsOnce'
         /\ \A u \in Threads, n \in Nat, p \in Objects :
              Unrefs(u, n, p)' <=> Unrefs(u, n, p) \/ (x # Null /\ p = x /\ u = t /\ n = 0)
         /\ \A n \in Nat, p \in Objects : ~Unrefs(t, n, p)
<1>0. Below(t) = {} /\ Depth(t) = 0
  BY DEF Idle, Below, Depth
<1>1. /\ todo' \in [Threads -> Seq(Item)]
      /\ \A u \in Threads \ {t} : todo'[u] = todo[u]
      /\ x = Null => Depth(t)' = 0
      /\ x # Null => Depth(t)' = 1 /\ todo'[t][1] = UnrefOf(x)
  <2>1. todo \in [Threads -> Seq(Item)] /\ Unref(x) \in Seq(Item)
    <3>1. x # Null => [op |-> "unref", obj |-> x] \in Item
      BY DEF Item, Refs
    <3> QED
      BY <3>1 DEF Unref, TypeOK
  <2>2. todo'[t] = Unref(x) /\ todo' \in [Threads -> Seq(Item)]
    BY <2>1
  <2> QED
    BY <2>1, <2>2 DEF Unref, Depth, UnrefOf
<1>2. \A u \in Threads \ {t} : Below(u)' = Below(u) /\ \A n : Nth(u, n)' = Nth(u, n)
  BY <1>1, OtherThreads
<1>3. \A n : n \in Below(t)' <=> x # Null /\ n = 0
  BY <1>1 DEF Below
<1>4. x # Null => \A n \in {0} : Nth(t, n)' = UnrefOf(x)
  BY <1>1 DEF Nth
<1>5. StacksOK'
  <2>1. ASSUME NEW n \in Below(t)' PROVE ItemOK(t, n)'
    <3>1. Nth(t, n)'.op = "unref" /\ state'[Nth(t, n)'.obj] = "live"
      BY <1>3, <1>4 DEF UnrefOf
    <3> QED
      BY <3>1 DEF ItemOK
  <2>2. ASSUME NEW u \in Threads \ {t}, NEW n \in Below(u)' PROVE ItemOK(u, n)'
    BY <1>1, <1>2, OtherStack
  <2> QED
    BY <2>1, <2>2 DEF StacksOK
<1>6. EndsOnce'
  <2>1. ASSUME NEW u \in Threads, NEW n \in Below(u)', Ends(u, n)'
        PROVE  n \in Below(u) /\ Nth(u, n)' = Nth(u, n)
    <3>1. u # t
      BY <2>1, <1>3, <1>4 DEF Ends, UnrefOf
    <3> QED
      BY <3>1, <1>2
  <2> QED
    BY <2>1, SameEnds DEF Ends
<1>7. \A n \in Nat, p \in Objects : ~Unrefs(t, n, p)
  BY <1>0 DEF Unrefs
<1>8. ASSUME NEW u \in Threads, NEW n \in Nat, NEW p \in Objects
      PROVE  Unrefs(u, n, p)' <=> Unrefs(u, n, p) \/ (x # Null /\ p = x /\ u = t /\ n = 0)
  <2>1. CASE u # t
    BY <2>1, <1>2 DEF Unrefs
  <2>2. CASE u = t
    <3>1. x # Null => (UnrefOf(x) = UnrefOf(p) <=> p = x)
      BY DEF UnrefOf
    <3> QED
      BY <2>2, <3>1, <1>3, <1>4, <1>7 DEF Unrefs
  <2> QED
    BY <2>1, <2>2
<1> QED
  BY <1>1, <1>5, <1>6, <1>7, <1>8

(* One item in front of two.                                               *)
LEMMA PushedFirst ==
  ASSUME NEW a \in Item, NEW b \in Item, NEW c \in Item
  PROVE  <<a>> \o <<b, c>> = <<a, b, c>>
<1>1. <<a>> \in Seq(Item) /\ <<b, c>> \in Seq(Item) /\ <<a, b, c>> \in Seq(Item)
  OBVIOUS
<1>2. <<a>> \o <<b, c>> \in Seq(Item)
  BY <1>1, ConcatProperties
<1>3. Len(<<a>> \o <<b, c>>) = 3
  BY <1>1
<1>4. \A i \in 1 .. 3 : (<<a>> \o <<b, c>>)[i] = <<a, b, c>>[i]
  BY <1>1
<1> QED
  BY <1>1, <1>2, <1>3, <1>4, SeqEqual

(* Nothing in front of two.                                                *)
LEMMA NothingFirst ==
  ASSUME NEW o \in Objects
  PROVE  Unref(Null) \o Then(o) = Then(o)
<1>1. Then(o) \in Seq(Item)
  BY DEF Then, Item
<1> QED
  BY <1>1 DEF Unref

(* The destructor has run: an unref() it called for comes first, then the  *)
(* member and the end.                                                     *)
LEMMA DestructorItems ==
  ASSUME TypeOK, NEW t \in Threads, NEW o \in Objects,
         Doing(t, "destructor", o), NEW x \in Refs, Continue(t, Unref(x) \o Then(o))
  PROVE  /\ todo' \in [Threads -> Seq(Item)]
         /\ \A u \in Threads \ {t} : todo'[u] = todo[u]
         /\ Depth(t)' = IF x = Null THEN Depth(t) + 1 ELSE Depth(t) + 2
         /\ \A n \in 0 .. Depth(t) - 2 : Nth(t, n)' = Nth(t, n)
         /\ \A n \in {Top(t)} : Nth(t, n)' = FreeOf(o)
         /\ \A n \in {Depth(t)} : Nth(t, n)' = MemberOf(o)
         /\ x # Null => \A n \in {Depth(t) + 1} : Nth(t, n)' = UnrefOf(x)
<1>0. todo[t] # <<>> /\ Depth(t) \in Nat \ {0} /\ Depth(t) - 1 = Top(t)
  BY TopIsHead DEF Doing, Top
<1>2. MemberOf(o) \in Item /\ FreeOf(o) \in Item /\ (x # Null => UnrefOf(x) \in Item)
  BY DEF Item, MemberOf, FreeOf, UnrefOf, Refs
<1>3. CASE x = Null
  <2>1. Unref(x) \o Then(o) = <<MemberOf(o), FreeOf(o)>>
    BY <1>3 DEF Unref, Then, MemberOf, FreeOf
  <2>2. Continue(t, <<MemberOf(o), FreeOf(o)>>)
    BY <2>1
  <2> QED
    BY <1>0, <1>2, <1>3, <2>2, ContinueTwo
<1>4. CASE x # Null
  <2>1. Unref(x) \o Then(o) = <<UnrefOf(x), MemberOf(o), FreeOf(o)>>
    <3>1. Unref(x) = <<UnrefOf(x)>> /\ Then(o) = <<MemberOf(o), FreeOf(o)>>
      BY <1>4 DEF Unref, Then, MemberOf, FreeOf, UnrefOf
    <3> QED
      BY <3>1, <1>2, <1>4, PushedFirst
  <2>2. Continue(t, <<UnrefOf(x), MemberOf(o), FreeOf(o)>>)
    BY <2>1
  <2> QED
    BY <1>0, <1>2, <1>4, <2>2, ContinueThree
<1> QED
  BY <1>3, <1>4

(* All of it in order.                                                     *)
LEMMA DestructorStacks ==
  ASSUME TypeOK, StacksOK, EndsOnce, NEW t \in Threads, NEW o \in Objects,
         Doing(t, "destructor", o), NEW x \in Refs, Continue(t, Unref(x) \o Then(o)),
         UNCHANGED <<state, member>>,
         x # Null => state[x] = "live" \/ (SelfRefs /\ x = o)
  PROVE  /\ todo' \in [Threads -> Seq(Item)]
         /\ StacksOK' /\ EndsOnce'
         /\ Depth(t) + 1 \in Nat
         /\ \A u \in Threads, n \in Nat, p \in Objects :
              Unrefs(u, n, p)' <=> \/ Unrefs(u, n, p)
                                   \/ x # Null /\ p = x /\ u = t /\ n = Depth(t) + 1
         /\ \A p \in Objects : ~Unrefs(t, Depth(t) + 1, p)
<1>0. /\ todo[t] # <<>> /\ Depth(t) \in Nat \ {0} /\ Top(t) \in Below(t) /\ Top(t) \in Nat
      /\ Nth(t, Top(t)) = DestructorOf(o) /\ Depth(t) - 1 = Top(t)
  BY TopIsHead DEF Doing, Top, DestructorOf
<1>1. state[o] = "dying"
  BY <1>0 DEF StacksOK, ItemOK, DestructorOf
<1>3. /\ todo' \in [Threads -> Seq(Item)]
      /\ \A u \in Threads \ {t} : todo'[u] = todo[u]
      /\ Depth(t)' = IF x = Null THEN Depth(t) + 1 ELSE Depth(t) + 2
      /\ \A n \in 0 .. Depth(t) - 2 : Nth(t, n)' = Nth(t, n)
      /\ \A n \in {Top(t)} : Nth(t, n)' = FreeOf(o)
      /\ \A n \in {Depth(t)} : Nth(t, n)' = MemberOf(o)
      /\ x # Null => \A n \in {Depth(t) + 1} : Nth(t, n)' = UnrefOf(x)
  BY DestructorItems
<1>4. \A u \in Threads \ {t} : Below(u)' = Below(u) /\ \A n : Nth(u, n)' = Nth(u, n)
  BY <1>3, OtherThreads
<1>5. /\ \A n \in Below(t)' : \/ n \in 0 .. Depth(t) - 2 /\ n \in Below(t)
                              \/ n = Top(t) /\ n \in Below(t)
                              \/ n = Depth(t)
                              \/ x # Null /\ n = Depth(t) + 1
      /\ \A n \in Below(t) : n \in Below(t)' /\ (n = Top(t) \/ n \in 0 .. Depth(t) - 2)
      /\ x # Null => Depth(t) + 1 \in Below(t)' /\ Top(t)' = Depth(t) + 1
      /\ Top(t)' \in Nat /\ Top(t)' >= Depth(t)
      /\ Depth(t) \notin Below(t) /\ Depth(t) + 1 \notin Below(t)
  BY <1>0, <1>3 DEF Below, Top
<1>6. StacksOK'
  <2>1. ASSUME NEW n \in 0 .. Depth(t) - 2 PROVE ItemOK(t, n)'
    <3>1. Nth(t, Top(t)) # MemberOf(Nth(t, n).obj)
      BY <1>0 DEF MemberOf, DestructorOf
    <3>2. Depth(t)' \in Nat /\ Depth(t)' >= Depth(t) - 1
      BY <1>0, <1>3
    <3>3. \A k \in 0 .. Depth(t) - 2 : Nth(t, k)' = Nth(t, k)
      BY <1>3
    <3> QED
      BY <3>1, <3>2, <3>3, <1>0, Underneath
  <2>2. ASSUME NEW n \in {Top(t)} PROVE ItemOK(t, n)'
    <3>1. /\ Nth(t, n)'.op = "free" /\ Nth(t, n)'.obj = o
          /\ n + 1 \in {Depth(t)} /\ n < Top(t)'
      BY <1>0, <1>3, <1>5 DEF FreeOf
    <3> QED
      BY <3>1, <1>1, <1>3 DEF ItemOK
  <2>3. ASSUME NEW n \in {Depth(t)} PROVE ItemOK(t, n)'
    <3>1. /\ Nth(t, n)'.op = "member" /\ Nth(t, n)'.obj = o
          /\ n - 1 \in {Top(t)} /\ n > 0
      BY <1>0, <1>3 DEF MemberOf
    <3> QED
      BY <3>1, <1>1, <1>3 DEF ItemOK
  <2>4. ASSUME x # Null, NEW n \in {Depth(t) + 1} PROVE ItemOK(t, n)'
    <3>1. /\ Nth(t, n)'.op = "unref" /\ Nth(t, n)'.obj = x
          /\ n - 1 \in {Depth(t)} /\ n > 0 /\ n = Top(t)'
      BY <2>4, <1>0, <1>3, <1>5 DEF UnrefOf
    <3>2. Nth(t, n - 1)' = MemberOf(o)
      BY <3>1, <1>3
    <3>3. x = o /\ SelfRefs => SelfRef(t, n, Nth(t, n).obj)'
      BY <3>1, <3>2, <1>1 DEF SelfRef
    <3> QED
      BY <2>4, <3>1, <3>3 DEF ItemOK
  <2>5. ASSUME NEW u \in Threads \ {t}, NEW n \in Below(u)' PROVE ItemOK(u, n)'
    BY <1>3, OtherStack
  <2> QED
    BY <2>1, <2>2, <2>3, <2>4, <2>5, <1>5 DEF StacksOK
<1>7. EndsOnce'
  <2>1. ASSUME NEW u \in Threads, NEW n \in Below(u)', Ends(u, n)'
        PROVE  n \in Below(u) /\ Ends(u, n) /\ Nth(u, n)'.obj = Nth(u, n).obj
    <3>1. CASE u # t
      BY <2>1, <3>1, <1>4 DEF Ends
    <3>2. CASE u = t /\ n \in 0 .. Depth(t) - 2
      <4>1. n \in Below(t) /\ Nth(t, n)' = Nth(t, n)
        BY <3>2, <1>0, <1>3 DEF Below
      <4> QED
        BY <2>1, <3>2, <4>1 DEF Ends
    <3>3. CASE u = t /\ n = Top(t)
      <4>1. /\ Nth(t, n)' = FreeOf(o) /\ Nth(t, n) = DestructorOf(o)
            /\ n \in Below(t)
        BY <3>3, <1>0, <1>3
      <4> QED
        BY <3>3, <4>1 DEF Ends, FreeOf, DestructorOf
    <3>4. CASE u = t /\ n = Depth(t)
      BY <2>1, <3>4, <1>3 DEF Ends, MemberOf
    <3>5. CASE u = t /\ x # Null /\ n = Depth(t) + 1
      BY <2>1, <3>5, <1>3 DEF Ends, UnrefOf
    <3> QED
      BY <3>1, <3>2, <3>3, <3>4, <3>5, <1>5
  <2> QED
    BY <2>1, SameEnds
<1>8. ASSUME NEW u \in Threads, NEW n \in Nat, NEW p \in Objects
      PROVE  Unrefs(u, n, p)' <=> \/ Unrefs(u, n, p)
                                  \/ x # Null /\ p = x /\ u = t /\ n = Depth(t) + 1
  <2>1. CASE u # t
    BY <2>1, <1>4 DEF Unrefs
  <2>2. CASE u = t /\ n \in 0 .. Depth(t) - 2
    BY <2>2, <1>0, <1>3, <1>5 DEF Unrefs, Below
  <2>3. CASE u = t /\ n \in {Top(t), Depth(t)}
    <3>1. Nth(u, n)' # UnrefOf(p)
      BY <2>3, <1>3 DEF UnrefOf, FreeOf, MemberOf
    <3>2. n \in Below(t) => n = Top(t) /\ Nth(t, n) # UnrefOf(p)
      BY <2>3, <1>0, <1>5 DEF UnrefOf, DestructorOf
    <3> QED
      BY <2>3, <3>1, <3>2, <1>0 DEF Unrefs
  <2>4. CASE u = t /\ n = Depth(t) + 1
    <3>1. x # Null => (UnrefOf(x) = UnrefOf(p) <=> p = x)
      BY DEF UnrefOf
    <3>2. x = Null => n \notin Below(t)'
      BY <2>4, <1>0, <1>3 DEF Below
    <3> QED
      BY <2>4, <3>1, <3>2, <1>0, <1>3, <1>5 DEF Unrefs
  <2>5. CASE u = t /\ n > Depth(t) + 1
    BY <2>5, <1>0, <1>3 DEF Unrefs, Below
  <2> QED
    BY <2>1, <2>2, <2>3, <2>4, <2>5, <1>0
<1>9. \A p \in Objects : ~Unrefs(t, Depth(t) + 1, p)
  BY <1>5 DEF Unrefs
<1> QED
  BY <1>0, <1>3, <1>6, <1>7, <1>8, <1>9

(* unref() of one reference of several: also of the last but one, of a     *)
(* dying object that its destructor shared.                                *)
LEMMA DecrementHeap ==
  ASSUME Heap, NEW t \in Threads, NEW o \in Objects, Decrement(t, o)
  PROVE  Heap'
<1> USE DEF Heap
<1>1. /\ Doing(t, "unref", o) /\ Continue(t, Unref(Null))
      /\ UNCHANGED <<state, disposals, slot, member>>
  BY DEF Decrement, Unref
<1>2. /\ todo' \in [Threads -> Seq(Item)] /\ StacksOK' /\ EndsOnce'
      /\ Top(t) \in Nat /\ Nth(t, Top(t)) = UnrefOf(o)
      /\ \A u \in Threads, n \in Nat, p \in Objects :
           Unrefs(u, n, p)' <=> Unrefs(u, n, p) /\ ~(u = t /\ n = Top(t))
  BY <1>1, PopStacks DEF Refs, UnrefOf
<1>3. TypeOK'
  <2>1. cnt' \in [Objects -> Int]
    BY DEF TypeOK, Decrement
  <2>2. view' \in [Threads -> SUBSET Accesses]
    BY DEF TypeOK, Decrement
  <2>3. release_view' \in [Objects -> SUBSET Accesses]
    BY DEF TypeOK, Decrement
  <2> QED
    BY <1>1, <1>2, <2>1, <2>2, <2>3 DEF TypeOK
<1>4. NoDangling' /\ MembersOfLiving'
  BY <1>1 DEF NoDangling, MembersOfLiving
<1>5. OwnersByPlace /\ OwnersByPlace'
  BY <1>3, OwnersArePlaces, PTL
<1>6. ASSUME NEW p \in Objects
      PROVE  CountOK(p)'
  <2> DEFINE top == <<"unref", t, Top(t)>>
  <2>1. OwnersAt(Owners(p), p) /\ CountOK(p)
    BY <1>5 DEF OwnersByPlace, Counted
  <2>2. Unrefs(t, Top(t), p) <=> p = o
    BY <1>1, <1>2, TopIsHead DEF Unrefs, UnrefOf, Doing
  <2>3. CASE p = o
    <3>1. PICK S : S = Owners(p) \ {top}
      OBVIOUS
    <3>2. OwnersAt(S, p)' /\ top \in Owners(p)
      BY <3>1, <2>1, <2>2, <2>3, <1>1, <1>2 DEF OwnersAt
    <3> HIDE DEF top
    <3>3. cnt[p] # 1 /\ cnt'[p] = cnt[p] - 1
      BY <2>3 DEF Decrement, TypeOK
    <3> QED
      BY <3>1, <3>2, <3>3, <2>1, <1>1, <1>5, CountFewer
  <2>4. CASE p # o
    <3>1. PICK S : S = Owners(p)
      OBVIOUS
    <3>2. OwnersAt(S, p)'
      BY <3>1, <2>1, <2>2, <2>4, <1>1, <1>2 DEF OwnersAt
    <3>3. cnt'[p] = cnt[p]
      BY <2>4 DEF Decrement, TypeOK
    <3> QED
      BY <3>1, <3>2, <3>3, <2>1, <1>1, <1>5, CountKept
  <2> QED
    BY <2>3, <2>4
<1> QED
  BY <1>2, <1>3, <1>4, <1>6 DEF Counted

(* The only owner of an object is the unref() that disposes of it.         *)
LEMMA LastOwner ==
  ASSUME Sound, Heap, NEW t \in Threads, NEW o \in Objects, Dispose(t, o)
  PROVE  /\ state[o] = "live"
         /\ \A s \in Slots : slot[s] # o
         /\ \A q \in Objects : member[q] # o
         /\ \A u \in Threads : \A n \in Below(u) :
              Nth(u, n).obj = o => u = t /\ n = Top(t)
<1> USE DEF Heap
<1> DEFINE top == <<"unref", t, Top(t)>>
<1>0. /\ Depth(t) \in Nat \ {0} /\ Top(t) \in Below(t) /\ Top(t) \in Nat
      /\ Nth(t, Top(t)) = UnrefOf(o)
  BY TopIsHead DEF Dispose, Doing, UnrefOf, Top
<1>1. OwnersAt(Owners(o), o)
  BY OwnersArePlaces DEF OwnersByPlace
<1>2. top \in Owners(o)
  BY <1>0, <1>1 DEF OwnersAt, Unrefs
<1> HIDE DEF top
<1>3. /\ IsFiniteSet(Owners(o)) /\ cnt[o] = 1
      /\ 1 = Cardinality(Owners(o)) + (IF Undisposed(o) THEN 0 ELSE Stored)
  BY DEF Counted, CountOK, Dispose
<1>4. /\ Cardinality(Owners(o)) \in Nat
      /\ Owners(o) \ {top} = {} <=> Cardinality(Owners(o)) = 1
      /\ Cardinality(Owners(o)) # 0
  <2>1. /\ Cardinality(Owners(o) \ {top}) = Cardinality(Owners(o)) - 1
        /\ Cardinality(Owners(o)) \in Nat /\ Cardinality(Owners(o) \ {top}) \in Nat
        /\ Owners(o) \ {top} = {} <=> Cardinality(Owners(o)) = 1
    BY <1>2, <1>3, OneFewer
  <2> QED
    BY <2>1
<1>5. state[o] = "live"
  <2>1. state[o] = "live" \/ (SelfRefs /\ state[o] = "dying")
    BY <1>0 DEF StacksOK, ItemOK, SelfRef, UnrefOf
  <2>2. ASSUME SelfRefs, state[o] = "dying" PROVE FALSE
    BY <2>2, <1>3, <1>4 DEF Sound, Stored, Undisposed
  <2> QED
    BY <2>1, <2>2
<1>6. Owners(o) = {top}
  BY <1>2, <1>3, <1>4, <1>5 DEF Undisposed
<1>7. \A s \in Slots : slot[s] # o
  BY <1>1, <1>6 DEF OwnersAt, top
<1>8. \A q \in Objects : member[q] # o
  <2>1. ASSUME NEW q \in Objects, member[q] = o PROVE FALSE
    <3>1. state[q] # "dead"
      BY <2>1 DEF MembersOfLiving
    <3> QED
      BY <2>1, <3>1, <1>1, <1>6 DEF OwnersAt, top
  <2> QED
    BY <2>1
<1>9. ASSUME NEW u \in Threads, NEW n \in Below(u), Nth(u, n).obj = o
      PROVE  u = t /\ n = Top(t)
  <2>1. Nth(u, n) \in Item
    BY ItemsAreItems
  <2>2. Nth(u, n).op = "unref"
    BY <1>5, <1>9 DEF StacksOK, ItemOK
  <2>3. Nth(u, n) = UnrefOf(o)
    BY <2>1, <2>2, <1>9 DEF Item, UnrefOf
  <2>4. n \in Nat /\ <<"unref", u, n>> \in Owners(o)
    BY <2>3, <1>1 DEF OwnersAt, Unrefs, Below
  <2> QED
    BY <2>4, <1>6 DEF top
<1> QED
  BY <1>5, <1>7, <1>8, <1>9

(* unref() of the last reference.                                          *)
LEMMA DisposeHeap ==
  ASSUME Sound, Heap, NEW t \in Threads, NEW o \in Objects, Dispose(t, o)
  PROVE  Heap'
<1> USE DEF Heap
<1>0. /\ todo[t] # <<>> /\ Depth(t) \in Nat \ {0} /\ Top(t) \in Below(t) /\ Top(t) \in Nat
      /\ Nth(t, Top(t)) = UnrefOf(o) /\ Depth(t) - 1 = Top(t)
  BY TopIsHead DEF Dispose, Doing, UnrefOf, Top
<1>1. DestructorOf(o) \in Item /\ Continue(t, <<DestructorOf(o)>>)
  BY DEF Dispose, DestructorOf, Item
<1>2. /\ todo' \in [Threads -> Seq(Item)]
      /\ \A u \in Threads \ {t} : todo'[u] = todo[u]
      /\ Depth(t)' = Depth(t)
      /\ \A n \in 0 .. Depth(t) - 2 : Nth(t, n)' = Nth(t, n)
      /\ \A n \in {Top(t)} : Nth(t, n)' = DestructorOf(o)
  <2>1. /\ todo' \in [Threads -> Seq(Item)]
        /\ \A u \in Threads \ {t} : todo'[u] = todo[u]
        /\ Depth(t) \in Nat \ {0} /\ Depth(t)' = Depth(t)
        /\ \A n \in 0 .. Depth(t) - 2 : Nth(t, n)' = Nth(t, n)
        /\ \A n \in {Depth(t) - 1} : Nth(t, n)' = DestructorOf(o)
    BY <1>0, <1>1, ContinueOne, Zenon
  <2> QED
    BY <1>0, <2>1
<1>3. \A u \in Threads \ {t} : Below(u)' = Below(u) /\ \A n : Nth(u, n)' = Nth(u, n)
  BY <1>2, OtherThreads
<1>4. /\ Below(t)' = Below(t) /\ Top(t)' = Top(t)
      /\ \A n \in Below(t) : n = Top(t) \/ n \in 0 .. Depth(t) - 2
  BY <1>0, <1>2 DEF Below, Top
<1>5. /\ state[o] = "live" /\ state' = [state EXCEPT ![o] = "dying"]
      /\ UNCHANGED <<slot, member>>
      /\ \A s \in Slots : slot[s] # o
      /\ \A q \in Objects : member[q] # o
      /\ \A u \in Threads : \A n \in Below(u) :
           Nth(u, n).obj = o => u = t /\ n = Top(t)
  BY LastOwner DEF Dispose
<1>6. TypeOK'
  <2>1. cnt' \in [Objects -> Int]
    BY DEF TypeOK, Dispose
  <2>2. view' \in [Threads -> SUBSET Accesses]
    BY DEF TypeOK, Dispose
  <2>3. release_view' \in [Objects -> SUBSET Accesses]
    BY DEF TypeOK, Dispose
  <2>4. disposals' \in [Objects -> Nat]
    BY DEF TypeOK, Dispose
  <2>5. state' \in [Objects -> {"unborn", "live", "dying", "dead"}]
    BY <1>5 DEF TypeOK
  <2> QED
    BY <1>2, <1>5, <2>1, <2>2, <2>3, <2>4, <2>5 DEF TypeOK
<1>7. NoDangling' /\ MembersOfLiving'
  BY <1>5 DEF NoDangling, MembersOfLiving, TypeOK, Refs
<1>8. ASSUME NEW u \in Threads, NEW n \in Below(u), ~(u = t /\ n = Top(t))
      PROVE  /\ Nth(u, n)' = Nth(u, n) /\ Nth(u, n).obj \in Objects \ {o}
             /\ state'[Nth(u, n).obj] = state[Nth(u, n).obj]
  <2>1. Nth(u, n).obj \in Objects \ {o}
    BY <1>5, <1>8, ItemsAreItems DEF Item
  <2>2. Nth(u, n)' = Nth(u, n)
    BY <1>2, <1>3, <1>4, <1>8
  <2> QED
    BY <2>1, <2>2, <1>5 DEF TypeOK
<1>9. StacksOK'
  <2>1. ASSUME NEW n \in 0 .. Depth(t) - 2 PROVE ItemOK(t, n)'
    <3>1. Nth(t, Top(t)) # MemberOf(Nth(t, n).obj) /\ n \in Below(t) /\ n # Top(t)
      BY <1>0 DEF MemberOf, UnrefOf, Below, Top
    <3>2. member'[Nth(t, n).obj] = member[Nth(t, n).obj]
      BY <1>5
    <3> QED
      BY <3>1, <3>2, <1>0, <1>2, <1>8, Underneath
  <2>2. ASSUME NEW n \in {Top(t)} PROVE ItemOK(t, n)'
    <3>1. Nth(t, n)'.op = "destructor" /\ Nth(t, n)'.obj = o /\ state'[o] = "dying"
      BY <1>2, <1>5 DEF DestructorOf, TypeOK
    <3> QED
      BY <3>1, <1>4 DEF ItemOK
  <2>3. ASSUME NEW u \in Threads \ {t}, NEW n \in Below(u)' PROVE ItemOK(u, n)'
    BY <1>2, <1>3, <1>5, <1>8, OtherStack
  <2> QED
    BY <2>1, <2>2, <2>3, <1>4 DEF StacksOK
<1>10. EndsOnce'
  <2>1. \A u \in Threads : Below(u)' = Below(u)
    BY <1>3, <1>4
  <2>2. ASSUME NEW u \in Threads, NEW n \in Below(u),
               NEW v \in Threads, NEW k \in Below(v),
               Ends(u, n)', Ends(v, k)', Nth(u, n)'.obj = Nth(v, k)'.obj
        PROVE  u = v /\ n = k
    <3>1. CASE u = t /\ n = Top(t)
      <4>1. Nth(v, k)'.obj = o
        BY <2>2, <3>1, <1>2 DEF DestructorOf
      <4> QED
        BY <4>1, <3>1, <1>8
    <3>2. CASE v = t /\ k = Top(t)
      <4>1. Nth(u, n)'.obj = o
        BY <2>2, <3>2, <1>2 DEF DestructorOf
      <4> QED
        BY <4>1, <3>2, <1>8
    <3>3. CASE ~(u = t /\ n = Top(t)) /\ ~(v = t /\ k = Top(t))
      <4>1. Nth(u, n)' = Nth(u, n) /\ Nth(v, k)' = Nth(v, k)
        BY <3>3, <1>8
      <4> QED
        BY <4>1, <2>2 DEF EndsOnce, Ends
    <3> QED
      BY <3>1, <3>2, <3>3
  <2> QED
    BY <2>1, <2>2 DEF EndsOnce
<1>11. OwnersByPlace /\ OwnersByPlace'
  BY <1>6, OwnersArePlaces, PTL
<1>12. ASSUME NEW p \in Objects
       PROVE  CountOK(p)'
  <2>1. OwnersAt(Owners(p), p) /\ CountOK(p)
    BY <1>11 DEF OwnersByPlace, Counted
  <2>2. ASSUME NEW u \in Threads, NEW n \in Nat
        PROVE  Unrefs(u, n, p)' <=> Unrefs(u, n, p) /\ p # o
    <3>1. CASE u = t /\ n = Top(t)
      BY <3>1, <1>0, <1>2 DEF Unrefs, DestructorOf, UnrefOf
    <3>2. CASE ~(u = t /\ n = Top(t))
      BY <3>2, <1>3, <1>4, <1>8 DEF Unrefs, UnrefOf
    <3> QED
      BY <3>1, <3>2
  <2>3. CASE p = o
    <3>1. OwnersAt({}, o)'
      BY <2>2, <2>3, <1>5 DEF OwnersAt
    <3>2. Owners(o)' = {}
      BY <3>1, <1>11, OwnersNext
    <3>3. /\ cnt'[o] = Stored /\ state'[o] = "dying"
          /\ disposals'[o] = disposals[o] + 1 /\ disposals[o] = 0
      BY <2>1, <2>3, <1>5 DEF Dispose, TypeOK, CountOK, Undisposed, Stored
    <3> QED
      BY <2>3, <3>2, <3>3, FS_EmptySet DEF CountOK, Undisposed, Stored
  <2>4. CASE p # o
    <3>1. PICK S : S = Owners(p)
      OBVIOUS
    <3>2. OwnersAt(S, p)'
      BY <3>1, <2>1, <2>2, <2>4, <1>5 DEF OwnersAt, TypeOK
    <3>3. cnt'[p] = cnt[p] /\ state'[p] = state[p] /\ disposals'[p] = disposals[p]
      BY <2>4 DEF Dispose, TypeOK
    <3> QED
      BY <3>1, <3>2, <3>3, <2>1, <1>11, CountKept
  <2> QED
    BY <2>3, <2>4
<1> QED
  BY <1>6, <1>7, <1>9, <1>10, <1>12 DEF Counted

(* The destructor has run, and called for unref() of x, or of nothing.     *)
LEMMA DestructorPlainHeap ==
  ASSUME Heap, NEW t \in Threads, NEW o \in Objects, DestructorPlain(t, o)
  PROVE  Heap'
<1> USE DEF Heap
<1>1. /\ Doing(t, "destructor", o) /\ Continue(t, Unref(Null) \o Then(o)) /\ Null \in Refs
      /\ UNCHANGED <<cnt, state, disposals, slot, member, view, release_view>>
  BY NothingFirst DEF DestructorPlain, heap, views, Refs
<1>2. /\ todo' \in [Threads -> Seq(Item)] /\ StacksOK' /\ EndsOnce'
      /\ \A u \in Threads, n \in Nat, p \in Objects : Unrefs(u, n, p)' <=> Unrefs(u, n, p)
  BY <1>1, DestructorStacks
<1>3. TypeOK'
  BY <1>1, <1>2 DEF TypeOK
<1>4. NoDangling' /\ MembersOfLiving'
  BY <1>1 DEF NoDangling, MembersOfLiving
<1>5. OwnersByPlace /\ OwnersByPlace'
  BY <1>3, OwnersArePlaces, PTL
<1>6. ASSUME NEW p \in Objects
      PROVE  CountOK(p)'
  <2>1. OwnersAt(Owners(p), p) /\ CountOK(p)
    BY <1>5 DEF OwnersByPlace, Counted
  <2>2. PICK S : S = Owners(p)
    OBVIOUS
  <2>3. OwnersAt(S, p)'
    BY <2>1, <2>2, <1>1, <1>2 DEF OwnersAt
  <2> QED
    BY <2>1, <2>2, <2>3, <1>1, <1>5, CountKept
<1> QED
  BY <1>2, <1>3, <1>4, <1>6 DEF Counted

(* A destructor that makes a reference to its own object.                  *)
LEMMA DestructorSharesHeap ==
  ASSUME Heap, NEW t \in Threads, NEW o \in Objects, DestructorShares(t, o)
  PROVE  Heap'
<1> USE DEF Heap
<1>1. /\ SelfRefs /\ o # Null /\ o \in Refs
      /\ Doing(t, "destructor", o) /\ Continue(t, Unref(o) \o Then(o))
      /\ cnt' = [cnt EXCEPT ![o] = @ + 1]
      /\ UNCHANGED <<state, disposals, slot, member, view, release_view>>
  BY DEF DestructorShares, views, Refs
<1>2. /\ todo' \in [Threads -> Seq(Item)] /\ StacksOK' /\ EndsOnce'
      /\ Depth(t) + 1 \in Nat
      /\ \A u \in Threads, n \in Nat, p \in Objects :
           Unrefs(u, n, p)' <=> Unrefs(u, n, p) \/ (p = o /\ u = t /\ n = Depth(t) + 1)
      /\ \A p \in Objects : ~Unrefs(t, Depth(t) + 1, p)
  BY <1>1, DestructorStacks
<1>3. TypeOK'
  <2>1. cnt' \in [Objects -> Int]
    BY <1>1 DEF TypeOK
  <2> QED
    BY <1>1, <1>2, <2>1 DEF TypeOK
<1>4. NoDangling' /\ MembersOfLiving'
  BY <1>1 DEF NoDangling, MembersOfLiving
<1>5. OwnersByPlace /\ OwnersByPlace'
  BY <1>3, OwnersArePlaces, PTL
<1>6. ASSUME NEW p \in Objects
      PROVE  CountOK(p)'
  <2> DEFINE new == <<"unref", t, Depth(t) + 1>>
  <2>1. OwnersAt(Owners(p), p) /\ CountOK(p)
    BY <1>5 DEF OwnersByPlace, Counted
  <2>2. new \notin Owners(p)
    BY <2>1, <1>2 DEF OwnersAt
  <2>3. CASE p = o
    <3>1. PICK S : S = Owners(p) \cup {new}
      OBVIOUS
    <3>2. OwnersAt(S, p)'
      <4>1. S \subseteq Places
        BY <3>1, <2>1, <1>2 DEF OwnersAt, Places
      <4>2. \A r \in Slots : <<"slot", r, 0>> \in S <=> slot'[r] = p
        BY <3>1, <2>1, <1>1 DEF OwnersAt, TypeOK
      <4>3. \A q \in Objects : <<"member", q, 0>> \in S <=> member'[q] = p /\ state'[q] # "dead"
        BY <3>1, <2>1, <1>1 DEF OwnersAt, TypeOK
      <4>4. \A u \in Threads, n \in Nat : <<"unref", u, n>> \in S <=> Unrefs(u, n, p)'
        BY <3>1, <2>1, <2>3, <1>2 DEF OwnersAt
      <4> QED
        BY <4>1, <4>2, <4>3, <4>4 DEF OwnersAt, Places
    <3> HIDE DEF new
    <3>3. cnt'[p] = cnt[p] + 1
      BY <2>3, <1>1 DEF TypeOK
    <3> QED
      BY <3>1, <3>2, <3>3, <2>1, <2>2, <1>1, <1>5, CountMore
  <2>4. CASE p # o
    <3>1. PICK S : S = Owners(p)
      OBVIOUS
    <3>2. OwnersAt(S, p)'
      BY <3>1, <2>1, <2>4, <1>1, <1>2 DEF OwnersAt
    <3>3. cnt'[p] = cnt[p]
      BY <2>4, <1>1 DEF TypeOK
    <3> QED
      BY <3>1, <3>2, <3>3, <2>1, <1>1, <1>5, CountKept
  <2> QED
    BY <2>3, <2>4
<1> QED
  BY <1>2, <1>3, <1>4, <1>6 DEF Counted

(* A destructor that stores 1 in the count and makes no reference.         *)
LEMMA DestructorResetsHeap ==
  ASSUME Heap, NEW t \in Threads, NEW s \in Mine(t), NEW o \in Objects,
         DestructorResets(t, s, o)
  PROVE  Heap'
<1> USE DEF Heap
<1>1. /\ slot[s] \in Refs /\ (slot[s] # Null => slot[s] \in Objects /\ state[slot[s]] = "live")
      /\ s \in Slots /\ slot' = [slot EXCEPT ![s] = Null]
      /\ Doing(t, "destructor", o) /\ Continue(t, Unref(slot[s]) \o Then(o))
      /\ UNCHANGED <<cnt, state, disposals, member, view, release_view>>
  BY DEF DestructorResets, heap, views, Refs, TypeOK, Mine, NoDangling
<1>2. PICK x \in Refs : x = slot[s]
  BY <1>1
<1>3. /\ todo' \in [Threads -> Seq(Item)] /\ StacksOK' /\ EndsOnce'
      /\ Depth(t) + 1 \in Nat
      /\ \A u \in Threads, n \in Nat, p \in Objects :
           Unrefs(u, n, p)' <=> Unrefs(u, n, p) \/ (p = x /\ u = t /\ n = Depth(t) + 1)
      /\ \A p \in Objects : ~Unrefs(t, Depth(t) + 1, p)
  <2>1. Continue(t, Unref(x) \o Then(o)) /\ (x # Null => state[x] = "live")
    BY <1>1, <1>2
  <2>2. /\ todo' \in [Threads -> Seq(Item)] /\ StacksOK' /\ EndsOnce'
        /\ Depth(t) + 1 \in Nat
        /\ \A u \in Threads, n \in Nat, p \in Objects :
              Unrefs(u, n, p)' <=> \/ Unrefs(u, n, p)
                                   \/ x # Null /\ p = x /\ u = t /\ n = Depth(t) + 1
        /\ \A p \in Objects : ~Unrefs(t, Depth(t) + 1, p)
    BY <2>1, <1>1, DestructorStacks
  <2> QED
    BY <2>2
<1>4. TypeOK'
  BY <1>1, <1>3 DEF TypeOK, Refs
<1>5. NoDangling' /\ MembersOfLiving'
  BY <1>1 DEF NoDangling, MembersOfLiving, TypeOK
<1>6. OwnersByPlace /\ OwnersByPlace'
  BY <1>4, OwnersArePlaces, PTL
<1>7. ASSUME NEW p \in Objects
      PROVE  CountOK(p)'
  <2> DEFINE old == <<"slot", s, 0>>
             new == <<"unref", t, Depth(t) + 1>>
  <2>1. OwnersAt(Owners(p), p) /\ CountOK(p)
    BY <1>6 DEF OwnersByPlace, Counted
  <2>2. new \notin Owners(p) /\ (old \in Owners(p) <=> p = x)
    BY <2>1, <1>1, <1>2, <1>3 DEF OwnersAt
  <2>3. CASE p = x
    <3>1. PICK S : S = (Owners(p) \ {old}) \cup {new}
      OBVIOUS
    <3>2. OwnersAt(S, p)'
      <4>1. S \subseteq Places
        BY <3>1, <2>1, <1>3 DEF OwnersAt, Places
      <4>2. \A r \in Slots : <<"slot", r, 0>> \in S <=> slot'[r] = p
        BY <3>1, <2>1, <2>3, <1>1, <1>2 DEF OwnersAt, TypeOK
      <4>3. \A q \in Objects : <<"member", q, 0>> \in S <=> member'[q] = p /\ state'[q] # "dead"
        BY <3>1, <2>1, <1>1 DEF OwnersAt, TypeOK
      <4>4. \A u \in Threads, n \in Nat : <<"unref", u, n>> \in S <=> Unrefs(u, n, p)'
        BY <3>1, <2>1, <2>3, <1>3 DEF OwnersAt
      <4> QED
        BY <4>1, <4>2, <4>3, <4>4 DEF OwnersAt, Places
    <3> HIDE DEF old, new
    <3> QED
      BY <3>1, <3>2, <2>1, <2>2, <2>3, <1>1, <1>6, CountMoved
  <2>4. CASE p # x
    <3>1. PICK S : S = Owners(p)
      OBVIOUS
    <3>2. OwnersAt(S, p)'
      BY <3>1, <2>1, <2>4, <1>1, <1>2, <1>3 DEF OwnersAt, TypeOK
    <3> QED
      BY <3>1, <3>2, <2>1, <1>1, <1>6, CountKept
  <2> QED
    BY <2>3, <2>4
<1> QED
  BY <1>3, <1>4, <1>5, <1>7 DEF Counted

(* The member is destroyed: its reference goes next.                       *)
LEMMA DestroyMemberHeap ==
  ASSUME Heap, NEW t \in Threads, NEW o \in Objects, DestroyMember(t, o)
  PROVE  Heap'
<1> USE DEF Heap
<1>1. /\ member[o] \in Refs
      /\ (member[o] # Null => member[o] \in Objects /\ state[member[o]] = "live")
      /\ member' = [member EXCEPT ![o] = Null]
      /\ Doing(t, "member", o) /\ Continue(t, Unref(member[o]))
      /\ UNCHANGED <<cnt, state, disposals, slot, view, release_view>>
  BY DEF DestroyMember, heap, views, Refs, TypeOK, NoDangling
<1>2. PICK x \in Refs : x = member[o]
  BY <1>1
<1>3. /\ Top(t) \in Below(t) /\ Top(t) \in Nat /\ Nth(t, Top(t)) = MemberOf(o)
      /\ state[o] = "dying"
  <2>1. Top(t) \in Below(t) /\ Top(t) \in Nat /\ Nth(t, Top(t)) = MemberOf(o)
    BY <1>1, TopIsHead DEF Doing, MemberOf, Top
  <2> QED
    BY <2>1 DEF StacksOK, ItemOK, MemberOf
<1>4. /\ todo' \in [Threads -> Seq(Item)] /\ StacksOK' /\ EndsOnce'
      /\ \A u \in Threads, n \in Nat, p \in Objects :
           Unrefs(u, n, p)' <=> \/ Unrefs(u, n, p) /\ ~(u = t /\ n = Top(t))
                                \/ p = x /\ u = t /\ n = Top(t)
  <2>1. /\ Continue(t, Unref(x)) /\ (x # Null => state'[x] = "live")
        /\ \A p \in Objects : member'[p] \in {member[p], Null}
        /\ member'[o] = Null
    BY <1>1, <1>2 DEF TypeOK
  <2>2. /\ todo' \in [Threads -> Seq(Item)] /\ StacksOK' /\ EndsOnce'
        /\ \A u \in Threads, n \in Nat, p \in Objects :
              Unrefs(u, n, p)' <=> \/ Unrefs(u, n, p) /\ ~(u = t /\ n = Top(t))
                                   \/ x # Null /\ p = x /\ u = t /\ n = Top(t)
    BY <2>1, <1>1, PopStacks
  <2> QED
    BY <2>2
<1>5. TypeOK'
  BY <1>1, <1>4 DEF TypeOK, Refs
<1>6. NoDangling' /\ MembersOfLiving'
  BY <1>1 DEF NoDangling, MembersOfLiving, TypeOK
<1>7. OwnersByPlace /\ OwnersByPlace'
  BY <1>5, OwnersArePlaces, PTL
<1>8. ASSUME NEW p \in Objects
      PROVE  CountOK(p)'
  <2> DEFINE old == <<"member", o, 0>>
             new == <<"unref", t, Top(t)>>
  <2>1. OwnersAt(Owners(p), p) /\ CountOK(p)
    BY <1>7 DEF OwnersByPlace, Counted
  <2>2. ~Unrefs(t, Top(t), p)
    BY <1>3 DEF Unrefs, MemberOf, UnrefOf
  <2>3. new \notin Owners(p) /\ (old \in Owners(p) <=> p = x)
    BY <2>1, <2>2, <1>1, <1>2, <1>3 DEF OwnersAt
  <2>4. CASE p = x
    <3>1. PICK S : S = (Owners(p) \ {old}) \cup {new}
      OBVIOUS
    <3>2. OwnersAt(S, p)'
      <4>1. S \subseteq Places
        BY <3>1, <2>1, <1>3 DEF OwnersAt, Places
      <4>2. \A r \in Slots : <<"slot", r, 0>> \in S <=> slot'[r] = p
        BY <3>1, <2>1, <1>1 DEF OwnersAt, TypeOK
      <4>3. \A q \in Objects : <<"member", q, 0>> \in S <=> member'[q] = p /\ state'[q] # "dead"
        BY <3>1, <2>1, <2>4, <1>1, <1>2 DEF OwnersAt, TypeOK
      <4>4. \A u \in Threads, n \in Nat : <<"unref", u, n>> \in S <=> Unrefs(u, n, p)'
        BY <3>1, <2>1, <2>2, <2>4, <1>4 DEF OwnersAt
      <4> QED
        BY <4>1, <4>2, <4>3, <4>4 DEF OwnersAt, Places
    <3> HIDE DEF old, new
    <3> QED
      BY <3>1, <3>2, <2>1, <2>3, <2>4, <1>1, <1>7, CountMoved
  <2>5. CASE p # x
    <3>1. PICK S : S = Owners(p)
      OBVIOUS
    <3>2. OwnersAt(S, p)'
      BY <3>1, <2>1, <2>2, <2>5, <1>1, <1>2, <1>4 DEF OwnersAt, TypeOK
    <3> QED
      BY <3>1, <3>2, <2>1, <1>1, <1>7, CountKept
  <2> QED
    BY <2>4, <2>5
<1> QED
  BY <1>4, <1>5, <1>6, <1>8 DEF Counted

(* The end of delete.                                                      *)
LEMMA FreeHeap ==
  ASSUME Heap, NEW t \in Threads, NEW o \in Objects, Free(t, o)
  PROVE  Heap'
<1> USE DEF Heap
<1>1. /\ Doing(t, "free", o) /\ Continue(t, Unref(Null)) /\ Null \in Refs
      /\ state' = [state EXCEPT ![o] = "dead"]
      /\ UNCHANGED <<cnt, disposals, slot, member, view, release_view>>
  BY DEF Free, Unref, views, Refs
<1>2. /\ Top(t) \in Below(t) /\ Top(t) \in Nat /\ Nth(t, Top(t)) = FreeOf(o)
      /\ state[o] = "dying" /\ member[o] = Null
  <2>1. Top(t) \in Below(t) /\ Top(t) \in Nat /\ Nth(t, Top(t)) = FreeOf(o)
    BY <1>1, TopIsHead DEF Doing, FreeOf, Top
  <2> QED
    BY <2>1 DEF StacksOK, ItemOK, FreeOf
<1>3. ASSUME NEW u \in Threads, NEW n \in Below(u), ~(u = t /\ n = Top(t))
      PROVE  Nth(u, n).obj \in Objects \ {o}
  <2>1. ASSUME NEW k \in Below(u), Nth(u, k) \in {FreeOf(o), DestructorOf(o)}
        PROVE  u = t /\ k = Top(t)
    BY <2>1, <1>2 DEF EndsOnce, Ends, FreeOf, DestructorOf
  <2>2. ASSUME NEW k \in Below(u), Nth(u, k) = MemberOf(o)
        PROVE  FALSE
    <3>1. k > 0 /\ Nth(u, k - 1) = FreeOf(o) /\ k - 1 \in Below(u) /\ k \in Nat
      <4>1. Nth(u, k).op = "member" /\ Nth(u, k).obj = o /\ ItemOK(u, k)
        BY <2>2 DEF StacksOK, MemberOf
      <4> QED
        BY <4>1, UnderIsBelow DEF ItemOK
    <3>2. u = t /\ k - 1 = Top(t)
      BY <3>1, <2>1
    <3> QED
      BY <3>1, <3>2 DEF Below, Top
  <2>3. ASSUME Nth(u, n).obj = o
        PROVE  FALSE
    <3>1. Nth(u, n) \in Item /\ n \in Nat
      BY ItemsAreItems DEF Below
    <3>2. CASE Nth(u, n).op = "unref"
      <4>1. n > 0 /\ Nth(u, n - 1) = MemberOf(o)
        BY <2>3, <3>2, <1>2 DEF StacksOK, ItemOK, SelfRef
      <4>2. n - 1 \in Below(u)
        BY <4>1, UnderIsBelow
      <4> QED
        BY <4>1, <4>2, <2>2
    <3>3. CASE Nth(u, n) \in {FreeOf(o), DestructorOf(o)}
      BY <3>3, <2>1, <1>3
    <3>4. CASE Nth(u, n) = MemberOf(o)
      BY <3>4, <2>2
    <3> QED
      BY <2>3, <3>1, <3>2, <3>3, <3>4 DEF Item, FreeOf, DestructorOf, MemberOf
  <2> QED
    BY <2>3, ItemsAreItems DEF Item
<1>4. /\ todo' \in [Threads -> Seq(Item)] /\ StacksOK' /\ EndsOnce'
      /\ \A u \in Threads, n \in Nat, p \in Objects :
           Unrefs(u, n, p)' <=> Unrefs(u, n, p) /\ ~(u = t /\ n = Top(t))
  <2>1. \A u \in Threads : \A n \in Below(u) :
           (u = t /\ n = Top(t)) \/ state'[Nth(u, n).obj] = state[Nth(u, n).obj]
    BY <1>1, <1>3 DEF TypeOK
  <2>2. \A p \in Objects : member'[p] \in {member[p], Null}
    BY <1>1
  <2> QED
    BY <2>1, <2>2, <1>1, PopStacks
<1>5. TypeOK'
  <2>1. state' \in [Objects -> {"unborn", "live", "dying", "dead"}]
    BY <1>1 DEF TypeOK
  <2> QED
    BY <1>1, <1>4, <2>1 DEF TypeOK
<1>6. NoDangling' /\ MembersOfLiving'
  BY <1>1, <1>2 DEF NoDangling, MembersOfLiving, TypeOK, Refs
<1>7. OwnersByPlace /\ OwnersByPlace'
  BY <1>5, OwnersArePlaces, PTL
<1>8. ASSUME NEW p \in Objects
      PROVE  CountOK(p)'
  <2>1. OwnersAt(Owners(p), p) /\ CountOK(p)
    BY <1>7 DEF OwnersByPlace, Counted
  <2>2. ~Unrefs(t, Top(t), p)
    BY <1>2 DEF Unrefs, FreeOf, UnrefOf
  <2>3. PICK S : S = Owners(p)
    OBVIOUS
  <2>4. OwnersAt(S, p)'
    BY <2>1, <2>2, <2>3, <1>1, <1>2, <1>4 DEF OwnersAt, TypeOK
  <2>5. Owners(p)' = Owners(p)
    BY <2>3, <2>4, <1>7, OwnersNext
  <2>6. Undisposed(p)' <=> Undisposed(p)
    BY <1>1, <1>2 DEF Undisposed, TypeOK
  <2> QED
    BY <2>1, <2>5, <2>6, <1>1 DEF CountOK, Undisposed, TypeOK
<1> QED
  BY <1>4, <1>5, <1>6, <1>8 DEF Counted

(* The other operations on variables do not change what is destroyed.      *)
LEMMA ReleaseStacks ==
  ASSUME Heap, NEW t \in Threads, Idle(t), NEW x \in Refs, x # Null => state[x] = "live",
         todo' = [todo EXCEPT ![t] = Unref(x)], UNCHANGED <<state, member>>
  PROVE  /\ todo' \in [Threads -> Seq(Item)]
         /\ StacksOK' /\ EndsOnce'
         /\ \A u \in Threads, n \in Nat, p \in Objects :
              Unrefs(u, n, p)' <=> Unrefs(u, n, p) \/ (p = x /\ u = t /\ n = 0)
         /\ \A n \in Nat, p \in Objects : ~Unrefs(t, n, p)
<1>1. /\ todo' \in [Threads -> Seq(Item)]
      /\ StacksOK' /\ EndsOnce'
      /\ \A u \in Threads, n \in Nat, p \in Objects :
           Unrefs(u, n, p)' <=> Unrefs(u, n, p) \/ (x # Null /\ p = x /\ u = t /\ n = 0)
      /\ \A n \in Nat, p \in Objects : ~Unrefs(t, n, p)
  BY PushStacks DEF Heap
<1> QED
  BY <1>1

(* Sharing an object: its count goes up by one.                            *)
LEMMA ShareHeap ==
  ASSUME Heap, NEW t \in Threads, Idle(t), NEW s \in Slots,
         NEW o \in Objects, state[o] = "live", Share(t, s, o)
  PROVE  Heap'
<1> USE DEF Heap
<1> DEFINE old == <<"slot", s, 0>>
           new == <<"unref", t, 0>>
<1>1. /\ slot[s] \in Refs /\ (slot[s] # Null => state[slot[s]] = "live")
      /\ cnt' = [cnt EXCEPT ![o] = @ + 1] /\ slot' = [slot EXCEPT ![s] = o]
      /\ todo' = [todo EXCEPT ![t] = Unref(slot[s])]
      /\ UNCHANGED <<state, disposals, member, view, release_view>>
  BY DEF Share, views, TypeOK, NoDangling
<1>2. PICK x \in Refs : x = slot[s]
  BY <1>1
<1>3. /\ todo' \in [Threads -> Seq(Item)] /\ StacksOK' /\ EndsOnce'
      /\ \A u \in Threads, n \in Nat, p \in Objects :
           Unrefs(u, n, p)' <=> Unrefs(u, n, p) \/ (p = x /\ u = t /\ n = 0)
      /\ \A n \in Nat, p \in Objects : ~Unrefs(t, n, p)
  <2>1. todo' = [todo EXCEPT ![t] = Unref(x)] /\ (x # Null => state[x] = "live")
    BY <1>1, <1>2
  <2> QED
    BY <2>1, <1>1, ReleaseStacks
<1>4. TypeOK'
  <2>1. cnt' \in [Objects -> Int]
    BY <1>1 DEF TypeOK
  <2> QED
    BY <2>1, <1>1, <1>3 DEF TypeOK, Refs
<1>5. NoDangling' /\ MembersOfLiving'
  BY <1>1 DEF NoDangling, MembersOfLiving, TypeOK
<1>6. OwnersByPlace /\ OwnersByPlace'
  BY <1>4, OwnersArePlaces, PTL
<1>7. ASSUME NEW p \in Objects
      PROVE  CountOK(p)'
  <2>1. OwnersAt(Owners(p), p) /\ CountOK(p)
    BY <1>6 DEF OwnersByPlace, Counted
  <2>2. new \notin Owners(p) /\ (old \in Owners(p) <=> p = x)
    BY <2>1, <1>2, <1>3 DEF OwnersAt
  <2>3. CASE p = o /\ p = x
    <3>1. PICK S : S = Owners(p) \cup {new}
      OBVIOUS
    <3>2. OwnersAt(S, p)'
      <4>1. S \subseteq Places
        BY <3>1, <2>1, <1>1 DEF OwnersAt, Places
      <4>2. \A q \in Slots : <<"slot", q, 0>> \in S <=> slot'[q] = p
        BY <3>1, <2>1, <2>3, <1>1, <1>2 DEF OwnersAt, TypeOK
      <4>3. \A q \in Objects : <<"member", q, 0>> \in S <=> member'[q] = p /\ state'[q] # "dead"
        BY <3>1, <2>1, <1>1 DEF OwnersAt, TypeOK
      <4>4. \A u \in Threads, n \in Nat : <<"unref", u, n>> \in S <=> Unrefs(u, n, p)'
        BY <3>1, <2>1, <2>3, <1>3 DEF OwnersAt
      <4> QED
        BY <4>1, <4>2, <4>3, <4>4 DEF OwnersAt, Places
    <3> HIDE DEF old, new
    <3>3. cnt'[p] = cnt[p] + 1
      BY <2>3, <1>1 DEF TypeOK
    <3> QED
      BY <3>1, <3>2, <3>3, <2>1, <2>2, <1>1, <1>6, CountMore
  <2>4. CASE p = o /\ p # x
    <3>1. PICK S : S = Owners(p) \cup {old}
      OBVIOUS
    <3>2. OwnersAt(S, p)'
      <4>1. S \subseteq Places
        BY <3>1, <2>1, <1>1 DEF OwnersAt, Places
      <4>2. \A q \in Slots : <<"slot", q, 0>> \in S <=> slot'[q] = p
        BY <3>1, <2>1, <2>4, <1>1, <1>2 DEF OwnersAt, TypeOK
      <4>3. \A q \in Objects : <<"member", q, 0>> \in S <=> member'[q] = p /\ state'[q] # "dead"
        BY <3>1, <2>1, <1>1 DEF OwnersAt, TypeOK
      <4>4. \A u \in Threads, n \in Nat : <<"unref", u, n>> \in S <=> Unrefs(u, n, p)'
        BY <3>1, <2>1, <2>4, <1>3 DEF OwnersAt
      <4> QED
        BY <4>1, <4>2, <4>3, <4>4 DEF OwnersAt, Places
    <3> HIDE DEF old, new
    <3>3. cnt'[p] = cnt[p] + 1
      BY <2>4, <1>1 DEF TypeOK
    <3> QED
      BY <3>1, <3>2, <3>3, <2>1, <2>2, <2>4, <1>1, <1>6, CountMore
  <2>5. CASE p # o /\ p = x
    <3>1. PICK S : S = (Owners(p) \ {old}) \cup {new}
      OBVIOUS
    <3>2. OwnersAt(S, p)'
      <4>1. S \subseteq Places
        BY <3>1, <2>1, <1>1 DEF OwnersAt, Places
      <4>2. \A q \in Slots : <<"slot", q, 0>> \in S <=> slot'[q] = p
        BY <3>1, <2>1, <2>5, <1>1, <1>2 DEF OwnersAt, TypeOK
      <4>3. \A q \in Objects : <<"member", q, 0>> \in S <=> member'[q] = p /\ state'[q] # "dead"
        BY <3>1, <2>1, <1>1 DEF OwnersAt, TypeOK
      <4>4. \A u \in Threads, n \in Nat : <<"unref", u, n>> \in S <=> Unrefs(u, n, p)'
        BY <3>1, <2>1, <2>5, <1>3 DEF OwnersAt
      <4> QED
        BY <4>1, <4>2, <4>3, <4>4 DEF OwnersAt, Places
    <3> HIDE DEF old, new
    <3>3. cnt'[p] = cnt[p]
      BY <2>5, <1>1 DEF TypeOK
    <3> QED
      BY <3>1, <3>2, <3>3, <2>1, <2>2, <2>5, <1>1, <1>6, CountMoved
  <2>6. CASE p # o /\ p # x
    <3>1. PICK S : S = Owners(p)
      OBVIOUS
    <3>2. OwnersAt(S, p)'
      <4>1. S \subseteq Places
        BY <3>1, <2>1, <1>1 DEF OwnersAt, Places
      <4>2. \A q \in Slots : <<"slot", q, 0>> \in S <=> slot'[q] = p
        BY <3>1, <2>1, <2>6, <1>1, <1>2 DEF OwnersAt, TypeOK
      <4>3. \A q \in Objects : <<"member", q, 0>> \in S <=> member'[q] = p /\ state'[q] # "dead"
        BY <3>1, <2>1, <1>1 DEF OwnersAt, TypeOK
      <4>4. \A u \in Threads, n \in Nat : <<"unref", u, n>> \in S <=> Unrefs(u, n, p)'
        BY <3>1, <2>1, <2>6, <1>3 DEF OwnersAt
      <4> QED
        BY <4>1, <4>2, <4>3, <4>4 DEF OwnersAt, Places
    <3>3. cnt'[p] = cnt[p]
      BY <2>6, <1>1 DEF TypeOK
    <3> QED
      BY <3>1, <3>2, <3>3, <2>1, <1>1, <1>6, CountKept
  <2> QED
    BY <2>3, <2>4, <2>5, <2>6
<1> QED
  BY <1>3, <1>4, <1>5, <1>7 DEF Counted

(* A reference goes from one variable to another.                          *)
LEMMA MoveHeap ==
  ASSUME Heap, NEW t \in Threads, NEW s \in Slots, NEW r \in Slots, s # r, Move(t, s, r)
  PROVE  Heap'
<1> USE DEF Heap
<1> DEFINE to == <<"slot", s, 0>>
           from == <<"slot", r, 0>>
           new == <<"unref", t, 0>>
<1>1. /\ slot[s] \in Refs /\ (slot[s] # Null => state[slot[s]] = "live") /\ Idle(t)
      /\ slot[r] \in Refs /\ (slot[r] # Null => state[slot[r]] = "live")
      /\ slot' = [[slot EXCEPT ![r] = Null] EXCEPT ![s] = slot[r]]
      /\ todo' = [todo EXCEPT ![t] = Unref(slot[s])]
      /\ UNCHANGED <<cnt, state, disposals, member, view, release_view>>
  BY DEF Move, heap, views, TypeOK, NoDangling
<1>2. PICK x \in Refs : x = slot[s]
  BY <1>1
<1>3. /\ todo' \in [Threads -> Seq(Item)] /\ StacksOK' /\ EndsOnce'
      /\ \A u \in Threads, n \in Nat, p \in Objects :
           Unrefs(u, n, p)' <=> Unrefs(u, n, p) \/ (p = x /\ u = t /\ n = 0)
      /\ \A n \in Nat, p \in Objects : ~Unrefs(t, n, p)
  <2>1. todo' = [todo EXCEPT ![t] = Unref(x)] /\ (x # Null => state[x] = "live")
    BY <1>1, <1>2
  <2> QED
    BY <2>1, <1>1, ReleaseStacks
<1>4. TypeOK'
  <2>1. slot' \in [Slots -> Refs]
    BY <1>1 DEF TypeOK, Refs
  <2> QED
    BY <2>1, <1>1, <1>3 DEF TypeOK
<1>5. NoDangling' /\ MembersOfLiving'
  BY <1>1 DEF NoDangling, MembersOfLiving, TypeOK
<1>6. OwnersByPlace /\ OwnersByPlace'
  BY <1>4, OwnersArePlaces, PTL
<1>7. ASSUME NEW p \in Objects
      PROVE  CountOK(p)'
  <2>1. OwnersAt(Owners(p), p) /\ CountOK(p)
    BY <1>6 DEF OwnersByPlace, Counted
  <2>2. /\ new \notin Owners(p) /\ (to \in Owners(p) <=> p = x)
        /\ from \in Owners(p) <=> p = slot[r]
    BY <2>1, <1>2, <1>3 DEF OwnersAt
  <2>3. CASE p = slot[r] /\ p = x
    <3>1. PICK S : S = (Owners(p) \ {from}) \cup {new}
      OBVIOUS
    <3>2. OwnersAt(S, p)'
      <4>1. S \subseteq Places
        BY <3>1, <2>1, <1>1 DEF OwnersAt, Places
      <4>2. \A q \in Slots : <<"slot", q, 0>> \in S <=> slot'[q] = p
        BY <3>1, <2>1, <2>3, <1>1, <1>2 DEF OwnersAt, TypeOK
      <4>3. \A q \in Objects : <<"member", q, 0>> \in S <=> member'[q] = p /\ state'[q] # "dead"
        BY <3>1, <2>1, <1>1 DEF OwnersAt, TypeOK
      <4>4. \A u \in Threads, n \in Nat : <<"unref", u, n>> \in S <=> Unrefs(u, n, p)'
        BY <3>1, <2>1, <2>3, <1>3 DEF OwnersAt
      <4> QED
        BY <4>1, <4>2, <4>3, <4>4 DEF OwnersAt, Places
    <3> HIDE DEF from, to, new
    <3> QED
      BY <3>1, <3>2, <2>1, <2>2, <2>3, <1>1, <1>6, CountMoved
  <2>4. CASE p = slot[r] /\ p # x
    <3>1. PICK S : S = (Owners(p) \ {from}) \cup {to}
      OBVIOUS
    <3>2. OwnersAt(S, p)'
      <4>1. S \subseteq Places
        BY <3>1, <2>1, <1>1 DEF OwnersAt, Places
      <4>2. \A q \in Slots : <<"slot", q, 0>> \in S <=> slot'[q] = p
        BY <3>1, <2>1, <2>4, <1>1, <1>2 DEF OwnersAt, TypeOK
      <4>3. \A q \in Objects : <<"member", q, 0>> \in S <=> member'[q] = p /\ state'[q] # "dead"
        BY <3>1, <2>1, <1>1 DEF OwnersAt, TypeOK
      <4>4. \A u \in Threads, n \in Nat : <<"unref", u, n>> \in S <=> Unrefs(u, n, p)'
        BY <3>1, <2>1, <2>4, <1>3 DEF OwnersAt
      <4> QED
        BY <4>1, <4>2, <4>3, <4>4 DEF OwnersAt, Places
    <3> HIDE DEF from, to, new
    <3> QED
      BY <3>1, <3>2, <2>1, <2>2, <2>4, <1>1, <1>6, CountMoved
  <2>5. CASE p # slot[r] /\ p = x
    <3>1. PICK S : S = (Owners(p) \ {to}) \cup {new}
      OBVIOUS
    <3>2. OwnersAt(S, p)'
      <4>1. S \subseteq Places
        BY <3>1, <2>1, <1>1 DEF OwnersAt, Places
      <4>2. \A q \in Slots : <<"slot", q, 0>> \in S <=> slot'[q] = p
        BY <3>1, <2>1, <2>5, <1>1, <1>2 DEF OwnersAt, TypeOK
      <4>3. \A q \in Objects : <<"member", q, 0>> \in S <=> member'[q] = p /\ state'[q] # "dead"
        BY <3>1, <2>1, <1>1 DEF OwnersAt, TypeOK
      <4>4. \A u \in Threads, n \in Nat : <<"unref", u, n>> \in S <=> Unrefs(u, n, p)'
        BY <3>1, <2>1, <2>5, <1>3 DEF OwnersAt
      <4> QED
        BY <4>1, <4>2, <4>3, <4>4 DEF OwnersAt, Places
    <3> HIDE DEF from, to, new
    <3> QED
      BY <3>1, <3>2, <2>1, <2>2, <2>5, <1>1, <1>6, CountMoved
  <2>6. CASE p # slot[r] /\ p # x
    <3>1. PICK S : S = Owners(p)
      OBVIOUS
    <3>2. OwnersAt(S, p)'
      <4>1. S \subseteq Places
        BY <3>1, <2>1, <1>1 DEF OwnersAt, Places
      <4>2. \A q \in Slots : <<"slot", q, 0>> \in S <=> slot'[q] = p
        BY <3>1, <2>1, <2>6, <1>1, <1>2 DEF OwnersAt, TypeOK
      <4>3. \A q \in Objects : <<"member", q, 0>> \in S <=> member'[q] = p /\ state'[q] # "dead"
        BY <3>1, <2>1, <1>1 DEF OwnersAt, TypeOK
      <4>4. \A u \in Threads, n \in Nat : <<"unref", u, n>> \in S <=> Unrefs(u, n, p)'
        BY <3>1, <2>1, <2>6, <1>3 DEF OwnersAt
      <4> QED
        BY <4>1, <4>2, <4>3, <4>4 DEF OwnersAt, Places
    <3> QED
      BY <3>1, <3>2, <2>1, <1>1, <1>6, CountKept
  <2> QED
    BY <2>3, <2>4, <2>5, <2>6
<1> QED
  BY <1>3, <1>4, <1>5, <1>7 DEF Counted

(* A variable lets go of its reference.                                    *)
LEMMA ResetHeap ==
  ASSUME Heap, NEW t \in Threads, NEW s \in Slots, Reset(t, s)
  PROVE  Heap'
<1> USE DEF Heap
<1> DEFINE old == <<"slot", s, 0>>
           new == <<"unref", t, 0>>
<1>1. /\ slot[s] \in Refs /\ (slot[s] # Null => state[slot[s]] = "live") /\ Idle(t)
      /\ slot' = [slot EXCEPT ![s] = Null]
      /\ todo' = [todo EXCEPT ![t] = Unref(slot[s])]
      /\ UNCHANGED <<cnt, state, disposals, member, view, release_view>>
  BY DEF Reset, heap, views, TypeOK, NoDangling
<1>2. PICK x \in Refs : x = slot[s]
  BY <1>1
<1>3. /\ todo' \in [Threads -> Seq(Item)] /\ StacksOK' /\ EndsOnce'
      /\ \A u \in Threads, n \in Nat, p \in Objects :
           Unrefs(u, n, p)' <=> Unrefs(u, n, p) \/ (p = x /\ u = t /\ n = 0)
      /\ \A n \in Nat, p \in Objects : ~Unrefs(t, n, p)
  <2>1. todo' = [todo EXCEPT ![t] = Unref(x)] /\ (x # Null => state[x] = "live")
    BY <1>1, <1>2
  <2> QED
    BY <2>1, <1>1, ReleaseStacks
<1>4. TypeOK'
  BY <1>1, <1>3 DEF TypeOK, Refs
<1>5. NoDangling' /\ MembersOfLiving'
  BY <1>1 DEF NoDangling, MembersOfLiving, TypeOK
<1>6. OwnersByPlace /\ OwnersByPlace'
  BY <1>4, OwnersArePlaces, PTL
<1>7. ASSUME NEW p \in Objects
      PROVE  CountOK(p)'
  <2>1. OwnersAt(Owners(p), p) /\ CountOK(p)
    BY <1>6 DEF OwnersByPlace, Counted
  <2>2. new \notin Owners(p) /\ (old \in Owners(p) <=> p = x)
    BY <2>1, <1>2, <1>3 DEF OwnersAt
  <2>3. CASE p = x
    <3>1. PICK S : S = (Owners(p) \ {old}) \cup {new}
      OBVIOUS
    <3>2. OwnersAt(S, p)'
      <4>1. S \subseteq Places
        BY <3>1, <2>1, <1>1 DEF OwnersAt, Places
      <4>2. \A q \in Slots : <<"slot", q, 0>> \in S <=> slot'[q] = p
        BY <3>1, <2>1, <2>3, <1>1, <1>2 DEF OwnersAt, TypeOK
      <4>3. \A q \in Objects : <<"member", q, 0>> \in S <=> member'[q] = p /\ state'[q] # "dead"
        BY <3>1, <2>1, <1>1 DEF OwnersAt, TypeOK
      <4>4. \A u \in Threads, n \in Nat : <<"unref", u, n>> \in S <=> Unrefs(u, n, p)'
        BY <3>1, <2>1, <2>3, <1>3 DEF OwnersAt
      <4> QED
        BY <4>1, <4>2, <4>3, <4>4 DEF OwnersAt, Places
    <3> HIDE DEF old, new
    <3> QED
      BY <3>1, <3>2, <2>1, <2>2, <2>3, <1>1, <1>6, CountMoved
  <2>4. CASE p # x
    <3>1. PICK S : S = Owners(p)
      OBVIOUS
    <3>2. OwnersAt(S, p)'
      <4>1. S \subseteq Places
        BY <3>1, <2>1, <1>1 DEF OwnersAt, Places
      <4>2. \A q \in Slots : <<"slot", q, 0>> \in S <=> slot'[q] = p
        BY <3>1, <2>1, <2>4, <1>1, <1>2 DEF OwnersAt, TypeOK
      <4>3. \A q \in Objects : <<"member", q, 0>> \in S <=> member'[q] = p /\ state'[q] # "dead"
        BY <3>1, <2>1, <1>1 DEF OwnersAt, TypeOK
      <4>4. \A u \in Threads, n \in Nat : <<"unref", u, n>> \in S <=> Unrefs(u, n, p)'
        BY <3>1, <2>1, <2>4, <1>3 DEF OwnersAt
      <4> QED
        BY <4>1, <4>2, <4>3, <4>4 DEF OwnersAt, Places
    <3> QED
      BY <3>1, <3>2, <2>1, <1>1, <1>6, CountKept
  <2> QED
    BY <2>3, <2>4
<1> QED
  BY <1>3, <1>4, <1>5, <1>7 DEF Counted

(* A reference goes to a variable of another thread.                       *)
LEMMA SendHeap ==
  ASSUME Heap, NEW t \in Threads, NEW s \in Mine(t), NEW r \in Slots, Send(t, s, r)
  PROVE  Heap'
<1> USE DEF Heap
<1> DEFINE from == <<"slot", s, 0>>
           to == <<"slot", r, 0>>
<1>1. /\ s \in Slots /\ s # r /\ slot[s] # Null /\ slot[r] = Null
      /\ slot' = [slot EXCEPT ![s] = Null, ![r] = slot[s]]
      /\ view' = [view EXCEPT ![SlotOwner[r]] = @ \cup view[t]]
      /\ UNCHANGED <<cnt, state, disposals, member, todo, release_view>>
  BY DEF Send, heap, Mine
<1>2. TypeOK'
  <2>1. slot' \in [Slots -> Refs]
    BY <1>1 DEF TypeOK, Refs
  <2>2. view' \in [Threads -> SUBSET Accesses]
    BY <1>1 DEF TypeOK
  <2> QED
    BY <2>1, <2>2, <1>1 DEF TypeOK
<1>3. NoDangling' /\ MembersOfLiving'
  BY <1>1 DEF NoDangling, MembersOfLiving, TypeOK
<1>4. \A u \in Threads : Below(u)' = Below(u) /\ Depth(u)' = Depth(u) /\ \A n : Nth(u, n)' = Nth(u, n)
  BY <1>1 DEF Below, Depth, Nth
<1>5. StacksOK'
  <2>1. ASSUME NEW u \in Threads, NEW n \in Below(u)' PROVE ItemOK(u, n)'
    BY <1>1, OtherStack
  <2> QED
    BY <2>1 DEF StacksOK
<1>6. EndsOnce'
  BY <1>4 DEF EndsOnce, Ends
<1>7. OwnersByPlace /\ OwnersByPlace'
  BY <1>2, OwnersArePlaces, PTL
<1>8. ASSUME NEW p \in Objects
      PROVE  CountOK(p)'
  <2>1. OwnersAt(Owners(p), p) /\ CountOK(p)
    BY <1>7 DEF OwnersByPlace, Counted
  <2>2. \A u \in Threads, n \in Nat : Unrefs(u, n, p)' <=> Unrefs(u, n, p)
    BY <1>4 DEF Unrefs
  <2>3. to \notin Owners(p) /\ (from \in Owners(p) <=> p = slot[s])
    BY <2>1, <1>1 DEF OwnersAt
  <2>4. CASE p = slot[s]
    <3>1. PICK S : S = (Owners(p) \ {from}) \cup {to}
      OBVIOUS
    <3>2. OwnersAt(S, p)'
      <4>1. S \subseteq Places
        BY <3>1, <2>1, <1>1 DEF OwnersAt, Places
      <4>2. \A q \in Slots : <<"slot", q, 0>> \in S <=> slot'[q] = p
        BY <3>1, <2>1, <2>4, <1>1 DEF OwnersAt, TypeOK
      <4>3. \A q \in Objects : <<"member", q, 0>> \in S <=> member'[q] = p /\ state'[q] # "dead"
        BY <3>1, <2>1, <1>1 DEF OwnersAt, TypeOK
      <4>4. \A u \in Threads, n \in Nat : <<"unref", u, n>> \in S <=> Unrefs(u, n, p)'
        BY <3>1, <2>1, <2>2 DEF OwnersAt
      <4> QED
        BY <4>1, <4>2, <4>3, <4>4 DEF OwnersAt, Places
    <3> HIDE DEF from, to
    <3> QED
      BY <3>1, <3>2, <2>1, <2>3, <2>4, <1>1, <1>7, CountMoved
  <2>5. CASE p # slot[s]
    <3>1. PICK S : S = Owners(p)
      OBVIOUS
    <3>2. OwnersAt(S, p)'
      <4>1. S \subseteq Places
        BY <3>1, <2>1, <1>1 DEF OwnersAt, Places
      <4>2. \A q \in Slots : <<"slot", q, 0>> \in S <=> slot'[q] = p
        BY <3>1, <2>1, <2>5, <1>1 DEF OwnersAt, TypeOK
      <4>3. \A q \in Objects : <<"member", q, 0>> \in S <=> member'[q] = p /\ state'[q] # "dead"
        BY <3>1, <2>1, <1>1 DEF OwnersAt, TypeOK
      <4>4. \A u \in Threads, n \in Nat : <<"unref", u, n>> \in S <=> Unrefs(u, n, p)'
        BY <3>1, <2>1, <2>2 DEF OwnersAt
      <4> QED
        BY <4>1, <4>2, <4>3, <4>4 DEF OwnersAt, Places
    <3> QED
      BY <3>1, <3>2, <2>1, <1>1, <1>7, CountKept
  <2> QED
    BY <2>4, <2>5
<1> QED
  BY <1>2, <1>3, <1>5, <1>6, <1>8 DEF Counted

(* An access changes nothing but what is known of it.                      *)
LEMMA SameHeap ==
  ASSUME Heap, UNCHANGED <<heap, slot, member, todo>>,
         view' \in [Threads -> SUBSET Accesses],
         release_view' \in [Objects -> SUBSET Accesses]
  PROVE  Heap'
<1> USE DEF heap
<1>1. TypeOK' /\ NoDangling' /\ MembersOfLiving'
  BY DEF Heap, TypeOK, NoDangling, MembersOfLiving
<1>2. \A u \in Threads : Below(u)' = Below(u) /\ Top(u)' = Top(u) /\ \A n : Nth(u, n)' = Nth(u, n)
  BY DEF Below, Depth, Nth, Top
<1>3. StacksOK'
  <2>1. ASSUME NEW u \in Threads, NEW n \in Below(u)' PROVE ItemOK(u, n)'
    BY OtherStack DEF Heap
  <2> QED
    BY <2>1 DEF StacksOK
<1>4. EndsOnce'
  BY <1>2 DEF Heap, EndsOnce, Ends
<1>5. Counted'
  <2>1. \A o \in Objects : Owners(o)' = Owners(o)
    BY DEF Owners
  <2> QED
    BY <2>1 DEF Heap, Counted, CountOK, Undisposed
<1> QED
  BY <1>1, <1>3, <1>4, <1>5 DEF Heap

(* Nothing refers to an object that is not there yet.                      *)
LEMMA UnbornUnowned ==
  ASSUME Heap, NEW o \in Objects, state[o] = "unborn"
  PROVE  /\ \A s \in Slots : slot[s] # o
         /\ \A q \in Objects : member[q] # o
         /\ member[o] = Null
         /\ \A u \in Threads : \A n \in Below(u) : Nth(u, n).obj # o
<1> USE DEF Heap
<1>1. /\ \A s \in Slots : slot[s] # o
      /\ \A q \in Objects : member[q] # o
      /\ member[o] = Null
  BY DEF NoDangling, MembersOfLiving
<1>2. ASSUME NEW u \in Threads, NEW n \in Below(u), Nth(u, n).obj = o
      PROVE  FALSE
  BY <1>2 DEF StacksOK, ItemOK, SelfRef
<1> QED
  BY <1>1, <1>2

(* A reference is elsewhere twice in a step.                               *)
LEMMA CountMovedTwo ==
  ASSUME OwnersByPlace', NEW p, CountOK(p),
         NEW x \in Owners(p), NEW y, y \notin Owners(p),
         NEW z \in Owners(p), z # x, NEW w, w \notin Owners(p), w # y,
         NEW S, S = (((Owners(p) \ {x}) \cup {y}) \ {z}) \cup {w}, OwnersAt(S, p)',
         cnt'[p] = cnt[p], state'[p] = state[p], disposals'[p] = disposals[p]
  PROVE  CountOK(p)'
<1>1. Owners(p)' = S
  BY OwnersNext
<1>2. PICK R : R = (Owners(p) \ {x}) \cup {y}
  OBVIOUS
<1>3. IsFiniteSet(R) /\ Cardinality(R) = Cardinality(Owners(p))
  BY <1>2, Moved DEF CountOK
<1>4. z \in R /\ w \notin R /\ S = (R \ {z}) \cup {w}
  BY <1>2
<1>5. IsFiniteSet(S) /\ Cardinality(S) = Cardinality(R) /\ S # {}
  BY <1>3, <1>4, Moved
<1> QED
  BY <1>1, <1>3, <1>5 DEF CountOK, Undisposed

(* A new object takes over a reference as its member.                      *)
LEMMA MakeHeap ==
  ASSUME Heap, NEW t \in Threads, NEW s \in Slots, NEW r \in Slots, Make(t, s, r)
  PROVE  Heap'
<1> USE DEF Heap
<1>1. PICK o \in Objects :
        /\ Idle(t) /\ s # r /\ state[o] = "unborn"
        /\ state' = [state EXCEPT ![o] = "live"] /\ cnt' = [cnt EXCEPT ![o] = 1]
        /\ member' = [member EXCEPT ![o] = slot[r]]
        /\ slot' = [slot EXCEPT ![r] = Null, ![s] = o]
        /\ todo' = [todo EXCEPT ![t] = Unref(slot[s])]
        /\ UNCHANGED <<disposals, view, release_view>>
  BY DEF Make, views
<1> DEFINE top == <<"slot", s, 0>>
           from == <<"slot", r, 0>>
           new == <<"unref", t, 0>>
           to == <<"member", o, 0>>
<1>2. /\ \A q \in Slots : slot[q] # o
      /\ \A q \in Objects : member[q] # o
      /\ member[o] = Null
      /\ \A u \in Threads : \A n \in Below(u) : Nth(u, n).obj # o
  BY <1>1, UnbornUnowned
<1>3. /\ slot[s] \in Refs /\ (slot[s] # Null => state[slot[s]] = "live")
      /\ slot[r] \in Refs /\ (slot[r] # Null => state[slot[r]] = "live")
  BY DEF TypeOK, NoDangling
<1>4. PICK x \in Refs : x = slot[s]
  BY <1>3
<1>5. PICK y \in Refs : y = slot[r]
  BY <1>3
<1>6. /\ todo' \in [Threads -> Seq(Item)] /\ StacksOK' /\ EndsOnce'
      /\ \A u \in Threads, n \in Nat, p \in Objects :
           Unrefs(u, n, p)' <=> Unrefs(u, n, p) \/ (p = x /\ u = t /\ n = 0)
      /\ \A n \in Nat, p \in Objects : ~Unrefs(t, n, p)
  <2>1. todo' = [todo EXCEPT ![t] = Unref(x)] /\ (x # Null => state'[x] = "live")
    BY <1>1, <1>3, <1>4 DEF TypeOK
  <2>2. \A u \in Threads : \A n \in Below(u) :
           /\ state'[Nth(u, n).obj] = state[Nth(u, n).obj]
           /\ member'[Nth(u, n).obj] \in {member[Nth(u, n).obj], Null}
    BY <1>1, <1>2, ItemsAreItems DEF TypeOK, Item
  <2>3. /\ todo' \in [Threads -> Seq(Item)] /\ StacksOK' /\ EndsOnce'
        /\ \A u \in Threads, n \in Nat, p \in Objects :
             Unrefs(u, n, p)' <=> Unrefs(u, n, p) \/ (x # Null /\ p = x /\ u = t /\ n = 0)
        /\ \A n \in Nat, p \in Objects : ~Unrefs(t, n, p)
    <3>1. TypeOK /\ StacksOK /\ EndsOnce /\ Idle(t)
      BY <1>1
    <3> QED
      BY ZenonT(30), <3>1, <2>1, <2>2, PushStacks
  <2> QED
    BY <2>3
<1>7. TypeOK'
  <2>1. cnt' \in [Objects -> Int]
    BY <1>1 DEF TypeOK
  <2>2. slot' \in [Slots -> Refs] /\ member' \in [Objects -> Refs]
    BY <1>1 DEF TypeOK, Refs
  <2>3. state' \in [Objects -> {"unborn", "live", "dying", "dead"}]
    BY <1>1 DEF TypeOK
  <2> QED
    BY <2>1, <2>2, <2>3, <1>1, <1>6 DEF TypeOK
<1>8. NoDangling'
  <2>1. ASSUME NEW q \in Slots, slot'[q] # Null PROVE state'[slot'[q]] = "live"
    BY <2>1, <1>1, <1>2 DEF TypeOK, NoDangling, Refs
  <2>2. ASSUME NEW q \in Objects, member'[q] # Null PROVE state'[member'[q]] = "live"
    BY <2>2, <1>1, <1>2, <1>3 DEF TypeOK, NoDangling, Refs
  <2> QED
    BY <2>1, <2>2 DEF NoDangling
<1>9. MembersOfLiving'
  BY <1>1 DEF MembersOfLiving, TypeOK
<1>10. OwnersByPlace /\ OwnersByPlace'
  BY <1>7, OwnersArePlaces, PTL
<1>11. ASSUME NEW p \in Objects
       PROVE  CountOK(p)'
  <2>1. OwnersAt(Owners(p), p) /\ CountOK(p)
    BY <1>10 DEF OwnersByPlace, Counted
  <2>2. /\ new \notin Owners(p) /\ to \notin Owners(p)
        /\ (top \in Owners(p) <=> p = x)
        /\ (from \in Owners(p) <=> p = y)
        /\ top # from /\ new # to
    BY <2>1, <1>1, <1>2, <1>4, <1>5, <1>6 DEF OwnersAt
  <2>3. p # o => cnt'[p] = cnt[p] /\ state'[p] = state[p] /\ disposals'[p] = disposals[p]
    BY <1>1 DEF TypeOK
  <2>4. CASE p = o
    <3>1. PICK S : S = {top}
      OBVIOUS
    <3>2. OwnersAt(S, p)'
      <4>1. S \subseteq Places
        BY <3>1 DEF Places
      <4>2. \A q \in Slots : <<"slot", q, 0>> \in S <=> slot'[q] = p
        BY <3>1, <2>4, <1>1, <1>2 DEF OwnersAt, TypeOK
      <4>3. \A q \in Objects : <<"member", q, 0>> \in S <=> member'[q] = p /\ state'[q] # "dead"
        BY <3>1, <2>4, <1>1, <1>2, <1>3 DEF OwnersAt, TypeOK
      <4>4. \A u \in Threads, n \in Nat : <<"unref", u, n>> \in S <=> Unrefs(u, n, p)'
        BY <3>1, <2>4, <1>2, <1>4, <1>6 DEF Unrefs, UnrefOf
      <4> QED
        BY <4>1, <4>2, <4>3, <4>4 DEF OwnersAt, Places
    <3> HIDE DEF top
    <3>3. Owners(o)' = {top}
      BY <3>1, <3>2, <2>4, <1>10, OwnersNext
    <3>4. IsFiniteSet({top}) /\ Cardinality({top}) = 1
      BY FS_Singleton
    <3>5. cnt'[o] = 1 /\ state'[o] = "live" /\ disposals'[o] = 0
      BY <2>1, <2>4, <1>1 DEF TypeOK, CountOK, Undisposed
    <3> QED
      BY <3>3, <3>4, <3>5, <2>4 DEF CountOK, Undisposed
  <2>5. CASE p # o /\ p = x /\ p = y
    <3>1. PICK S : S = (((Owners(p) \ {top}) \cup {new}) \ {from}) \cup {to}
      OBVIOUS
    <3>2. OwnersAt(S, p)'
      <4>1. S \subseteq Places
        BY <3>1, <2>1, <1>1 DEF OwnersAt, Places
      <4>2. \A q \in Slots : <<"slot", q, 0>> \in S <=> slot'[q] = p
        BY <3>1, <2>1, <2>5, <1>1, <1>4, <1>5 DEF OwnersAt, TypeOK
      <4>3. \A q \in Objects : <<"member", q, 0>> \in S <=> member'[q] = p /\ state'[q] # "dead"
        BY <3>1, <2>1, <2>5, <1>1, <1>4, <1>5 DEF OwnersAt, TypeOK
      <4>4. \A u \in Threads, n \in Nat : <<"unref", u, n>> \in S <=> Unrefs(u, n, p)'
        BY <3>1, <2>1, <2>5, <1>6 DEF OwnersAt
      <4> QED
        BY <4>1, <4>2, <4>3, <4>4 DEF OwnersAt, Places
    <3> HIDE DEF top, from, new, to
    <3> QED
      BY <3>1, <3>2, <2>1, <2>2, <2>3, <2>5, <1>10, CountMovedTwo
  <2>6. CASE p # o /\ p = x /\ p # y
    <3>1. PICK S : S = (Owners(p) \ {top}) \cup {new}
      OBVIOUS
    <3>2. OwnersAt(S, p)'
      <4>1. S \subseteq Places
        BY <3>1, <2>1, <1>1 DEF OwnersAt, Places
      <4>2. \A q \in Slots : <<"slot", q, 0>> \in S <=> slot'[q] = p
        BY <3>1, <2>1, <2>6, <1>1, <1>4, <1>5 DEF OwnersAt, TypeOK
      <4>3. \A q \in Objects : <<"member", q, 0>> \in S <=> member'[q] = p /\ state'[q] # "dead"
        BY <3>1, <2>1, <2>6, <1>1, <1>2, <1>4, <1>5 DEF OwnersAt, TypeOK
      <4>4. \A u \in Threads, n \in Nat : <<"unref", u, n>> \in S <=> Unrefs(u, n, p)'
        BY <3>1, <2>1, <2>6, <1>6 DEF OwnersAt
      <4> QED
        BY <4>1, <4>2, <4>3, <4>4 DEF OwnersAt, Places
    <3> HIDE DEF top, from, new, to
    <3> QED
      BY <3>1, <3>2, <2>1, <2>2, <2>3, <2>6, <1>10, CountMoved
  <2>7. CASE p # o /\ p # x /\ p = y
    <3>1. PICK S : S = (Owners(p) \ {from}) \cup {to}
      OBVIOUS
    <3>2. OwnersAt(S, p)'
      <4>1. S \subseteq Places
        BY <3>1, <2>1, <1>1 DEF OwnersAt, Places
      <4>2. \A q \in Slots : <<"slot", q, 0>> \in S <=> slot'[q] = p
        BY <3>1, <2>1, <2>7, <1>1, <1>4, <1>5 DEF OwnersAt, TypeOK
      <4>3. \A q \in Objects : <<"member", q, 0>> \in S <=> member'[q] = p /\ state'[q] # "dead"
        BY <3>1, <2>1, <2>7, <1>1, <1>4, <1>5 DEF OwnersAt, TypeOK
      <4>4. \A u \in Threads, n \in Nat : <<"unref", u, n>> \in S <=> Unrefs(u, n, p)'
        BY <3>1, <2>1, <2>7, <1>6 DEF OwnersAt
      <4> QED
        BY <4>1, <4>2, <4>3, <4>4 DEF OwnersAt, Places
    <3> HIDE DEF top, from, new, to
    <3> QED
      BY <3>1, <3>2, <2>1, <2>2, <2>3, <2>7, <1>10, CountMoved
  <2>8. CASE p # o /\ p # x /\ p # y
    <3>1. PICK S : S = Owners(p)
      OBVIOUS
    <3>2. OwnersAt(S, p)'
      <4>1. S \subseteq Places
        BY <3>1, <2>1, <1>1 DEF OwnersAt, Places
      <4>2. \A q \in Slots : <<"slot", q, 0>> \in S <=> slot'[q] = p
        BY <3>1, <2>1, <2>8, <1>1, <1>4, <1>5 DEF OwnersAt, TypeOK
      <4>3. \A q \in Objects : <<"member", q, 0>> \in S <=> member'[q] = p /\ state'[q] # "dead"
        BY <3>1, <2>1, <2>8, <1>1, <1>2, <1>4, <1>5 DEF OwnersAt, TypeOK
      <4>4. \A u \in Threads, n \in Nat : <<"unref", u, n>> \in S <=> Unrefs(u, n, p)'
        BY <3>1, <2>1, <2>8, <1>6 DEF OwnersAt
      <4> QED
        BY <4>1, <4>2, <4>3, <4>4 DEF OwnersAt, Places
    <3> QED
      BY <3>1, <3>2, <2>1, <2>3, <2>8, <1>10, CountKept
  <2> QED
    BY <2>4, <2>5, <2>6, <2>7, <2>8
<1> QED
  BY <1>6, <1>7, <1>8, <1>9, <1>11 DEF Counted

----------------------------------------------------------------------------
(* The heap stays in order.                                                *)

(* The invariant holds at first ...                                        *)
LEMMA InitHeap == Init => Heap
<1> SUFFICES ASSUME Init PROVE Heap
  OBVIOUS
<1>1. TypeOK
  BY DEF Init, TypeOK, Refs, Accesses
<1>2. NoDangling /\ MembersOfLiving
  BY DEF Init, NoDangling, MembersOfLiving
<1>3. \A u \in Threads : Below(u) = {}
  BY DEF Init, Below, Depth
<1>4. StacksOK /\ EndsOnce
  BY <1>3 DEF StacksOK, EndsOnce
<1>5. ASSUME NEW o \in Objects PROVE CountOK(o)
  <2>1. Owners(o) = {}
    BY DEF Init, Owners
  <2> QED
    BY <2>1, FS_EmptySet DEF Init, CountOK, Undisposed
<1> QED
  BY <1>1, <1>2, <1>4, <1>5 DEF Heap, Counted

(* (using an object changes nothing the invariant is about)                *)
LEMMA TouchHeap ==
  ASSUME Heap, NEW t \in Threads, NEW o \in Objects, NEW known \in SUBSET Accesses,
         Touch(t, o, known)
  PROVE  Heap'
<1>1. view' \in [Threads -> SUBSET Accesses]
  BY DEF Touch, Heap, TypeOK
<1>2. release_view' \in [Objects -> SUBSET Accesses]
  BY DEF Touch, Heap, TypeOK
<1> QED
  BY <1>1, <1>2, SameHeap DEF Touch

(* ... every step keeps it ...                                             *)
LEMMA NextHeap == Sound /\ Heap /\ [Next]_vars => Heap'
<1> SUFFICES ASSUME Sound, Heap, [Next]_vars PROVE Heap'
  OBVIOUS
<1>1. \A t \in Threads : Mine(t) \subseteq Slots
  BY DEF Mine
<1>2. /\ \A s \in Slots : slot[s] \in Refs
      /\ \A s \in Slots : slot[s] # Null => slot[s] \in Objects /\ state[slot[s]] = "live"
      /\ \A o \in Objects : member[o] # Null => member[o] \in Objects /\ state[member[o]] = "live"
  BY DEF Heap, TypeOK, NoDangling, Refs
<1>3. ASSUME NEW t \in Threads, Operate(t) PROVE Heap'
  <2>1. ASSUME NEW s \in Mine(t), NEW r \in Mine(t), Make(t, s, r) PROVE Heap'
    BY <2>1, <1>1, MakeHeap
  <2>2. ASSUME NEW s \in Mine(t), NEW r \in Mine(t), Copy(t, s, r) PROVE Heap'
    <3>1. slot[r] # Null /\ s \in Slots /\ r \in Slots /\ Idle(t) /\ Share(t, s, slot[r])
      BY <2>2, <1>1 DEF Copy, Share
    <3> QED
      BY <3>1, <1>2, ShareHeap
  <2>3. ASSUME NEW s \in Mine(t), NEW r \in Mine(t), CopyMember(t, s, r) PROVE Heap'
    <3>1. /\ slot[r] # Null /\ member[slot[r]] # Null /\ s \in Slots /\ r \in Slots
          /\ Idle(t) /\ Share(t, s, member[slot[r]])
      BY <2>3, <1>1 DEF CopyMember, Share
    <3> QED
      BY <3>1, <1>2, ShareHeap
  <2>4. ASSUME NEW s \in Mine(t), NEW r \in Mine(t), Move(t, s, r) PROVE Heap'
    <3>1. CASE s # r
      BY <3>1, <2>4, <1>1, MoveHeap
    <3>2. CASE s = r
      <4>1. slot' = slot /\ todo' = todo /\ UNCHANGED <<heap, member, view, release_view>>
        BY <3>2, <2>4, <1>1 DEF Move, Heap, TypeOK, views, Idle
      <4> QED
        BY <4>1, SameHeap DEF Heap, TypeOK
    <3> QED
      BY <3>1, <3>2
  <2>5. ASSUME NEW s \in Mine(t), Reset(t, s) PROVE Heap'
    BY <2>5, <1>1, ResetHeap
  <2>6. ASSUME NEW s \in Mine(t), Access(t, s) PROVE Heap'
    <3>1. slot[s] \in Objects /\ Touch(t, slot[s], {})
      BY <2>6, <1>1, <1>2 DEF Access
    <3> QED
      BY <3>1, TouchHeap
  <2>7. ASSUME NEW s \in Mine(t), Unique(t, s) PROVE Heap'
    <3>1. slot[s] \in Objects /\ Touch(t, slot[s], release_view[slot[s]])
      BY <2>7, <1>1, <1>2 DEF Unique
    <3>2. release_view[slot[s]] \in SUBSET Accesses
      BY <3>1 DEF Heap, TypeOK
    <3> QED
      BY <3>1, <3>2, TouchHeap
  <2>8. ASSUME NEW s \in Mine(t), NEW r \in Slots, Send(t, s, r) PROVE Heap'
    BY <2>8, SendHeap
  <2> QED
    BY <1>3, <2>1, <2>2, <2>3, <2>4, <2>5, <2>6, <2>7, <2>8 DEF Operate
<1>4. ASSUME NEW t \in Threads, Proceed(t) PROVE Heap'
  BY <1>4, DecrementHeap, DisposeHeap, DestructorPlainHeap, DestructorSharesHeap,
     DestructorResetsHeap, DestroyMemberHeap, FreeHeap DEF Proceed
<1>5. CASE UNCHANGED vars
  BY <1>5, SameHeap DEF vars, views, Heap, TypeOK
<1> QED
  BY <1>3, <1>4, <1>5 DEF Next

(* ... and so it always holds.                                             *)
LEMMA HeapInvariant == Sound => (Spec => []Heap)
<1> SUFFICES ASSUME Sound PROVE Spec => []Heap
  OBVIOUS
<1>1. Init => Heap
  BY InitHeap
<1>2. Heap /\ [Next]_vars => Heap'
  BY NextHeap
<1> QED
  BY <1>1, <1>2, PTL DEF Spec

----------------------------------------------------------------------------
(* What happens before what.                                               *)

(* Thread t has something to do for o, or refers to it.                    *)
Tends(t, o) == \E n \in Below(t) : Nth(t, n).obj = o

Holds(t, o) == Tends(t, o) \/ \E s \in Mine(t) : slot[s] = o

(* The accesses a are before whatever the holder of a reference to o does, *)
(* when it has released it or, if it is the last one, when it disposes.    *)
Knows(o, a) ==
  \/ state[o] = "live" /\ a \in release_view[o]
  \/ \E t \in Threads : Holds(t, o) /\ a \in view[t]

(* Somebody knows a for each object of S, or another object of S owns it.  *)
Supports(S, a) == \A o \in S : Knows(o, a) \/ \E p \in S : member[p] = o

(* Accesses to an object are not forgotten: they are known for the object, *)
(* or for an owner of the object, or for an owner of its owner, ...        *)
Covered ==
  \A o \in Objects : state[o] = "live" =>
    \A u \in Threads : \E S \in SUBSET Objects : o \in S /\ Supports(S, <<u, o>>)

OwnSeen == \A u \in Threads, o \in Objects : <<u, o>> \in view[u]

UnbornSeen == \A t \in Threads, o \in Objects : state[o] = "unborn" => SeenAll(view[t], o)

DestructorsSee ==
  \A t \in Threads : \A n \in Below(t) :
    Nth(t, n).op = "destructor" => SeenAll(view[t], Nth(t, n).obj)

Views == Covered /\ OwnSeen /\ UnbornSeen /\ DestructorsSee

----------------------------------------------------------------------------
(* What the threads tend after a step, and which destructors are to run.   *)

(* Taking an item off the stack: what the thread still tends.              *)
LEMMA PopTends ==
  ASSUME TypeOK, NEW t \in Threads, NEW op, NEW o, Doing(t, op, o),
         NEW x \in Refs, Continue(t, Unref(x))
  PROVE  /\ \A u \in Threads : \A y : Tends(u, y) => Tends(u, y)' \/ (u = t /\ y = o)
         /\ \A n \in Below(t) : \A y : n # Top(t) /\ Nth(t, n).obj = y => Tends(t, y)'
         /\ x # Null => Tends(t, x)'
         /\ \A u \in Threads : \A n \in Below(u)' :
              Nth(u, n)'.op = "destructor" => n \in Below(u) /\ Nth(u, n)' = Nth(u, n)
<1>0. /\ todo[t] # <<>> /\ Depth(t) \in Nat \ {0} /\ Top(t) \in Below(t) /\ Top(t) \in Nat
      /\ Nth(t, Top(t)) = [op |-> op, obj |-> o] /\ Depth(t) - 1 = Top(t)
  BY TopIsHead DEF Doing, Top
<1>1. /\ \A u \in Threads \ {t} : todo'[u] = todo[u]
      /\ Depth(t)' = IF x = Null THEN Depth(t) - 1 ELSE Depth(t)
      /\ \A n \in 0 .. Depth(t) - 2 : Nth(t, n)' = Nth(t, n)
      /\ x # Null => \A n \in {Top(t)} : Nth(t, n)' = UnrefOf(x)
  BY <1>0, ContinueRef
<1>2. \A u \in Threads \ {t} : Below(u)' = Below(u) /\ \A n : Nth(u, n)' = Nth(u, n)
  BY <1>1, OtherThreads
<1>3. /\ \A n \in Below(t)' : \/ n \in 0 .. Depth(t) - 2 /\ n \in Below(t)
                              \/ x # Null /\ n = Top(t)
      /\ \A n \in Below(t) : n = Top(t) \/ (n \in Below(t)' /\ n \in 0 .. Depth(t) - 2)
      /\ x # Null => Top(t) \in Below(t)'
  BY <1>0, <1>1 DEF Below, Top
<1>4. ASSUME NEW n \in Below(t), NEW y, n # Top(t), Nth(t, n).obj = y
      PROVE  Tends(t, y)'
  <2>1. n \in Below(t)' /\ Nth(t, n)' = Nth(t, n)
    BY <1>1, <1>3, <1>4
  <2> QED
    BY <2>1, <1>4 DEF Tends
<1>5. x # Null => Tends(t, x)'
  BY <1>1, <1>3 DEF Tends, UnrefOf
<1>6. ASSUME NEW u \in Threads, NEW y, Tends(u, y), ~(u = t /\ y = o)
      PROVE  Tends(u, y)'
  <2>1. CASE u # t
    BY <2>1, <1>2, <1>6 DEF Tends
  <2>2. CASE u = t
    <3>1. PICK n \in Below(t) : Nth(t, n).obj = y
      BY <2>2, <1>6 DEF Tends
    <3>2. n # Top(t)
      BY <3>1, <2>2, <1>0, <1>6
    <3> QED
      BY <2>2, <3>1, <3>2, <1>4
  <2> QED
    BY <2>1, <2>2
<1>7. ASSUME NEW u \in Threads, NEW n \in Below(u)', Nth(u, n)'.op = "destructor"
      PROVE  n \in Below(u) /\ Nth(u, n)' = Nth(u, n)
  <2>1. CASE u # t
    BY <2>1, <1>2
  <2>2. CASE u = t
    <3>1. ~(x # Null /\ n = Top(t))
      BY <2>2, <1>1, <1>7 DEF UnrefOf
    <3> QED
      BY <2>2, <3>1, <1>1, <1>3
  <2> QED
    BY <2>1, <2>2
<1> QED
  BY <1>4, <1>5, <1>6, <1>7

(* The same for putting an unref on it.                                    *)
LEMMA PushTends ==
  ASSUME TypeOK, NEW t \in Threads, Idle(t), NEW x \in Refs,
         todo' = [todo EXCEPT ![t] = Unref(x)]
  PROVE  /\ \A u \in Threads : \A y : Tends(u, y) => Tends(u, y)'
         /\ x # Null => Tends(t, x)'
         /\ \A u \in Threads : \A n \in Below(u)' :
              Nth(u, n)'.op = "destructor" => n \in Below(u) /\ Nth(u, n)' = Nth(u, n)
<1>0. Below(t) = {}
  BY DEF Idle, Below, Depth
<1>1. \A u \in Threads \ {t} : todo'[u] = todo[u]
  BY DEF TypeOK
<1>2. \A u \in Threads \ {t} : Below(u)' = Below(u) /\ \A n : Nth(u, n)' = Nth(u, n)
  BY <1>1, OtherThreads
<1>3. todo'[t] = Unref(x)
  BY DEF TypeOK
<1>4. \A n : n \in Below(t)' <=> x # Null /\ n = 0
  <2>1. Unref(x) = IF x = Null THEN <<>> ELSE <<UnrefOf(x)>>
    BY DEF Unref, UnrefOf
  <2>2. CASE x = Null
    <3>1. todo'[t] = <<>>
      BY <1>3, <2>1, <2>2
    <3> QED
      BY <2>2, <3>1 DEF Below, Depth
  <2>3. CASE x # Null
    <3>1. todo'[t] = <<UnrefOf(x)>>
      BY <1>3, <2>1, <2>3
    <3>2. Len(todo'[t]) = 1
      BY <3>1
    <3>3. Depth(t)' = 1
      BY <3>2 DEF Depth
    <3>4. \A n : n \in Below(t)' <=> n \in 0 .. 0
      BY <3>3 DEF Below
    <3> QED
      BY <2>3, <3>4
  <2> QED
    BY <2>2, <2>3
<1>5. x # Null => \A n \in {0} : Nth(t, n)' = UnrefOf(x)
  BY <1>3 DEF Nth, Depth, Unref, UnrefOf
<1> QED
  BY <1>0, <1>2, <1>4, <1>5 DEF Tends, UnrefOf

(* The same for running a destructor.                                      *)
LEMMA DestructorTends ==
  ASSUME TypeOK, NEW t \in Threads, NEW o \in Objects, Doing(t, "destructor", o),
         NEW x \in Refs, Continue(t, Unref(x) \o Then(o))
  PROVE  /\ \A u \in Threads : \A y : Tends(u, y) => Tends(u, y)'
         /\ x # Null => Tends(t, x)'
         /\ \A u \in Threads : \A n \in Below(u)' :
              Nth(u, n)'.op = "destructor" => n \in Below(u) /\ Nth(u, n)' = Nth(u, n)
<1>0. /\ todo[t] # <<>> /\ Depth(t) \in Nat \ {0} /\ Top(t) \in Nat
      /\ Nth(t, Top(t)) = DestructorOf(o) /\ Depth(t) - 1 = Top(t)
  BY TopIsHead DEF Doing, Top, DestructorOf
<1>1. /\ todo' \in [Threads -> Seq(Item)]
      /\ \A u \in Threads \ {t} : todo'[u] = todo[u]
      /\ Depth(t)' = IF x = Null THEN Depth(t) + 1 ELSE Depth(t) + 2
      /\ \A n \in 0 .. Depth(t) - 2 : Nth(t, n)' = Nth(t, n)
      /\ \A n \in {Top(t)} : Nth(t, n)' = FreeOf(o)
      /\ \A n \in {Depth(t)} : Nth(t, n)' = MemberOf(o)
      /\ x # Null => \A n \in {Depth(t) + 1} : Nth(t, n)' = UnrefOf(x)
  BY DestructorItems
<1>2. \A u \in Threads \ {t} : Below(u)' = Below(u) /\ \A n : Nth(u, n)' = Nth(u, n)
  BY <1>1, OtherThreads
<1>3. /\ \A n \in Below(t)' : \/ n \in 0 .. Depth(t) - 2 /\ n \in Below(t)
                              \/ n \in {Top(t)} \/ n \in {Depth(t)}
                              \/ x # Null /\ n \in {Depth(t) + 1}
      /\ \A n \in Below(t) : n \in Below(t)' /\ (n = Top(t) \/ n \in 0 .. Depth(t) - 2)
      /\ x # Null => Depth(t) + 1 \in Below(t)'
  BY <1>0, <1>1 DEF Below, Top
<1>4. ASSUME NEW u \in Threads, NEW y, Tends(u, y)
      PROVE  Tends(u, y)'
  <2>1. CASE u # t
    BY <2>1, <1>2, <1>4 DEF Tends
  <2>2. CASE u = t
    <3>1. PICK n \in Below(t) : Nth(t, n).obj = y
      BY <2>2, <1>4 DEF Tends
    <3>2. n \in Below(t)' /\ Nth(t, n)'.obj = y
      BY <3>1, <1>0, <1>1, <1>3 DEF FreeOf, DestructorOf
    <3> QED
      BY <2>2, <3>2 DEF Tends
  <2> QED
    BY <2>1, <2>2
<1>5. x # Null => Tends(t, x)'
  BY <1>1, <1>3 DEF Tends, UnrefOf
<1>6. ASSUME NEW u \in Threads, NEW n \in Below(u)', Nth(u, n)'.op = "destructor"
      PROVE  n \in Below(u) /\ Nth(u, n)' = Nth(u, n)
  <2>1. CASE u # t
    BY <2>1, <1>2
  <2>2. CASE u = t
    <3>1. n \notin {Top(t)} /\ n \notin {Depth(t)} /\ ~(x # Null /\ n \in {Depth(t) + 1})
      BY <2>2, <1>1, <1>6 DEF UnrefOf, FreeOf, MemberOf
    <3> QED
      BY <2>2, <3>1, <1>1, <1>3
  <2> QED
    BY <2>1, <2>2
<1> QED
  BY <1>4, <1>5, <1>6

----------------------------------------------------------------------------
(* What was known stays known.                                             *)

(* The parts of the invariant that only depend on what is unborn or dying. *)
LEMMA RestOfViews ==
  ASSUME Views,
         \A o \in Objects : state'[o] = "unborn" => state[o] = "unborn",
         \A u \in Threads : view[u] \subseteq view'[u],
         \A u \in Threads : \A n \in Below(u)' :
           Nth(u, n)'.op = "destructor" => n \in Below(u) /\ Nth(u, n)' = Nth(u, n)
  PROVE  OwnSeen' /\ UnbornSeen' /\ DestructorsSee'
<1>1. OwnSeen'
  BY DEF Views, OwnSeen
<1>2. UnbornSeen'
  BY DEF Views, UnbornSeen, SeenAll
<1>3. DestructorsSee'
  BY DEF Views, DestructorsSee, SeenAll
<1> QED
  BY <1>1, <1>2, <1>3

(* Who holds no more than before, and knows no less, is still covered.     *)
LEMMA CoverKept ==
  ASSUME Covered, UNCHANGED member,
         \A o \in Objects : state'[o] = "live" => state[o] = "live",
         \A o \in Objects, a \in Accesses : Knows(o, a) => Knows(o, a)'
  PROVE  Covered'
<1> SUFFICES ASSUME NEW o \in Objects, state'[o] = "live", NEW u \in Threads
             PROVE  \E S \in SUBSET Objects : o \in S /\ Supports(S, <<u, o>>)'
  BY DEF Covered
<1>1. PICK S \in SUBSET Objects : o \in S /\ Supports(S, <<u, o>>)
  BY DEF Covered
<1>2. PICK a \in Accesses : a = <<u, o>>
  BY DEF Accesses
<1>3. Supports(S, a)'
  BY <1>1, <1>2 DEF Supports
<1> QED
  BY <1>1, <1>2, <1>3

(* Most steps only add to what is known, and to who refers to what.        *)
LEMMA NothingForgotten ==
  ASSUME Views, UNCHANGED <<state, member, release_view>>,
         \A u \in Threads : view[u] \subseteq view'[u],
         \A u \in Threads, o \in Objects : Holds(u, o) =>
           \E v \in Threads : Holds(v, o)' /\ view[u] \subseteq view'[v],
         \A u \in Threads : \A n \in Below(u)' :
           Nth(u, n)'.op = "destructor" => n \in Below(u) /\ Nth(u, n)' = Nth(u, n)
  PROVE  Views'
<1>1. ASSUME NEW o \in Objects, NEW a \in Accesses, Knows(o, a) PROVE Knows(o, a)'
  BY <1>1 DEF Knows
<1>2. Covered'
  BY <1>1, CoverKept DEF Views
<1> QED
  BY <1>2, RestOfViews DEF Views

(* Copying a reference.                                                    *)
LEMMA ShareViews ==
  ASSUME Heap, Views, NEW t \in Threads, Idle(t), NEW s \in Mine(t),
         NEW o \in Objects, Share(t, s, o)
  PROVE  Views'
<1>1. /\ s \in Slots /\ slot[s] \in Refs
      /\ slot' = [slot EXCEPT ![s] = o] /\ todo' = [todo EXCEPT ![t] = Unref(slot[s])]
      /\ UNCHANGED <<state, member, view, release_view>>
  BY DEF Share, views, Heap, TypeOK, Mine
<1>2. PICK x \in Refs : x = slot[s]
  BY <1>1
<1>3. /\ \A u \in Threads : \A y : Tends(u, y) => Tends(u, y)'
      /\ x # Null => Tends(t, x)'
      /\ \A u \in Threads : \A n \in Below(u)' :
           Nth(u, n)'.op = "destructor" => n \in Below(u) /\ Nth(u, n)' = Nth(u, n)
  BY <1>1, <1>2, PushTends DEF Heap
<1>4. ASSUME NEW u \in Threads, NEW y \in Objects, Holds(u, y) PROVE Holds(u, y)'
  BY <1>1, <1>2, <1>3, <1>4 DEF Holds, Mine, Heap, TypeOK
<1> QED
  BY <1>1, <1>3, <1>4, NothingForgotten

(* Moving a reference.                                                     *)
LEMMA MoveViews ==
  ASSUME Heap, Views, NEW t \in Threads, NEW s \in Mine(t), NEW r \in Mine(t),
         s # r, Move(t, s, r)
  PROVE  Views'
<1>1. /\ s \in Slots /\ slot[s] \in Refs /\ r \in Slots /\ Idle(t)
      /\ slot' = [[slot EXCEPT ![r] = Null] EXCEPT ![s] = slot[r]]
      /\ todo' = [todo EXCEPT ![t] = Unref(slot[s])]
      /\ UNCHANGED <<state, member, view, release_view>>
  BY DEF Move, heap, views, Heap, TypeOK, Mine
<1>2. PICK x \in Refs : x = slot[s]
  BY <1>1
<1>3. /\ \A u \in Threads : \A y : Tends(u, y) => Tends(u, y)'
      /\ x # Null => Tends(t, x)'
      /\ \A u \in Threads : \A n \in Below(u)' :
           Nth(u, n)'.op = "destructor" => n \in Below(u) /\ Nth(u, n)' = Nth(u, n)
  BY <1>1, <1>2, PushTends DEF Heap
<1>4. ASSUME NEW u \in Threads, NEW y \in Objects, Holds(u, y) PROVE Holds(u, y)'
  BY <1>1, <1>2, <1>3, <1>4 DEF Holds, Mine, Heap, TypeOK
<1> QED
  BY <1>1, <1>3, <1>4, NothingForgotten

(* Giving a reference up.                                                  *)
LEMMA ResetViews ==
  ASSUME Heap, Views, NEW t \in Threads, NEW s \in Mine(t), Reset(t, s)
  PROVE  Views'
<1>1. /\ s \in Slots /\ slot[s] \in Refs /\ Idle(t)
      /\ slot' = [slot EXCEPT ![s] = Null] /\ todo' = [todo EXCEPT ![t] = Unref(slot[s])]
      /\ UNCHANGED <<state, member, view, release_view>>
  BY DEF Reset, heap, views, Heap, TypeOK, Mine
<1>2. PICK x \in Refs : x = slot[s]
  BY <1>1
<1>3. /\ \A u \in Threads : \A y : Tends(u, y) => Tends(u, y)'
      /\ x # Null => Tends(t, x)'
      /\ \A u \in Threads : \A n \in Below(u)' :
           Nth(u, n)'.op = "destructor" => n \in Below(u) /\ Nth(u, n)' = Nth(u, n)
  BY <1>1, <1>2, PushTends DEF Heap
<1>4. ASSUME NEW u \in Threads, NEW y \in Objects, Holds(u, y) PROVE Holds(u, y)'
  BY <1>1, <1>2, <1>3, <1>4 DEF Holds, Mine, Heap, TypeOK
<1> QED
  BY <1>1, <1>3, <1>4, NothingForgotten

(* Handing a reference to another thread, which then knows what the sender does.*)
LEMMA SendViews ==
  ASSUME Heap, Views, NEW t \in Threads, NEW s \in Mine(t), NEW r \in Slots, Send(t, s, r)
  PROVE  Views'
<1>1. /\ s \in Slots /\ SlotOwner[r] \in Threads /\ slot[r] = Null
      /\ slot' = [slot EXCEPT ![s] = Null, ![r] = slot[s]]
      /\ view' = [view EXCEPT ![SlotOwner[r]] = @ \cup view[t]]
      /\ UNCHANGED <<state, member, todo, release_view>>
  BY DEF Send, heap, Mine
<1>2. \A u \in Threads : /\ Below(u)' = Below(u)
                         /\ \A n : Nth(u, n)' = Nth(u, n)
                         /\ \A y : Tends(u, y) => Tends(u, y)'
  BY <1>1 DEF Below, Depth, Nth, Tends
<1>3. /\ view[t] \subseteq view'[SlotOwner[r]]
      /\ \A u \in Threads : view[u] \subseteq view'[u]
  BY <1>1 DEF Heap, TypeOK
<1>4. ASSUME NEW u \in Threads, NEW y \in Objects, Holds(u, y)
      PROVE  \E v \in Threads : Holds(v, y)' /\ view[u] \subseteq view'[v]
  <2>1. CASE Tends(u, y)
    BY <2>1, <1>2, <1>3 DEF Holds
  <2>2. CASE u = t /\ slot[s] = y
    <3>1. slot'[r] = y /\ r \in Mine(SlotOwner[r])
      BY <2>2, <1>1 DEF Heap, TypeOK, Mine
    <3> QED
      BY <2>2, <3>1, <1>1, <1>3 DEF Holds
  <2>3. CASE \E q \in Mine(u) : q # s /\ slot[q] = y
    <3>1. \E q \in Mine(u) : slot'[q] = y
      BY <2>3, <1>1 DEF Heap, TypeOK, Mine
    <3> QED
      BY <3>1, <1>3 DEF Holds
  <2> QED
    BY <2>1, <2>2, <2>3, <1>4 DEF Holds, Mine
<1> QED
  BY <1>1, <1>2, <1>3, <1>4, NothingForgotten

(* Running a destructor, with a reference to its own object or without.    *)
LEMMA DestructorViews ==
  ASSUME Heap, Views, NEW t \in Threads, NEW o \in Objects,
         DestructorPlain(t, o) \/ DestructorShares(t, o)
  PROVE  Views'
<1>1. PICK x \in Refs :
        /\ Doing(t, "destructor", o) /\ Continue(t, Unref(x) \o Then(o))
        /\ UNCHANGED <<state, member, slot, view, release_view>>
  BY NothingFirst DEF DestructorPlain, DestructorShares, heap, views, Refs
<1>2. /\ \A u \in Threads : \A y : Tends(u, y) => Tends(u, y)'
      /\ \A u \in Threads : \A n \in Below(u)' :
           Nth(u, n)'.op = "destructor" => n \in Below(u) /\ Nth(u, n)' = Nth(u, n)
  BY <1>1, DestructorTends DEF Heap
<1>3. ASSUME NEW u \in Threads, NEW y \in Objects, Holds(u, y) PROVE Holds(u, y)'
  BY <1>1, <1>2, <1>3 DEF Holds, Mine
<1> QED
  BY <1>1, <1>2, <1>3, NothingForgotten

(* The same when 1 is stored in the count.                                 *)
LEMMA DestructorResetsViews ==
  ASSUME Heap, Views, NEW t \in Threads, NEW s \in Mine(t), NEW o \in Objects,
         DestructorResets(t, s, o)
  PROVE  Views'
<1>1. /\ s \in Slots /\ slot[s] \in Refs /\ slot' = [slot EXCEPT ![s] = Null]
      /\ Doing(t, "destructor", o) /\ Continue(t, Unref(slot[s]) \o Then(o))
      /\ UNCHANGED <<state, member, view, release_view>>
  BY DEF DestructorResets, heap, views, Heap, TypeOK, Mine
<1>2. PICK x \in Refs : x = slot[s]
  BY <1>1
<1>3. /\ \A u \in Threads : \A y : Tends(u, y) => Tends(u, y)'
      /\ x # Null => Tends(t, x)'
      /\ \A u \in Threads : \A n \in Below(u)' :
           Nth(u, n)'.op = "destructor" => n \in Below(u) /\ Nth(u, n)' = Nth(u, n)
  BY <1>1, <1>2, DestructorTends DEF Heap
<1>4. ASSUME NEW u \in Threads, NEW y \in Objects, Holds(u, y) PROVE Holds(u, y)'
  BY <1>1, <1>2, <1>3, <1>4 DEF Holds, Mine, Heap, TypeOK
<1> QED
  BY <1>1, <1>3, <1>4, NothingForgotten

(* unref() hands what is known to the count, and learns what it holds.     *)
LEMMA DecrementViews ==
  ASSUME Heap, Views, NEW t \in Threads, NEW o \in Objects, Decrement(t, o)
  PROVE  Views'
<1>1. /\ Doing(t, "unref", o) /\ Continue(t, Unref(Null)) /\ Null \in Refs
      /\ UNCHANGED <<state, member, slot>>
      /\ release_view' = [release_view EXCEPT ![o] = @ \cup view[t]]
      /\ view' = [view EXCEPT ![t] = @ \cup release_view[o]]
  BY DEF Decrement, Unref, Refs
<1>2. /\ Top(t) \in Below(t) /\ Nth(t, Top(t)) = UnrefOf(o)
      /\ Top(t) # Top(t) - 1
  BY <1>1, TopIsHead DEF Heap, Doing, UnrefOf, Top
<1>3. /\ \A u \in Threads : \A y : Tends(u, y) => Tends(u, y)' \/ (u = t /\ y = o)
      /\ \A n \in Below(t) : \A y : n # Top(t) /\ Nth(t, n).obj = y => Tends(t, y)'
      /\ \A u \in Threads : \A n \in Below(u)' :
           Nth(u, n)'.op = "destructor" => n \in Below(u) /\ Nth(u, n)' = Nth(u, n)
  BY <1>1, PopTends DEF Heap
<1>4. state[o] = "live" \/ Tends(t, o)'
  <2>1. state[o] = "live" \/ (Top(t) > 0 /\ Nth(t, Top(t) - 1) = MemberOf(o))
    BY <1>2 DEF Heap, StacksOK, ItemOK, SelfRef, UnrefOf
  <2>2. Top(t) > 0 => Top(t) - 1 \in Below(t)
    BY <1>2, UnderIsBelow DEF Heap
  <2>3. MemberOf(o).obj = o
    BY DEF MemberOf
  <2> QED
    BY <1>2, <1>3, <2>1, <2>2, <2>3
<1>5. /\ \A u \in Threads : view[u] \subseteq view'[u]
      /\ \A p \in Objects : release_view[p] \subseteq release_view'[p]
      /\ view[t] \subseteq release_view'[o]
  BY <1>1 DEF Heap, TypeOK
<1>6. ASSUME NEW y \in Objects, NEW a \in Accesses, Knows(y, a) PROVE Knows(y, a)'
  <2>1. CASE state[y] = "live" /\ a \in release_view[y]
    BY <2>1, <1>1, <1>5 DEF Knows
  <2>2. ASSUME NEW u \in Threads, Holds(u, y), a \in view[u] PROVE Knows(y, a)'
    <3>1. CASE Holds(u, y)'
      BY <2>2, <3>1, <1>5 DEF Knows
    <3>2. CASE ~Holds(u, y)'
      <4>1. u = t /\ y = o /\ ~Tends(t, o)'
        BY <2>2, <3>2, <1>1, <1>3 DEF Holds, Mine
      <4> QED
        BY <2>2, <4>1, <1>1, <1>4, <1>5 DEF Knows
    <3> QED
      BY <3>1, <3>2
  <2> QED
    BY <2>1, <2>2, <1>6 DEF Knows
<1>7. Covered'
  BY <1>1, <1>6, CoverKept DEF Views
<1> QED
  BY <1>1, <1>3, <1>5, <1>7, RestOfViews DEF Views

(* The last owner of an object has seen everything, once it has learnt     *)
(* what the others released.                                               *)
LEMMA LastSees ==
  ASSUME Heap, Views, NEW t \in Threads, NEW o \in Objects, state[o] = "live",
         \A q \in Objects : member[q] # o,
         \A u \in Threads : Holds(u, o) => u = t
  PROVE  SeenAll(view[t] \cup release_view[o], o)
<1> SUFFICES ASSUME NEW u \in Threads PROVE <<u, o>> \in view[t] \cup release_view[o]
  BY DEF SeenAll
<1>1. PICK S \in SUBSET Objects : o \in S /\ Supports(S, <<u, o>>)
  BY DEF Views, Covered
<1>2. Knows(o, <<u, o>>)
  BY <1>1 DEF Supports
<1> QED
  BY <1>2 DEF Knows

(* The last owner goes: whoever disposes has seen all that was done.       *)
LEMMA DisposeViews ==
  ASSUME Sound, Heap, Views, NEW t \in Threads, NEW o \in Objects, Dispose(t, o)
  PROVE  Views'
<1>0. /\ todo[t] # <<>> /\ Depth(t) \in Nat \ {0} /\ Top(t) \in Below(t) /\ Top(t) \in Nat
      /\ Nth(t, Top(t)) = UnrefOf(o) /\ Depth(t) - 1 = Top(t)
  BY TopIsHead DEF Heap, Dispose, Doing, UnrefOf, Top
<1>1. DestructorOf(o) \in Item /\ Continue(t, <<DestructorOf(o)>>)
  BY DEF Dispose, DestructorOf, Item
<1>2. /\ \A u \in Threads \ {t} : todo'[u] = todo[u]
      /\ Depth(t)' = Depth(t)
      /\ \A n \in 0 .. Depth(t) - 2 : Nth(t, n)' = Nth(t, n)
      /\ \A n \in {Top(t)} : Nth(t, n)' = DestructorOf(o)
  <2>1. /\ todo' \in [Threads -> Seq(Item)]
        /\ \A u \in Threads \ {t} : todo'[u] = todo[u]
        /\ Depth(t) \in Nat \ {0} /\ Depth(t)' = Depth(t)
        /\ \A n \in 0 .. Depth(t) - 2 : Nth(t, n)' = Nth(t, n)
        /\ \A n \in {Depth(t) - 1} : Nth(t, n)' = DestructorOf(o)
    BY <1>0, <1>1, ContinueOne, Zenon DEF Heap
  <2> QED
    BY <1>0, <2>1
<1>3. \A u \in Threads \ {t} : Below(u)' = Below(u) /\ \A n : Nth(u, n)' = Nth(u, n)
  BY <1>2, OtherThreads
<1>4. /\ Below(t)' = Below(t)
      /\ \A n \in Below(t) : n = Top(t) \/ n \in 0 .. Depth(t) - 2
  BY <1>0, <1>2 DEF Below, Top
<1>5. /\ state[o] = "live" /\ state' = [state EXCEPT ![o] = "dying"]
      /\ UNCHANGED <<slot, member>>
      /\ release_view' = [release_view EXCEPT ![o] = @ \cup view[t]]
      /\ view' = [view EXCEPT ![t] = @ \cup release_view[o]]
      /\ \A s \in Slots : slot[s] # o
      /\ \A q \in Objects : member[q] # o
      /\ \A u \in Threads : \A n \in Below(u) :
           Nth(u, n).obj = o => u = t /\ n = Top(t)
  BY LastOwner DEF Dispose
<1>6. /\ \A u \in Threads : view[u] \subseteq view'[u]
      /\ \A p \in Objects : release_view[p] \subseteq release_view'[p]
      /\ view'[t] = view[t] \cup release_view[o]
  BY <1>5 DEF Heap, TypeOK
<1>7. ASSUME NEW u \in Threads, NEW y \in Objects, Holds(u, y) PROVE Holds(u, y)'
  <2>1. CASE \E s \in Mine(u) : slot[s] = y
    BY <2>1, <1>5 DEF Holds, Mine
  <2>2. ASSUME NEW n \in Below(u), Nth(u, n).obj = y PROVE Tends(u, y)'
    <3>1. CASE u = t /\ n = Top(t)
      <4>1. n \in Below(t)' /\ Nth(t, n)' = DestructorOf(o) /\ y = o
        BY <2>2, <3>1, <1>0, <1>2, <1>4 DEF UnrefOf
      <4> QED
        BY <3>1, <4>1 DEF Tends, DestructorOf
    <3>2. CASE ~(u = t /\ n = Top(t))
      BY <2>2, <3>2, <1>2, <1>3, <1>4 DEF Tends
    <3> QED
      BY <3>1, <3>2
  <2> QED
    BY <2>1, <2>2, <1>7 DEF Holds, Tends
<1>8. ASSUME NEW y \in Objects, NEW a \in Accesses, Knows(y, a) PROVE Knows(y, a)'
  <2>1. CASE state[y] = "live" /\ a \in release_view[y] /\ y # o
    BY <2>1, <1>5, <1>6 DEF Knows, Heap, TypeOK
  <2>2. CASE a \in release_view[y] /\ y = o
    <3>1. Holds(t, o)
      BY <1>0 DEF Holds, Tends, UnrefOf
    <3> QED
      BY <2>2, <3>1, <1>6, <1>7 DEF Knows
  <2>3. CASE \E u \in Threads : Holds(u, y) /\ a \in view[u]
    BY <2>3, <1>6, <1>7 DEF Knows
  <2> QED
    BY <2>1, <2>2, <2>3, <1>8 DEF Knows
<1>9. /\ \A p \in Objects : state'[p] = "live" => state[p] = "live"
      /\ \A p \in Objects : state'[p] = "unborn" => state[p] = "unborn"
  BY <1>5 DEF Heap, TypeOK
<1>10. Covered'
  BY <1>5, <1>8, <1>9, CoverKept DEF Views
<1>11. OwnSeen'
  BY <1>6 DEF Views, OwnSeen
<1>12. UnbornSeen'
  BY <1>6, <1>9 DEF Views, UnbornSeen, SeenAll
<1>13. DestructorsSee'
  <2> SUFFICES ASSUME NEW u \in Threads, NEW n \in Below(u)', Nth(u, n)'.op = "destructor"
               PROVE  SeenAll(view'[u], Nth(u, n)'.obj)
    BY DEF DestructorsSee
  <2>1. CASE u = t /\ n = Top(t)
    <3>1. \A v \in Threads : Holds(v, o) => v = t
      BY <1>5 DEF Holds, Tends, Mine
    <3>2. SeenAll(view[t] \cup release_view[o], o)
      BY <3>1, <1>5, LastSees
    <3>3. Nth(u, n)'.obj = o
      BY <2>1, <1>2 DEF DestructorOf
    <3> QED
      BY <2>1, <3>2, <3>3, <1>6
  <2>2. CASE ~(u = t /\ n = Top(t))
    <3>1. n \in Below(u) /\ Nth(u, n)' = Nth(u, n)
      BY <2>2, <1>2, <1>3, <1>4
    <3> QED
      BY <3>1, <1>6 DEF Views, DestructorsSee, SeenAll
  <2> QED
    BY <2>1, <2>2
<1> QED
  BY <1>10, <1>11, <1>12, <1>13 DEF Views

(* What is being destroyed is held by the thread that does it.             *)
LEMMA DyingHeld ==
  ASSUME Heap, NEW t \in Threads, NEW n \in Below(t), NEW o \in Objects,
         Nth(t, n) = FreeOf(o), state[o] = "dying",
         NEW u \in Threads, Holds(u, o)
  PROVE  u = t
<1> USE DEF Heap
<1>1. PICK k \in Below(u) : Nth(u, k).obj = o
  BY DEF Holds, Tends, NoDangling, Mine
<1>2. ASSUME NEW i \in Below(u), Nth(u, i) \in {FreeOf(o), DestructorOf(o)}
      PROVE  u = t
  BY <1>2 DEF EndsOnce, Ends, FreeOf, DestructorOf
<1>3. ASSUME NEW i \in Below(u), Nth(u, i) = MemberOf(o)
      PROVE  u = t
  <2>1. Nth(u, i).op = "member" /\ Nth(u, i).obj = o /\ ItemOK(u, i)
    BY <1>3 DEF StacksOK, MemberOf
  <2>2. Nth(u, i - 1) = FreeOf(o) /\ i - 1 \in Below(u)
    BY <2>1, UnderIsBelow DEF ItemOK
  <2> QED
    BY <2>2, <1>2
<1>4. CASE Nth(u, k).op = "unref"
  <2>1. Nth(u, k - 1) = MemberOf(o) /\ k > 0
    BY <1>1, <1>4 DEF StacksOK, ItemOK, SelfRef
  <2> QED
    BY <2>1, <1>3, UnderIsBelow
<1>5. CASE Nth(u, k).op # "unref"
  <2>1. Nth(u, k) \in {FreeOf(o), DestructorOf(o), MemberOf(o)}
    BY <1>1, <1>5, ItemsAreItems DEF Item, FreeOf, DestructorOf, MemberOf
  <2> QED
    BY <2>1, <1>2, <1>3
<1> QED
  BY <1>4, <1>5

(* The member's reference is the thread's now: it knows what was known.    *)
LEMMA DestroyMemberViews ==
  ASSUME Heap, Views, NEW t \in Threads, NEW o \in Objects, DestroyMember(t, o)
  PROVE  Views'
<1>1. /\ member[o] \in Refs /\ member' = [member EXCEPT ![o] = Null]
      /\ Doing(t, "member", o) /\ Continue(t, Unref(member[o]))
      /\ UNCHANGED <<state, slot, view, release_view>>
  BY DEF DestroyMember, heap, views, Heap, TypeOK
<1>2. PICK x \in Refs : x = member[o]
  BY <1>1
<1>3. /\ \A u \in Threads : \A y : Tends(u, y) => Tends(u, y)' \/ (u = t /\ y = o)
      /\ \A n \in Below(t) : \A y : n # Top(t) /\ Nth(t, n).obj = y => Tends(t, y)'
      /\ x # Null => Tends(t, x)'
      /\ \A u \in Threads : \A n \in Below(u)' :
           Nth(u, n)'.op = "destructor" => n \in Below(u) /\ Nth(u, n)' = Nth(u, n)
  BY <1>1, <1>2, PopTends DEF Heap
<1>4. /\ state[o] = "dying" /\ Top(t) - 1 \in Below(t) /\ Nth(t, Top(t) - 1) = FreeOf(o)
      /\ Top(t) # Top(t) - 1
  <2>1. /\ Top(t) \in Below(t) /\ Nth(t, Top(t)) = MemberOf(o) /\ Top(t) # Top(t) - 1
    BY <1>1, TopIsHead DEF Heap, Doing, MemberOf, Top
  <2>2. Nth(t, Top(t)).op = "member" /\ Nth(t, Top(t)).obj = o /\ ItemOK(t, Top(t))
    BY <2>1 DEF Heap, StacksOK, MemberOf
  <2> QED
    BY <2>1, <2>2, UnderIsBelow DEF ItemOK, Heap
<1>5. Tends(t, o)'
  <2>1. FreeOf(o).obj = o
    BY DEF FreeOf
  <2> QED
    BY <2>1, <1>3, <1>4
<1>6. ASSUME NEW u \in Threads, NEW y \in Objects, Holds(u, y) PROVE Holds(u, y)'
  BY <1>1, <1>3, <1>5, <1>6 DEF Holds, Mine
<1>7. ASSUME NEW y \in Objects, NEW a \in Accesses, Knows(y, a) PROVE Knows(y, a)'
  BY <1>1, <1>6, <1>7 DEF Knows
<1>8. ASSUME NEW S \in SUBSET Objects, NEW a \in Accesses, Supports(S, a)
      PROVE  Supports(S, a)'
  <2> SUFFICES ASSUME NEW y \in S, ~Knows(y, a)' PROVE \E p \in S : member'[p] = y
    BY DEF Supports
  <2>1. PICK p \in S : member[p] = y
    BY <1>7, <1>8 DEF Supports
  <2>2. CASE p # o
    BY <2>1, <2>2, <1>1 DEF Heap, TypeOK
  <2>3. CASE p = o
    <3>1. Knows(o, a)
      <4>1. \A q \in Objects : member[q] # o
        BY <1>4 DEF Heap, NoDangling
      <4> QED
        BY <2>3, <4>1, <1>8 DEF Supports
    <3>2. PICK u \in Threads : Holds(u, o) /\ a \in view[u]
      BY <3>1, <1>4 DEF Knows
    <3>3. u = t
      BY <3>2, <1>4, DyingHeld
    <3>4. Holds(t, y)'
      BY <2>1, <2>3, <1>2, <1>3 DEF Holds
    <3> QED
      BY <3>2, <3>3, <3>4, <1>1 DEF Knows
  <2> QED
    BY <2>2, <2>3
<1>9. Covered'
  <2> SUFFICES ASSUME NEW y \in Objects, state'[y] = "live", NEW u \in Threads
               PROVE  \E S \in SUBSET Objects : y \in S /\ Supports(S, <<u, y>>)'
    BY DEF Covered
  <2>1. PICK S \in SUBSET Objects : y \in S /\ Supports(S, <<u, y>>)
    BY <1>1 DEF Views, Covered
  <2>2. PICK a \in Accesses : a = <<u, y>>
    BY DEF Accesses
  <2> QED
    BY <2>1, <2>2, <1>8
<1> QED
  BY <1>1, <1>3, <1>9, RestOfViews DEF Views

(* Nothing depends on an object that is freed.                             *)
LEMMA FreeViews ==
  ASSUME Heap, Views, NEW t \in Threads, NEW o \in Objects, Free(t, o)
  PROVE  Views'
<1>1. /\ Doing(t, "free", o) /\ Continue(t, Unref(Null)) /\ Null \in Refs
      /\ state' = [state EXCEPT ![o] = "dead"]
      /\ UNCHANGED <<slot, member, view, release_view>>
  BY DEF Free, Unref, views, Refs
<1>2. /\ \A u \in Threads : \A y : Tends(u, y) => Tends(u, y)' \/ (u = t /\ y = o)
      /\ \A u \in Threads : \A n \in Below(u)' :
           Nth(u, n)'.op = "destructor" => n \in Below(u) /\ Nth(u, n)' = Nth(u, n)
  BY <1>1, PopTends DEF Heap
<1>3. state[o] = "dying" /\ member[o] = Null
  <2>1. /\ Top(t) \in Below(t) /\ Nth(t, Top(t)).op = "free" /\ Nth(t, Top(t)).obj = o
    BY <1>1, TopIsHead DEF Heap, Doing
  <2>2. ItemOK(t, Top(t)) /\ ~(Top(t) < Top(t))
    BY <2>1, <1>1, TopIsHead DEF Heap, StacksOK, Doing, Top
  <2> QED
    BY <2>1, <2>2 DEF ItemOK
<1>4. ASSUME NEW u \in Threads, NEW y \in Objects \ {o}, Holds(u, y) PROVE Holds(u, y)'
  BY <1>1, <1>2, <1>4 DEF Holds, Mine
<1>5. ASSUME NEW y \in Objects \ {o}, NEW a \in Accesses, Knows(y, a) PROVE Knows(y, a)'
  BY <1>1, <1>4, <1>5 DEF Knows, Heap, TypeOK
<1>6. Covered'
  <2> SUFFICES ASSUME NEW y \in Objects, state'[y] = "live", NEW u \in Threads
               PROVE  \E S \in SUBSET Objects : y \in S /\ Supports(S, <<u, y>>)'
    BY DEF Covered
  <2>1. y # o /\ state[y] = "live"
    BY <1>1 DEF Heap, TypeOK
  <2>2. PICK S \in SUBSET Objects : y \in S /\ Supports(S, <<u, y>>)
    BY <2>1 DEF Views, Covered
  <2>3. PICK a \in Accesses : a = <<u, y>>
    BY DEF Accesses
  <2>4. Supports(S \ {o}, a)'
    <3> SUFFICES ASSUME NEW z \in S \ {o}, ~Knows(z, a)'
                 PROVE  \E p \in S \ {o} : member'[p] = z
      BY <1>1 DEF Supports
    <3>1. PICK p \in S : member[p] = z
      BY <1>5, <2>2, <2>3 DEF Supports
    <3> QED
      BY <3>1, <1>1, <1>3
  <2> QED
    BY <2>1, <2>2, <2>3, <2>4
<1>7. \A p \in Objects : state'[p] = "unborn" => state[p] = "unborn"
  BY <1>1 DEF Heap, TypeOK
<1> QED
  BY <1>1, <1>2, <1>6, <1>7, RestOfViews DEF Views

(* What is known of an object through the variable that the new one takes  *)
(* over is known through the new one.                                      *)
LEMMA MakeViews ==
  ASSUME Heap, Views, NEW t \in Threads, NEW s \in Mine(t), NEW r \in Mine(t), Make(t, s, r)
  PROVE  Views'
<1>1. PICK o \in Objects :
        /\ Idle(t) /\ s # r /\ state[o] = "unborn" /\ s \in Slots /\ r \in Slots
        /\ state' = [state EXCEPT ![o] = "live"]
        /\ member' = [member EXCEPT ![o] = slot[r]]
        /\ slot' = [slot EXCEPT ![r] = Null, ![s] = o]
        /\ todo' = [todo EXCEPT ![t] = Unref(slot[s])]
        /\ UNCHANGED <<view, release_view>>
  BY DEF Make, views, Mine
<1>2. /\ \A q \in Slots : slot[q] # o
      /\ \A q \in Objects : member[q] # o
      /\ member[o] = Null
      /\ \A u \in Threads : \A n \in Below(u) : Nth(u, n).obj # o
  BY <1>1, UnbornUnowned
<1>3. slot[s] \in Refs /\ slot[r] \in Refs
  BY <1>1 DEF Heap, TypeOK
<1>4. PICK x \in Refs : x = slot[s]
  BY <1>3
<1>5. /\ \A u \in Threads : \A y : Tends(u, y) => Tends(u, y)'
      /\ x # Null => Tends(t, x)'
      /\ \A u \in Threads : \A n \in Below(u)' :
           Nth(u, n)'.op = "destructor" => n \in Below(u) /\ Nth(u, n)' = Nth(u, n)
  BY <1>1, <1>4, PushTends DEF Heap
<1>6. Holds(t, o)'
  BY <1>1 DEF Holds, Mine, Heap, TypeOK
<1>7. ASSUME NEW u \in Threads, NEW y \in Objects, Holds(u, y), ~(u = t /\ y = slot[r])
      PROVE  Holds(u, y)'
  BY <1>1, <1>4, <1>5, <1>7 DEF Holds, Mine, Heap, TypeOK
<1>8. ASSUME NEW y \in Objects, NEW a \in Accesses, Knows(y, a)
      PROVE  Knows(y, a)' \/ (y = slot[r] /\ a \in view[t])
  <2>1. CASE state[y] = "live" /\ a \in release_view[y]
    BY <2>1, <1>1 DEF Knows, Heap, TypeOK
  <2>2. CASE \E u \in Threads : Holds(u, y) /\ a \in view[u]
    BY <2>2, <1>1, <1>7 DEF Knows
  <2> QED
    BY <2>1, <2>2, <1>8 DEF Knows
<1>9. Covered'
  <2> SUFFICES ASSUME NEW y \in Objects, state'[y] = "live", NEW u \in Threads
               PROVE  \E S \in SUBSET Objects : y \in S /\ Supports(S, <<u, y>>)'
    BY DEF Covered
  <2>1. PICK a \in Accesses : a = <<u, y>>
    BY DEF Accesses
  <2>2. CASE y = o
    <3>1. a \in view[t]
      BY <2>1, <2>2, <1>1 DEF Views, UnbornSeen, SeenAll
    <3>2. Supports({o}, a)'
      BY <3>1, <1>1, <1>6 DEF Supports, Knows
    <3> QED
      BY <2>1, <2>2, <3>2
  <2>3. CASE y # o
    <3>1. PICK S \in SUBSET Objects : y \in S /\ Supports(S, a)
      BY <2>1, <2>3, <1>1 DEF Views, Covered, Heap, TypeOK
    <3>2. ASSUME NEW z \in S, NEW p \in S, member[p] = z PROVE member'[p] = z
      BY <3>2, <1>1, <1>2 DEF Heap, TypeOK
    <3>3. CASE a \in view[t]
      <4>1. Supports(S \cup {o}, a)'
        <5> SUFFICES ASSUME NEW z \in S \cup {o}, ~Knows(z, a)'
                     PROVE  \E p \in S \cup {o} : member'[p] = z
          BY DEF Supports
        <5>1. z # o
          BY <3>3, <1>1, <1>6 DEF Knows
        <5>2. CASE z = slot[r]
          BY <5>2, <1>1 DEF Heap, TypeOK
        <5>3. CASE z # slot[r]
          <6>1. ~Knows(z, a) /\ z \in S
            BY <5>1, <5>3, <1>8
          <6>2. PICK p \in S : member[p] = z
            BY <6>1, <3>1 DEF Supports
          <6> QED
            BY <6>1, <6>2, <3>2
        <5> QED
          BY <5>2, <5>3
      <4> QED
        BY <4>1, <2>1, <3>1
    <3>4. CASE a \notin view[t]
      <4>1. Supports(S, a)'
        BY <3>1, <3>2, <3>4, <1>8 DEF Supports
      <4> QED
        BY <4>1, <2>1, <3>1
    <3> QED
      BY <3>3, <3>4
  <2> QED
    BY <2>2, <2>3
<1>10. \A p \in Objects : state'[p] = "unborn" => state[p] = "unborn"
  BY <1>1 DEF Heap, TypeOK
<1> QED
  BY <1>1, <1>5, <1>9, <1>10, RestOfViews DEF Views

(* After an access to o only the thread that made it has seen it: others   *)
(* learn of it through its reference.                                      *)
LEMMA TouchViews ==
  ASSUME Heap, Views, NEW t \in Threads, NEW s \in Mine(t), NEW o \in Objects,
         slot[s] = o, NEW known \in SUBSET Accesses, Touch(t, o, known)
  PROVE  Views'
<1>1. /\ s \in Slots /\ state[o] = "live"
      /\ view' = [u \in Threads |-> IF u = t THEN view[u] \cup known
                                             ELSE view[u] \ {<<t, o>>}]
      /\ release_view' = [p \in Objects |-> release_view[p] \ {<<t, o>>}]
      /\ UNCHANGED <<state, slot, member, todo>>
  BY DEF Touch, heap, Mine, Heap, NoDangling, TypeOK, Refs
<1>2. \A u \in Threads : /\ Below(u)' = Below(u)
                         /\ \A n : Nth(u, n)' = Nth(u, n)
                         /\ \A y : Holds(u, y)' <=> Holds(u, y)
  BY <1>1 DEF Below, Depth, Nth, Tends, Holds
<1>3. ASSUME NEW u \in Threads, NEW a \in view[u], a # <<t, o>> PROVE a \in view'[u]
  BY <1>1, <1>3
<1>4. OwnSeen'
  <2> SUFFICES ASSUME NEW u \in Threads, NEW p \in Objects PROVE <<u, p>> \in view'[u]
    BY DEF OwnSeen
  <2>1. <<u, p>> \in view[u]
    BY DEF Views, OwnSeen
  <2> QED
    BY <2>1, <1>1
<1>5. UnbornSeen'
  BY <1>1, <1>3 DEF Views, UnbornSeen, SeenAll
<1>6. DestructorsSee'
  <2> SUFFICES ASSUME NEW u \in Threads, NEW n \in Below(u), Nth(u, n).op = "destructor",
                      NEW v \in Threads
               PROVE  <<v, Nth(u, n).obj>> \in view'[u]
    BY <1>2 DEF DestructorsSee, SeenAll
  <2>1. state[Nth(u, n).obj] = "dying"
    BY DEF Heap, StacksOK, ItemOK
  <2>2. <<v, Nth(u, n).obj>> \in view[u]
    BY DEF Views, DestructorsSee, SeenAll
  <2> QED
    BY <2>1, <2>2, <1>1, <1>3
<1>7. ASSUME NEW y \in Objects, NEW a \in Accesses, a # <<t, o>>, Knows(y, a)
      PROVE  Knows(y, a)'
  BY <1>1, <1>2, <1>3, <1>7 DEF Knows
<1>8. Covered'
  <2> SUFFICES ASSUME NEW y \in Objects, state'[y] = "live", NEW u \in Threads
               PROVE  \E S \in SUBSET Objects : y \in S /\ Supports(S, <<u, y>>)'
    BY DEF Covered
  <2>1. PICK a \in Accesses : a = <<u, y>>
    BY DEF Accesses
  <2>2. CASE a = <<t, o>>
    <3>1. a \in view'[t]
      BY <2>2, <1>4 DEF OwnSeen
    <3>2. y = o /\ Holds(t, o)'
      BY <2>1, <2>2, <1>1 DEF Holds, Mine
    <3>3. Supports({y}, a)'
      BY <3>1, <3>2 DEF Supports, Knows
    <3> QED
      BY <2>1, <3>3
  <2>3. CASE a # <<t, o>>
    <3>1. PICK S \in SUBSET Objects : y \in S /\ Supports(S, a)
      BY <2>1, <1>1 DEF Views, Covered
    <3>2. Supports(S, a)'
      BY <3>1, <2>3, <1>1, <1>7 DEF Supports
    <3> QED
      BY <2>1, <3>1, <3>2
  <2> QED
    BY <2>2, <2>3
<1> QED
  BY <1>4, <1>5, <1>6, <1>8 DEF Views

(* The second invariant holds at first ...                                 *)
LEMMA InitViews == Init => Views
<1> SUFFICES ASSUME Init PROVE Views
  OBVIOUS
<1>1. Covered /\ OwnSeen /\ UnbornSeen
  BY DEF Init, Covered, OwnSeen, UnbornSeen, SeenAll, Accesses
<1>2. \A u \in Threads : Below(u) = {}
  BY DEF Init, Below, Depth
<1> QED
  BY <1>1, <1>2 DEF Views, DestructorsSee

(* ... every step keeps it, given the first ...                            *)
LEMMA NextViews == Sound /\ Heap /\ Views /\ [Next]_vars => Views'
<1> SUFFICES ASSUME Sound, Heap, Views, [Next]_vars PROVE Views'
  OBVIOUS
<1>1. \A t \in Threads : \A s \in Mine(t) :
        slot[s] # Null => slot[s] \in Objects
  BY DEF Heap, TypeOK, Refs, Mine
<1>2. \A o \in Objects : member[o] # Null => member[o] \in Objects
  BY DEF Heap, TypeOK, Refs
<1>3. CASE UNCHANGED <<heap, slot, member, todo, view, release_view>>
  <2>1. UNCHANGED <<state, slot, member, todo, view, release_view>>
    BY <1>3 DEF heap
  <2>2. \A u \in Threads : /\ Below(u)' = Below(u)
                           /\ \A n : Nth(u, n)' = Nth(u, n)
                           /\ \A y : Holds(u, y)' <=> Holds(u, y)
    BY <2>1 DEF Below, Depth, Nth, Tends, Holds
  <2> QED
    BY <2>1, <2>2, NothingForgotten
<1>4. ASSUME NEW t \in Threads, Operate(t) PROVE Views'
  <2>1. ASSUME NEW s \in Mine(t), NEW r \in Mine(t), Make(t, s, r) PROVE Views'
    BY <2>1, MakeViews
  <2>2. ASSUME NEW s \in Mine(t), NEW r \in Mine(t), Copy(t, s, r) PROVE Views'
    <3>1. slot[r] # Null /\ Idle(t) /\ Share(t, s, slot[r])
      BY <2>2 DEF Copy, Share
    <3> QED
      BY <3>1, <1>1, ShareViews
  <2>3. ASSUME NEW s \in Mine(t), NEW r \in Mine(t), CopyMember(t, s, r) PROVE Views'
    <3>1. /\ slot[r] # Null /\ member[slot[r]] # Null
          /\ Idle(t) /\ Share(t, s, member[slot[r]])
      BY <2>3 DEF CopyMember, Share
    <3> QED
      BY <3>1, <1>1, <1>2, ShareViews
  <2>4. ASSUME NEW s \in Mine(t), NEW r \in Mine(t), Move(t, s, r) PROVE Views'
    <3>1. CASE s # r
      BY <3>1, <2>4, MoveViews
    <3>2. CASE s = r
      <4>1. slot' = slot /\ todo' = todo /\ UNCHANGED <<heap, member, view, release_view>>
        BY <3>2, <2>4 DEF Move, Heap, TypeOK, views, Idle, Mine
      <4> QED
        BY <4>1, <1>3
    <3> QED
      BY <3>1, <3>2
  <2>5. ASSUME NEW s \in Mine(t), Reset(t, s) PROVE Views'
    BY <2>5, ResetViews
  <2>6. ASSUME NEW s \in Mine(t), Access(t, s) PROVE Views'
    <3>1. slot[s] \in Objects /\ Touch(t, slot[s], {})
      BY <2>6, <1>1 DEF Access
    <3> QED
      BY <3>1, TouchViews
  <2>7. ASSUME NEW s \in Mine(t), Unique(t, s) PROVE Views'
    <3>1. slot[s] \in Objects /\ Touch(t, slot[s], release_view[slot[s]])
      BY <2>7, <1>1 DEF Unique
    <3>2. release_view[slot[s]] \in SUBSET Accesses
      BY <3>1 DEF Heap, TypeOK
    <3> QED
      BY <3>1, <3>2, TouchViews
  <2>8. ASSUME NEW s \in Mine(t), NEW r \in Slots, Send(t, s, r) PROVE Views'
    BY <2>8, SendViews
  <2> QED
    BY <1>4, <2>1, <2>2, <2>3, <2>4, <2>5, <2>6, <2>7, <2>8 DEF Operate
<1>5. ASSUME NEW t \in Threads, Proceed(t) PROVE Views'
  BY <1>5, DecrementViews, DisposeViews, DestructorViews, DestructorResetsViews,
     DestroyMemberViews, FreeViews DEF Proceed
<1>6. CASE UNCHANGED vars
  BY <1>6, <1>3 DEF vars, views
<1> QED
  BY <1>4, <1>5, <1>6 DEF Next

(* ... and so both always hold.                                            *)
LEMMA Invariant == Sound => (Spec => [](Heap /\ Views))
<1> SUFFICES ASSUME Sound PROVE Spec => [](Heap /\ Views)
  OBVIOUS
<1>1. Init => Heap /\ Views
  BY InitHeap, InitViews
<1>2. Heap /\ Views /\ [Next]_vars => Heap' /\ Views'
  BY NextHeap, NextViews
<1> QED
  BY <1>1, <1>2, PTL DEF Spec

----------------------------------------------------------------------------
(* The properties.                                                         *)

(* Every variable has its type in every state.                             *)
THEOREM TypeCorrect == Sound => (Spec => []TypeOK)
<1> SUFFICES ASSUME Sound PROVE Spec => []TypeOK
  OBVIOUS
<1>1. Heap => TypeOK
  BY DEF Heap
<1> QED
  BY <1>1, Invariant, PTL

(* The count of a live object is the number of its owners: variables,      *)
(* members, and unref() calls in progress; and it is not 0 (sp.hpp:63-98). *)
THEOREM CountsAreOwners == Sound => (Spec => []CountIsOwners)
<1> SUFFICES ASSUME Sound PROVE Spec => []CountIsOwners
  OBVIOUS
<1>1. Heap => CountIsOwners
  <2> SUFFICES ASSUME Heap, NEW o \in Objects, state[o] = "live"
               PROVE  cnt[o] = Cardinality(Owners(o)) /\ cnt[o] > 0
    BY DEF CountIsOwners
  <2>1. /\ IsFiniteSet(Owners(o)) /\ Owners(o) # {}
        /\ cnt[o] = Cardinality(Owners(o)) + 0 /\ cnt[o] \in Int
    BY DEF Heap, Counted, CountOK, Undisposed, TypeOK
  <2>2. Cardinality(Owners(o)) \in Nat /\ Cardinality(Owners(o)) # 0
    BY <2>1, FS_CardinalityType, FS_EmptySet
  <2> QED
    BY <2>1, <2>2
<1> QED
  BY <1>1, Invariant, PTL

(* No sp points to an object that is being or has been destroyed, also     *)
(* when destructors reset the variables that are being reset.              *)
THEOREM NothingDangles == Sound => (Spec => []NoDangling)
<1> SUFFICES ASSUME Sound PROVE Spec => []NoDangling
  OBVIOUS
<1>1. Heap => NoDangling
  BY DEF Heap
<1> QED
  BY <1>1, Invariant, PTL

(* An object whose count is set to 1 before the deleter is disposed of     *)
(* once, and the count is 1 again when the assertion is reached.           *)
THEOREM DisposedOfOnce == StoresOne => (Spec => []DisposedOnce)
<1> SUFFICES ASSUME StoresOne PROVE Spec => []DisposedOnce
  OBVIOUS
<1>0. Sound
  BY DEF Sound
<1>1. Heap => DisposedOnce
  <2> SUFFICES ASSUME Heap PROVE DisposedOnce
    OBVIOUS
  <2> USE DEF Heap
  <2>1. \A o \in Objects : disposals[o] <= 1
    BY DEF Counted, CountOK
  <2>2. ASSUME NEW t \in Threads, NEW o \in Objects, Doing(t, "free", o)
        PROVE  cnt[o] = 1
    <3>1. Top(t) \in Below(t) /\ Nth(t, Top(t)) = FreeOf(o) /\ Top(t) \in Nat
      BY <2>2, TopIsHead DEF FreeOf, Top
    <3>2. state[o] = "dying"
      BY <3>1 DEF StacksOK, ItemOK, FreeOf
    <3>3. ASSUME NEW u \in Threads, NEW n \in Nat, Unrefs(u, n, o) PROVE FALSE
      <4>1. n \in Below(u) /\ Nth(u, n) = UnrefOf(o)
        BY <3>3 DEF Unrefs
      <4>2. ItemOK(u, n) /\ Nth(u, n).op = "unref" /\ Nth(u, n).obj = o
        BY <4>1 DEF StacksOK, UnrefOf
      <4>3. n > 0 /\ Nth(u, n - 1) = MemberOf(o)
        BY <4>2, <3>2 DEF ItemOK, SelfRef
      <4>4. n - 1 \in Below(u)
        BY <4>1, <4>3, UnderIsBelow
      <4>5. ItemOK(u, n - 1) /\ Nth(u, n - 1).op = "member" /\ Nth(u, n - 1).obj = o
        BY <4>3, <4>4 DEF StacksOK, MemberOf
      <4>6. n - 1 > 0 /\ Nth(u, n - 1 - 1) = FreeOf(o)
        BY <4>5 DEF ItemOK
      <4>7. n - 1 - 1 \in Below(u)
        BY <4>4, <4>6, UnderIsBelow
      <4>8. u = t /\ n - 1 - 1 = Top(t)
        BY <4>6, <4>7, <3>1 DEF EndsOnce, Ends, FreeOf
      <4> QED
        BY <4>1, <4>8 DEF Below, Top, TypeOK, Depth
    <3>4. OwnersAt(Owners(o), o)
      BY OwnersArePlaces DEF OwnersByPlace
    <3>5. \A s \in Slots : slot[s] # o
      BY <3>2 DEF NoDangling
    <3>6. \A q \in Objects : member[q] # o
      BY <3>2 DEF NoDangling
    <3>7. Owners(o) = {}
      BY <3>3, <3>4, <3>5, <3>6 DEF OwnersAt, Places
    <3> QED
      BY <3>2, <3>7, FS_EmptySet DEF Counted, CountOK, Undisposed, Stored
  <2> QED
    BY <2>1, <2>2 DEF DisposedOnce, DestructorAssertion
<1>2. Spec => []Heap
  BY <1>0, HeapInvariant, PTL
<1> QED
  BY <1>1, <1>2, PTL

(* Whatever was done with an object through any reference, by any thread,  *)
(* happens before its destructor: the relaxed increment and the acq_rel    *)
(* decrement suffice (sp.hpp:63-98).                                       *)
THEOREM DestructorsSeeAll == Sound => (Spec => []DestructorSeesAll)
<1> SUFFICES ASSUME Sound PROVE Spec => []DestructorSeesAll
  OBVIOUS
<1>1. Heap /\ Views => DestructorSeesAll
  <2> SUFFICES ASSUME Heap, Views, NEW t \in Threads, NEW o \in Objects,
                      Doing(t, "destructor", o)
               PROVE  SeenAll(view[t], o)
    BY DEF DestructorSeesAll
  <2>1. Top(t) \in Below(t) /\ Nth(t, Top(t)) = DestructorOf(o)
    BY TopIsHead DEF Heap, DestructorOf
  <2> QED
    BY <2>1 DEF Views, DestructorsSee, DestructorOf
<1> QED
  BY <1>1, Invariant, PTL

(* When unique() returns true, all that the former owners did happens      *)
(* before what the caller does next (sp.hpp:44).                           *)
THEOREM UniqueOwnerSeesAll == Sound => (Spec => UniqueSeesAll)
<1> SUFFICES ASSUME Sound PROVE Spec => UniqueSeesAll
  OBVIOUS
<1>1. Heap /\ Views /\ [Next]_vars =>
        [\A t \in Threads : \A s \in Mine(t) :
           Unique(t, s) => SeenAll(view'[t], slot[s])]_vars
  <2> SUFFICES ASSUME Heap, Views, NEW t \in Threads, NEW s \in Mine(t), Unique(t, s)
               PROVE  SeenAll(view'[t], slot[s])
    OBVIOUS
  <2>1. PICK o \in Objects : o = slot[s]
    BY DEF Unique, Heap, TypeOK, Refs, Mine
  <2>2. /\ s \in Slots /\ cnt[o] = 1 /\ state[o] = "live"
        /\ view'[t] = view[t] \cup release_view[o]
    BY <2>1 DEF Unique, Touch, Mine, Heap, NoDangling
  <2> DEFINE mine == <<"slot", s, 0>>
  <2>3. OwnersAt(Owners(o), o)
    BY OwnersArePlaces DEF OwnersByPlace, Heap
  <2>4. mine \in Owners(o)
    BY <2>1, <2>2, <2>3 DEF OwnersAt
  <2> HIDE DEF mine
  <2>5. IsFiniteSet(Owners(o)) /\ Cardinality(Owners(o)) = 1
    <3>1. IsFiniteSet(Owners(o)) /\ 1 = Cardinality(Owners(o)) + 0
      BY <2>2 DEF Heap, Counted, CountOK, Undisposed
    <3> QED
      BY <3>1, FS_CardinalityType
  <2>6. Owners(o) = {mine}
    <3>1. Owners(o) \ {mine} = {}
      BY <2>4, <2>5, OneFewer, Zenon
    <3>2. \A x : x \in Owners(o) => x = mine
      BY <3>1
    <3> QED
      BY <2>4, <3>2
  <2>7. \A q \in Objects : member[q] # o
    <3>1. ASSUME NEW q \in Objects, member[q] = o PROVE FALSE
      <4>1. state[q] # "dead"
        BY <3>1 DEF Heap, MembersOfLiving
      <4> QED
        BY <3>1, <4>1, <2>3, <2>6 DEF OwnersAt, mine
    <3> QED
      BY <3>1
  <2>8. ASSUME NEW u \in Threads, Holds(u, o) PROVE u = t
    <3>1. CASE \E q \in Mine(u) : slot[q] = o
      BY <3>1, <2>3, <2>6 DEF OwnersAt, mine, Mine
    <3>2. ASSUME NEW n \in Below(u), Nth(u, n).obj = o PROVE FALSE
      <4>1. Nth(u, n).op = "unref"
        BY <3>2, <2>2 DEF Heap, StacksOK, ItemOK
      <4>2. Nth(u, n) = UnrefOf(o) /\ n \in Nat
        BY <3>2, <4>1, ItemsAreItems DEF Heap, Item, UnrefOf, Below
      <4> QED
        BY <4>2, <2>3, <2>6 DEF OwnersAt, Unrefs, mine
    <3> QED
      BY <3>1, <3>2, <2>8 DEF Holds, Tends
  <2>9. SeenAll(view[t] \cup release_view[o], o)
    BY <2>2, <2>7, <2>8, LastSees
  <2> QED
    BY <2>1, <2>2, <2>9
<1> QED
  BY <1>1, Invariant, PTL DEF Spec, UniqueSeesAll
============================================================================
