----------------------------- MODULE SharedPtr -----------------------------
(***************************************************************************)
(* The intrusive reference counts and the smart pointer of                 *)
(* src/include/nie/sp.hpp: objects shared by several threads, each through *)
(* sp variables of its own, and owned by the sp member of other objects.   *)
(*                                                                         *)
(* An sp is not itself safe to share, so slots belong to threads; the only *)
(* shared state is the count of an object, and each atomic operation on it *)
(* is a step.  Releasing the last reference destroys the object on the     *)
(* spot, its member's reference with it, and so on down a chain:           *)
(* todo[t] is what thread t has still to do of that, innermost first.      *)
(*                                                                         *)
(* The memory orders are modelled by views.  <<u, o>> \in view[t] says     *)
(* that every access of thread u to object o so far happens before what    *)
(* thread t does next; release_view[o] is what an acquire operation on the *)
(* count of o learns.  Relaxed read-modify-writes continue the release     *)
(* sequence, so they leave release_view alone.                             *)
(***************************************************************************)
EXTENDS Integers, FiniteSets, Sequences

CONSTANTS
  Threads,
  Objects,
  Slots,       \* the sp variables
  SlotOwner,   \* the thread each of them belongs to
  Null,
  StoresOne,   \* the count is set to 1 before the deleter: NIE_SP_IMPLEMENT,
               \* and ref_cnt_base under NIE_DEBUG; not nv_ref_cnt
  SelfRefs     \* destructors share the object for a while, or reset an sp

ASSUME SlotOwnerAssumption == SlotOwner \in [Slots -> Threads]
ASSUME VariantAssumption == StoresOne \in BOOLEAN /\ SelfRefs \in BOOLEAN
ASSUME NullAssumption == Null \notin Objects

VARIABLES
  cnt,           \* fref_cnt
  state,         \* unborn, live, dying (in its deleter), dead
  slot,          \* fPtr of each sp variable
  member,        \* fPtr of the sp member of each object
  todo,          \* the rest of the unref() calls in progress
  view,          \* what happens before a thread's next step
  release_view,  \* what the count of an object hands to an acquire
  disposals      \* how often internal_dispose() ran (history)

heap == <<cnt, state, disposals>>
views == <<view, release_view>>
vars == <<heap, slot, member, todo, views>>

Refs == Objects \cup {Null}
Accesses == Threads \X Objects
Item == [op : {"unref", "destructor", "member", "free"}, obj : Objects]

Unref(o) == IF o = Null THEN <<>> ELSE <<[op |-> "unref", obj |-> o]>>

Init ==
  /\ cnt = [o \in Objects |-> 0]
  /\ state = [o \in Objects |-> "unborn"]
  /\ slot = [s \in Slots |-> Null]
  /\ member = [o \in Objects |-> Null]
  /\ todo = [t \in Threads |-> <<>>]
  /\ view = [t \in Threads |-> Accesses]
  /\ release_view = [o \in Objects |-> {}]
  /\ disposals = [o \in Objects |-> 0]

Mine(t) == {s \in Slots : SlotOwner[s] = t}
Idle(t) == todo[t] = <<>>

----------------------------------------------------------------------------
(* Operations on sp variables.  Each ends with safe_unref() of what the    *)
(* variable held: reset() stores the new pointer first.                    *)

(* make_sp(), assigned to s; the constructor takes over the sp r.          *)
Make(t, s, r) ==
  /\ Idle(t) /\ s # r
  /\ \E o \in Objects :
       /\ state[o] = "unborn"
       /\ state' = [state EXCEPT ![o] = "live"]
       /\ cnt' = [cnt EXCEPT ![o] = 1]
       /\ member' = [member EXCEPT ![o] = slot[r]]
       /\ slot' = [slot EXCEPT ![r] = Null, ![s] = o]
  /\ todo' = [todo EXCEPT ![t] = Unref(slot[s])]
  /\ UNCHANGED <<views, disposals>>

(* Mutant: the object is shared without calling ref().                     *)
ShareUncounted(t, s, o) ==
  /\ o # Null
  /\ slot' = [slot EXCEPT ![s] = o]
  /\ todo' = [todo EXCEPT ![t] = Unref(slot[s])]
  /\ UNCHANGED <<cnt, state, disposals, member, views>>

(* safe_ref() of o, stored in s: the fetch_add is relaxed.                 *)
Share(t, s, o) ==
  /\ o # Null
  /\ cnt' = [cnt EXCEPT ![o] = @ + 1]
  /\ slot' = [slot EXCEPT ![s] = o]
  /\ todo' = [todo EXCEPT ![t] = Unref(slot[s])]
  /\ UNCHANGED <<state, disposals, member, views>>

(* s = r, for r another variable or the member of the object in r.         *)
Copy(t, s, r) ==
  /\ Idle(t) /\ s # r
  /\ Share(t, s, slot[r])

CopyMember(t, s, r) ==
  /\ Idle(t) /\ slot[r] # Null
  /\ Share(t, s, member[slot[r]])

(* s = std::move(r), also for s and r the same variable.                   *)
Move(t, s, r) ==
  /\ Idle(t)
  /\ slot' = [[slot EXCEPT ![r] = Null] EXCEPT ![s] = slot[r]]
  /\ todo' = [todo EXCEPT ![t] = IF s = r THEN <<>> ELSE Unref(slot[s])]
  /\ UNCHANGED <<heap, member, views>>

(* Mutant: unref() runs before the pointer is cleared.                     *)
ResetLate(t, s) ==
  /\ Idle(t)
  /\ slot[s] # Null
  /\ todo' = [todo EXCEPT ![t] = Unref(slot[s])]
  /\ UNCHANGED <<heap, slot, member, views>>

(* s.reset(), s = nullptr, or the end of the scope of s.                   *)
Reset(t, s) ==
  /\ Idle(t)
  /\ slot' = [slot EXCEPT ![s] = Null]
  /\ todo' = [todo EXCEPT ![t] = Unref(slot[s])]
  /\ UNCHANGED <<heap, member, views>>

(* The sp s is moved to a variable of another thread, through something    *)
(* that synchronises them, as a queue does.                                *)
Send(t, s, r) ==
  /\ Idle(t) /\ SlotOwner[r] # t
  /\ slot[s] # Null /\ slot[r] = Null
  /\ slot' = [slot EXCEPT ![s] = Null, ![r] = slot[s]]
  /\ view' = [view EXCEPT ![SlotOwner[r]] = @ \cup view[t]]
  /\ UNCHANGED <<heap, member, todo, release_view>>

(* Mutant: get() of an empty variable is used.                             *)
AccessUnheld(t, s) ==
  /\ Idle(t)
  /\ view' = [view EXCEPT ![t] = @ \cup {<<t, slot[s]>>}]
  /\ UNCHANGED <<heap, slot, member, todo, release_view>>

(* Thread t reads or writes o, with `known' before it: nobody has seen it. *)
Touch(t, o, known) ==
  /\ view' = [u \in Threads |-> IF u = t THEN view[u] \cup known
                               ELSE view[u] \ {<<t, o>>}]
  /\ release_view' = [p \in Objects |-> release_view[p] \ {<<t, o>>}]
  /\ UNCHANGED <<heap, slot, member, todo>>

(* The owner of s uses the object.                                         *)
Access(t, s) ==
  /\ Idle(t) /\ slot[s] # Null
  /\ Touch(t, slot[s], {})

(* Mutant: the load of unique() is relaxed.                                *)
UniqueRelaxed(t, s) ==
  /\ Idle(t) /\ slot[s] # Null
  /\ cnt[slot[s]] = 1
  /\ Touch(t, slot[s], {})

(* unique() returns true, and the caller uses the object as its own.       *)
Unique(t, s) ==
  /\ Idle(t) /\ slot[s] # Null
  /\ cnt[slot[s]] = 1
  /\ Touch(t, slot[s], release_view[slot[s]])

----------------------------------------------------------------------------
(* unref(), internal_dispose() and the destructor.                         *)

Doing(t, op, o) ==
  /\ todo[t] # <<>>
  /\ Head(todo[t]) = [op |-> op, obj |-> o]

Continue(t, items) == todo' = [todo EXCEPT ![t] = items \o Tail(todo[t])]

(* Mutant: the decrement is relaxed, as the increment is.                  *)
DecrementRelaxed(t, o) ==
  /\ Doing(t, "unref", o)
  /\ cnt[o] # 1
  /\ cnt' = [cnt EXCEPT ![o] = @ - 1]
  /\ Continue(t, <<>>)
  /\ UNCHANGED <<state, disposals, slot, member, views>>

(* fetch_add(-1, acq_rel) of a count that is not 1.                        *)
Decrement(t, o) ==
  /\ Doing(t, "unref", o)
  /\ cnt[o] # 1
  /\ cnt' = [cnt EXCEPT ![o] = @ - 1]
  /\ release_view' = [release_view EXCEPT ![o] = @ \cup view[t]]
  /\ view' = [view EXCEPT ![t] = @ \cup release_view[o]]
  /\ Continue(t, <<>>)
  /\ UNCHANGED <<state, disposals, slot, member>>

(* Mutant: the last decrement does not acquire.                            *)
DisposeUnacquired(t, o) ==
  /\ Doing(t, "unref", o)
  /\ cnt[o] = 1
  /\ cnt' = [cnt EXCEPT ![o] = IF StoresOne THEN 1 ELSE 0]
  /\ state' = [state EXCEPT ![o] = "dying"]
  /\ disposals' = [disposals EXCEPT ![o] = @ + 1]
  /\ Continue(t, <<[op |-> "destructor", obj |-> o]>>)
  /\ UNCHANGED <<slot, member, views>>

(* Mutant: the count stays 0 in the deleter.                               *)
DisposeAtZero(t, o) ==
  /\ Doing(t, "unref", o)
  /\ cnt[o] = 1
  /\ cnt' = [cnt EXCEPT ![o] = 0]
  /\ state' = [state EXCEPT ![o] = "dying"]
  /\ disposals' = [disposals EXCEPT ![o] = @ + 1]
  /\ release_view' = [release_view EXCEPT ![o] = @ \cup view[t]]
  /\ view' = [view EXCEPT ![t] = @ \cup release_view[o]]
  /\ Continue(t, <<[op |-> "destructor", obj |-> o]>>)
  /\ UNCHANGED <<slot, member>>

(* fetch_add(-1, acq_rel) of a count that is 1, and internal_dispose().    *)
Dispose(t, o) ==
  /\ Doing(t, "unref", o)
  /\ cnt[o] = 1
  /\ cnt' = [cnt EXCEPT ![o] = IF StoresOne THEN 1 ELSE 0]
  /\ state' = [state EXCEPT ![o] = "dying"]
  /\ disposals' = [disposals EXCEPT ![o] = @ + 1]
  /\ release_view' = [release_view EXCEPT ![o] = @ \cup view[t]]
  /\ view' = [view EXCEPT ![t] = @ \cup release_view[o]]
  /\ Continue(t, <<[op |-> "destructor", obj |-> o]>>)
  /\ UNCHANGED <<slot, member>>

Then(o) == <<[op |-> "member", obj |-> o], [op |-> "free", obj |-> o]>>

(* The body of the destructor: it may do nothing, ...                      *)
DestructorPlain(t, o) ==
  /\ Doing(t, "destructor", o)
  /\ Continue(t, Then(o))
  /\ UNCHANGED <<heap, slot, member, views>>

(* ... share the object with a temporary sp, ...                           *)
DestructorShares(t, o) ==
  /\ SelfRefs
  /\ Doing(t, "destructor", o)
  /\ cnt' = [cnt EXCEPT ![o] = @ + 1]
  /\ Continue(t, Unref(o) \o Then(o))
  /\ UNCHANGED <<state, disposals, slot, member, views>>

(* ... or reset an sp of the thread, perhaps the one being reset now.      *)
DestructorResets(t, s, o) ==
  /\ SelfRefs
  /\ Doing(t, "destructor", o)
  /\ slot' = [slot EXCEPT ![s] = Null]
  /\ Continue(t, Unref(slot[s]) \o Then(o))
  /\ UNCHANGED <<heap, member, views>>

(* The sp member is destroyed.                                             *)
DestroyMember(t, o) ==
  /\ Doing(t, "member", o)
  /\ member' = [member EXCEPT ![o] = Null]
  /\ Continue(t, Unref(member[o]))
  /\ UNCHANGED <<heap, slot, views>>

(* The destructor of the base class, which may assert the count, and the   *)
(* end of delete.                                                          *)
Free(t, o) ==
  /\ Doing(t, "free", o)
  /\ state' = [state EXCEPT ![o] = "dead"]
  /\ Continue(t, <<>>)
  /\ UNCHANGED <<cnt, disposals, slot, member, views>>

----------------------------------------------------------------------------

Operate(t) ==
  \/ \E s, r \in Mine(t) :
       Make(t, s, r) \/ Copy(t, s, r) \/ CopyMember(t, s, r) \/ Move(t, s, r)
  \/ \E s \in Mine(t) : Reset(t, s) \/ Access(t, s) \/ Unique(t, s)
  \/ \E s \in Mine(t), r \in Slots : Send(t, s, r)

Proceed(t) ==
  \E o \in Objects :
    \/ Decrement(t, o) \/ Dispose(t, o)
    \/ DestructorPlain(t, o) \/ DestructorShares(t, o)
    \/ \E s \in Mine(t) : DestructorResets(t, s, o)
    \/ DestroyMember(t, o) \/ Free(t, o)

Next == \E t \in Threads : Operate(t) \/ Proceed(t)

Spec == Init /\ [][Next]_vars

----------------------------------------------------------------------------
(* Properties.                                                             *)

TypeOK ==
  /\ cnt \in [Objects -> Int]
  /\ state \in [Objects -> {"unborn", "live", "dying", "dead"}]
  /\ slot \in [Slots -> Refs] /\ member \in [Objects -> Refs]
  /\ todo \in [Threads -> Seq(Item)]
  /\ view \in [Threads -> SUBSET Accesses]
  /\ release_view \in [Objects -> SUBSET Accesses]
  /\ disposals \in [Objects -> Nat]

(* Who owns a reference to o: variables, members of objects whose memory   *)
(* is there, and unref() calls to come, numbered from the bottom of the    *)
(* stack, where they stay while others come and go above them.             *)
Owners(o) ==
  {<<"slot", s, 0>> : s \in {s \in Slots : slot[s] = o}}
    \cup {<<"member", p, 0>> : p \in {p \in Objects : member[p] = o /\ state[p] # "dead"}}
    \cup UNION {{<<"unref", t, Len(todo[t]) - i>> :
                   i \in {i \in DOMAIN todo[t] :
                            todo[t][i] = [op |-> "unref", obj |-> o]}} :
                 t \in Threads}

(* The count of a live object is the number of its owners, whatever the    *)
(* threads are in the middle of; it is never 0, so no live object leaks.   *)
CountIsOwners ==
  \A o \in Objects : state[o] = "live" =>
    cnt[o] = Cardinality(Owners(o)) /\ cnt[o] > 0

(* No sp, of a thread or in an object, points to an object that is being   *)
(* or has been destroyed, not even while a destructor called from          *)
(* reset() resets the same sp again (sp.hpp:318-325).                      *)
NoDangling ==
  /\ \A s \in Slots : slot[s] # Null => state[slot[s]] = "live"
  /\ \A o \in Objects : member[o] # Null => state[member[o]] = "live"

(* The assertion of ~ref_cnt_base() (sp.hpp:37).                           *)
DestructorAssertion ==
  \A t \in Threads, o \in Objects : Doing(t, "free", o) => cnt[o] = 1

(* An object is disposed of once, even if its destructor shares it for a   *)
(* while: the purpose of the store of 1 (sp.hpp:102,430), which leaves the *)
(* count at 1 for the destructor to assert.                                *)
DisposedOnce ==
  DestructorAssertion /\ \A o \in Objects : disposals[o] <= 1

SeenAll(v, o) == \A u \in Threads : <<u, o>> \in v

(* The destructor runs after everything any owner ever did with the object *)
(* (sp.hpp:74-77), although ref() has no barrier.                          *)
DestructorSeesAll ==
  \A t \in Threads, o \in Objects :
    Doing(t, "destructor", o) => SeenAll(view[t], o)

(* When unique() returns true, all previous owners' actions are complete   *)
(* (sp.hpp:44): they happen before whatever the caller does next.          *)
UniqueSeesAll ==
  [][\A t \in Threads : \A s \in Mine(t) :
       Unique(t, s) => SeenAll(view'[t], slot[s])]_vars

============================================================================
