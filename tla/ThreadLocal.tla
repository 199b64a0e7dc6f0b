---------------------------- MODULE ThreadLocal ----------------------------
(***************************************************************************)
(* virtual_thread_local of src/include/nie/virtual_thread_local.hpp: a     *)
(* value per thread, found under a shared lock, made under an exclusive    *)
(* one, and visited by iterate(), which calls back under the shared lock;  *)
(* and thread_local_pool of src/include/nie/thread_local_pool.hpp, whose   *)
(* values are bounded stacks of objects.                                   *)
(*                                                                         *)
(* A callback of iterate() may ask for the value of its own thread.  The   *)
(* lock is external: std::shared_mutex on glibc, which lets a thread that  *)
(* shares it share it again even if others wait for it exclusively.        *)
(***************************************************************************)
EXTENDS Integers, Sequences, FiniteSets, SequencesExt

CONSTANTS
  Ids,       \* of the threads
  Objects,   \* what the pool keeps
  MaxSize,   \* the template parameter max_size
  None

ASSUME PoolAssumption ==
  /\ MaxSize \in Nat
  /\ None \notin Ids \cup Objects
  /\ \A n \in 0 .. MaxSize : None \notin [1 .. n -> Objects \cup {None}]

VARIABLES
  sharing,   \* how often each thread holds the mutex in shared mode
  writer,    \* the thread that holds it exclusively
  map,       \* the value of each thread: a stack of objects, or None
  calls,     \* what each thread is in the middle of, innermost first
  visited,   \* the threads whose values the iterator is past
  hand       \* the objects each thread has outside the pool

valueVars == <<sharing, writer, map, calls, visited, hand>>

Values == {t \in Ids : map[t] # None}

ValuesInit ==
  /\ sharing = [t \in Ids |-> 0]
  /\ writer = None
  /\ map = [t \in Ids |-> None]
  /\ calls = [t \in Ids |-> <<>>]
  /\ visited = [t \in Ids |-> {}]
  /\ hand \in {h \in [Ids -> SUBSET Objects] :
                 /\ UNION {h[t] : t \in Ids} = Objects
                 /\ \A t, u \in Ids : t # u => h[t] \cap h[u] = {}}

At(t, point) == calls[t] # <<>> /\ Head(calls[t]) = point
GoTo(t, points) == calls' = [calls EXCEPT ![t] = points \o Tail(@)]

Share(t) ==
  /\ writer = None
  /\ sharing' = [sharing EXCEPT ![t] = @ + 1]

Unshare(t) == sharing' = [sharing EXCEPT ![t] = @ - 1]

Lock(t) ==
  /\ writer = None /\ \A u \in Ids : sharing[u] = 0
  /\ writer' = t

----------------------------------------------------------------------------
(* operator()(): calls of the pool begin with one, and use the value after *)
(* it; that is "value", the last thing they wait for.                      *)

(* The thread calls the container itself, or get() or put() of the pool.   *)
Call(t, op) ==
  /\ calls[t] = <<>>
  /\ op = "put" => hand[t] # {}
  /\ calls' = [calls EXCEPT ![t] = <<"find", op>>]
  /\ UNCHANGED <<sharing, writer, map, visited, hand>>

FindLock(t) ==
  /\ At(t, "find")
  /\ Share(t)
  /\ GoTo(t, <<"found">>)
  /\ UNCHANGED <<writer, map, visited, hand>>

(* Mutant: the shared lock is kept when the value is there.                *)
FindKeepsLock(t) ==
  /\ At(t, "found")
  /\ IF map[t] # None
     THEN GoTo(t, <<>>) /\ UNCHANGED sharing
     ELSE GoTo(t, <<"make">>) /\ Unshare(t)
  /\ UNCHANGED <<writer, map, visited, hand>>

(* The lookup, and the end of the scope of the shared lock.                *)
Find(t) ==
  /\ At(t, "found")
  /\ Unshare(t)
  /\ GoTo(t, IF map[t] # None THEN <<>> ELSE <<"make">>)
  /\ UNCHANGED <<writer, map, visited, hand>>

(* Mutant: the mutex is locked although others share it.                   *)
MakeLockShared(t) ==
  /\ At(t, "make")
  /\ writer = None
  /\ writer' = t
  /\ GoTo(t, <<"made">>)
  /\ UNCHANGED <<sharing, map, visited, hand>>

MakeLock(t) ==
  /\ At(t, "make")
  /\ Lock(t)
  /\ GoTo(t, <<"made">>)
  /\ UNCHANGED <<sharing, map, visited, hand>>

(* Mutant: the value is found, and the exclusive lock is not released.     *)
MakeKeepsLock(t) ==
  /\ At(t, "made")
  /\ map' = [map EXCEPT ![t] = IF @ # None THEN @ ELSE <<>>]
  /\ GoTo(t, <<>>)
  /\ UNCHANGED <<sharing, writer, visited, hand>>

(* Under the exclusive lock: the second lookup, emplace(), and unlock.     *)
MakeValue(t) ==
  /\ At(t, "made")
  /\ map' = [map EXCEPT ![t] = IF @ # None THEN @ ELSE <<>>]
  /\ writer' = None
  /\ GoTo(t, <<>>)
  /\ UNCHANGED <<sharing, visited, hand>>

----------------------------------------------------------------------------
(* The pool: the stack belongs to the thread, and is used without a lock.  *)
(* get() and put() look it up again for each thing they do with it.        *)

(* get(): is there an object?  If not a new one is made, which is no       *)
(* object of the model.                                                    *)
Get(t) ==
  /\ At(t, "get")
  /\ GoTo(t, IF map[t] # <<>> THEN <<"find", "back">> ELSE <<>>)
  /\ UNCHANGED <<sharing, writer, map, visited, hand>>

(* Mutant: the object is copied, not moved.                                *)
BackCopied(t) ==
  /\ At(t, "back")
  /\ GoTo(t, <<"find", "pop_back">>)
  /\ hand' = [hand EXCEPT ![t] = @ \cup {Last(map[t])}]
  /\ UNCHANGED <<sharing, writer, map, visited>>

(* ... the uppermost is moved from the stack, which keeps an empty one ... *)
Back(t) ==
  /\ At(t, "back")
  /\ GoTo(t, <<"find", "pop_back">>)
  /\ hand' = [hand EXCEPT ![t] = @ \cup {Last(map[t])}]
  /\ map' = [map EXCEPT ![t] = Append(Front(@), None)]
  /\ UNCHANGED <<sharing, writer, visited>>

(* ... until it is popped.                                                 *)
PopBack(t) ==
  /\ At(t, "pop_back")
  /\ GoTo(t, <<>>)
  /\ map' = [map EXCEPT ![t] = Front(@)]
  /\ UNCHANGED <<sharing, writer, visited, hand>>

(* put(): is there room?  If not the object stays with the caller.         *)
Put(t) ==
  /\ At(t, "put")
  /\ GoTo(t, IF Len(map[t]) < MaxSize THEN <<"find", "emplace_back">> ELSE <<>>)
  /\ UNCHANGED <<sharing, writer, map, visited, hand>>

EmplaceBack(t) ==
  /\ At(t, "emplace_back")
  /\ GoTo(t, <<>>)
  /\ \E o \in hand[t] :
       /\ hand' = [hand EXCEPT ![t] = @ \ {o}]
       /\ map' = [map EXCEPT ![t] = Append(@, o)]
  /\ UNCHANGED <<sharing, writer, visited>>

(* A call of the container itself returns.                                 *)
Use(t) ==
  /\ At(t, "use")
  /\ GoTo(t, <<>>)
  /\ UNCHANGED <<sharing, writer, map, visited, hand>>

----------------------------------------------------------------------------
(* iterate().                                                              *)

CallIterate(t) ==
  /\ calls[t] = <<>>
  /\ calls' = [calls EXCEPT ![t] = <<"iterate">>]
  /\ UNCHANGED <<sharing, writer, map, visited, hand>>

Iterate(t) ==
  /\ At(t, "iterate")
  /\ Share(t)
  /\ GoTo(t, <<"next">>)
  /\ UNCHANGED <<writer, map, visited, hand>>

(* The next value is visited, in the order of a hash table; the callback   *)
(* does something of its own, or asks for the value of its thread.         *)
Visit(t) ==
  /\ At(t, "next")
  /\ \E u \in Values \ visited[t] : visited' = [visited EXCEPT ![t] = @ \cup {u}]
  /\ \/ GoTo(t, <<"next">>)
     \/ GoTo(t, <<"find", "use", "next">>)
  /\ UNCHANGED <<sharing, writer, map, hand>>

IterateEnd(t) ==
  /\ At(t, "next")
  /\ Values \subseteq visited[t]
  /\ Unshare(t)
  /\ visited' = [visited EXCEPT ![t] = {}]
  /\ GoTo(t, <<>>)
  /\ UNCHANGED <<writer, map, hand>>

Proceed(t) ==
  \/ FindLock(t) \/ Find(t) \/ MakeLock(t) \/ MakeValue(t)
  \/ Get(t) \/ Back(t) \/ PopBack(t)
  \/ Put(t) \/ EmplaceBack(t) \/ Use(t)
  \/ Iterate(t) \/ Visit(t) \/ IterateEnd(t)

ValuesNext ==
  \E t \in Ids :
    \/ \E op \in {"get", "put", "use"} : Call(t, op)
    \/ CallIterate(t)
    \/ Proceed(t)

ValuesSpec == ValuesInit /\ [][ValuesNext]_valueVars

(* The scheduler runs every thread; the mutex promises nothing more.       *)
Fairness == \A t \in Ids : WF_valueVars(Proceed(t))

----------------------------------------------------------------------------
(* Properties.                                                             *)

(* Values have their types; no stack is larger than max_size.              *)
ValuesTypeOK ==
  /\ sharing \in [Ids -> 0 .. 2]
  /\ writer \in Ids \cup {None}
  /\ \A t \in Values : map[t] \in Seq(Objects \cup {None}) /\ Len(map[t]) <= MaxSize
  /\ visited \in [Ids -> SUBSET Ids]
  /\ hand \in [Ids -> SUBSET Objects]

Iterating(t) == calls[t] # <<>> /\ Last(calls[t]) = "next"

(* No value is added while a thread visits the values: its iterator stays  *)
(* valid, whatever other threads do (virtual_thread_local.hpp:36-38).      *)
IterationUndisturbed ==
  [][(\E t \in Ids : Iterating(t)) => Values' = Values]_valueVars

(* An object is in the pool once or with one thread, and stays so: get()   *)
(* and put() move it, a step at a time (thread_local_pool.hpp:10-19).      *)
OneOwner ==
  \A o \in Objects :
    Cardinality({t \in Ids : o \in hand[t]}
                \cup {p \in Ids \X (1 .. MaxSize) :
                        /\ map[p[1]] # None /\ p[2] \in DOMAIN map[p[1]]
                        /\ map[p[1]][p[2]] = o}) = 1

(* The callback asked for the value of a thread that has none: the thread  *)
(* waits for the shared lock that it holds itself.                         *)
WaitsForItself(t) == At(t, "make") /\ sharing[t] > 0

(* Nobody waits for each other: as long as no callback made its thread     *)
(* wait for itself, some call in progress can go on.                       *)
SomebodyProceeds ==
  (\E t \in Ids : calls[t] # <<>>) /\ (\A t \in Ids : ~WaitsForItself(t))
    => \E t \in Ids : ENABLED Proceed(t)

(* The calls of a thread that has its value return, whatever others do,    *)
(* even those that wait for themselves: such a call only shares the mutex, *)
(* and every thread holds it exclusively once at most.                     *)
KnownThreadsReturn ==
  \A t \in Ids : (map[t] # None /\ calls[t] # <<>>) ~> (calls[t] = <<>>)
============================================================================
