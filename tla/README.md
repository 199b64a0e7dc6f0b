# A verification of nielib

nielib is a small C++ library: a memory-mapped binary log that many threads
write to, intrusive shared pointers, interned strings, allocators, thread-local
containers, start-up helpers, and two large headers it carries with it, a
lock-free queue and status codes. This directory models it in TLA+, checks the
models with TLC on small instances, and proves theorems about most of them with
TLAPS for every instance. The repository has no documentation and no tests: what
the code promises is taken from its signatures, assertions, `require()` calls,
messages and comments.

Paths below are relative to the repository; `log.hpp:412` is
`include/nie/log.hpp`, line 412. `concurrentqueue.h` and `system_error2.hpp` are
shortened to `queue` and `se2` where lines are given.

## 1. Inventory

About 3200 lines are the library's own. `concurrentqueue.h` and
`system_error2.hpp` (8900 lines with their comments) come from elsewhere, but
they are in `include/nie`, are shipped with it, and hold the hardest concurrent code
of the repository. `nie/callback.hpp`, which `startup.hpp` and `nie.hpp` use,
is not in the repository and is treated as external.

| component | state | operations | interacts with | modelled in |
|---|---|---|---|---|
| log buffer (`log.cpp:20-82,175-192`) | the mapping, the atomic `content_length`, frames in the file | `init_log`, `log_frame` | every logging thread; the file outlives the process | `LogBuffer` |
| logging pipeline (`log.hpp`, `log.cpp:128-174`, `log_capnp.hpp`) | `has_info` per message; caches of strings, locations, schemas; `logged` of each node | `do_log`, `register_nie_string`, `lookup_source_location`, `register_capnp` | reserves frames in the log buffer; registrations call the logger again | `LogPipeline` |
| fatal errors (`nie.cpp`) | none | `fatal`, `nyi` | logs, then ends the process | `LogPipeline` (`Fatal`, `Abort`) |
| shared pointers (`sp.hpp`) | an atomic count in each object; a pointer in each `sp` | `ref`, `unref`, `unique`, the operations of `sp` | `unref` runs destructors, which use `sp` again | `SharedPtr` |
| interned strings (`string_literal.cpp/.hpp`) | the cache of texts, the static objects of literals | `string(text)`, `""_nie`, `register_literal` | `fatal` | `StringIntern` |
| recycling cache (`recycling_cache.hpp`) | an array of cached pieces; a size word in each piece | `allocate`, `deallocate`, destructor | a base allocator | `RecyclingCache` |
| arenas (`stack_alloc.hpp`, `dynamic_stack_alloc.hpp`) | buffer, top, two byte counts | `allocate`, `deallocate`, `reset` | `operator new` | `Arena` |
| page allocator (`page_allocator.hpp`) | current page, its size and offset, old pages | `allocate` (`deallocate` is empty) | `new`, which may throw half way | `PageAllocator` |
| thread-local containers (`virtual_thread_local.hpp`, `thread_local_pool.hpp`) | a map from thread ids to values under a `shared_mutex`; a bounded stack per thread | `operator()`, `iterate`; `get`, `put` | callbacks under the lock | `ThreadLocal` |
| startup list (`startup.cpp`), fancy casts (`fancy_cast.hpp`) | a list of functions, a run flag; a table per class, an interface per name | registration, `run_startup`; initialisation, `fancy_cast` | a class registers a startup function; startup functions may load libraries, which register more | `FancyCast` |
| queue: one producer (`queue:1669-3015`) | four counters, a ring or a set of blocks, an index of blocks | `enqueue`, `enqueue_bulk`, `dequeue`, `dequeue_bulk`, destructor, of two kinds | one owner, any number of consumers; takes blocks from the pool | `ExplicitProducer`, `ImplicitProducer` over `ProducerBase` |
| queue: block pool (`queue:1432-1560, 3020-3105`) | an array of blocks, a lock-free free list | `requisition_block`, `add_block_to_free_list` | producers and consumers give and take | `BlockPool` |
| queue: front end (`queue:640-1430, 3180-3560`) | the list of producers, tokens, a chain of hash tables, thread exit listeners | tokens, `get_or_add_implicit_producer`, thread exit, `try_dequeue` and its variants, destructor, move, swap | producers are passed on from thread to thread | `ProducerList`, `ImplicitProducerHash`, `ConsumerTokens`, `QueueSwap` |
| status codes (`system_error2.hpp`) | counted messages; the payloads of nested codes; a table of domains | construction, copies, moves, `equivalent`, `make_nested_status_code`, the domain of a category | `std::error_code` | `StringRef`, `StatusCode`, `CategoryDomains` |
| tuneables (`tuneable.cpp`) | a map of names and update functions | registration, `set` | `fatal` | no: see section 6 |
| function references (`function_ref.hpp`, `__functional_base.h`) | a pointer and a thunk | call | - | no: no state of its own |

Which behaviour is hard, and which properties make each component correct:

- **Log buffer.** Threads reserve room with one `fetch_add` and fill it later, in
  any order, without a lock; the capacity test comes after the reservation; the
  process may be killed between the two. Right when rooms never overlap, the
  file has no gap that no thread owns, what a reader can reach stays reachable,
  and nothing is written past the mapping.
- **Pipeline.** `has_info` is a plain `bool`. Each registration is
  check-then-describe-then-insert with a different locking discipline, and
  describes by calling the logger from inside a logging call, once with a
  mutex held. Right when every number in a record can be looked up earlier in
  the file, indexes are unambiguous, nothing blocks for ever, and the races cost
  only a bounded number of duplicates.
- **Shared pointers.** Relaxed increments, acquire/release decrements,
  destruction that re-enters through destructors. Right when the count is the
  number of owners, nothing points to dying objects, an object is disposed of once,
  and its destructor sees everything.
- **Interned strings.** Lookup under a shared lock, insertion under an exclusive
  one; literals are usable before their registration. Right when pointer
  equality is text equality and the address of a text never changes.
- **Allocators.** Sequential, but their correctness is about all sequences of
  calls: memory goes back in any order, with sizes that are asked for, rounded
  or remembered, and allocation fails half way. Right when they implement
  `Allocator`: what a user has, nobody else has.
- **Thread-local containers.** A callback under a shared lock may take the
  lock again. Right when no value is added under an iterator and only a
  callback that waits for itself blocks.
- **Startup and casts.** Static objects are initialised in any order, and
  libraries come late, from startup functions too. Right when a cast finds what
  C++ says an object is, as soon as there can be an object.
- **Queue.** Consumers announce themselves before they know whether there is
  anything, in counters that wrap; blocks are reused while old indices are
  searched; memory fails and elements throw in the middle of a call; threads exit
  and their ids come back; queues are swapped with their tokens. Right when each
  producer is a queue (first in, first out, once), a block has one holder,
  a producer one user, no search is endless, and a consumer misses nothing.
- **Status codes.** Ownership through copies of bits, counts of references,
  equality across domains by several ways. Right when every message and payload has its
  owners, an errored code is no success, and equality is one.

`PROJECT.json` lists the hazards at the lines where they bite.

## 2. Modules

One module per component. A module `MCx` extends `x` and gives sets and
symmetry; the `.cfg` files instantiate it. `Allocators` and `Registries` put
components that share nothing side by side: a behaviour is one of any of them
(`which`), and each property is the conjunction of theirs. A definition whose comment starts
with "Mutant:" is a plausible bug, used only to show that a property fails if the
code had it; it is no part of any specification.

**`LogBuffer`.** Words of 8 bytes, the granularity the code asserts
(`log.cpp:66,71`). `log_frame()` is two steps: `FetchAdd` (after which the
offset is a local of the thread, `claim[t]`), then `Construct` or `BufferFull`.
`Full` is the test of `log.cpp:72` as written. `Kill` may happen between any two
steps; frames survive it, the mapping being shared. The second call of
`init_log()`, which an assertion forbids, is not in the model.

**`LogPipeline`** composes `LogBuffer` (`Buf == INSTANCE LogBuffer`) with the
body of `do_log()`. `job[t]` is the call thread `t` is in and `outer[t]` the call
that waits for it: nested calls only have plain arguments, so two levels are
enough (the schema that describes schemas is preset in `register_capnp`). Each
lock-protected region and each unprotected access is a step. The `memcpy` of the info
text and `has_info = true` are plain stores to unrelated memory, so both orders
are steps (`InfoCopy`, `InfoFlag`). `init_log()` may come at any time, as the
plain pointer it stores permits; a call that looked before it is `blind`, and
what was described before it is `lost`, because the caches remember what the
file never got (history variables; the properties that exclude these cases say
so). Arguments are assumed not to change between the measuring and the writing
pass. The wording of frames and the printed line are abstracted.

**`SharedPtr`.** Every atomic operation on a count is a step; destruction is
a stack `todo[t]` of what is left to do, so that a destructor's own `sp` operations
interleave with other threads. The C++ memory orders are modelled by views:
`view[t]` is the set of (thread, object) accesses that happen before the next
step of `t`; an acquire takes `release_view` of the count, a release adds to it,
relaxed read-modify-writes continue the release sequence. `StoresOne` says
whether the count is set to 1 before the deleter; `ref_cnt_base` does so under
`NIE_DEBUG` and in `NIE_SP_IMPLEMENT`, `nv_ref_cnt` does not. `SelfRefs` lets
destructors share their own object or reset a variable of the thread. A variable
goes to another thread only by a move through something that synchronises.

**`StringIntern`.** The two lookups of `string::string()` as two steps, literals
as static objects that can be used before or after `RegisterLiteral`, which
is fatal if the text is known already (a second copy of a literal, or a
computed string that came first).

**`Allocator`** is the abstract specification of all that hands out memory: a block is
given to a user only if it is apart from all other users' blocks. `Allocators` maps
each of these to it:

- **`RecyclingCache`** has the contents of memory, because the size that counts
  is the word in front of the user's block; users write over everything they
  have. The rounding of bytes to words in the wrapper is left out.
- **`Arena`** is both arenas: `counted` (chosen in `Init`) makes it a
  `dynamic_arena`. `operator new` returns any free, aligned address from the
  end of the buffer upwards, or throws.
- **`PageAllocator`** computes with a `size_t` of `W` bits. The two calls that
  can throw half way (`old_pages.emplace_back`, `std::make_unique`) are actions
  that leave the context as the code does at that point; `new` always throws for
  half of the address space (`Obtainable`). Types aligned beyond what `new` guarantees are
  left out.
- **`BlockPool`** has the free list one atomic access at a time: the count
  of references with its bit `SHOULD_BE_ON_FREELIST`, the head, the successor.

**`ThreadLocal`.** `virtual_thread_local` and the pool on top. A call is a
stack of points, so that the callback of `iterate()` can call the container
again. The mutex is external: an exclusive lock needs everybody out, a shared
one only no writer, which is what `std::shared_mutex` does on glibc. Values are
visited in any order, the map being a hash table. `get()` and `put()` look the stack up
again for every use, and are as many steps. Constructors that throw are
not modelled.

**`FancyCast`.** The compile-time lists of a class are computed from its parents as
the templates do it; a cast compares the interfaces of the slots in order.
`MakeTable` and `Enable` are the two static objects of a class, initialised in any
order with those of other classes; a library may be loaded by a startup function.
`CastsMatch` compares with a definition of its own: the bases a C++ object
has, and which of them are ambiguous.

**The queue.** Every access to something shared is a step, except where
consecutive accesses are to what only one thread may touch. The model is sequentially
consistent: relaxed and acquire/release accesses are not told apart, so that
what the fences of the queue are for is not checked.

- **`FifoQueue`** is what one producer promises: elements are enqueued at the end,
  claimed from the front, each once, and delivered in order; a throwing element
  loses only the rest of its own claim.
- **`ProducerBase`** has the counters, which wrap at `Modulus`, and the steps
  of a dequeue up to the claim, the same in both kinds; **`ExplicitProducer`** the ring of
  blocks with its index and the reuse of emptied blocks; **`ImplicitProducer`** the index of
  entries that come and go, and blocks returned by consumers.
  **`SubQueue`** chooses one of the two and maps it to `FifoQueue`
  (`ImplementsQueue == Queue!Spec`): the items are the indices from head to tail, and
  each dequeue must find there what was enqueued.
- **`ProducerList`** has the list of producers, their flags and the tokens with their
  swap; **`ImplicitProducerHash`** the search for a thread's producer through the
  chain of tables, growing under a lock that is tried only, and the exit of a
  thread; **`ConsumerTokens`** the ways of consumers through the producers, of which
  only the number of elements matters here. **`QueueFrontEnd`** composes the
  three, with the destructor. What a look at a producer's queue may return while others
  are in a call is what `CountersAgree` allows.
- **`QueueSwap`** has whole queues moved, assigned, swapped and destroyed in any
  sequence, with what each holds next to what its users were promised.

**`StringRef`** has a reference count per message and every operation of
`string_ref` as a sequence of what it does to counts. **`StatusCode`** has typed codes
of four kinds of domains, erased codes with their payloads, and `equivalent()` as the
domains compute it; a call may lead to another, twice at
most, and the model has the set of all the questions asked.
**`CategoryDomains`** is the table of domains with its spin lock. Payloads lost
by an assignment (section 5) are kept in `lost`.

**`AllocatorsProofs`, `LogBufferProofs`, `LogPipelineProofs`, `QueueFrontEndProofs`,
`SharedPtrProofs`, `StringInternProofs`, `ThreadLocalProofs`** hold the theorems, **`NumberLemmas`** facts about
numbers.

How they fit together: `LogPipeline` uses `LogBuffer` by refinement
(`BufferUsed == Buf!Spec`, checked by `pipeline` and proved in `LogPipelineProofs`), so
what is proved of `LogBuffer` holds of the buffer in the pipeline. `StringIntern` stays apart from
`LogPipeline` because a log call only needs that equal strings are one `string`,
which is `EqualityIsText`; the pipeline's strings are model values for that
reason. The queue is in three layers, each relying on what the one below is shown
to promise: the front end counts elements because a producer is a
`FifoQueue`, and producers take blocks from a set because the pool is an `Allocator`.

## 3. Runs

| run | what it asks | instance |
|---|---|---|
| `buffer` | `FramesApart`, `NoGaps`, `OneOverrunAtMost`, `ReachableGrows` | 3 threads, payloads of 0-2 words, 12 words |
| `buffer_overrun` | `FramesInMapping`: **violated** | the same with one thread |
| `pipeline` | `ReferencesResolve`, `StringsDescribedOnce`, `IndexesAgree`, `InfoBeforeUse`, `InfoFramesBounded`; refinement: `BufferUsed`; liveness: `CallsReturn`, `NodesGetDescribed` | 2 threads of one of five programs, and a buffer that may fill |
| `shared_ptr` | `CountIsOwners`, `NoDangling`, `DisposedOnce`, `DestructorSeesAll`, `UniqueSeesAll` | 2 threads with 2 variables each, 2 objects, of which one may own the other |
| `allocators` | `Accounted`; refinement: `Allocates` | 3 users of the cache, both arenas, the pages, the block pool |
| `pages_failure` | `AlwaysInPage`: **violated** | 2 users, 3 pages |
| `registries` | strings: `EqualityIsText`, `AddressesStay`; values of threads: `OneOwner`, `SomebodyProceeds`, `IterationUndisturbed`, liveness `KnownThreadsReturn`; the others by their parts of `OwnersCounted` and `LookUpsMatch` | 2 threads; see below |
| `equal_codes` | `Transitive`: **violated** | three typed codes |
| `sub_queues` | `CountersAgree`, `DestructorExact`; refinement: `ImplementsQueue` | each kind of producer, in two setups |
| `queue_bulk` | `RoomInIndex`: **violated** | an explicit producer, one consumer, 3 blocks |
| `queue_throw` | `DestructorExact`: **violated** | the same, one element at a time |
| `queue_lists` | `ProducersOwned`, `HashHasRoom`, `NothingMissed` | 3 threads in four casts |

`OwnersCounted` is `PayloadsOwned` and `MessagesCounted` of status codes and
`NothingShared` of swapped queues. `LookUpsMatch` is
`CastsMatch` of casts, `DomainsMatch` of categories, `NeverSuccessful` and
`NestingTransparent` of status codes, and `PromisesKept` of swapped queues.

Each passing run also checks the type invariant of its modules (`EveryTypeOK` in
`registries`). Every property is
shown to fail for at least one mutated definition (`mutants` in `PROJECT.json`), and the
joint ones for one in each of their parts.

### Bounds

- `Capacity`: 12 words hold a few frames of every size, so three threads race
  at the limit in every order; `FullByStart` and the other mutants break within
  it. In the pipeline, 16 words hold all records, infos and descriptions of most
  executions, and fill up in those in which the threads describe different things or write
  infos twice.
- `Programs`: the threads log one of two locations, a schema, a string or a node, or
  a plain message or a fatal one. One call of each thread
  already nests a second one, and the races are between the first users of a message or a
  thing; things of different kinds have nothing in common but the buffer. The last program
  has two plain calls of each thread, because `InfoFramesBounded` is about
  coming back to a message already described.
- `SharedPtr`: four variables over two objects, of which one may own the other by
  a member, are shared, sent and destroyed one by the other. No object comes to own itself, directly
  or in a cycle, as its members are set when it is made. The number of objects ever made is
  the bound; dead objects are not reused.
- `Dynamics`: three nodes of `dyn_cache_` for two texts, one more than needed, so that
  an extra insertion would be seen.
- `Words`, `Cells`: six words with two elements hold pieces of different
  sizes, evictions, and requests that find no fit; the code has 128 elements, used
  uniformly.
- `MaxUsed`: stops `full_used_`, which must exceed the buffer length (24) for
  the buffer to be full; `reset()` starts it afresh. `HeapEnd` leaves room for
  a block of `operator new`.
- `W`, `MinPage`, `MaxPages`, sizes of `PageAllocator`: three pages show growth from the
  minimum, by half and for a large request; seven bits hold three times the
  largest request, as 64 bits do for any request that can be met.
- `BlockPool`: one block of the initial array and two of `malloc()`, three
  threads: two may hold references to the node that the third puts back.
- `MaxSize`: with stacks of two and three objects, a stack is empty, full, and one
  too small for what a thread would put back.
- `Hierarchies`: a diamond, and a class with two bases in the other order;
  one startup function that loads a library. The tables of the code are compared
  slot by slot, so that depth adds no case.
- Status codes: three references to one message; two erased codes, one of them
  errored, over twelve typed codes of all domains, with an enumerator
  that has two mappings and one that has none; three categories for a table of two.
- `QueueSwap`: two queues with a first table for one thread, so that the second
  thread gives a chain of two tables; both queues may be the one with the longer chain.
- `sub_queues`: blocks have two elements. Alone, a producer with three
  blocks grows its index from 2 to 4, fills it, reuses blocks and wraps a
  four bit counter, with calls for up to three elements and elements that throw.
  Racing, two consumers are in a call at a time with two blocks and a three bit counter. `overcommit`
  bounds how many announcements in vain are open when a call begins. An enqueue waits while
  a consumer could sleep through a whole turn of the counter (`NobodySleeps`): with 32 or 64
  bits the code relies on that not happening.
- `Failures`: how an enqueue with a token may fail after it has taken a block. In `sub_queues` it may not: what
  the code does then is wrong (section 5), and `queue_bulk` and `queue_throw` show it, one
  way of failing each. So `DestructorExact` and `ImplementsQueue` hold of explicit producers as
  long as enqueues fail before they have taken a block, or while none is needed; of implicit
  producers, whose enqueues undo all they have done, without exception.
- `queue_lists`: one thread with a token, one without and a consumer; two
  with tokens, which are swapped, and a consumer; two without, with three
  ids of which two meet in a table; one with a token and two consumers that rotate. The consumer of the second cast asks for
  up to two elements, which it must get from two producers. Three
  producers and three tables are enough for every thread to get one and for
  the tables to grow twice; rotation is after two elements (`QUOTA`), and counts wrap at 4.

### Fairness

`LogPipeline` and `ThreadLocal` assume weak fairness of each thread's `Proceed`:
the scheduler runs a thread that can run. Calls, `init_log()` and crashes are
never assumed to happen. Nothing is assumed of a mutex beyond mutual exclusion:
glibc's `shared_mutex` lets readers overtake a waiting writer for ever. A thread
that makes its first value can starve in theory; so `KnownThreadsReturn` speaks of
threads that have theirs, and the others get `SomebodyProceeds` (no deadlock as long
as no callback waits for itself). In `pipeline` the string mutex is
contended only finitely often, so weak fairness is enough. The queue promises no
progress to a single thread (its compare-and-swap loops may lose for ever), and its models
state no fairness; `HashHasRoom` is the part of its termination that is a matter of state.
Where a cfg has no `CHECK_DEADLOCK FALSE`, TLC also shows that the
component never stops: `sub_queues` is the one.

## 4. Proofs

TLAPS proves, for any threads, sizes, capacity, texts and literals:

`LogBufferProofs`, from `Sizes \subseteq Nat`, `Capacity \in Nat` and `NoClaim`
being no frame:

- `TypeCorrect`, `FramesStayApart`, `FileHasNoGaps`, `OneOverrun`:
  `Spec => []` of `TypeOK`, `FramesApart`, `NoGaps`, `OneOverrunAtMost`;
- `ReachableFramesStay`: `Spec => ReachableGrows`.

The inductive invariant is `TypeOK /\ InFile /\ FramesApart /\ NoGaps`. `FramesApart`
alone is not inductive: a new reservation is apart from old room only because
all of that lies below `content_length`, which `InFile` adds, together with the fact
that before `init_log()` there is no room at all and that no constructed frame
failed the capacity test. That last part with `FramesApart` gives
`OneOverrunAtMost`: of two frames past the end, one would start after the other
ended, and so after the capacity. `ReachableGrows` follows because new claims
start where everything in the file ends.

`StringInternProofs`, from literals, dynamic nodes and null being different and
no literal being empty:

- `TypeCorrect`, `PointerEqualityIsTextEquality`: `Spec => []` of `TypeOK`, `EqualityIsText`;
- `AddressesNeverMove`: `Spec => AddressesStay`.

The inductive invariant is `TypeOK /\ CacheOneToOne /\ HandlesKnown`: the cache
has one entry per text and its data determine the text, and every string ever made is
an entry of the cache or a literal's address. `EqualityIsText` speaks of the
strings only; without the cache it does not survive an insertion.

`SharedPtrProofs`, from each variable having a thread and null being no object; objects
and variables may be infinitely many:

- `TypeCorrect`, `CountsAreOwners`, `NothingDangles`, `DestructorsSeeAll`:
  `Spec => []` of `TypeOK`, `CountIsOwners`, `NoDangling`, `DestructorSeesAll`;
- `UniqueOwnerSeesAll`: `Spec => UniqueSeesAll`;
- `DisposedOfOnce`: `Spec => []DisposedOnce`, which has the count that the destructor
  asserts, if `StoresOne` (section 5 has the case without it).

All but the last assume `Sound`, that is `SelfRefs => StoresOne`: a destructor that shares its
own object does so with a count of 1, for otherwise the count comes to 0 again and the
object is deleted twice.

The inductive invariant has two halves. `Heap`: the count of an object is the number of
its owners, who are finitely many, plus the 1 that may be stored for its destructor
(`Counted`); the stack of each thread makes sense from the bottom up (`StacksOK`: a member is
released above the entry that frees its object, a destructor is only ever on top); an object is
being destroyed at one place of all stacks (`EndsOnce`); and objects that do not exist
own nothing. `CountIsOwners` alone is not inductive, because destruction works with a count that
no owner holds. `Views`: what has been done to an object by anyone is in the view of
an owner or in what the count releases (`Covered`), so that the decrement to 0, which
acquires it, has all of it (`DestructorsSee`).

`LogPipelineProofs`, from the programs being made of messages and arguments, the kinds of
things being apart, finitely many threads, and a program's own messages not being those that
describe (`"string_cache"` and so on) nor `fatal`'s:

- `TypeCorrect`, `InfoFramesAreBounded`, `StringsAreDescribedOnce`, `IndexesAlwaysAgree`,
  `ReferencesAlwaysResolve`: `Spec => []` of `TypeOK`, `InfoFramesBounded`,
  `StringsDescribedOnce`, `IndexesAgree`, `ReferencesResolve`;
- `InfoKnownBeforeUse`: `Spec => InfoBeforeUse`;
- `BufferIsUsed`: `Spec => BufferUsed`, the refinement of `LogBuffer`.

The invariant has one part per question, each proved with those before it. `Control` says of
what call a thread is in what its `pc` allows; `Rooms` that rooms start at different offsets
below `content_length`, so that an offset names a frame; `Bodies` that payloads go
into one's own frame. `InfoKnown` ties `has_info`, and the position of a thread that passed it, to
an info frame; `InfosCounted` bounds the frames by the threads still to set the flag
before it is set, and by the threads that looked too early afterwards: the bound
on frames alone says nothing about those still on the way. `StringsLocked` gives who
describes a string the mutex, for `StringsOnce`; `IndexOK` has an index taken by a thread belong
to its location before any record says so. `CallsCached`, `CacheDescribed` and
`UsesResolve` follow a reference from the cache to the record that uses it: what is cached
has been described, completely and at a lower offset than any room reserved later, or is
`lost` to a log that did not exist yet.

`ThreadLocalProofs`, from `None` being no thread, object or stack:

- `TypeCorrect`, `ObjectsHaveOneOwner`: `ValuesSpec => []` of `ValuesTypeOK`, `OneOwner`;
- `IterationsAreUndisturbed`: `ValuesSpec => IterationUndisturbed`.

The invariant: a thread shares the mutex as often as it looks for its value and
iterates, and the writer is who makes a value (`LockHeld`), which is all that
`IterationUndisturbed` needs; only the uppermost element of a stack is ever empty, and only until its
thread pops it, and `get()` and `put()` still find what they tested (`StacksOK`);
and an object is in one hand or at one place of one stack (`OnePlace`). `OneOwner` alone would
let `PopBack` take an object off the stack for good.

`QueueFrontEndProofs`, from roles that the model knows, ids that are numbers, a first table of
at least two slots, and `None`, `Empty` and `Reusable` being no id:

- `OwnedInvariant`: `Spec => []ProducersOwned`.

`ProducersOwned` looks at `held`, which names a producer only when it has been got. The
invariant begins earlier: `Mine` is the producer that a thread has or is about to have, from the step
that creates it or takes it with the compare-and-swap, and these are different, active and of
the right kind (`OwnersOK`). `ChainOK` has every producer in the list but those whose
thread has yet to push them; `Listed` is the least set that is closed under `next`, so the list
stays whole when a producer that it does not contain yet is pointed anew. For the tables, the
question is why a thread finds its entry: `Proper` says that the search for a
key can come to its slot without meeting an empty one, which stays true
because no slot becomes `Empty` again, and that a table has a key once. An entry names the
producer of a thread that has it (`TablesOK`); a thread about to write one stands where its
search would come, in a table without its key, and one that exits leaves its key in no table that
it has passed (`PlacesOK`). TLC has checked the invariant on the instance of
`queue_lists`. That a search ends where it should, that a table grows to a size that
exists, and the arithmetic of remainders are proved in `NumberLemmas` and at the
beginning of the module: the least counterexample takes the place of induction.

`AllocatorsProofs`, from `None` being no number and no allocation, and the assumptions
of the four modules: sizes are numbers that a `size_t` holds, an alignment is not zero,
a new page is two words at least, and the initial array is part of the blocks. All suppose `RequestsFit`
of `PageAllocator`: nobody asks for a third of the address space, where `page_allocator.hpp`
computes without regard to wrapping (section 5); the instance of `allocators` fulfils it:

- `InvariantHolds`: `Spec => []AllInv`, the inductive invariant of each allocator;
- `TypeCorrect`, `MemoryAccounted`: `Spec => []` of `TypeOK`, `Accounted`;
- `MemoryOfOnesOwn`: `Spec => Allocates`, the refinement of `Allocator`.

Of the recycling cache, the pieces of the base allocator are apart, each labelled with its
size in its first word, and each has exactly one holder (`HoldersDiffer`, `PiecesHeld`). The
label is what makes `Accounted` inductive: `deallocate()` trusts it, and users
write everywhere but there. Of the arenas, memory of the buffer ends at or below `ptr` and lies apart
(`Stacked`), `heap` is what users hold beyond the buffer (`HeapKnown`), and the counts
differ by the sum of what is held (`Counted`), so that equal counts mean that nobody
holds anything; for that, `MapThenSumSet` is shown to be a sum, by induction on the number of
elements. Of the pages, what users have lies in its page and, in the current one, below
`page_offset` (`PagesUsed`), until an allocation throws half way.

Of the pool of blocks, the question is why a thread that pops a block sets the head to the
right successor, although it read that long ago. A thread is to a block its owner,
about to link it, about to push it, its popper, one with a reference, or nothing of these.
`BlockFine` says what the count and the bit of `freeListRefs` are for every combination: a
block on the list has one reference for the list and one for each thread that has taken one; a
block that is out has an owner, or somebody on the way with it, or is marked, and then the last
one who gives a reference back puts it on the list. So a link changes only while its
block is out and nobody can be about to pop it (`PoolThreads`), the list ends (`PoolList`, with a rank for each block
of it), and between calls all references are the list's. `Accounted` alone says nothing while a
call is under way. TLC has checked `PoolInv` on the instance of `allocators` too. `OnList` is the least
set that is closed under the links, so that lemmas about pushing and popping
follow without recursion.

Only model-checked, for the instances above:

- `FancyCast`, the queues of producers and the status codes, as far as no proof
  has been attempted (section 7);
- all liveness, and `SomebodyProceeds`, which uses `ENABLED`: TLAPS proves neither here;
- what is a sum or a count over data: `CountersAgree` and `ImplementsQueue` add
  up what consumers are about to take, `HashHasRoom` counts the slots of tables (and so does
  `implicitProducerHashCount \in Nat` of the front end's `TypeOK`), `NothingMissed` counts
  how far along the list a consumer is.

## 5. Where the code does not do what it says

Shown by runs:

- `buffer_overrun`: the capacity test of `log.cpp:72` leaves out the 16 bytes of the
  frame header, so the last frame can reach past the mapping. `OneOverrunAtMost`
  is what does hold.
- `pages_failure`: after `std::make_unique` has thrown (`page_allocator.hpp:41`),
  the page is null and its size the old one; the next request passes
  the `require()` of line 44 and gets an address computed from null. If
  `old_pages.emplace_back` throws instead, the page stays with offset 0 and is
  given out again.
- `queue_bulk`: an `enqueue_bulk()` with a token that gets a block and then
  fails takes back the count of index slots but leaves the block in the ring
  (`queue:2090`). The block is used later without a slot of its own; with the next
  block the index, which looks as if it had room, is overwritten where a block still has
  elements.
- `queue_throw`: an `enqueue()` with a token whose constructor throws on the first
  element of a block takes back the tail and the count of slots (`queue:1912`), and leaves the
  block in the ring. But its flags have been cleared (`queue:1849`, `1892`), so it is not
  empty: it is never used again, nor is any other block of the ring, as each new one is put
  before it, and the destructor
  calls `~T` on all its positions (`queue:1814`), where nothing is. So does an
  `enqueue_bulk()` when a constructor throws (`queue:2192`). Until then, the queue stays right: with
  `Failures = {"throw"}` and the other settings of `queue_bulk`, `CountersAgree`, `RoomInIndex` and
  `ImplementsQueue` hold.
- `equal_codes`: equality of status codes is not transitive, as the comment says
  (`se2:1244`), for enumerators with several mappings.

Seen while modelling, and reproduced by changing the instance of a run:

- An `enqueue_bulk()` with a token that gets blocks of the ring and then fails takes back
  the front of the index, but not the entries it has written (`queue:2064`). If the index
  was full, the oldest entry now begins behind all others, and the destructor, which looks for the
  block of the head from the oldest entry on (`queue:1786`), stops there: the assertion
  of line 1791 fails, and the elements already dequeued from the block of the head
  are destroyed again. With `Failures = {"reused"}` in `queue_bulk`, `DestructorExact`
  fails so.
- `nv_ref_cnt` asserts a count of 1 in its destructor (`sp.hpp:163`) and deletes
  the object with a count of 0 (`sp.hpp:179-180`). With `StoresOne = FALSE` and
  `SelfRefs = FALSE`, `DestructorAssertion` fails after make and reset.
- `dynamic_arena` counts a request before `operator new` can throw
  (`dynamic_stack_alloc.hpp:80,96`); from then on every `reset()` throws "Memory
  leak" (line 57). `CountsAgree` (part of `Accounted`) states it: the counts differ by `lost` when
  nobody holds anything.
- The size of a new page, `n * sizeof(T) * 3` (`page_allocator.hpp:35`), wraps
  for requests above a third of the address space, and the `require()` of line
  44 ends the process where line 28 throws for others. With `PageSizes = {1, 43}`
  and `W = 7`, `RequiresHold` (part of `Accounted`) fails.
- A block of `operator new` that begins exactly where an arena's buffer ends
  is taken for one of the buffer (`stack_alloc.hpp:62`) and never freed;
  `HeapMatches` (part of `Accounted`) allows exactly that. Excluding the end would be wrong for empty
  blocks.
- The second lookup of `virtual_thread_local` (lines 27-29) can never
  succeed, because the key is the thread's own id; and a callback of `iterate()` that asks
  for the value of its thread when that has none waits for itself.
- An erased status code that is assigned to, or cleared, does not destroy its payload:
  `status_code_storage::operator=` (`se2:1320`) and `clear()` (`se2:1622`) run the destructor
  of the storage, which does nothing, and not that of the domain. A nested code leaks;
  assigned to itself, it leaks and becomes empty.
- A nested code is not always equal to itself: of an enumerator without
  mappings, the indirecting domain compares the code it holds with the nested code as it is
  (`se2:4702`). `NestingTransparent` speaks of codes that are not nested.

## 6. Not modelled

Serialisation of arguments, text lines and colours, the disablers, cookies, the
text log file; the Windows branches and the X11 window of `fatal()`; a second
`init_log()`; comparison, casts and raw `release()` of `sp`; compile-time
operations of `string_literal`; byte rounding in `recycling_cache`;
over-aligned types in the page allocator; exceptions of user constructors outside the
queue. They are pure, or forbidden by an assertion, or would need data the properties do not
tell apart. What a callback of `iterate()` does with another thread's value is up to the
caller; so are arguments that change while `do_log()` measures and writes them.

Of the queue: weak memory (a model of it for eight counters and two lists is out of
TLC's reach), move and swap of consumer tokens, `size_approx()`, statistics, the debug
variants with locks, and the shared use of a recycled block by more than
two consumers at a time. Of the status codes: the Windows and COM domains, which are not
built here, message texts, `status_error` and the exceptions, the lookup of a domain by its
id, destruction at the end of the process.

Tuneables are a map from names to functions, registered by constructors and called by
`set()`; nothing in the repository calls it, and no two pieces of its state have to
agree. That the function keeps a pointer to a tuneable that may be gone
(`tuneable.cpp:20`) is listed as a hazard without a property: a model would have to invent the rule it checks.

## 7. Plan

1. Proofs about the queues of producers: `CountersAgree` and `DestructorExact` of `SubQueue`,
   from the ranges that consumers have announced and claimed and the blocks that
   hold them; then `ImplementsQueue`.
2. More proofs about the front end of the queue: the count of the used slots, from which
   `HashHasRoom` follows; how far a consumer is in the list, for `NothingMissed`.
3. Proofs about `QueueSwap` (`NothingShared`, which is inductive with the disjointness of
   producers), `CategoryDomains` (mutual exclusion, then `DomainsMatch`) and
   `StringRef` (`MessagesCounted`).
4. `Journal`, an abstract specification of the log (a set of records, growing
   at the end, each with its definitions before it), which `LogPipeline`
   implements; `ReferencesResolve` becomes part of it.
5. Cookies, disablers and the text log in the pipeline; move and swap of consumer tokens.
